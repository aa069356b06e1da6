----------------------------- MODULE MCStatistics -----------------------------
EXTENDS Statistics, TLC

CONSTANTS long, short

(* A round of both nines, one hole of each, and a back nine newer than it; *)
(* the course has no par for the tenth hole from this tee, which has no    *)
(* slope for women over both nines, and one rating for all on the back.    *)
MCNewest == <<short, long>>
MCGame == short :> [holes |-> 9, nine |-> "back"] @@ long :> [holes |-> 18, nine |-> Nil]
MCPar == 1 :> 4 @@ 10 :> Nil

MCRating == [x \in Sets \X {"men", "women"} |-> IF x[1] = "eighteen" THEN 74 ELSE 36]
MCSlope == [x \in Sets \X {"men", "women"} |->
    CASE x = <<"eighteen", "men">> -> 125 [] x = <<"eighteen", "women">> -> Nil [] OTHER -> 118]

Scored(par, strokes, putts) ==
    [Untouched(par) EXCEPT !.strokes = strokes, !.putts = putts]

(* Picked up after a fairway hit; a green hit and five putts; a sand save, *)
(* by a client that says what the par is.                                  *)
MCHolesToSave ==
    { [Untouched(Nil) EXCEPT !.tee = "hit", !.penalties = 1],
      Scored(Nil, 7, 5),
      [Scored(4, 4, 1) EXCEPT !.greensideBunker = TRUE, !.tee = "missed"] }

(* Twenty-two older rounds with one card, played from tees of different    *)
(* ratings, but for one that is unrated and one with a blank hole.         *)
MCOlder ==
    LET played(hole) == Point(Nil, Unrated, 1 :> Scored(4, 5, Nil) @@ 10 :> hole, 2)
        usual == played(Scored(4, 4, 2))
        unfinished == played(Untouched(4))
    IN [i \in 1..22 |->
          CASE i = 5 -> usual
            [] i = 9 -> unfinished
            [] OTHER -> [usual EXCEPT !.differential =
                 Differential([rating |-> 70 + ((i * 7) % 23), slope |-> 113], usual.summary, 2)]]
===============================================================================
