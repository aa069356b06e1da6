----------------------------- MODULE Scorecards -----------------------------
(***************************************************************************)
(* The figures of one round, internal/round/stats.go: pure functions of    *)
(* its holes, computed on every read and stored nowhere.                   *)
(*                                                                         *)
(* A card gives every hole of a round what the course said and what        *)
(* happened.  Nil stands for a null column.  The tee club and the first    *)
(* putt's length matter only in that there is one: that is "noted".        *)
(* Ratings and differentials are counted in tenths, as they are published. *)
(***************************************************************************)
EXTENDS Integers, FiniteSets, FiniteSetsExt

CONSTANT Nil

(* What UpsertRoundHole and validateHole let a hole be.                    *)
HoleRows ==
    [par : {Nil} \cup 3..6, strokes : {Nil} \cup 1..20, putts : {Nil} \cup 0..10,
     tee : {Nil, "hit", "missed"}, noted : BOOLEAN,
     fairwayBunker : BOOLEAN, greensideBunker : BOOLEAN, penalties : 0..10]

FitsCard(h) == h \in HoleRows /\ (h.strokes # Nil /\ h.putts # Nil => h.putts <= h.strokes)

(* snapshotHole: a hole as Start creates it.                               *)
Untouched(par) ==
    [par |-> par, strokes |-> Nil, putts |-> Nil, tee |-> Nil, noted |-> FALSE,
     fairwayBunker |-> FALSE, greensideBunker |-> FALSE, penalties |-> 0]

IsBlank(h) == h = Untouched(h.par)

GreenInRegulation(h) == h.strokes - h.putts <= h.par - 2

Results == {"eagleOrBetter", "birdie", "par", "bogey", "doubleOrWorse"}

(* Mutant of Result: a triple is in no group.                              *)
ResultOfMost(toPar) ==
    CASE toPar <= -2 -> "eagleOrBetter"
      [] toPar = -1  -> "birdie"
      [] toPar = 0   -> "par"
      [] toPar = 1   -> "bogey"
      [] toPar = 2   -> "doubleOrWorse"
      [] OTHER       -> "none"

(* ScoreCounts.add                                                         *)
Result(toPar) ==
    CASE toPar <= -2 -> "eagleOrBetter"
      [] toPar = -1  -> "birdie"
      [] toPar = 0   -> "par"
      [] toPar = 1   -> "bogey"
      [] OTHER       -> "doubleOrWorse"

Tally(made, attempted) == [made |-> Cardinality(made), attempted |-> Cardinality(attempted)]

(* Which holes of a card each figure is taken over.  A blank hole is in    *)
(* none; a hole without a score counts for accuracy and penalties only;    *)
(* greens, scrambles and sand saves need par, score and putts together.    *)
Recorded(card) == {n \in DOMAIN card : ~IsBlank(card[n])}
Completed(card) == {n \in Recorded(card) : card[n].strokes # Nil}
AgainstPar(card) == {n \in Completed(card) : card[n].par # Nil}
Measured(card) == {n \in AgainstPar(card) : card[n].putts # Nil}
Driven(card) == {n \in Recorded(card) : card[n].par # Nil /\ card[n].par >= 4 /\ card[n].tee # Nil}

Strokes(card, S) == SumFunctionOnSet([n \in DOMAIN card |-> card[n].strokes], S)
Putts(card, S) == SumFunctionOnSet([n \in DOMAIN card |-> card[n].putts], S)

Summarize(card) ==
    LET recorded == Recorded(card)  completed == Completed(card)
        scored == AgainstPar(card)  measured == Measured(card)
        greens == {n \in measured : GreenInRegulation(card[n])}
        sandy == {n \in measured : card[n].greensideBunker}
        putted == {n \in recorded : card[n].putts # Nil}
        Saved(S) == {n \in S : card[n].strokes <= card[n].par}
        par == SumFunction([n \in scored |-> card[n].par])
    IN [holesRecorded |-> Cardinality(recorded), holesCompleted |-> Cardinality(completed),
        strokes |-> Strokes(card, completed), par |-> par,
        toPar |-> Strokes(card, completed) - par,
        putts |-> Putts(card, putted),
        out |-> Strokes(card, {n \in completed : n <= 9}),
        in |-> Strokes(card, {n \in completed : n > 9}),
        fairways |-> Tally({n \in Driven(card) : card[n].tee = "hit"}, Driven(card)),
        greens |-> Tally(greens, measured),
        scrambles |-> Tally(Saved(measured \ greens), measured \ greens),
        sandSaves |-> Tally(Saved(sandy), sandy),
        penalties |-> SumFunction([n \in recorded |-> card[n].penalties]),
        fairwayBunkers |-> Cardinality({n \in recorded : card[n].fairwayBunker}),
        greensideBunkers |-> Cardinality({n \in recorded : card[n].greensideBunker}),
        scores |-> [x \in Results |->
            Cardinality({n \in scored : Result(card[n].strokes - card[n].par) = x})],
        puttsOnGreens |-> Putts(card, greens)]

(* a / b, rounded half away from zero, for b > 0.                          *)
Rounded(a, b) == IF a >= 0 THEN (2 * a + b) \div (2 * b) ELSE -((b - 2 * a) \div (2 * b))

(* DifferentialFor: Nil unless every hole is scored and the tee was rated. *)
Differential(rated, summary, intended) ==
    IF \/ rated.rating = Nil \/ rated.slope \in {Nil, 0}
       \/ intended = 0 \/ summary.holesCompleted # intended THEN Nil
    ELSE Rounded(113 * (10 * summary.strokes - rated.rating), rated.slope)
=============================================================================
