----------------------------- MODULE Statistics -----------------------------
(***************************************************************************)
(* The statistics screen, internal/stats, over rounds that are being       *)
(* played, edited, reopened and deleted while it is computed: Overview     *)
(* reads the rounds in one statement and their holes in another, and       *)
(* makes every figure from the two, storing nothing.                       *)
(*                                                                         *)
(* Rounds are known newest first.  Behind the rounds that change here lie  *)
(* Older ones, finished and left alone, of which past many exist.          *)
(***************************************************************************)
EXTENDS Scorecards, Sequences, SequencesExt

CONSTANTS
    Newest,       \* ids of the rounds that change, newest first
    Game,         \* what each of them is: its length, and which nine
    FrontNine, BackNine,  \* hole numbers: 1..9 and 10..18
    Par,          \* the par of each hole from the tee they are played from, or Nil
    Rating, Slope, \* what that tee is rated, by set and gender, or Nil
    Genders,      \* what the player's profile may say: men, women, or Nil
    HolesToSave,  \* holes a client may save
    Older,        \* finished rounds behind them, newest first, each a Point
    Pasts,        \* how many of those there may be
    Windows,
    MaxSaves      \* bound on the saves of holes

Ids == ToSet(Newest)
RowStatus == {"none", "in_progress", "complete", "abandoned", "deleted"}

Sets == {"eighteen", "front", "back"}

IsCard(c) ==
    DOMAIN c \subseteq FrontNine \cup BackNine /\ \A n \in DOMAIN c : FitsCard(c[n])

IsPoint(p) ==
    /\ IsCard(p.card) /\ p.summary = Summarize(p.card)
    /\ p.differential \in {Nil} \cup Int

ASSUME StatisticsAssumption ==
    /\ Nil \notin Int
    /\ Newest \in Seq(Ids) /\ Older \in Seq(ToSet(Older))
    /\ \A r \in Ids : Game[r].holes \in {9, 18} /\ Game[r].nine \in {Nil, "front", "back"}
    /\ FrontNine \subseteq 1..9 /\ BackNine \subseteq 10..18
    /\ DOMAIN Par = FrontNine \cup BackNine /\ \A n \in DOMAIN Par : Par[n] \in {Nil} \cup 3..6
    /\ DOMAIN Rating = Sets \X {"men", "women"} /\ DOMAIN Slope = DOMAIN Rating
    /\ \A x \in DOMAIN Rating : Rating[x] \in {Nil} \cup Nat /\ Slope[x] \in {Nil} \cup Nat
    /\ Genders \subseteq {Nil, "men", "women"}
    /\ Windows \subseteq Nat /\ MaxSaves \in Nat
    /\ HolesToSave \subseteq {h \in HoleRows : FitsCard(h)}
    /\ Pasts \subseteq 0..Len(Older)
    /\ \A i \in 1..Len(Older) : IsPoint(Older[i])

VARIABLES
    status, rated, cards,  \* rounds and round_holes
    past, saves,
    view,                  \* an overview under way: the rounds it counts
    seen,                  \* history: what a round was last complete with during it
    torn                   \* history: rounds whose holes were saved, during it, while not complete

statisticsVars == <<status, rated, cards, past, saves, view, seen, torn>>

Complete(r) == status[r] = "complete"

Unrated == [rating |-> Nil, slope |-> Nil]

NothingSeen == [r \in Ids |-> Nil]

(* What an overview under way could have seen, after a write leaves status *)
(* s and cards c.                                                          *)
Seen(s, c) == [r \in Ids |-> IF view # Nil /\ s[r] = "complete" THEN c[r] ELSE seen[r]]

StatisticsInit ==
    /\ status = [r \in Ids |-> "none"]
    /\ rated = [r \in Ids |-> Unrated]
    /\ cards = [r \in Ids |-> << >>]
    /\ past \in Pasts /\ saves = 0
    /\ view = Nil /\ seen = NothingSeen /\ torn = {}

-----------------------------------------------------------------------------
(* Rounds, in other requests.                                              *)

(* A back nine keeps its numbers.                                          *)
HoleNumbers(game) ==
    IF game.holes # 9 THEN FrontNine \cup BackNine ELSE IF game.nine = "back" THEN BackNine ELSE FrontNine

(* ratingFor: the numbers published for what is played and who plays it;   *)
(* unset means men's, and a missing one is not replaced by another.        *)
RatedFor(game, gender) ==
    <<IF game.holes # 9 THEN "eighteen" ELSE IF game.nine = "back" THEN "back" ELSE "front",
      IF gender = "women" THEN "women" ELSE "men">>

(* The ratings and the pars, as they are now.                              *)
Start(r) ==
    /\ status[r] = "none"
    /\ status' = [status EXCEPT ![r] = "in_progress"]
    /\ \E gender \in Genders :
          LET x == RatedFor(Game[r], gender)
          IN rated' = [rated EXCEPT ![r] = [rating |-> Rating[x], slope |-> Slope[x]]]
    /\ cards' = [cards EXCEPT ![r] = [n \in HoleNumbers(Game[r]) |-> Untouched(Par[n])]]
    /\ seen' = Seen(status', cards')
    /\ UNCHANGED <<past, saves, view, torn>>

(* UpsertRoundHole keeps a par unless one is given.                        *)
Upserted(old, h) == [h EXCEPT !.par = IF @ = Nil THEN old.par ELSE @]

(* Whatever its status, a round's holes can be saved.                      *)
SaveHole(r, n, h) ==
    /\ status[r] \notin {"none", "deleted"} /\ n \in DOMAIN cards[r]
    /\ saves < MaxSaves /\ saves' = saves + 1
    /\ cards' = [cards EXCEPT ![r][n] = Upserted(@, h)]
    /\ seen' = Seen(status, cards')
    /\ torn' = IF view # Nil /\ ~Complete(r) THEN torn \cup {r} ELSE torn
    /\ UNCHANGED <<status, rated, past, view>>

SetRoundStatus(r, s) ==
    /\ status[r] \notin {"none", "deleted"}
    /\ s \in {"in_progress", "complete", "abandoned"}
    /\ status' = [status EXCEPT ![r] = s]
    /\ seen' = Seen(status', cards)
    /\ UNCHANGED <<rated, cards, past, saves, view, torn>>

DeleteRound(r) ==
    /\ status[r] \notin {"none", "deleted"}
    /\ status' = [status EXCEPT ![r] = "deleted"]
    /\ cards' = [cards EXCEPT ![r] = << >>]
    /\ rated' = [rated EXCEPT ![r] = Unrated]
    /\ seen' = Seen(status', cards')
    /\ UNCHANGED <<past, saves, view, torn>>

-----------------------------------------------------------------------------
(* Overview.                                                               *)

(* Mutant of Counts: any round counts.                                     *)
CountsAny(s) == s # "none"

(* Only finished rounds count.                                             *)
Counts(s) == s = "complete"

(* ListAllRounds.  (Ratings never change: they are as good read later.)    *)
ReadRounds ==
    /\ view = Nil
    /\ view' = {r \in Ids : Counts(status[r])}
    /\ seen' = [r \in Ids |-> IF Complete(r) THEN cards[r] ELSE Nil]
    /\ UNCHANGED <<status, rated, cards, past, saves, torn>>

(* One round as Overview sees it.                                          *)
Point(id, rating, c, intended) ==
    LET summary == Summarize(c) IN
      [id |-> id, card |-> c, summary |-> summary, intended |-> intended,
       differential |-> Differential(rating, summary, intended)]

(* Every round with its holes as they are now, newest first: a round       *)
(* deleted meanwhile has none.                                             *)
Points ==
    [i \in 1..Len(Newest) |->
       LET r == Newest[i] IN Point(r, rated[r], cards[r], Cardinality(HoleNumbers(Game[r])))]
      \o SubSeq(Older, 1, past)

(* The places in it of the finished rounds read.                           *)
Counted == {i \in 1..(Len(Newest) + past) : i <= Len(Newest) => Newest[i] \in view}

(* The newest few of some places.                                          *)
Latest(places, few) == {i \in places : Cardinality({j \in places : j < i}) < few}

(* A window of 0 is every round.                                           *)
Windowed(places, w) == IF w = 0 THEN places ELSE Latest(places, w)

HandicapRecordSize == 20

WithDifferential(points, places) == {i \in places : points[i].differential # Nil}

(* Mutant of DifferentialRecord: the last twenty rounds that were played.  *)
DifferentialRecordPlayed(points, places) ==
    WithDifferential(points, Latest(places, HandicapRecordSize))

(* The last twenty rounds that have a differential.                        *)
DifferentialRecord(points, places) ==
    Latest(WithDifferential(points, places), HandicapRecordSize)

(* The table for n differentials: how many of the best are averaged, and   *)
(* what is added, in tenths.                                               *)
HandicapUsing(n) ==
    CASE n < 3   -> [using |-> 0, adjustment |-> 0]
      [] n = 3   -> [using |-> 1, adjustment |-> -20]
      [] n = 4   -> [using |-> 1, adjustment |-> -10]
      [] n = 5   -> [using |-> 1, adjustment |-> 0]
      [] n = 6   -> [using |-> 2, adjustment |-> -10]
      [] n \in 7..8   -> [using |-> 2, adjustment |-> 0]
      [] n \in 9..11  -> [using |-> 3, adjustment |-> 0]
      [] n \in 12..14 -> [using |-> 4, adjustment |-> 0]
      [] n \in 15..16 -> [using |-> 5, adjustment |-> 0]
      [] n \in 17..18 -> [using |-> 6, adjustment |-> 0]
      [] n = 19  -> [using |-> 7, adjustment |-> 0]
      [] OTHER   -> [using |-> 8, adjustment |-> 0]

(* Sorting: which few of the differentials d come first, and which last.   *)
(* Equal ones may come in any order.                                       *)
Before(d, i, j) == d[i] < d[j] \/ (d[i] = d[j] /\ i < j)
Lowest(d, few) == {i \in DOMAIN d : Cardinality({j \in DOMAIN d : Before(d, j, i)}) < few}
Highest(d, few) == {i \in DOMAIN d : Cardinality({j \in DOMAIN d : Before(d, i, j)}) < few}

(* handicapFrom: the mean of the best few, and of the worst twelve.        *)
HandicapFrom(d) ==
    LET n == Cardinality(DOMAIN d)
        best == HandicapUsing(n)
        worst == IF n < 12 THEN n ELSE 12
    IN IF n = 0 THEN Nil
       ELSE [available |-> n,
             indexUsing |-> best.using,
             index |-> IF n < 3 THEN Nil
                       ELSE Rounded(SumFunctionOnSet(d, Lowest(d, best.using))
                                      + best.using * best.adjustment, best.using),
             antiCapUsing |-> IF n < 3 THEN 0 ELSE worst,
             antiCap |-> IF n < 3 THEN Nil
                         ELSE Rounded(SumFunctionOnSet(d, Highest(d, worst)), worst)]

HasScore(p) == p.summary.holesCompleted > 0
IsFull(p) == p.summary.holesCompleted = p.intended

(* A mean is its total and what that is divided by.                        *)
Mean(f) == [total |-> SumFunction(f), over |-> Cardinality(DOMAIN f)]

Added(f) ==
    [made |-> SumFunction([i \in DOMAIN f |-> f[i].made]),
     attempted |-> SumFunction([i \in DOMAIN f |-> f[i].attempted])]

(* What Overview makes of the points it shows, those at places shown.  The *)
(* series is drawn from the last place to the first.                       *)
FiguresOf(points, shown) ==
    LET full == {i \in shown : IsFull(points[i])}
    IN [series |-> [i \in shown |-> points[i]], roundsCounted |-> Cardinality(shown),
        averageScore |-> Mean([i \in full |-> points[i].summary.strokes]),
        averageToPar |-> Mean([i \in full |-> points[i].summary.toPar]),
        bestToPar |-> IF full = {} THEN Nil ELSE Min({points[i].summary.toPar : i \in full}),
        averagePutts |-> Mean([i \in shown |-> points[i].summary.putts]),
        averagePenalties |-> Mean([i \in shown |-> points[i].summary.penalties]),
        fairways |-> Added([i \in shown |-> points[i].summary.fairways]),
        greens |-> Added([i \in shown |-> points[i].summary.greens]),
        scrambles |-> Added([i \in shown |-> points[i].summary.scrambles]),
        sandSaves |-> Added([i \in shown |-> points[i].summary.sandSaves])]

(* Those of the window that have a score.                                  *)
Figures(w) ==
    LET points == Points  counted == Counted
        shown == {i \in Windowed(counted, w) : HasScore(points[i])}
    IN FiguresOf(points, shown)

(* The handicap is of every round, whatever the window.                    *)
Handicap ==
    LET points == Points  record == DifferentialRecord(points, Counted)
    IN HandicapFrom([i \in record |-> points[i].differential])

Overview(w) == [figures |-> Figures(w), handicap |-> Handicap]

(* ListAllRoundHolesByUser, and the answer: Overview, of the window asked  *)
(* for, as it is now.                                                      *)
ReadHoles ==
    /\ view # Nil
    /\ view' = Nil /\ seen' = NothingSeen /\ torn' = {}
    /\ UNCHANGED <<status, rated, cards, past, saves>>

-----------------------------------------------------------------------------
StatisticsNext ==
    \/ \E r \in Ids : Start(r) \/ DeleteRound(r)
    \/ \E r \in Ids, s \in RowStatus : SetRoundStatus(r, s)
    \/ \E r \in Ids, h \in HolesToSave : \E n \in DOMAIN cards[r] : SaveHole(r, n, h)
    \/ ReadRounds \/ ReadHoles

StatisticsSpec == StatisticsInit /\ [][StatisticsNext]_statisticsVars

-----------------------------------------------------------------------------
(* Properties.  In every state with an overview under way, its second read *)
(* may be the next step: what it would then answer is Overview.            *)

StatisticsType ==
    /\ status \in [Ids -> RowStatus]
    /\ \A r \in Ids : \/ rated[r] = Unrated
                      \/ \E x \in DOMAIN Rating : rated[r] = [rating |-> Rating[x], slope |-> Slope[x]]
    /\ \A r \in Ids : IF status[r] \in {"none", "deleted"} THEN cards[r] = << >>
                      ELSE /\ DOMAIN cards[r] = HoleNumbers(Game[r])
                           /\ \A n \in DOMAIN cards[r] : FitsCard(cards[r][n])
    /\ past \in Pasts /\ saves \in 0..MaxSaves
    /\ view = Nil \/ view \subseteq Ids
    /\ torn \subseteq Ids

(* The scores partition the holes with a score and a par, the nines add    *)
(* up, and putts on greens hit are putts.                                  *)
CardAddsUp(p) ==
    /\ SumFunctionOnSet(p.summary.scores, Results) = Cardinality(AgainstPar(p.card))
    /\ p.summary.out + p.summary.in = p.summary.strokes
    /\ p.summary.puttsOnGreens <= p.summary.putts

(* A green is hit or leaves a scramble, and nothing is made more often     *)
(* than it was attempted.  (The cards of Older rounds, whose id may be     *)
(* Nil, never change: those are not added up again in every state.)        *)
AddUp(o) ==
    /\ \A i \in DOMAIN o.series : o.series[i].id # Nil => CardAddsUp(o.series[i])
    /\ o.greens.attempted = o.greens.made + o.scrambles.attempted
    /\ \A t \in {o.fairways, o.greens, o.scrambles, o.sandSaves} : t.made <= t.attempted
    /\ o.averageScore.over <= o.roundsCounted /\ o.averageScore.over = o.averageToPar.over

(* The figures of an overview hang together, whatever its holes are and    *)
(* however little is recorded of them.                                     *)
FiguresAddUp == view # Nil => \A w \in Windows : AddUp(Figures(w))

(* h is the handicap of differentials d, or Nil, by place: index and       *)
(* anti-cap are the rounded means of that many of the lowest and of the    *)
(* highest of the last twenty there are.  The sums are counted here, value *)
(* by value, without sorting.                                              *)
IsHandicapOf(h, d) ==
    LET record == {i \in DOMAIN d : /\ d[i] # Nil
                                    /\ Cardinality({j \in DOMAIN d : j < i /\ d[j] # Nil}) < 20}
        values == {d[i] : i \in record}
        below == [v \in values |-> Cardinality({i \in record : d[i] < v})]
        equal == [v \in values |-> Cardinality({i \in record : d[i] = v})]
        n == Cardinality(record)
        (* of those equal to v, how many are among k, when rank come first *)
        taken(v, k, rank) == IF k <= rank THEN 0 ELSE IF k - rank < equal[v] THEN k - rank ELSE equal[v]
        lowest(k) == SumFunction([v \in values |-> v * taken(v, k, below[v])])
        highest(k) == SumFunction([v \in values |-> v * taken(v, k, n - below[v] - equal[v])])
        near(x, total, k) == 2 * (k * x - total) <= k /\ 2 * (total - k * x) <= k
    IN IF n = 0 THEN h = Nil
       ELSE /\ h.available = n
            /\ (h.index = Nil) = (n < 3) /\ (h.antiCap = Nil) = (n < 3)
            /\ n >= 3 =>
                 /\ near(h.index - HandicapUsing(n).adjustment, lowest(h.indexUsing), h.indexUsing)
                 /\ near(h.antiCap, highest(h.antiCapUsing), h.antiCapUsing)
                 /\ h.index <= h.antiCap
                 /\ 2 * h.indexUsing <= n /\ h.antiCapUsing <= 12

(* The handicap is that of the last twenty finished rounds that were rated *)
(* and played out, whatever the window.                                    *)
HandicapIsOfTheRecord ==
    view # Nil => LET points == Points
                  IN IsHandicapOf(Handicap, [i \in Counted |-> points[i].differential])

(* Every round an overview counts was complete, with the holes it counts,  *)
(* at some moment of its making, unless the round was reopened and its     *)
(* holes saved between the two statements.  (A deleted round has no holes, *)
(* and is not counted.)                                                    *)
CountedWasComplete ==
    view # Nil =>
      \A r \in view \ torn : status[r] = "deleted" \/ seen[r] = cards[r]

(* Overview's comment: a nine-hole card and an eighteen-hole card cannot   *)
(* be averaged together.                                                   *)
OneLengthAveraged ==
    view # Nil =>
      LET s == Figures(0).series IN
        \A i, j \in DOMAIN s : IsFull(s[i]) /\ IsFull(s[j]) => s[i].intended = s[j].intended
=============================================================================
