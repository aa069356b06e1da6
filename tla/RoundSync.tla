----------------------------- MODULE RoundSync -----------------------------
(***************************************************************************)
(* Playing a round on a phone: the local-first half of a live round.       *)
(*                                                                         *)
(* The live screen (web/src/pages/LiveRoundPage.tsx) writes every tap to a *)
(* queue in the browser's storage (web/src/lib/roundQueue.ts) and pushes   *)
(* the queue to PUT /rounds/{id}/holes/{n}.  Nothing serialises the        *)
(* pushes: a tap, the 20-second timer, the "online" event, the mount and   *)
(* the Finish button each start a run of flushQueue, a run works on a copy *)
(* of the queue taken when it started, and a request the browser has given *)
(* up on may still reach the server.                                       *)
(*                                                                         *)
(* One round is modelled.  A hole's scoring fields are reduced to strokes  *)
(* and putts, the two the server relates to each other.  The order in      *)
(* which a run visits the holes of its copy is left open (the code follows *)
(* the insertion order of the object's keys).                              *)
(***************************************************************************)
EXTENDS Naturals, FiniteSets

CONSTANTS
    Holes,       \* holes of the round
    Strokes,     \* scores a player may tap
    Putts,       \* putt counts a player may tap
    Flushers,    \* runs of flushQueue that may be active at once, Finish apart
    Finisher,    \* the run handleFinish awaits
    NULL,        \* a field that is not recorded
    NoEntry,     \* nothing queued for a hole
    NoHole,      \* an idle run's current hole
    NoRound,     \* nothing cached, nothing answered
    NoRows,      \* the editable rows are not seeded yet
    MaxEdits,    \* bound: taps
    MaxFaults,   \* bound: requests the browser gives up on
    MaxOpens     \* bound: times the screen is mounted

ASSUME SyncAssumption ==
    /\ Strokes \subseteq Nat
    /\ Putts \subseteq Nat
    /\ Finisher \notin Flushers
    /\ NoHole \notin Holes
    /\ MaxEdits \in Nat /\ MaxFaults \in Nat /\ MaxOpens \in Nat

Payload == [strokes : Strokes \cup {NULL}, putts : Putts \cup {NULL}]

ASSUME NoEntryAssumption == NoEntry \notin Payload

Card == [Holes -> Payload]

ASSUME NoCardAssumption == NoRound \notin Card /\ NoRows \notin Card

Blank == [strokes |-> NULL, putts |-> NULL]
BlankCard == [h \in Holes |-> Blank]
NoEntries == [h \in Holes |-> NoEntry]

Runs == Flushers \cup {Finisher}
Phases == {"idle", "sent", "committed", "answered", "refused"}

VARIABLES
    card,            \* server: round_holes of the round
    status,          \* server: rounds.status
    queue,           \* browser storage: roundly.round_queue
    cache,           \* browser storage: roundly.round_cache
    screen,          \* is the live screen mounted
    rows,            \* the screen's editable rows
    load,            \* the getRound call of the mount
    loaded,          \* the round that call was answered with
    runs,            \* the runs of flushQueue
    finish,          \* handleFinish
    strays,          \* given-up hole requests the server may still handle
    strayComplete,   \* a given-up /complete the server may still handle
    edits, faults, opens,  \* counters for the bounds
    latest,          \* history: what the player last entered for each hole
    raced,           \* history: holes re-entered while an older entry was moving
    late             \* history: holes entered while the round was being completed

serverVars == <<card, status>>
storageVars == <<queue, cache>>
screenVars == <<screen, rows, load, loaded>>
netVars == <<strays, strayComplete>>
boundVars == <<edits, faults, opens>>
historyVars == <<latest, raced, late>>
vars == <<card, status, queue, cache, screen, rows, load, loaded, runs, finish,
          strays, strayComplete, edits, faults, opens, latest, raced, late>>

Entries(q) == {h \in Holes : q[h] # NoEntry}

IdleRun == [phase |-> "idle", todo |-> NoEntries, hole |-> NoHole, last |-> NoRound]

RunType == [phase : Phases, todo : [Holes -> Payload \cup {NoEntry}],
            hole : Holes \cup {NoHole}, last : Card \cup {NoRound}]

StrayType == [hole : Holes, body : Payload]

TypeOK ==
    /\ card \in Card
    /\ status \in {"in_progress", "complete"}
    /\ queue \in [Holes -> Payload \cup {NoEntry}]
    /\ cache \in Card \cup {NoRound}
    /\ screen \in {"closed", "open"}
    /\ rows \in Card \cup {NoRows}
    /\ load \in {"none", "asked", "answered"}
    /\ loaded \in Card \cup {NoRound}
    /\ load = "answered" => loaded \in Card
    /\ runs \in [Runs -> RunType]
    /\ \A r \in Runs : runs[r].phase # "idle" =>
          /\ runs[r].hole \in Holes
          /\ runs[r].todo[runs[r].hole] # NoEntry
          /\ runs[r].phase = "answered" => runs[r].last \in Card
    /\ finish \in {"no", "flushing", "completing", "completed", "done"}
    /\ strays \subseteq StrayType
    /\ strayComplete \in BOOLEAN
    /\ edits \in Nat /\ faults \in Nat /\ opens \in Nat
    /\ latest \in Card
    /\ raced \subseteq Holes
    /\ late \subseteq Holes

Init ==
    /\ card = BlankCard /\ status = "in_progress"
    /\ queue = NoEntries /\ cache = NoRound
    /\ screen = "closed" /\ rows = NoRows /\ load = "none" /\ loaded = NoRound
    /\ runs = [r \in Runs |-> IdleRun]
    /\ finish = "no"
    /\ strays = {} /\ strayComplete = FALSE
    /\ edits = 0 /\ faults = 0 /\ opens = 0
    /\ latest = BlankCard /\ raced = {} /\ late = {}

-----------------------------------------------------------------------------
(* Mounting the screen, and the copy of the round it opens on.             *)

SeedAfterLoad(seed) == IF rows = NoRows THEN seed ELSE rows

Open ==
    /\ screen = "closed" /\ finish = "no" /\ opens < MaxOpens
    /\ screen' = "open" /\ opens' = opens + 1
    /\ rows' = IF cache = NoRound THEN NoRows ELSE cache
    /\ load' = "asked" /\ loaded' = NoRound
    /\ UNCHANGED <<serverVars, storageVars, runs, finish, netVars, edits, faults, historyVars>>

LoadAnswer ==
    /\ load = "asked"
    /\ load' = "answered" /\ loaded' = card
    /\ UNCHANGED <<serverVars, storageVars, screen, rows, runs, finish, netVars, boundVars, historyVars>>

LoadAdopt ==
    /\ load = "answered"
    /\ cache' = loaded
    /\ rows' = SeedAfterLoad(loaded)
    /\ load' = "none" /\ loaded' = NoRound
    /\ UNCHANGED <<serverVars, queue, screen, runs, finish, netVars, boundVars, historyVars>>

LoadFails ==
    /\ load = "asked" /\ faults < MaxFaults
    /\ load' = "none" /\ faults' = faults + 1
    /\ UNCHANGED <<serverVars, storageVars, screen, rows, loaded, runs, finish, netVars,
                   edits, opens, historyVars>>

(* The component unmounts; runs and an awaited handleFinish carry on.      *)
Leave ==
    /\ screen = "open"
    /\ screen' = "closed" /\ rows' = NoRows /\ load' = "none" /\ loaded' = NoRound
    /\ UNCHANGED <<serverVars, storageVars, runs, finish, netVars, boundVars, historyVars>>

StrayOf(r) == [hole |-> runs[r].hole, body |-> runs[r].todo[runs[r].hole]]

(* The browser is killed: storage survives, and any request already sent   *)
(* may still be handled.                                                   *)
Quit ==
    /\ screen = "open"
    /\ screen' = "closed" /\ rows' = NoRows /\ load' = "none" /\ loaded' = NoRound
    /\ runs' = [r \in Runs |-> IdleRun]
    /\ \E lost \in SUBSET {r \in Runs : runs[r].phase = "sent"} :
          strays' = strays \cup {StrayOf(r) : r \in {q \in Runs : runs[q].phase = "sent"} \ lost}
    /\ finish' = IF finish = "done" THEN "done" ELSE "no"
    /\ strayComplete' \in IF finish = "completing" THEN BOOLEAN ELSE {strayComplete}
    /\ UNCHANGED <<serverVars, storageVars, boundVars, historyVars>>

-----------------------------------------------------------------------------
(* A tap: the row, the queue, and a push when one can start.               *)

Sending(copy, h, last) == [phase |-> "sent", todo |-> copy, hole |-> h, last |-> last]

(* flush() when the browser thinks it is offline, or when the bound on     *)
(* simultaneous runs is reached, starts nothing.                           *)
StartsRun(q) ==
    \/ runs' = runs
    \/ \E r \in Flushers, h \in Entries(q) :
          /\ runs[r].phase = "idle"
          /\ runs' = [runs EXCEPT ![r] = Sending(q, h, NoRound)]

ScoreTaps(row) ==
    {[strokes |-> s, putts |-> IF s = NULL THEN NULL ELSE row.putts] :
        s \in Strokes \cup {NULL}}

PuttTaps(row) ==
    {[strokes |-> row.strokes, putts |-> IF row.putts = n THEN NULL ELSE n] :
        n \in {k \in Putts : row.strokes = NULL \/ k <= row.strokes}}

(* An older payload for the hole is in a run's copy or on the wire.        *)
Moving(h, p) ==
    \/ \E r \in Runs : runs[r].todo[h] \notin {NoEntry, p}
    \/ \E s \in strays : s.hole = h /\ s.body # p

Completing == finish \in {"completing", "completed"} \/ strayComplete

Edit(h, p) ==
    /\ screen = "open" /\ rows # NoRows /\ edits < MaxEdits
    /\ p \in (ScoreTaps(rows[h]) \cup PuttTaps(rows[h])) \ {rows[h]}
    /\ rows' = [rows EXCEPT ![h] = p]
    /\ queue' = [queue EXCEPT ![h] = p]
    /\ StartsRun(queue')
    /\ edits' = edits + 1
    /\ latest' = [latest EXCEPT ![h] = p]
    /\ raced' = IF Moving(h, p) THEN raced \cup {h} ELSE raced
    /\ late' = IF Completing THEN late \cup {h} ELSE late
    /\ UNCHANGED <<serverVars, cache, screen, load, loaded, finish, netVars, faults, opens>>

(* The mount, the timer and the "online" event.                            *)
Tick(r) ==
    /\ screen = "open" /\ runs[r].phase = "idle"
    /\ \E h \in Entries(queue) : runs' = [runs EXCEPT ![r] = Sending(queue, h, NoRound)]
    /\ UNCHANGED <<serverVars, storageVars, screenVars, finish, netVars, boundVars, historyVars>>

-----------------------------------------------------------------------------
(* The server's side of one hole: PUT /rounds/{id}/holes/{n}.              *)

Accepts(p) == p.strokes = NULL \/ p.putts = NULL \/ p.putts <= p.strokes

(* Mutant of Written: the COALESCE of the snapshot columns also applied to *)
(* the scoring columns, so that a cleared score is not cleared.            *)
WrittenCoalesced(h, p) ==
    [card EXCEPT ![h] =
        [strokes |-> IF p.strokes = NULL THEN card[h].strokes ELSE p.strokes,
         putts |-> IF p.putts = NULL THEN card[h].putts ELSE p.putts]]

Written(h, p) == [card EXCEPT ![h] = p]

Stepped(r, phase, last) ==
    [phase |-> phase, todo |-> runs[r].todo, hole |-> runs[r].hole, last |-> last]

Commit(r) ==
    /\ runs[r].phase = "sent"
    /\ LET h == runs[r].hole  p == runs[r].todo[h] IN
         IF Accepts(p)
         THEN /\ card' = Written(h, p)
              /\ runs' = [runs EXCEPT ![r] = Stepped(r, "committed", runs[r].last)]
         ELSE /\ card' = card
              /\ runs' = [runs EXCEPT ![r] = Stepped(r, "refused", runs[r].last)]
    /\ UNCHANGED <<status, storageVars, screenVars, finish, netVars, boundVars, historyVars>>

Answer(r) ==
    /\ runs[r].phase = "committed"
    /\ runs' = [runs EXCEPT ![r] = Stepped(r, "answered", card)]
    /\ UNCHANGED <<serverVars, storageVars, screenVars, finish, netVars, boundVars, historyVars>>

Land(s) ==
    /\ s \in strays
    /\ strays' = strays \ {s}
    /\ card' = IF Accepts(s.body) THEN Written(s.hole, s.body) ELSE card
    /\ UNCHANGED <<status, storageVars, screenVars, runs, finish, strayComplete, boundVars, historyVars>>

-----------------------------------------------------------------------------
(* flushQueue: what a run does with the outcome of its request.            *)

(* Mutant of FinishMayComplete: pendingCount is not looked at.             *)
FinishAlways(q) == TRUE

(* handleFinish's check of pendingCount after the flush it awaits.         *)
FinishMayComplete(q) == Entries(q) = {}

(* The run is over: flush() adopts the last round it was sent, handleFinish*)
(* looks at what is left in the queue instead.                             *)
EndRun(r, q, last) ==
    /\ runs' = [runs EXCEPT ![r] = IdleRun]
    /\ IF r = Finisher
       THEN /\ finish' = IF FinishMayComplete(q) THEN "completing" ELSE "no"
            /\ UNCHANGED <<cache, rows>>
       ELSE /\ cache' = IF last = NoRound THEN cache ELSE last
            /\ rows' = IF screen = "open" /\ last # NoRound THEN SeedAfterLoad(last) ELSE rows
            /\ UNCHANGED finish

(* Mutants of Pushed: the run writes back the copy it took, and the entry  *)
(* is kept when it is the one that was pushed.                             *)
PushedPutsBack(h, copy) ==
    [queue EXCEPT ![h] = IF queue[h] = copy[h] THEN NoEntry ELSE copy[h]]
PushedKeeps(h, copy) == IF queue[h] # copy[h] THEN [queue EXCEPT ![h] = NoEntry] ELSE queue

(* The queue is read again, and the entry removed only if it is still the  *)
(* payload this run pushed.                                                *)
Pushed(h, copy) == IF queue[h] = copy[h] THEN [queue EXCEPT ![h] = NoEntry] ELSE queue

Delivered(r) ==
    /\ runs[r].phase = "answered"
    /\ LET h == runs[r].hole
           rest == [runs[r].todo EXCEPT ![h] = NoEntry]
           q == Pushed(h, runs[r].todo)
       IN /\ queue' = q
          /\ IF Entries(rest) = {}
             THEN EndRun(r, q, runs[r].last)
             ELSE /\ \E g \in Entries(rest) :
                        runs' = [runs EXCEPT ![r] = Sending(rest, g, runs[r].last)]
                  /\ UNCHANGED <<cache, rows, finish>>
    /\ UNCHANGED <<serverVars, screen, load, loaded, netVars, boundVars, historyVars>>

Refused(r) ==
    /\ runs[r].phase = "refused"
    /\ EndRun(r, queue, runs[r].last)
    /\ UNCHANGED <<serverVars, queue, screen, load, loaded, netVars, boundVars, historyVars>>

(* The request or its answer is lost, or the browser stops waiting for it. *)
GiveUp(r) ==
    /\ runs[r].phase \in {"sent", "committed"} /\ faults < MaxFaults
    /\ faults' = faults + 1
    /\ strays' \in {strays} \cup
                   (IF runs[r].phase = "sent" THEN {strays \cup {StrayOf(r)}} ELSE {})
    /\ EndRun(r, queue, runs[r].last)
    /\ UNCHANGED <<serverVars, queue, screen, load, loaded, strayComplete, edits, opens, historyVars>>

-----------------------------------------------------------------------------
(* handleFinish: drain the queue, complete the round, forget it.           *)

PressFinish ==
    /\ screen = "open" /\ rows # NoRows /\ finish = "no" /\ runs[Finisher].phase = "idle"
    /\ IF Entries(queue) = {}
       THEN finish' = "completing" /\ runs' = runs
       ELSE /\ finish' = "flushing"
            /\ \E h \in Entries(queue) :
                  runs' = [runs EXCEPT ![Finisher] = Sending(queue, h, NoRound)]
    /\ UNCHANGED <<serverVars, storageVars, screenVars, netVars, boundVars, historyVars>>

CompleteCommit ==
    /\ finish = "completing"
    /\ status' = "complete" /\ finish' = "completed"
    /\ UNCHANGED <<card, storageVars, screenVars, runs, netVars, boundVars, historyVars>>

(* forgetRound drops the cache and whatever is queued, then the screen is  *)
(* navigated away from.                                                    *)
CompleteAnswered ==
    /\ finish = "completed"
    /\ finish' = "done"
    /\ cache' = NoRound /\ queue' = NoEntries
    /\ screen' = "closed" /\ rows' = NoRows /\ load' = "none" /\ loaded' = NoRound
    /\ UNCHANGED <<serverVars, runs, netVars, boundVars, historyVars>>

CompleteFails ==
    /\ finish \in {"completing", "completed"} /\ faults < MaxFaults
    /\ faults' = faults + 1
    /\ strayComplete' \in IF finish = "completing" THEN BOOLEAN ELSE {strayComplete}
    /\ finish' = "no"
    /\ UNCHANGED <<serverVars, storageVars, screenVars, runs, strays, edits, opens, historyVars>>

LandComplete ==
    /\ strayComplete
    /\ strayComplete' = FALSE
    /\ status' = "complete"
    /\ UNCHANGED <<card, storageVars, screenVars, runs, finish, strays, boundVars, historyVars>>

-----------------------------------------------------------------------------
Next ==
    \/ Open \/ LoadAnswer \/ LoadAdopt \/ LoadFails \/ Leave \/ Quit
    \/ \E h \in Holes, p \in Payload : Edit(h, p)
    \/ \E r \in Flushers : Tick(r)
    \/ \E r \in Runs : Commit(r) \/ Answer(r) \/ Delivered(r) \/ Refused(r) \/ GiveUp(r)
    \/ \E s \in strays : Land(s)
    \/ PressFinish \/ CompleteCommit \/ CompleteAnswered \/ CompleteFails \/ LandComplete

Spec == Init /\ [][Next]_vars

(* The timer fires while the screen is open and a request is eventually    *)
(* handled and answered, or given up on; only the browser's own steps and  *)
(* the server's are fair, never the player's.                              *)
Fairness ==
    /\ \A r \in Flushers : WF_vars(Tick(r))
    /\ \A r \in Runs : WF_vars(Commit(r)) /\ WF_vars(Answer(r))
                       /\ WF_vars(Delivered(r)) /\ WF_vars(Refused(r))

FairSpec == Spec /\ Fairness

-----------------------------------------------------------------------------
(* Properties.                                                             *)

(* What is queued for a hole is what the player last entered for it: a run *)
(* that finishes late never puts an older entry back (roundQueue.ts reads  *)
(* the queue again instead of writing back the copy it took).              *)
QueueHoldsNewest == \A h \in Holes : queue[h] \in {NoEntry, latest[h]}

(* A hole that leaves the queue is on the server as the player last left   *)
(* it, whatever was retried, duplicated, lost, or cut short by the browser *)
(* being killed, unless it was re-entered while an older entry was still   *)
(* moving, or entered while the round was being completed.                 *)
SettledHoleIsSaved ==
    \A h \in Holes \ (raced \cup late) : queue[h] = NoEntry => card[h] = latest[h]

(* Once handleFinish has found the queue empty, only holes entered after   *)
(* that can be in it.                                                      *)
FinishHoldsNothing == Completing => \A h \in Holes \ late : queue[h] = NoEntry

(* For a hole that was not re-entered while an older entry was moving,     *)
(* every copy on its way to the server is the last entry, and a copy the   *)
(* server has stored is still what it holds.                               *)
MovingIsLatest ==
    \A h \in Holes \ (raced \cup late) :
        /\ \A r \in Runs : runs[r].todo[h] \in {NoEntry, latest[h]}
        /\ \A s \in strays : s.hole = h => s.body = latest[h]
        /\ \A r \in Runs :
              runs[r].phase \in {"committed", "answered"} /\ runs[r].hole = h => card[h] = latest[h]

(* The inductive invariant behind SettledHoleIsSaved: the lost, duplicated *)
(* and late requests are harmless because all of them carry the last entry.*)
SyncInv == TypeOK /\ QueueHoldsNewest /\ FinishHoldsNothing /\ MovingIsLatest /\ SettledHoleIsSaved

(* A round becomes complete only with every hole saved (the check of       *)
(* pendingCount in handleFinish), under the same two exceptions.           *)
CompleteOnlyWhenSaved ==
    [][status' # status => \A h \in Holes \ (raced \cup late) : card[h] = latest[h]]_vars

(* While the screen stays open, the queue drains for good, or what is left *)
(* contains an entry the server refuses.                                   *)
DrainsUnlessRefused ==
    <>[](screen = "open") =>
        <>[](Entries(queue) = {} \/ \E h \in Entries(queue) : ~ Accepts(queue[h]))

Quiet == strays = {} /\ \A r \in Runs : runs[r].phase = "idle"

(* roundQueue.ts promises that re-entering a hole replaces what was queued *)
(* for it and that a replayed write cannot matter: once nothing is queued  *)
(* or moving, the server would hold the last entry.                        *)
LastEntryWins == Quiet /\ Entries(queue) = {} /\ late = {} => card = latest

(* The screen, its queue, the runs of flushQueue and the server keep what  *)
(* SavedRound promises, step by step.  Excused are the two exceptions.     *)
Promise == INSTANCE SavedRound
    WITH Payloads <- Payload, Nothing <- NoEntry, entered <- latest, waiting <- queue,
         saved <- card, excused <- raced \cup late, complete <- (status = "complete")

ImplementsSavedRound == Promise!Spec

(* A hole that is saved as last entered stays so until it is entered       *)
(* again, under the same two exceptions: no copy of an older entry, or of  *)
(* that one, undoes it.                                                    *)
SavedStays ==
    [][\A h \in Holes \ (raced \cup late) :
          card[h] = latest[h] /\ latest'[h] = latest[h] => card'[h] = card[h]]_vars

(* handleFinish: everything has to be on the server before the round is    *)
(* declared done, or a hole could be left behind.                          *)
NothingLeftBehind == finish = "done" /\ Quiet => \A h \in Holes \ raced : card[h] = latest[h]
=============================================================================
