-------------------------- MODULE RoundSync_proofs --------------------------
(***************************************************************************)
(* What the live round promises for any round, any number of concurrent    *)
(* runs of flushQueue and any number of faults: type correctness, the      *)
(* inductive invariant SyncInv, and from it that a hole which left the     *)
(* queue is on the server and that a round is completed with every hole    *)
(* saved, under the two exceptions the histories raced and late record.    *)
(***************************************************************************)
EXTENDS RoundSync, TLAPS

(* A blank card is a card, and an idle run is a run.                       *)
LEMMA BlankTypes ==
    /\ Blank \in Payload /\ BlankCard \in Card
    /\ NoEntries \in [Holes -> Payload \cup {NoEntry}]
    /\ IdleRun \in RunType /\ IdleRun.phase = "idle"
    /\ IdleRun.todo = NoEntries
    /\ \A h \in Holes : NoEntries[h] = NoEntry
  BY DEF Blank, Payload, BlankCard, Card, NoEntries, IdleRun, RunType, Phases

(* Taking the next entry of a copy yields a run that is sending it.        *)
LEMMA SendingType ==
    ASSUME NEW copy \in [Holes -> Payload \cup {NoEntry}], NEW h \in Entries(copy),
           NEW last \in Card \cup {NoRound}
    PROVE  /\ Sending(copy, h, last) \in RunType
           /\ Sending(copy, h, last).phase = "sent"
           /\ Sending(copy, h, last).hole = h /\ h \in Holes
           /\ Sending(copy, h, last).todo = copy
           /\ copy[h] # NoEntry
  BY DEF Sending, RunType, Phases, Entries

(* A tap yields a payload.                                                 *)
LEMMA TapType ==
    ASSUME NEW row \in Payload, NEW p \in ScoreTaps(row) \cup PuttTaps(row)
    PROVE  p \in Payload
  BY DEF ScoreTaps, PuttTaps, Payload

(* The part of TypeOK about the runs, and its preservation when one run    *)
(* changes.                                                                *)
RunOK(run) ==
    /\ run \in RunType
    /\ run.phase # "idle" =>
          /\ run.hole \in Holes
          /\ run.todo[run.hole] # NoEntry
          /\ run.phase = "answered" => run.last \in Card

LEMMA IdleOK == RunOK(IdleRun)
  BY BlankTypes DEF RunOK

LEMMA SendingOK ==
    ASSUME NEW copy \in [Holes -> Payload \cup {NoEntry}], NEW h \in Entries(copy),
           NEW last \in Card \cup {NoRound}
    PROVE  RunOK(Sending(copy, h, last))
  BY SendingType DEF RunOK

(* TypeOK with the runs stated through RunOK.                              *)
StateOK ==
    /\ card \in Card
    /\ status \in {"in_progress", "complete"}
    /\ queue \in [Holes -> Payload \cup {NoEntry}]
    /\ cache \in Card \cup {NoRound}
    /\ screen \in {"closed", "open"}
    /\ rows \in Card \cup {NoRows}
    /\ load \in {"none", "asked", "answered"}
    /\ loaded \in Card \cup {NoRound}
    /\ load = "answered" => loaded \in Card
    /\ finish \in {"no", "flushing", "completing", "completed", "done"}
    /\ strays \subseteq StrayType
    /\ strayComplete \in BOOLEAN
    /\ edits \in Nat /\ faults \in Nat /\ opens \in Nat
    /\ latest \in Card
    /\ raced \subseteq Holes
    /\ late \subseteq Holes

RunsOK == runs \in [Runs -> RunType] /\ \A r \in Runs : RunOK(runs[r])

LEMMA TypeSplit == TypeOK <=> StateOK /\ RunsOK
  BY DEF TypeOK, StateOK, RunsOK, RunOK

(* One run changes to a well-formed one.                                   *)
LEMMA RunChanges ==
    ASSUME RunsOK, NEW r \in Runs, NEW new, RunOK(new),
           runs' = [runs EXCEPT ![r] = new]
    PROVE  RunsOK'
  BY DEF RunsOK, RunOK

LEMMA WrittenType ==
    ASSUME card \in Card, NEW h \in Holes, NEW p \in Payload
    PROVE  Written(h, p) \in Card /\ Written(h, p)[h] = p
           /\ \A g \in Holes : g # h => Written(h, p)[g] = card[g]
  BY DEF Written, Card

(* What a run is sending is a payload for a hole of the round.             *)
LEMMA CurrentEntry ==
    ASSUME RunsOK, NEW r \in Runs, runs[r].phase # "idle"
    PROVE  /\ runs[r].hole \in Holes
           /\ runs[r].todo[runs[r].hole] \in Payload
           /\ StrayOf(r) \in StrayType
           /\ runs[r].todo \in [Holes -> Payload \cup {NoEntry}]
           /\ runs[r].last \in Card \cup {NoRound}
  BY DEF RunsOK, RunOK, RunType, StrayOf, StrayType

(* An active run that moves to its next phase stays well formed.           *)
LEMMA SteppedOK ==
    ASSUME RunsOK, NEW r \in Runs, runs[r].phase # "idle",
           NEW phase \in Phases, NEW last \in Card \cup {NoRound},
           phase = "answered" => last \in Card
    PROVE  RunOK(Stepped(r, phase, last))
<1>1. runs[r].todo \in [Holes -> Payload \cup {NoEntry}] /\ runs[r].hole \in Holes
      /\ runs[r].todo[runs[r].hole] # NoEntry
  BY DEF RunsOK, RunOK, RunType
<1>2. Stepped(r, phase, last) \in RunType
  BY <1>1 DEF Stepped, RunType
<1> QED BY <1>1, <1>2 DEF Stepped, RunOK

LEMMA EndRunType ==
    ASSUME StateOK, RunsOK, NEW r \in Runs, NEW q, NEW last \in Card \cup {NoRound},
           EndRun(r, q, last), UNCHANGED screen
    PROVE  /\ RunsOK'
           /\ cache' \in Card \cup {NoRound}
           /\ rows' \in Card \cup {NoRows}
           /\ finish' \in {"no", "flushing", "completing", "completed", "done"}
<1>1. RunsOK'
  BY IdleOK, RunChanges DEF EndRun
<1>2. CASE r = Finisher
  BY <1>1, <1>2 DEF EndRun, StateOK
<1>3. CASE r # Finisher
  BY <1>1, <1>3 DEF EndRun, StateOK, SeedAfterLoad
<1> QED BY <1>2, <1>3

LEMMA EditTypes ==
    ASSUME StateOK, RunsOK, NEW h \in Holes, NEW p \in Payload, Edit(h, p)
    PROVE  (StateOK /\ RunsOK)'
<1>1. queue' \in [Holes -> Payload \cup {NoEntry}]
  BY DEF Edit, StateOK
<1>2. RunsOK'
  <2>1. CASE runs' = runs
    BY <2>1 DEF RunsOK
  <2>2. CASE runs' # runs
    <3>1. PICK r \in Flushers, g \in Entries(queue') :
             runs' = [runs EXCEPT ![r] = Sending(queue', g, NoRound)]
      BY <2>2 DEF Edit, StartsRun
    <3>2. RunOK(Sending(queue', g, NoRound))
      BY <1>1, SendingOK
    <3> QED BY <3>1, <3>2, RunChanges DEF Runs
  <2> QED BY <2>1, <2>2
<1>3. StateOK'
  <2>1. latest' \in Card /\ rows' \in Card
    BY DEF Edit, StateOK, Card
  <2> QED BY <1>1, <2>1 DEF Edit, StateOK, serverVars, netVars
<1> QED BY <1>2, <1>3

(* Every step keeps the types.                                             *)
LEMMA NextTypes == TypeOK /\ [Next]_vars => TypeOK'
<1> SUFFICES ASSUME StateOK, RunsOK, [Next]_vars PROVE (StateOK /\ RunsOK)'
  BY TypeSplit, PTL
<1> USE DEF serverVars, storageVars, screenVars, netVars, boundVars, historyVars
<1>1. CASE Open \/ LoadAnswer \/ LoadAdopt \/ LoadFails \/ Leave
  <2>1. RunsOK'
    BY <1>1 DEF Open, LoadAnswer, LoadAdopt, LoadFails, Leave, RunsOK
  <2>2. StateOK'
    BY <1>1 DEF Open, LoadAnswer, LoadAdopt, LoadFails, Leave, StateOK, SeedAfterLoad
  <2> QED BY <2>1, <2>2
<1>2. CASE Quit
  <2>1. RunsOK'
    BY <1>2, IdleOK DEF Quit, RunsOK, RunOK
  <2>2. strays' \subseteq StrayType
    <3>1. \A r \in {q \in Runs : runs[q].phase = "sent"} : StrayOf(r) \in StrayType
      BY CurrentEntry
    <3> QED BY <1>2, <3>1 DEF Quit, StateOK
  <2> QED BY <1>2, <2>1, <2>2 DEF Quit, StateOK
<1>3. ASSUME NEW h \in Holes, NEW p \in Payload, Edit(h, p) PROVE (StateOK /\ RunsOK)'
  BY <1>3, EditTypes
<1>4. ASSUME NEW r \in Flushers, Tick(r) PROVE (StateOK /\ RunsOK)'
  <2>1. PICK h \in Entries(queue) : runs' = [runs EXCEPT ![r] = Sending(queue, h, NoRound)]
    BY <1>4 DEF Tick
  <2>2. RunsOK'
    BY <2>1, SendingOK, RunChanges DEF StateOK, Runs
  <2> QED BY <1>4, <2>2 DEF Tick, StateOK
<1>5. ASSUME NEW r \in Runs, Commit(r) PROVE (StateOK /\ RunsOK)'
  <2>1. RunsOK'
    <3>1. \A phase \in {"committed", "refused"} : RunOK(Stepped(r, phase, runs[r].last))
      BY <1>5, SteppedOK, CurrentEntry DEF Commit, Phases
    <3> QED BY <1>5, <3>1, RunChanges DEF Commit
  <2>2. card' \in Card
    BY <1>5, CurrentEntry, WrittenType DEF Commit, StateOK
  <2> QED BY <1>5, <2>1, <2>2 DEF Commit, StateOK
<1>6. ASSUME NEW r \in Runs, Answer(r) PROVE (StateOK /\ RunsOK)'
  <2>1. RunsOK'
    <3>1. RunOK(Stepped(r, "answered", card))
      BY <1>6, SteppedOK DEF Answer, StateOK, Phases
    <3> QED BY <1>6, <3>1, RunChanges DEF Answer
  <2> QED BY <1>6, <2>1 DEF Answer, StateOK
<1>7. ASSUME NEW r \in Runs, Delivered(r) PROVE (StateOK /\ RunsOK)'
  <2> DEFINE h == runs[r].hole
             rest == [runs[r].todo EXCEPT ![h] = NoEntry]
             q == Pushed(h, runs[r].todo)
             last == runs[r].last
  <2>1. /\ h \in Holes /\ last \in Card \cup {NoRound}
        /\ rest \in [Holes -> Payload \cup {NoEntry}]
    BY <1>7, CurrentEntry DEF Delivered
  <2>2. queue' = q /\ q \in [Holes -> Payload \cup {NoEntry}]
    BY <1>7, <2>1 DEF Delivered, Pushed, StateOK
  <2>3. CASE Entries(rest) = {}
    <3>1. EndRun(r, q, last) /\ UNCHANGED screen
      BY <1>7, <2>3 DEF Delivered
    <3> HIDE DEF h, rest, q, last
    <3>2. RunsOK' /\ cache' \in Card \cup {NoRound} /\ rows' \in Card \cup {NoRows}
          /\ finish' \in {"no", "flushing", "completing", "completed", "done"}
      BY <2>1, <3>1, EndRunType
    <3> QED BY <1>7, <2>2, <3>2 DEF Delivered, StateOK
  <2>4. CASE Entries(rest) # {}
    <3>1. PICK g \in Entries(rest) : runs' = [runs EXCEPT ![r] = Sending(rest, g, last)]
      BY <1>7, <2>4 DEF Delivered
    <3>2. UNCHANGED <<cache, rows, finish>>
      BY <1>7, <2>4 DEF Delivered
    <3> HIDE DEF h, rest, q, last
    <3>3. RunsOK'
      BY <2>1, <3>1, SendingOK, RunChanges
    <3> QED BY <1>7, <2>2, <3>2, <3>3 DEF Delivered, StateOK
  <2> QED BY <2>3, <2>4
<1>8. ASSUME NEW r \in Runs, Refused(r) PROVE (StateOK /\ RunsOK)'
  <2>1. EndRun(r, queue, runs[r].last) /\ UNCHANGED screen /\ runs[r].phase # "idle"
    BY <1>8 DEF Refused
  <2>2. RunsOK' /\ cache' \in Card \cup {NoRound} /\ rows' \in Card \cup {NoRows}
        /\ finish' \in {"no", "flushing", "completing", "completed", "done"}
    BY <2>1, CurrentEntry, EndRunType
  <2> QED BY <1>8, <2>2 DEF Refused, StateOK
<1>9. ASSUME NEW r \in Runs, GiveUp(r) PROVE (StateOK /\ RunsOK)'
  <2>1. EndRun(r, queue, runs[r].last) /\ UNCHANGED screen /\ runs[r].phase # "idle"
    BY <1>9 DEF GiveUp
  <2>2. RunsOK' /\ cache' \in Card \cup {NoRound} /\ rows' \in Card \cup {NoRows}
        /\ finish' \in {"no", "flushing", "completing", "completed", "done"}
    BY <2>1, CurrentEntry, EndRunType
  <2>3. strays' \subseteq StrayType
    BY <1>9, <2>1, CurrentEntry DEF GiveUp, StateOK
  <2> QED BY <1>9, <2>2, <2>3 DEF GiveUp, StateOK
<1>10. ASSUME NEW s \in strays, Land(s) PROVE (StateOK /\ RunsOK)'
  <2>1. card' \in Card
    BY <1>10, WrittenType DEF Land, StateOK, StrayType
  <2> QED BY <1>10, <2>1 DEF Land, StateOK, RunsOK
<1>11. CASE PressFinish
  <2>1. RunsOK'
    <3>1. CASE runs' = runs
      BY <3>1 DEF RunsOK
    <3>2. CASE runs' # runs
      <4>1. PICK h \in Entries(queue) :
               runs' = [runs EXCEPT ![Finisher] = Sending(queue, h, NoRound)]
        BY <1>11, <3>2 DEF PressFinish
      <4> QED BY <4>1, SendingOK, RunChanges DEF StateOK, Runs
    <3> QED BY <3>1, <3>2
  <2> QED BY <1>11, <2>1 DEF PressFinish, StateOK
<1>12. CASE CompleteCommit \/ CompleteAnswered \/ CompleteFails \/ LandComplete
  <2>1. RunsOK'
    BY <1>12 DEF CompleteCommit, CompleteAnswered, CompleteFails, LandComplete, RunsOK
  <2>2. StateOK'
    <3>1. CASE CompleteCommit
      BY <3>1 DEF CompleteCommit, StateOK
    <3>2. CASE CompleteAnswered
      BY <3>2, BlankTypes DEF CompleteAnswered, StateOK
    <3>3. CASE CompleteFails
      BY <3>3 DEF CompleteFails, StateOK
    <3>4. CASE LandComplete
      BY <3>4 DEF LandComplete, StateOK
    <3> QED BY <1>12, <3>1, <3>2, <3>3, <3>4
  <2> QED BY <2>1, <2>2
<1>13. CASE UNCHANGED vars
  BY <1>13 DEF vars, StateOK, RunsOK
<1> QED
  BY <1>1, <1>2, <1>3, <1>4, <1>5, <1>6, <1>7, <1>8, <1>9, <1>10, <1>11, <1>12, <1>13 DEF Next

LEMMA InitTypes == Init => TypeOK
<1> SUFFICES ASSUME Init PROVE StateOK /\ RunsOK
  BY TypeSplit
<1>1. RunsOK
  BY BlankTypes, IdleOK DEF Init, RunsOK
<1>2. StateOK
  BY BlankTypes DEF Init, StateOK
<1> QED BY <1>1, <1>2

(* The variables of the live round keep their types.                       *)
THEOREM Typing == Spec => []TypeOK
<1> QED BY InitTypes, NextTypes, PTL DEF Spec
-----------------------------------------------------------------------------
(***************************************************************************)
(* SyncInv, one hole at a time: what is queued, moving and stored for a    *)
(* hole depends on the other holes only through the queue being empty.     *)
(***************************************************************************)
HoleOK(h) ==
    /\ queue[h] \in {NoEntry, latest[h]}
    /\ Completing /\ h \notin late => queue[h] = NoEntry
    /\ h \notin raced \cup late =>
          /\ queue[h] = NoEntry => card[h] = latest[h]
          /\ \A r \in Runs : runs[r].todo[h] \in {NoEntry, latest[h]}
          /\ \A s \in strays : s.hole = h => s.body = latest[h]
          /\ \A r \in Runs :
                runs[r].phase \in {"committed", "answered"} /\ runs[r].hole = h
                    => card[h] = latest[h]

LEMMA SyncInvSplit == SyncInv <=> TypeOK /\ \A h \in Holes : HoleOK(h)
  BY DEF SyncInv, QueueHoldsNewest, FinishHoldsNothing, MovingIsLatest, SettledHoleIsSaved, HoleOK

(* A step of one run that leaves the queue, the card and the histories     *)
(* alone keeps HoleOK if the run's copy only shrinks or restarts from the  *)
(* queue.                                                                  *)
LEMMA RunStep ==
    ASSUME TypeOK, NEW h \in Holes, HoleOK(h), NEW r \in Runs, NEW new,
           runs' = [runs EXCEPT ![r] = new],
           new.todo[h] \in {NoEntry, runs[r].todo[h], queue[h]},
           new.phase \in {"committed", "answered"} /\ new.hole = h /\ h \notin raced \cup late
               => card[h] = latest[h],
           UNCHANGED <<card, queue, strays, latest, raced, late>>,
           Completing' /\ h \notin late => queue[h] = NoEntry
    PROVE  HoleOK(h)'
<1>1. \A q \in Runs : runs'[q] = IF q = r THEN new ELSE runs[q]
  BY DEF TypeOK
<1> QED BY <1>1 DEF HoleOK

(* A run that ends leaves nothing of its copy behind; when it is the one   *)
(* handleFinish awaits, completing starts only on an empty queue.          *)
LEMMA EndRunStep ==
    ASSUME TypeOK, NEW h \in Holes, HoleOK(h), NEW r \in Runs,
           NEW q \in [Holes -> Payload \cup {NoEntry}], NEW last,
           EndRun(r, q, last), queue' = q,
           q[h] \in {NoEntry, queue[h]},
           h \notin raced \cup late /\ q[h] = NoEntry => card[h] = latest[h],
           strays' = strays \/
             (runs[r].phase = "sent" /\ strays' = strays \cup {StrayOf(r)}),
           UNCHANGED <<card, strayComplete, latest, raced, late>>
    PROVE  HoleOK(h)'
<1>1. \A k \in Runs : runs'[k] = IF k = r THEN IdleRun ELSE runs[k]
  BY DEF EndRun, TypeOK
<1>2. IdleRun.todo[h] = NoEntry /\ IdleRun.phase = "idle"
  BY BlankTypes
<1>3. Completing' => Completing \/ q[h] = NoEntry
  BY DEF Completing, EndRun, FinishMayComplete, Entries
<1>4. h \notin raced \cup late => \A s \in strays' : s.hole = h => s.body = latest[h]
  <2>1. SUFFICES ASSUME h \notin raced \cup late, runs[r].phase = "sent", StrayOf(r).hole = h
                 PROVE  StrayOf(r).body = latest[h]
    BY DEF HoleOK
  <2>2. runs[r].hole = h /\ StrayOf(r).body = runs[r].todo[h]
    BY <2>1 DEF StrayOf
  <2>3. runs[r].todo[h] # NoEntry
    BY <2>1, <2>2 DEF TypeOK
  <2> QED BY <2>1, <2>2, <2>3 DEF HoleOK
<1>5. \A k \in Runs : h \notin raced \cup late =>
         /\ runs'[k].todo[h] \in {NoEntry, latest[h]}
         /\ runs'[k].phase \in {"committed", "answered"} /\ runs'[k].hole = h => card[h] = latest[h]
  BY <1>1, <1>2 DEF HoleOK
<1> QED BY <1>3, <1>4, <1>5 DEF HoleOK

LEMMA EditStep ==
    ASSUME TypeOK, NEW h \in Holes, HoleOK(h), NEW g \in Holes, NEW p \in Payload, Edit(g, p)
    PROVE  HoleOK(h)'
<1> USE DEF serverVars, netVars
<1>1. /\ queue' = [queue EXCEPT ![g] = p] /\ latest' = [latest EXCEPT ![g] = p]
      /\ raced' = IF Moving(g, p) THEN raced \cup {g} ELSE raced
      /\ late' = IF Completing THEN late \cup {g} ELSE late
      /\ UNCHANGED <<card, strays, finish, strayComplete>>
  BY DEF Edit
<1>2. Completing' = Completing
  BY <1>1 DEF Completing
<1>3. \A r \in Runs : \/ runs'[r] = runs[r]
                      \/ runs'[r].todo = queue' /\ runs'[r].phase = "sent"
  <2>1. CASE runs' = runs
    BY <2>1
  <2>2. CASE runs' # runs
    <3>1. PICK r \in Flushers, k \in Entries(queue') :
             runs' = [runs EXCEPT ![r] = Sending(queue', k, NoRound)]
      BY <2>2 DEF Edit, StartsRun
    <3>2. Sending(queue', k, NoRound).todo = queue' /\ Sending(queue', k, NoRound).phase = "sent"
      BY DEF Sending
    <3> QED BY <3>1, <3>2 DEF TypeOK
  <2> QED BY <2>1, <2>2
<1>4. CASE g = h
  <2>1. queue'[h] = p /\ latest'[h] = p /\ p # NoEntry
    BY <1>1, <1>4, NoEntryAssumption DEF TypeOK, Card
  <2>2. Completing => h \in late'
    BY <1>1, <1>4
  <2>3. ASSUME h \notin raced' PROVE /\ \A r \in Runs : runs[r].todo[h] \in {NoEntry, p}
                                    /\ \A s \in strays : s.hole = h => s.body = p
    BY <1>1, <1>4, <2>3 DEF Moving
  <2>4. h \notin raced' \cup late' => h \notin raced \cup late
    BY <1>1
  <2>5. ASSUME h \notin raced' \cup late', NEW r \in Runs,
               runs'[r].phase \in {"committed", "answered"}, runs'[r].hole = h
        PROVE  card'[h] = latest'[h]
    <3>1. runs'[r] = runs[r]
      BY <1>3, <2>5
    <3>2. runs[r].todo[h] # NoEntry
      BY <2>5, <3>1 DEF TypeOK
    <3>3. runs[r].todo[h] = p /\ runs[r].todo[h] = latest[h]
      BY <2>3, <2>4, <2>5, <3>2 DEF HoleOK
    <3>4. card[h] = latest[h]
      BY <2>4, <2>5, <3>1 DEF HoleOK
    <3> QED BY <1>1, <2>1, <3>3, <3>4
  <2>6. \A r \in Runs : h \notin raced' \cup late' => runs'[r].todo[h] \in {NoEntry, latest'[h]}
    BY <1>3, <2>1, <2>3
  <2> QED BY <1>1, <1>2, <2>1, <2>2, <2>3, <2>5, <2>6 DEF HoleOK
<1>5. CASE g # h
  <2>1. queue'[h] = queue[h] /\ latest'[h] = latest[h]
    BY <1>1, <1>5 DEF TypeOK, Card
  <2>2. (h \in raced' <=> h \in raced) /\ (h \in late' <=> h \in late)
    BY <1>1, <1>5
  <2>3. \A r \in Runs : h \notin raced \cup late =>
           /\ runs'[r].todo[h] \in {NoEntry, latest[h]}
           /\ runs'[r].phase \in {"committed", "answered"} /\ runs'[r].hole = h => card[h] = latest[h]
    BY <1>3, <2>1 DEF HoleOK
  <2> QED BY <1>1, <1>2, <2>1, <2>2, <2>3 DEF HoleOK
<1> QED BY <1>4, <1>5

(* The server stores the entry of a run or of a stray request.             *)
LEMMA CommitStep ==
    ASSUME TypeOK, NEW h \in Holes, HoleOK(h), NEW r \in Runs, Commit(r)
    PROVE  HoleOK(h)'
<1> USE DEF storageVars, netVars, historyVars
<1> DEFINE g == runs[r].hole
           p == runs[r].todo[g]
<1>1. g \in Holes /\ p \in Payload /\ p # NoEntry
  BY TypeSplit, CurrentEntry, NoEntryAssumption DEF Commit
<1>2. UNCHANGED <<queue, finish, strays, strayComplete, latest, raced, late>>
  BY DEF Commit
<1>3. Completing' = Completing
  BY <1>2 DEF Completing
<1>4. \A k \in Runs : /\ runs'[k].todo = runs[k].todo /\ runs'[k].hole = runs[k].hole
                      /\ k # r => runs'[k] = runs[k]
  BY DEF Commit, Stepped, TypeOK
<1>5. CASE Accepts(p)
  <2>1. card' = Written(g, p)
    BY <1>5 DEF Commit
  <2>2. CASE g = h
    <3>1. card'[h] = p
      BY <1>1, <2>1, <2>2, WrittenType DEF TypeOK
    <3>2. h \notin raced \cup late => p = latest[h]
      BY <1>1, <2>2 DEF HoleOK
    <3> QED BY <1>2, <1>3, <1>4, <3>1, <3>2 DEF HoleOK
  <2>3. CASE g # h
    <3>1. card'[h] = card[h]
      BY <1>1, <2>1, <2>3, WrittenType DEF TypeOK
    <3>2. \A k \in Runs : runs'[k].phase \in {"committed", "answered"} /\ runs'[k].hole = h
             => runs[k].phase \in {"committed", "answered"} /\ runs[k].hole = h
      BY <1>4, <2>3
    <3> QED BY <1>2, <1>3, <1>4, <3>1, <3>2 DEF HoleOK
  <2> QED BY <2>2, <2>3
<1>6. CASE ~ Accepts(p)
  <2>1. card' = card /\ runs'[r].phase = "refused"
    BY <1>6 DEF Commit, Stepped, TypeOK
  <2> QED BY <1>2, <1>3, <1>4, <2>1 DEF HoleOK
<1> QED BY <1>5, <1>6

LEMMA LandStep ==
    ASSUME TypeOK, NEW h \in Holes, HoleOK(h), NEW s \in strays, Land(s)
    PROVE  HoleOK(h)'
<1> USE DEF storageVars, historyVars
<1>1. UNCHANGED <<queue, runs, finish, strayComplete, latest, raced, late>> /\ strays' \subseteq strays
  BY DEF Land
<1>2. Completing' = Completing
  BY <1>1 DEF Completing
<1>3. s.hole \in Holes /\ s.body \in Payload
  BY DEF TypeOK, StrayType
<1>4. h \notin raced \cup late => card'[h] = card[h] \/ card'[h] = latest[h]
  <2>1. CASE card' = card
    BY <2>1
  <2>2. CASE card' = Written(s.hole, s.body)
    BY <1>3, <2>2, WrittenType DEF HoleOK, TypeOK
  <2> QED BY <2>1, <2>2 DEF Land
<1> QED BY <1>1, <1>2, <1>4 DEF HoleOK

LEMMA DeliveredStep ==
    ASSUME TypeOK, NEW h \in Holes, HoleOK(h), NEW r \in Runs, Delivered(r)
    PROVE  HoleOK(h)'
<1> USE DEF serverVars, netVars, historyVars
<1> DEFINE g == runs[r].hole
           rest == [runs[r].todo EXCEPT ![g] = NoEntry]
           q == Pushed(g, runs[r].todo)
           last == runs[r].last
<1>1. /\ g \in Holes /\ rest \in [Holes -> Payload \cup {NoEntry}]
      /\ runs[r].phase = "answered" /\ last \in Card \cup {NoRound}
      /\ runs[r].todo[g] \in Payload /\ runs[r].todo \in [Holes -> Payload \cup {NoEntry}]
  BY TypeSplit, CurrentEntry DEF Delivered
<1>2. queue' = q /\ q \in [Holes -> Payload \cup {NoEntry}] /\ q[h] \in {NoEntry, queue[h]}
  BY <1>1 DEF Delivered, Pushed, TypeOK
<1>3. UNCHANGED <<card, strays, strayComplete, latest, raced, late>>
  BY DEF Delivered
<1>4. h \notin raced \cup late /\ q[h] = NoEntry => card[h] = latest[h]
  <2>1. CASE g = h
    BY <1>1, <2>1 DEF HoleOK
  <2>2. CASE g # h
    BY <1>1, <2>2 DEF HoleOK, Pushed, TypeOK
  <2> QED BY <2>1, <2>2
<1>5. CASE Entries(rest) = {}
  <2>1. EndRun(r, q, last)
    BY <1>5 DEF Delivered
  <2> HIDE DEF g, rest, q, last
  <2> QED BY <1>2, <1>3, <1>4, <2>1, EndRunStep
<1>6. CASE Entries(rest) # {}
  <2>1. PICK k \in Entries(rest) : runs' = [runs EXCEPT ![r] = Sending(rest, k, last)]
    BY <1>6 DEF Delivered
  <2>2. finish' = finish /\ Completing' = Completing
    BY <1>3, <1>6 DEF Delivered, Completing
  <2>3. rest[h] \in {NoEntry, runs[r].todo[h]}
    BY <1>1
  <2>4. Sending(rest, k, last).todo = rest /\ Sending(rest, k, last).phase = "sent"
    BY DEF Sending
  <2>5. \A m \in Runs : runs'[m] = IF m = r THEN Sending(rest, k, last) ELSE runs[m]
    BY <2>1 DEF TypeOK
  <2>6. \A m \in Runs : h \notin raced \cup late =>
           /\ runs'[m].todo[h] \in {NoEntry, latest[h]}
           /\ runs'[m].phase \in {"committed", "answered"} /\ runs'[m].hole = h => card[h] = latest[h]
    BY <2>3, <2>4, <2>5 DEF HoleOK
  <2> HIDE DEF g, rest, q, last
  <2> QED BY <1>2, <1>3, <1>4, <2>2, <2>6 DEF HoleOK
<1> QED BY <1>5, <1>6

LEMMA QuitStep ==
    ASSUME TypeOK, NEW h \in Holes, HoleOK(h), Quit
    PROVE  HoleOK(h)'
<1> USE DEF serverVars, storageVars, historyVars
<1>1. UNCHANGED <<card, queue, latest, raced, late>> /\ \A r \in Runs : runs'[r] = IdleRun
  BY DEF Quit
<1>2. Completing' => Completing
  BY DEF Quit, Completing
<1>3. \A s \in strays' : s \in strays \/ \E r \in Runs : runs[r].phase = "sent" /\ s = StrayOf(r)
  BY DEF Quit
<1>4. ASSUME h \notin raced \cup late, NEW r \in Runs, runs[r].phase = "sent", StrayOf(r).hole = h
      PROVE  StrayOf(r).body = latest[h]
  BY <1>4 DEF StrayOf, TypeOK, HoleOK
<1>5. IdleRun.todo[h] = NoEntry /\ IdleRun.phase = "idle"
  BY BlankTypes
<1>6. h \notin raced \cup late => \A s \in strays' : s.hole = h => s.body = latest[h]
  BY <1>3, <1>4 DEF HoleOK
<1> QED BY <1>1, <1>2, <1>5, <1>6 DEF HoleOK

(* Every step keeps HoleOK of every hole.                                  *)
LEMMA HoleStep ==
    ASSUME TypeOK, [Next]_vars, NEW h \in Holes, HoleOK(h)
    PROVE  HoleOK(h)'
<1> USE DEF serverVars, storageVars, screenVars, netVars, boundVars, historyVars
<1>1. CASE Open \/ LoadAnswer \/ LoadAdopt \/ LoadFails \/ Leave
  <2>1. UNCHANGED <<card, queue, runs, finish, strays, strayComplete, latest, raced, late>>
    BY <1>1 DEF Open, LoadAnswer, LoadAdopt, LoadFails, Leave
  <2>2. Completing' = Completing
    BY <2>1 DEF Completing
  <2> QED BY <2>1, <2>2 DEF HoleOK
<1>2. CASE Quit
  BY <1>2, QuitStep
<1>3. ASSUME NEW g \in Holes, NEW p \in Payload, Edit(g, p) PROVE HoleOK(h)'
  BY <1>3, EditStep
<1>4. ASSUME NEW r \in Flushers, Tick(r) PROVE HoleOK(h)'
  <2>1. PICK k \in Entries(queue) : runs' = [runs EXCEPT ![r] = Sending(queue, k, NoRound)]
    BY <1>4 DEF Tick
  <2>2. Sending(queue, k, NoRound).todo = queue /\ Sending(queue, k, NoRound).phase = "sent"
    BY DEF Sending
  <2>3. Completing' = Completing /\ UNCHANGED <<card, queue, strays, latest, raced, late>>
    BY <1>4 DEF Tick, Completing
  <2> QED BY <2>1, <2>2, <2>3, RunStep DEF Runs, HoleOK
<1>5. ASSUME NEW r \in Runs, Commit(r) PROVE HoleOK(h)'
  BY <1>5, CommitStep
<1>6. ASSUME NEW r \in Runs, Answer(r) PROVE HoleOK(h)'
  <2> DEFINE new == Stepped(r, "answered", card)
  <2>1. /\ new.todo = runs[r].todo /\ new.hole = runs[r].hole /\ runs[r].phase = "committed"
        /\ runs' = [runs EXCEPT ![r] = new]
    BY <1>6 DEF Answer, Stepped
  <2>2. Completing' = Completing /\ UNCHANGED <<card, queue, strays, latest, raced, late>>
    BY <1>6 DEF Answer, Completing
  <2> HIDE DEF new
  <2> QED BY <2>1, <2>2, RunStep DEF HoleOK
<1>7. ASSUME NEW r \in Runs, Delivered(r) PROVE HoleOK(h)'
  BY <1>7, DeliveredStep
<1>8. ASSUME NEW r \in Runs, Refused(r) PROVE HoleOK(h)'
  <2>1. EndRun(r, queue, runs[r].last) /\ UNCHANGED <<card, queue, strays, strayComplete, latest, raced, late>>
    BY <1>8 DEF Refused
  <2> QED BY <2>1, EndRunStep DEF TypeOK, HoleOK
<1>9. ASSUME NEW r \in Runs, GiveUp(r) PROVE HoleOK(h)'
  <2>1. EndRun(r, queue, runs[r].last) /\ UNCHANGED <<card, queue, strayComplete, latest, raced, late>>
    BY <1>9 DEF GiveUp
  <2>2. strays' = strays \/ (runs[r].phase = "sent" /\ strays' = strays \cup {StrayOf(r)})
    BY <1>9 DEF GiveUp
  <2> QED BY <2>1, <2>2, EndRunStep DEF TypeOK, HoleOK
<1>10. ASSUME NEW s \in strays, Land(s) PROVE HoleOK(h)'
  BY <1>10, LandStep
<1>11. CASE PressFinish
  <2>1. UNCHANGED <<card, queue, strays, strayComplete, latest, raced, late>>
    BY <1>11 DEF PressFinish
  <2>2. CASE Entries(queue) = {}
    <3>1. runs' = runs /\ queue[h] = NoEntry
      BY <1>11, <2>2 DEF PressFinish, Entries
    <3> QED BY <2>1, <3>1 DEF HoleOK
  <2>3. CASE Entries(queue) # {}
    <3>1. PICK k \in Entries(queue) : runs' = [runs EXCEPT ![Finisher] = Sending(queue, k, NoRound)]
      BY <1>11, <2>3 DEF PressFinish
    <3>2. Sending(queue, k, NoRound).todo = queue /\ Sending(queue, k, NoRound).phase = "sent"
      BY DEF Sending
    <3>3. Completing' => Completing
      BY <1>11, <2>1, <2>3 DEF PressFinish, Completing
    <3> QED BY <2>1, <3>1, <3>2, <3>3, RunStep DEF Runs, HoleOK
  <2> QED BY <2>2, <2>3
<1>12. CASE CompleteCommit \/ CompleteFails \/ LandComplete
  <2>1. UNCHANGED <<card, queue, runs, strays, latest, raced, late>>
    BY <1>12 DEF CompleteCommit, CompleteFails, LandComplete
  <2>2. Completing' => Completing
    BY <1>12 DEF CompleteCommit, CompleteFails, LandComplete, Completing
  <2> QED BY <2>1, <2>2 DEF HoleOK
<1>13. CASE CompleteAnswered
  <2>1. UNCHANGED <<card, runs, strays, latest, raced, late>> /\ queue' = NoEntries
    BY <1>13 DEF CompleteAnswered
  <2>2. h \notin late => queue[h] = NoEntry
    BY <1>13 DEF CompleteAnswered, Completing, HoleOK
  <2>3. queue'[h] = NoEntry
    BY <2>1, BlankTypes
  <2> QED BY <2>1, <2>2, <2>3 DEF HoleOK
<1>14. CASE UNCHANGED vars
  BY <1>14 DEF vars, HoleOK, Completing
<1> QED
  BY <1>1, <1>2, <1>3, <1>4, <1>5, <1>6, <1>7, <1>8, <1>9, <1>10, <1>11, <1>12, <1>13, <1>14
  DEF Next

-----------------------------------------------------------------------------
(* SyncInv holds throughout: whatever is retried, duplicated, lost or cut  *)
(* short, the queue holds the newest entries and what is moving is current *)
(* except for the holes the histories name.                                *)
THEOREM SyncInvariance == Spec => []SyncInv
<1>1. Init => SyncInv
  <2> SUFFICES ASSUME Init, NEW h \in Holes PROVE HoleOK(h)
    BY InitTypes, SyncInvSplit
  <2> QED BY BlankTypes DEF Init, HoleOK, Completing
<1>2. SyncInv /\ [Next]_vars => SyncInv'
  <2> SUFFICES ASSUME SyncInv, [Next]_vars PROVE (TypeOK /\ \A h \in Holes : HoleOK(h))'
    BY SyncInvSplit, PTL
  <2>1. TypeOK'
    BY NextTypes DEF SyncInv
  <2>2. ASSUME NEW h \in Holes PROVE HoleOK(h)'
    BY SyncInvSplit, HoleStep
  <2> QED BY <2>1, <2>2
<1> QED BY <1>1, <1>2, PTL DEF Spec

(* A hole that has left the queue is on the server as the player last      *)
(* entered it (flushQueue's bookkeeping and the idempotent upsert).        *)
THEOREM SettledHoles == Spec => []SettledHoleIsSaved
<1>1. SyncInv => SettledHoleIsSaved
  BY DEF SyncInv
<1> QED BY <1>1, SyncInvariance, PTL

(* A late run never puts an older entry back into the queue.               *)
THEOREM NewestQueued == Spec => []QueueHoldsNewest
<1>1. SyncInv => QueueHoldsNewest
  BY DEF SyncInv
<1> QED BY <1>1, SyncInvariance, PTL

(* Finish completes a round only with every hole saved.                    *)
THEOREM CompletedWhenSaved == Spec => CompleteOnlyWhenSaved
<1>1. ASSUME SyncInv, [Next]_vars, status' # status, NEW h \in Holes \ (raced \cup late)
      PROVE  card[h] = latest[h]
  <2> USE DEF serverVars
  <2>1. CompleteCommit \/ LandComplete
    BY <1>1 DEF Next, vars, Open, LoadAnswer, LoadAdopt, LoadFails, Leave, Quit, Edit, Tick,
       Commit, Answer, Delivered, Refused, GiveUp, Land, PressFinish, CompleteAnswered,
       CompleteFails
  <2>2. Completing
    BY <2>1 DEF CompleteCommit, LandComplete, Completing
  <2>3. queue[h] = NoEntry
    BY <1>1, <2>2 DEF SyncInv, FinishHoldsNothing
  <2> QED BY <1>1, <2>3 DEF SyncInv, SettledHoleIsSaved
<1>2. SyncInv /\ [Next]_vars =>
         [status' # status => \A h \in Holes \ (raced \cup late) : card[h] = latest[h]]_vars
  BY <1>1
<1> QED BY <1>2, SyncInvariance, PTL DEF Spec, CompleteOnlyWhenSaved

-----------------------------------------------------------------------------
(***************************************************************************)
(* The refinement of SavedRound.  Every step of the live round is one of   *)
(* the promise's or changes nothing it speaks of; SyncInv says which, hole *)
(* by hole.                                                                *)
(***************************************************************************)

Excused == raced \cup late

(* forgetRound comes after the answer to /complete.                        *)
AnsweredIsComplete == finish = "completed" => status = "complete"

LEMMA NextAnswered == TypeOK /\ AnsweredIsComplete /\ [Next]_vars => AnsweredIsComplete'
<1> SUFFICES ASSUME TypeOK, AnsweredIsComplete, [Next]_vars PROVE AnsweredIsComplete'
  OBVIOUS
<1> USE DEF serverVars, AnsweredIsComplete
<1>1. CASE CompleteCommit \/ LandComplete
  BY <1>1 DEF CompleteCommit, LandComplete
<1>2. ASSUME NEW r \in Runs, Delivered(r) \/ Refused(r) \/ GiveUp(r)
      PROVE  AnsweredIsComplete'
  BY <1>2 DEF Delivered, Refused, GiveUp, EndRun
<1>3. CASE UNCHANGED status /\ (UNCHANGED finish \/ finish' # "completed")
  BY <1>3
<1> QED
  BY <1>1, <1>2, <1>3 DEF Next, vars, Open, LoadAnswer, LoadAdopt, LoadFails, Leave, Quit, Edit,
     Tick, Commit, Answer, Land, PressFinish, CompleteAnswered, CompleteFails

(* What the promise does not speak of may change.                          *)
LEMMA QuietKeeps ==
    ASSUME UNCHANGED <<card, status, queue, latest, raced, late>>
    PROVE  [Promise!Next]_(Promise!vars)
  BY DEF Promise!vars

(* The server stores an entry that was on its way to it.                   *)
LEMMA StoringKeeps ==
    ASSUME SyncInv, NEW h \in Holes, NEW p \in Payload,
           h \notin Excused => p = latest[h],
           card' = Written(h, p),
           UNCHANGED <<status, queue, latest, raced, late>>
    PROVE  [Promise!Next]_(Promise!vars)
<1>1. card' = [card EXCEPT ![h] = p] /\ card \in Card
  BY DEF Written, SyncInv, TypeOK
<1>2. CASE h \in Excused
  <2>1. Promise!Slip(h, p)
    BY <1>1, <1>2 DEF Promise!Slip, Excused
  <2> QED
    BY <2>1 DEF Promise!Next
<1>3. CASE h \notin Excused /\ queue[h] # NoEntry
  <2>1. Promise!Save(h)
    BY <1>1, <1>3 DEF Promise!Save
  <2> QED
    BY <2>1 DEF Promise!Next
<1>4. CASE h \notin Excused /\ queue[h] = NoEntry
  <2>1. card[h] = p
    BY <1>4 DEF SyncInv, SettledHoleIsSaved, Excused
  <2>2. card' = card
    BY <1>1, <2>1 DEF Card
  <2> QED
    BY <2>2, QuietKeeps
<1> QED
  BY <1>2, <1>3, <1>4

(* Once handleFinish found the queue empty, only excused holes wait.       *)
LEMMA NoneWaiting ==
    ASSUME SyncInv, Completing
    PROVE  Promise!NoneWaits
  BY DEF SyncInv, FinishHoldsNothing, Promise!NoneWaits

LEMMA StepKeeps ==
    ASSUME SyncInv, AnsweredIsComplete, [Next]_vars
    PROVE  [Promise!Next]_(Promise!vars)
<1> USE DEF serverVars, storageVars, historyVars
<1>0. TypeOK
  BY DEF SyncInv
<1>1. ASSUME NEW h \in Holes, NEW p \in Payload, Edit(h, p)
      PROVE  [Promise!Next]_(Promise!vars)
  <2>1. /\ latest' = [latest EXCEPT ![h] = p] /\ queue' = [queue EXCEPT ![h] = p]
        /\ UNCHANGED <<card, status>>
    BY <1>1 DEF Edit
  <2>2. (raced \cup late)' \in {raced \cup late, (raced \cup late) \cup {h}}
    BY <1>1 DEF Edit
  <2>3. Promise!Enter(h, p)
    BY <2>1, <2>2 DEF Promise!Enter
  <2> QED
    BY <2>3 DEF Promise!Next
<1>2. ASSUME NEW r \in Runs, Commit(r)
      PROVE  [Promise!Next]_(Promise!vars)
  <2> DEFINE h == runs[r].hole
             p == runs[r].todo[h]
  <2>1. h \in Holes /\ p \in Payload /\ p # NoEntry
    BY <1>0, <1>2, TypeSplit, CurrentEntry, NoEntryAssumption DEF Commit
  <2>2. h \notin Excused => p = latest[h]
    BY <2>1 DEF SyncInv, MovingIsLatest, Excused
  <2>3. UNCHANGED <<status, queue, latest, raced, late>>
    BY <1>2 DEF Commit
  <2>4. card' = card \/ card' = Written(h, p)
    BY <1>2 DEF Commit
  <2> HIDE DEF h, p
  <2> QED
    BY <2>1, <2>2, <2>3, <2>4, QuietKeeps, StoringKeeps
<1>3. ASSUME NEW s \in strays, Land(s)
      PROVE  [Promise!Next]_(Promise!vars)
  <2>1. s.hole \in Holes /\ s.body \in Payload
    BY <1>0 DEF TypeOK, StrayType
  <2>2. s.hole \notin Excused => s.body = latest[s.hole]
    BY <2>1 DEF SyncInv, MovingIsLatest, Excused
  <2>3. UNCHANGED <<status, queue, latest, raced, late>>
    BY <1>3 DEF Land
  <2>4. card' = card \/ card' = Written(s.hole, s.body)
    BY <1>3 DEF Land
  <2> QED
    BY <2>1, <2>2, <2>3, <2>4, QuietKeeps, StoringKeeps
<1>4. ASSUME NEW r \in Runs, Delivered(r)
      PROVE  [Promise!Next]_(Promise!vars)
  <2> DEFINE h == runs[r].hole
  <2>1. h \in Holes /\ runs[r].phase = "answered"
    BY <1>0, <1>4, TypeSplit, CurrentEntry DEF Delivered
  <2>2. UNCHANGED <<card, status, latest, raced, late>>
    BY <1>4 DEF Delivered
  <2>3. queue' = queue \/ queue' = [queue EXCEPT ![h] = NoEntry]
    BY <1>4 DEF Delivered, Pushed
  <2>4. h \in raced \cup late \/ card[h] = latest[h]
    BY <2>1 DEF SyncInv, MovingIsLatest
  <2>5. ASSUME queue' = [queue EXCEPT ![h] = NoEntry]  PROVE Promise!Settle(h)
    BY <2>2, <2>4, <2>5 DEF Promise!Settle
  <2> QED
    BY <2>1, <2>2, <2>3, <2>5, QuietKeeps DEF Promise!Next
<1>5. CASE CompleteCommit \/ LandComplete
  <2>1. Completing /\ status' = "complete" /\ UNCHANGED <<card, queue, latest, raced, late>>
    BY <1>5 DEF CompleteCommit, LandComplete, Completing
  <2>2. Promise!Complete
    BY <2>1, NoneWaiting DEF Promise!Complete
  <2> QED
    BY <2>2 DEF Promise!Next
<1>6. CASE CompleteAnswered
  <2>1. /\ Completing /\ status = "complete" /\ queue' = NoEntries
        /\ UNCHANGED <<card, status, latest, raced, late>>
    BY <1>6 DEF CompleteAnswered, AnsweredIsComplete, Completing
  <2>2. Promise!Forget
    BY <2>1, NoneWaiting DEF Promise!Forget, NoEntries
  <2> QED
    BY <2>2 DEF Promise!Next
<1>7. CASE UNCHANGED <<card, status, queue, latest, raced, late>>
  BY <1>7, QuietKeeps
<1> QED
  BY <1>1, <1>2, <1>3, <1>4, <1>5, <1>6, <1>7 DEF Next, vars, Open, LoadAnswer, LoadAdopt,
     LoadFails, Leave, Quit, Tick, Answer, Refused, GiveUp, PressFinish, CompleteFails

(* The phone, the network and the server keep the promise of SavedRound:   *)
(* whatever is pushed twice, lost, late or cut short, each of their steps  *)
(* is one of its steps or none, but for the two exceptions it names.       *)
THEOREM Keeps == Spec => ImplementsSavedRound
<1>1. Init => Promise!Init
  BY DEF Init, Promise!Init, BlankCard, NoEntries
<1>2. Init => AnsweredIsComplete
  BY DEF Init, AnsweredIsComplete
<1>3. SyncInv => TypeOK
  BY DEF SyncInv
<1> QED
  BY <1>1, <1>2, <1>3, SyncInvariance, NextAnswered, StepKeeps, PTL
     DEF Spec, ImplementsSavedRound, Promise!Spec

(* A hole saved as last entered stays saved until it is entered again,     *)
(* whatever else of it is still on its way: the promise says so.           *)
THEOREM SavedHolesStay == Spec => SavedStays
<1>1. ASSUME TypeOK, [Promise!Next]_(Promise!vars), NEW h \in Holes \ (raced \cup late),
             card[h] = latest[h], latest'[h] = latest[h]
      PROVE  card'[h] = card[h]
  <2>1. card \in Card
    BY <1>1 DEF TypeOK
  <2>2. ASSUME NEW g \in Holes, Promise!Save(g)  PROVE card'[h] = card[h]
    BY <1>1, <2>1, <2>2 DEF Promise!Save, Card
  <2>3. ASSUME NEW g \in Holes, NEW p \in Payload, Promise!Slip(g, p)  PROVE card'[h] = card[h]
    BY <1>1, <2>1, <2>3 DEF Promise!Slip, Card
  <2>4. CASE UNCHANGED card
    BY <2>4
  <2> QED
    BY <1>1, <2>2, <2>3, <2>4 DEF Promise!Next, Promise!vars, Promise!Enter, Promise!Settle,
       Promise!Complete, Promise!Forget
<1>2. SyncInv /\ AnsweredIsComplete /\ [Next]_vars =>
         [\A h \in Holes \ (raced \cup late) :
             card[h] = latest[h] /\ latest'[h] = latest[h] => card'[h] = card[h]]_vars
  BY <1>1, StepKeeps DEF SyncInv
<1>3. Init => AnsweredIsComplete
  BY DEF Init, AnsweredIsComplete
<1>4. SyncInv => TypeOK
  BY DEF SyncInv
<1> QED
  BY <1>2, <1>3, <1>4, SyncInvariance, NextAnswered, PTL DEF Spec, SavedStays
=============================================================================
