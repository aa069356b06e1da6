----------------------------- MODULE SavedRound -----------------------------
(***************************************************************************)
(* What the live round promises, whatever the network does to it: a hole   *)
(* waits with the entry made last until that entry is on the server, the   *)
(* server is given nothing but the entry made last, and the round is       *)
(* declared done, and forgotten, with no hole waiting.  An entry may find  *)
(* the hole it is for excused from this, and stays excused: the holes for  *)
(* which older entries, or the end of the round, are still under way.      *)
(***************************************************************************)
CONSTANTS
    Holes,
    Payloads, \* what can be entered for a hole
    Blank,    \* the entry of a hole nothing was entered for
    Nothing   \* of a hole for which nothing waits

VARIABLES
    entered,  \* what the player entered last, by hole
    waiting,  \* what waits to be saved
    saved,    \* what the server has
    excused,
    complete

vars == <<entered, waiting, saved, excused, complete>>

Init ==
    /\ entered = [h \in Holes |-> Blank] /\ saved = entered
    /\ waiting = [h \in Holes |-> Nothing]
    /\ excused = {} /\ complete = FALSE

Enter(h, p) ==
    /\ entered' = [entered EXCEPT ![h] = p] /\ waiting' = [waiting EXCEPT ![h] = p]
    /\ excused' \in {excused, excused \cup {h}}
    /\ UNCHANGED <<saved, complete>>

Save(h) ==
    /\ waiting[h] # Nothing
    /\ saved' = [saved EXCEPT ![h] = entered[h]]
    /\ UNCHANGED <<entered, waiting, excused, complete>>

(* A hole waits no longer once what was entered is there.                  *)
Settle(h) ==
    /\ h \in excused \/ saved[h] = entered[h]
    /\ waiting' = [waiting EXCEPT ![h] = Nothing]
    /\ UNCHANGED <<entered, saved, excused, complete>>

(* An entry that is not the last one reaches the server.                   *)
Slip(h, p) ==
    /\ h \in excused
    /\ saved' = [saved EXCEPT ![h] = p]
    /\ UNCHANGED <<entered, waiting, excused, complete>>

NoneWaits == \A h \in Holes \ excused : waiting[h] = Nothing

Complete ==
    /\ NoneWaits /\ complete' = TRUE
    /\ UNCHANGED <<entered, waiting, saved, excused>>

Forget ==
    /\ complete /\ NoneWaits
    /\ waiting' = [h \in Holes |-> Nothing]
    /\ UNCHANGED <<entered, saved, excused, complete>>

Next ==
    \/ \E h \in Holes : Save(h) \/ Settle(h)
    \/ \E h \in Holes, p \in Payloads : Enter(h, p) \/ Slip(h, p)
    \/ Complete \/ Forget

Spec == Init /\ [][Next]_vars
=============================================================================
