----------------------------- MODULE OneTimeCode -----------------------------
(***************************************************************************)
(* What a mailed code promises, whatever statements the server takes:      *)
(* issuing one closes the others, a redemption begins only on a code that  *)
(* is still valid, opens one session at most, and leaves the code closed;  *)
(* a closed code is never valid again.                                     *)
(***************************************************************************)
EXTENDS Naturals

CONSTANTS
    Codes,      \* codes that can be issued
    Claimants,  \* redemptions at once
    None

VARIABLES
    issued,  \* codes that were sent
    valid,   \* codes a redemption may begin on
    claim,   \* the code each redemption is for
    opened   \* sessions opened, per code

vars == <<issued, valid, claim, opened>>

Init ==
    /\ issued = {} /\ valid = {}
    /\ claim = [p \in Claimants |-> None]
    /\ opened = [c \in Codes |-> 0]

(* A new code is sent, and is the only valid one.                          *)
Issue(c) ==
    /\ c \notin issued
    /\ issued' = issued \cup {c} /\ valid' = {c}
    /\ UNCHANGED <<claim, opened>>

Claim(p, c) ==
    /\ claim[p] = None /\ c \in valid
    /\ claim' = [claim EXCEPT ![p] = c]
    /\ UNCHANGED <<issued, valid, opened>>

(* A session is opened for a code claimed while it was valid.              *)
Redeem(p) ==
    /\ claim[p] # None
    /\ valid' = valid \ {claim[p]}
    /\ opened' = [opened EXCEPT ![claim[p]] = @ + 1]
    /\ claim' = [claim EXCEPT ![p] = None]
    /\ UNCHANGED issued

(* A redemption is refused or abandoned, which may cost the code.          *)
GiveUp(p) ==
    /\ claim[p] # None
    /\ valid' \in {valid, valid \ {claim[p]}}
    /\ claim' = [claim EXCEPT ![p] = None]
    /\ UNCHANGED <<issued, opened>>

(* A code is used up, guessed at too often, or too old.                    *)
Close(c) ==
    /\ c \in valid
    /\ valid' = valid \ {c}
    /\ UNCHANGED <<issued, claim, opened>>

Next ==
    \/ \E c \in Codes : Issue(c) \/ Close(c)
    \/ \E p \in Claimants : Redeem(p) \/ GiveUp(p)
    \/ \E p \in Claimants, c \in Codes : Claim(p, c)

Spec == Init /\ [][Next]_vars
=============================================================================
