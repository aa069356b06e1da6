------------------------------ MODULE Callers ------------------------------
(***************************************************************************)
(* Who asks, and from where, for the modules whose requests are counted by *)
(* a limiter of internal/ratelimit: ApiKeys and SignIns.                   *)
(***************************************************************************)
EXTENDS Naturals, FiniteSets

CONSTANTS
    Requests,    \* requests being handled at once
    Addresses,   \* what clientIP makes of where requests come from
    MaxTracked,  \* maxTrackedKeys, of every limiter
    NoAddress

ASSUME CallerAssumption ==
    /\ NoAddress \notin Addresses
    /\ IsFiniteSet(Requests) /\ MaxTracked \in Nat
=============================================================================
