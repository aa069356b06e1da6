---------------------------- MODULE RateLimiter ----------------------------
(***************************************************************************)
(* internal/ratelimit: a fixed-window counter per key, kept in memory and  *)
(* read and written under one mutex, so each call is one step.             *)
(*                                                                         *)
(* A key has no bucket, one whose window is running, or one whose window   *)
(* has elapsed.  A count stops at Ceiling, which stands for every count    *)
(* from there on: Ceiling is above any number the callers compare with.    *)
(* The count of a window that has elapsed is never read again.             *)
(***************************************************************************)
EXTENDS Naturals, FiniteSets

CONSTANTS
    Keys,        \* what is counted: an address, the id of a key
    Limit,
    MaxTracked,  \* maxTrackedKeys
    Ceiling

VARIABLE buckets

NoBucket == [window |-> "none", count |-> 0]

LimiterInit == buckets = [k \in Keys |-> NoBucket]

LimiterType ==
    buckets \in [Keys -> [window : {"none", "running", "elapsed"}, count : 0..Ceiling]]

Tracked == {k \in Keys : buckets[k].window # "none"}

(* The map is full and key k is not in it: the limiter fails open.         *)
Overflows(k) == buckets[k].window = "none" /\ Cardinality(Tracked) >= MaxTracked

(* The count Allow gives k: a new window starts at one.                    *)
NextCount(k) ==
    IF buckets[k].window # "running" THEN 1
    ELSE IF buckets[k].count = Ceiling THEN Ceiling ELSE buckets[k].count + 1

Recorded(k) ==
    IF Overflows(k) THEN buckets
    ELSE [buckets EXCEPT ![k] = [window |-> "running", count |-> NextCount(k)]]

(* What Allow answers.                                                     *)
Allows(k) == Overflows(k) \/ NextCount(k) <= Limit

(* Mutant of Exceeded: one attempt too many.                               *)
ExceededLate(k) == buckets[k].window = "running" /\ buckets[k].count > Limit

(* Exceeded asks without recording.                                        *)
Exceeded(k) == buckets[k].window = "running" /\ buckets[k].count >= Limit

Elapsed(k) == [buckets EXCEPT ![k] = [window |-> "elapsed", count |-> 0]]

Swept == [k \in Keys |-> IF buckets[k].window = "elapsed" THEN NoBucket ELSE buckets[k]]
=============================================================================
