------------------------------ MODULE ApiKeys ------------------------------
(***************************************************************************)
(* The API keys of one user, internal/apikey: creating and revoking them,  *)
(* the guard in front of every request that presents one, its limiter of   *)
(* bad keys, and the batched writing of the time a key was last used.      *)
(*                                                                         *)
(* The guard's first six steps decide on the path and method alone and     *)
(* read no state: the requests here are those that come past them.         *)
(* Create counts in one statement and inserts in another.  The limiter,    *)
(* the set of recently noted keys and the queue to the flusher are memory, *)
(* lost when the process stops.                                            *)
(***************************************************************************)
EXTENDS Callers, Sequences, SequencesExt

CONSTANTS
    Keys,            \* ids that can be given to keys
    MaxPer,          \* API_KEY_MAX_PER_USER
    FailureLimit,
    QueueDepth,      \* lastUsedQueueDepth
    NoKey

ASSUME KeyAssumption ==
    /\ NoKey \notin Keys /\ IsFiniteSet(Keys)
    /\ MaxPer \in Nat \ {0} /\ FailureLimit \in Nat \ {0} /\ QueueDepth \in Nat

VARIABLES
    status,     \* a key's row: none yet, live, past expires_at, or revoked_at set
    failures,   \* failureLimiter, by address
    seen,       \* keys noted less than lastUsedGranularity ago
    queue,      \* the flusher's channel
    pending,    \* what the flusher took from it and has not written
    req,        \* requests being handled
    due,        \* history: keys with a use noted and not yet written or given up
    guesses     \* history: bad keys refused since an address's window began

noteVars == <<seen, queue, pending, due>>
vars == <<status, failures, seen, queue, pending, req, due, guesses>>

FailureCeiling == FailureLimit + Cardinality(Requests)

Failures == INSTANCE RateLimiter
    WITH Keys <- Addresses, Limit <- FailureLimit, Ceiling <- FailureCeiling, buckets <- failures

Idle == [phase |-> "idle", key |-> NoKey, from |-> NoAddress]

TypeOK ==
    /\ status \in [Keys -> {"none", "live", "expired", "revoked"}]
    /\ Failures!LimiterType
    /\ seen \subseteq Keys /\ pending \subseteq Keys /\ due \subseteq Keys
    /\ queue \in Seq(Keys) /\ Len(queue) <= QueueDepth
    /\ req \in [Requests -> [phase : {"idle", "creating", "checked", "sending"},
                             key : Keys \cup {NoKey}, from : Addresses \cup {NoAddress}]]
    /\ \A r \in Requests : /\ req[r].phase = "sending" => req[r].key \in Keys
                           /\ req[r].phase = "checked" => req[r].from \in Addresses
    /\ guesses \in [Addresses -> 0..FailureCeiling]

Init ==
    /\ status = [k \in Keys |-> "none"]
    /\ Failures!LimiterInit
    /\ seen = {} /\ queue = << >> /\ pending = {} /\ due = {}
    /\ req = [r \in Requests |-> Idle]
    /\ guesses = [a \in Addresses |-> 0]

Done(r) == req' = [req EXCEPT ![r] = Idle]

-----------------------------------------------------------------------------
(* Managing keys.                                                          *)

(* Mutant of Counted: keys that have expired do not count.                 *)
CountedUnexpired == {k \in Keys : status[k] = "live"}

(* CountActiveAPIKeys: an expired key counts until it is revoked.          *)
Counted == {k \in Keys : status[k] \in {"live", "expired"}}

CountKeys(r) ==
    /\ req[r].phase = "idle"
    /\ Cardinality(Counted) < MaxPer
    /\ req' = [req EXCEPT ![r].phase = "creating"]
    /\ UNCHANGED <<status, failures, noteVars, guesses>>

CreateKey(r, k) ==
    /\ req[r].phase = "creating" /\ status[k] = "none"
    /\ status' = [status EXCEPT ![k] = "live"]
    /\ Done(r)
    /\ UNCHANGED <<failures, noteVars, guesses>>

(* Loaded and updated in two statements; the update is guarded too.        *)
Revoke(k) ==
    /\ k \in Counted
    /\ status' = [status EXCEPT ![k] = "revoked"]
    /\ UNCHANGED <<failures, noteVars, req, guesses>>

Expire(k) ==
    /\ status[k] = "live"
    /\ status' = [status EXCEPT ![k] = "expired"]
    /\ UNCHANGED <<failures, noteVars, req, guesses>>

-----------------------------------------------------------------------------
(* Guard, for a request that presents a key.                               *)

(* Mutant of AfterCheck: asking is recorded as a failure.                  *)
AfterCheckRecorded(a) == Failures!Recorded(a)

AfterCheck(a) == failures

(* An address over its limit is refused before the key is looked at.       *)
Arrive(r, k, a) ==
    /\ req[r].phase = "idle"
    /\ failures' = AfterCheck(a)
    /\ IF Failures!Exceeded(a) THEN UNCHANGED req
       ELSE req' = [req EXCEPT ![r] = [phase |-> "checked", key |-> k, from |-> a]]
    /\ UNCHANGED <<status, noteVars, guesses>>

(* Unknown, revoked and expired are answered alike.                        *)
Valid(k) == k \in Keys /\ status[k] = "live"

(* Authenticate takes the key, and noteUsed, under its mutex, notes it     *)
(* unless it did lately.  A bad key does not become good, so what follows  *)
(* a refusal is part of Reject.                                            *)
Accept(r) ==
    /\ req[r].phase = "checked" /\ Valid(req[r].key)
    /\ LET k == req[r].key IN
         IF k \in seen
         THEN Done(r) /\ UNCHANGED noteVars
         ELSE /\ req' = [req EXCEPT ![r] = [phase |-> "sending", key |-> k, from |-> NoAddress]]
              /\ seen' = seen \cup {k} /\ due' = due \cup {k}
              /\ UNCHANGED <<queue, pending>>
    /\ UNCHANGED <<status, failures, guesses>>

(* The key is bad, or the lookup fails: the database errs, or the caller   *)
(* goes away.  Either is counted against the address, unless the limiter's *)
(* map is full: then nothing is, here as in guesses.                       *)
Reject(r) ==
    /\ req[r].phase = "checked"
    /\ LET a == req[r].from IN
         /\ failures' = Failures!Recorded(a)
         /\ guesses' = [guesses EXCEPT ![a] =
                          IF Failures!Overflows(a) THEN 0
                          ELSE IF guesses[a] = FailureCeiling THEN guesses[a] ELSE guesses[a] + 1]
    /\ Done(r)
    /\ UNCHANGED <<status, noteVars>>

HasRoom == Len(queue) < QueueDepth

(* noteUsed, after the mutex: a full queue drops the note.  The request    *)
(* goes on to its key's own limiter, which nothing else here reads.        *)
Enqueue(r) ==
    /\ req[r].phase = "sending"
    /\ IF HasRoom
       THEN queue' = Append(queue, req[r].key) /\ UNCHANGED due
       ELSE due' = due \ {req[r].key} /\ UNCHANGED queue
    /\ Done(r)
    /\ UNCHANGED <<status, failures, seen, pending, guesses>>

(* A caller goes away before the key it asked for is inserted.             *)
HangUp(r) ==
    /\ req[r].phase = "creating"
    /\ Done(r)
    /\ UNCHANGED <<status, failures, noteVars, guesses>>

-----------------------------------------------------------------------------
(* The flusher, the clock, and the process.                                *)

Drain ==
    /\ queue # << >> /\ pending = {}
    /\ pending' = ToSet(queue) /\ queue' = << >>
    /\ UNCHANGED <<status, failures, seen, due, req, guesses>>

(* Mutant of Touched: the flush writes nothing.                            *)
TouchedNone == {}

(* TouchAPIKeyLastUsed for every key taken, in one transaction.            *)
Touched == pending

(* Written, or logged and forgotten when the transaction fails.            *)
Flush ==
    /\ pending # {}
    /\ due' = due \ Touched /\ pending' = {}
    /\ UNCHANGED <<status, failures, seen, queue, req, guesses>>

(* lastUsedGranularity passes.                                             *)
Forget(k) ==
    /\ k \in seen
    /\ seen' = seen \ {k}
    /\ UNCHANGED <<status, failures, queue, pending, due, req, guesses>>

(* The window of an address passes.                                        *)
Elapse(a) ==
    /\ failures[a].window = "running"
    /\ failures' = Failures!Elapsed(a)
    /\ guesses' = [guesses EXCEPT ![a] = 0]
    /\ UNCHANGED <<status, noteVars, req>>

(* The janitor.                                                            *)
Sweep ==
    /\ failures' = Failures!Swept
    /\ UNCHANGED <<status, noteVars, req, guesses>>

(* The process stops and starts again.  Stopping asks for a last flush but *)
(* does not wait for it: what was due is given up.                         *)
Restart ==
    /\ failures' = [a \in Addresses |-> Failures!NoBucket]
    /\ seen' = {} /\ queue' = << >> /\ pending' = {} /\ due' = {}
    /\ req' = [r \in Requests |-> Idle]
    /\ guesses' = [a \in Addresses |-> 0]
    /\ UNCHANGED status

-----------------------------------------------------------------------------
Next ==
    \/ \E r \in Requests : CountKeys(r) \/ Accept(r) \/ Reject(r) \/ Enqueue(r) \/ HangUp(r)
    \/ \E r \in Requests, k \in Keys : CreateKey(r, k)
    \/ \E r \in Requests, k \in Keys \cup {NoKey}, a \in Addresses : Arrive(r, k, a)
    \/ \E k \in Keys : Revoke(k) \/ Expire(k) \/ Forget(k)
    \/ \E a \in Addresses : Elapse(a)
    \/ Drain \/ Flush \/ Sweep \/ Restart

(* The flusher's ticker fires for ever, and noteUsed, which waits for      *)
(* nothing, comes to its end.                                              *)
Fairness == WF_vars(Drain) /\ WF_vars(Flush) /\ \A r \in Requests : WF_vars(Enqueue(r))

Spec == Init /\ [][Next]_vars /\ Fairness

-----------------------------------------------------------------------------
(* Properties.                                                             *)

(* A user's keys that are not revoked, with those about to be inserted,    *)
(* are at most MaxPer and one for every other request creating one.        *)
Unrevoked == {k \in Keys : status[k] \notin {"none", "revoked"}}
Creating == {r \in Requests : req[r].phase = "creating"}

LiveKeysBounded ==
    Cardinality(Unrevoked) + Cardinality(Creating) < MaxPer + Cardinality(Requests)

(* Bad keys are refused to an address, in one window, FailureLimit times   *)
(* and once for each request already past the check.  (Nothing is bounded  *)
(* for an address the full map has no room for.)                           *)
GuessesBounded ==
    \A a \in Addresses : guesses[a] < FailureLimit + Cardinality(Requests)

(* An address is turned away only after that many bad keys from it: the    *)
(* requests of a working key never count against their own address.        *)
BlockedMeansGuessed ==
    \A a \in Addresses : Failures!Exceeded(a) => guesses[a] >= FailureLimit

(* A use that was noted is written, or given up to a full queue, a failed  *)
(* write or a stop: it does not wait in memory for another request.        *)
UsesGetStamped == \A k \in Keys : k \in due ~> k \notin due
=============================================================================
