----------------------------- MODULE Challenges -----------------------------
(***************************************************************************)
(* Sign-in codes of one user: email_challenges rows of purpose "login" and *)
(* the recovery codes that may be given instead.                           *)
(*                                                                         *)
(* internal/auth/challenge.go and recovery.go decide on a row they read in *)
(* one statement, then charge an attempt, consume the row and open the     *)
(* session in further ones; requests interleave between statements, and a  *)
(* request whose caller hangs up stops between two of them.                *)
(*                                                                         *)
(* Whether a guess is right is chosen when it is made.                     *)
(***************************************************************************)
EXTENDS Naturals, FiniteSets

CONSTANTS
    Ids,          \* challenges that can be issued
    Codes,        \* recovery codes that can be minted
    SheetSize,    \* recovery codes on a sheet (recoveryCodeCount)
    Requests,     \* requests being handled at once
    MaxAttempts,  \* maxCodeAttempts
    MaxSends,     \* maxChallengesPerWindow
    NoId, NoCode

ASSUME ChallengeAssumption ==
    /\ NoId \notin Ids /\ NoCode \notin Codes
    /\ MaxAttempts \in Nat \ {0} /\ MaxSends \in Nat \ {0} /\ SheetSize \in Nat
    /\ IsFiniteSet(Requests) /\ IsFiniteSet(Ids)

VARIABLES
    made,       \* rows of email_challenges
    consumed,   \* those with consumed_at set
    expired,    \* those past expires_at
    used,       \* ids that were ever given to a row
    attempts,   \* the attempts column
    unspent,    \* recovery_codes rows with consumed_at NULL
    minted,     \* recovery codes ever put on a sheet
    req,        \* requests between two statements
    recent,     \* messages sent within challengeSendWindow, whether their rows are left or not
    compared,   \* history: guesses compared, per challenge
    grants,     \* history: sessions opened, per challenge
    spends,     \* history: sessions opened, per recovery code
    raced,      \* history: challenges two requests held at once
    shared      \* history: recovery codes two requests found unspent at once

rowVars == <<made, consumed, expired, recent, used, attempts>>
codeVars == <<unspent, minted>>
historyVars == <<compared, grants, spends, raced, shared>>
vars == <<made, consumed, expired, recent, used, attempts, unspent, minted, req,
          compared, grants, spends, raced, shared>>

Phases == {"idle", "cleared", "loaded", "charged", "matched", "found", "spent", "redeemed"}

Idle == [phase |-> "idle", id |-> NoId, code |-> NoCode, right |-> FALSE]

RequestType == [phase : Phases, id : Ids \cup {NoId}, code : Codes \cup {NoCode}, right : BOOLEAN]

TypeOK ==
    /\ used \subseteq Ids /\ made \subseteq used
    /\ consumed \subseteq made /\ expired \subseteq made
    /\ recent \subseteq used /\ made \ expired \subseteq recent
    /\ attempts \in [Ids -> Nat]
    /\ minted \subseteq Codes /\ unspent \subseteq minted
    /\ req \in [Requests -> RequestType]
    /\ \A r \in Requests : req[r].phase \notin {"idle", "cleared"} => req[r].id \in used
    /\ \A r \in Requests : req[r].phase \in {"found", "spent"} => req[r].code \in minted
    /\ compared \in [Ids -> Nat] /\ grants \in [Ids -> Nat]
    /\ spends \in [Codes -> Nat]
    /\ raced \subseteq used /\ shared \subseteq minted

Init ==
    /\ made = {} /\ consumed = {} /\ expired = {} /\ recent = {} /\ used = {}
    /\ attempts = [c \in Ids |-> 0]
    /\ unspent = {} /\ minted = {}
    /\ req = [r \in Requests |-> Idle]
    /\ compared = [c \in Ids |-> 0] /\ grants = [c \in Ids |-> 0]
    /\ spends = [k \in Codes |-> 0]
    /\ raced = {} /\ shared = {}

At(r, phase) ==
    req' = [req EXCEPT ![r] =
              [phase |-> phase, id |-> req[r].id, code |-> req[r].code, right |-> req[r].right]]

Done(r) == req' = [req EXCEPT ![r] = Idle]

Holding(c) == {r \in Requests : req[r].id = c}
Finding(k) == {r \in Requests : req[r].phase = "found" /\ req[r].code = k}

-----------------------------------------------------------------------------
(* issueChallenge: count, then retire and create in one transaction.       *)

(* Mutant of MaySend: only the codes still valid are counted.              *)
MaySendOutstanding == Cardinality(recent \cap (made \ consumed)) < MaxSends

(* CountRecentEmailChallenges counts rows, against maxChallengesPerWindow. *)
MaySend == Cardinality(recent \cap made) < MaxSends

Count(r) ==
    /\ req[r].phase = "idle"
    /\ MaySend
    /\ At(r, "cleared")
    /\ UNCHANGED <<rowVars, codeVars, historyVars>>

Outstanding == made \ consumed

(* Mutant of Retired: the codes sent before stay valid.                    *)
RetiredNone == {}

(* ConsumeOutstandingEmailChallenges.                                      *)
Retired == Outstanding

Create(r, c) ==
    /\ req[r].phase = "cleared" /\ c \notin used
    /\ made' = made \cup {c} /\ used' = used \cup {c} /\ recent' = recent \cup {c}
    /\ consumed' = consumed \cup Retired
    /\ Done(r)
    /\ UNCHANGED <<expired, attempts, codeVars, historyVars>>

-----------------------------------------------------------------------------
(* chargeChallengeAttempt, shared by a mailed code and a recovery code.    *)

(* Mutant of Open: a consumed row is not refused.                          *)
OpenThoughConsumed(c) == c \in made \ expired /\ attempts[c] < MaxAttempts

Open(c) == c \in made \ (consumed \cup expired) /\ attempts[c] < MaxAttempts

(* The row is read, and refused or not on what was read.                   *)
Load(r, c, k, right) ==
    /\ req[r].phase = "idle" /\ Open(c)
    /\ k # NoCode => k \in minted /\ right = TRUE
    /\ req' = [req EXCEPT ![r] = [phase |-> "loaded", id |-> c, code |-> k, right |-> right]]
    /\ raced' = IF Holding(c) = {} THEN raced ELSE raced \cup {c}
    /\ UNCHANGED <<rowVars, codeVars, compared, grants, spends, shared>>

(* Mutant of Charged: a recovery code is not charged for.                  *)
ChargedMailedOnly(c, k) == IF k = NoCode THEN attempts[c] + 1 ELSE attempts[c]

Charged(c, k) == attempts[c] + 1

(* The attempt is charged before the answer is looked at.                  *)
Charge(r) ==
    /\ req[r].phase = "loaded"
    /\ LET c == req[r].id IN
         /\ attempts' = IF c \in made THEN [attempts EXCEPT ![c] = Charged(c, req[r].code)]
                                      ELSE attempts
         /\ compared' = [compared EXCEPT ![c] = compared[c] + 1]
    /\ \/ req[r].code # NoCode /\ At(r, "charged")
       \/ req[r].code = NoCode /\ req[r].right /\ At(r, "matched")
       \/ req[r].code = NoCode /\ ~ req[r].right /\ Done(r)
    /\ UNCHANGED <<made, consumed, expired, recent, used, codeVars, grants, spends, raced, shared>>

(* ConsumeEmailChallenge is guarded on consumed_at IS NULL, and the number *)
(* of rows it changed is not looked at.                                    *)
ConsumeRow(c) == consumed' = IF c \in made THEN consumed \cup {c} ELSE consumed

Consume(r) ==
    /\ req[r].phase = "matched"
    /\ ConsumeRow(req[r].id)
    /\ At(r, "redeemed")
    /\ UNCHANGED <<made, expired, recent, used, attempts, codeVars, historyVars>>

(* RedeemRecoveryCode: the unused codes are read, then the one that        *)
(* matched is spent, then the challenge.                                   *)
Match(r) ==
    /\ req[r].phase = "charged"
    /\ IF req[r].code \in unspent
       THEN /\ At(r, "found")
            /\ shared' = IF Finding(req[r].code) = {} THEN shared ELSE shared \cup {req[r].code}
       ELSE /\ Done(r)
            /\ UNCHANGED shared
    /\ UNCHANGED <<rowVars, codeVars, compared, grants, spends, raced>>

(* Mutant of Spent: the matched code stays on the sheet.                   *)
SpentNone(k) == unspent

(* ConsumeRecoveryCode, guarded on consumed_at IS NULL like the challenge. *)
Spent(k) == unspent \ {k}

SpendCode(r) ==
    /\ req[r].phase = "found"
    /\ unspent' = Spent(req[r].code)
    /\ At(r, "spent")
    /\ UNCHANGED <<rowVars, minted, historyVars>>

SpendChallenge(r) ==
    /\ req[r].phase = "spent"
    /\ ConsumeRow(req[r].id)
    /\ At(r, "redeemed")
    /\ UNCHANGED <<made, expired, recent, used, attempts, codeVars, historyVars>>

(* issueSession.                                                           *)
Grant(r) ==
    /\ req[r].phase = "redeemed"
    /\ LET c == req[r].id  k == req[r].code IN
         /\ grants' = [grants EXCEPT ![c] = grants[c] + 1]
         /\ spends' = IF k = NoCode THEN spends ELSE [spends EXCEPT ![k] = spends[k] + 1]
    /\ Done(r)
    /\ UNCHANGED <<rowVars, codeVars, compared, raced, shared>>

(* The caller hangs up, a later statement fails, or the new address does   *)
(* not match the challenge's.                                              *)
HangUp(r) ==
    /\ req[r].phase # "idle"
    /\ Done(r)
    /\ UNCHANGED <<rowVars, codeVars, historyVars>>

-----------------------------------------------------------------------------
(* regenerateRecoveryCodes, one transaction.                               *)
Regenerate ==
    /\ \E sheet \in SUBSET (Codes \ minted) :
          /\ Cardinality(sheet) = SheetSize
          /\ unspent' = sheet /\ minted' = minted \cup sheet
    /\ UNCHANGED <<rowVars, req, historyVars>>

(* ClearRecoveryCodes, when two-factor is switched off.                    *)
ClearSheet ==
    /\ unspent # {}
    /\ unspent' = {}
    /\ UNCHANGED <<rowVars, minted, req, historyVars>>

Expire(c) ==
    /\ c \in made \ expired
    /\ expired' = expired \cup {c}
    /\ UNCHANGED <<made, consumed, recent, used, attempts, codeVars, req, historyVars>>

(* A message leaves the window after an hour, its code after ten minutes.  *)
Age(c) ==
    /\ c \in recent /\ (c \in made => c \in expired)
    /\ recent' = recent \ {c}
    /\ UNCHANGED <<made, consumed, expired, used, attempts, codeVars, req, historyVars>>

(* PurgeExpired: the sweep deletes the expired rows, those of messages     *)
(* still within the window too.  StartJanitor's ticker sweeps once an      *)
(* hour, so whatever the sweep before forgot has left the window.          *)
Purge ==
    /\ expired # {} /\ recent \subseteq made
    /\ made' = made \ expired /\ consumed' = consumed \ expired
    /\ expired' = {}
    /\ UNCHANGED <<recent, used, attempts, codeVars, req, historyVars>>

-----------------------------------------------------------------------------
Next ==
    \/ \E r \in Requests : Count(r) \/ Charge(r) \/ Consume(r) \/ Match(r) \/ SpendCode(r)
                           \/ SpendChallenge(r) \/ Grant(r) \/ HangUp(r)
    \/ \E r \in Requests, c \in Ids : Create(r, c)
    \/ \E r \in Requests, c \in Ids, k \in Codes \cup {NoCode}, right \in BOOLEAN :
          Load(r, c, k, right)
    \/ Regenerate \/ ClearSheet
    \/ \E c \in Ids : Expire(c) \/ Age(c)
    \/ Purge

Spec == Init /\ [][Next]_vars

-----------------------------------------------------------------------------
(* Properties.                                                             *)

(* However often a code is asked for again, at most one is accepted.       *)
OneOutstanding == \A c, d \in Outstanding : c = d

Closed(c) == c \notin made \/ c \in consumed \cup expired \/ attempts[c] >= MaxAttempts

Dead == {c \in used : Closed(c) /\ Holding(c) = {}}

(* A challenge that was retired, spent, outlived or guessed at too often   *)
(* opens nothing afterwards, with the right code or a recovery code: only  *)
(* a request that had already read it can still turn it into a session.    *)
DeadOpensNothing == [][Dead \subseteq Dead' /\ \A c \in Dead : grants'[c] = grants[c]]_vars

(* A challenge opens one session, unless two requests held it at once.     *)
RedeemedOnceUnlessRaced == \A c \in Ids \ raced : grants[c] <= 1

(* A recovery code opens one session, whatever is hung up on or started    *)
(* over, unless two requests found it unspent at once.                     *)
RecoveryOnceUnlessShared == \A k \in Codes \ shared : spends[k] <= 1

(* Guesses at a challenge, mailed codes and recovery codes together, are   *)
(* bounded by the cap and the requests that can have read the count before *)
(* any of them raised it.                                                  *)
GuessesBounded == \A c \in Ids : compared[c] < MaxAttempts + Cardinality(Requests)

(* All messages sent within the window are accounted for: those whose rows *)
(* the latest sweep deleted, and those that CountRecentEmailChallenges     *)
(* still sees together with those about to be sent, are each bounded by    *)
(* the cap and the requests that can have counted before any of them       *)
(* created its row.  So an hour never sees more than twice that many.      *)
AboutToSend == {r \in Requests : req[r].phase = "cleared"}

SendsBounded ==
    LET most == MaxSends + Cardinality(Requests) - 1 IN
      /\ Cardinality(recent \cap made) + Cardinality(AboutToSend) <= most
      /\ Cardinality(recent \ made) <= most

(* The statements together keep the promise of a one-time code, in every   *)
(* order and cut short anywhere: a code is valid while a redemption may    *)
(* still begin on it, and claimed by the requests that have read it.       *)
Redeemable == {c \in used : ~ Closed(c)}
HeldBy == [r \in Requests |-> req[r].id]

Promise == INSTANCE OneTimeCode WITH
    Codes <- Ids, Claimants <- Requests, None <- NoId,
    issued <- used, valid <- Redeemable, claim <- HeldBy, opened <- grants

KeepsPromise == Promise!Spec

(* internal/auth/challenge.go: two requests racing the same code cannot    *)
(* both come away thinking they redeemed it.                               *)
RedeemedOnce == \A c \in Ids : grants[c] <= 1

(* internal/auth/challenge.go, the send-side rate limit: no more than      *)
(* maxChallengesPerWindow messages within an hour.                         *)
SendsCapped == Cardinality(recent) <= MaxSends
=============================================================================
