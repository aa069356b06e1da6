------------------------------ MODULE SignIns ------------------------------
(***************************************************************************)
(* The throttles in front of the endpoints that take a password or a code, *)
(* internal/auth/throttle.go, and the handlers that consult them: logIn,   *)
(* twoFactorVerify, twoFactorRecovery and signUp.                          *)
(*                                                                         *)
(* A sign-in is checked first and charged afterwards, when its answer is   *)
(* known; a sign-up is charged as it is checked.  Every call of a limiter  *)
(* takes that limiter's mutex and no other, so the two axes of a check,    *)
(* and the two of a charge, are steps of their own.  What the answer is,   *)
(* Challenges and Credentials say; here it is any the handler can get.     *)
(***************************************************************************)
EXTENDS Callers

CONSTANTS
    Accounts,      \* normalised addresses that are signed in to
    LoginLimit,    \* LOGIN_RATE_LIMIT
    SignupLimit,   \* SIGNUP_RATE_LIMIT
    NoAccount

ASSUME SignInAssumption ==
    /\ NoAccount \notin Accounts
    /\ LoginLimit \in Nat \ {0} /\ SignupLimit \in Nat \ {0}

VARIABLES
    byAccount, byIP,   \* the sign-in throttle
    signups,           \* the sign-up throttle
    asking,            \* requests being handled
    wrong,             \* history: wrong passwords for an account since its window began
    wrongFrom,         \* history: wrong passwords and codes from an address, likewise
    created            \* history: accounts created from an address, likewise

throttleVars == <<byAccount, byIP, signups>>
historyVars == <<wrong, wrongFrom, created>>
signInVars == <<byAccount, byIP, signups, asking, wrong, wrongFrom, created>>

(* An address is allowed three times what an account is.                   *)
AddressLimit == 3 * LoginLimit

AccountCeiling == LoginLimit + Cardinality(Requests)
AddressCeiling == AddressLimit + Cardinality(Requests)
SignupCeiling == SignupLimit + Cardinality(Requests)

ByAccount == INSTANCE RateLimiter
    WITH Keys <- Accounts, Limit <- LoginLimit, Ceiling <- AccountCeiling, buckets <- byAccount
ByIP == INSTANCE RateLimiter
    WITH Keys <- Addresses, Limit <- AddressLimit, Ceiling <- AddressCeiling, buckets <- byIP
Signups == INSTANCE RateLimiter
    WITH Keys <- Addresses, Limit <- SignupLimit, Ceiling <- SignupCeiling, buckets <- signups

NoAttempt == [phase |-> "idle", account |-> NoAccount, from |-> NoAddress]

Phases == {"idle", "checking", "verifying", "charging", "signingUp"}

SignInType ==
    /\ ByAccount!LimiterType /\ ByIP!LimiterType /\ Signups!LimiterType
    /\ asking \in [Requests -> [phase : Phases, account : Accounts \cup {NoAccount},
                                from : Addresses \cup {NoAddress}]]
    /\ \A r \in Requests : asking[r].phase # "idle" => asking[r].from \in Addresses
    /\ wrong \in [Accounts -> 0..AccountCeiling]
    /\ wrongFrom \in [Addresses -> 0..AddressCeiling]
    /\ created \in [Addresses -> 0..SignupCeiling]

(* NewHandler, at the start of the process: the throttles are memory.      *)
SignInInit ==
    /\ ByAccount!LimiterInit /\ ByIP!LimiterInit /\ Signups!LimiterInit
    /\ asking = [r \in Requests |-> NoAttempt]
    /\ wrong = [a \in Accounts |-> 0]
    /\ wrongFrom = [i \in Addresses |-> 0]
    /\ created = [i \in Addresses |-> 0]

Ended(r) == asking' = [asking EXCEPT ![r] = NoAttempt]
Becomes(r, phase) == asking' = [asking EXCEPT ![r].phase = phase]

(* One more, in a history that stops where its limiter does.  There is no  *)
(* count for a key without a window: the full map had no room for it.      *)
OneMore(history, k, uncounted, ceiling) ==
    [history EXCEPT ![k] = IF uncounted THEN 0 ELSE IF @ = ceiling THEN @ ELSE @ + 1]

-----------------------------------------------------------------------------
(* Signing in.                                                             *)

(* Mutant of AccountOpen: sources are counted, accounts are not.           *)
AccountOpenAlways(a) == TRUE

(* check, by account.  A refusal leaves everything as it was.              *)
AccountOpen(a) == ~ByAccount!Exceeded(a)

(* logIn, up to the check by account.                                      *)
LogIn(r, a, i) ==
    /\ asking[r].phase = "idle"
    /\ AccountOpen(a)
    /\ asking' = [asking EXCEPT ![r] = [phase |-> "checking", account |-> a, from |-> i]]
    /\ UNCHANGED <<throttleVars, historyVars>>

(* twoFactorVerify and twoFactorRecovery name a challenge and no account:  *)
(* they are counted by address alone.                                      *)
EnterCode(r, i) ==
    /\ asking[r].phase = "idle"
    /\ asking' = [asking EXCEPT ![r] = [phase |-> "checking", account |-> NoAccount, from |-> i]]
    /\ UNCHANGED <<throttleVars, historyVars>>

(* check, by address.                                                      *)
CheckAddress(r) ==
    /\ asking[r].phase = "checking"
    /\ IF ByIP!Exceeded(asking[r].from) THEN Ended(r) ELSE Becomes(r, "verifying")
    /\ UNCHANGED <<throttleVars, historyVars>>

(* What the service answers: a session or a challenge; a client error; too *)
(* many codes mailed (to a right password); an error of the server, or of  *)
(* a request whose caller went away.                                       *)
Outcomes == {"right", "wrong", "tooMany", "error"}

(* Mutant of IsClientError: whatever is not a sign-in is charged.          *)
IsNotASignIn(outcome) == outcome # "right"

IsClientError(outcome) == outcome = "wrong"

(* The answer, and failed by account if it is to be charged: nothing but   *)
(* this request knows the one before the other.                            *)
Answer(r, outcome) ==
    /\ asking[r].phase = "verifying"
    /\ outcome = "tooMany" => asking[r].account # NoAccount
    /\ IF IsClientError(outcome) THEN Becomes(r, "charging") ELSE Ended(r)
    /\ LET a == asking[r].account
           charged == IsClientError(outcome) /\ a # NoAccount
       IN /\ byAccount' = IF charged THEN ByAccount!Recorded(a) ELSE byAccount
          /\ wrong' = IF charged /\ outcome = "wrong"
                      THEN OneMore(wrong, a, ByAccount!Overflows(a), AccountCeiling)
                      ELSE wrong
    /\ UNCHANGED <<byIP, signups, wrongFrom, created>>

(* failed, by address.                                                     *)
ChargeAddress(r) ==
    /\ asking[r].phase = "charging"
    /\ LET i == asking[r].from
       IN /\ byIP' = ByIP!Recorded(i)
          /\ wrongFrom' = OneMore(wrongFrom, i, ByIP!Overflows(i), AddressCeiling)
    /\ Ended(r)
    /\ UNCHANGED <<byAccount, signups, wrong, created>>

-----------------------------------------------------------------------------
(* Signing up.                                                             *)

MaySignUp(i) == Signups!Allows(i)

(* attempt counts the try, well-formed or not, and answers at once.        *)
SignUp(r, i) ==
    /\ asking[r].phase = "idle"
    /\ signups' = Signups!Recorded(i)
    /\ IF MaySignUp(i)
       THEN asking' = [asking EXCEPT ![r] = [phase |-> "signingUp", account |-> NoAccount, from |-> i]]
       ELSE UNCHANGED asking
    /\ UNCHANGED <<byAccount, byIP, historyVars>>

(* The account is created ...                                              *)
CreateAccount(r) ==
    /\ asking[r].phase = "signingUp"
    /\ LET i == asking[r].from
       IN created' = OneMore(created, i, signups[i].window # "running", SignupCeiling)
    /\ Ended(r)
    /\ UNCHANGED <<throttleVars, wrong, wrongFrom>>

(* ... or the form is not valid, the address is taken, or the caller goes. *)
RefuseAccount(r) ==
    /\ asking[r].phase = "signingUp"
    /\ Ended(r)
    /\ UNCHANGED <<throttleVars, historyVars>>

-----------------------------------------------------------------------------
(* The clock, the janitors and the process.                                *)

ElapseAccount(a) ==
    /\ byAccount[a].window = "running"
    /\ byAccount' = ByAccount!Elapsed(a)
    /\ wrong' = [wrong EXCEPT ![a] = 0]
    /\ UNCHANGED <<byIP, signups, asking, wrongFrom, created>>

ElapseAddress(i) ==
    /\ byIP[i].window = "running"
    /\ byIP' = ByIP!Elapsed(i)
    /\ wrongFrom' = [wrongFrom EXCEPT ![i] = 0]
    /\ UNCHANGED <<byAccount, signups, asking, wrong, created>>

ElapseSignups(i) ==
    /\ signups[i].window = "running"
    /\ signups' = Signups!Elapsed(i)
    /\ created' = [created EXCEPT ![i] = 0]
    /\ UNCHANGED <<byAccount, byIP, asking, wrong, wrongFrom>>

(* Each limiter has a ticker of its own.                                   *)
SweepThrottles ==
    /\ \/ byAccount' = ByAccount!Swept /\ UNCHANGED <<byIP, signups>>
       \/ byIP' = ByIP!Swept /\ UNCHANGED <<byAccount, signups>>
       \/ signups' = Signups!Swept /\ UNCHANGED <<byAccount, byIP>>
    /\ UNCHANGED <<asking, historyVars>>

RestartThrottles ==
    /\ byAccount' = [a \in Accounts |-> ByAccount!NoBucket]
    /\ byIP' = [i \in Addresses |-> ByIP!NoBucket]
    /\ signups' = [i \in Addresses |-> Signups!NoBucket]
    /\ asking' = [r \in Requests |-> NoAttempt]
    /\ wrong' = [a \in Accounts |-> 0]
    /\ wrongFrom' = [i \in Addresses |-> 0]
    /\ created' = [i \in Addresses |-> 0]

SignInNext ==
    \/ \E r \in Requests, a \in Accounts, i \in Addresses : LogIn(r, a, i)
    \/ \E r \in Requests, i \in Addresses : EnterCode(r, i) \/ SignUp(r, i)
    \/ \E r \in Requests, o \in Outcomes : Answer(r, o)
    \/ \E r \in Requests :
          CheckAddress(r) \/ ChargeAddress(r) \/ CreateAccount(r) \/ RefuseAccount(r)
    \/ \E a \in Accounts : ElapseAccount(a)
    \/ \E i \in Addresses : ElapseAddress(i) \/ ElapseSignups(i)
    \/ SweepThrottles \/ RestartThrottles

SignInSpec == SignInInit /\ [][SignInNext]_signInVars

-----------------------------------------------------------------------------
(* Properties.  An account or address that a full map has no room for is   *)
(* not counted, and nothing is said of it.                                 *)

InPhase(phases) == {r \in Requests : asking[r].phase \in phases}

(* An account takes, in one window, LoginLimit wrong passwords and one for *)
(* every other request that was past its check, from however many          *)
(* addresses they come.                                                    *)
AccountsHold ==
    \A a \in Accounts :
       wrong[a] + Cardinality({r \in InPhase({"checking", "verifying"}) : asking[r].account = a})
          < LoginLimit + Cardinality(Requests)

(* An address is wrong, in one window, AddressLimit times and once for     *)
(* every other request past its check, over all accounts and challenges.   *)
AddressesHold ==
    \A i \in Addresses :
       wrongFrom[i] + Cardinality({r \in InPhase({"verifying", "charging"}) : asking[r].from = i})
          < AddressLimit + Cardinality(Requests)

(* An address creates, in one window, SignupLimit accounts and those       *)
(* already let through when the window began.                              *)
SignupsHold ==
    \A i \in Addresses : signups[i].window = "running" =>
       created[i] + Cardinality({r \in InPhase({"signingUp"}) : asking[r].from = i})
          <= SignupLimit + Cardinality(Requests)

AttemptsBounded == AccountsHold /\ AddressesHold /\ SignupsHold

(* "Only failures count" (throttle.go): an account is closed only after    *)
(* LoginLimit wrong passwords for it, and an address after AddressLimit    *)
(* wrong passwords or codes from it.  Right passwords, refusals, codes     *)
(* that could not be sent and failures of the server close nothing.        *)
ClosedOnlyByFailures ==
    /\ \A a \in Accounts : ByAccount!Exceeded(a) => wrong[a] >= LoginLimit
    /\ \A i \in Addresses : ByIP!Exceeded(i) => wrongFrom[i] >= AddressLimit
=============================================================================
