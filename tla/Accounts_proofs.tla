---------------------------- MODULE Accounts_proofs ----------------------------
(***************************************************************************)
(* Proofs about accounts and Google identities, for any number of          *)
(* accounts, addresses, identities and simultaneous requests; and about    *)
(* restoring a backup into an account (Imports), for any number of         *)
(* restores at once.                                                       *)
(***************************************************************************)
EXTENDS Accounts, Imports, FiniteSetTheorems, TLAPS

(* A request between two statements holds what its kind needs.             *)
RequestsOK ==
    \A r \in Requests :
        /\ req[r].op \in {"signup", "lookup", "create"} => req[r].email \in Emails
        /\ req[r].op \in {"lookup", "create", "join", "link", "session"} => req[r].subject \in Subjects
        /\ req[r].op \in {"join", "link", "session"} => req[r].user \in Users

(* An account that a request or a handoff is about and that is not there   *)
(* has been deleted, and its id is not given again; while it is there, it  *)
(* is the one its identity is linked to.                                   *)
Bound(x) == IF Exists(x.user) THEN oauth[x.subject] = x.user ELSE x.user \in gone

SessionsBound ==
    /\ \A r \in Requests : req[r].op = "session" => Bound(req[r])
    /\ \A x \in issued : Bound(x)

(* An account a Google sign-in created keeps that identity.                *)
MadeBound ==
    \A u \in Users : made[u] # NoSubject => Bound([user |-> u, subject |-> made[u]])

AccountInv == TypeOK /\ RequestsOK /\ EveryoneCanSignIn /\ SessionsBound /\ MadeBound

LEMMA InitAccountInv == Init => AccountInv
<1> SUFFICES ASSUME Init PROVE AccountInv
  OBVIOUS
<1>1. Idle \in RequestType /\ Idle.op = "none"
  BY DEF Idle, RequestType
<1>2. TypeOK
  BY <1>1, AccountAssumption DEF Init, TypeOK
<1>3. RequestsOK /\ SessionsBound
  BY <1>1 DEF Init, RequestsOK, SessionsBound
<1>4. EveryoneCanSignIn /\ MadeBound
  BY DEF Init, EveryoneCanSignIn, MadeBound, Exists
<1> QED
  BY <1>2, <1>3, <1>4 DEF AccountInv

LEMMA DoneTypes ==
  ASSUME TypeOK, NEW r \in Requests, Done(r)
  PROVE  req' \in [Requests -> RequestType]
  BY DEF TypeOK, Done, Idle, RequestType

LEMMA DoneRequests ==
  ASSUME TypeOK, RequestsOK, NEW r \in Requests, Done(r)
  PROVE  RequestsOK'
  BY DEF TypeOK, RequestsOK, Done, Idle

(* What does not touch the rows, nor turn a request into a session, keeps  *)
(* the part of the invariant that is about them.                           *)
RowsAlone == UNCHANGED <<email, password, oauth, gone, made>>

LEMMA RowsAloneKeep ==
  ASSUME AccountInv, RowsAlone
  PROVE  EveryoneCanSignIn' /\ MadeBound'
  BY DEF AccountInv, RowsAlone, EveryoneCanSignIn, MadeBound, Bound, Exists

LEMMA DoneSessions ==
  ASSUME TypeOK, SessionsBound, NEW r \in Requests, Done(r), RowsAlone, UNCHANGED issued
  PROVE  SessionsBound'
<1>1. \A q \in Requests : req'[q].op = "session" => req[q].op = "session" /\ req'[q] = req[q]
  BY DEF TypeOK, Done, Idle
<1> QED
  BY <1>1 DEF SessionsBound, Bound, Exists, RowsAlone

(* The same of a request that goes on, without a session yet.              *)
LEMMA OnwardKeeps ==
  ASSUME AccountInv, NEW r \in Requests, NEW x \in RequestType,
         req' = [req EXCEPT ![r] = x],
         x.op \in {"signup", "lookup", "create"} => x.email \in Emails,
         x.op \in {"lookup", "create", "join", "link", "session"} => x.subject \in Subjects,
         x.op \in {"join", "link", "session"} => x.user \in Users,
         x.op = "session" => Bound(x),
         UNCHANGED <<email, password, oauth, handoffs, gone, issued, made>>
  PROVE  AccountInv'
<1>1. TypeOK'
  BY DEF AccountInv, TypeOK
<1>2. RequestsOK'
  BY DEF AccountInv, TypeOK, RequestsOK
<1>3. \A q \in Requests : req'[q] = IF q = r THEN x ELSE req[q]
  BY DEF AccountInv, TypeOK
<1>4. SessionsBound'
  BY <1>3 DEF AccountInv, SessionsBound, Bound, Exists
<1>5. EveryoneCanSignIn' /\ MadeBound'
  BY RowsAloneKeep DEF RowsAlone
<1> QED
  BY <1>1, <1>2, <1>4, <1>5 DEF AccountInv

LEMMA DoneKeeps ==
  ASSUME AccountInv, NEW r \in Requests, Done(r),
         UNCHANGED <<email, password, oauth, handoffs, gone, issued, made>>
  PROVE  AccountInv'
<1>1. Idle \in RequestType /\ Idle.op = "none"
  BY DEF Idle, RequestType
<1> QED
  BY <1>1, OnwardKeeps DEF Done

LEMMA InsertUserKeeps ==
  ASSUME AccountInv, NEW r \in Requests, NEW u \in Users, InsertUser(r, u)
  PROVE  AccountInv'
<1>1. CASE ~Free(req[r].email)
  BY <1>1, DoneKeeps DEF InsertUser
<1>2. CASE Free(req[r].email)
  <2>1. /\ req[r].email \in Emails /\ email[u] = NoEmail /\ u \notin gone
        /\ email' = [email EXCEPT ![u] = req[r].email] /\ password' = password \cup {u}
        /\ Done(r) /\ UNCHANGED <<oauth, handoffs, gone, issued, made>>
    BY <1>2 DEF AccountInv, RequestsOK, InsertUser
  <2>2. \A w \in Users : Exists(w)' <=> Exists(w) \/ w = u
    BY <2>1, AccountAssumption DEF AccountInv, TypeOK, Exists
  <2>3. TypeOK'
    BY <2>1, DoneTypes, AccountAssumption DEF AccountInv, TypeOK
  <2>4. RequestsOK'
    BY <2>1, DoneRequests DEF AccountInv
  <2>5. EveryoneCanSignIn'
    BY <2>1, <2>2 DEF AccountInv, EveryoneCanSignIn
  <2>6. \A x : x.user \in Users /\ Bound(x) => Bound(x)'
    BY <2>1, <2>2, AccountAssumption DEF Bound, Exists
  <2>7. \A q \in Requests : req'[q].op = "session" => req[q].op = "session" /\ req'[q] = req[q]
    BY <2>1 DEF AccountInv, TypeOK, Done, Idle
  <2>8. SessionsBound'
    BY <2>1, <2>6, <2>7 DEF AccountInv, TypeOK, RequestsOK, SessionsBound, Sessions, Bound
  <2>9. MadeBound'
    BY <2>1, <2>6 DEF AccountInv, MadeBound
  <2> QED
    BY <2>3, <2>4, <2>5, <2>8, <2>9 DEF AccountInv
<1> QED
  BY <1>1, <1>2

LEMMA CreateFromGoogleKeeps ==
  ASSUME AccountInv, NEW r \in Requests, NEW u \in Users, CreateFromGoogle(r, u)
  PROVE  AccountInv'
<1> DEFINE e == req[r].email
           s == req[r].subject
           x == [Idle EXCEPT !.op = "session", !.user = u, !.subject = s]
<1>1. CASE ~Commits(e, s)
  BY <1>1, DoneKeeps DEF CreateFromGoogle
<1>2. CASE Commits(e, s)
  <2>1. /\ e \in Emails /\ s \in Subjects /\ email[u] = NoEmail /\ u \notin gone
        /\ oauth[s] = NoUser
        /\ email' = [email EXCEPT ![u] = e]
        /\ oauth' = [oauth EXCEPT ![s] = u]
        /\ made' = [made EXCEPT ![u] = s]
        /\ req' = [req EXCEPT ![r] = x]
        /\ UNCHANGED <<password, handoffs, gone, issued>>
    BY <1>2 DEF AccountInv, TypeOK, RequestsOK, CreateFromGoogle, Commits
  <2>2. x \in RequestType /\ x.op = "session" /\ x.user = u /\ x.subject = s
    BY <2>1 DEF Idle, RequestType
  <2> HIDE DEF x, e, s
  <2>3. \A w \in Users : Exists(w)' <=> Exists(w) \/ w = u
    BY <2>1, AccountAssumption DEF AccountInv, TypeOK, Exists
  <2>4. TypeOK'
    BY <2>1, <2>2, AccountAssumption DEF AccountInv, TypeOK
  <2>5. RequestsOK'
    BY <2>1, <2>2 DEF AccountInv, TypeOK, RequestsOK
  <2>6. EveryoneCanSignIn'
    BY <2>1, <2>3, AccountAssumption DEF AccountInv, TypeOK, EveryoneCanSignIn
  <2>7. \A y : y.user \in Users /\ y.subject \in Subjects /\ Bound(y) => Bound(y)'
    BY <2>1, <2>3, AccountAssumption DEF AccountInv, TypeOK, Bound, Exists
  <2>8. \A y : y.user = u /\ y.subject = s => Bound(y)'
    BY <2>1, <2>3 DEF AccountInv, TypeOK, Bound
  <2>9. SessionsBound'
    BY <2>1, <2>2, <2>7, <2>8 DEF AccountInv, TypeOK, RequestsOK, SessionsBound, Sessions
  <2>10. MadeBound'
    BY <2>1, <2>7, <2>8 DEF AccountInv, TypeOK, MadeBound
  <2> QED
    BY <2>4, <2>5, <2>6, <2>9, <2>10 DEF AccountInv
<1> QED
  BY <1>1, <1>2

LEMMA LinkProviderKeeps ==
  ASSUME AccountInv, NEW r \in Requests, LinkProvider(r)
  PROVE  AccountInv'
<1> DEFINE s == req[r].subject
           u == req[r].user
           x == IF req[r].op = "link" THEN Idle
                ELSE [Idle EXCEPT !.op = "session", !.user = u, !.subject = s]
<1>1. CASE ~Inserts(s, u)
  BY <1>1, DoneKeeps DEF LinkProvider
<1>2. CASE Inserts(s, u)
  <2>1. /\ u \in Users /\ Exists(u) /\ s \in Subjects /\ oauth[s] = NoUser
        /\ oauth' = [oauth EXCEPT ![s] = u]
        /\ req' = [req EXCEPT ![r] = x]
        /\ UNCHANGED <<email, password, handoffs, gone, issued, made>>
    BY <1>2 DEF AccountInv, RequestsOK, LinkProvider, Inserts
  <2>2. /\ x \in RequestType /\ x.op \in {"none", "session"}
        /\ x.op = "session" => x.user = u /\ x.subject = s
    BY <2>1 DEF Idle, RequestType
  <2> HIDE DEF x, u, s
  <2>3. \A w : Exists(w)' <=> Exists(w)
    BY <2>1 DEF Exists
  <2>4. TypeOK'
    BY <2>1, <2>2, AccountAssumption DEF AccountInv, TypeOK, Exists
  <2>5. RequestsOK'
    BY <2>1, <2>2 DEF AccountInv, TypeOK, RequestsOK
  <2>6. EveryoneCanSignIn'
    BY <2>1, <2>3, AccountAssumption DEF AccountInv, TypeOK, EveryoneCanSignIn, Exists
  <2>7. \A y : y.user \in Users /\ y.subject \in Subjects /\ Bound(y) => Bound(y)'
    BY <2>1, <2>3, AccountAssumption DEF AccountInv, TypeOK, Bound, Exists
  <2>8. \A y : y.user = u /\ y.subject = s => Bound(y)'
    BY <2>1, <2>3 DEF AccountInv, TypeOK, Bound
  <2>9. SessionsBound'
    BY <2>1, <2>2, <2>7, <2>8 DEF AccountInv, TypeOK, RequestsOK, SessionsBound, Sessions
  <2>10. MadeBound'
    BY <2>1, <2>7 DEF AccountInv, TypeOK, MadeBound
  <2> QED
    BY <2>4, <2>5, <2>6, <2>9, <2>10 DEF AccountInv
<1> QED
  BY <1>1, <1>2

LEMMA IssueSessionKeeps ==
  ASSUME AccountInv, NEW r \in Requests, NEW c \in Codes, IssueSession(r, c)
  PROVE  AccountInv'
<1> DEFINE y == [user |-> req[r].user, subject |-> req[r].subject]
<1>1. y \in Sessions /\ Bound(y)
  BY DEF AccountInv, TypeOK, RequestsOK, SessionsBound, IssueSession, Bound, Sessions
<1>2. TypeOK'
  BY <1>1, DoneTypes DEF AccountInv, TypeOK, IssueSession
<1>3. RequestsOK'
  BY DoneRequests DEF AccountInv, IssueSession
<1>4. Done(r) /\ RowsAlone /\ issued' \subseteq issued \cup {y}
  BY DEF IssueSession, RowsAlone
<1>5. \A q \in Requests : req'[q].op = "session" => req[q].op = "session" /\ req'[q] = req[q]
  BY <1>4 DEF AccountInv, TypeOK, Done, Idle
<1> HIDE DEF y
<1>6. SessionsBound'
  BY <1>1, <1>4, <1>5 DEF AccountInv, SessionsBound, Bound, Exists, RowsAlone
<1>7. EveryoneCanSignIn' /\ MadeBound'
  BY <1>4, RowsAloneKeep
<1> QED
  BY <1>2, <1>3, <1>6, <1>7 DEF AccountInv

(* The handoffs, and the requests under way when the process ends.         *)
LEMMA HandoffsKeep ==
  ASSUME AccountInv, RowsAlone, UNCHANGED issued,
         handoffs' \in [Codes -> Sessions \cup {NoSession}],
         req' = req \/ req' = [r \in Requests |-> Idle]
  PROVE  AccountInv'
<1>1. Idle \in RequestType /\ Idle.op = "none"
  BY DEF Idle, RequestType
<1>2. TypeOK' /\ RequestsOK'
  BY <1>1 DEF AccountInv, TypeOK, RequestsOK, RowsAlone
<1>3. SessionsBound'
  BY <1>1 DEF AccountInv, SessionsBound, Bound, Exists, RowsAlone
<1> QED
  BY <1>2, <1>3, RowsAloneKeep DEF AccountInv

LEMMA ChangeEmailKeeps ==
  ASSUME AccountInv, NEW u \in Users, NEW e \in Emails, ChangeEmail(u, e)
  PROVE  AccountInv'
<1>1. \A w \in Users : Exists(w)' <=> Exists(w)
  BY AccountAssumption DEF AccountInv, TypeOK, ChangeEmail, Exists
<1>2. TypeOK'
  BY AccountAssumption DEF AccountInv, TypeOK, ChangeEmail, Exists
<1>3. RequestsOK'
  BY DEF AccountInv, RequestsOK, ChangeEmail
<1>4. EveryoneCanSignIn'
  BY <1>1 DEF AccountInv, EveryoneCanSignIn, ChangeEmail
<1>5. \A y : y.user \in Users /\ Bound(y) => Bound(y)'
  BY <1>1 DEF Bound, ChangeEmail
<1>6. SessionsBound' /\ MadeBound'
  BY <1>5 DEF AccountInv, TypeOK, RequestsOK, SessionsBound, MadeBound, Sessions, ChangeEmail
<1> QED
  BY <1>2, <1>3, <1>4, <1>6 DEF AccountInv

LEMMA SetPasswordKeeps ==
  ASSUME AccountInv, NEW u \in Users, SetPassword(u)
  PROVE  AccountInv'
<1>1. TypeOK'
  BY DEF AccountInv, TypeOK, SetPassword, Exists
<1>2. RequestsOK' /\ SessionsBound' /\ MadeBound' /\ EveryoneCanSignIn'
  BY DEF AccountInv, RequestsOK, SessionsBound, MadeBound, EveryoneCanSignIn, Bound, Exists, SetPassword
<1> QED
  BY <1>1, <1>2 DEF AccountInv

LEMMA DeleteAccountKeeps ==
  ASSUME AccountInv, NEW u \in Users, DeleteAccount(u)
  PROVE  AccountInv'
<1>1. \A w \in Users : Exists(w)' <=> Exists(w) /\ w # u
  BY AccountAssumption DEF AccountInv, TypeOK, DeleteAccount, Exists
<1>2. TypeOK'
  BY AccountAssumption DEF AccountInv, TypeOK, DeleteAccount, Cascade
<1>3. RequestsOK'
  BY DEF AccountInv, RequestsOK, DeleteAccount
<1>4. EveryoneCanSignIn'
  BY <1>1 DEF AccountInv, TypeOK, EveryoneCanSignIn, DeleteAccount, Cascade
<1>5. \A y : y.user \in Users /\ y.subject \in Subjects /\ Bound(y) => Bound(y)'
  BY <1>1 DEF Bound, DeleteAccount, Cascade
<1>6. SessionsBound' /\ MadeBound'
  BY <1>5 DEF AccountInv, TypeOK, RequestsOK, SessionsBound, MadeBound, Sessions, DeleteAccount
<1> QED
  BY <1>2, <1>3, <1>4, <1>6 DEF AccountInv

LEMMA NextAccountInv == AccountInv /\ [Next]_vars => AccountInv'
<1> SUFFICES ASSUME AccountInv, [Next]_vars PROVE AccountInv'
  OBVIOUS
<1>1. ASSUME NEW r \in Requests, NEW e \in Emails, SignUp(r, e)  PROVE AccountInv'
  <2>1. [Idle EXCEPT !.op = "signup", !.email = e] \in RequestType
    BY DEF Idle, RequestType
  <2> QED
    BY <1>1, <2>1, OnwardKeeps DEF SignUp, Idle
<1>2. ASSUME NEW r \in Requests, NEW s \in Subjects, NEW e \in Emails, NEW v \in BOOLEAN,
             BySubject(r, s, e, v)
      PROVE  AccountInv'
  <2>1. CASE oauth[s] # NoUser
    <3> DEFINE x == [Idle EXCEPT !.op = "session", !.user = oauth[s], !.subject = s]
    <3>1. oauth[s] \in Users /\ email[oauth[s]] # NoEmail
      BY <2>1 DEF AccountInv, TypeOK
    <3>2. x \in RequestType /\ x.op = "session" /\ x.user = oauth[s] /\ x.subject = s
      BY <3>1 DEF Idle, RequestType
    <3>3. Bound(x)
      BY <3>1, <3>2, AccountAssumption DEF Bound, Exists
    <3>4. req' = [req EXCEPT ![r] = x] /\ UNCHANGED <<email, password, oauth, handoffs, gone, issued, made>>
      BY <1>2, <2>1 DEF BySubject
    <3> HIDE DEF x
    <3> QED
      BY <3>1, <3>2, <3>3, <3>4, OnwardKeeps
  <2>2. CASE oauth[s] = NoUser
    <3> DEFINE x == [Idle EXCEPT !.op = "lookup", !.subject = s, !.email = e, !.vouched = v]
    <3>1. x \in RequestType /\ x.op = "lookup" /\ x.email = e /\ x.subject = s
      BY DEF Idle, RequestType
    <3>2. req' = [req EXCEPT ![r] = x] /\ UNCHANGED <<email, password, oauth, handoffs, gone, issued, made>>
      BY <1>2, <2>2 DEF BySubject
    <3> HIDE DEF x
    <3> QED
      BY <3>1, <3>2, OnwardKeeps
  <2> QED
    BY <2>1, <2>2
<1>3. ASSUME NEW r \in Requests, ByEmail(r)  PROVE AccountInv'
  <2>1. /\ req[r] \in RequestType /\ req[r].op = "lookup"
        /\ req[r].email \in Emails /\ req[r].subject \in Subjects
        /\ UNCHANGED <<email, password, oauth, handoffs, gone, issued, made>>
    BY <1>3 DEF AccountInv, TypeOK, RequestsOK, ByEmail
  <2>2. CASE req' = [req EXCEPT ![r].op = "create"]
    <3> DEFINE x == [req[r] EXCEPT !.op = "create"]
    <3>1. x \in RequestType /\ x.op = "create" /\ x.email = req[r].email /\ x.subject = req[r].subject
      BY <2>1 DEF RequestType
    <3>2. req' = [req EXCEPT ![r] = x]
      BY <2>2
    <3> HIDE DEF x
    <3> QED
      BY <2>1, <3>1, <3>2, OnwardKeeps
  <2>3. ASSUME NEW u \in Users,
               req' = [req EXCEPT ![r] = [req[r] EXCEPT !.op = "join", !.user = u, !.email = NoEmail]]
        PROVE  AccountInv'
    <3> DEFINE x == [req[r] EXCEPT !.op = "join", !.user = u, !.email = NoEmail]
    <3>1. x \in RequestType /\ x.op = "join" /\ x.user = u /\ x.subject = req[r].subject
      BY <2>1 DEF RequestType
    <3>2. req' = [req EXCEPT ![r] = x]
      BY <2>3
    <3> HIDE DEF x
    <3> QED
      BY <2>1, <3>1, <3>2, OnwardKeeps
  <2>4. CASE Done(r)
    BY <2>1, <2>4, DoneKeeps
  <2> QED
    BY <1>3, <2>2, <2>3, <2>4 DEF ByEmail, Done
<1>4. ASSUME NEW r \in Requests, NEW u \in Users, NEW s \in Subjects, Link(r, u, s)  PROVE AccountInv'
  <2> DEFINE x == [Idle EXCEPT !.op = "link", !.user = u, !.subject = s]
  <2>1. x \in RequestType /\ x.op = "link" /\ x.user = u /\ x.subject = s
    BY DEF Idle, RequestType
  <2>2. req' = [req EXCEPT ![r] = x] /\ UNCHANGED <<email, password, oauth, handoffs, gone, issued, made>>
    BY <1>4 DEF Link
  <2> HIDE DEF x
  <2> QED
    BY <2>1, <2>2, OnwardKeeps
<1>5. ASSUME NEW c \in Codes, Redeem(c)  PROVE AccountInv'
  BY <1>5, HandoffsKeep DEF AccountInv, TypeOK, Redeem, RowsAlone
<1>6. CASE Restart
  BY <1>6, HandoffsKeep DEF Restart, RowsAlone
<1>7. ASSUME NEW r \in Requests, HangUp(r)  PROVE AccountInv'
  BY <1>7, DoneKeeps DEF HangUp
<1>8. CASE UNCHANGED vars
  BY <1>8, HandoffsKeep DEF AccountInv, TypeOK, vars, RowsAlone
<1> QED
  BY <1>1, <1>2, <1>3, <1>4, <1>5, <1>6, <1>7, <1>8, InsertUserKeeps, CreateFromGoogleKeeps,
     LinkProviderKeeps, IssueSessionKeeps, ChangeEmailKeeps, SetPasswordKeeps, DeleteAccountKeeps
     DEF Next

THEOREM AccountInvariance == Spec => []AccountInv
<1> QED
  BY InitAccountInv, NextAccountInv, PTL DEF Spec

-----------------------------------------------------------------------------
(* Every reachable state is well typed: a password and a link are those of *)
(* an account that is there, and a deleted account's id has no row.        *)
THEOREM Typing == Spec => []TypeOK
<1>1. AccountInv => TypeOK
  BY DEF AccountInv
<1> QED
  BY <1>1, AccountInvariance, PTL

(* CompleteGoogleLogin, createUserFromGoogle, linkProvider: whichever      *)
(* requests create, join or link, cross or fail, no account is left that   *)
(* nobody can sign in to.                                                  *)
THEOREM SignInAlwaysPossible == Spec => []EveryoneCanSignIn
<1>1. AccountInv => EveryoneCanSignIn
  BY DEF AccountInv
<1> QED
  BY <1>1, AccountInvariance, PTL

(* The session a Google sign-in hands over is of the account its identity  *)
(* is linked to, as long as that account exists.                           *)
THEOREM SessionsFollowIdentities == Spec => []SessionIsTheIdentitys
<1>1. AccountInv => SessionIsTheIdentitys
  BY DEF AccountInv, SessionsBound, Bound, SessionIsTheIdentitys
<1> QED
  BY <1>1, AccountInvariance, PTL

(* The sign-ins of one identity leave at most one account of their making. *)
THEOREM OneAccountEach == Spec => []OneAccountPerIdentity
<1>1. AccountInv => OneAccountPerIdentity
  BY DEF AccountInv, MadeBound, Bound, OneAccountPerIdentity
<1> QED
  BY <1>1, AccountInvariance, PTL

-----------------------------------------------------------------------------
(* Restoring a backup.                                                     *)

RestoreType == [step : {"idle", "home", "save", "look", "link", "put"},
                kind : Kinds \cup {"profile", "gender"},
                profile : Values, blank : BOOLEAN, home : Copies \cup {NoCopy},
                courses : SUBSET Copies, whole : BOOLEAN]

(* Which steps are taken for which kinds.                                  *)
StepFits(o) ==
    /\ o.step \in {"look", "link", "put"} => o.kind \in Kinds
    /\ o.step \in {"idle", "home"} => o.kind = "profile"
    /\ o.step = "save" => o.kind = "profile" \/ (o.kind = "gender" /\ o.blank)
    /\ o.step = "link" => o.kind = "rounds"

StepsFit == \A i \in Imports : StepFits(op[i])

(* What a restore has found missing is still missing, unless another       *)
(* writer of that kind came between.                                       *)
FreshKind(k) ==
    k \notin raced =>
       /\ \A c, d \in copies[k] : c = d
       /\ \A i \in Imports : Holds(i, k) => copies[k] = {}

FreshKinds == \A k \in Kinds : FreshKind(k)

(* Likewise what it read of the user.                                      *)
FreshProfile ==
    "profile" \notin raced => \A i \in Imports : Holds(i, "profile") => op[i].profile = profile

FreshGender ==
    "gender" \notin raced => \A i \in Imports : Holds(i, "gender") => gender = "empty"

(* A restore that has come to the rounds has left a course behind.         *)
CourseKnown(i) ==
    op[i].kind = "rounds" =>
       /\ copies["courses"] # {}
       /\ op[i].step = "put" => op[i].courses # {}

CoursesFirst ==
    lost \/ /\ \A r \in copies["rounds"] : link[r] # NoCopy
            /\ \A i \in Imports : CourseKnown(i)

(* Kinds a restore is done with.                                           *)
DoneWith(i, k) ==
    \/ op[i].step = "idle"
    \/ k = "clubs" /\ op[i].kind \in {"courses", "rounds"}
    \/ k = "courses" /\ op[i].kind = "rounds"

DoneIsThere == \A i \in Imports : op[i].whole => \A k \in Kinds : DoneWith(i, k) => copies[k] # {}

RestoreInv ==
    ImportType /\ StepsFit /\ FreshKinds /\ FreshProfile /\ FreshGender /\ CoursesFirst /\ DoneIsThere

LEMMA ImportTypeParts ==
  ImportType <=>
    /\ profile \in Values /\ gender \in Values
    /\ copies \in [Kinds -> SUBSET Copies]
    /\ home \in copies["courses"] \cup {NoCopy}
    /\ link \in [Copies -> copies["courses"] \cup {NoCopy}]
    /\ op \in [Imports -> RestoreType]
    /\ raced \subseteq Kinds \cup {"profile", "gender"}
    /\ lost \in BOOLEAN /\ settled \in BOOLEAN /\ edits \in 0..MaxEdits
  BY DEF ImportType, RestoreType

LEMMA NotRestoringFits == NotRestoring \in RestoreType /\ StepFits(NotRestoring)
  BY DEF NotRestoring, RestoreType, StepFits, Values

LEMMA InitRestoreInv == ImportInit => RestoreInv
<1> SUFFICES ASSUME ImportInit PROVE RestoreInv
  OBVIOUS
<1>1. ImportType
  <2>1. op \in [Imports -> RestoreType]
    BY NotRestoringFits DEF ImportInit
  <2>2. /\ copies \in [Kinds -> SUBSET Copies] /\ copies["courses"] = {}
        /\ link \in [Copies -> {NoCopy}]
    BY DEF ImportInit, Kinds
  <2>3. /\ profile \in Values /\ gender \in Values /\ home = NoCopy /\ raced = {}
        /\ lost = FALSE /\ settled = FALSE /\ edits \in 0..MaxEdits
    BY ImportAssumption DEF ImportInit, Values
  <2> QED
    BY <2>1, <2>2, <2>3, ImportTypeParts
<1>2. /\ \A i \in Imports : op[i] = NotRestoring
      /\ \A k \in Kinds : copies[k] = {}
  BY DEF ImportInit
<1>3. \A i \in Imports : /\ op[i].step = "idle" /\ op[i].kind = "profile" /\ op[i].whole = FALSE
                         /\ \A x : ~Holds(i, x)
  BY <1>2 DEF NotRestoring, Holds
<1>4. StepsFit
  BY <1>2, NotRestoringFits DEF StepsFit
<1>5. FreshKinds /\ FreshProfile /\ FreshGender
  BY <1>2, <1>3 DEF FreshKinds, FreshKind, FreshProfile, FreshGender
<1>6. CoursesFirst /\ DoneIsThere
  BY <1>2, <1>3 DEF CoursesFirst, CourseKnown, DoneIsThere, Kinds
<1> QED
  BY <1>1, <1>4, <1>5, <1>6 DEF RestoreInv

(* A step of restore i alone, which leaves it at v.                        *)
Moves(i, v) == op' = [op EXCEPT ![i] = v]

LEMMA MovesFit ==
  ASSUME ImportType, StepsFit, NEW i \in Imports, NEW v \in RestoreType, StepFits(v), Moves(i, v)
  PROVE  /\ op' \in [Imports -> RestoreType] /\ StepsFit'
         /\ op'[i] = v
         /\ \A j \in Imports \ {i} : op'[j] = op[j] /\ \A x : Holds(j, x)' <=> Holds(j, x)
<1>1. op' \in [Imports -> RestoreType]
  BY ImportTypeParts DEF Moves
<1>2. op'[i] = v /\ \A j \in Imports \ {i} : op'[j] = op[j]
  BY ImportTypeParts DEF Moves
<1> QED
  BY <1>1, <1>2 DEF StepsFit, Holds

(* What goes on to the next kind, or ends.                                 *)
LEMMA OnwardMoves ==
  ASSUME ImportType, StepsFit, NEW i \in Imports, NEW whole \in BOOLEAN,
         op[i].kind \in Kinds, Onward(i, whole)
  PROVE  /\ settled' \in BOOLEAN
         /\ \E v \in RestoreType :
               /\ StepFits(v) /\ Moves(i, v)
               /\ v.step \in {"idle", "look"} /\ ~v.blank
               /\ v.whole => op[i].whole /\ whole
               /\ op[i].kind = "clubs" => v.step = "look" /\ v.kind = "courses"
               /\ op[i].kind = "courses" => v.step = "look" /\ v.kind = "rounds"
               /\ op[i].kind = "rounds" => v.step = "idle"
<1> DEFINE all == op[i].whole /\ whole
           next == After(op[i].kind)
           v == IF next = "end" THEN [NotRestoring EXCEPT !.whole = all]
                ELSE [NotRestoring EXCEPT !.step = "look", !.kind = next, !.whole = all]
<1>1. op' = [op EXCEPT ![i] = v] /\ settled' \in BOOLEAN
  BY ImportTypeParts DEF Onward
<1>2. all \in BOOLEAN
  BY ImportTypeParts DEF RestoreType
<1>3. /\ op[i].kind = "clubs" => next = "courses"
      /\ op[i].kind = "courses" => next = "rounds"
      /\ op[i].kind = "rounds" => next = "end"
  BY DEF After
<1> HIDE DEF all, next
<1>4. /\ v \in RestoreType /\ StepFits(v)
      /\ v.step \in {"idle", "look"} /\ ~v.blank /\ v.whole = all
      /\ op[i].kind = "clubs" => v.step = "look" /\ v.kind = "courses"
      /\ op[i].kind = "courses" => v.step = "look" /\ v.kind = "rounds"
      /\ op[i].kind = "rounds" => v.step = "idle"
  BY <1>2, <1>3 DEF NotRestoring, RestoreType, StepFits, Values, Kinds
<1> QED
  BY <1>1, <1>4 DEF Moves, all

-----------------------------------------------------------------------------
(* The parts of the invariant, and what leaves each of them alone.         *)

LEMMA KindKept ==
  ASSUME NEW k \in Kinds, FreshKind(k), copies'[k] \subseteq copies[k], raced \subseteq raced',
         \A j \in Imports : Holds(j, k)' => Holds(j, k)
  PROVE  FreshKind(k)'
  BY DEF FreshKind

LEMMA ProfileKept ==
  ASSUME FreshProfile, profile' = profile, raced \subseteq raced',
         \A j \in Imports : Holds(j, "profile")' =>
            Holds(j, "profile") /\ op'[j].profile = op[j].profile
  PROVE  FreshProfile'
  BY DEF FreshProfile

LEMMA GenderKept ==
  ASSUME FreshGender, gender' = gender, raced \subseteq raced',
         \A j \in Imports : Holds(j, "gender")' => Holds(j, "gender")
  PROVE  FreshGender'
  BY DEF FreshGender

LEMMA CoursesKept ==
  ASSUME CoursesFirst, copies' = copies, link' = link, lost' = lost,
         lost \/ \A j \in Imports : op'[j] = op[j] \/ CourseKnown(j)'
  PROVE  CoursesFirst'
  BY DEF CoursesFirst, CourseKnown

LEMMA DoneKept ==
  ASSUME DoneIsThere, \A k \in Kinds : copies[k] # {} => copies'[k] # {},
         \A j \in Imports : op'[j].whole =>
            /\ op[j].whole
            /\ \A k \in Kinds : DoneWith(j, k)' => DoneWith(j, k) \/ copies'[k] # {}
  PROVE  DoneIsThere'
  BY DEF DoneIsThere

-----------------------------------------------------------------------------
(* The restore's steps.                                                    *)

LEMMA BeginKeeps ==
  ASSUME RestoreInv, NEW i \in Imports, Begin(i)
  PROVE  RestoreInv'
<1> USE DEF RestoreInv
<1> DEFINE v == [NotRestoring EXCEPT
                  !.step = IF home = NoCopy THEN "home" ELSE "save",
                  !.profile = profile, !.blank = (gender = "empty"), !.home = home,
                  !.whole = TRUE]
<1>1. /\ op[i].step = "idle" /\ Moves(i, v)
      /\ UNCHANGED <<profile, gender, home, copies, link, raced, lost, settled, edits>>
  BY DEF Begin, Moves, data
<1>2. /\ v \in RestoreType /\ StepFits(v) /\ v.kind = "profile" /\ v.step \in {"home", "save"}
      /\ v.profile = profile /\ (v.blank => gender = "empty")
  BY ImportTypeParts DEF NotRestoring, RestoreType, StepFits, Values, Kinds
<1> HIDE DEF v
<1>3. /\ op' \in [Imports -> RestoreType] /\ StepsFit' /\ op'[i] = v
      /\ \A j \in Imports \ {i} : op'[j] = op[j] /\ \A x : Holds(j, x)' <=> Holds(j, x)
  BY <1>1, <1>2, MovesFit
<1>4. ImportType'
  BY <1>1, <1>3, ImportTypeParts DEF ImportType, RestoreType
<1>5. FreshKinds'
  <2>1. \A k \in Kinds : ~Holds(i, k)'
    BY <1>2, <1>3 DEF Holds, Kinds
  <2> QED
    BY <1>1, <1>3, <2>1, KindKept DEF FreshKinds
<1>6. FreshProfile' /\ FreshGender'
  BY <1>1, <1>2, <1>3 DEF FreshProfile, FreshGender, Holds
<1>7. CoursesFirst'
  BY <1>1, <1>2, <1>3, CoursesKept DEF CourseKnown
<1>8. DoneIsThere'
  BY <1>1, <1>2, <1>3 DEF DoneIsThere, DoneWith
<1> QED
  BY <1>3, <1>4, <1>5, <1>6, <1>7, <1>8

LEMMA FindHomeKeeps ==
  ASSUME RestoreInv, NEW i \in Imports, FindHome(i)
  PROVE  RestoreInv'
<1> USE DEF RestoreInv
<1>1. PICK h \in IF copies["courses"] = {} THEN {NoCopy} ELSE copies["courses"] :
         op' = [op EXCEPT ![i].step = "save", ![i].home = h]
  BY DEF FindHome
<1> DEFINE v == [op[i] EXCEPT !.step = "save", !.home = h]
<1>2. /\ op[i].step = "home" /\ Moves(i, v)
      /\ UNCHANGED <<profile, gender, home, copies, link, raced, lost, settled, edits>>
  BY <1>1, ImportTypeParts DEF FindHome, Moves, data
<1>3. op[i] \in RestoreType /\ op[i].kind = "profile" /\ h \in Copies \cup {NoCopy}
  BY <1>1, <1>2, ImportTypeParts DEF StepsFit, StepFits, Kinds
<1>4. /\ v \in RestoreType /\ StepFits(v) /\ v.kind = "profile" /\ v.step = "save"
      /\ v.profile = op[i].profile /\ v.blank = op[i].blank /\ v.whole = op[i].whole
  BY <1>3 DEF RestoreType, StepFits
<1> HIDE DEF v
<1>5. /\ op' \in [Imports -> RestoreType] /\ StepsFit' /\ op'[i] = v
      /\ \A j \in Imports \ {i} : op'[j] = op[j] /\ \A x : Holds(j, x)' <=> Holds(j, x)
  BY <1>2, <1>4, MovesFit
<1>6. ImportType'
  BY <1>2, <1>5, ImportTypeParts DEF ImportType, RestoreType
<1>7. /\ \A k \in Kinds : ~Holds(i, k)'
      /\ Holds(i, "profile") /\ (Holds(i, "gender")' => Holds(i, "gender"))
  BY <1>2, <1>3, <1>4, <1>5 DEF Holds, Kinds
<1>8. FreshKinds'
  BY <1>2, <1>5, <1>7, KindKept DEF FreshKinds
<1>9. FreshProfile' /\ FreshGender'
  BY <1>2, <1>4, <1>5, <1>7 DEF FreshProfile, FreshGender
<1>10. CoursesFirst'
  BY <1>2, <1>4, <1>5, CoursesKept DEF CourseKnown
<1>11. DoneIsThere'
  BY <1>2, <1>3, <1>4, <1>5 DEF DoneIsThere, DoneWith
<1> QED
  BY <1>5, <1>6, <1>8, <1>9, <1>10, <1>11

LEMMA ToClubsFits ==
  ASSUME ImportType, NEW i \in Imports
  PROVE  /\ ToClubs(i) \in RestoreType /\ StepFits(ToClubs(i))
         /\ ToClubs(i).step = "look" /\ ToClubs(i).kind = "clubs" /\ ~ToClubs(i).blank
         /\ ToClubs(i).whole = op[i].whole
  BY ImportTypeParts DEF ToClubs, NotRestoring, RestoreType, StepFits, Values, Kinds

LEMMA SaveProfileKeeps ==
  ASSUME RestoreInv, NEW i \in Imports, SaveProfile(i)
  PROVE  RestoreInv'
<1> USE DEF RestoreInv
<1> DEFINE v == IF op[i].blank THEN [op[i] EXCEPT !.kind = "gender"] ELSE ToClubs(i)
<1>1. /\ op[i].step = "save" /\ op[i].kind = "profile" /\ Moves(i, v)
      /\ op[i].home \in copies["courses"] \cup {NoCopy}
      /\ profile' = Filled(op[i].profile) /\ home' = op[i].home
      /\ raced' = raced \cup {x \in {"profile"} : \E j \in Imports \ {i} : Holds(j, x)}
      /\ UNCHANGED <<gender, copies, link, lost, settled, edits>>
  BY DEF SaveProfile, Moves, Races
<1>2. op[i] \in RestoreType
  BY ImportTypeParts
<1>3. /\ v \in RestoreType /\ StepFits(v) /\ v.whole = op[i].whole
      /\ IF op[i].blank THEN v.kind = "gender" /\ v.step = "save"
         ELSE v.kind = "clubs" /\ v.step = "look" /\ ~v.blank
  <2>1. CASE op[i].blank
    BY <1>1, <1>2, <2>1 DEF RestoreType, StepFits
  <2>2. CASE ~op[i].blank
    BY <2>2, ToClubsFits
  <2> QED
    BY <2>1, <2>2
<1> HIDE DEF v
<1>4. /\ op' \in [Imports -> RestoreType] /\ StepsFit' /\ op'[i] = v
      /\ \A j \in Imports \ {i} : op'[j] = op[j] /\ \A x : Holds(j, x)' <=> Holds(j, x)
  BY <1>1, <1>3, MovesFit
<1>5. profile' \in Values /\ raced \subseteq raced' /\ raced' \subseteq Kinds \cup {"profile", "gender"}
  BY <1>1, <1>2, ImportTypeParts DEF Filled, RestoreType, Values
<1>6. ImportType'
  BY <1>1, <1>4, <1>5, ImportTypeParts DEF ImportType, RestoreType
<1>7. /\ \A k \in Kinds : ~Holds(i, k)'
      /\ ~Holds(i, "profile")' /\ (Holds(i, "gender")' => Holds(i, "gender"))
  BY <1>1, <1>3, <1>4 DEF Holds, Kinds
<1>8. FreshKinds'
  BY <1>1, <1>4, <1>5, <1>7, KindKept DEF FreshKinds
<1>9. FreshProfile'
  BY <1>1, <1>4, <1>7 DEF FreshProfile
<1>10. FreshGender'
  BY <1>1, <1>4, <1>5, <1>7, GenderKept
<1>11. CoursesFirst'
  BY <1>1, <1>3, <1>4, CoursesKept DEF CourseKnown
<1>12. DoneIsThere'
  BY <1>1, <1>3, <1>4 DEF DoneIsThere, DoneWith
<1> QED
  BY <1>4, <1>6, <1>8, <1>9, <1>10, <1>11, <1>12

LEMMA SaveGenderKeeps ==
  ASSUME RestoreInv, NEW i \in Imports, SaveGender(i)
  PROVE  RestoreInv'
<1> USE DEF RestoreInv
<1> DEFINE v == ToClubs(i)
<1>1. /\ op[i].step = "save" /\ op[i].kind = "gender" /\ Moves(i, v)
      /\ gender' = "filed"
      /\ raced' = raced \cup {x \in {"gender"} : \E j \in Imports \ {i} : Holds(j, x)}
      /\ UNCHANGED <<profile, home, copies, link, lost, settled, edits>>
  BY DEF SaveGender, Moves, Races
<1>2. /\ v \in RestoreType /\ StepFits(v) /\ v.whole = op[i].whole
      /\ v.kind = "clubs" /\ v.step = "look" /\ ~v.blank
  BY ToClubsFits
<1> HIDE DEF v
<1>3. /\ op' \in [Imports -> RestoreType] /\ StepsFit' /\ op'[i] = v
      /\ \A j \in Imports \ {i} : op'[j] = op[j] /\ \A x : Holds(j, x)' <=> Holds(j, x)
  BY <1>1, <1>2, MovesFit
<1>4. raced \subseteq raced' /\ raced' \subseteq Kinds \cup {"profile", "gender"}
  BY <1>1, ImportTypeParts
<1>5. ImportType'
  BY <1>1, <1>3, <1>4, ImportTypeParts DEF ImportType, RestoreType, Values
<1>6. /\ \A k \in Kinds : ~Holds(i, k)'
      /\ ~Holds(i, "profile")' /\ ~Holds(i, "gender")'
  BY <1>2, <1>3 DEF Holds, Kinds
<1>7. FreshKinds'
  BY <1>1, <1>3, <1>4, <1>6, KindKept DEF FreshKinds
<1>8. FreshProfile'
  BY <1>1, <1>3, <1>4, <1>6, ProfileKept
<1>9. FreshGender'
  BY <1>1, <1>3, <1>6 DEF FreshGender
<1>10. CoursesFirst'
  BY <1>1, <1>2, <1>3, CoursesKept DEF CourseKnown
<1>11. DoneIsThere'
  BY <1>1, <1>2, <1>3 DEF DoneIsThere, DoneWith
<1> QED
  BY <1>3, <1>5, <1>7, <1>8, <1>9, <1>10, <1>11

(* Look has one case for what is there, and one for what is missing.       *)
LEMMA LookKeeps ==
  ASSUME RestoreInv, NEW i \in Imports, Look(i)
  PROVE  RestoreInv'
<1> USE DEF RestoreInv
<1>1. /\ op[i].step = "look"
      /\ UNCHANGED <<profile, gender, home, copies, link, raced, lost, edits>>
  BY DEF Look, data
<1>2. op[i] \in RestoreType /\ op[i].kind \in Kinds
  BY <1>1, ImportTypeParts DEF StepsFit, StepFits
<1> DEFINE k == op[i].kind
<1>3. PICK v \in RestoreType :
         /\ StepFits(v) /\ Moves(i, v) /\ settled' \in BOOLEAN
         /\ v.whole => op[i].whole
         /\ IF copies[k] # {}
            THEN /\ v.step \in {"idle", "look"} /\ ~v.blank
                 /\ k = "clubs" => v.step = "look" /\ v.kind = "courses"
                 /\ k = "courses" => v.step = "look" /\ v.kind = "rounds"
                 /\ k = "rounds" => v.step = "idle"
            ELSE v.kind = k /\ v.step = IF k = "rounds" THEN "link" ELSE "put"
  <2>1. CASE copies[k] # {}
    <3>1. Onward(i, TRUE)
      BY <2>1 DEF Look, Listed
    <3> QED
      BY <1>2, <2>1, <3>1, OnwardMoves
  <2>2. CASE copies[k] = {}
    <3> DEFINE w == [op[i] EXCEPT !.step = IF k = "rounds" THEN "link" ELSE "put"]
    <3>1. Moves(i, w) /\ settled' \in BOOLEAN
      BY <2>2, ImportTypeParts DEF Look, Listed, Moves
    <3>2. w \in RestoreType /\ StepFits(w) /\ w.whole = op[i].whole /\ w.kind = k
          /\ w.step = IF k = "rounds" THEN "link" ELSE "put"
      BY <1>2 DEF RestoreType, StepFits
    <3> HIDE DEF w
    <3> QED
      BY <2>2, <3>1, <3>2
  <2> QED
    BY <2>1, <2>2
<1>4. /\ op' \in [Imports -> RestoreType] /\ StepsFit' /\ op'[i] = v
      /\ \A j \in Imports \ {i} : op'[j] = op[j] /\ \A x : Holds(j, x)' <=> Holds(j, x)
  BY <1>3, MovesFit
<1>5. ImportType'
  BY <1>1, <1>3, <1>4, ImportTypeParts DEF ImportType, RestoreType
<1>6. /\ \A x \in Kinds : Holds(i, x)' => x = k /\ copies[k] = {}
      /\ ~Holds(i, "profile")' /\ ~Holds(i, "gender")'
  BY <1>2, <1>3, <1>4 DEF Holds, Kinds, StepFits
<1>7. FreshKinds'
  BY <1>1, <1>4, <1>6 DEF FreshKinds, FreshKind
<1>8. FreshProfile' /\ FreshGender'
  BY <1>1, <1>4, <1>6, ProfileKept, GenderKept
<1>9. CoursesFirst'
  <2>1. lost \/ (op[i].kind = "rounds" => copies["courses"] # {})
    BY DEF CoursesFirst, CourseKnown
  <2>2. lost \/ CourseKnown(i)'
    BY <1>1, <1>2, <1>3, <1>4, <2>1 DEF CourseKnown, Kinds, StepFits
  <2> QED
    BY <1>1, <1>4, <2>2, CoursesKept
<1>10. DoneIsThere'
  <2>1. \A x \in Kinds : DoneWith(i, x)' => DoneWith(i, x) \/ copies'[x] # {}
    BY <1>1, <1>2, <1>3, <1>4 DEF DoneWith, Kinds
  <2> QED
    BY <1>1, <1>3, <1>4, <2>1, DoneKept DEF DoneWith
<1> QED
  BY <1>4, <1>5, <1>7, <1>8, <1>9, <1>10

LEMMA LookForCourseKeeps ==
  ASSUME RestoreInv, NEW i \in Imports, LookForCourse(i)
  PROVE  RestoreInv'
<1> USE DEF RestoreInv
<1> DEFINE v == [op[i] EXCEPT !.step = "put", !.courses = copies["courses"]]
<1>1. /\ op[i].step = "link" /\ Moves(i, v)
      /\ UNCHANGED <<profile, gender, home, copies, link, raced, lost, settled, edits>>
  BY ImportTypeParts DEF LookForCourse, Moves, data
<1>2. op[i] \in RestoreType /\ op[i].kind = "rounds" /\ copies["courses"] \in SUBSET Copies
  BY <1>1, ImportTypeParts DEF StepsFit, StepFits, Kinds
<1>3. /\ v \in RestoreType /\ StepFits(v) /\ v.step = "put" /\ v.kind = "rounds"
      /\ v.courses = copies["courses"] /\ v.whole = op[i].whole
  BY <1>1, <1>2 DEF RestoreType, StepFits, Kinds
<1> HIDE DEF v
<1>4. /\ op' \in [Imports -> RestoreType] /\ StepsFit' /\ op'[i] = v
      /\ \A j \in Imports \ {i} : op'[j] = op[j] /\ \A x : Holds(j, x)' <=> Holds(j, x)
  BY <1>1, <1>3, MovesFit
<1>5. ImportType'
  BY <1>1, <1>4, ImportTypeParts DEF ImportType, RestoreType
<1>6. /\ \A x \in Kinds : Holds(i, x)' => Holds(i, x)
      /\ ~Holds(i, "profile")' /\ ~Holds(i, "gender")'
  BY <1>1, <1>2, <1>3, <1>4 DEF Holds, Kinds
<1>7. FreshKinds'
  BY <1>1, <1>4, <1>6, KindKept DEF FreshKinds
<1>8. FreshProfile' /\ FreshGender'
  BY <1>1, <1>4, <1>6, ProfileKept, GenderKept
<1>9. CoursesFirst'
  <2>1. lost \/ CourseKnown(i)'
    BY <1>1, <1>2, <1>3, <1>4 DEF CoursesFirst, CourseKnown
  <2> QED
    BY <1>1, <1>4, <2>1, CoursesKept
<1>10. DoneIsThere'
  BY <1>1, <1>2, <1>3, <1>4 DEF DoneIsThere, DoneWith
<1> QED
  BY <1>4, <1>5, <1>7, <1>8, <1>9, <1>10

LEMMA PutKeeps ==
  ASSUME RestoreInv, NEW i \in Imports, NEW c \in Copies, Put(i, c)
  PROVE  RestoreInv'
<1> USE DEF RestoreInv
<1> DEFINE k == op[i].kind
<1>1. /\ op[i].step = "put" /\ c \notin copies[k]
      /\ copies' = [copies EXCEPT ![k] = @ \cup {c}]
      /\ Onward(i, TRUE)
      /\ raced' = raced \cup {x \in {k} : \E j \in Imports \ {i} : Holds(j, x)}
      /\ UNCHANGED <<profile, gender, home, lost, edits>>
  BY DEF Put, Races
<1>2. op[i] \in RestoreType /\ k \in Kinds
  BY <1>1, ImportTypeParts DEF StepsFit, StepFits
<1>3. PICK v \in RestoreType :
         /\ StepFits(v) /\ Moves(i, v) /\ settled' \in BOOLEAN
         /\ v.step \in {"idle", "look"} /\ ~v.blank
         /\ v.whole => op[i].whole
         /\ k = "clubs" => v.step = "look" /\ v.kind = "courses"
         /\ k = "courses" => v.step = "look" /\ v.kind = "rounds"
         /\ k = "rounds" => v.step = "idle"
  BY <1>1, <1>2, OnwardMoves
<1>4. /\ op' \in [Imports -> RestoreType] /\ StepsFit' /\ op'[i] = v
      /\ \A j \in Imports \ {i} : op'[j] = op[j] /\ \A x : Holds(j, x)' <=> Holds(j, x)
  BY <1>3, MovesFit
<1>5. /\ copies' \in [Kinds -> SUBSET Copies]
      /\ copies'[k] = copies[k] \cup {c} /\ \A x \in Kinds \ {k} : copies'[x] = copies[x]
      /\ copies["courses"] \subseteq copies'["courses"] /\ copies["courses"] \subseteq Copies
  BY <1>1, <1>2, ImportTypeParts DEF Kinds
<1>6. /\ link' \in [Copies -> copies'["courses"] \cup {NoCopy}]
      /\ \A r \in Copies : link'[r] = link[r] \/ (r = c /\ k = "rounds")
      /\ k = "rounds" /\ op[i].courses # {} => link'[c] # NoCopy
  <2>1. CASE k = "rounds"
    <3>1. PICK l \in IF op[i].courses = {} THEN {NoCopy} ELSE op[i].courses \cap copies["courses"] :
             link' = [link EXCEPT ![c] = l]
      BY <2>1 DEF Put
    <3>2. l \in copies["courses"] \cup {NoCopy} /\ (op[i].courses # {} => l # NoCopy)
      BY <1>5, <3>1, ImportAssumption
    <3> QED
      BY <1>5, <2>1, <3>1, <3>2, ImportTypeParts
  <2>2. CASE k # "rounds"
    BY <1>5, <2>2, ImportTypeParts DEF Put
  <2> QED
    BY <2>1, <2>2
<1>7. ImportType'
  <2>1. raced' \subseteq Kinds \cup {"profile", "gender"}
    BY <1>1, <1>2, ImportTypeParts
  <2> QED
    BY <1>1, <1>3, <1>4, <1>5, <1>6, <2>1, ImportTypeParts DEF ImportType, RestoreType
<1>8. /\ \A x \in Kinds : ~Holds(i, x)'
      /\ ~Holds(i, "profile")' /\ ~Holds(i, "gender")'
  BY <1>3, <1>4 DEF Holds, Kinds, StepFits
<1>9. ASSUME NEW x \in Kinds
      PROVE  FreshKind(x)'
  <2>1. FreshKind(x) /\ raced \subseteq raced'
    BY <1>1 DEF FreshKinds
  <2>2. CASE x # k
    BY <1>4, <1>5, <1>8, <2>1, <2>2, KindKept
  <2>3. CASE x = k
    <3>1. Holds(i, x)
      BY <1>1, <1>2, <2>3 DEF Holds, Kinds
    <3>2. x \in raced' \/ (copies[x] = {} /\ \A j \in Imports : ~Holds(j, x)')
      BY <1>1, <1>4, <1>8, <2>1, <2>3, <3>1 DEF FreshKind
    <3> QED
      BY <1>5, <2>3, <3>2 DEF FreshKind
  <2> QED
    BY <2>2, <2>3
<1>10. FreshKinds'
  BY <1>9 DEF FreshKinds
<1>11. FreshProfile' /\ FreshGender'
  BY <1>1, <1>4, <1>8, ProfileKept, GenderKept
<1>12. CoursesFirst'
  <2>1. SUFFICES ASSUME ~lost PROVE CoursesFirst'
    BY <1>1 DEF CoursesFirst
  <2>2. /\ \A r \in copies["rounds"] : link[r] # NoCopy
        /\ \A j \in Imports : CourseKnown(j)
    BY <2>1 DEF CoursesFirst
  <2>3. \A r \in copies'["rounds"] : link'[r] # NoCopy
    BY <1>1, <1>2, <1>5, <1>6, <2>2, ImportTypeParts DEF CourseKnown, Kinds
  <2>4. \A j \in Imports \ {i} : CourseKnown(j)'
    BY <1>4, <1>5, <2>2 DEF CourseKnown
  <2>5. CourseKnown(i)'
    BY <1>2, <1>3, <1>4, <1>5 DEF CourseKnown, Kinds, StepFits
  <2> QED
    BY <2>3, <2>4, <2>5 DEF CoursesFirst
<1>13. DoneIsThere'
  <2>1. \A x \in Kinds : copies[x] # {} => copies'[x] # {}
    BY <1>2, <1>5
  <2>2. \A x \in Kinds : DoneWith(i, x)' => DoneWith(i, x) \/ copies'[x] # {}
    BY <1>2, <1>3, <1>4, <1>5 DEF DoneWith, Kinds
  <2> QED
    BY <1>3, <1>4, <2>1, <2>2, DoneKept DEF DoneWith
<1> QED
  BY <1>4, <1>7, <1>10, <1>11, <1>12, <1>13

LEMMA PutFailsKeeps ==
  ASSUME RestoreInv, NEW i \in Imports, PutFails(i)
  PROVE  RestoreInv'
<1> USE DEF RestoreInv
<1> DEFINE k == op[i].kind
<1>1. /\ op[i].step = "put" /\ lost' = (lost \/ k = "courses")
      /\ UNCHANGED <<profile, gender, home, copies, link, raced, edits>>
  BY DEF PutFails, data
<1>2. op[i] \in RestoreType /\ k \in Kinds
  BY <1>1, ImportTypeParts DEF StepsFit, StepFits
<1>3. PICK v \in RestoreType :
         /\ StepFits(v) /\ Moves(i, v) /\ settled' \in BOOLEAN
         /\ v.step \in {"idle", "look"} /\ ~v.blank /\ ~v.whole
         /\ v.kind = "rounds" => k = "courses"
  <2>1. Onward(i, FALSE)
    BY DEF PutFails
  <2> QED
    BY <1>2, <2>1, OnwardMoves DEF Kinds, StepFits
<1>4. /\ op' \in [Imports -> RestoreType] /\ StepsFit' /\ op'[i] = v
      /\ \A j \in Imports \ {i} : op'[j] = op[j] /\ \A x : Holds(j, x)' <=> Holds(j, x)
  BY <1>3, MovesFit
<1>5. ImportType'
  BY <1>1, <1>3, <1>4, ImportTypeParts DEF ImportType, RestoreType
<1>6. /\ \A x \in Kinds : ~Holds(i, x)'
      /\ ~Holds(i, "profile")' /\ ~Holds(i, "gender")'
  BY <1>3, <1>4 DEF Holds, Kinds, StepFits
<1>7. FreshKinds'
  BY <1>1, <1>4, <1>6, KindKept DEF FreshKinds
<1>8. FreshProfile' /\ FreshGender'
  BY <1>1, <1>4, <1>6, ProfileKept, GenderKept
<1>9. CoursesFirst'
  BY <1>1, <1>2, <1>3, <1>4 DEF CoursesFirst, CourseKnown
<1>10. DoneIsThere'
  BY <1>1, <1>3, <1>4 DEF DoneIsThere, DoneWith
<1> QED
  BY <1>4, <1>5, <1>7, <1>8, <1>9, <1>10

LEMMA GiveUpKeeps ==
  ASSUME RestoreInv, NEW i \in Imports, GiveUp(i)
  PROVE  RestoreInv'
<1> USE DEF RestoreInv
<1> DEFINE v == NotRestoring
<1>1. /\ Moves(i, v)
      /\ UNCHANGED <<profile, gender, home, copies, link, raced, lost, settled, edits>>
  BY DEF GiveUp, Moves, data
<1>2. /\ v \in RestoreType /\ StepFits(v)
      /\ v.step = "idle" /\ v.kind = "profile" /\ ~v.blank /\ ~v.whole
  BY NotRestoringFits DEF NotRestoring
<1> HIDE DEF v
<1>3. /\ op' \in [Imports -> RestoreType] /\ StepsFit' /\ op'[i] = v
      /\ \A j \in Imports \ {i} : op'[j] = op[j] /\ \A x : Holds(j, x)' <=> Holds(j, x)
  BY <1>1, <1>2, MovesFit
<1>4. ImportType'
  BY <1>1, <1>3, ImportTypeParts DEF ImportType, RestoreType
<1>5. \A x : ~Holds(i, x)'
  BY <1>2, <1>3 DEF Holds
<1>6. FreshKinds'
  BY <1>1, <1>3, <1>5, KindKept DEF FreshKinds
<1>7. FreshProfile' /\ FreshGender'
  BY <1>1, <1>3, <1>5, ProfileKept, GenderKept
<1>8. CoursesFirst'
  BY <1>1, <1>2, <1>3, CoursesKept DEF CourseKnown
<1>9. DoneIsThere'
  BY <1>1, <1>2, <1>3 DEF DoneIsThere, DoneWith
<1> QED
  BY <1>3, <1>4, <1>6, <1>7, <1>8, <1>9

-----------------------------------------------------------------------------
(* The owner's steps.                                                      *)

LEMMA OwnerActsType ==
  ASSUME ImportType, OwnerActs
  PROVE  edits' \in 0..MaxEdits /\ settled' \in BOOLEAN
<1>1. edits \in 0..MaxEdits
  BY DEF ImportType
<1>2. edits < MaxEdits /\ edits' = edits + 1
  BY DEF OwnerActs
<1>3. edits' \in 0..MaxEdits
  BY <1>1, <1>2, ImportAssumption
<1>4. settled' \in BOOLEAN
  BY DEF OwnerActs
<1> QED
  BY <1>3, <1>4

(* No restore moves; it may have been told that it is no longer whole.     *)
LEMMA HoldsUnmoved ==
  ASSUME op' = op
  PROVE  /\ \A j \in Imports, x \in Kinds \cup {"profile", "gender"} : Holds(j, x)' <=> Holds(j, x)
         /\ StepsFit' <=> StepsFit
  BY DEF Holds, StepsFit

LEMMA EditProfileKeeps ==
  ASSUME RestoreInv, NEW v \in {"empty", "typed"}, NEW h \in Copies \cup {NoCopy}, EditProfile(v, h)
  PROVE  RestoreInv'
<1> USE DEF RestoreInv
<1>1. /\ h \in copies["courses"] \cup {NoCopy} /\ profile' = v /\ home' = h
      /\ raced' = raced \cup {x \in {"profile"} : \E j \in Imports : Holds(j, x)}
      /\ UNCHANGED <<gender, copies, link, op, lost>>
      /\ edits' \in 0..MaxEdits /\ settled' \in BOOLEAN
  BY OwnerActsType DEF EditProfile, Races
<1>2. StepsFit' /\ \A j \in Imports, x \in Kinds \cup {"profile", "gender"} : Holds(j, x)' <=> Holds(j, x)
  BY <1>1, HoldsUnmoved
<1>3. ImportType'
  <2>1. raced' \subseteq Kinds \cup {"profile", "gender"} /\ profile' \in Values
    BY <1>1, ImportTypeParts DEF Values
  <2> QED
    BY <1>1, <2>1, ImportTypeParts DEF ImportType, RestoreType
<1>4. FreshKinds'
  BY <1>1, <1>2, KindKept DEF FreshKinds
<1>5. FreshProfile' /\ FreshGender'
  BY <1>1, <1>2 DEF FreshProfile, FreshGender
<1>6. CoursesFirst' /\ DoneIsThere'
  BY <1>1 DEF CoursesFirst, CourseKnown, DoneIsThere, DoneWith
<1> QED
  BY <1>2, <1>3, <1>4, <1>5, <1>6

LEMMA EditGenderKeeps ==
  ASSUME RestoreInv, NEW v \in {"empty", "typed"}, EditGender(v)
  PROVE  RestoreInv'
<1> USE DEF RestoreInv
<1>1. /\ gender' = v
      /\ raced' = raced \cup {x \in {"gender"} : \E j \in Imports : Holds(j, x)}
      /\ UNCHANGED <<profile, home, copies, link, op, lost>>
      /\ edits' \in 0..MaxEdits /\ settled' \in BOOLEAN
  BY OwnerActsType DEF EditGender, Races
<1>2. StepsFit' /\ \A j \in Imports, x \in Kinds \cup {"profile", "gender"} : Holds(j, x)' <=> Holds(j, x)
  BY <1>1, HoldsUnmoved
<1>3. ImportType'
  <2>1. raced' \subseteq Kinds \cup {"profile", "gender"} /\ gender' \in Values
    BY <1>1, ImportTypeParts DEF Values
  <2> QED
    BY <1>1, <2>1, ImportTypeParts DEF ImportType, RestoreType
<1>4. FreshKinds'
  BY <1>1, <1>2, KindKept DEF FreshKinds
<1>5. FreshProfile' /\ FreshGender'
  BY <1>1, <1>2 DEF FreshProfile, FreshGender
<1>6. CoursesFirst' /\ DoneIsThere'
  BY <1>1 DEF CoursesFirst, CourseKnown, DoneIsThere, DoneWith
<1> QED
  BY <1>2, <1>3, <1>4, <1>5, <1>6

LEMMA MakeKeeps ==
  ASSUME RestoreInv, NEW k \in Kinds, NEW c \in Copies, Make(k, c)
  PROVE  RestoreInv'
<1> USE DEF RestoreInv
<1>1. /\ copies[k] = {} /\ copies' = [copies EXCEPT ![k] = {c}]
      /\ raced' = raced \cup {x \in {k} : \E j \in Imports : Holds(j, x)}
      /\ UNCHANGED <<profile, gender, home, op, lost>>
      /\ edits' \in 0..MaxEdits /\ settled' \in BOOLEAN
  BY OwnerActsType DEF Make, Races
<1>2. StepsFit' /\ \A j \in Imports, x \in Kinds \cup {"profile", "gender"} : Holds(j, x)' <=> Holds(j, x)
  BY <1>1, HoldsUnmoved
<1>3. /\ copies' \in [Kinds -> SUBSET Copies]
      /\ copies'[k] = {c} /\ \A x \in Kinds \ {k} : copies'[x] = copies[x]
      /\ copies["courses"] \subseteq copies'["courses"] /\ copies["courses"] \subseteq Copies
  BY <1>1, ImportTypeParts DEF Kinds
<1>4. /\ link' \in [Copies -> copies'["courses"] \cup {NoCopy}]
      /\ \A r \in Copies : link'[r] = link[r] \/ (r = c /\ link'[r] # NoCopy)
  <2>1. CASE k = "rounds"
    <3>1. PICK l \in copies["courses"] : link' = [link EXCEPT ![c] = l]
      BY <2>1 DEF Make
    <3> QED
      BY <1>3, <3>1, ImportTypeParts, ImportAssumption
  <2>2. CASE k # "rounds"
    BY <1>3, <2>2, ImportTypeParts DEF Make
  <2> QED
    BY <2>1, <2>2
<1>5. ImportType'
  <2>1. raced' \subseteq Kinds \cup {"profile", "gender"}
    BY <1>1, ImportTypeParts
  <2> QED
    BY <1>1, <1>3, <1>4, <2>1, ImportTypeParts DEF ImportType, RestoreType
<1>6. ASSUME NEW x \in Kinds
      PROVE  FreshKind(x)'
  <2>1. FreshKind(x) /\ raced \subseteq raced'
    BY <1>1 DEF FreshKinds
  <2>2. CASE x # k
    BY <1>2, <1>3, <2>1, <2>2, KindKept
  <2>3. CASE x = k
    <3>1. x \in raced' \/ \A j \in Imports : ~Holds(j, x)'
      BY <1>1, <1>2, <2>3
    <3> QED
      BY <1>3, <2>3, <3>1 DEF FreshKind
  <2> QED
    BY <2>2, <2>3
<1>7. FreshKinds'
  BY <1>6 DEF FreshKinds
<1>8. FreshProfile' /\ FreshGender'
  BY <1>1, <1>2 DEF FreshProfile, FreshGender
<1>9. CoursesFirst'
  <2>1. SUFFICES ASSUME ~lost PROVE CoursesFirst'
    BY <1>1 DEF CoursesFirst
  <2>2. \A r \in copies'["rounds"] : link'[r] # NoCopy
    <3>1. CASE k = "rounds"
      <4>1. copies'["rounds"] = {c} /\ link'[c] # NoCopy
        BY <1>3, <3>1, ImportTypeParts, ImportAssumption DEF Make
      <4> QED
        BY <4>1
    <3>2. CASE k # "rounds"
      BY <1>3, <2>1, <3>2 DEF CoursesFirst, Make, Kinds
    <3> QED
      BY <3>1, <3>2
  <2>3. \A j \in Imports : CourseKnown(j)'
    BY <1>1, <1>3, <2>1 DEF CoursesFirst, CourseKnown
  <2> QED
    BY <2>2, <2>3 DEF CoursesFirst
<1>10. DoneIsThere'
  <2>1. \A x \in Kinds : copies[x] # {} => copies'[x] # {}
    BY <1>3
  <2> QED
    BY <1>1, <2>1, DoneKept DEF DoneWith
<1> QED
  BY <1>2, <1>5, <1>7, <1>8, <1>9, <1>10

LEMMA DropKeeps ==
  ASSUME RestoreInv, NEW k \in Kinds, NEW c \in Copies, Drop(k, c)
  PROVE  RestoreInv'
<1> USE DEF RestoreInv
<1>1. /\ copies' = [copies EXCEPT ![k] = @ \ {c}]
      /\ home' = Cleared(home, k, c)
      /\ link' = [r \in Copies |-> IF k = "rounds" /\ r = c THEN NoCopy ELSE Cleared(link[r], k, c)]
      /\ op' = [j \in Imports |-> [op[j] EXCEPT !.whole = FALSE]]
      /\ lost' = (lost \/ k = "courses")
      /\ UNCHANGED <<profile, gender, raced>>
      /\ edits' \in 0..MaxEdits /\ settled' \in BOOLEAN
  BY OwnerActsType DEF Drop
<1>2. \A j \in Imports :
         /\ op[j] \in RestoreType /\ op'[j] \in RestoreType /\ op'[j].whole = FALSE
         /\ op'[j].step = op[j].step /\ op'[j].kind = op[j].kind /\ op'[j].blank = op[j].blank
         /\ op'[j].profile = op[j].profile /\ op'[j].courses = op[j].courses
  <2>1. SUFFICES ASSUME NEW j \in Imports
                 PROVE  LET o == op[j]  p == op'[j] IN
                          /\ o \in RestoreType /\ p \in RestoreType /\ p.whole = FALSE
                          /\ p.step = o.step /\ p.kind = o.kind /\ p.blank = o.blank
                          /\ p.profile = o.profile /\ p.courses = o.courses
    OBVIOUS
  <2>2. op[j] \in RestoreType /\ op'[j] = [op[j] EXCEPT !.whole = FALSE]
    BY <1>1, ImportTypeParts
  <2> QED
    BY <2>2 DEF RestoreType
<1>3. op' \in [Imports -> RestoreType] /\ StepsFit'
  BY <1>1, <1>2 DEF StepsFit, StepFits
<1>4. \A j \in Imports, x \in Kinds \cup {"profile", "gender"} : Holds(j, x)' <=> Holds(j, x)
  BY <1>2 DEF Holds
<1>5. /\ copies' \in [Kinds -> SUBSET Copies]
      /\ copies'[k] = copies[k] \ {c} /\ \A x \in Kinds \ {k} : copies'[x] = copies[x]
  BY <1>1, ImportTypeParts
<1>6. /\ home' \in copies'["courses"] \cup {NoCopy}
      /\ link' \in [Copies -> copies'["courses"] \cup {NoCopy}]
  <2>1. \A at \in copies["courses"] \cup {NoCopy} :
           Cleared(at, k, c) \in copies'["courses"] \cup {NoCopy}
    BY <1>5 DEF Cleared, Kinds
  <2> QED
    BY <1>1, <2>1, ImportTypeParts
<1>7. ImportType'
  BY <1>1, <1>3, <1>5, <1>6, ImportTypeParts DEF ImportType, RestoreType
<1>8. FreshKinds'
  <2>1. \A x \in Kinds : copies'[x] \subseteq copies[x]
    BY <1>5
  <2> QED
    BY <1>1, <1>4, <2>1, KindKept DEF FreshKinds
<1>9. FreshProfile' /\ FreshGender'
  BY <1>1, <1>2, <1>4 DEF FreshProfile, FreshGender
<1>10. CoursesFirst'
  <2>1. SUFFICES ASSUME ~lost, k # "courses" PROVE CoursesFirst'
    BY <1>1 DEF CoursesFirst
  <2>2. \A r \in copies'["rounds"] : r \in copies["rounds"] /\ ~(k = "rounds" /\ r = c) /\ r \in Copies
    BY <1>5, ImportTypeParts DEF Kinds
  <2>3. \A r \in copies'["rounds"] : link'[r] = link[r]
    BY <1>1, <2>1, <2>2 DEF Cleared
  <2>4. copies'["courses"] = copies["courses"]
    BY <1>5, <2>1 DEF Kinds
  <2> QED
    BY <1>2, <2>1, <2>2, <2>3, <2>4 DEF CoursesFirst, CourseKnown
<1>11. DoneIsThere'
  BY <1>2 DEF DoneIsThere
<1> QED
  BY <1>3, <1>7, <1>8, <1>9, <1>10, <1>11

-----------------------------------------------------------------------------
LEMMA NextRestoreInv == RestoreInv /\ [ImportNext]_importVars => RestoreInv'
<1> SUFFICES ASSUME RestoreInv, [ImportNext]_importVars PROVE RestoreInv'
  OBVIOUS
<1>1. CASE \E i \in Imports : Restore(i)
  BY <1>1, BeginKeeps, FindHomeKeeps, SaveProfileKeeps, SaveGenderKeeps, LookKeeps,
     LookForCourseKeeps, PutKeeps, PutFailsKeeps, GiveUpKeeps DEF Restore
<1>2. CASE \/ \E v \in {"empty", "typed"}, h \in Copies \cup {NoCopy} : EditProfile(v, h)
           \/ \E v \in {"empty", "typed"} : EditGender(v)
           \/ \E k \in Kinds, c \in Copies : Make(k, c) \/ Drop(k, c)
  BY <1>2, EditProfileKeeps, EditGenderKeeps, MakeKeeps, DropKeeps
<1>3. CASE UNCHANGED importVars
  BY <1>3 DEF importVars, data, RestoreInv, ImportType, StepsFit, FreshKinds, FreshKind, Holds,
     FreshProfile, FreshGender, CoursesFirst, CourseKnown, DoneIsThere, DoneWith
<1> QED
  BY <1>1, <1>2, <1>3 DEF ImportNext

LEMMA RestoreInvHolds == ImportSpec => []RestoreInv
  BY InitRestoreInv, NextRestoreInv, PTL DEF ImportSpec

(* The type invariant of Imports.                                          *)
THEOREM RestoreTypeCorrect == ImportSpec => []ImportType
<1>1. RestoreInv => ImportType
  BY DEF RestoreInv
<1> QED
  BY <1>1, RestoreInvHolds, PTL

(* However many restores of the file run, repeat and are cut off, a kind   *)
(* that no two writers crossed on has one copy (importClubs,               *)
(* importCourses, importRounds).                                           *)
THEOREM RestoresMakeOneCopy == ImportSpec => []OneCopyEach
<1>1. ASSUME RestoreInv PROVE OneCopyEach
  <2>1. SUFFICES ASSUME NEW k \in Kinds \ raced PROVE Cardinality(copies[k]) <= 1
    BY DEF OneCopyEach
  <2>2. copies[k] \in SUBSET Copies /\ \A c, d \in copies[k] : c = d
    BY <1>1, ImportTypeParts DEF RestoreInv, FreshKinds, FreshKind
  <2>3. CASE copies[k] = {}
    BY <2>3, FS_EmptySet
  <2>4. CASE copies[k] # {}
    <3>1. PICK c \in copies[k] : copies[k] = {c}
      BY <2>2, <2>4
    <3>2. Cardinality({c}) = 1
      BY FS_Singleton
    <3> QED
      BY <3>1, <3>2
  <2> QED
    BY <2>3, <2>4
<1> QED
  BY <1>1, RestoreInvHolds, PTL

(* No restored round is left without its course while no course was lost   *)
(* (importCourses before importRounds).                                    *)
THEOREM RestoredRoundsLinked == ImportSpec => []RoundsFindTheirCourse
<1>1. RestoreInv => RoundsFindTheirCourse
  BY DEF RestoreInv, CoursesFirst, RoundsFindTheirCourse
<1> QED
  BY <1>1, RestoreInvHolds, PTL

(* A restore that ended without a failure left one of every kind, whoever  *)
(* made it, until something is removed (Import).                           *)
THEOREM WholeRestoresAreWhole == ImportSpec => []WholeFileIsThere
<1>1. RestoreInv => WholeFileIsThere
  BY DEF RestoreInv, DoneIsThere, DoneWith, WholeFileIsThere
<1> QED
  BY <1>1, RestoreInvHolds, PTL

(* A restore writes over what the owner typed only if the owner typed it   *)
(* after the restore read the user (importProfile).                        *)
THEOREM TypingSurvivesRestores == ImportSpec => TypedStays
<1> DEFINE Kept == /\ profile = "typed" /\ profile' = "filed" => "profile" \in raced
                   /\ gender = "typed" /\ gender' = "filed" => "gender" \in raced
<1>1. ASSUME RestoreInv, [ImportNext]_importVars PROVE [Kept]_importVars
  <2> SUFFICES ASSUME ImportNext PROVE Kept
    BY <1>1
  <2> USE <1>1
  <2>1. CASE \E i \in Imports : SaveProfile(i)
    <3>1. PICK i \in Imports : SaveProfile(i)
      BY <2>1
    <3>2. /\ Holds(i, "profile") /\ profile' = Filled(op[i].profile) /\ gender' = gender
      BY <3>1 DEF SaveProfile, Holds
    <3>3. "profile" \in raced \/ op[i].profile = profile
      BY <3>2 DEF RestoreInv, FreshProfile
    <3> QED
      BY <3>2, <3>3 DEF Filled
  <2>2. CASE \E i \in Imports : SaveGender(i)
    <3>1. PICK i \in Imports : SaveGender(i)
      BY <2>2
    <3>2. Holds(i, "gender") /\ profile' = profile
      BY <3>1 DEF SaveGender, Holds, RestoreInv, StepsFit, StepFits
    <3>3. "gender" \in raced \/ gender = "empty"
      BY <3>2 DEF RestoreInv, FreshGender
    <3> QED
      BY <3>2, <3>3
  <2>3. CASE \/ \E v \in {"empty", "typed"}, h \in Copies \cup {NoCopy} : EditProfile(v, h)
             \/ \E v \in {"empty", "typed"} : EditGender(v)
    BY <2>3 DEF EditProfile, EditGender
  <2>4. CASE \/ \E i \in Imports :
                   \/ Begin(i) \/ FindHome(i) \/ Look(i) \/ LookForCourse(i) \/ PutFails(i) \/ GiveUp(i)
                   \/ \E c \in Copies : Put(i, c)
             \/ \E k \in Kinds, c \in Copies : Make(k, c) \/ Drop(k, c)
    <3>1. profile' = profile /\ gender' = gender
      BY <2>4 DEF Begin, FindHome, Look, LookForCourse, PutFails, GiveUp, Put, Make, Drop, data
    <3> QED
      BY <3>1
  <2> QED
    BY <2>1, <2>2, <2>3, <2>4 DEF ImportNext, Restore
<1> QED
  BY <1>1, RestoreInvHolds, PTL DEF ImportSpec, TypedStays
===============================================================================
