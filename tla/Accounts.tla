------------------------------ MODULE Accounts ------------------------------
(***************************************************************************)
(* How accounts come to be, and which account a Google identity signs in   *)
(* to: sign-up, the Google callback and its handoff, linking, a change of  *)
(* address and the end of an account (internal/auth/service.go, google.go, *)
(* handoff.go; internal/account/service.go).                               *)
(*                                                                         *)
(* Each lookup and each insert is a statement of its own; the table's      *)
(* UNIQUE and FOREIGN KEY constraints are what two crossing requests meet. *)
(* What Google says of an identity is external: its subject is fixed, its  *)
(* address, and whether Google vouches for it, may be any.  The rules for  *)
(* changing an address or a password are module Credentials'.              *)
(***************************************************************************)
CONSTANTS
    Users,      \* ids that can be given to accounts
    Emails,
    Subjects,   \* Google identities
    Codes,      \* handoff codes outstanding at once
    Requests,
    NoUser, NoEmail, NoSubject

ASSUME AccountAssumption ==
    NoUser \notin Users /\ NoEmail \notin Emails /\ NoSubject \notin Subjects

VARIABLES
    email,      \* users.email; NoEmail where there is no row
    password,   \* accounts with a password
    oauth,      \* oauth_accounts: the account of a subject
    handoffs,   \* handoffStore, in memory: the session behind a code
    req,        \* requests between two statements
    gone,       \* history: accounts deleted; ids are never given twice
    issued,     \* history: sessions Google sign-ins were answered with
    made        \* history: the subject whose sign-in created an account

vars == <<email, password, oauth, handoffs, req, gone, issued, made>>

NoSession == [user |-> NoUser, subject |-> NoSubject]
Sessions == [user : Users, subject : Subjects]

Idle == [op |-> "none", user |-> NoUser, email |-> NoEmail, subject |-> NoSubject,
         vouched |-> FALSE]

RequestType ==
    [op : {"none", "signup", "lookup", "create", "join", "link", "session"},
     user : Users \cup {NoUser}, email : Emails \cup {NoEmail},
     subject : Subjects \cup {NoSubject}, vouched : BOOLEAN]

TypeOK ==
    /\ email \in [Users -> Emails \cup {NoEmail}]
    /\ password \subseteq {u \in Users : email[u] # NoEmail}
    /\ oauth \in [Subjects -> {u \in Users : email[u] # NoEmail} \cup {NoUser}]
    /\ handoffs \in [Codes -> Sessions \cup {NoSession}]
    /\ req \in [Requests -> RequestType]
    /\ gone \subseteq {u \in Users : email[u] = NoEmail}
    /\ issued \subseteq Sessions
    /\ made \in [Users -> Subjects \cup {NoSubject}]

Init ==
    /\ email = [u \in Users |-> NoEmail]
    /\ password = {}
    /\ oauth = [s \in Subjects |-> NoUser]
    /\ handoffs = [c \in Codes |-> NoSession]
    /\ req = [r \in Requests |-> Idle]
    /\ gone = {} /\ issued = {}
    /\ made = [u \in Users |-> NoSubject]

-----------------------------------------------------------------------------
Exists(u) == u # NoUser /\ email[u] # NoEmail

(* UNIQUE: nobody has the address.                                         *)
Free(e) == \A u \in Users : email[u] # e

Done(r) == req' = [req EXCEPT ![r] = Idle]

-----------------------------------------------------------------------------
(* Signing up with a password.                                             *)

(* GetUserByEmail finds nobody; then the password is hashed.               *)
SignUp(r, e) ==
    /\ req[r].op = "none" /\ Free(e)
    /\ req' = [req EXCEPT ![r] = [Idle EXCEPT !.op = "signup", !.email = e]]
    /\ UNCHANGED <<email, password, oauth, handoffs, gone, issued, made>>

(* CreateUser; somebody else may have the address by now.                  *)
InsertUser(r, u) ==
    /\ req[r].op = "signup" /\ email[u] = NoEmail /\ u \notin gone
    /\ IF Free(req[r].email)
       THEN /\ email' = [email EXCEPT ![u] = req[r].email]
            /\ password' = password \cup {u}
       ELSE UNCHANGED <<email, password>>
    /\ Done(r)
    /\ UNCHANGED <<oauth, handoffs, gone, issued, made>>

-----------------------------------------------------------------------------
(* CompleteGoogleLogin, after googleCallback has got the identity.         *)

(* GetOAuthAccountByProviderSubject.                                       *)
BySubject(r, s, e, vouched) ==
    /\ req[r].op = "none"
    /\ req' = [req EXCEPT ![r] =
                 IF oauth[s] # NoUser
                 THEN [Idle EXCEPT !.op = "session", !.user = oauth[s], !.subject = s]
                 ELSE [Idle EXCEPT !.op = "lookup", !.subject = s, !.email = e, !.vouched = vouched]]
    /\ UNCHANGED <<email, password, oauth, handoffs, gone, issued, made>>

(* GetUserByEmail: an account of that address is joined, if Google vouches *)
(* for the address; with none, one is created.                             *)
ByEmail(r) ==
    /\ req[r].op = "lookup"
    /\ \/ /\ Free(req[r].email)
          /\ req' = [req EXCEPT ![r].op = "create"]
       \/ \E u \in Users :
             /\ email[u] = req[r].email
             /\ req' = [req EXCEPT ![r] =
                          IF req[r].vouched
                          THEN [req[r] EXCEPT !.op = "join", !.user = u, !.email = NoEmail]
                          ELSE Idle]
    /\ UNCHANGED <<email, password, oauth, handoffs, gone, issued, made>>

(* Mutant of Commits: the user stays when the subject turns out taken.     *)
CommitsUserAlone(e, s) == Free(e)

(* createUserFromGoogle's transaction commits.                             *)
Commits(e, s) == Free(e) /\ oauth[s] = NoUser

CreateFromGoogle(r, u) ==
    /\ req[r].op = "create" /\ email[u] = NoEmail /\ u \notin gone
    /\ LET e == req[r].email  s == req[r].subject IN
         IF Commits(e, s)
         THEN /\ email' = [email EXCEPT ![u] = e]
              /\ oauth' = [oauth EXCEPT ![s] = IF @ = NoUser THEN u ELSE @]
              /\ made' = [made EXCEPT ![u] = s]
              /\ req' = [req EXCEPT ![r] = [Idle EXCEPT !.op = "session", !.user = u, !.subject = s]]
         ELSE Done(r) /\ UNCHANGED <<email, oauth, made>>
    /\ UNCHANGED <<password, handoffs, gone, issued>>

(* LinkGoogle, for the signed-in owner of u: a subject linked to any       *)
(* account is refused, or linked already.                                  *)
Link(r, u, s) ==
    /\ req[r].op = "none" /\ Exists(u) /\ oauth[s] = NoUser
    /\ req' = [req EXCEPT ![r] = [Idle EXCEPT !.op = "link", !.user = u, !.subject = s]]
    /\ UNCHANGED <<email, password, oauth, handoffs, gone, issued, made>>

(* Mutant of Inserts: the link is moved.                                   *)
InsertsOrMoves(s, u) == Exists(u)

(* CreateOAuthAccount: UNIQUE on the subject, FOREIGN KEY on the user.     *)
Inserts(s, u) == oauth[s] = NoUser /\ Exists(u)

LinkProvider(r) ==
    /\ req[r].op \in {"join", "link"}
    /\ LET s == req[r].subject  u == req[r].user IN
         IF Inserts(s, u)
         THEN /\ oauth' = [oauth EXCEPT ![s] = u]
              /\ req' = [req EXCEPT ![r] =
                           IF req[r].op = "link" THEN Idle
                           ELSE [Idle EXCEPT !.op = "session", !.user = u, !.subject = s]]
         ELSE Done(r) /\ UNCHANGED oauth
    /\ UNCHANGED <<email, password, handoffs, gone, issued, made>>

(* issueSession, whose token a deleted account cannot have, and the        *)
(* handoff: the browser gets a code for it.                                *)
IssueSession(r, c) ==
    /\ req[r].op = "session" /\ handoffs[c] = NoSession
    /\ IF Exists(req[r].user)
       THEN LET session == [user |-> req[r].user, subject |-> req[r].subject] IN
              /\ handoffs' = [handoffs EXCEPT ![c] = session]
              /\ issued' = issued \cup {session}
       ELSE UNCHANGED <<handoffs, issued>>
    /\ Done(r)
    /\ UNCHANGED <<email, password, oauth, gone, made>>

(* googleExchange redeems a code, or its two minutes are over.             *)
Redeem(c) ==
    /\ handoffs[c] # NoSession
    /\ handoffs' = [handoffs EXCEPT ![c] = NoSession]
    /\ UNCHANGED <<email, password, oauth, req, gone, issued, made>>

-----------------------------------------------------------------------------
(* The rest of an account's life, and the process.                         *)

(* ChangeEmail's UPDATE, under the same UNIQUE.                            *)
ChangeEmail(u, e) ==
    /\ Exists(u) /\ Free(e)
    /\ email' = [email EXCEPT ![u] = e]
    /\ UNCHANGED <<password, oauth, handoffs, req, gone, issued, made>>

SetPassword(u) ==
    /\ Exists(u) /\ u \notin password
    /\ password' = password \cup {u}
    /\ UNCHANGED <<email, oauth, handoffs, req, gone, issued, made>>

(* ON DELETE CASCADE.                                                      *)
Cascade(u) == [s \in Subjects |-> IF oauth[s] = u THEN NoUser ELSE oauth[s]]

DeleteAccount(u) ==
    /\ Exists(u)
    /\ email' = [email EXCEPT ![u] = NoEmail]
    /\ password' = password \ {u}
    /\ oauth' = Cascade(u)
    /\ gone' = gone \cup {u}
    /\ UNCHANGED <<handoffs, req, issued, made>>

(* A caller goes away, or a statement fails.                               *)
HangUp(r) ==
    /\ req[r].op # "none"
    /\ Done(r)
    /\ UNCHANGED <<email, password, oauth, handoffs, gone, issued, made>>

Restart ==
    /\ req' = [r \in Requests |-> Idle]
    /\ handoffs' = [c \in Codes |-> NoSession]
    /\ UNCHANGED <<email, password, oauth, gone, issued, made>>

-----------------------------------------------------------------------------
Next ==
    \/ \E r \in Requests, e \in Emails : SignUp(r, e)
    \/ \E r \in Requests, s \in Subjects, e \in Emails, v \in BOOLEAN : BySubject(r, s, e, v)
    \/ \E r \in Requests, u \in Users : InsertUser(r, u) \/ CreateFromGoogle(r, u)
    \/ \E r \in Requests, u \in Users, s \in Subjects : Link(r, u, s)
    \/ \E r \in Requests : ByEmail(r) \/ LinkProvider(r) \/ HangUp(r)
    \/ \E r \in Requests, c \in Codes : IssueSession(r, c)
    \/ \E c \in Codes : Redeem(c)
    \/ \E u \in Users, e \in Emails : ChangeEmail(u, e)
    \/ \E u \in Users : SetPassword(u) \/ DeleteAccount(u)
    \/ Restart

Spec == Init /\ [][Next]_vars

-----------------------------------------------------------------------------
(* Properties.                                                             *)

(* An account can be signed in to: it has a password or a Google identity, *)
(* whichever requests created it, failed or crossed.                       *)
EveryoneCanSignIn ==
    \A u \in Users : Exists(u) => u \in password \/ \E s \in Subjects : oauth[s] = u

(* The sessions a Google identity was answered with, handed off yet or     *)
(* not, are of the account it is linked to, as long as that exists: no     *)
(* identity ever signs in to two.                                          *)
SessionIsTheIdentitys ==
    \A x \in issued : Exists(x.user) => oauth[x.subject] = x.user

(* The sign-ins of one identity, under whatever addresses and however they *)
(* cross, leave at most one account of their making.                       *)
OneAccountPerIdentity ==
    \A u, w \in Users :
        Exists(u) /\ Exists(w) /\ made[u] = made[w] /\ made[u] # NoSubject => u = w
=============================================================================
