---------------------------- MODULE Credentials ----------------------------
(***************************************************************************)
(* What stands between a password and one user's account: the address and  *)
(* whether it is confirmed, the second factor, and the browsers remembered *)
(* to skip it.                                                             *)
(*                                                                         *)
(* Changing any of them is a sequence of statements with no transaction    *)
(* around it (internal/account/service.go ChangeEmail, internal/auth       *)
(* SetTwoFactor, SetPassword, VerifyEmail, CompleteTwoFactor).  Requests   *)
(* interleave between statements and one whose caller hangs up stops       *)
(* between two of them.                                                    *)
(*                                                                         *)
(* The server can send mail.  The account has a password and the caller    *)
(* gives the right one.  A sign-in from a remembered browser changes       *)
(* nothing here and is left out, as are the sessions (module Sessions);    *)
(* how often a code may be tried, and the recovery codes, are the matter   *)
(* of module Challenges: a link or a code is read and consumed in one step *)
(* here, and at most one of each is outstanding.                           *)
(***************************************************************************)
CONSTANTS
    Emails,     \* addresses the account may have
    Devices,    \* remembered browsers
    Requests,   \* requests being handled at once
    NoEmail

ASSUME CredentialAssumption == NoEmail \notin Emails

VARIABLES
    email, verified, twoFactor,   \* the users row
    devices,     \* trusted_devices rows
    link,        \* the address of the outstanding verification link, if any
    code,        \* the address of the outstanding sign-in code, if any
    req,         \* requests between two statements
    proven,      \* history: addresses somebody opened a link at, or Google vouched for
    slipped,     \* history: addresses given while a link to another was being redeemed
    armedFor,    \* history: the address the account had when two-factor was turned on
    overtaken,   \* history: that address was set after its confirmation was looked at
    mailedTo,    \* history: where the code was mailed that a remembered browser gave
    late,        \* history: browsers remembered by a sign-in that an address change overtook
    outdated,    \* history: those remembered before the latest change of address
    cut,         \* history: a change of address ended before it forgot them
    reply        \* history: is a change of address awaited, or answered as done

userVars == <<email, verified, twoFactor>>
rowVars == <<devices, link, code>>
proofVars == <<proven, slipped, armedFor, overtaken>>
trustVars == <<mailedTo, late, outdated, cut, reply>>
vars == <<email, verified, twoFactor, devices, link, code, req,
          proven, slipped, armedFor, overtaken, mailedTo, late, outdated, cut, reply>>

Ops == {"none", "email", "send", "verify", "on", "off", "password", "login", "code"}
Phases == {"idle", "checked", "updated", "forgot", "sending", "consumed", "addressed",
           "known", "admitted"}

(* old: the address was changed after the request last looked at it.       *)
RequestType == [op : Ops, phase : Phases, email : Emails \cup {NoEmail}, old : BOOLEAN]

Fresh(op, phase, e) == [op |-> op, phase |-> phase, email |-> e, old |-> FALSE]

Idle == Fresh("none", "idle", NoEmail)

(* The phases in which the address a request read, or was given, matters.  *)
Addressing == {"checked", "sending", "consumed", "addressed", "known", "admitted"}

TypeOK ==
    /\ email \in Emails /\ verified \in BOOLEAN /\ twoFactor \in BOOLEAN
    /\ devices \subseteq Devices
    /\ link \in Emails \cup {NoEmail} /\ code \in Emails \cup {NoEmail}
    /\ req \in [Requests -> RequestType]
    /\ \A r \in Requests : req[r].phase \in Addressing => req[r].email \in Emails
    /\ proven \subseteq Emails /\ slipped \subseteq Emails
    /\ armedFor \in Emails \cup {NoEmail}
    /\ twoFactor <=> armedFor # NoEmail
    /\ overtaken \in BOOLEAN
    /\ mailedTo \in [Devices -> Emails \cup {NoEmail}]
    /\ \A d \in Devices : d \in devices <=> mailedTo[d] # NoEmail
    /\ late \subseteq devices /\ outdated \subseteq devices
    /\ cut \in BOOLEAN
    /\ reply \in {"none", "awaited", "done"}

(* Signed up with a password, or with Google, which vouches for the        *)
(* address, before a password was set.                                     *)
Init ==
    /\ email \in Emails /\ verified \in BOOLEAN /\ twoFactor = FALSE
    /\ devices = {} /\ link = NoEmail /\ code = NoEmail
    /\ req = [r \in Requests |-> Idle]
    /\ proven = IF verified THEN {email} ELSE {}
    /\ slipped = {} /\ armedFor = NoEmail /\ overtaken = FALSE
    /\ mailedTo = [d \in Devices |-> NoEmail]
    /\ late = {} /\ outdated = {} /\ cut = FALSE /\ reply = "none"

Begin(r, op, phase, e) ==
    /\ req[r].phase = "idle"
    /\ req' = [req EXCEPT ![r] = Fresh(op, phase, e)]

At(r, phase) == [op |-> req[r].op, phase |-> phase, email |-> req[r].email, old |-> req[r].old]

Done(r) == req' = [req EXCEPT ![r] = Idle]

-----------------------------------------------------------------------------
(* The first statement of each handler reads the users row and decides.    *)

Replied == reply' = IF reply = "awaited" THEN "done" ELSE reply

(* ChangeEmail, to another address.                                        *)
StartChange(r, e) ==
    /\ e # email
    /\ Begin(r, "email", "checked", e)
    /\ UNCHANGED <<userVars, rowVars, proofVars, trustVars>>

(* ChangeEmail, to the address the row already has: a session and nothing  *)
(* else.                                                                   *)
SaveUnchanged(r) ==
    /\ req[r].phase = "idle"
    /\ Replied
    /\ UNCHANGED <<userVars, rowVars, req, proofVars, mailedTo, late, outdated, cut>>

StartPassword(r) ==
    /\ Begin(r, "password", "checked", email)
    /\ UNCHANGED <<userVars, rowVars, proofVars, trustVars>>

MayArm == verified

StartTwoFactor(r, op) ==
    /\ op = "on" => MayArm
    /\ Begin(r, op, "checked", email)
    /\ UNCHANGED <<userVars, rowVars, proofVars, trustVars>>

-----------------------------------------------------------------------------
(* Changing what trust was granted under.                                  *)

Updated(r) == req' = [req EXCEPT ![r] = Fresh(req[r].op, "updated", NoEmail)]

(* Requests that looked at the address and have yet to act on it.          *)
Relying(q) == req[q].phase = "admitted" \/ (req[q].op = "on" /\ req[q].phase = "checked")

(* The same for a change of address, which overtakes those.                *)
Moved(r) ==
    req' = [q \in Requests |->
              IF q = r THEN Fresh("email", "updated", NoEmail)
              ELSE [op |-> req[q].op, phase |-> req[q].phase, email |-> req[q].email,
                    old |-> req[q].old \/ Relying(q)]]

Confirming == {r \in Requests : req[r].phase = "addressed"}

(* Mutant of Cleared: the new address inherits the old one's confirmation. *)
ClearedNot == verified

Cleared == FALSE

(* UpdateUserEmail: the address and its confirmation, in one statement.    *)
UpdateEmail(r) ==
    /\ req[r].op = "email" /\ req[r].phase = "checked"
    /\ email' = req[r].email /\ verified' = Cleared
    /\ slipped' = IF Confirming = {} THEN slipped ELSE slipped \cup {req[r].email}
    /\ Moved(r)
    /\ outdated' = devices /\ reply' = "awaited"
    /\ UNCHANGED <<twoFactor, rowVars, proven, armedFor, overtaken, mailedTo, late, cut>>

SetPasswordHash(r) ==
    /\ req[r].op = "password" /\ req[r].phase = "checked"
    /\ Updated(r)
    /\ UNCHANGED <<userVars, rowVars, proofVars, trustVars>>

Flag(op) == op = "on"

(* SetUserTwoFactorEmail, by user id: whatever address the row has now.    *)
SetFlag(r) ==
    /\ req[r].op \in {"on", "off"} /\ req[r].phase = "checked"
    /\ twoFactor' = Flag(req[r].op)
    /\ armedFor' = IF req[r].op = "on" THEN email ELSE NoEmail
    /\ overtaken' = (req[r].op = "on" /\ req[r].old)
    /\ Updated(r)
    /\ UNCHANGED <<email, verified, rowVars, proven, slipped, trustVars>>

(* DeleteAllTrustedDevices.                                                *)
Forgotten == {}

ForgetAllDevices(r) ==
    /\ req[r].phase = "updated"
    /\ devices' = Forgotten
    /\ mailedTo' = [d \in Devices |-> IF d \in Forgotten THEN mailedTo[d] ELSE NoEmail]
    /\ late' = late \cap Forgotten /\ outdated' = outdated \cap Forgotten
    /\ cut' = FALSE
    /\ IF req[r].op = "email" THEN req' = [req EXCEPT ![r] = At(r, "forgot")] ELSE Done(r)
    /\ UNCHANGED <<userVars, link, code, proofVars, reply>>

-----------------------------------------------------------------------------
(* Verification links.                                                     *)

(* SendVerificationEmail, on its own or at the end of ChangeEmail, reads   *)
(* the row and refuses a confirmed address.                                *)
SendAsked(r) ==
    /\ verified = FALSE
    /\ Begin(r, "send", "sending", email)
    /\ UNCHANGED <<userVars, rowVars, proofVars, trustVars>>

SendAfterChange(r) ==
    /\ req[r].op = "email" /\ req[r].phase = "forgot"
    /\ IF verified
       THEN Done(r) /\ Replied
       ELSE /\ req' = [req EXCEPT ![r] = Fresh("email", "sending", email)]
            /\ UNCHANGED reply
    /\ UNCHANGED <<userVars, rowVars, proofVars, mailedTo, late, outdated, cut>>

(* issueChallenge: the link sent before is retired; the cap on sends may   *)
(* refuse it instead, and ChangeEmail answers with a session either way.   *)
SendLink(r) ==
    /\ req[r].phase = "sending"
    /\ link' \in {link, req[r].email}
    /\ Done(r)
    /\ IF req[r].op = "email" THEN Replied ELSE UNCHANGED reply
    /\ UNCHANGED <<userVars, devices, code, proofVars, mailedTo, late, outdated, cut>>

(* VerifyEmail: the link is redeemed by whoever can read the mailbox.      *)
OpenLink(r) ==
    /\ link # NoEmail
    /\ link' = NoEmail
    /\ proven' = proven \cup {link}
    /\ Begin(r, "verify", "consumed", link)
    /\ UNCHANGED <<userVars, devices, code, slipped, armedFor, overtaken, trustVars>>

(* Mutant of SameAddress: whatever address the row has now is confirmed.   *)
SameAddressAlways(e) == TRUE

SameAddress(e) == e = email

CheckAddress(r) ==
    /\ req[r].phase = "consumed"
    /\ IF SameAddress(req[r].email) THEN req' = [req EXCEPT ![r] = At(r, "addressed")] ELSE Done(r)
    /\ UNCHANGED <<userVars, rowVars, proofVars, trustVars>>

(* SetUserEmailVerified, by user id.                                       *)
Confirm(r) ==
    /\ req[r].phase = "addressed"
    /\ verified' = TRUE
    /\ Done(r)
    /\ UNCHANGED <<email, twoFactor, rowVars, proofVars, trustVars>>

-----------------------------------------------------------------------------
(* Signing in with the second factor.                                      *)

(* LogIn from a browser that is not remembered.                            *)
LogIn(r) ==
    /\ twoFactor
    /\ Begin(r, "login", "known", email)
    /\ UNCHANGED <<userVars, rowVars, proofVars, trustVars>>

(* startTwoFactor: the code sent before is retired.                        *)
SendCode(r) ==
    /\ req[r].op = "login" /\ req[r].phase = "known"
    /\ code' = req[r].email
    /\ Done(r)
    /\ UNCHANGED <<userVars, devices, link, proofVars, trustVars>>

(* CompleteTwoFactor: redeem, read the row again, and go on if the code    *)
(* was mailed to the address it has now.                                   *)
RedeemCode(r) ==
    /\ code # NoEmail
    /\ code' = NoEmail
    /\ Begin(r, "code", "known", code)
    /\ UNCHANGED <<userVars, devices, link, proofVars, trustVars>>

Admit(r) ==
    /\ req[r].op = "code" /\ req[r].phase = "known"
    /\ IF SameAddress(req[r].email) THEN req' = [req EXCEPT ![r] = At(r, "admitted")] ELSE Done(r)
    /\ UNCHANGED <<userVars, rowVars, proofVars, trustVars>>

(* issueSession, then rememberDevice for a caller who asked for it.        *)
Remember(r, d) ==
    /\ req[r].phase = "admitted" /\ d \notin devices
    /\ devices' = devices \cup {d}
    /\ mailedTo' = [mailedTo EXCEPT ![d] = req[r].email]
    /\ late' = IF req[r].old THEN late \cup {d} ELSE late
    /\ Done(r)
    /\ UNCHANGED <<userVars, link, code, proofVars, outdated, cut, reply>>

-----------------------------------------------------------------------------
(* The caller hangs up, a statement fails, or no device is to be           *)
(* remembered.                                                             *)
HangUp(r) ==
    /\ req[r].phase # "idle"
    /\ cut' = (cut \/ (req[r].op = "email" /\ req[r].phase = "updated"))
    /\ Done(r)
    /\ UNCHANGED <<userVars, rowVars, proofVars, mailedTo, late, outdated, reply>>

(* Links, codes and devices run out, and ForgetDevice drops one device.    *)
LapseLink ==
    /\ link # NoEmail
    /\ link' = NoEmail
    /\ UNCHANGED <<userVars, devices, code, req, proofVars, trustVars>>

LapseCode ==
    /\ code # NoEmail
    /\ code' = NoEmail
    /\ UNCHANGED <<userVars, devices, link, req, proofVars, trustVars>>

ForgetDevice(d) ==
    /\ d \in devices
    /\ devices' = devices \ {d}
    /\ mailedTo' = [mailedTo EXCEPT ![d] = NoEmail]
    /\ late' = late \ {d} /\ outdated' = outdated \ {d}
    /\ UNCHANGED <<userVars, link, code, req, proofVars, cut, reply>>

Next ==
    \/ \E r \in Requests, e \in Emails : StartChange(r, e)
    \/ \E r \in Requests : SaveUnchanged(r) \/ StartPassword(r)
    \/ \E r \in Requests, op \in {"on", "off"} : StartTwoFactor(r, op)
    \/ \E r \in Requests : UpdateEmail(r) \/ SetPasswordHash(r) \/ SetFlag(r)
                           \/ ForgetAllDevices(r)
    \/ \E r \in Requests : SendAsked(r) \/ SendAfterChange(r) \/ SendLink(r)
    \/ \E r \in Requests : OpenLink(r) \/ CheckAddress(r) \/ Confirm(r)
    \/ \E r \in Requests : LogIn(r) \/ SendCode(r) \/ RedeemCode(r) \/ Admit(r)
    \/ \E r \in Requests, d \in Devices : Remember(r, d)
    \/ \E r \in Requests : HangUp(r)
    \/ LapseLink \/ LapseCode
    \/ \E d \in Devices : ForgetDevice(d)

Spec == Init /\ [][Next]_vars

-----------------------------------------------------------------------------
(* Properties.                                                             *)

(* An address is confirmed only if somebody opened a link mailed to it,    *)
(* however links are resent, retired and overtaken by a change of address, *)
(* unless it was given while a link to another was between its last check  *)
(* and its effect.                                                         *)
VerifiedIsProven == verified => email \in proven \cup slipped

(* Two-factor is armed only for an address proven to be readable, the one  *)
(* the account had when the flag was set, however changes of address,      *)
(* links and confirmations came before it, unless a change of address fell *)
(* between the reading of the confirmation and the setting of the flag.    *)
ArmedIsProven == twoFactor /\ ~ overtaken => armedFor \in proven \cup slipped

(* A change of address has yet to forget the remembered browsers.          *)
Sweeping == \E r \in Requests : req[r].op = "email" /\ req[r].phase = "updated"

(* Every remembered browser was given a code mailed to the address the     *)
(* account has now, whatever sign-ins were under way when the address      *)
(* changed.  Left are those whose sign-in had passed its last check by     *)
(* then, and what was remembered before a change that is still under way,  *)
(* or that ended before it had forgotten them.                             *)
TrustIsCurrent ==
    \A d \in devices : \/ mailedTo[d] = email
                       \/ d \in late
                       \/ d \in outdated /\ (Sweeping \/ cut)

Quiet == \A r \in Requests : req[r].phase = "idle"

(* internal/account/service.go: once a change of address is answered, the  *)
(* remembered devices have gone with it.                                   *)
AnsweredMeansForgotten ==
    reply = "done" /\ Quiet => \A d \in devices : mailedTo[d] = email \/ d \in late

(* internal/auth/twofactor.go, SetTwoFactor: nobody arms a second factor   *)
(* that fires at a mailbox they cannot read.                               *)
ArmedForReadable == twoFactor => armedFor \in proven \cup slipped
=============================================================================
