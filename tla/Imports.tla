------------------------------ MODULE Imports ------------------------------
(***************************************************************************)
(* Restoring a backup into an account, internal/account/importer.go, while *)
(* the account's owner edits it and other restores of the same file run.   *)
(*                                                                         *)
(* The file holds one profile, one club, one course, which is the          *)
(* profile's home course, and one round, played on that course.  What is   *)
(* in the account under the same name or key is a copy of it.              *)
(*                                                                         *)
(* A restore reads and writes kind after kind: every list is one           *)
(* statement, every write one statement or transaction, and other requests *)
(* come in between.  The caller may go away at any point.                  *)
(***************************************************************************)
EXTENDS Naturals, FiniteSets

CONSTANTS
    Imports,   \* restores being handled
    Copies,    \* ids for the copies of one thing
    MaxEdits,  \* bound on what the owner does
    NoCopy

ASSUME ImportAssumption == NoCopy \notin Copies /\ IsFiniteSet(Copies) /\ MaxEdits \in Nat

Kinds == {"clubs", "courses", "rounds"}

VARIABLES
    profile,   \* the names and places of the profile: empty, typed, or from the file
    gender,
    home,      \* the home course
    copies,    \* the account's copies, by kind
    link,      \* the course a round points at
    op,        \* the restores
    raced,     \* history: what was written between a restore's look at it and its write
    lost,      \* history: a course of the account was removed or failed to restore
    settled,   \* history: the file has been restored whole, and the owner has done nothing
    edits

data == <<profile, gender, home, copies, link>>
importVars == <<data, op, raced, lost, settled, edits>>

Values == {"empty", "typed", "filed"}

(* step is what the restore does next, kind the kind it does it to; the    *)
(* rest is what it has read.  whole: it has not failed, and nothing of the *)
(* account was removed since it began; it stays when the restore ends.     *)
NotRestoring == [step |-> "idle", kind |-> "profile", profile |-> "empty", blank |-> FALSE,
                 home |-> NoCopy, courses |-> {}, whole |-> FALSE]

ImportType ==
    /\ profile \in Values /\ gender \in Values
    /\ copies \in [Kinds -> SUBSET Copies]
    /\ home \in copies["courses"] \cup {NoCopy}
    /\ link \in [Copies -> copies["courses"] \cup {NoCopy}]
    /\ op \in [Imports -> [step : {"idle", "home", "save", "look", "link", "put"},
                           kind : Kinds \cup {"profile", "gender"},
                           profile : Values, blank : BOOLEAN, home : Copies \cup {NoCopy},
                           courses : SUBSET Copies, whole : BOOLEAN]]
    /\ raced \subseteq Kinds \cup {"profile", "gender"}
    /\ lost \in BOOLEAN /\ settled \in BOOLEAN /\ edits \in 0..MaxEdits

ImportInit ==
    /\ profile = "empty" /\ gender = "empty" /\ home = NoCopy
    /\ copies = [k \in Kinds |-> {}]
    /\ link = [c \in Copies |-> NoCopy]
    /\ op = [i \in Imports |-> NotRestoring]
    /\ raced = {} /\ lost = FALSE /\ settled = FALSE /\ edits = 0

-----------------------------------------------------------------------------
(* Restores i has read x for, and will write it.                           *)
Holds(i, x) ==
    /\ op[i].step # "idle"
    /\ CASE x = "profile" -> op[i].step = "home" \/ (op[i].step = "save" /\ op[i].kind = "profile")
         [] x = "gender"  -> op[i].blank /\ op[i].kind \in {"profile", "gender"}
         [] OTHER         -> op[i].kind = x /\ op[i].step \in {"link", "put"}

(* Something other than restore i writes the things of xs.                 *)
Races(xs, others) == raced' = raced \cup {x \in xs : \E i \in others : Holds(i, x)}

(* Mutant of After: rounds before courses.                                 *)
AfterShuffled(kind) ==
    CASE kind = "clubs" -> "rounds" [] kind = "rounds" -> "courses" [] OTHER -> "end"

After(kind) ==
    CASE kind = "clubs" -> "courses" [] kind = "courses" -> "rounds" [] OTHER -> "end"

(* The restore goes on with the next kind, or has ended.                   *)
Onward(i, whole) ==
    LET next == After(op[i].kind)  all == op[i].whole /\ whole IN
      /\ op' = [op EXCEPT ![i] = IF next = "end" THEN [NotRestoring EXCEPT !.whole = all]
                                 ELSE [NotRestoring EXCEPT !.step = "look", !.kind = next, !.whole = all]]
      /\ settled' = (settled \/ (/\ next = "end" /\ all /\ edits = 0
                              /\ \A j \in Imports \ {i} : op[j].step = "idle"))

-----------------------------------------------------------------------------
(* importProfile.                                                          *)

(* GetUserByID.                                                            *)
Begin(i) ==
    /\ op[i].step = "idle"
    /\ op' = [op EXCEPT ![i] = [NotRestoring EXCEPT
                !.step = IF home = NoCopy THEN "home" ELSE "save",
                !.profile = profile, !.blank = (gender = "empty"), !.home = home,
                !.whole = TRUE]]
    /\ UNCHANGED <<data, raced, lost, settled, edits>>

(* The home course by its name, among the courses of the account now.      *)
FindHome(i) ==
    /\ op[i].step = "home"
    /\ \E h \in IF copies["courses"] = {} THEN {NoCopy} ELSE copies["courses"] :
          op' = [op EXCEPT ![i].step = "save", ![i].home = h]
    /\ UNCHANGED <<data, raced, lost, settled, edits>>

(* Mutant of Filled: the file wins.                                        *)
FilledAlways(current) == "filed"

(* fill: what the account says now stays.                                  *)
Filled(current) == IF current = "empty" THEN "filed" ELSE current

ToClubs(i) == [NotRestoring EXCEPT !.step = "look", !.kind = "clubs", !.whole = op[i].whole]

(* UpdateUserProfile writes the whole row as it was read.  A home course   *)
(* removed meanwhile fails it, which GiveUp stands for.                    *)
SaveProfile(i) ==
    /\ op[i].step = "save" /\ op[i].kind = "profile"
    /\ op[i].home \in copies["courses"] \cup {NoCopy}
    /\ profile' = Filled(op[i].profile) /\ home' = op[i].home
    /\ op' = [op EXCEPT ![i] = IF op[i].blank THEN [op[i] EXCEPT !.kind = "gender"] ELSE ToClubs(i)]
    /\ Races({"profile"}, Imports \ {i})
    /\ UNCHANGED <<gender, copies, link, lost, settled, edits>>

(* SetGender, if it was empty when the user was read.                      *)
SaveGender(i) ==
    /\ op[i].step = "save" /\ op[i].kind = "gender"
    /\ gender' = "filed"
    /\ op' = [op EXCEPT ![i] = ToClubs(i)]
    /\ Races({"gender"}, Imports \ {i})
    /\ UNCHANGED <<profile, home, copies, link, lost, settled, edits>>

-----------------------------------------------------------------------------
(* importClubs, importCourses, importRounds.                               *)

(* Mutant of Listed: every kind is compared with the clubs.                *)
ListedClubs(kind) == copies["clubs"]

(* Mutant of Listed: nothing is found.                                     *)
ListedNone(kind) == {}

Listed(kind) == copies[kind]

(* ListClubsByUser, ListCoursesByUploader, ListAllRounds: what is there    *)
(* is skipped.                                                             *)
Look(i) ==
    /\ op[i].step = "look"
    /\ IF Listed(op[i].kind) # {} THEN Onward(i, TRUE)
       ELSE /\ op' = [op EXCEPT ![i].step = IF op[i].kind = "rounds" THEN "link" ELSE "put"]
            /\ UNCHANGED settled
    /\ UNCHANGED <<data, raced, lost, edits>>

(* importRounds lists the courses too, to point the round at one.          *)
LookForCourse(i) ==
    /\ op[i].step = "link"
    /\ op' = [op EXCEPT ![i].step = "put", ![i].courses = copies["courses"]]
    /\ UNCHANGED <<data, raced, lost, settled, edits>>

(* CreateClub, the course's Import, restoreRound: each in a transaction of *)
(* its own.  A round whose course is gone again cannot point at it.        *)
Put(i, c) ==
    /\ op[i].step = "put"
    /\ c \notin copies[op[i].kind]
    /\ copies' = [copies EXCEPT ![op[i].kind] = @ \cup {c}]
    /\ IF op[i].kind = "rounds"
       THEN \E l \in IF op[i].courses = {} THEN {NoCopy} ELSE op[i].courses \cap copies["courses"] :
               link' = [link EXCEPT ![c] = l]
       ELSE UNCHANGED link
    /\ Onward(i, TRUE)
    /\ Races({op[i].kind}, Imports \ {i})
    /\ UNCHANGED <<profile, gender, home, lost, edits>>

(* A club that is not valid, a course or a round that fails is counted,    *)
(* and the restore goes on.  The transaction of the clubs ends it when it  *)
(* fails, which GiveUp stands for.                                         *)
PutFails(i) ==
    /\ op[i].step = "put"
    /\ Onward(i, FALSE)
    /\ lost' = (lost \/ op[i].kind = "courses")
    /\ UNCHANGED <<data, raced, edits>>

(* A statement fails, or the caller goes away: what is done is kept.       *)
GiveUp(i) ==
    /\ op[i].step # "idle"
    /\ op' = [op EXCEPT ![i] = NotRestoring]
    /\ UNCHANGED <<data, raced, lost, settled, edits>>

-----------------------------------------------------------------------------
(* The owner, in other requests.                                           *)

OwnerActs == edits < MaxEdits /\ edits' = edits + 1 /\ settled' = FALSE

(* UpdateProfile, with a home course that exists.                          *)
EditProfile(v, h) ==
    /\ v \in {"empty", "typed"} /\ h \in copies["courses"] \cup {NoCopy}
    /\ profile' = v /\ home' = h
    /\ Races({"profile"}, Imports)
    /\ OwnerActs
    /\ UNCHANGED <<gender, copies, link, op, lost>>

EditGender(v) ==
    /\ v \in {"empty", "typed"}
    /\ gender' = v
    /\ Races({"gender"}, Imports)
    /\ OwnerActs
    /\ UNCHANGED <<profile, home, copies, link, op, lost>>

(* A club, course or round made by hand.  A second one of the same key is  *)
(* allowed, and left out here: it is nothing a restore did.                *)
Make(kind, c) ==
    /\ copies[kind] = {}
    /\ copies' = [copies EXCEPT ![kind] = {c}]
    /\ IF kind = "rounds"
       THEN \E l \in copies["courses"] : link' = [link EXCEPT ![c] = l]
       ELSE UNCHANGED link
    /\ Races({kind}, Imports)
    /\ OwnerActs
    /\ UNCHANGED <<profile, gender, home, op, lost>>

(* What points at a course, once c of this kind is removed.                *)
Cleared(at, kind, c) == IF kind = "courses" /\ at = c THEN NoCopy ELSE at

(* A round or club deleted, a course removed: what points at it is cleared *)
(* in the same statement.                                                  *)
Drop(kind, c) ==
    /\ c \in copies[kind]
    /\ copies' = [copies EXCEPT ![kind] = @ \ {c}]
    /\ home' = Cleared(home, kind, c)
    /\ link' = [r \in Copies |-> IF kind = "rounds" /\ r = c THEN NoCopy
                                  ELSE Cleared(link[r], kind, c)]
    /\ op' = [i \in Imports |-> [op[i] EXCEPT !.whole = FALSE]]
    /\ lost' = (lost \/ kind = "courses")
    /\ OwnerActs
    /\ UNCHANGED <<profile, gender, raced>>

-----------------------------------------------------------------------------
Restore(i) ==
    \/ Begin(i) \/ FindHome(i) \/ SaveProfile(i) \/ SaveGender(i)
    \/ Look(i) \/ LookForCourse(i) \/ PutFails(i) \/ GiveUp(i)
    \/ \E c \in Copies : Put(i, c)

ImportNext ==
    \/ \E i \in Imports : Restore(i)
    \/ \E v \in {"empty", "typed"}, h \in Copies \cup {NoCopy} : EditProfile(v, h)
    \/ \E v \in {"empty", "typed"} : EditGender(v)
    \/ \E kind \in Kinds, c \in Copies : Make(kind, c) \/ Drop(kind, c)

ImportSpec == ImportInit /\ [][ImportNext]_importVars

-----------------------------------------------------------------------------
(* Properties.                                                             *)

(* A restore leaves one copy of everything, however often it is repeated   *)
(* and wherever it was cut off, unless two writers of that kind crossed.   *)
OneCopyEach == \A k \in Kinds \ raced : Cardinality(copies[k]) <= 1

(* What the owner has typed is never overwritten by a restore, unless it   *)
(* was typed while the restore was under way.                              *)
TypedStays ==
    [][/\ profile = "typed" /\ profile' = "filed" => "profile" \in raced
       /\ gender = "typed" /\ gender' = "filed" => "gender" \in raced]_importVars

(* A restored round points at its course, which the restore put there      *)
(* first, unless that course failed or has been removed.                   *)
RoundsFindTheirCourse == lost \/ \A r \in copies["rounds"] : link[r] # NoCopy

(* A restore that ran to its end without a failure leaves the account with *)
(* everything the file has, until something is removed.                    *)
WholeFileIsThere ==
    \A i \in Imports : op[i].step = "idle" /\ op[i].whole => \A k \in Kinds : copies[k] # {}

(* Import's comment: importing the same file twice is a no-op.             *)
TwiceIsNoOp == [][settled /\ settled' => UNCHANGED data]_importVars
=============================================================================
