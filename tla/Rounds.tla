------------------------------- MODULE Rounds -------------------------------
(***************************************************************************)
(* The server's side of one round, and of the clubs it was played with     *)
(* (internal/round/service.go, internal/club/service.go).                  *)
(*                                                                         *)
(* The round is named by an id its player's browser chose, so that a start *)
(* can be sent again.  Every handler reads first and writes in a later     *)
(* statement or transaction, and the player may have several requests      *)
(* going, from a phone on the course and a browser at home.                *)
(*                                                                         *)
(* The date and the notes are one value, a hole is the club its tee shot   *)
(* was hit with; what a hole scored is the matter of module RoundSync.     *)
(* Whether a club is in the bag, on the bench or retired is left out: a    *)
(* retired club counts as owned wherever this module looks at one.         *)
(***************************************************************************)
CONSTANTS
    Holes,     \* hole numbers of the round
    Beyond,    \* hole numbers of the course that are not
    Clubs,     \* the player's clubs, of all times
    Others,    \* clubs of somebody else
    Metas,     \* dates and notes
    Requests,  \* requests being handled at once
    NoClub, NoMeta

ASSUME RoundAssumption ==
    /\ Holes \cap Beyond = {} /\ Clubs \cap Others = {}
    /\ NoClub \notin Clubs \cup Others /\ NoMeta \notin Metas

Statuses == {"in_progress", "complete", "abandoned"}
Named == Clubs \cup Others \cup {NoClub}

(* The holes of one save and the club of each: one hole from the live      *)
(* screen, the whole card from the grid.                                   *)
Payloads == UNION {[s -> Named] : s \in SUBSET (Holes \cup Beyond)}
NoHoles == [h \in {} |-> NoClub]

VARIABLES
    round,     \* rounds: the status, or "none" when there is no row
    meta,      \* rounds.played_on and rounds.notes
    card,      \* round_holes.tee_club_id
    bag,       \* the player's clubs rows
    gone,      \* ids of deleted clubs, which are not given out again
    req,       \* requests between two statements
    noted,     \* history: the date and notes last given by the player
    overtaken, \* history: they were given while a save had read others
    settled,   \* history: the status last asked for
    hit,       \* history: the club last saved for each hole
    struck     \* history: clubs saved while a deletion had found them unplayed

roundVars == <<round, meta, card>>
bagVars == <<bag, gone>>
metaHistory == <<noted, overtaken>>
clubHistory == <<hit, struck>>
vars == <<round, meta, card, bag, gone, req, noted, overtaken, settled, hit, struck>>

Phases == {"idle", "starting", "loaded", "owned", "noting", "setting", "deleting",
           "found", "unplayed"}

RequestType == [phase : Phases, meta : Metas \cup {NoMeta}, holes : Payloads,
                status : Statuses, club : Clubs \cup {NoClub}]

Idle == [phase |-> "idle", meta |-> NoMeta, holes |-> NoHoles,
         status |-> "in_progress", club |-> NoClub]

Blank == [h \in Holes |-> NoClub]

TypeOK ==
    /\ round \in Statuses \cup {"none"}
    /\ meta \in Metas \cup {NoMeta}
    /\ (round = "none") <=> (meta = NoMeta)
    /\ card \in [Holes -> Named]
    /\ bag \subseteq Clubs /\ gone \subseteq Clubs \ bag
    /\ req \in [Requests -> RequestType]
    /\ \A r \in Requests :
          /\ req[r].phase \in {"starting", "loaded", "owned", "noting"} => req[r].meta \in Metas
          /\ req[r].phase \in {"found", "unplayed"} => req[r].club \in bag \cup gone
    /\ noted \in Metas \cup {NoMeta} /\ overtaken \in BOOLEAN
    /\ settled \in Statuses \cup {"none"}
    /\ hit \in [Holes -> Named] /\ struck \subseteq Clubs

Init ==
    /\ round = "none" /\ meta = NoMeta /\ card = Blank
    /\ bag = {} /\ gone = {}
    /\ req = [r \in Requests |-> Idle]
    /\ noted = NoMeta /\ overtaken = FALSE /\ settled = "none"
    /\ hit = Blank /\ struck = {}

Done(r) == req' = [req EXCEPT ![r] = Idle]

(* The first read of a handler, with what its caller asks for.             *)
Begin(r, phase, m, holes, s, c) ==
    /\ req[r].phase = "idle"
    /\ req' = [req EXCEPT ![r] = [phase |-> phase, meta |-> m, holes |-> holes,
                                  status |-> s, club |-> c]]

Unchanged == UNCHANGED <<roundVars, bagVars, metaHistory, settled, clubHistory>>

-----------------------------------------------------------------------------
(* Start: a round that is there already is the answer, a new one is        *)
(* inserted with its holes in one transaction.                             *)

LookUp(r, m) ==
    /\ round = "none"
    /\ Begin(r, "starting", m, NoHoles, "in_progress", NoClub)
    /\ Unchanged

(* Mutant of MayInsert: INSERT OR REPLACE.                                 *)
MayReplace == TRUE

(* The primary key: the second of two equal starts fails.                  *)
MayInsert == round = "none"

Saving(q) == req[q].phase \in {"loaded", "owned"}

(* The player gives a date and notes.                                      *)
Noted(m) ==
    /\ noted' = m
    /\ overtaken' = \E q \in Requests : Saving(q) /\ req[q].meta # m

Create(r) ==
    /\ req[r].phase = "starting"
    /\ IF MayInsert
       THEN /\ round' = "in_progress" /\ meta' = req[r].meta /\ card' = Blank
            /\ IF round = "none"
               THEN Noted(req[r].meta) /\ settled' = "in_progress" /\ hit' = Blank
               ELSE UNCHANGED <<metaHistory, settled, hit>>
       ELSE UNCHANGED <<roundVars, metaHistory, settled, hit>>
    /\ Done(r)
    /\ UNCHANGED <<bagVars, struck>>

-----------------------------------------------------------------------------
(* SaveHoles: load the round, check the clubs it names, then write the     *)
(* holes and the round's row in one transaction.                           *)

NamedIn(holes) == {holes[h] : h \in DOMAIN holes} \ {NoClub}

LoadForSave(r, holes) ==
    /\ round # "none"
    /\ Begin(r, IF NamedIn(holes) = {} THEN "owned" ELSE "loaded", meta, holes,
             "in_progress", NoClub)
    /\ Unchanged

(* Mutant of Owned: any club that exists will do.                          *)
OwnedByAnyone(clubs) == clubs \subseteq bag \cup Others

Owned(clubs) == clubs \subseteq bag

(* The bag is read only when a hole names a club.                          *)
CheckClubs(r) ==
    /\ req[r].phase = "loaded"
    /\ IF Owned(NamedIn(req[r].holes))
       THEN req' = [req EXCEPT ![r].phase = "owned"]
       ELSE Done(r)
    /\ Unchanged

(* Every hole is one of the round's, and the rows the new ones refer to    *)
(* are still there; otherwise the transaction is rolled back.              *)
Fits(holes) ==
    /\ DOMAIN holes \subseteq Holes
    /\ round = "none" => DOMAIN holes = {}
    /\ NamedIn(holes) \subseteq bag \cup Others

(* Mutant of WrittenBack: the row is updated without its date and notes.   *)
WrittenBlank(r) == NoMeta

(* UpdateRound is given the date and notes read at the start.              *)
WrittenBack(r) == req[r].meta

Onto(holes, f) == [h \in Holes |-> IF h \in DOMAIN holes THEN holes[h] ELSE f[h]]

(* Clubs that a deletion under way has found unplayed.                     *)
Condemned == {req[q].club : q \in {p \in Requests : req[p].phase = "unplayed"}}

Save(r) ==
    /\ req[r].phase = "owned"
    /\ IF Fits(req[r].holes)
       THEN /\ card' = Onto(req[r].holes, card)
            /\ meta' = IF round = "none" THEN meta ELSE WrittenBack(r)
            /\ hit' = Onto(req[r].holes, hit)
            /\ struck' = struck \cup (NamedIn(req[r].holes) \cap Condemned)
       ELSE UNCHANGED <<card, meta, hit, struck>>
    /\ Done(r)
    /\ UNCHANGED <<round, bagVars, metaHistory, settled>>

-----------------------------------------------------------------------------
(* UpdateMeta, SetStatus and Delete: load the round, then one statement by *)
(* its id, which finds no row if it has been deleted meanwhile.            *)

LoadForMeta(r, m) ==
    /\ round # "none"
    /\ Begin(r, "noting", m, NoHoles, "in_progress", NoClub)
    /\ Unchanged

UpdateMeta(r) ==
    /\ req[r].phase = "noting"
    /\ IF round = "none"
       THEN UNCHANGED <<meta, metaHistory>>
       ELSE meta' = req[r].meta /\ Noted(req[r].meta)
    /\ Done(r)
    /\ UNCHANGED <<round, card, bagVars, settled, clubHistory>>

LoadForStatus(r, s) ==
    /\ round # "none"
    /\ Begin(r, "setting", NoMeta, NoHoles, s, NoClub)
    /\ Unchanged

SetStatus(r) ==
    /\ req[r].phase = "setting"
    /\ IF round = "none"
       THEN UNCHANGED <<round, settled>>
       ELSE round' = req[r].status /\ settled' = req[r].status
    /\ Done(r)
    /\ UNCHANGED <<meta, card, bagVars, metaHistory, clubHistory>>

LoadForDelete(r) ==
    /\ round # "none"
    /\ Begin(r, "deleting", NoMeta, NoHoles, "in_progress", NoClub)
    /\ Unchanged

(* The holes go with the round.                                            *)
Delete(r) ==
    /\ req[r].phase = "deleting"
    /\ round' = "none" /\ meta' = NoMeta /\ card' = Blank
    /\ noted' = NoMeta /\ overtaken' = FALSE /\ settled' = "none" /\ hit' = Blank
    /\ Done(r)
    /\ UNCHANGED <<bagVars, struck>>

-----------------------------------------------------------------------------
(* Clubs.                                                                  *)

CreateClub(c) ==
    /\ c \notin bag \cup gone
    /\ bag' = bag \cup {c}
    /\ UNCHANGED <<roundVars, gone, req, metaHistory, settled, clubHistory>>

LoadClub(r, c) ==
    /\ c \in bag
    /\ Begin(r, "found", NoMeta, NoHoles, "in_progress", c)
    /\ Unchanged

(* Mutant of ClubPlayed: the count is not looked at.                       *)
ClubNeverPlayed(c) == FALSE

ClubPlayed(c) == \E h \in Holes : card[h] = c

(* A club that has been played is not deleted.                             *)
CheckPlayed(r) ==
    /\ req[r].phase = "found"
    /\ IF ClubPlayed(req[r].club)
       THEN Done(r)
       ELSE req' = [req EXCEPT ![r].phase = "unplayed"]
    /\ Unchanged

(* ON DELETE SET NULL.                                                     *)
Unnamed(c) == [h \in Holes |-> IF card[h] = c THEN NoClub ELSE card[h]]

DeleteClub(r) ==
    /\ req[r].phase = "unplayed"
    /\ LET c == req[r].club IN
         /\ bag' = bag \ {c} /\ gone' = gone \cup {c}
         /\ card' = Unnamed(c)
    /\ Done(r)
    /\ UNCHANGED <<round, meta, metaHistory, settled, clubHistory>>

(* The caller hangs up, or a statement fails.                              *)
HangUp(r) ==
    /\ req[r].phase # "idle"
    /\ Done(r)
    /\ Unchanged

Next ==
    \/ \E r \in Requests, m \in Metas : LookUp(r, m) \/ LoadForMeta(r, m)
    \/ \E r \in Requests, holes \in Payloads : LoadForSave(r, holes)
    \/ \E r \in Requests, s \in Statuses : LoadForStatus(r, s)
    \/ \E r \in Requests, c \in Clubs : LoadClub(r, c)
    \/ \E r \in Requests : LoadForDelete(r) \/ CheckClubs(r) \/ CheckPlayed(r)
    \/ \E r \in Requests : Create(r) \/ Save(r) \/ UpdateMeta(r) \/ SetStatus(r)
                           \/ Delete(r) \/ DeleteClub(r) \/ HangUp(r)
    \/ \E c \in Clubs : CreateClub(c)

Spec == Init /\ [][Next]_vars

-----------------------------------------------------------------------------
(* The date and notes of a round are the ones its player gave last, unless *)
(* a save of some holes had read older ones when they were given: such a   *)
(* save puts back what it read.  Nothing else does, no matter how starts,  *)
(* saves, deletions and edits cross (SaveHoles, UpdateMeta, Start).        *)
NotesSettleUnlessOvertaken == round # "none" /\ ~overtaken => meta = noted

(* A round that is there keeps the status it was last given: a start sent  *)
(* again, late or twice at once, does not open it anew, and a save into a  *)
(* finished round does not either (Start, SaveHoles).                      *)
StartKeepsWhatExists == round # "none" => round = settled

(* A hole keeps the club saved for it.  Clubs that have been played are    *)
(* not deleted, except when the save came between the check and the        *)
(* deletion (club.Delete, ClubPlayed, ON DELETE SET NULL).                 *)
PlayedClubStays == \A h \in Holes : hit[h] \in struck \/ card[h] = hit[h]

(* A hole names no club but the player's own, and none that is not there:  *)
(* the bag was read before the transaction, and the club may be deleted in *)
(* between (ownedClubIDs, SaveHoles, the foreign key).                     *)
OnlyOwnClubs == \A h \in Holes : card[h] # NoClub => card[h] \in bag
=============================================================================
