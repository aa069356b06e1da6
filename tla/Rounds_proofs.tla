---------------------------- MODULE Rounds_proofs ----------------------------
(***************************************************************************)
(* Proofs about one round and the clubs it is played with, for any number  *)
(* of holes, clubs and simultaneous requests; and about an overview made   *)
(* while rounds change (Statistics), for any rounds and cards.             *)
(***************************************************************************)
EXTENDS Rounds, Statistics, FiniteSetTheorems, TLAPS

(* What the requests contribute to the type invariant.                     *)
RequestsOK ==
    /\ req \in [Requests -> RequestType]
    /\ \A r \in Requests :
          /\ req[r].phase \in {"starting", "loaded", "owned", "noting"} => req[r].meta \in Metas
          /\ req[r].phase \in {"found", "unplayed"} => req[r].club \in bag \cup gone

LEMMA NoHolesOK == NoHoles \in Payloads
<1>1. NoHoles \in [{} -> Named] /\ {} \in SUBSET (Holes \cup Beyond)
  BY DEF NoHoles
<1> QED
  BY <1>1 DEF Payloads

(* A payload gives its holes a club each, or none.                         *)
LEMMA NamedOK ==
  ASSUME NEW holes \in Payloads
  PROVE  /\ \A h \in DOMAIN holes : holes[h] \in Named
         /\ NamedIn(holes) \subseteq Clubs \cup Others
<1>1. PICK s \in SUBSET (Holes \cup Beyond) : holes \in [s -> Named]
  BY DEF Payloads
<1>2. \A h \in DOMAIN holes : holes[h] \in Named
  BY <1>1
<1> QED
  BY <1>2 DEF NamedIn, Named

LEMMA IdleOK == Idle \in RequestType /\ Idle.phase = "idle"
  BY NoHolesOK DEF Idle, RequestType, Phases, Statuses

LEMMA InitTypeOK == Init => TypeOK
<1> SUFFICES ASSUME Init PROVE TypeOK
  OBVIOUS
<1>1. req = [r \in Requests |-> Idle]
  BY DEF Init
<1>2. Blank \in [Holes -> Named]
  BY DEF Blank, Named
<1> QED
  BY <1>1, <1>2, IdleOK DEF Init, TypeOK, Statuses

LEMMA DoneOK ==
  ASSUME RequestsOK, NEW r \in Requests, Done(r), bag \cup gone \subseteq bag' \cup gone'
  PROVE  RequestsOK'
<1>1. \A q \in Requests : req'[q] = IF q = r THEN Idle ELSE req[q]
  BY DEF Done, RequestsOK
<1>2. req' \in [Requests -> RequestType]
  BY IdleOK DEF Done, RequestsOK
<1> QED
  BY <1>1, <1>2, IdleOK DEF RequestsOK

LEMMA BeginOK ==
  ASSUME RequestsOK, NEW r \in Requests,
         NEW phase \in Phases, NEW m \in Metas \cup {NoMeta}, NEW holes \in Payloads,
         NEW s \in Statuses, NEW c \in Clubs \cup {NoClub}, Begin(r, phase, m, holes, s, c),
         phase \in {"starting", "loaded", "owned", "noting"} => m \in Metas,
         phase \in {"found", "unplayed"} => c \in bag,
         UNCHANGED bagVars
  PROVE  RequestsOK'
<1> DEFINE new == [phase |-> phase, meta |-> m, holes |-> holes, status |-> s, club |-> c]
<1>1. new \in RequestType
  BY DEF RequestType
<1>2. req' = [req EXCEPT ![r] = new]
  BY DEF Begin
<1>3. /\ new.phase \in {"starting", "loaded", "owned", "noting"} => new.meta \in Metas
      /\ new.phase \in {"found", "unplayed"} => new.club \in bag
  OBVIOUS
<1> HIDE DEF new
<1>4. \A q \in Requests : req'[q] = IF q = r THEN new ELSE req[q]
  BY <1>2 DEF RequestsOK
<1>5. req' \in [Requests -> RequestType]
  BY <1>1, <1>2 DEF RequestsOK
<1> QED
  BY <1>3, <1>4, <1>5 DEF RequestsOK, bagVars

LEMMA AdvanceOK ==
  ASSUME RequestsOK, NEW r \in Requests, NEW phase \in {"owned", "unplayed"},
         req[r].phase = (IF phase = "owned" THEN "loaded" ELSE "found"),
         req' = [req EXCEPT ![r].phase = phase], UNCHANGED bagVars
  PROVE  RequestsOK'
<1>1. req' \in [Requests -> RequestType]
  BY DEF RequestsOK, RequestType, Phases
<1>2. \A q \in Requests : /\ q # r => req'[q] = req[q]
                          /\ req'[q].meta = req[q].meta /\ req'[q].club = req[q].club
  BY DEF RequestsOK, RequestType
<1>3. req'[r].phase = phase
  BY DEF RequestsOK, RequestType
<1> QED
  BY <1>1, <1>2, <1>3 DEF RequestsOK, bagVars

LEMMA NextTypeOK == TypeOK /\ [Next]_vars => TypeOK'
<1> SUFFICES ASSUME TypeOK, [Next]_vars PROVE TypeOK'
  OBVIOUS
<1> USE RoundAssumption DEF TypeOK, roundVars, bagVars, metaHistory, clubHistory, Unchanged
<1>0. RequestsOK /\ (RequestsOK' => /\ req' \in [Requests -> RequestType]
         /\ \A r \in Requests :
              /\ req'[r].phase \in {"starting", "loaded", "owned", "noting"} => req'[r].meta \in Metas
              /\ req'[r].phase \in {"found", "unplayed"} => req'[r].club \in bag' \cup gone')
  BY DEF RequestsOK
<1>a. Blank \in [Holes -> Named] /\ NoHoles \in Payloads
  BY NoHolesOK DEF Blank, Named
<1>1. ASSUME NEW r \in Requests, NEW m \in Metas, LookUp(r, m)  PROVE TypeOK'
  <2>1. RequestsOK'
    BY <1>0, <1>a, <1>1, BeginOK DEF LookUp, Phases, Statuses
  <2> QED
    BY <1>0, <1>1, <2>1 DEF LookUp
<1>2. ASSUME NEW r \in Requests, NEW m \in Metas, LoadForMeta(r, m)  PROVE TypeOK'
  <2>1. RequestsOK'
    BY <1>0, <1>a, <1>2, BeginOK DEF LoadForMeta, Phases, Statuses
  <2> QED
    BY <1>0, <1>2, <2>1 DEF LoadForMeta
<1>3. ASSUME NEW r \in Requests, NEW holes \in Payloads, LoadForSave(r, holes)  PROVE TypeOK'
  <2>1. meta \in Metas
    BY <1>3 DEF LoadForSave
  <2>2. RequestsOK'
    <3> DEFINE phase == IF NamedIn(holes) = {} THEN "owned" ELSE "loaded"
    <3>1. phase \in Phases /\ phase \notin {"found", "unplayed"}
      BY DEF Phases
    <3>2. Begin(r, phase, meta, holes, "in_progress", NoClub)
      BY <1>3 DEF LoadForSave
    <3>3. "in_progress" \in Statuses /\ UNCHANGED bagVars
      BY <1>3 DEF LoadForSave, Statuses
    <3> HIDE DEF phase
    <3> QED
      BY <1>0, <2>1, <3>1, <3>2, <3>3, BeginOK
  <2> QED
    BY <1>0, <1>3, <2>2 DEF LoadForSave
<1>4. ASSUME NEW r \in Requests, NEW s \in Statuses, LoadForStatus(r, s)  PROVE TypeOK'
  <2>1. RequestsOK'
    BY <1>0, <1>a, <1>4, BeginOK DEF LoadForStatus, Phases
  <2> QED
    BY <1>0, <1>4, <2>1 DEF LoadForStatus
<1>5. ASSUME NEW r \in Requests, NEW c \in Clubs, LoadClub(r, c)  PROVE TypeOK'
  <2>1. RequestsOK'
    BY <1>0, <1>a, <1>5, BeginOK DEF LoadClub, Phases, Statuses
  <2> QED
    BY <1>0, <1>5, <2>1 DEF LoadClub
<1>6. ASSUME NEW r \in Requests, LoadForDelete(r)  PROVE TypeOK'
  <2>1. RequestsOK'
    BY <1>0, <1>a, <1>6, BeginOK DEF LoadForDelete, Phases, Statuses
  <2> QED
    BY <1>0, <1>6, <2>1 DEF LoadForDelete
<1>7. ASSUME NEW r \in Requests, CheckClubs(r)  PROVE TypeOK'
  <2>1. RequestsOK'
    BY <1>0, <1>7, AdvanceOK, DoneOK DEF CheckClubs
  <2> QED
    BY <1>0, <1>7, <2>1 DEF CheckClubs
<1>8. ASSUME NEW r \in Requests, CheckPlayed(r)  PROVE TypeOK'
  <2>1. RequestsOK'
    BY <1>0, <1>8, AdvanceOK, DoneOK DEF CheckPlayed
  <2> QED
    BY <1>0, <1>8, <2>1 DEF CheckPlayed
<1>9. ASSUME NEW r \in Requests, Create(r)  PROVE TypeOK'
  <2>1. RequestsOK'
    BY <1>0, <1>9, DoneOK DEF Create
  <2> QED
    BY <1>0, <1>a, <1>9, <2>1 DEF Create, MayInsert, Noted, Statuses
<1>10. ASSUME NEW r \in Requests, Save(r)  PROVE TypeOK'
  <2>1. RequestsOK'
    BY <1>0, <1>10, DoneOK DEF Save
  <2> DEFINE holes == req[r].holes
  <2>2. holes \in Payloads /\ req[r].meta \in Metas
    BY <1>10 DEF Save, RequestType
  <2>3. /\ \A h \in DOMAIN holes : holes[h] \in Named
        /\ NamedIn(holes) \subseteq Clubs \cup Others
    BY <2>2, NamedOK
  <2>4. \A f \in [Holes -> Named] : Onto(holes, f) \in [Holes -> Named]
    BY <2>3 DEF Onto
  <2>5. Condemned \subseteq Clubs
    BY DEF Condemned
  <2>6. CASE Fits(holes)
    <3>1. /\ card' = Onto(holes, card) /\ hit' = Onto(holes, hit)
          /\ struck' \subseteq Clubs
          /\ meta' = IF round = "none" THEN meta ELSE req[r].meta
      BY <1>10, <2>5, <2>6 DEF Save, WrittenBack
    <3>2. card' \in [Holes -> Named] /\ hit' \in [Holes -> Named]
      BY <2>4, <3>1
    <3> QED
      BY <1>0, <1>10, <2>1, <2>2, <3>1, <3>2 DEF Save
  <2>7. CASE ~Fits(holes)
    BY <1>0, <1>10, <2>1, <2>7 DEF Save
  <2> QED
    BY <2>6, <2>7
<1>11. ASSUME NEW r \in Requests, UpdateMeta(r)  PROVE TypeOK'
  <2>1. RequestsOK'
    BY <1>0, <1>11, DoneOK DEF UpdateMeta
  <2> QED
    BY <1>0, <1>11, <2>1 DEF UpdateMeta, Noted
<1>12. ASSUME NEW r \in Requests, SetStatus(r)  PROVE TypeOK'
  <2>1. RequestsOK'
    BY <1>0, <1>12, DoneOK DEF SetStatus
  <2>2. req[r].status \in Statuses
    BY DEF RequestType
  <2> QED
    BY <1>0, <1>12, <2>1, <2>2 DEF SetStatus, Statuses
<1>13. ASSUME NEW r \in Requests, Delete(r)  PROVE TypeOK'
  <2>1. RequestsOK'
    BY <1>0, <1>13, DoneOK DEF Delete
  <2> QED
    BY <1>0, <1>a, <1>13, <2>1 DEF Delete
<1>14. ASSUME NEW r \in Requests, DeleteClub(r)  PROVE TypeOK'
  <2>1. RequestsOK'
    BY <1>0, <1>14, DoneOK DEF DeleteClub
  <2>2. req[r].club \in Clubs
    BY <1>14 DEF DeleteClub
  <2>3. card' \in [Holes -> Named]
    BY <1>14 DEF DeleteClub, Unnamed, Named
  <2> QED
    BY <1>0, <1>14, <2>1, <2>2, <2>3 DEF DeleteClub
<1>15. ASSUME NEW r \in Requests, HangUp(r)  PROVE TypeOK'
  <2>1. RequestsOK'
    BY <1>0, <1>15, DoneOK DEF HangUp
  <2> QED
    BY <1>0, <1>15, <2>1 DEF HangUp
<1>16. ASSUME NEW c \in Clubs, CreateClub(c)  PROVE TypeOK'
  BY <1>16 DEF CreateClub
<1>17. CASE UNCHANGED vars
  BY <1>17 DEF vars
<1> QED
  BY <1>1, <1>2, <1>3, <1>4, <1>5, <1>6, <1>7, <1>8, <1>9, <1>10, <1>11, <1>12, <1>13,
     <1>14, <1>15, <1>16, <1>17 DEF Next

(* Every reachable state is well typed; in particular a round always has a *)
(* date, and a row that is gone has none.                                  *)
THEOREM Typing == Spec => []TypeOK
<1> QED
  BY InitTypeOK, NextTypeOK, PTL DEF Spec

-----------------------------------------------------------------------------
(* A request that saves holes names clubs of the player only.              *)
OwnedNamed ==
    \A r \in Requests : req[r].phase = "owned" => NamedIn(req[r].holes) \subseteq Clubs

ClubInv == TypeOK /\ OnlyOwnClubs /\ OwnedNamed

(* What became of the other requests, when one takes a step.               *)
LEMMA Stepped ==
  ASSUME TypeOK, NEW r \in Requests
  PROVE  /\ Done(r) => \A q \in Requests : req'[q] = IF q = r THEN Idle ELSE req[q]
         /\ \A phase \in Phases : req' = [req EXCEPT ![r].phase = phase]
              => \A q \in Requests :
                   /\ req'[q].phase = IF q = r THEN phase ELSE req[q].phase
                   /\ req'[q].meta = req[q].meta /\ req'[q].club = req[q].club
                   /\ req'[q].holes = req[q].holes
         /\ \A phase, m, holes, s, c : Begin(r, phase, m, holes, s, c)
              => \A q \in Requests :
                   /\ q # r => req'[q] = req[q]
                   /\ q = r => /\ req'[q].phase = phase /\ req'[q].meta = m
                               /\ req'[q].club = c /\ req'[q].holes = holes
  BY DEF TypeOK, RequestType, Done, Begin

LEMMA NextClubInv == ClubInv /\ [Next]_vars => ClubInv'
<1> SUFFICES ASSUME ClubInv, [Next]_vars PROVE OnlyOwnClubs' /\ OwnedNamed'
  BY NextTypeOK DEF ClubInv
<1> USE RoundAssumption DEF roundVars, bagVars, metaHistory, clubHistory, Unchanged
<1>0. TypeOK /\ OnlyOwnClubs /\ OwnedNamed
  BY DEF ClubInv
<1>a. ASSUME NEW r \in Requests, Done(r)  PROVE OwnedNamed'
  BY <1>0, <1>a, Stepped, IdleOK DEF OwnedNamed
<1>b. ASSUME NEW r \in Requests, NEW phase, NEW m, NEW holes, NEW s, NEW c,
             Begin(r, phase, m, holes, s, c), phase = "owned" => NamedIn(holes) = {}
      PROVE  OwnedNamed'
  BY <1>0, <1>b, Stepped DEF OwnedNamed
<1>1. ASSUME NEW r \in Requests, NEW m \in Metas, LookUp(r, m) \/ LoadForMeta(r, m)
      PROVE  OnlyOwnClubs' /\ OwnedNamed'
  BY <1>0, <1>1, <1>b DEF LookUp, LoadForMeta, OnlyOwnClubs
<1>2. ASSUME NEW r \in Requests, NEW holes \in Payloads, LoadForSave(r, holes)
      PROVE  OnlyOwnClubs' /\ OwnedNamed'
  BY <1>0, <1>2, <1>b DEF LoadForSave, OnlyOwnClubs
<1>3. ASSUME NEW r \in Requests, NEW s \in Statuses, LoadForStatus(r, s)
      PROVE  OnlyOwnClubs' /\ OwnedNamed'
  BY <1>0, <1>3, <1>b DEF LoadForStatus, OnlyOwnClubs
<1>4. ASSUME NEW r \in Requests, NEW c \in Clubs, LoadClub(r, c)
      PROVE  OnlyOwnClubs' /\ OwnedNamed'
  BY <1>0, <1>4, <1>b DEF LoadClub, OnlyOwnClubs
<1>5. ASSUME NEW r \in Requests, LoadForDelete(r)
      PROVE  OnlyOwnClubs' /\ OwnedNamed'
  BY <1>0, <1>5, <1>b DEF LoadForDelete, OnlyOwnClubs
<1>6. ASSUME NEW r \in Requests, CheckClubs(r)
      PROVE  OnlyOwnClubs' /\ OwnedNamed'
  <2>1. CASE Owned(NamedIn(req[r].holes))
    <3>1. NamedIn(req[r].holes) \subseteq Clubs
      BY <1>0, <2>1 DEF Owned, TypeOK
    <3>2. req' = [req EXCEPT ![r].phase = "owned"] /\ "owned" \in Phases
      BY <1>6, <2>1 DEF CheckClubs, Phases
    <3> QED
      BY <1>0, <1>6, <3>1, <3>2, Stepped DEF CheckClubs, OnlyOwnClubs, OwnedNamed
  <2>2. CASE ~Owned(NamedIn(req[r].holes))
    BY <1>0, <1>6, <1>a, <2>2 DEF CheckClubs, OnlyOwnClubs
  <2> QED
    BY <2>1, <2>2
<1>7. ASSUME NEW r \in Requests, CheckPlayed(r)
      PROVE  OnlyOwnClubs' /\ OwnedNamed'
  <2>1. CASE req' = [req EXCEPT ![r].phase = "unplayed"]
    BY <1>0, <1>7, <2>1, Stepped DEF CheckPlayed, OnlyOwnClubs, OwnedNamed, Phases
  <2> QED
    BY <1>0, <1>7, <1>a, <2>1 DEF CheckPlayed, OnlyOwnClubs
<1>8. ASSUME NEW r \in Requests, Create(r)
      PROVE  OnlyOwnClubs' /\ OwnedNamed'
  BY <1>0, <1>8, <1>a DEF Create, Blank, OnlyOwnClubs
<1>9. ASSUME NEW r \in Requests, Save(r)
      PROVE  OnlyOwnClubs' /\ OwnedNamed'
  <2>1. NamedIn(req[r].holes) \subseteq Clubs
    BY <1>0, <1>9 DEF Save, OwnedNamed
  <2>2. CASE Fits(req[r].holes)
    <3>1. NamedIn(req[r].holes) \subseteq bag
      BY <2>1, <2>2 DEF Fits
    <3>2. card' = Onto(req[r].holes, card) /\ bag' = bag /\ Done(r)
      BY <1>9, <2>2 DEF Save
    <3>3. ASSUME NEW h \in Holes, card'[h] # NoClub  PROVE card'[h] \in bag'
      <4>1. CASE h \in DOMAIN req[r].holes
        BY <3>1, <3>2, <3>3, <4>1 DEF Onto, NamedIn
      <4>2. CASE h \notin DOMAIN req[r].holes
        BY <1>0, <3>2, <3>3, <4>2 DEF Onto, OnlyOwnClubs
      <4> QED
        BY <4>1, <4>2
    <3> QED
      BY <1>a, <3>2, <3>3 DEF OnlyOwnClubs
  <2>3. CASE ~Fits(req[r].holes)
    BY <1>0, <1>9, <1>a, <2>3 DEF Save, OnlyOwnClubs
  <2> QED
    BY <2>2, <2>3
<1>10. ASSUME NEW r \in Requests, UpdateMeta(r) \/ SetStatus(r) \/ HangUp(r)
      PROVE  OnlyOwnClubs' /\ OwnedNamed'
  BY <1>0, <1>10, <1>a DEF UpdateMeta, SetStatus, HangUp, OnlyOwnClubs
<1>11. ASSUME NEW r \in Requests, Delete(r)
      PROVE  OnlyOwnClubs' /\ OwnedNamed'
  BY <1>0, <1>11, <1>a DEF Delete, Blank, OnlyOwnClubs
<1>12. ASSUME NEW r \in Requests, DeleteClub(r)
      PROVE  OnlyOwnClubs' /\ OwnedNamed'
  <2>1. \A h \in Holes : card'[h] = IF card[h] = req[r].club THEN NoClub ELSE card[h]
    BY <1>12 DEF DeleteClub, Unnamed
  <2> QED
    BY <1>0, <1>12, <1>a, <2>1 DEF DeleteClub, OnlyOwnClubs
<1>13. ASSUME NEW c \in Clubs, CreateClub(c)
      PROVE  OnlyOwnClubs' /\ OwnedNamed'
  BY <1>0, <1>13 DEF CreateClub, OnlyOwnClubs, OwnedNamed
<1>14. CASE UNCHANGED vars
  BY <1>0, <1>14 DEF vars, OnlyOwnClubs, OwnedNamed
<1> QED
  BY <1>1, <1>2, <1>3, <1>4, <1>5, <1>6, <1>7, <1>8, <1>9, <1>10, <1>11, <1>12, <1>13,
     <1>14 DEF Next

(* However saves and deletions of clubs cross, a hole names no club but    *)
(* one of the player's that is still there.                                *)
THEOREM OwnClubs == Spec => []OnlyOwnClubs
<1>1. Init => ClubInv
  <2> SUFFICES ASSUME Init PROVE OnlyOwnClubs /\ OwnedNamed
    BY InitTypeOK DEF ClubInv
  <2>1. \A r \in Requests : req[r].phase = "idle"
    BY IdleOK DEF Init
  <2> QED
    BY <2>1 DEF Init, Blank, OnlyOwnClubs, OwnedNamed
<1>2. ClubInv => OnlyOwnClubs
  BY DEF ClubInv
<1> QED
  BY <1>1, <1>2, NextClubInv, PTL DEF Spec

-----------------------------------------------------------------------------
(* A club whose deletion found it unplayed is in no hole, or was saved     *)
(* into one since.                                                         *)
UnplayedOrStruck ==
    \A r \in Requests : req[r].phase = "unplayed" =>
        \A h \in Holes : card[h] = req[r].club => req[r].club \in struck

PlayedInv == TypeOK /\ PlayedClubStays /\ UnplayedOrStruck

LEMMA NextPlayedInv == PlayedInv /\ [Next]_vars => PlayedInv'
<1> SUFFICES ASSUME PlayedInv, [Next]_vars PROVE PlayedClubStays' /\ UnplayedOrStruck'
  BY NextTypeOK DEF PlayedInv
<1> USE RoundAssumption DEF roundVars, bagVars, metaHistory, clubHistory, Unchanged
<1>0. TypeOK /\ PlayedClubStays /\ UnplayedOrStruck
  BY DEF PlayedInv
<1>a. ASSUME NEW r \in Requests, Done(r), UNCHANGED card, struck \subseteq struck'
      PROVE  UnplayedOrStruck'
  BY <1>0, <1>a, Stepped, IdleOK DEF UnplayedOrStruck
<1>b. ASSUME NEW r \in Requests, NEW phase, NEW m, NEW holes, NEW s, NEW c,
             Begin(r, phase, m, holes, s, c), phase # "unplayed", UNCHANGED <<card, struck>>
      PROVE  UnplayedOrStruck'
  BY <1>0, <1>b, Stepped DEF UnplayedOrStruck
<1>c. ASSUME NEW r \in Requests, Done(r), card' = Blank, UNCHANGED struck
      PROVE  UnplayedOrStruck'
  <2>1. \A q \in Requests : req[q].phase = "unplayed" => req[q].club # NoClub
    BY <1>0 DEF TypeOK
  <2> QED
    BY <1>0, <1>c, <2>1, Stepped, IdleOK DEF UnplayedOrStruck, Blank
<1>1. ASSUME NEW r \in Requests, NEW m \in Metas, LookUp(r, m) \/ LoadForMeta(r, m)
      PROVE  PlayedClubStays' /\ UnplayedOrStruck'
  BY <1>0, <1>1, <1>b DEF LookUp, LoadForMeta, PlayedClubStays
<1>2. ASSUME NEW r \in Requests, NEW holes \in Payloads, LoadForSave(r, holes)
      PROVE  PlayedClubStays' /\ UnplayedOrStruck'
  BY <1>0, <1>2, <1>b DEF LoadForSave, PlayedClubStays
<1>3. ASSUME NEW r \in Requests, NEW s \in Statuses, LoadForStatus(r, s)
      PROVE  PlayedClubStays' /\ UnplayedOrStruck'
  BY <1>0, <1>3, <1>b DEF LoadForStatus, PlayedClubStays
<1>4. ASSUME NEW r \in Requests, NEW c \in Clubs, LoadClub(r, c)
      PROVE  PlayedClubStays' /\ UnplayedOrStruck'
  BY <1>0, <1>4, <1>b DEF LoadClub, PlayedClubStays
<1>5. ASSUME NEW r \in Requests, LoadForDelete(r)
      PROVE  PlayedClubStays' /\ UnplayedOrStruck'
  BY <1>0, <1>5, <1>b DEF LoadForDelete, PlayedClubStays
<1>6. ASSUME NEW r \in Requests, CheckClubs(r)
      PROVE  PlayedClubStays' /\ UnplayedOrStruck'
  <2>1. CASE req' = [req EXCEPT ![r].phase = "owned"]
    BY <1>0, <1>6, <2>1, Stepped DEF CheckClubs, PlayedClubStays, UnplayedOrStruck, Phases
  <2> QED
    BY <1>0, <1>6, <1>a, <2>1 DEF CheckClubs, PlayedClubStays
<1>7. ASSUME NEW r \in Requests, CheckPlayed(r)
      PROVE  PlayedClubStays' /\ UnplayedOrStruck'
  <2>1. CASE ClubPlayed(req[r].club)
    BY <1>0, <1>7, <1>a, <2>1 DEF CheckPlayed, PlayedClubStays
  <2>2. CASE ~ClubPlayed(req[r].club)
    <3>1. req' = [req EXCEPT ![r].phase = "unplayed"] /\ "unplayed" \in Phases
      BY <1>7, <2>2 DEF CheckPlayed, Phases
    <3>2. \A h \in Holes : card[h] # req[r].club
      BY <2>2 DEF ClubPlayed
    <3> QED
      BY <1>0, <1>7, <3>1, <3>2, Stepped DEF CheckPlayed, PlayedClubStays, UnplayedOrStruck
  <2> QED
    BY <2>1, <2>2
<1>8. ASSUME NEW r \in Requests, Create(r)
      PROVE  PlayedClubStays' /\ UnplayedOrStruck'
  <2>1. CASE round = "none"
    BY <1>8, <1>c, <2>1 DEF Create, MayInsert, PlayedClubStays, Blank
  <2>2. CASE round # "none"
    BY <1>0, <1>8, <1>a, <2>2 DEF Create, MayInsert, PlayedClubStays
  <2> QED
    BY <2>1, <2>2
<1>9. ASSUME NEW r \in Requests, Save(r)
      PROVE  PlayedClubStays' /\ UnplayedOrStruck'
  <2>1. CASE Fits(req[r].holes)
    <3> DEFINE holes == req[r].holes
    <3>1. /\ \A h \in Holes : card'[h] = IF h \in DOMAIN holes THEN holes[h] ELSE card[h]
          /\ \A h \in Holes : hit'[h] = IF h \in DOMAIN holes THEN holes[h] ELSE hit[h]
          /\ struck' = struck \cup (NamedIn(holes) \cap Condemned)
          /\ Done(r)
      BY <1>9, <2>1 DEF Save, Onto
    <3> HIDE DEF holes
    <3>2. PlayedClubStays'
      BY <1>0, <3>1 DEF PlayedClubStays
    <3>3. ASSUME NEW q \in Requests, req'[q].phase = "unplayed",
                 NEW h \in Holes, card'[h] = req'[q].club
          PROVE  req'[q].club \in struck'
      <4>1. req'[q] = req[q]
        BY <1>0, <3>1, <3>3, Stepped, IdleOK
      <4>2. req[q].club \in Condemned /\ req[q].club # NoClub
        BY <1>0, <3>3, <4>1 DEF Condemned, TypeOK
      <4>3. CASE h \in DOMAIN holes
        <5>1. req[q].club \in NamedIn(holes)
          BY <3>1, <3>3, <4>1, <4>2, <4>3 DEF NamedIn
        <5> QED
          BY <3>1, <4>1, <4>2, <5>1
      <4>4. CASE h \notin DOMAIN holes
        BY <1>0, <3>1, <3>3, <4>1, <4>4 DEF UnplayedOrStruck
      <4> QED
        BY <4>3, <4>4
    <3> QED
      BY <3>2, <3>3 DEF UnplayedOrStruck
  <2>2. CASE ~Fits(req[r].holes)
    BY <1>0, <1>9, <1>a, <2>2 DEF Save, PlayedClubStays
  <2> QED
    BY <2>1, <2>2
<1>10. ASSUME NEW r \in Requests, UpdateMeta(r) \/ SetStatus(r) \/ HangUp(r)
      PROVE  PlayedClubStays' /\ UnplayedOrStruck'
  BY <1>0, <1>10, <1>a DEF UpdateMeta, SetStatus, HangUp, PlayedClubStays
<1>11. ASSUME NEW r \in Requests, Delete(r)
      PROVE  PlayedClubStays' /\ UnplayedOrStruck'
  BY <1>0, <1>11, <1>c DEF Delete, Blank, PlayedClubStays
<1>12. ASSUME NEW r \in Requests, DeleteClub(r)
      PROVE  PlayedClubStays' /\ UnplayedOrStruck'
  <2>1. \A h \in Holes : card'[h] = IF card[h] = req[r].club THEN NoClub ELSE card[h]
    BY <1>12 DEF DeleteClub, Unnamed
  <2>2. req[r].phase = "unplayed" /\ Done(r) /\ UNCHANGED <<hit, struck>>
    BY <1>12 DEF DeleteClub
  <2>3. PlayedClubStays'
    BY <1>0, <2>1, <2>2 DEF PlayedClubStays, UnplayedOrStruck
  <2>4. \A q \in Requests : req[q].phase = "unplayed" => req[q].club # NoClub
    BY <1>0 DEF TypeOK
  <2>5. UnplayedOrStruck'
    BY <1>0, <2>1, <2>2, <2>4, Stepped, IdleOK DEF UnplayedOrStruck
  <2> QED
    BY <2>3, <2>5
<1>13. ASSUME NEW c \in Clubs, CreateClub(c)
      PROVE  PlayedClubStays' /\ UnplayedOrStruck'
  BY <1>0, <1>13 DEF CreateClub, PlayedClubStays, UnplayedOrStruck
<1>14. CASE UNCHANGED vars
  BY <1>0, <1>14 DEF vars, PlayedClubStays, UnplayedOrStruck
<1> QED
  BY <1>1, <1>2, <1>3, <1>4, <1>5, <1>6, <1>7, <1>8, <1>9, <1>10, <1>11, <1>12, <1>13,
     <1>14 DEF Next

(* The club a hole was saved with stays on the card, unless the save and   *)
(* the club's deletion crossed.                                            *)
THEOREM PlayedClubs == Spec => []PlayedClubStays
<1>1. Init => PlayedInv
  <2> SUFFICES ASSUME Init PROVE PlayedClubStays /\ UnplayedOrStruck
    BY InitTypeOK DEF PlayedInv
  <2>1. \A r \in Requests : req[r].phase = "idle"
    BY IdleOK DEF Init
  <2> QED
    BY <2>1 DEF Init, PlayedClubStays, UnplayedOrStruck
<1>2. PlayedInv => PlayedClubStays
  BY DEF PlayedInv
<1> QED
  BY <1>1, <1>2, NextPlayedInv, PTL DEF Spec

-----------------------------------------------------------------------------
(* While nothing has overtaken a save, the saves under way have read the   *)
(* date and notes the player gave last.                                    *)
SavesUpToDate ==
    round # "none" /\ ~overtaken => \A r \in Requests : Saving(r) => req[r].meta = noted

NotesInv == TypeOK /\ NotesSettleUnlessOvertaken /\ StartKeepsWhatExists /\ SavesUpToDate

LEMMA NextNotesInv == NotesInv /\ [Next]_vars => NotesInv'
<1> DEFINE Goal == NotesSettleUnlessOvertaken' /\ StartKeepsWhatExists' /\ SavesUpToDate'
<1> SUFFICES ASSUME NotesInv, [Next]_vars PROVE Goal
  BY NextTypeOK DEF NotesInv
<1> USE RoundAssumption DEF roundVars, bagVars, metaHistory, clubHistory, Unchanged
<1>0. TypeOK /\ NotesSettleUnlessOvertaken /\ StartKeepsWhatExists /\ SavesUpToDate
  BY DEF NotesInv
<1>a. ASSUME NEW r \in Requests, Done(r)
      PROVE  \A q \in Requests : Saving(q)' => q # r /\ Saving(q) /\ req'[q] = req[q]
  BY <1>0, <1>a, Stepped, IdleOK DEF Saving
<1>b. ASSUME NEW r \in Requests, Done(r), UNCHANGED <<round, meta, metaHistory, settled>>
      PROVE  Goal
  BY <1>0, <1>a, <1>b DEF NotesSettleUnlessOvertaken, StartKeepsWhatExists, SavesUpToDate
<1>c. ASSUME NEW r \in Requests, NEW phase, NEW m, NEW holes, NEW s, NEW c,
             Begin(r, phase, m, holes, s, c), phase \in {"loaded", "owned"} => m = meta,
             UNCHANGED <<roundVars, metaHistory, settled>>
      PROVE  Goal
  <2>1. \A q \in Requests : Saving(q)' =>
                 \/ q = r /\ phase \in {"loaded", "owned"} /\ req'[q].meta = m
                 \/ Saving(q) /\ req'[q] = req[q]
    BY <1>0, <1>c, Stepped DEF Saving
  <2> QED
    BY <1>0, <1>c, <2>1 DEF NotesSettleUnlessOvertaken, StartKeepsWhatExists, SavesUpToDate
<1>d. ASSUME NEW r \in Requests, NEW m, Done(r), Noted(m), meta' = m, round' = settled'
      PROVE  Goal
  <2>1. ~overtaken' => \A q \in Requests : Saving(q) => req[q].meta = m
    BY <1>d DEF Noted
  <2>2. noted' = m
    BY <1>d DEF Noted
  <2> QED
    BY <1>a, <1>d, <2>1, <2>2 DEF NotesSettleUnlessOvertaken, StartKeepsWhatExists, SavesUpToDate
<1>1. ASSUME NEW r \in Requests, NEW m \in Metas, LookUp(r, m) \/ LoadForMeta(r, m)  PROVE Goal
  BY <1>1, <1>c DEF LookUp, LoadForMeta
<1>2. ASSUME NEW r \in Requests, NEW holes \in Payloads, LoadForSave(r, holes)  PROVE Goal
  BY <1>2, <1>c DEF LoadForSave
<1>3. ASSUME NEW r \in Requests, NEW s \in Statuses, LoadForStatus(r, s)  PROVE Goal
  BY <1>3, <1>c DEF LoadForStatus
<1>4. ASSUME NEW r \in Requests, NEW c \in Clubs, LoadClub(r, c)  PROVE Goal
  BY <1>4, <1>c DEF LoadClub
<1>5. ASSUME NEW r \in Requests, LoadForDelete(r)  PROVE Goal
  BY <1>5, <1>c DEF LoadForDelete
<1>6. ASSUME NEW r \in Requests, CheckClubs(r)  PROVE Goal
  <2>1. CASE req' = [req EXCEPT ![r].phase = "owned"]
    <3>1. \A q \in Requests : Saving(q)' => Saving(q) /\ req'[q].meta = req[q].meta
      BY <1>0, <1>6, <2>1, Stepped DEF CheckClubs, Saving, Phases
    <3> QED
      BY <1>0, <1>6, <3>1 DEF CheckClubs, NotesSettleUnlessOvertaken, StartKeepsWhatExists,
                              SavesUpToDate
  <2> QED
    BY <1>6, <1>b, <2>1 DEF CheckClubs
<1>7. ASSUME NEW r \in Requests, CheckPlayed(r)  PROVE Goal
  <2>1. CASE req' = [req EXCEPT ![r].phase = "unplayed"]
    <3>1. \A q \in Requests : Saving(q)' => Saving(q) /\ req'[q].meta = req[q].meta
      BY <1>0, <1>7, <2>1, Stepped DEF CheckPlayed, Saving, Phases
    <3> QED
      BY <1>0, <1>7, <3>1 DEF CheckPlayed, NotesSettleUnlessOvertaken, StartKeepsWhatExists,
                              SavesUpToDate
  <2> QED
    BY <1>7, <1>b, <2>1 DEF CheckPlayed
<1>8. ASSUME NEW r \in Requests, Create(r)  PROVE Goal
  <2>1. CASE round = "none"
    BY <1>8, <1>d, <2>1 DEF Create, MayInsert
  <2>2. CASE round # "none"
    BY <1>8, <1>b, <2>2 DEF Create, MayInsert
  <2> QED
    BY <2>1, <2>2
<1>9. ASSUME NEW r \in Requests, Save(r)  PROVE Goal
  <2>1. Done(r) /\ UNCHANGED <<round, metaHistory, settled>>
    BY <1>9 DEF Save
  <2>2. meta' = meta \/ (round # "none" /\ meta' = req[r].meta)
    BY <1>9 DEF Save, WrittenBack
  <2>3. Saving(r)
    BY <1>9 DEF Save, Saving
  <2>4. round # "none" /\ ~overtaken => meta' = noted
    BY <1>0, <2>2, <2>3 DEF NotesSettleUnlessOvertaken, SavesUpToDate
  <2> QED
    BY <1>0, <1>a, <2>1, <2>4 DEF NotesSettleUnlessOvertaken, StartKeepsWhatExists, SavesUpToDate
<1>10. ASSUME NEW r \in Requests, UpdateMeta(r)  PROVE Goal
  <2>1. CASE round = "none"
    BY <1>10, <1>b, <2>1 DEF UpdateMeta
  <2>2. CASE round # "none"
    BY <1>0, <1>10, <1>d, <2>2 DEF UpdateMeta, StartKeepsWhatExists
  <2> QED
    BY <2>1, <2>2
<1>11. ASSUME NEW r \in Requests, SetStatus(r)  PROVE Goal
  <2>1. CASE round = "none"
    BY <1>11, <1>b, <2>1 DEF SetStatus
  <2>2. CASE round # "none"
    BY <1>0, <1>11, <1>a, <2>2 DEF SetStatus, NotesSettleUnlessOvertaken, StartKeepsWhatExists,
                                   SavesUpToDate
  <2> QED
    BY <2>1, <2>2
<1>12. ASSUME NEW r \in Requests, Delete(r)  PROVE Goal
  <2>1. round' = "none"
    BY <1>12 DEF Delete
  <2> QED
    BY <2>1 DEF NotesSettleUnlessOvertaken, StartKeepsWhatExists, SavesUpToDate
<1>13. ASSUME NEW r \in Requests, DeleteClub(r) \/ HangUp(r)  PROVE Goal
  BY <1>13, <1>b DEF DeleteClub, HangUp
<1>14. ASSUME NEW c \in Clubs, CreateClub(c)  PROVE Goal
  BY <1>0, <1>14 DEF CreateClub, NotesSettleUnlessOvertaken, StartKeepsWhatExists, SavesUpToDate,
                     Saving
<1>15. CASE UNCHANGED vars
  BY <1>0, <1>15 DEF vars, NotesSettleUnlessOvertaken, StartKeepsWhatExists, SavesUpToDate, Saving
<1> QED
  BY <1>1, <1>2, <1>3, <1>4, <1>5, <1>6, <1>7, <1>8, <1>9, <1>10, <1>11, <1>12, <1>13,
     <1>14, <1>15 DEF Next

LEMMA InitNotesInv == Init => NotesInv
  BY InitTypeOK DEF Init, NotesInv, NotesSettleUnlessOvertaken, StartKeepsWhatExists, SavesUpToDate

(* The date and notes are those given last, unless a save of some holes    *)
(* had read older ones when they were given.                               *)
THEOREM NotesSettle == Spec => []NotesSettleUnlessOvertaken
<1>1. NotesInv => NotesSettleUnlessOvertaken
  BY DEF NotesInv
<1> QED
  BY <1>1, InitNotesInv, NextNotesInv, PTL DEF Spec

(* A round that is there keeps the status it was last given, however often *)
(* its start is sent again.                                                *)
THEOREM StartsOnce == Spec => []StartKeepsWhatExists
<1>1. NotesInv => StartKeepsWhatExists
  BY DEF NotesInv
<1> QED
  BY <1>1, InitNotesInv, NextNotesInv, PTL DEF Spec

-----------------------------------------------------------------------------
(* The statistics screen.                                                  *)

RatedOK ==
    \A r \in Ids :
       \/ rated[r] = Unrated
       \/ \E x \in DOMAIN Rating : rated[r] = [rating |-> Rating[x], slope |-> Slope[x]]

(* Round r's holes are those of its game while it is there.                *)
CardOK(r) ==
    IF status[r] \in {"none", "deleted"} THEN cards[r] = << >>
    ELSE /\ DOMAIN cards[r] = HoleNumbers(Game[r])
         /\ \A n \in DOMAIN cards[r] : FitsCard(cards[r][n])

RowsOK ==
    /\ status \in [Ids -> RowStatus]
    /\ DOMAIN rated = Ids /\ RatedOK
    /\ DOMAIN cards = Ids /\ \A r \in Ids : CardOK(r)
    /\ past \in Pasts /\ saves \in 0..MaxSaves

(* What an overview under way counts has been a round, and what it could   *)
(* have seen of it is what it will read.                                   *)
ViewOK ==
    /\ view = Nil \/ view \subseteq Ids
    /\ torn \subseteq Ids
    /\ view # Nil =>
         \A r \in view : /\ status[r] # "none"
                         /\ r \in torn \/ status[r] = "deleted" \/ seen[r] = cards[r]

StatisticsInv == RowsOK /\ ViewOK

LEMMA StatisticsTypeParts == StatisticsInv => StatisticsType
  BY DEF StatisticsInv, RowsOK, RatedOK, CardOK, ViewOK, StatisticsType

LEMMA InitStatisticsInv == StatisticsInit => StatisticsInv
<1> SUFFICES ASSUME StatisticsInit PROVE StatisticsInv
  OBVIOUS
<1>1. RowsOK
  <2>1. /\ status \in [Ids -> RowStatus] /\ DOMAIN rated = Ids /\ DOMAIN cards = Ids
        /\ \A r \in Ids : status[r] = "none" /\ rated[r] = Unrated /\ cards[r] = << >>
    BY DEF StatisticsInit, RowStatus
  <2>2. past \in Pasts /\ saves \in 0..MaxSaves
    BY StatisticsAssumption DEF StatisticsInit
  <2> QED
    BY <2>1, <2>2 DEF RowsOK, RatedOK, CardOK
<1>2. ViewOK
  BY DEF StatisticsInit, ViewOK
<1> QED
  BY <1>1, <1>2 DEF StatisticsInv

(* A hole as it is created, and as it is saved, fits a card.               *)
LEMMA UntouchedFits ==
  ASSUME NEW p \in {Nil} \cup 3..6
  PROVE  FitsCard(Untouched(p))
  BY DEF FitsCard, HoleRows, Untouched

LEMMA UpsertedFits ==
  ASSUME NEW old, NEW h, FitsCard(old), FitsCard(h)
  PROVE  FitsCard(Upserted(old, h))
<1>1. old \in HoleRows /\ h \in HoleRows /\ (h.strokes # Nil /\ h.putts # Nil => h.putts <= h.strokes)
  BY DEF FitsCard
<1> DEFINE par == IF h.par = Nil THEN old.par ELSE h.par
           x == [h EXCEPT !.par = par]
<1>2. par \in {Nil} \cup 3..6
  BY <1>1 DEF HoleRows
<1> HIDE DEF par
<1>3. x \in HoleRows /\ x.strokes = h.strokes /\ x.putts = h.putts
  BY <1>1, <1>2 DEF HoleRows
<1>4. Upserted(old, h) = x
  BY DEF Upserted, par
<1> HIDE DEF x
<1> QED
  BY <1>1, <1>3, <1>4 DEF FitsCard

(* A write to the rows keeps what an overview under way will read, if it   *)
(* was seen: only round r has changed, and not unseen.                     *)
LEMMA ViewKept ==
  ASSUME StatisticsInv, NEW r \in Ids, view' = view, torn' \subseteq Ids, torn \subseteq torn',
         \A q \in Ids \ {r} : status'[q] = status[q] /\ cards'[q] = cards[q],
         seen' = Seen(status', cards'),
         view # Nil /\ r \in view =>
            /\ status'[r] # "none"
            /\ \/ r \in torn' \/ status'[r] \in {"deleted", "complete"}
               \/ (cards'[r] = cards[r] /\ status[r] # "deleted")
  PROVE  ViewOK'
<1>1. \A q \in Ids : seen'[q] = IF view # Nil /\ status'[q] = "complete" THEN cards'[q] ELSE seen[q]
  BY DEF Seen
<1>2. ASSUME view # Nil, NEW q \in view
      PROVE  status'[q] # "none" /\ (q \in torn' \/ status'[q] = "deleted" \/ seen'[q] = cards'[q])
  <2>1. /\ q \in Ids /\ status[q] # "none"
        /\ q \in torn \/ status[q] = "deleted" \/ seen[q] = cards[q]
    BY <1>2 DEF StatisticsInv, ViewOK
  <2>2. CASE q # r
    BY <1>1, <1>2, <2>1, <2>2
  <2>3. CASE q = r
    BY <1>1, <1>2, <2>1, <2>3
  <2> QED
    BY <2>2, <2>3
<1> QED
  BY <1>2 DEF StatisticsInv, ViewOK

LEMMA StartKeeps ==
  ASSUME StatisticsInv, NEW r \in Ids, Start(r)
  PROVE  StatisticsInv'
<1> USE DEF StatisticsInv
<1> DEFINE numbers == HoleNumbers(Game[r])
           fresh == [n \in numbers |-> Untouched(Par[n])]
<1>1. /\ status[r] = "none" /\ status' = [status EXCEPT ![r] = "in_progress"]
      /\ cards' = [cards EXCEPT ![r] = fresh]
      /\ seen' = Seen(status', cards')
      /\ UNCHANGED <<past, saves, view, torn>>
  BY DEF Start
<1>2. PICK gender \in Genders :
         rated' = [rated EXCEPT ![r] = [rating |-> Rating[RatedFor(Game[r], gender)],
                                        slope |-> Slope[RatedFor(Game[r], gender)]]]
  BY DEF Start
<1>3. RatedFor(Game[r], gender) \in DOMAIN Rating
  BY StatisticsAssumption DEF RatedFor, Sets
<1>4. DOMAIN rated' = Ids /\ RatedOK'
  <2>1. DOMAIN rated' = Ids /\ \A q \in Ids \ {r} : rated'[q] = rated[q]
    BY <1>2 DEF RowsOK
  <2>2. rated'[r] = [rating |-> Rating[RatedFor(Game[r], gender)],
                     slope |-> Slope[RatedFor(Game[r], gender)]]
    BY <1>2 DEF RowsOK
  <2> QED
    BY <1>3, <2>1, <2>2 DEF RowsOK, RatedOK
<1>5. \A n \in numbers : FitsCard(fresh[n])
  <2>1. numbers \subseteq DOMAIN Par
    BY StatisticsAssumption DEF HoleNumbers
  <2> QED
    BY <2>1, UntouchedFits, StatisticsAssumption
<1>6. DOMAIN fresh = numbers
  OBVIOUS
<1> HIDE DEF numbers, fresh
<1>7. /\ status' \in [Ids -> RowStatus] /\ DOMAIN cards' = Ids
      /\ status'[r] = "in_progress" /\ cards'[r] = fresh
      /\ \A q \in Ids \ {r} : status'[q] = status[q] /\ cards'[q] = cards[q]
  BY <1>1 DEF RowsOK, RowStatus
<1>8. \A q \in Ids : CardOK(q)'
  BY <1>5, <1>6, <1>7 DEF RowsOK, CardOK, numbers
<1>9. RowsOK'
  BY <1>1, <1>4, <1>7, <1>8 DEF RowsOK
<1>10. ViewOK'
  BY <1>1, <1>7, ViewKept DEF ViewOK
<1> QED
  BY <1>9, <1>10

LEMMA SaveHoleKeeps ==
  ASSUME StatisticsInv, NEW r \in Ids, NEW h \in HolesToSave, NEW n \in DOMAIN cards[r], SaveHole(r, n, h)
  PROVE  StatisticsInv'
<1> USE DEF StatisticsInv
<1> DEFINE saved == [cards[r] EXCEPT ![n] = Upserted(cards[r][n], h)]
<1>1. /\ status[r] \notin {"none", "deleted"} /\ saves < MaxSaves /\ saves' = saves + 1
      /\ cards' = [cards EXCEPT ![r] = saved]
      /\ seen' = Seen(status', cards')
      /\ torn' = IF view # Nil /\ status[r] # "complete" THEN torn \cup {r} ELSE torn
      /\ UNCHANGED <<status, rated, past, view>>
  BY DEF SaveHole, Complete, RowsOK, Seen
<1>2. /\ DOMAIN cards[r] = HoleNumbers(Game[r])
      /\ \A m \in DOMAIN cards[r] : FitsCard(cards[r][m])
  BY <1>1 DEF RowsOK, CardOK
<1>3. FitsCard(Upserted(cards[r][n], h))
  BY <1>2, UpsertedFits, StatisticsAssumption
<1>4. DOMAIN saved = DOMAIN cards[r] /\ \A m \in DOMAIN saved : FitsCard(saved[m])
  BY <1>2, <1>3
<1> HIDE DEF saved
<1>5. /\ DOMAIN cards' = Ids /\ cards'[r] = saved
      /\ \A q \in Ids \ {r} : status'[q] = status[q] /\ cards'[q] = cards[q]
  BY <1>1 DEF RowsOK
<1>6. \A q \in Ids : CardOK(q)'
  BY <1>1, <1>2, <1>4, <1>5 DEF RowsOK, CardOK
<1>7. saves' \in 0..MaxSaves
  BY <1>1, StatisticsAssumption DEF RowsOK
<1>8. RowsOK'
  BY <1>1, <1>5, <1>6, <1>7 DEF RowsOK, RatedOK
<1>9. ViewOK'
  <2>1. torn \subseteq torn' /\ torn' \subseteq Ids
    BY <1>1 DEF ViewOK
  <2>2. view # Nil => /\ status'[r] # "none"
                      /\ r \in torn' \/ status'[r] = "complete"
    BY <1>1
  <2> QED
    BY <1>1, <1>5, <2>1, <2>2, ViewKept
<1> QED
  BY <1>8, <1>9

LEMMA SetRoundStatusKeeps ==
  ASSUME StatisticsInv, NEW r \in Ids, NEW s \in RowStatus, SetRoundStatus(r, s)
  PROVE  StatisticsInv'
<1> USE DEF StatisticsInv
<1>1. /\ status[r] \notin {"none", "deleted"} /\ s \in {"in_progress", "complete", "abandoned"}
      /\ status' = [status EXCEPT ![r] = s]
      /\ seen' = Seen(status', cards')
      /\ UNCHANGED <<rated, cards, past, saves, view, torn>>
  BY DEF SetRoundStatus, Seen
<1>2. /\ status' \in [Ids -> RowStatus] /\ status'[r] = s
      /\ \A q \in Ids \ {r} : status'[q] = status[q] /\ cards'[q] = cards[q]
  BY <1>1 DEF RowsOK
<1>3. \A q \in Ids : CardOK(q)'
  BY <1>1, <1>2 DEF RowsOK, CardOK
<1>4. RowsOK'
  BY <1>1, <1>2, <1>3 DEF RowsOK, RatedOK
<1>5. ViewOK'
  BY <1>1, <1>2, ViewKept DEF ViewOK
<1> QED
  BY <1>4, <1>5

LEMMA DeleteRoundKeeps ==
  ASSUME StatisticsInv, NEW r \in Ids, DeleteRound(r)
  PROVE  StatisticsInv'
<1> USE DEF StatisticsInv
<1>1. /\ status' = [status EXCEPT ![r] = "deleted"]
      /\ cards' = [cards EXCEPT ![r] = << >>]
      /\ rated' = [rated EXCEPT ![r] = Unrated]
      /\ seen' = Seen(status', cards')
      /\ UNCHANGED <<past, saves, view, torn>>
  BY DEF DeleteRound
<1>2. /\ status' \in [Ids -> RowStatus] /\ DOMAIN cards' = Ids /\ DOMAIN rated' = Ids
      /\ status'[r] = "deleted" /\ cards'[r] = << >> /\ rated'[r] = Unrated
      /\ \A q \in Ids \ {r} : /\ status'[q] = status[q] /\ cards'[q] = cards[q]
                              /\ rated'[q] = rated[q]
  BY <1>1 DEF RowsOK, RowStatus
<1>3. (\A q \in Ids : CardOK(q)') /\ RatedOK'
  BY <1>2 DEF RowsOK, CardOK, RatedOK
<1>4. RowsOK'
  BY <1>1, <1>2, <1>3 DEF RowsOK
<1>5. ViewOK'
  BY <1>1, <1>2, ViewKept DEF ViewOK
<1> QED
  BY <1>4, <1>5

(* ListAllRounds sees every round it counts, complete.                     *)
LEMMA ReadRoundsKeeps ==
  ASSUME StatisticsInv, ReadRounds
  PROVE  StatisticsInv'
<1> USE DEF StatisticsInv
<1>1. /\ view' = {r \in Ids : status[r] = "complete"}
      /\ seen' = [r \in Ids |-> IF status[r] = "complete" THEN cards[r] ELSE Nil]
      /\ UNCHANGED <<status, rated, cards, past, saves, torn>>
  BY DEF ReadRounds, Counts, Complete
<1>2. \A r \in view' : r \in Ids /\ status'[r] = "complete" /\ seen'[r] = cards'[r]
  BY <1>1
<1>3. ViewOK'
  BY <1>1, <1>2 DEF ViewOK
<1>4. RowsOK'
  BY <1>1 DEF RowsOK, RatedOK, CardOK
<1> QED
  BY <1>3, <1>4

LEMMA NextStatisticsInv == StatisticsInv /\ [StatisticsNext]_statisticsVars => StatisticsInv'
<1> SUFFICES ASSUME StatisticsInv, [StatisticsNext]_statisticsVars PROVE StatisticsInv'
  OBVIOUS
<1>1. CASE \/ \E r \in Ids : Start(r) \/ DeleteRound(r)
           \/ \E r \in Ids, s \in RowStatus : SetRoundStatus(r, s)
  BY <1>1, StartKeeps, DeleteRoundKeeps, SetRoundStatusKeeps
<1>2. CASE \E r \in Ids, h \in HolesToSave : \E n \in DOMAIN cards[r] : SaveHole(r, n, h)
  BY <1>2, SaveHoleKeeps
<1>3. CASE ReadRounds
  BY <1>3, ReadRoundsKeeps
<1>4. CASE ReadHoles
  BY <1>4 DEF ReadHoles, StatisticsInv, RowsOK, RatedOK, CardOK, ViewOK
<1>5. CASE UNCHANGED statisticsVars
  BY <1>5 DEF statisticsVars, StatisticsInv, RowsOK, RatedOK, CardOK, ViewOK
<1> QED
  BY <1>1, <1>2, <1>3, <1>4, <1>5 DEF StatisticsNext

LEMMA StatisticsInvHolds == StatisticsSpec => []StatisticsInv
  BY InitStatisticsInv, NextStatisticsInv, PTL DEF StatisticsSpec

(* The type invariant of Statistics: ratings are published ones, holes are *)
(* those of the game and fit a card.                                       *)
THEOREM StatisticsTypeCorrect == StatisticsSpec => []StatisticsType
  BY StatisticsTypeParts, StatisticsInvHolds, PTL

(* Whatever is saved, reopened or deleted between the two reads of an      *)
(* overview, a round it counts was complete with the holes it counts while *)
(* it was made, or has been torn (Overview).                               *)
THEOREM CountedRoundsWereComplete == StatisticsSpec => []CountedWasComplete
<1>1. StatisticsInv => CountedWasComplete
  BY DEF StatisticsInv, ViewOK, CountedWasComplete
<1> QED
  BY <1>1, StatisticsInvHolds, PTL

-----------------------------------------------------------------------------
(* Sums.  What a fold over a finite set comes to is shown by induction     *)
(* over its subsets, with the set of those for which something holds in    *)
(* place of a predicate.                                                   *)

(* Of sets of subsets of a finite set one is least.                        *)
LEMMA LeastSubset ==
  ASSUME NEW S, IsFiniteSet(S), NEW T \in SUBSET SUBSET S, T # {}
  PROVE  \E m \in T : \A t \in T : t \subseteq m => t = m
<1>1. IsWellFoundedOn(StrictSubsetOrdering(S), SUBSET S)
  BY FS_StrictSubsetOrderingWellFounded, FS_FiniteSubsetsOfFinite
<1>2. PICK m \in T : \A t \in T : ~ (<<t, m>> \in StrictSubsetOrdering(S))
  BY <1>1, WFMin, Zenon
<1> QED
  BY <1>2 DEF StrictSubsetOrdering

(* Induction over the subsets of a finite set: Good is the set of those    *)
(* for which something holds.                                              *)
LEMMA SubsetInduction ==
  ASSUME NEW S, IsFiniteSet(S), NEW Good,
         \A T \in SUBSET S : (\A U \in SUBSET T : U # T => U \in Good) => T \in Good
  PROVE  \A T \in SUBSET S : T \in Good
<1> DEFINE Bad == {T \in SUBSET S : T \notin Good}
<1> SUFFICES ASSUME Bad # {}  PROVE FALSE
  OBVIOUS
<1>1. PICK T \in Bad : \A U \in Bad : U \subseteq T => U = T
  <2>1. Bad \in SUBSET SUBSET S
    OBVIOUS
  <2> HIDE DEF Bad
  <2> QED
    BY <2>1, LeastSubset
<1> QED
  BY <1>1

-----------------------------------------------------------------------------
Pick(s) == CHOOSE x \in s : TRUE

LEMMA PickIn ==
  ASSUME NEW s, s # {}
  PROVE  Pick(s) \in s
  BY DEF Pick

(* g adds up f over the subsets of S, in the order in which a fold visits  *)
(* them.                                                                   *)
Adds(g, f, S) ==
    g = [s \in SUBSET S |-> IF s = {} THEN 0 ELSE f[Pick(s)] + g[s \ {Pick(s)}]]

LEMMA AddsAt ==
  ASSUME NEW S, NEW f, NEW g, Adds(g, f, S), NEW s \in SUBSET S
  PROVE  g[s] = IF s = {} THEN 0 ELSE f[Pick(s)] + g[s \ {Pick(s)}]
<1> DEFINE at(t) == IF t = {} THEN 0 ELSE f[Pick(t)] + g[t \ {Pick(t)}]
<1>1. g = [t \in SUBSET S |-> at(t)]
  BY Zenon DEF Adds
<1> HIDE DEF at
<1>2. g[s] = at(s)
  BY <1>1
<1> QED
  BY <1>2 DEF at

LEMMA AddsAgree ==
  ASSUME NEW S, IsFiniteSet(S), NEW f, NEW g, NEW h, NEW A, NEW B,
         S \subseteq A, S \subseteq B, Adds(g, f, A), Adds(h, f, B)
  PROVE  g[S] = h[S]
<1> DEFINE Good == {T \in SUBSET S : g[T] = h[T]}
<1>1. ASSUME NEW T \in SUBSET S, \A U \in SUBSET T : U # T => U \in Good
      PROVE  T \in Good
  <2>1. T \in SUBSET A /\ T \in SUBSET B
    OBVIOUS
  <2>2. CASE T = {}
    BY <2>1, <2>2, AddsAt
  <2>3. CASE T # {}
    <3>1. Pick(T) \in T
      BY <2>3, PickIn
    <3>2. g[T \ {Pick(T)}] = h[T \ {Pick(T)}]
      BY <1>1, <3>1
    <3> QED
      BY <2>1, <2>3, <3>2, AddsAt
  <2> QED
    BY <2>2, <2>3
<1> HIDE DEF Good
<1>2. S \in Good
  BY <1>1, SubsetInduction
<1> QED
  BY <1>2 DEF Good

LEMMA AddsExist ==
  ASSUME NEW S, IsFiniteSet(S), NEW f
  PROVE  \E g : Adds(g, f, S)
<1> DEFINE Good == {T \in SUBSET S : \E g : Adds(g, f, T)}
           H(t) == CHOOSE g : Adds(g, f, t)
<1>1. ASSUME NEW A \in SUBSET S, \A U \in SUBSET A : U # A => U \in Good
      PROVE  A \in Good
  <2> DEFINE at(s) == IF s = {} THEN 0
                      ELSE f[Pick(s)] + H(s \ {Pick(s)})[s \ {Pick(s)}]
             new == [s \in SUBSET A |-> at(s)]
  <2>1. ASSUME NEW t \in SUBSET A, t # A  PROVE Adds(H(t), f, t)
    <3>1. \E g : Adds(g, f, t)
      BY <1>1, <2>1
    <3> QED
      BY <3>1
  <2>2. ASSUME NEW t \in SUBSET A, t # A  PROVE at(t) = H(t)[t]
    <3>1. Adds(H(t), f, t)
      BY <2>1, <2>2
    <3>2. CASE t = {}
      BY <3>1, <3>2, AddsAt
    <3>3. CASE t # {}
      <4> DEFINE u == t \ {Pick(t)}
      <4>1. u \in SUBSET A /\ u # A /\ u \subseteq t
        BY <3>3, PickIn
      <4>2. IsFiniteSet(u)
        BY <4>1, FS_Subset
      <4>3. Adds(H(u), f, u)
        BY <2>1, <4>1
      <4> HIDE DEF H, u
      <4>4. H(t)[u] = H(u)[u]
        BY <3>1, <4>1, <4>2, <4>3, AddsAgree
      <4>5. H(t)[t] = f[Pick(t)] + H(t)[t \ {Pick(t)}]
        BY <3>1, <3>3, AddsAt
      <4> QED
        BY <3>3, <4>4, <4>5 DEF u
    <3> HIDE DEF H, at
    <3> QED
      BY <3>2, <3>3
  <2> HIDE DEF H
  <2>3. ASSUME NEW s \in SUBSET A
        PROVE  at(s) = IF s = {} THEN 0 ELSE f[Pick(s)] + new[s \ {Pick(s)}]
    <3>1. CASE s # {}
      <4>1. s \ {Pick(s)} \in SUBSET A /\ s \ {Pick(s)} # A
        BY <3>1, PickIn
      <4>2. H(s \ {Pick(s)})[s \ {Pick(s)}] = new[s \ {Pick(s)}]
        <5> DEFINE u == s \ {Pick(s)}
        <5> HIDE DEF u, at
        <5>1. u \in SUBSET A /\ u # A
          BY <4>1 DEF u
        <5>2. H(u)[u] = new[u]
          BY <2>2, <5>1
        <5> QED
          BY <5>2 DEF u
      <4> QED
        BY <3>1, <4>2
    <3> QED
      BY <3>1
  <2>4. Adds(new, f, A)
    <3>1. new = [s \in SUBSET A |-> at(s)]
      OBVIOUS
    <3> HIDE DEF new, at
    <3> QED
      BY <2>3, <3>1 DEF Adds
  <2> QED
    BY <2>4
<1> HIDE DEF Good
<1>2. S \in Good
  BY <1>1, SubsetInduction
<1> QED
  BY <1>2 DEF Good

(* The fold, one element at a time.                                        *)
LEMMA SumStep ==
  ASSUME NEW S, IsFiniteSet(S), NEW f
  PROVE  /\ SumFunctionOnSet(f, {}) = 0
         /\ S # {} => SumFunctionOnSet(f, S) = f[Pick(S)] + SumFunctionOnSet(f, S \ {Pick(S)})
<1> DEFINE H(t) == CHOOSE g : Adds(g, f, t)
<1>1. ASSUME NEW t, IsFiniteSet(t)  PROVE Adds(H(t), f, t)
  BY <1>1, AddsExist
<1>2. \A t : SumFunctionOnSet(f, t) = H(t)[t]
  BY DEF SumFunctionOnSet, FoldFunctionOnSet, MapThenFoldSet, Pick, Adds
<1> HIDE DEF H
<1>3. SumFunctionOnSet(f, {}) = 0
  BY <1>1, <1>2, FS_EmptySet, AddsAt
<1>4. ASSUME S # {}
      PROVE  SumFunctionOnSet(f, S) = f[Pick(S)] + SumFunctionOnSet(f, S \ {Pick(S)})
  <2> DEFINE u == S \ {Pick(S)}
  <2>1. IsFiniteSet(u) /\ u \subseteq S
    BY FS_RemoveElement
  <2>2. H(S)[S] = f[Pick(S)] + H(S)[u]
    BY <1>1, <1>4, AddsAt
  <2>3. H(S)[u] = H(u)[u]
    <3> HIDE DEF u
    <3> QED
      BY <1>1, <2>1, AddsAgree
  <2> QED
    BY <1>2, <2>2, <2>3
<1> QED
  BY <1>3, <1>4

LEMMA SumType ==
  ASSUME NEW S, IsFiniteSet(S), NEW f, \A x \in S : f[x] \in Int
  PROVE  SumFunctionOnSet(f, S) \in Int
<1> DEFINE Good == {T \in SUBSET S : SumFunctionOnSet(f, T) \in Int}
<1>1. ASSUME NEW T \in SUBSET S, \A U \in SUBSET T : U # T => U \in Good
      PROVE  T \in Good
  <2>1. IsFiniteSet(T)
    BY FS_Subset
  <2>2. CASE T = {}
    BY <2>1, <2>2, SumStep
  <2>3. CASE T # {}
    <3> DEFINE p == Pick(T)
               rest == T \ {p}
    <3>1. p \in T /\ rest \in Good
      BY <1>1, <2>3, PickIn
    <3>2. SumFunctionOnSet(f, T) = f[p] + SumFunctionOnSet(f, rest)
      BY <2>1, <2>3, SumStep
    <3>3. f[p] \in Int /\ SumFunctionOnSet(f, rest) \in Int
      BY <3>1
    <3> HIDE DEF p, rest
    <3>4. SumFunctionOnSet(f, T) \in Int
      BY <3>2, <3>3
    <3> QED
      BY <3>4
  <2> QED
    BY <2>2, <2>3
<1> HIDE DEF Good
<1>2. S \in Good
  BY <1>1, SubsetInduction
<1> QED
  BY <1>2 DEF Good

LEMMA SumNat ==
  ASSUME NEW S, IsFiniteSet(S), NEW f, \A x \in S : f[x] \in Nat
  PROVE  SumFunctionOnSet(f, S) \in Nat
<1> DEFINE Good == {T \in SUBSET S : SumFunctionOnSet(f, T) \in Nat}
<1>1. ASSUME NEW T \in SUBSET S, \A U \in SUBSET T : U # T => U \in Good
      PROVE  T \in Good
  <2>1. IsFiniteSet(T)
    BY FS_Subset
  <2>2. CASE T = {}
    <3>1. SumFunctionOnSet(f, {}) = 0
      BY FS_EmptySet, SumStep
    <3> QED
      BY <2>2, <3>1
  <2>3. CASE T # {}
    <3> DEFINE p == Pick(T)
               rest == T \ {p}
    <3>1. p \in T /\ rest \in Good
      BY <1>1, <2>3, PickIn
    <3>2. SumFunctionOnSet(f, T) = f[p] + SumFunctionOnSet(f, rest)
      BY <2>1, <2>3, SumStep
    <3>3. f[p] \in Nat /\ SumFunctionOnSet(f, rest) \in Nat
      BY <3>1
    <3> HIDE DEF p, rest
    <3>4. SumFunctionOnSet(f, T) \in Nat
      BY <3>2, <3>3
    <3> QED
      BY <3>4
  <2> QED
    BY <2>2, <2>3
<1> HIDE DEF Good
<1>2. S \in Good
  BY <1>1, SubsetInduction
<1> QED
  BY <1>2 DEF Good

(* In whichever order.                                                     *)
LEMMA SumWith ==
  ASSUME NEW S, IsFiniteSet(S), NEW f, \A x \in S : f[x] \in Int, NEW x \in S
  PROVE  SumFunctionOnSet(f, S) = f[x] + SumFunctionOnSet(f, S \ {x})
<1> DEFINE sum(T) == SumFunctionOnSet(f, T)
           Good == {T \in SUBSET S : \A y \in T : sum(T) = f[y] + sum(T \ {y})}
<1>0. ASSUME NEW T \in SUBSET S
      PROVE  IsFiniteSet(T) /\ sum(T) \in Int /\ \A y \in T : f[y] \in Int
  <2>1. IsFiniteSet(T)
    BY FS_Subset
  <2> QED
    BY <2>1, SumType
<1>1. ASSUME NEW T \in SUBSET S, \A U \in SUBSET T : U # T => U \in Good
      PROVE  T \in Good
  <2> SUFFICES ASSUME NEW y \in T  PROVE sum(T) = f[y] + sum(T \ {y})
    OBVIOUS
  <2> DEFINE p == Pick(T)
             both == (T \ {p}) \ {y}
  <2>1. p \in T
    BY PickIn
  <2>2. sum(T) = f[p] + sum(T \ {p})
    BY <1>0, SumStep
  <2>3. CASE y # p
    <3>1. sum(T \ {p}) = f[y] + sum(both)
      BY <1>1, <2>1, <2>3
    <3>2. /\ p \in T \ {y} /\ T \ {y} \in Good
          /\ (T \ {y}) \ {p} = both
      BY <1>1, <2>1, <2>3
    <3>3. sum(T \ {y}) = f[p] + sum(both)
      BY <3>2
    <3>4. f[p] \in Int /\ f[y] \in Int /\ sum(both) \in Int
      BY <1>0, <2>1
    <3> HIDE DEF p, both, sum
    <3> QED
      BY <2>2, <3>1, <3>3, <3>4
  <2> QED
    BY <2>2, <2>3
<1> HIDE DEF Good
<1>2. S \in Good
  BY <1>1, SubsetInduction
<1> QED
  BY <1>2 DEF Good

(* Over two sets with nothing in common.                                   *)
LEMMA SumApart ==
  ASSUME NEW A, IsFiniteSet(A), NEW B, IsFiniteSet(B), A \cap B = {},
         NEW f, \A x \in A \cup B : f[x] \in Int
  PROVE  SumFunctionOnSet(f, A \cup B) = SumFunctionOnSet(f, A) + SumFunctionOnSet(f, B)
<1> DEFINE sum(T) == SumFunctionOnSet(f, T)
           Good == {T \in SUBSET A : sum(T \cup B) = sum(T) + sum(B)}
<1>0. ASSUME NEW T \in SUBSET (A \cup B)
      PROVE  IsFiniteSet(T) /\ sum(T) \in Int
  <2>1. IsFiniteSet(T)
    BY FS_Subset, FS_Union
  <2> QED
    BY <2>1, SumType
<1>1. ASSUME NEW T \in SUBSET A, \A U \in SUBSET T : U # T => U \in Good
      PROVE  T \in Good
  <2>1. CASE T = {}
    <3>1. sum({}) = 0 /\ sum(B) \in Int /\ T \cup B = B
      BY <1>0, <2>1, FS_EmptySet, SumStep
    <3> QED
      BY <2>1, <3>1
  <2>2. CASE T # {}
    <3> DEFINE p == Pick(T)
               rest == T \ {p}
    <3>1. p \in T
      BY <2>2, PickIn
    <3>2. sum(T) = f[p] + sum(rest)
      BY <1>0, <2>2, SumStep
    <3>3. sum(T \cup B) = f[p] + sum(rest \cup B)
      <4>1. p \in T \cup B /\ (T \cup B) \ {p} = rest \cup B
        BY <3>1
      <4>2. IsFiniteSet(T \cup B) /\ \A x \in T \cup B : f[x] \in Int
        BY <1>0
      <4> HIDE DEF p, rest
      <4> QED
        BY <4>1, <4>2, SumWith
    <3>4. sum(rest \cup B) = sum(rest) + sum(B)
      BY <1>1, <3>1
    <3>5. f[p] \in Int /\ sum(rest) \in Int /\ sum(B) \in Int
      BY <1>0, <3>1
    <3> HIDE DEF p, rest, sum
    <3>6. sum(T \cup B) = sum(T) + sum(B)
      BY <3>2, <3>3, <3>4, <3>5
    <3> QED
      BY <3>6 DEF sum
  <2> QED
    BY <2>1, <2>2
<1> HIDE DEF Good
<1>2. A \in Good
  BY <1>1, SubsetInduction
<1> QED
  BY <1>2 DEF Good

(* Of functions that are at most, or the sum of, others.                   *)
LEMMA SumAtMost ==
  ASSUME NEW S, IsFiniteSet(S), NEW f, NEW g,
         \A x \in S : f[x] \in Int /\ g[x] \in Int /\ f[x] <= g[x]
  PROVE  SumFunctionOnSet(f, S) <= SumFunctionOnSet(g, S)
<1> DEFINE Good == {T \in SUBSET S : SumFunctionOnSet(f, T) <= SumFunctionOnSet(g, T)}
<1>1. ASSUME NEW T \in SUBSET S, \A U \in SUBSET T : U # T => U \in Good
      PROVE  T \in Good
  <2>1. IsFiniteSet(T)
    BY FS_Subset
  <2>2. CASE T = {}
    <3>1. SumFunctionOnSet(f, {}) = 0 /\ SumFunctionOnSet(g, {}) = 0
      BY FS_EmptySet, SumStep
    <3> QED
      BY <2>2, <3>1
  <2>3. CASE T # {}
    <3> DEFINE p == Pick(T)
               rest == T \ {p}
    <3>1. p \in T /\ rest \in Good
      BY <1>1, <2>3, PickIn
    <3>2. /\ SumFunctionOnSet(f, T) = f[p] + SumFunctionOnSet(f, rest)
          /\ SumFunctionOnSet(g, T) = g[p] + SumFunctionOnSet(g, rest)
      BY <2>1, <2>3, SumStep
    <3>3. SumFunctionOnSet(f, rest) \in Int /\ SumFunctionOnSet(g, rest) \in Int
      <4>1. IsFiniteSet(rest) /\ rest \subseteq S
        BY <2>1, FS_Subset
      <4> HIDE DEF rest
      <4> QED
        BY <4>1, SumType
    <3>4. /\ f[p] \in Int /\ g[p] \in Int /\ f[p] <= g[p]
          /\ SumFunctionOnSet(f, rest) <= SumFunctionOnSet(g, rest)
      BY <3>1
    <3> HIDE DEF p, rest
    <3>5. SumFunctionOnSet(f, T) <= SumFunctionOnSet(g, T)
      BY <3>2, <3>3, <3>4
    <3> QED
      BY <3>5
  <2> QED
    BY <2>2, <2>3
<1> HIDE DEF Good
<1>2. S \in Good
  BY <1>1, SubsetInduction
<1> QED
  BY <1>2 DEF Good

LEMMA SumOfBoth ==
  ASSUME NEW S, IsFiniteSet(S), NEW f, NEW g, NEW h,
         \A x \in S : g[x] \in Int /\ h[x] \in Int /\ f[x] = g[x] + h[x]
  PROVE  SumFunctionOnSet(f, S) = SumFunctionOnSet(g, S) + SumFunctionOnSet(h, S)
<1> DEFINE Good == {T \in SUBSET S :
                      SumFunctionOnSet(f, T) = SumFunctionOnSet(g, T) + SumFunctionOnSet(h, T)}
<1>1. ASSUME NEW T \in SUBSET S, \A U \in SUBSET T : U # T => U \in Good
      PROVE  T \in Good
  <2>1. IsFiniteSet(T)
    BY FS_Subset
  <2>2. CASE T = {}
    <3>1. /\ SumFunctionOnSet(f, {}) = 0 /\ SumFunctionOnSet(g, {}) = 0
          /\ SumFunctionOnSet(h, {}) = 0
      BY FS_EmptySet, SumStep
    <3> QED
      BY <2>2, <3>1
  <2>3. CASE T # {}
    <3> DEFINE p == Pick(T)
               rest == T \ {p}
    <3>1. p \in T /\ rest \in Good
      BY <1>1, <2>3, PickIn
    <3>2. /\ SumFunctionOnSet(f, T) = f[p] + SumFunctionOnSet(f, rest)
          /\ SumFunctionOnSet(g, T) = g[p] + SumFunctionOnSet(g, rest)
          /\ SumFunctionOnSet(h, T) = h[p] + SumFunctionOnSet(h, rest)
      BY <2>1, <2>3, SumStep
    <3>3. SumFunctionOnSet(g, rest) \in Int /\ SumFunctionOnSet(h, rest) \in Int
      <4>1. IsFiniteSet(rest) /\ rest \subseteq S
        BY <2>1, FS_Subset
      <4> HIDE DEF rest
      <4> QED
        BY <4>1, SumType
    <3>4. /\ g[p] \in Int /\ h[p] \in Int /\ f[p] = g[p] + h[p]
          /\ SumFunctionOnSet(f, rest) = SumFunctionOnSet(g, rest) + SumFunctionOnSet(h, rest)
      BY <3>1
    <3> HIDE DEF p, rest
    <3>5. SumFunctionOnSet(f, T) = SumFunctionOnSet(g, T) + SumFunctionOnSet(h, T)
      BY <3>2, <3>3, <3>4
    <3> QED
      BY <3>5
  <2> QED
    BY <2>2, <2>3
<1> HIDE DEF Good
<1>2. S \in Good
  BY <1>1, SubsetInduction
<1> QED
  BY <1>2 DEF Good

(* Those that r sends to x.                                                *)
SentTo(x, r, A) == {n \in A : r[n] = x}

(* Counted by what r makes of them, all are counted once.                  *)
LEMMA SumOfCounts ==
  ASSUME NEW R, IsFiniteSet(R), NEW A, IsFiniteSet(A), NEW r, \A n \in A : r[n] \in R,
         NEW f, \A x \in R : f[x] = Cardinality(SentTo(x, r, A))
  PROVE  SumFunctionOnSet(f, R) = Cardinality(A)
<1> DEFINE in(T) == {n \in A : r[n] \in T}
           Good == {T \in SUBSET R : SumFunctionOnSet(f, T) = Cardinality(in(T))}
<1>1. ASSUME NEW T \in SUBSET R, \A U \in SUBSET T : U # T => U \in Good
      PROVE  T \in Good
  <2>1. IsFiniteSet(T)
    BY FS_Subset
  <2>2. CASE T = {}
    <3>1. SumFunctionOnSet(f, {}) = 0 /\ in({}) = {}
      BY FS_EmptySet, SumStep
    <3> QED
      BY <2>2, <3>1, FS_EmptySet
  <2>3. CASE T # {}
    <3> DEFINE p == Pick(T)
               rest == T \ {p}
               one == SentTo(p, r, A)
    <3>1. p \in T /\ rest \in Good
      BY <1>1, <2>3, PickIn
    <3>2. SumFunctionOnSet(f, T) = f[p] + SumFunctionOnSet(f, rest)
      BY <2>1, <2>3, SumStep
    <3>3. f[p] = Cardinality(one) /\ SumFunctionOnSet(f, rest) = Cardinality(in(rest))
      BY <3>1
    <3>4. in(T) = one \cup in(rest) /\ one \cap in(rest) = {}
      BY <3>1 DEF SentTo
    <3>5. IsFiniteSet(one) /\ IsFiniteSet(in(rest))
      BY FS_Subset DEF SentTo
    <3> HIDE DEF one, in, p, rest
    <3>6. Cardinality(in(T)) = Cardinality(one) + Cardinality(in(rest))
      <4>1. /\ Cardinality(one) \in Nat /\ Cardinality(in(rest)) \in Nat
            /\ Cardinality(one \cap in(rest)) = 0
        BY <3>4, <3>5, FS_EmptySet, FS_CardinalityType
      <4>2. Cardinality(one \cup in(rest))
              = Cardinality(one) + Cardinality(in(rest)) - Cardinality(one \cap in(rest))
        BY <3>5, FS_Union
      <4> QED
        BY <3>4, <4>1, <4>2
    <3>7. SumFunctionOnSet(f, T) = Cardinality(in(T))
      BY <3>2, <3>3, <3>6
    <3> QED
      BY <3>7
  <2> QED
    BY <2>2, <2>3
<1> HIDE DEF Good
<1>2. R \in Good
  BY <1>1, SubsetInduction
<1>3. {n \in A : r[n] \in R} = A
  OBVIOUS
<1> QED
  BY <1>2, <1>3 DEF Good

-----------------------------------------------------------------------------
(* The figures of a card.                                                  *)

LEMMA CardFinite ==
  ASSUME NEW c, IsCard(c)
  PROVE  DOMAIN c \subseteq 1..18 /\ IsFiniteSet(DOMAIN c)
<1>1. FrontNine \subseteq 1..9 /\ BackNine \subseteq 10..18
  BY StatisticsAssumption
<1>2. DOMAIN c \subseteq 1..18
  <2>1. DOMAIN c \subseteq FrontNine \cup BackNine
    BY DEF IsCard
  <2>2. 1..9 \subseteq 1..18 /\ 10..18 \subseteq 1..18
    OBVIOUS
  <2> QED
    BY <1>1, <2>1, <2>2
<1>3. IsFiniteSet(1..18)
  <2>1. 1 \in Int /\ 18 \in Int
    OBVIOUS
  <2> QED
    BY <2>1, FS_Interval
<1> QED
  BY <1>2, <1>3, FS_Subset

(* Which holes a figure is taken over, and what is recorded there.         *)
LEMMA CardParts ==
  ASSUME NEW c, IsCard(c)
  PROVE  /\ Recorded(c) \subseteq DOMAIN c /\ Completed(c) \subseteq Recorded(c)
         /\ AgainstPar(c) \subseteq Completed(c) /\ Measured(c) \subseteq AgainstPar(c)
         /\ Driven(c) \subseteq Recorded(c)
         /\ \A n \in DOMAIN c : c[n].strokes # Nil => c[n].strokes \in 1..20
         /\ \A n \in DOMAIN c : c[n].putts # Nil => c[n].putts \in 0..10
         /\ \A n \in Completed(c) : c[n].strokes # Nil
         /\ \A n \in Measured(c) : c[n].putts # Nil
<1>1. \A n \in DOMAIN c : /\ c[n].strokes # Nil => c[n].strokes \in 1..20
                          /\ c[n].putts # Nil => c[n].putts \in 0..10
  BY DEF IsCard, FitsCard, HoleRows
<1> QED
  BY <1>1 DEF Recorded, Completed, AgainstPar, Measured, Driven

(* made is a part of attempted.                                            *)
IsTally(t) == t.made \in Nat /\ t.attempted \in Nat /\ t.made <= t.attempted

LEMMA TallyOfPart ==
  ASSUME NEW A, NEW B, IsFiniteSet(B), A \subseteq B
  PROVE  IsTally(Tally(A, B))
<1>1. IsFiniteSet(A) /\ Cardinality(A) <= Cardinality(B)
  BY FS_Subset
<1>2. Cardinality(A) \in Nat /\ Cardinality(B) \in Nat
  BY <1>1, FS_CardinalityType
<1> QED
  BY <1>1, <1>2 DEF IsTally, Tally

TalliesOK(s) ==
    /\ IsTally(s.fairways) /\ IsTally(s.greens) /\ IsTally(s.scrambles) /\ IsTally(s.sandSaves)
    /\ s.greens.attempted = s.greens.made + s.scrambles.attempted

LEMMA CardTallies ==
  ASSUME NEW c, IsCard(c)
  PROVE  TalliesOK(Summarize(c))
<1> DEFINE measured == Measured(c)
           greens == {n \in measured : GreenInRegulation(c[n])}
           sandy == {n \in measured : c[n].greensideBunker}
           Saved(S) == {n \in S : c[n].strokes <= c[n].par}
           straight == {n \in Driven(c) : c[n].tee = "hit"}
<1>1. IsFiniteSet(measured) /\ IsFiniteSet(Driven(c))
  BY CardFinite, CardParts, FS_Subset
<1>2. /\ greens \subseteq measured /\ IsFiniteSet(greens)
      /\ IsFiniteSet(measured \ greens) /\ IsFiniteSet(sandy)
  BY <1>1, FS_Subset
<1>3. /\ Summarize(c).fairways = Tally(straight, Driven(c))
      /\ Summarize(c).greens = Tally(greens, measured)
      /\ Summarize(c).scrambles = Tally(Saved(measured \ greens), measured \ greens)
      /\ Summarize(c).sandSaves = Tally(Saved(sandy), sandy)
  BY DEF Summarize
<1>4. /\ straight \subseteq Driven(c) /\ Saved(measured \ greens) \subseteq measured \ greens
      /\ Saved(sandy) \subseteq sandy
  OBVIOUS
<1>5. Cardinality(measured) = Cardinality(greens) + Cardinality(measured \ greens)
  <2>1. greens \cup (measured \ greens) = measured /\ greens \cap (measured \ greens) = {}
    BY <1>2
  <2> HIDE DEF greens, measured
  <2>2. /\ Cardinality(greens) \in Nat /\ Cardinality(measured \ greens) \in Nat
        /\ Cardinality(greens \cap (measured \ greens)) = 0
    BY <1>2, <2>1, FS_EmptySet, FS_CardinalityType
  <2>3. Cardinality(greens \cup (measured \ greens))
          = Cardinality(greens) + Cardinality(measured \ greens)
              - Cardinality(greens \cap (measured \ greens))
    BY <1>2, FS_Union
  <2> QED
    BY <2>1, <2>2, <2>3
<1> HIDE DEF measured, greens, sandy, Saved, straight
<1>6. /\ IsTally(Tally(straight, Driven(c))) /\ IsTally(Tally(greens, measured))
      /\ IsTally(Tally(Saved(measured \ greens), measured \ greens))
      /\ IsTally(Tally(Saved(sandy), sandy))
  BY <1>1, <1>2, <1>4, TallyOfPart
<1>7. /\ Tally(greens, measured).made = Cardinality(greens)
      /\ Tally(greens, measured).attempted = Cardinality(measured)
      /\ Tally(Saved(measured \ greens), measured \ greens).attempted = Cardinality(measured \ greens)
  BY DEF Tally
<1> QED
  BY <1>3, <1>5, <1>6, <1>7 DEF TalliesOK

(* The nines add up to the strokes.                                        *)
LEMMA NinesAddUp ==
  ASSUME NEW c, IsCard(c)
  PROVE  Summarize(c).out + Summarize(c).in = Summarize(c).strokes
<1> DEFINE f == [n \in DOMAIN c |-> c[n].strokes]
           all == Completed(c)
           out == {n \in all : n <= 9}
           in == {n \in all : n > 9}
<1>1. /\ all \subseteq DOMAIN c /\ all \subseteq 1..18 /\ IsFiniteSet(all)
      /\ \A n \in all : f[n] \in Int
  <2>1. all \subseteq DOMAIN c /\ \A n \in all : c[n].strokes \in 1..20
    BY CardParts
  <2> QED
    BY <2>1, CardFinite, FS_Subset
<1>2. out \cup in = all /\ out \cap in = {}
  BY <1>1
<1>3. IsFiniteSet(out) /\ IsFiniteSet(in)
  BY <1>1, FS_Subset
<1>4. /\ Summarize(c).strokes = SumFunctionOnSet(f, all)
      /\ Summarize(c).out = SumFunctionOnSet(f, out)
      /\ Summarize(c).in = SumFunctionOnSet(f, in)
  BY DEF Summarize, Strokes
<1> HIDE DEF f, all, out, in
<1>5. SumFunctionOnSet(f, out \cup in) = SumFunctionOnSet(f, out) + SumFunctionOnSet(f, in)
  BY <1>1, <1>2, <1>3, SumApart
<1> QED
  BY <1>2, <1>4, <1>5

(* A sum of what is not negative does not shrink with the set.             *)
LEMMA SumOfPart ==
  ASSUME NEW B, IsFiniteSet(B), NEW A \in SUBSET B, NEW f, \A x \in B : f[x] \in Nat
  PROVE  SumFunctionOnSet(f, A) <= SumFunctionOnSet(f, B)
<1>1. IsFiniteSet(A) /\ IsFiniteSet(B \ A)
  BY FS_Subset
<1>2. A \cup (B \ A) = B /\ A \cap (B \ A) = {}
  OBVIOUS
<1>3. SumFunctionOnSet(f, B) = SumFunctionOnSet(f, A) + SumFunctionOnSet(f, B \ A)
  <2>1. \A x \in A \cup (B \ A) : f[x] \in Int
    OBVIOUS
  <2>2. SumFunctionOnSet(f, A \cup (B \ A)) = SumFunctionOnSet(f, A) + SumFunctionOnSet(f, B \ A)
    BY <1>1, <1>2, <2>1, SumApart
  <2> QED
    BY <1>2, <2>2
<1>4. SumFunctionOnSet(f, A) \in Nat /\ SumFunctionOnSet(f, B \ A) \in Nat
  BY <1>1, SumNat
<1> QED
  BY <1>3, <1>4

LEMMA PuttsOnGreensFew ==
  ASSUME NEW c, IsCard(c)
  PROVE  Summarize(c).puttsOnGreens <= Summarize(c).putts
<1> DEFINE f == [n \in DOMAIN c |-> c[n].putts]
           greens == {n \in Measured(c) : GreenInRegulation(c[n])}
           putted == {n \in Recorded(c) : c[n].putts # Nil}
<1>1. /\ putted \subseteq DOMAIN c /\ IsFiniteSet(putted)
      /\ \A n \in putted : f[n] \in Nat
  <2>1. putted \subseteq DOMAIN c /\ \A n \in putted : c[n].putts \in 0..10
    BY CardParts
  <2> QED
    BY <2>1, CardFinite, FS_Subset
<1>2. greens \subseteq putted
  BY CardParts
<1>3. /\ Summarize(c).puttsOnGreens = SumFunctionOnSet(f, greens)
      /\ Summarize(c).putts = SumFunctionOnSet(f, putted)
  BY DEF Summarize, Putts
<1> HIDE DEF f, greens, putted
<1> QED
  BY <1>1, <1>2, <1>3, SumOfPart

(* Every score against par is in one group.                                *)
LEMMA ScoresPartition ==
  ASSUME NEW c, IsCard(c)
  PROVE  SumFunctionOnSet(Summarize(c).scores, Results) = Cardinality(AgainstPar(c))
<1> DEFINE scored == AgainstPar(c)
           result == [n \in scored |-> Result(c[n].strokes - c[n].par)]
           scores == [x \in Results |-> Cardinality({n \in scored : Result(c[n].strokes - c[n].par) = x})]
<1>1. Summarize(c).scores = scores
  BY DEF Summarize
<1>2. IsFiniteSet(scored)
  BY CardFinite, CardParts, FS_Subset
<1>3. IsFiniteSet(Results)
  <2>1. Results = {"eagleOrBetter"} \cup {"birdie"} \cup {"par"} \cup {"bogey"} \cup {"doubleOrWorse"}
    BY DEF Results
  <2> QED
    BY <2>1, FS_Singleton, FS_Union
<1>4. \A x \in Results : scores[x] = Cardinality(SentTo(x, result, scored))
  <2> SUFFICES ASSUME NEW x \in Results
               PROVE  scores[x] = Cardinality(SentTo(x, result, scored))
    OBVIOUS
  <2>1. {n \in scored : Result(c[n].strokes - c[n].par) = x} = SentTo(x, result, scored)
    BY DEF SentTo
  <2> QED
    BY <2>1
<1>5. \A n \in scored : result[n] \in Results
  <2>1. \A d : Result(d) \in Results
    BY DEF Result, Results
  <2> QED
    BY <2>1
<1> HIDE DEF scored, result, scores
<1>6. SumFunctionOnSet(scores, Results) = Cardinality(scored)
  BY <1>2, <1>3, <1>4, <1>5, SumOfCounts
<1> QED
  BY <1>1, <1>6 DEF scored

LEMMA PointAddsUp ==
  ASSUME NEW p, IsPoint(p)
  PROVE  CardAddsUp(p) /\ TalliesOK(p.summary)
<1>1. IsCard(p.card) /\ p.summary = Summarize(p.card)
  BY DEF IsPoint
<1> QED
  BY <1>1, CardTallies, NinesAddUp, PuttsOnGreensFew, ScoresPartition DEF CardAddsUp

-----------------------------------------------------------------------------
(* The figures of an overview.                                             *)

(* The sums of tallies are tallies.                                        *)
LEMMA AddedIsTally ==
  ASSUME NEW f, IsFiniteSet(DOMAIN f), \A i \in DOMAIN f : IsTally(f[i])
  PROVE  Added(f).made <= Added(f).attempted
<1> DEFINE made == [i \in DOMAIN f |-> f[i].made]
           attempted == [i \in DOMAIN f |-> f[i].attempted]
<1>1. \A i \in DOMAIN f : made[i] \in Int /\ attempted[i] \in Int /\ made[i] <= attempted[i]
  BY DEF IsTally
<1>2. /\ Added(f).made = SumFunctionOnSet(made, DOMAIN f)
      /\ Added(f).attempted = SumFunctionOnSet(attempted, DOMAIN f)
  BY DEF Added, SumFunction
<1> HIDE DEF made, attempted
<1> QED
  BY <1>1, <1>2, SumAtMost

LEMMA GreensOrScrambles ==
  ASSUME NEW S, IsFiniteSet(S), NEW g, DOMAIN g = S, NEW h, DOMAIN h = S,
         \A i \in S : /\ IsTally(g[i]) /\ IsTally(h[i])
                      /\ g[i].attempted = g[i].made + h[i].attempted
  PROVE  Added(g).attempted = Added(g).made + Added(h).attempted
<1> DEFINE made == [i \in S |-> g[i].made]
           attempted == [i \in S |-> g[i].attempted]
           missed == [i \in S |-> h[i].attempted]
<1>1. \A i \in S : made[i] \in Int /\ missed[i] \in Int /\ attempted[i] = made[i] + missed[i]
  BY DEF IsTally
<1>2. /\ Added(g).made = SumFunctionOnSet(made, S)
      /\ Added(g).attempted = SumFunctionOnSet(attempted, S)
      /\ Added(h).attempted = SumFunctionOnSet(missed, S)
  BY DEF Added, SumFunction
<1> HIDE DEF made, attempted, missed
<1> QED
  BY <1>1, <1>2, SumOfBoth

LEMMA SoundFigures ==
  ASSUME NEW points, NEW shown, IsFiniteSet(shown), \A i \in shown : IsPoint(points[i])
  PROVE  AddUp(FiguresOf(points, shown))
<1> DEFINE o == FiguresOf(points, shown)
           fairways == [i \in shown |-> points[i].summary.fairways]
           greens == [i \in shown |-> points[i].summary.greens]
           scrambles == [i \in shown |-> points[i].summary.scrambles]
           sandSaves == [i \in shown |-> points[i].summary.sandSaves]
           full == {i \in shown : IsFull(points[i])}
<1>1. \A i \in shown : CardAddsUp(points[i]) /\ TalliesOK(points[i].summary)
  BY PointAddsUp
<1>2. /\ o.series = [i \in shown |-> points[i]] /\ o.roundsCounted = Cardinality(shown)
      /\ o.fairways = Added(fairways) /\ o.greens = Added(greens)
      /\ o.scrambles = Added(scrambles) /\ o.sandSaves = Added(sandSaves)
      /\ o.averageScore.over = Cardinality(full) /\ o.averageToPar.over = Cardinality(full)
  BY DEF FiguresOf, Mean
<1>3. \A i \in shown : /\ IsTally(fairways[i]) /\ IsTally(greens[i])
                       /\ IsTally(scrambles[i]) /\ IsTally(sandSaves[i])
                       /\ greens[i].attempted = greens[i].made + scrambles[i].attempted
  BY <1>1 DEF TalliesOK
<1>4. /\ DOMAIN fairways = shown /\ DOMAIN greens = shown
      /\ DOMAIN scrambles = shown /\ DOMAIN sandSaves = shown
  OBVIOUS
<1>5. Cardinality(full) <= Cardinality(shown)
  BY FS_Subset
<1>6. \A i \in DOMAIN o.series : CardAddsUp(o.series[i])
  BY <1>1, <1>2
<1> HIDE DEF o, fairways, greens, scrambles, sandSaves, full
<1>7. /\ Added(fairways).made <= Added(fairways).attempted
      /\ Added(greens).made <= Added(greens).attempted
      /\ Added(scrambles).made <= Added(scrambles).attempted
      /\ Added(sandSaves).made <= Added(sandSaves).attempted
  BY <1>3, <1>4, AddedIsTally
<1>8. Added(greens).attempted = Added(greens).made + Added(scrambles).attempted
  BY <1>3, <1>4, GreensOrScrambles
<1>9. AddUp(o)
  BY <1>2, <1>5, <1>6, <1>7, <1>8 DEF AddUp
<1> QED
  BY <1>9 DEF o

LEMMA DifferentialOK ==
  ASSUME NEW c, IsCard(c), NEW x, NEW intended,
         x.rating \in {Nil} \cup Nat, x.slope \in {Nil} \cup Nat
  PROVE  Differential(x, Summarize(c), intended) \in {Nil} \cup Int
<1> DEFINE f == [n \in DOMAIN c |-> c[n].strokes]
           strokes == Summarize(c).strokes
<1>1. strokes \in Int
  <2>1. /\ Completed(c) \subseteq DOMAIN c /\ IsFiniteSet(Completed(c))
        /\ \A n \in Completed(c) : f[n] \in Int
    <3>1. Completed(c) \subseteq DOMAIN c /\ \A n \in Completed(c) : c[n].strokes \in 1..20
      BY CardParts
    <3> QED
      BY <3>1, CardFinite, FS_Subset
  <2>2. strokes = SumFunctionOnSet(f, Completed(c))
    BY DEF Summarize, Strokes
  <2> HIDE DEF f, strokes
  <2> QED
    BY <2>1, <2>2, SumType
<1>2. CASE x.rating \in Nat /\ x.slope \in Nat /\ x.slope # 0
  <2> DEFINE a == 113 * (10 * strokes - x.rating)
             b == x.slope
  <2>1. a \in Int /\ b \in Nat /\ b # 0
    BY <1>1, <1>2
  <2> HIDE DEF a, b, strokes
  <2>2. Rounded(a, b) \in Int
    BY <2>1 DEF Rounded
  <2> QED
    BY <2>2 DEF Differential, a, b, strokes
<1>3. CASE ~ (x.rating \in Nat /\ x.slope \in Nat /\ x.slope # 0)
  BY <1>3 DEF Differential
<1> QED
  BY <1>2, <1>3

(* Whatever round is at a place counted, it is a point of a card.          *)
LEMMA PointsSound ==
  ASSUME \A r \in Ids : IsCard(cards[r]), RatedOK, past \in Pasts
  PROVE  \A i \in Counted : IsPoint(Points[i])
<1> DEFINE new(i) == LET r == Newest[i]
                     IN Point(r, rated[r], cards[r], Cardinality(HoleNumbers(Game[r])))
           changing == [i \in 1..Len(Newest) |-> new(i)]
           older == SubSeq(Older, 1, past)
           All == {new(i) : i \in 1..Len(Newest)} \cup ToSet(Older)
<1>1. /\ Newest \in Seq(Ids) /\ Len(Newest) \in Nat /\ DOMAIN Newest = 1..Len(Newest)
      /\ Older \in Seq(ToSet(Older)) /\ DOMAIN Older = 1..Len(Older)
      /\ past \in 0..Len(Older)
      /\ \A i \in 1..Len(Older) : IsPoint(Older[i])
  BY StatisticsAssumption
<1>2. \A p \in All : IsPoint(p)
  <2>1. ASSUME NEW i \in 1..Len(Newest)  PROVE IsPoint(new(i))
    <3> DEFINE r == Newest[i]
    <3>1. r \in Ids /\ IsCard(cards[r])
      BY <1>1
    <3>2. rated[r].rating \in {Nil} \cup Nat /\ rated[r].slope \in {Nil} \cup Nat
      <4>1. CASE rated[r] = Unrated
        BY <4>1 DEF Unrated
      <4>2. ASSUME NEW x \in DOMAIN Rating, rated[r] = [rating |-> Rating[x], slope |-> Slope[x]]
            PROVE  rated[r].rating \in {Nil} \cup Nat /\ rated[r].slope \in {Nil} \cup Nat
        <5>1. Rating[x] \in {Nil} \cup Nat /\ Slope[x] \in {Nil} \cup Nat
          BY StatisticsAssumption
        <5>2. rated[r].rating = Rating[x] /\ rated[r].slope = Slope[x]
          BY <4>2
        <5> QED
          BY <5>1, <5>2
      <4> QED
        BY <3>1, <4>1, <4>2 DEF RatedOK
    <3> HIDE DEF r
    <3>3. \A intended : Differential(rated[r], Summarize(cards[r]), intended) \in {Nil} \cup Int
      BY <3>1, <3>2, DifferentialOK
    <3>4. new(i) = Point(r, rated[r], cards[r], Cardinality(HoleNumbers(Game[r])))
      BY DEF r
    <3> HIDE DEF new
    <3> QED
      BY <3>1, <3>3, <3>4 DEF IsPoint, Point
  <2>2. \A p \in ToSet(Older) : IsPoint(p)
    BY <1>1 DEF ToSet
  <2> QED
    BY <2>1, <2>2
<1>3. changing \in Seq(All) /\ Len(changing) = Len(Newest)
  BY <1>1
<1>4. older \in Seq(All) /\ Len(older) = past
  BY <1>1
<1>5. Points = changing \o older
  BY DEF Points
<1> HIDE DEF new, changing, older, All
<1>6. \A i \in 1..(Len(Newest) + past) : Points[i] \in All
  BY <1>1, <1>3, <1>4, <1>5
<1> QED
  BY <1>2, <1>6 DEF Counted

LEMMA FiguresOfSound ==
  ASSUME \A r \in Ids : IsCard(cards[r]), RatedOK, past \in Pasts, NEW w
  PROVE  AddUp(Figures(w))
<1> DEFINE shown == {i \in Windowed(Counted, w) : HasScore(Points[i])}
<1>1. shown \subseteq Counted /\ Counted \subseteq 1..(Len(Newest) + past)
  BY DEF Windowed, Latest, Counted
<1>2. IsFiniteSet(shown)
  <2>1. Len(Newest) + past \in Int /\ 1 \in Int
    BY StatisticsAssumption
  <2>2. IsFiniteSet(1..(Len(Newest) + past))
    BY <2>1, FS_Interval
  <2> QED
    BY <1>1, <2>2, FS_Subset
<1>3. \A i \in shown : IsPoint(Points[i])
  BY <1>1, PointsSound
<1>4. Figures(w) = FiguresOf(Points, shown)
  BY DEF Figures
<1> HIDE DEF shown
<1> QED
  BY <1>2, <1>3, <1>4, SoundFigures

(* What every state provides.                                              *)
LEMMA StatisticsSound ==
  ASSUME StatisticsInv
  PROVE  (\A r \in Ids : IsCard(cards[r])) /\ RatedOK /\ past \in Pasts
<1>1. past \in Pasts /\ RatedOK
  BY DEF StatisticsInv, RowsOK
<1>2. ASSUME NEW r \in Ids  PROVE IsCard(cards[r])
  <2>1. CardOK(r)
    BY DEF StatisticsInv, RowsOK
  <2>2. CASE cards[r] = << >>
    BY <2>2 DEF IsCard
  <2>3. CASE /\ DOMAIN cards[r] = HoleNumbers(Game[r])
             /\ \A n \in DOMAIN cards[r] : FitsCard(cards[r][n])
    BY <2>3 DEF IsCard, HoleNumbers
  <2> QED
    BY <2>1, <2>2, <2>3 DEF CardOK
<1> QED
  BY <1>1, <1>2

(* However rounds are saved, reopened and deleted under an overview, and   *)
(* however little is recorded of their holes, the figures it would give    *)
(* hang together (Overview, Summarize).                                    *)
THEOREM FiguresHangTogether == StatisticsSpec => []FiguresAddUp
<1>1. StatisticsInv => FiguresAddUp
  BY StatisticsSound, FiguresOfSound DEF FiguresAddUp
<1> QED
  BY <1>1, StatisticsInvHolds, PTL

-----------------------------------------------------------------------------
(* The handicap.                                                           *)

(* S is in line by R: of two different members one comes before the other. *)
InLine(R, S) ==
    /\ \A i, j \in S : <<i, j>> \in R => <<j, i>> \notin R
    /\ \A i, j \in S : i # j => <<i, j>> \in R \/ <<j, i>> \in R
    /\ \A i, j, k \in S : <<i, j>> \in R /\ <<j, k>> \in R => <<i, k>> \in R

Ahead(i, R, S) == {j \in S : <<j, i>> \in R}

(* The first few.                                                          *)
Leading(R, S, few) == {i \in S : Cardinality(Ahead(i, R, S)) < few}

LEMMA InLinePart ==
  ASSUME NEW S, NEW R, InLine(R, S), NEW T \in SUBSET S
  PROVE  InLine(R, T)
  BY DEF InLine

LEMMA SomeoneLast ==
  ASSUME NEW S, IsFiniteSet(S), S # {}, NEW R, InLine(R, S)
  PROVE  \E g \in S : \A j \in S \ {g} : <<j, g>> \in R
<1> DEFINE Good == {T \in SUBSET S : T # {} => \E g \in T : \A j \in T \ {g} : <<j, g>> \in R}
<1>1. ASSUME NEW T \in SUBSET S, \A U \in SUBSET T : U # T => U \in Good
      PROVE  T \in Good
  <2> SUFFICES ASSUME T # {}  PROVE \E g \in T : \A j \in T \ {g} : <<j, g>> \in R
    OBVIOUS
  <2>1. PICK p \in T : TRUE
    OBVIOUS
  <2>2. CASE T = {p}
    BY <2>2
  <2>3. CASE T # {p}
    <3>1. T \ {p} \in Good /\ T \ {p} # {}
      BY <1>1, <2>1, <2>3
    <3>2. PICK g \in T \ {p} : \A j \in (T \ {p}) \ {g} : <<j, g>> \in R
      BY <3>1
    <3>3. CASE <<p, g>> \in R
      BY <3>2, <3>3
    <3>4. CASE <<g, p>> \in R
      <4>1. \A j \in T \ {p} : <<j, p>> \in R
        BY <2>1, <3>2, <3>4 DEF InLine
      <4> QED
        BY <2>1, <4>1
    <3> QED
      BY <2>1, <3>2, <3>3, <3>4 DEF InLine
  <2> QED
    BY <2>2, <2>3
<1> HIDE DEF Good
<1>2. S \in Good
  BY <1>1, SubsetInduction
<1> QED
  BY <1>2 DEF Good

(* As many as are asked for, or all there are.                             *)
LEMMA HowManyLead ==
  ASSUME NEW S, IsFiniteSet(S), NEW R, InLine(R, S), NEW few \in Nat
  PROVE  Cardinality(Leading(R, S, few)) = IF few <= Cardinality(S) THEN few ELSE Cardinality(S)
<1> DEFINE count(T) == Cardinality(Leading(R, T, few))
           Good == {T \in SUBSET S : count(T) = IF few <= Cardinality(T) THEN few ELSE Cardinality(T)}
<1>1. ASSUME NEW T \in SUBSET S, \A U \in SUBSET T : U # T => U \in Good
      PROVE  T \in Good
  <2>1. IsFiniteSet(T)
    BY FS_Subset
  <2>2. CASE T = {}
    <3>1. Leading(R, T, few) = {}
      BY <2>2 DEF Leading
    <3> QED
      BY <2>2, <3>1, FS_EmptySet
  <2>3. CASE T # {}
    <3>0. InLine(R, T)
      BY InLinePart
    <3>1. PICK g \in T : \A j \in T \ {g} : <<j, g>> \in R
      BY <2>1, <2>3, <3>0, SomeoneLast
    <3> DEFINE rest == T \ {g}
    <3>2. /\ IsFiniteSet(rest) /\ Cardinality(T) = Cardinality(rest) + 1
          /\ Cardinality(rest) \in Nat /\ Cardinality(T) \in Nat
      <4>1. IsFiniteSet(rest) /\ Cardinality(rest) = Cardinality(T) - 1
        BY <2>1, <3>1, FS_RemoveElement
      <4>2. Cardinality(rest) \in Nat /\ Cardinality(T) \in Nat
        BY <2>1, <4>1, FS_CardinalityType
      <4> QED
        BY <4>1, <4>2
    <3>3. count(rest) = IF few <= Cardinality(rest) THEN few ELSE Cardinality(rest)
      BY <1>1
    <3>4. Ahead(g, R, T) = rest
      BY <3>1 DEF Ahead, InLine
    <3>5. \A i \in rest : Ahead(i, R, T) = Ahead(i, R, rest)
      BY <3>1 DEF Ahead, InLine
    <3>6. Leading(R, T, few) = Leading(R, rest, few) \cup {i \in {g} : Cardinality(rest) < few}
      BY <3>4, <3>5 DEF Leading
    <3>7. Leading(R, rest, few) \subseteq rest
      BY DEF Leading
    <3>8. IsFiniteSet(Leading(R, rest, few))
      BY <3>2, <3>7, FS_Subset
    <3>9. count(T) = IF Cardinality(rest) < few THEN count(rest) + 1 ELSE count(rest)
      <4>1. CASE Cardinality(rest) < few
        <5>1. Leading(R, T, few) = Leading(R, rest, few) \cup {g}
          BY <3>6, <4>1
        <5>2. g \notin Leading(R, rest, few)
          BY <3>7
        <5> QED
          BY <3>8, <4>1, <5>1, <5>2, FS_AddElement
      <4>2. CASE ~ (Cardinality(rest) < few)
        <5>1. Leading(R, T, few) = Leading(R, rest, few)
          BY <3>6, <4>2
        <5> QED
          BY <4>2, <5>1
      <4> QED
        BY <4>1, <4>2
    <3> HIDE DEF rest, count
    <3>10. count(T) = IF few <= Cardinality(T) THEN few ELSE Cardinality(T)
      <4>1. CASE few <= Cardinality(rest)
        BY <3>2, <3>3, <3>9, <4>1
      <4>2. CASE Cardinality(rest) < few
        BY <3>2, <3>3, <3>9, <4>2
      <4> QED
        BY <3>2, <4>1, <4>2
    <3> QED
      BY <3>10 DEF count
  <2> QED
    BY <2>2, <2>3
<1> HIDE DEF Good
<1>2. S \in Good
  BY <1>1, SubsetInduction
<1> QED
  BY <1>2 DEF Good

LEMMA SumOfSame ==
  ASSUME NEW S, IsFiniteSet(S), NEW c \in Int, NEW f, \A x \in S : f[x] = c
  PROVE  SumFunctionOnSet(f, S) = c * Cardinality(S)
<1> DEFINE Good == {T \in SUBSET S : SumFunctionOnSet(f, T) = c * Cardinality(T)}
<1>1. ASSUME NEW T \in SUBSET S, \A U \in SUBSET T : U # T => U \in Good
      PROVE  T \in Good
  <2>1. IsFiniteSet(T)
    BY FS_Subset
  <2>2. CASE T = {}
    <3>1. SumFunctionOnSet(f, {}) = 0 /\ Cardinality({}) = 0
      BY FS_EmptySet, SumStep
    <3> QED
      BY <2>2, <3>1
  <2>3. CASE T # {}
    <3> DEFINE p == Pick(T)
               rest == T \ {p}
    <3>1. p \in T /\ rest \in Good
      BY <1>1, <2>3, PickIn
    <3>2. SumFunctionOnSet(f, T) = f[p] + SumFunctionOnSet(f, rest)
      BY <2>1, <2>3, SumStep
    <3>3. f[p] = c /\ SumFunctionOnSet(f, rest) = c * Cardinality(rest)
      BY <3>1
    <3>4. Cardinality(rest) \in Nat /\ Cardinality(T) = Cardinality(rest) + 1
      <4>1. IsFiniteSet(rest) /\ Cardinality(rest) = Cardinality(T) - 1
        BY <2>1, <3>1, FS_RemoveElement
      <4>2. Cardinality(rest) \in Nat /\ Cardinality(T) \in Nat
        BY <2>1, <4>1, FS_CardinalityType
      <4> QED
        BY <4>1, <4>2
    <3> HIDE DEF p, rest
    <3>5. SumFunctionOnSet(f, T) = c * Cardinality(T)
      <4>1. c + c * Cardinality(rest) = c * (Cardinality(rest) + 1)
        BY <3>4
      <4> QED
        BY <3>2, <3>3, <3>4, <4>1
    <3> QED
      BY <3>5
  <2> QED
    BY <2>2, <2>3
<1> HIDE DEF Good
<1>2. S \in Good
  BY <1>1, SubsetInduction
<1> QED
  BY <1>2 DEF Good

(* Summed value by value.                                                  *)
LEMMA SumByValue ==
  ASSUME NEW V, IsFiniteSet(V), V \subseteq Int, NEW A, IsFiniteSet(A),
         NEW f, \A i \in A : f[i] \in V,
         NEW g, \A v \in V : g[v] = v * Cardinality(SentTo(v, f, A))
  PROVE  SumFunctionOnSet(f, A) = SumFunctionOnSet(g, V)
<1> DEFINE in(T) == {i \in A : f[i] \in T}
           Good == {T \in SUBSET V : SumFunctionOnSet(f, in(T)) = SumFunctionOnSet(g, T)}
<1>1. ASSUME NEW T \in SUBSET V, \A U \in SUBSET T : U # T => U \in Good
      PROVE  T \in Good
  <2>1. IsFiniteSet(T)
    BY FS_Subset
  <2>2. CASE T = {}
    <3>1. SumFunctionOnSet(g, {}) = 0 /\ SumFunctionOnSet(f, {}) = 0 /\ in({}) = {}
      BY FS_EmptySet, SumStep
    <3> QED
      BY <2>2, <3>1
  <2>3. CASE T # {}
    <3> DEFINE p == Pick(T)
               rest == T \ {p}
               one == SentTo(p, f, A)
    <3>1. p \in T /\ rest \in Good
      BY <1>1, <2>3, PickIn
    <3>2. SumFunctionOnSet(g, T) = g[p] + SumFunctionOnSet(g, rest)
      BY <2>1, <2>3, SumStep
    <3>3. g[p] = p * Cardinality(one) /\ SumFunctionOnSet(f, in(rest)) = SumFunctionOnSet(g, rest)
      BY <3>1
    <3>4. in(T) = one \cup in(rest) /\ one \cap in(rest) = {}
      BY <3>1 DEF SentTo
    <3>5. IsFiniteSet(one) /\ IsFiniteSet(in(rest))
      BY FS_Subset DEF SentTo
    <3>6. SumFunctionOnSet(f, one) = p * Cardinality(one)
      <4>1. p \in Int /\ \A i \in one : f[i] = p
        BY <3>1 DEF SentTo
      <4> HIDE DEF one, p
      <4> QED
        BY <3>5, <4>1, SumOfSame
    <3>7. SumFunctionOnSet(f, one \cup in(rest))
            = SumFunctionOnSet(f, one) + SumFunctionOnSet(f, in(rest))
      <4>1. \A i \in one \cup in(rest) : f[i] \in Int
        BY DEF SentTo
      <4> HIDE DEF one, in
      <4> QED
        BY <3>4, <3>5, <4>1, SumApart
    <3> HIDE DEF one, in, p, rest
    <3>8. SumFunctionOnSet(f, in(T)) = SumFunctionOnSet(g, T)
      BY <3>2, <3>3, <3>4, <3>6, <3>7
    <3> QED
      BY <3>8 DEF in
  <2> QED
    BY <2>2, <2>3
<1> HIDE DEF Good
<1>2. V \in Good
  BY <1>1, SubsetInduction
<1>3. {i \in A : f[i] \in V} = A
  OBVIOUS
<1> QED
  BY <1>2, <1>3 DEF Good

LEMMA Balance ==
  ASSUME NEW a \in Int, NEW b \in Int, NEW c \in Int, NEW m \in Nat, NEW q \in Nat,
         a <= c * m, c * q <= b
  PROVE  (m + q) * a <= m * (a + b)
<1>1. q * a <= q * (c * m)
  OBVIOUS
<1>2. m * (c * q) <= m * b
  OBVIOUS
<1>3. q * (c * m) = m * (c * q)
  OBVIOUS
<1>4. (m + q) * a = m * a + q * a /\ m * (a + b) = m * a + m * b
  OBVIOUS
<1> QED
  BY <1>1, <1>2, <1>3, <1>4

(* When f grows along the line, its mean over the first few is at most its *)
(* mean over all.                                                          *)
LEMMA LeadersAreLess ==
  ASSUME NEW S, IsFiniteSet(S), NEW R, InLine(R, S),
         NEW f, \A i \in S : f[i] \in Int, \A i, j \in S : <<i, j>> \in R => f[i] <= f[j],
         NEW few \in Nat, 1 <= few, few <= Cardinality(S)
  PROVE  Cardinality(S) * SumFunctionOnSet(f, Leading(R, S, few)) <= few * SumFunctionOnSet(f, S)
<1> DEFINE first == Leading(R, S, few)
           others == S \ first
           sum(T) == SumFunctionOnSet(f, T)
<1>1. first \subseteq S /\ IsFiniteSet(first) /\ IsFiniteSet(others)
  BY FS_Subset DEF Leading
<1>2. Cardinality(first) = few
  BY HowManyLead
<1>3. /\ Cardinality(S) \in Nat /\ Cardinality(others) \in Nat
      /\ Cardinality(S) = few + Cardinality(others)
  <2>1. first \cup others = S /\ first \cap others = {}
    BY <1>1
  <2> HIDE DEF first, others
  <2>2. /\ Cardinality(first) \in Nat /\ Cardinality(others) \in Nat
        /\ Cardinality(first \cap others) = 0
    BY <1>1, <2>1, FS_EmptySet, FS_CardinalityType
  <2>3. Cardinality(first \cup others)
          = Cardinality(first) + Cardinality(others) - Cardinality(first \cap others)
    BY <1>1, FS_Union
  <2>4. Cardinality(S) = Cardinality(first) + Cardinality(others) - Cardinality(first \cap others)
    BY <2>1, <2>3
  <2>5. Cardinality(S) \in Nat
    BY FS_CardinalityType
  <2>6. Cardinality(S) = few + Cardinality(others)
    BY <1>2, <2>2, <2>4, <2>5
  <2> QED
    BY <2>2, <2>5, <2>6
<1>4. first # {}
  BY <1>1, <1>2, FS_EmptySet
<1>5. PICK g \in first : \A j \in first \ {g} : <<j, g>> \in R
  <2>1. InLine(R, first)
    BY <1>1, InLinePart
  <2> HIDE DEF first
  <2> QED
    BY <1>1, <1>4, <2>1, SomeoneLast
<1>6. ASSUME NEW i \in first  PROVE f[i] <= f[g]
  <2>1. i \in S /\ g \in S /\ f[i] \in Int
    BY <1>1, <1>5
  <2>2. CASE i = g
    BY <2>1, <2>2
  <2>3. CASE i # g
    <3>1. <<i, g>> \in R
      BY <1>5, <2>3
    <3> QED
      BY <2>1, <3>1
  <2> QED
    BY <2>2, <2>3
<1>7. ASSUME NEW j \in others  PROVE f[g] <= f[j]
  <2>1. <<j, g>> \notin R
    <3> SUFFICES ASSUME <<j, g>> \in R  PROVE FALSE
      OBVIOUS
    <3>1. Ahead(j, R, S) \subseteq Ahead(g, R, S) /\ Ahead(g, R, S) \subseteq S
      BY <1>1, <1>5 DEF Ahead, InLine
    <3>2. IsFiniteSet(Ahead(g, R, S)) /\ IsFiniteSet(Ahead(j, R, S))
      BY <3>1, FS_Subset
    <3>3. Cardinality(Ahead(j, R, S)) <= Cardinality(Ahead(g, R, S))
      <4>1. Ahead(j, R, S) \in SUBSET Ahead(g, R, S)
        BY <3>1
      <4> QED
        BY <3>2, <4>1, FS_Subset
    <3>4. Cardinality(Ahead(j, R, S)) \in Nat /\ Cardinality(Ahead(g, R, S)) \in Nat
      BY <3>2, FS_CardinalityType
    <3>5. Cardinality(Ahead(g, R, S)) < few /\ ~ (Cardinality(Ahead(j, R, S)) < few)
      BY <1>5 DEF Leading
    <3> QED
      BY <3>3, <3>4, <3>5
  <2>2. j \in S /\ g \in S /\ j # g
    BY <1>1, <1>5
  <2>3. <<g, j>> \in R
    BY <2>1, <2>2 DEF InLine
  <2> QED
    BY <2>2, <2>3
<1> DEFINE same == [i \in S |-> f[g]]
<1>8. f[g] \in Int /\ \A i \in S : same[i] = f[g]
  BY <1>1, <1>5
<1> HIDE DEF same
<1>9. sum(first) <= f[g] * few
  <2>1. \A i \in first : f[i] \in Int /\ same[i] \in Int /\ f[i] <= same[i] /\ same[i] = f[g]
    BY <1>1, <1>6, <1>8
  <2> HIDE DEF first
  <2>2. SumFunctionOnSet(same, first) = f[g] * Cardinality(first)
    BY <1>1, <1>8, <2>1, SumOfSame
  <2>3. sum(first) <= SumFunctionOnSet(same, first)
    BY <1>1, <2>1, SumAtMost
  <2> QED
    BY <1>2, <2>2, <2>3
<1>10. f[g] * Cardinality(others) <= sum(others)
  <2>1. \A i \in others : f[i] \in Int /\ same[i] \in Int /\ same[i] <= f[i] /\ same[i] = f[g]
    BY <1>7, <1>8
  <2> HIDE DEF others
  <2>2. SumFunctionOnSet(same, others) = f[g] * Cardinality(others)
    BY <1>1, <1>8, <2>1, SumOfSame
  <2>3. SumFunctionOnSet(same, others) <= sum(others)
    BY <1>1, <2>1, SumAtMost
  <2> QED
    BY <2>2, <2>3
<1>11. sum(S) = sum(first) + sum(others)
  <2>1. first \cup others = S /\ first \cap others = {} /\ \A i \in first \cup others : f[i] \in Int
    BY <1>1
  <2> HIDE DEF first, others, sum
  <2>2. sum(first \cup others) = sum(first) + sum(others)
    BY <1>1, <2>1, SumApart DEF sum
  <2> QED
    BY <2>1, <2>2
<1>12. sum(first) \in Int /\ sum(others) \in Int
  <2>1. (\A i \in first : f[i] \in Int) /\ \A i \in others : f[i] \in Int
    BY <1>1
  <2> HIDE DEF first, others
  <2> QED
    BY <1>1, <2>1, SumType
<1> HIDE DEF first, others, sum
<1>13. (few + Cardinality(others)) * sum(first) <= few * (sum(first) + sum(others))
  BY <1>3, <1>8, <1>9, <1>10, <1>12, Balance
<1>14. Cardinality(S) * sum(first) <= few * sum(S)
  BY <1>3, <1>11, <1>13
<1> QED
  BY <1>14 DEF first, sum

(* Of so many equal ones, those among the first few when rank come before. *)
Taken(few, rank, equal) ==
    IF few <= rank THEN 0 ELSE IF few - rank < equal THEN few - rank ELSE equal

LEMMA LeadersAlike ==
  ASSUME NEW S, IsFiniteSet(S), NEW R, InLine(R, S), NEW few \in Nat,
         NEW E \in SUBSET S, NEW B \in SUBSET S, B \cap E = {},
         \A i \in E : Ahead(i, R, S) = B \cup Ahead(i, R, E)
  PROVE  Cardinality({i \in Leading(R, S, few) : i \in E})
           = Taken(few, Cardinality(B), Cardinality(E))
<1> DEFINE alike == {i \in Leading(R, S, few) : i \in E}
           b == Cardinality(B)
<1>1. IsFiniteSet(B) /\ IsFiniteSet(E) /\ b \in Nat /\ Cardinality(E) \in Nat
  <2>1. IsFiniteSet(B) /\ IsFiniteSet(E)
    BY FS_Subset
  <2> QED
    BY <2>1, FS_CardinalityType
<1>2. ASSUME NEW i \in E
      PROVE  /\ Cardinality(Ahead(i, R, E)) \in Nat
             /\ Cardinality(Ahead(i, R, S)) = b + Cardinality(Ahead(i, R, E))
  <2> DEFINE ahead == Ahead(i, R, E)
  <2>1. IsFiniteSet(ahead) /\ B \cap ahead = {}
    BY <1>1, FS_Subset DEF Ahead
  <2>2. Ahead(i, R, S) = B \cup ahead
    OBVIOUS
  <2> HIDE DEF ahead
  <2>3. Cardinality(B \cup ahead) = Cardinality(B) + Cardinality(ahead) - Cardinality(B \cap ahead)
    BY <1>1, <2>1, FS_Union
  <2>4. Cardinality(ahead) \in Nat /\ Cardinality(B \cap ahead) = 0
    BY <2>1, FS_CardinalityType, FS_EmptySet
  <2>5. Cardinality(Ahead(i, R, S)) = Cardinality(B) + Cardinality(ahead) - Cardinality(B \cap ahead)
    BY <2>2, <2>3
  <2>6. Cardinality(Ahead(i, R, S)) = b + Cardinality(ahead)
    BY <1>1, <2>4, <2>5
  <2> QED
    BY <2>4, <2>6 DEF ahead
<1>3. alike = {i \in E : Cardinality(Ahead(i, R, S)) < few}
  BY DEF Leading
<1> HIDE DEF b
<1>4. CASE few <= b
  <2>1. \A i \in E : ~ (Cardinality(Ahead(i, R, S)) < few)
    BY <1>1, <1>2, <1>4
  <2>2. alike = {}
    BY <1>3, <2>1
  <2> QED
    BY <1>4, <2>2, FS_EmptySet DEF Taken, b
<1>5. CASE ~ (few <= b)
  <2>1. few - b \in Nat
    BY <1>1, <1>5
  <2>2. \A i \in E : Cardinality(Ahead(i, R, S)) < few <=> Cardinality(Ahead(i, R, E)) < few - b
    BY <1>1, <1>2
  <2>3. alike = Leading(R, E, few - b)
    BY <1>3, <2>2 DEF Leading
  <2>4. InLine(R, E)
    BY InLinePart
  <2>5. Cardinality(Leading(R, E, few - b))
          = IF few - b <= Cardinality(E) THEN few - b ELSE Cardinality(E)
    BY <1>1, <2>1, <2>4, HowManyLead
  <2> HIDE DEF alike
  <2>6. Cardinality(alike) = IF few - b < Cardinality(E) THEN few - b ELSE Cardinality(E)
    <3>1. Cardinality(alike) = IF few - b <= Cardinality(E) THEN few - b ELSE Cardinality(E)
      BY <2>3, <2>5
    <3> QED
      BY <1>1, <2>1, <3>1
  <2> QED
    BY <1>5, <2>6 DEF Taken, b, alike
<1> QED
  BY <1>4, <1>5

-----------------------------------------------------------------------------
(* Differentials d, by place, in the order sorting gives them, and in the  *)
(* reverse of it.                                                          *)
Sorted(d) == {p \in (DOMAIN d) \X (DOMAIN d) : Before(d, p[1], p[2])}
Reversed(d) == {p \in (DOMAIN d) \X (DOMAIN d) : Before(d, p[2], p[1])}

IsRecord(d) ==
    DOMAIN d \subseteq Int /\ IsFiniteSet(DOMAIN d) /\ \A i \in DOMAIN d : d[i] \in Int

LEMMA SortedPairs ==
  ASSUME NEW d, NEW i \in DOMAIN d, NEW j \in DOMAIN d
  PROVE  /\ <<i, j>> \in Sorted(d) <=> Before(d, i, j)
         /\ <<i, j>> \in Reversed(d) <=> Before(d, j, i)
<1>0. <<i, j>> \in (DOMAIN d) \X (DOMAIN d)
  OBVIOUS
<1>1. <<i, j>>[1] = i /\ <<i, j>>[2] = j
  OBVIOUS
<1> DEFINE p == <<i, j>>
<1> HIDE DEF p
<1>2. p \in (DOMAIN d) \X (DOMAIN d) /\ p[1] = i /\ p[2] = j
  BY <1>0, <1>1 DEF p
<1>3. p \in Sorted(d) <=> Before(d, i, j)
  BY <1>2 DEF Sorted
<1>4. p \in Reversed(d) <=> Before(d, j, i)
  BY <1>2 DEF Reversed
<1> QED
  BY <1>3, <1>4 DEF p

LEMMA SortedInLine ==
  ASSUME NEW d, IsRecord(d)
  PROVE  /\ InLine(Sorted(d), DOMAIN d) /\ InLine(Reversed(d), DOMAIN d)
         /\ \A few : Lowest(d, few) = Leading(Sorted(d), DOMAIN d, few)
         /\ \A few : Highest(d, few) = Leading(Reversed(d), DOMAIN d, few)
<1>1. /\ \A i, j \in DOMAIN d : <<i, j>> \in Sorted(d) <=> Before(d, i, j)
      /\ \A i, j \in DOMAIN d : <<i, j>> \in Reversed(d) <=> Before(d, j, i)
  BY SortedPairs
<1>2. /\ \A i, j \in DOMAIN d : Before(d, i, j) => ~ Before(d, j, i)
      /\ \A i, j \in DOMAIN d : i # j => Before(d, i, j) \/ Before(d, j, i)
      /\ \A i, j, k \in DOMAIN d : Before(d, i, j) /\ Before(d, j, k) => Before(d, i, k)
  BY DEF IsRecord, Before
<1>3. InLine(Sorted(d), DOMAIN d) /\ InLine(Reversed(d), DOMAIN d)
  BY <1>1, <1>2 DEF InLine
<1>4. \A i \in DOMAIN d : /\ Ahead(i, Sorted(d), DOMAIN d) = {j \in DOMAIN d : Before(d, j, i)}
                          /\ Ahead(i, Reversed(d), DOMAIN d) = {j \in DOMAIN d : Before(d, i, j)}
  BY <1>1 DEF Ahead
<1> QED
  BY <1>3, <1>4 DEF Lowest, Highest, Leading

ValuesOf(d) == {d[i] : i \in DOMAIN d}
Below(d, v) == {i \in DOMAIN d : d[i] < v}
EqualTo(d, v) == {i \in DOMAIN d : d[i] = v}
Above(d, v) == {i \in DOMAIN d : d[i] > v}

LEMMA ValuesFinite ==
  ASSUME NEW d, IsRecord(d)
  PROVE  IsFiniteSet(ValuesOf(d)) /\ ValuesOf(d) \subseteq Int
<1> DEFINE f == [i \in DOMAIN d |-> d[i]]
<1>1. f \in Surjection(DOMAIN d, ValuesOf(d))
  BY DEF Surjection, ValuesOf
<1> HIDE DEF f
<1> QED
  BY <1>1, FS_Surjection DEF IsRecord, ValuesOf

LEMMA LowestSum ==
  ASSUME NEW d, IsRecord(d), NEW few \in Nat, NEW g, DOMAIN g = ValuesOf(d),
         \A v \in ValuesOf(d) :
            g[v] = v * Taken(few, Cardinality(Below(d, v)), Cardinality(EqualTo(d, v)))
  PROVE  SumFunctionOnSet(d, Lowest(d, few)) = SumFunction(g)
<1> DEFINE low == Lowest(d, few)
<1>1. IsFiniteSet(low) /\ low \subseteq DOMAIN d
  BY FS_Subset DEF Lowest, IsRecord
<1>2. ASSUME NEW v \in ValuesOf(d)  PROVE g[v] = v * Cardinality(SentTo(v, d, low))
  <2>1. \A i \in EqualTo(d, v) :
           Ahead(i, Sorted(d), DOMAIN d) = Below(d, v) \cup Ahead(i, Sorted(d), EqualTo(d, v))
    <3> SUFFICES ASSUME NEW i \in EqualTo(d, v), NEW j \in DOMAIN d
                 PROVE  j \in Ahead(i, Sorted(d), DOMAIN d)
                          <=> j \in Below(d, v) \/ j \in Ahead(i, Sorted(d), EqualTo(d, v))
      BY DEF Ahead, Below, EqualTo
    <3>1. i \in DOMAIN d /\ d[i] = v /\ d[i] \in Int /\ d[j] \in Int
      BY DEF EqualTo, IsRecord
    <3>2. <<j, i>> \in Sorted(d) <=> Before(d, j, i)
      BY <3>1, SortedPairs
    <3>3. Before(d, j, i) <=> j \in Below(d, v) \/ (j \in EqualTo(d, v) /\ Before(d, j, i))
      BY <3>1 DEF Before, Below, EqualTo
    <3>4. EqualTo(d, v) \subseteq DOMAIN d
      BY DEF EqualTo
    <3> QED
      BY <3>2, <3>3, <3>4 DEF Ahead
  <2>2. Below(d, v) \cap EqualTo(d, v) = {}
    BY DEF Below, EqualTo, IsRecord
  <2>3. Below(d, v) \subseteq DOMAIN d /\ EqualTo(d, v) \subseteq DOMAIN d
    BY DEF Below, EqualTo
  <2>4. Cardinality({i \in Leading(Sorted(d), DOMAIN d, few) : i \in EqualTo(d, v)})
          = Taken(few, Cardinality(Below(d, v)), Cardinality(EqualTo(d, v)))
    <3>1. IsFiniteSet(DOMAIN d) /\ InLine(Sorted(d), DOMAIN d)
      BY SortedInLine DEF IsRecord
    <3> QED
      BY <2>1, <2>2, <2>3, <3>1, LeadersAlike
  <2>5. SentTo(v, d, low) = {i \in Leading(Sorted(d), DOMAIN d, few) : i \in EqualTo(d, v)}
    BY <1>1, SortedInLine DEF SentTo, EqualTo
  <2> QED
    BY <2>4, <2>5
<1>3. \A i \in low : d[i] \in ValuesOf(d)
  BY <1>1 DEF ValuesOf
<1> HIDE DEF low
<1>4. SumFunctionOnSet(d, low) = SumFunctionOnSet(g, ValuesOf(d))
  BY <1>1, <1>2, <1>3, ValuesFinite, SumByValue
<1> QED
  BY <1>4 DEF low, SumFunction

LEMMA HighestSum ==
  ASSUME NEW d, IsRecord(d), NEW few \in Nat, NEW g, DOMAIN g = ValuesOf(d),
         \A v \in ValuesOf(d) :
            g[v] = v * Taken(few, Cardinality(Above(d, v)), Cardinality(EqualTo(d, v)))
  PROVE  SumFunctionOnSet(d, Highest(d, few)) = SumFunction(g)
<1> DEFINE high == Highest(d, few)
<1>1. IsFiniteSet(high) /\ high \subseteq DOMAIN d
  BY FS_Subset DEF Highest, IsRecord
<1>2. ASSUME NEW v \in ValuesOf(d)  PROVE g[v] = v * Cardinality(SentTo(v, d, high))
  <2>1. \A i \in EqualTo(d, v) :
           Ahead(i, Reversed(d), DOMAIN d) = Above(d, v) \cup Ahead(i, Reversed(d), EqualTo(d, v))
    <3> SUFFICES ASSUME NEW i \in EqualTo(d, v), NEW j \in DOMAIN d
                 PROVE  j \in Ahead(i, Reversed(d), DOMAIN d)
                          <=> j \in Above(d, v) \/ j \in Ahead(i, Reversed(d), EqualTo(d, v))
      BY DEF Ahead, Above, EqualTo
    <3>1. i \in DOMAIN d /\ d[i] = v /\ d[i] \in Int /\ d[j] \in Int
      BY DEF EqualTo, IsRecord
    <3>2. <<j, i>> \in Reversed(d) <=> Before(d, i, j)
      BY <3>1, SortedPairs
    <3>3. Before(d, i, j) <=> j \in Above(d, v) \/ (j \in EqualTo(d, v) /\ Before(d, i, j))
      BY <3>1 DEF Before, Above, EqualTo
    <3>4. EqualTo(d, v) \subseteq DOMAIN d
      BY DEF EqualTo
    <3> QED
      BY <3>2, <3>3, <3>4 DEF Ahead
  <2>2. Above(d, v) \cap EqualTo(d, v) = {}
    BY DEF Above, EqualTo, IsRecord
  <2>3. Above(d, v) \subseteq DOMAIN d /\ EqualTo(d, v) \subseteq DOMAIN d
    BY DEF Above, EqualTo
  <2>4. Cardinality({i \in Leading(Reversed(d), DOMAIN d, few) : i \in EqualTo(d, v)})
          = Taken(few, Cardinality(Above(d, v)), Cardinality(EqualTo(d, v)))
    <3>1. IsFiniteSet(DOMAIN d) /\ InLine(Reversed(d), DOMAIN d)
      BY SortedInLine DEF IsRecord
    <3> QED
      BY <2>1, <2>2, <2>3, <3>1, LeadersAlike
  <2>5. SentTo(v, d, high) = {i \in Leading(Reversed(d), DOMAIN d, few) : i \in EqualTo(d, v)}
    BY <1>1, SortedInLine DEF SentTo, EqualTo
  <2> QED
    BY <2>4, <2>5
<1>3. \A i \in high : d[i] \in ValuesOf(d)
  BY <1>1 DEF ValuesOf
<1> HIDE DEF high
<1>4. SumFunctionOnSet(d, high) = SumFunctionOnSet(g, ValuesOf(d))
  BY <1>1, <1>2, <1>3, ValuesFinite, SumByValue
<1> QED
  BY <1>4 DEF high, SumFunction

(* Rounded is as near as can be, and on the same side of zero.             *)
LEMMA RoundedNear ==
  ASSUME NEW a \in Int, NEW b \in 1..12
  PROVE  /\ Rounded(a, b) \in Int
         /\ 2 * (b * Rounded(a, b) - a) <= b /\ 2 * (a - b * Rounded(a, b)) <= b
         /\ a >= 0 => Rounded(a, b) >= 0 /\ 2 * (a - b * Rounded(a, b)) < b
         /\ a < 0 => Rounded(a, b) <= 0 /\ 2 * (b * Rounded(a, b) - a) < b
<1>1. b = 1 \/ b = 2 \/ b = 3 \/ b = 4 \/ b = 5 \/ b = 6 \/ b = 7 \/ b = 8
      \/ b = 9 \/ b = 10 \/ b = 11 \/ b = 12
  OBVIOUS
<1>2. CASE a >= 0
  BY <1>1, <1>2 DEF Rounded
<1>3. CASE a < 0
  BY <1>1, <1>3 DEF Rounded
<1> QED
  BY <1>2, <1>3

(* A smaller mean is not rounded to more.                                  *)
LEMMA RoundedInOrder ==
  ASSUME NEW a \in Int, NEW b \in Int, NEW k \in 1..12, NEW w \in 1..12, w * a <= k * b
  PROVE  Rounded(a, k) <= Rounded(b, w)
<1> DEFINE x == Rounded(a, k)
           y == Rounded(b, w)
<1> SUFFICES x <= y
  OBVIOUS
<1>1. /\ x \in Int /\ 2 * (k * x - a) <= k
      /\ a < 0 => x <= 0 /\ 2 * (k * x - a) < k
  BY RoundedNear
<1>2. /\ y \in Int /\ 2 * (b - w * y) <= w
      /\ b >= 0 => y >= 0 /\ 2 * (b - w * y) < w
  BY RoundedNear
<1> HIDE DEF x, y
<1>3. w * (2 * (k * x - a)) = 2 * (w * (k * x)) - 2 * (w * a) /\ k * w = w * k
  BY <1>1
<1>4. k * (2 * (b - w * y)) = 2 * (k * b) - 2 * (k * (w * y))
  BY <1>2
<1>5. w * (k * x) = (w * k) * x /\ k * (w * y) = (w * k) * y
  BY <1>1, <1>2
<1>6. w * (2 * (k * x - a)) <= w * k /\ k * (2 * (b - w * y)) <= k * w
  BY <1>1, <1>2
<1> DEFINE both == w * k
           X == both * x
           Y == both * y
           wa == w * a
           kb == k * b
<1>7. both \in Int /\ X \in Int /\ Y \in Int /\ wa \in Int /\ kb \in Int /\ wa <= kb
  BY <1>1, <1>2
<1>8. ASSUME X - Y < both  PROVE x <= y
  <2>1. both >= 1 /\ X - Y = both * (x - y)
    BY <1>1, <1>2
  <2>2. CASE x - y >= 1
    <3>1. both * (x - y) >= both
      BY <1>1, <1>2, <1>7, <2>1, <2>2
    <3> HIDE DEF both, X, Y
    <3> QED
      BY <1>7, <1>8, <2>1, <3>1
  <2> QED
    BY <1>1, <1>2, <2>2
<1>9. 2 * X - 2 * wa <= both /\ 2 * kb - 2 * Y <= both
  BY <1>3, <1>4, <1>5, <1>6
<1>10. CASE b >= 0 \/ a < 0
  <2>1. CASE b >= 0 /\ a >= 0
    <3>1. k * (2 * (b - w * y)) < k * w
      BY <1>2, <2>1
    <3>2. 2 * kb - 2 * Y < both
      BY <1>3, <1>4, <1>5, <3>1
    <3> HIDE DEF both, X, Y, wa, kb
    <3> QED
      BY <1>7, <1>8, <1>9, <3>2
  <2>2. CASE a < 0 /\ b < 0
    <3>1. w * (2 * (k * x - a)) < w * k
      BY <1>1, <2>2
    <3>2. 2 * X - 2 * wa < both
      BY <1>3, <1>5, <3>1
    <3> HIDE DEF both, X, Y, wa, kb
    <3> QED
      BY <1>7, <1>8, <1>9, <3>2
  <2>3. CASE a < 0 /\ b >= 0
    <3>1. x <= 0 /\ 0 <= y
      BY <1>1, <1>2, <2>3
    <3> QED
      BY <1>1, <1>2, <3>1
  <2> QED
    BY <1>10, <2>1, <2>2, <2>3
<1>11. CASE a >= 0 /\ b < 0
  <2>1. w * a >= 0 /\ k * b < 0
    BY <1>11
  <2> QED
    BY <2>1
<1> QED
  BY <1>10, <1>11

(* Means of few, of all, and of others compare as their totals do.         *)
LEMMA MeansCompare ==
  ASSUME NEW low \in Int, NEW high \in Int, NEW all \in Int,
         NEW n \in Nat, n # 0, NEW k \in Nat, NEW w \in Nat,
         n * low <= k * all, w * all <= n * high
  PROVE  w * low <= k * high
<1>1. w * (n * low) <= w * (k * all) /\ k * (w * all) <= k * (n * high)
  OBVIOUS
<1>2. w * (k * all) = k * (w * all)
  OBVIOUS
<1>3. w * (n * low) = n * (w * low) /\ k * (n * high) = n * (k * high)
  OBVIOUS
<1>4. n * (w * low) <= n * (k * high)
  BY <1>1, <1>2, <1>3
<1> QED
  BY <1>4

(* The table averages at most half of them, and adds nothing.              *)
LEMMA TableFits ==
  ASSUME NEW n \in Nat, n >= 3
  PROVE  /\ HandicapUsing(n).using \in 1..8 /\ 2 * HandicapUsing(n).using <= n
         /\ HandicapUsing(n).adjustment \in Int /\ HandicapUsing(n).adjustment <= 0
<1>1. CASE n \in 3..19
  <2>1. n = 3 \/ n = 4 \/ n = 5 \/ n = 6 \/ n \in 7..8 \/ n \in 9..11
        \/ n \in 12..14 \/ n \in 15..16 \/ n \in 17..18 \/ n = 19
    BY <1>1
  <2> QED
    BY <2>1 DEF HandicapUsing
<1>2. CASE n >= 20
  BY <1>2 DEF HandicapUsing
<1> QED
  BY <1>1, <1>2

(* Counted below, at and above a value, all are counted once.              *)
LEMMA CountedByValue ==
  ASSUME NEW d, IsRecord(d), NEW v \in Int
  PROVE  /\ Cardinality(Above(d, v))
              = Cardinality(DOMAIN d) - Cardinality(Below(d, v)) - Cardinality(EqualTo(d, v))
         /\ Cardinality(DOMAIN d) \in Nat
<1> DEFINE B == Below(d, v)
           E == EqualTo(d, v)
           A == Above(d, v)
<1>1. IsFiniteSet(A) /\ IsFiniteSet(B) /\ IsFiniteSet(E) /\ IsFiniteSet(DOMAIN d)
  BY FS_Subset DEF Above, Below, EqualTo, IsRecord
<1>2. B \cap E = {} /\ (B \cup E) \cap A = {} /\ (B \cup E) \cup A = DOMAIN d
  BY DEF Above, Below, EqualTo, IsRecord
<1> HIDE DEF A, B, E
<1>3. /\ IsFiniteSet(B \cup E)
      /\ Cardinality(B \cup E) = Cardinality(B) + Cardinality(E) - Cardinality(B \cap E)
  BY <1>1, FS_Union
<1>4. Cardinality((B \cup E) \cup A)
        = Cardinality(B \cup E) + Cardinality(A) - Cardinality((B \cup E) \cap A)
  BY <1>1, <1>3, FS_Union
<1>5. /\ Cardinality(DOMAIN d)
           = Cardinality(B \cup E) + Cardinality(A) - Cardinality((B \cup E) \cap A)
      /\ Cardinality(B \cap E) = 0 /\ Cardinality((B \cup E) \cap A) = 0
  BY <1>2, <1>4, FS_EmptySet
<1>6. /\ Cardinality(A) \in Nat /\ Cardinality(B) \in Nat /\ Cardinality(E) \in Nat
      /\ Cardinality(B \cup E) \in Nat /\ Cardinality(DOMAIN d) \in Nat
  BY <1>1, <1>3, FS_CardinalityType
<1> QED
  BY <1>3, <1>5, <1>6 DEF A, B, E

(* The mean of the lowest is at most the mean of all, and that at most the *)
(* mean of the highest.                                                    *)
LEMMA MeansOfExtremes ==
  ASSUME NEW d, IsRecord(d), NEW few \in Nat, 1 <= few, few <= Cardinality(DOMAIN d)
  PROVE  /\ SumFunctionOnSet(d, DOMAIN d) \in Int
         /\ SumFunctionOnSet(d, Lowest(d, few)) \in Int
         /\ SumFunctionOnSet(d, Highest(d, few)) \in Int
         /\ Cardinality(DOMAIN d) * SumFunctionOnSet(d, Lowest(d, few))
              <= few * SumFunctionOnSet(d, DOMAIN d)
         /\ few * SumFunctionOnSet(d, DOMAIN d)
              <= Cardinality(DOMAIN d) * SumFunctionOnSet(d, Highest(d, few))
<1> DEFINE D == DOMAIN d
           low == Lowest(d, few)
           high == Highest(d, few)
           zero == [i \in D |-> 0]
           minus == [i \in D |-> -d[i]]
<1>1. /\ IsFiniteSet(D) /\ low \subseteq D /\ high \subseteq D
      /\ \A i \in D : d[i] \in Int /\ minus[i] \in Int /\ zero[i] = 0
  BY DEF IsRecord, Lowest, Highest
<1>2. IsFiniteSet(low) /\ IsFiniteSet(high) /\ Cardinality(D) \in Nat
  BY <1>1, FS_Subset, FS_CardinalityType
<1>3. /\ InLine(Sorted(d), D) /\ low = Leading(Sorted(d), D, few)
      /\ InLine(Reversed(d), D) /\ high = Leading(Reversed(d), D, few)
  BY SortedInLine
<1>4. ASSUME NEW i \in D, NEW j \in D
      PROVE  /\ <<i, j>> \in Sorted(d) => d[i] <= d[j]
             /\ <<i, j>> \in Reversed(d) => minus[i] <= minus[j]
  BY <1>1, SortedPairs DEF Before
<1>5. ASSUME NEW S \in SUBSET D
      PROVE  /\ SumFunctionOnSet(d, S) \in Int
             /\ SumFunctionOnSet(minus, S) = -SumFunctionOnSet(d, S)
  <2>1. /\ IsFiniteSet(S)
        /\ \A i \in S : d[i] \in Int /\ minus[i] \in Int /\ zero[i] = d[i] + minus[i] /\ zero[i] = 0
    BY <1>1, FS_Subset
  <2> HIDE DEF zero, minus
  <2>2. SumFunctionOnSet(zero, S) = SumFunctionOnSet(d, S) + SumFunctionOnSet(minus, S)
    BY <2>1, SumOfBoth
  <2>3. SumFunctionOnSet(zero, S) = 0 * Cardinality(S) /\ Cardinality(S) \in Nat
    BY <2>1, SumOfSame, FS_CardinalityType
  <2>4. SumFunctionOnSet(d, S) \in Int /\ SumFunctionOnSet(minus, S) \in Int
    BY <2>1, SumType
  <2> QED
    BY <2>2, <2>3, <2>4
<1> HIDE DEF D, low, high, minus, zero
<1>6. Cardinality(D) * SumFunctionOnSet(d, low) <= few * SumFunctionOnSet(d, D)
  BY <1>1, <1>3, <1>4, LeadersAreLess DEF D
<1>7. Cardinality(D) * SumFunctionOnSet(minus, high) <= few * SumFunctionOnSet(minus, D)
  BY <1>1, <1>3, <1>4, LeadersAreLess DEF D
<1>8. /\ SumFunctionOnSet(d, D) \in Int /\ SumFunctionOnSet(d, low) \in Int
      /\ SumFunctionOnSet(d, high) \in Int
      /\ SumFunctionOnSet(minus, high) = -SumFunctionOnSet(d, high)
      /\ SumFunctionOnSet(minus, D) = -SumFunctionOnSet(d, D)
  BY <1>1, <1>5
<1>9. few * SumFunctionOnSet(d, D) <= Cardinality(D) * SumFunctionOnSet(d, high)
  BY <1>2, <1>7, <1>8
<1> QED
  BY <1>6, <1>8, <1>9 DEF D, low, high

-----------------------------------------------------------------------------
(* What is made of a record is its handicap, by place: d is a differential *)
(* or Nil, and f those of them that are of the record.                     *)
LEMMA HandicapSound ==
  ASSUME NEW d, NEW f, IsRecord(f), \A i \in DOMAIN f : f[i] = d[i],
         DOMAIN f = {i \in DOMAIN d :
                       /\ d[i] # Nil
                       /\ Cardinality({j \in DOMAIN d : j < i /\ d[j] # Nil}) < 20}
  PROVE  IsHandicapOf(HandicapFrom(f), d)
<1> DEFINE record == {i \in DOMAIN d : /\ d[i] # Nil
                                       /\ Cardinality({j \in DOMAIN d : j < i /\ d[j] # Nil}) < 20}
           values == {d[i] : i \in record}
           below == [v \in values |-> Cardinality({i \in record : d[i] < v})]
           equal == [v \in values |-> Cardinality({i \in record : d[i] = v})]
           n == Cardinality(record)
           taken(v, k, rank) ==
             IF k <= rank THEN 0 ELSE IF k - rank < equal[v] THEN k - rank ELSE equal[v]
           lows(k) == [v \in values |-> v * taken(v, k, below[v])]
           highs(k) == [v \in values |-> v * taken(v, k, n - below[v] - equal[v])]
           lowest(k) == SumFunction(lows(k))
           highest(k) == SumFunction(highs(k))
           near(x, total, k) == 2 * (k * x - total) <= k /\ 2 * (total - k * x) <= k
           using == HandicapUsing(n).using
           adjustment == HandicapUsing(n).adjustment
           worst == IF n < 12 THEN n ELSE 12
           h == HandicapFrom(f)
           sum(S) == SumFunctionOnSet(f, S)
<1>1. SUFFICES IF n = 0 THEN h = Nil
               ELSE /\ h.available = n
                    /\ (h.index = Nil) = (n < 3) /\ (h.antiCap = Nil) = (n < 3)
                    /\ n >= 3 =>
                         /\ near(h.index - adjustment, lowest(h.indexUsing), h.indexUsing)
                         /\ near(h.antiCap, highest(h.antiCapUsing), h.antiCapUsing)
                         /\ h.index <= h.antiCap
                         /\ 2 * h.indexUsing <= n /\ h.antiCapUsing <= 12
  BY Zenon DEF IsHandicapOf
<1>2. /\ DOMAIN f = record /\ ValuesOf(f) = values /\ n \in Nat /\ n = Cardinality(DOMAIN f)
      /\ \A i \in record : f[i] = d[i] /\ f[i] \in Int
  BY FS_CardinalityType DEF IsRecord, ValuesOf
<1> HIDE DEF record
<1>3. ASSUME NEW v \in values
      PROVE  /\ v \in Int
             /\ below[v] = Cardinality(Below(f, v)) /\ equal[v] = Cardinality(EqualTo(f, v))
             /\ n - below[v] - equal[v] = Cardinality(Above(f, v))
  <2>1. v \in Int
    BY <1>2
  <2>2. /\ {i \in record : d[i] < v} = Below(f, v)
        /\ {i \in record : d[i] = v} = EqualTo(f, v)
    BY <1>2 DEF Below, EqualTo
  <2>3. below[v] = Cardinality(Below(f, v)) /\ equal[v] = Cardinality(EqualTo(f, v))
    BY <2>2
  <2>4. Cardinality(Above(f, v))
          = Cardinality(DOMAIN f) - Cardinality(Below(f, v)) - Cardinality(EqualTo(f, v))
    BY <2>1, CountedByValue
  <2> HIDE DEF below, equal, n
  <2> QED
    BY <1>2, <2>1, <2>3, <2>4
<1>4. ASSUME NEW k \in Nat
      PROVE  lowest(k) = sum(Lowest(f, k)) /\ highest(k) = sum(Highest(f, k))
  <2>1. \A v \in ValuesOf(f) :
           lows(k)[v] = v * Taken(k, Cardinality(Below(f, v)), Cardinality(EqualTo(f, v)))
    BY <1>2, <1>3 DEF Taken
  <2>2. \A v \in ValuesOf(f) :
           highs(k)[v] = v * Taken(k, Cardinality(Above(f, v)), Cardinality(EqualTo(f, v)))
    BY <1>2, <1>3 DEF Taken
  <2>3. DOMAIN lows(k) = ValuesOf(f) /\ DOMAIN highs(k) = ValuesOf(f)
    BY <1>2
  <2> HIDE DEF lows, highs
  <2> QED
    BY <2>1, <2>2, <2>3, LowestSum, HighestSum
<1> HIDE DEF lowest, highest
<1>5. /\ n = 0 => h = Nil
      /\ n # 0 =>
           /\ h.available = n /\ h.indexUsing = using
           /\ h.index = IF n < 3 THEN Nil
                        ELSE Rounded(sum(Lowest(f, using)) + using * adjustment, using)
           /\ h.antiCapUsing = IF n < 3 THEN 0 ELSE worst
           /\ h.antiCap = IF n < 3 THEN Nil ELSE Rounded(sum(Highest(f, worst)), worst)
  BY <1>2 DEF HandicapFrom
<1>6. Nil \notin Int
  BY StatisticsAssumption
<1> HIDE DEF h, n
<1>7. CASE n < 3
  BY <1>2, <1>5, <1>7
<1>8. CASE n >= 3
  <2> DEFINE low == sum(Lowest(f, using))
             high == sum(Highest(f, worst))
             all == sum(record)
  <2>1. /\ using \in 1..8 /\ 2 * using <= n /\ adjustment \in Int /\ adjustment <= 0
        /\ worst \in 1..12 /\ worst <= n /\ worst <= 12
    BY <1>2, <1>8, TableFits
  <2> HIDE DEF using, adjustment, worst
  <2>2. /\ low \in Int /\ all \in Int /\ n * low <= using * all
    BY <1>2, <2>1, MeansOfExtremes
  <2>3. /\ high \in Int /\ worst * all <= n * high
    BY <1>2, <2>1, MeansOfExtremes
  <2>4. lowest(using) = low /\ highest(worst) = high
    BY <1>4, <2>1
  <2>5. /\ h.available = n /\ h.indexUsing = using /\ h.antiCapUsing = worst
        /\ h.index = Rounded(low + using * adjustment, using)
        /\ h.antiCap = Rounded(high, worst)
    BY <1>2, <1>5, <1>8
  <2> HIDE DEF low, high, all, sum
  <2>6. low + using * adjustment \in Int /\ using * adjustment <= 0 /\ using \in 1..12
    BY <2>1, <2>2
  <2>7. /\ h.index \in Int
        /\ 2 * (using * h.index - (low + using * adjustment)) <= using
        /\ 2 * ((low + using * adjustment) - using * h.index) <= using
    BY <2>1, <2>5, <2>6, RoundedNear
  <2>8. near(h.index - adjustment, low, using)
    <3>1. using * (h.index - adjustment) = using * h.index - using * adjustment
      BY <2>1, <2>7
    <3>2. using * h.index \in Int /\ using * adjustment \in Int
      BY <2>1, <2>7
    <3> QED
      BY <2>1, <2>2, <2>7, <3>1, <3>2
  <2>9. h.antiCap \in Int /\ near(h.antiCap, high, worst)
    BY <2>1, <2>3, <2>5, RoundedNear
  <2>10. h.index <= h.antiCap
    <3>1. worst * low <= using * high
      BY <1>2, <1>8, <2>1, <2>2, <2>3, MeansCompare
    <3>2. worst * (low + using * adjustment) <= using * high
      <4>1. worst * (low + using * adjustment) <= worst * low
        BY <2>1, <2>2, <2>6
      <4> QED
        BY <2>1, <2>2, <2>3, <2>6, <3>1, <4>1
    <3> QED
      BY <2>1, <2>3, <2>5, <2>6, <3>2, RoundedInOrder
  <2> QED
    BY <1>2, <1>6, <1>8, <2>1, <2>4, <2>5, <2>7, <2>8, <2>9, <2>10
<1> QED
  BY <1>2, <1>7, <1>8

(* However rounds change under an overview, the handicap it would give is  *)
(* that of the last twenty finished rounds with a differential, whatever   *)
(* window is asked for: its means are of the lowest and of the highest, and *)
(* index never passes anti-cap (differentialRecord, handicapFrom).         *)
THEOREM HandicapOfTheRecord == StatisticsSpec => []HandicapIsOfTheRecord
<1>1. ASSUME StatisticsInv  PROVE HandicapIsOfTheRecord
  <2> DEFINE points == Points
             places == Counted
             d == [i \in places |-> points[i].differential]
             record == DifferentialRecord(points, places)
             f == [i \in record |-> points[i].differential]
  <2>1. places \subseteq Int /\ IsFiniteSet(places)
    <3>1. Len(Newest) + past \in Int /\ 1 \in Int
      <4>1. past \in Pasts
        BY <1>1, StatisticsSound
      <4>2. past \in 0..Len(Older) /\ Len(Newest) \in Nat
        BY <4>1, StatisticsAssumption
      <4> QED
        BY <4>2
    <3>2. IsFiniteSet(1..(Len(Newest) + past))
      BY <3>1, FS_Interval
    <3>3. Counted \subseteq 1..(Len(Newest) + past)
      BY DEF Counted
    <3>4. 1..(Len(Newest) + past) \subseteq Int
      BY <3>1
    <3> QED
      BY <3>2, <3>3, <3>4, FS_Subset
  <2>2. \A i \in places : points[i].differential \in {Nil} \cup Int
    BY <1>1, StatisticsSound, PointsSound DEF IsPoint
  <2> HIDE DEF points, places
  <2>3. record = {i \in DOMAIN d : /\ d[i] # Nil
                                   /\ Cardinality({j \in DOMAIN d : j < i /\ d[j] # Nil}) < 20}
    <3> DEFINE with == {i \in places : points[i].differential # Nil}
    <3>1. record = {i \in with : Cardinality({j \in with : j < i}) < 20}
      BY DEF DifferentialRecord, Latest, WithDifferential, HandicapRecordSize
    <3>2. \A i : {j \in with : j < i} = {j \in DOMAIN d : j < i /\ d[j] # Nil}
      OBVIOUS
    <3>3. \A i : i \in with <=> i \in DOMAIN d /\ d[i] # Nil
      OBVIOUS
    <3> HIDE DEF with, d, record
    <3> QED
      BY <3>1, <3>2, <3>3
  <2>4. record \subseteq places /\ \A i \in record : points[i].differential # Nil
    BY DEF DifferentialRecord, Latest, WithDifferential
  <2>5. IsRecord(f) /\ DOMAIN f = record /\ \A i \in DOMAIN f : f[i] = d[i]
    <3>1. IsFiniteSet(record)
      BY <2>1, <2>4, FS_Subset
    <3> HIDE DEF record
    <3> QED
      BY <2>1, <2>2, <2>4, <3>1 DEF IsRecord
  <2>6. Handicap = HandicapFrom(f)
    BY DEF Handicap, points, places
  <2> HIDE DEF f, record, d
  <2>7. IsHandicapOf(HandicapFrom(f), d)
    BY <2>3, <2>5, HandicapSound
  <2> QED
    BY <2>6, <2>7 DEF HandicapIsOfTheRecord, points, places, d
<1> QED
  BY <1>1, StatisticsInvHolds, PTL
==============================================================================
