SPECIFICATION Spec
SYMMETRY RoundSymmetry
CONSTANTS
    Holes = {h1, h2}
    Beyond = {x}
    Clubs = {c1}
    Others = {o}
    Metas = {m1, m2}
    Requests = {r1, r2}
    NoClub = NoClub
    NoMeta = NoMeta
INVARIANTS
    NotesSettleUnlessOvertaken
    StartKeepsWhatExists
    PlayedClubStays
    OnlyOwnClubs
