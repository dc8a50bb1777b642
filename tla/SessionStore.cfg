\* Two ids, two requests looking up concurrently; no symmetry, the run has a
\* liveness property.
CONSTANTS
    Sids = {sid1, sid2}
    Sessions = {alice, bob}
    Readers = {r1, r2}
    None = None
SPECIFICATION FairSpec
INVARIANTS
    TypeOK
    NoDeadHit
PROPERTIES
    LiveNeverEvicted
    TableSpec
    LapsedIsReclaimed
CHECK_DEADLOCK TRUE
