\* The threads of the server's start, watch and stop, and three changes of the files.
CONSTANTS
    Names = {road, fallback}
    Hidden = {fallback}
    Fallback = fallback
    Absent = Absent
    MaxEdits = 3
SPECIFICATION Spec
INVARIANTS TypeOK DiesForCause
PROPERTIES KeepsPromise LockReleased StopEnds Converges
