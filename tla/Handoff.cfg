CONSTANTS
    Session = {a, b}
    NoSession = NoSession
    Puller = {p}
    Cli = {c, d}
    MaxWrites = 2
    MaxTasks = 2
SYMMETRY Symmetry
SPECIFICATION Spec
INVARIANTS
    TypeOK
    BundleIsOneInstant
    NothingHalfTaken
    ArchivedWasSent
    OneLock
CONSTRAINT Apart
VIEW Seen
\* Writes and tasks are bounded.
CHECK_DEADLOCK FALSE
