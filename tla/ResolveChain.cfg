\* Every set of rows and links on four ids; a session is inserted between
\* the statements of the call.  No symmetry, which liveness does not allow.
SPECIFICATION FairSpec
CONSTANTS
    Session = {s1, s2, s3, s4}
    NoParent = NoParent
    MaxInserts = 1
INVARIANTS
    NoRepeats
    ReturnsAll
    ReturnsNothingElse
PROPERTIES
    LooksUpConversation
    Returns
\* The call returns and nothing happens after it.
CHECK_DEADLOCK FALSE
