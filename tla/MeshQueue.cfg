CONSTANTS
    p1 = p1
    p2 = p2
    a = a
    b = b
    Nobody = Nobody
    Phone = {p1, p2}
    Task = {a, b}
    ClientId <- SharedIds
    MaxStarts = 2
    MaxFaults = 1
SPECIFICATION LiveSpec
INVARIANTS
    TypeOK
    AnsweredInOrder
    DeliveredWasReceived
    DoneHasAnswer
    OneAnswerPerRun
    StoreOutlivesWorker
    RunningIsHeld
PROPERTIES
    PromiseKept
    RetiredUnlessAbandoned
    StopEnds
