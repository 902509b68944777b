\* Two launches on either of two addresses, one task, one error.
SPECIFICATION LiveSpec
CONSTANTS
    Address = {lan, vpn}
    FirstAddress = lan
    Task = {t}
    MaxLaunches = 2
    MaxFaults = 1
INVARIANTS
    OneRunAtATime
    RunningIsHeld
    IdentityIsKept
    ConsoleIsFound
PROPERTY SomebodyServes
\* The launches are bounded: in the end every process may be gone.
CHECK_DEADLOCK FALSE
