\* Two launches on either of two addresses, one task, no error.
SPECIFICATION Spec
CONSTANTS
    Address = {lan, vpn}
    FirstAddress = lan
    Task = {t}
    MaxLaunches = 2
    MaxFaults = 0
INVARIANTS
    FallbackFindsPortFree

\* The launches are bounded: in the end every process may be gone.
CHECK_DEADLOCK FALSE
