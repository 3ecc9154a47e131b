CONSTANTS
    Buses = {system}
    Names = {unique, known}
    Unique = {unique}
    Procs = {p1, p2, p3}
    Pids = {pid1, pid2}
    PidOf <- SharedPid
    NULL = NULL
    Retired = Retired
    SystemBus = system
    Peers = {o1, o2}
    TimeoutSec = 1
    MaxHeld = 0
SPECIFICATION ToolFairSpec
CHECK_DEADLOCK FALSE
INVARIANTS
    AssertionHolds
    PeerUsable
    LeavesNothing
PROPERTY
    Terminates
