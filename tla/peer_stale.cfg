CONSTANTS
    Buses = {system}
    Names = {known}
    Unique = {}
    Procs = {p1, p2}
    Pids = {pid1, pid2}
    PidOf <- OwnPid
    NULL = NULL
    Retired = Retired
    SystemBus = system
    Peers = {o1}
    TimeoutSec = 2
    MaxHeld = 0
SPECIFICATION FairSpec
PROPERTY
    StaleEvicted
