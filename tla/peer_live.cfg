CONSTANTS
    Buses = {system}
    Names = {unique1, unique2}
    Unique = {unique1, unique2}
    Procs = {p1, p2}
    Pids = {pid1}
    PidOf <- OnePid
    NULL = NULL
    Retired = Retired
    SystemBus = system
    Peers = {o1, o2}
    TimeoutSec = 2
    MaxHeld = 0
SPECIFICATION FairSpec
PROPERTIES
    Drains
    StaleEvicted
