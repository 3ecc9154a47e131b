CONSTANTS
    Buses = {system, session}
    Names = {known}
    Unique = {}
    Procs = {p1}
    Pids = {pid1}
    PidOf <- OwnPid
    NULL = NULL
    Retired = Retired
    SystemBus = system
    Peers = {o1}
    TimeoutSec = 1
    MaxHeld = 0
SPECIFICATION Spec
INVARIANT
    PublicBusIsBus
