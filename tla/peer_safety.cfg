CONSTANTS
    Buses = {system}
    Names = {unique, known}
    Unique = {unique}
    Procs = {p1, p2, p3}
    Pids = {pid1, pid2}
    PidOf <- SharedPid
    NULL = NULL
    Retired = Retired
    SystemBus = system
    Peers = {o1, o2}
    TimeoutSec = 1
    MaxHeld = 1
SYMMETRY PeerSymmetry
SPECIFICATION Spec
INVARIANTS
    TypeOK
    RefsAccounted
    CallbacksMatchTable
    ConnectedIffUsed
    UniqueNameFresh
    PointersUsable
PROPERTIES
    SnapshotsImmutable
    ImplementsCache
