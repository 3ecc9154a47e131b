------------------------------- MODULE DAPeer -------------------------------
(***************************************************************************)
(* The cache of peer credentials, src/src/dbusaccess_peer.c.               *)
(*                                                                         *)
(* da_peer_get asks the bus daemon for the pid behind a name, reads the    *)
(* credentials from /proc/<pid>/status and keeps them in a table per bus.  *)
(* An entry leaves the table when it has not been asked for during         *)
(* DBUSACCESS_PEER_TIMEOUT_SEC, when its name vanishes from the bus, or    *)
(* when the application flushes it.  The table holds one reference to each *)
(* entry; the application may take its own with da_peer_ref, from any      *)
(* thread.  Everything else runs in the thread of the main loop, which     *)
(* stands still while da_peer_get is blocked; the processes, the daemons,  *)
(* the clock and the other threads do not.                                 *)
(*                                                                         *)
(* A peer is identified with its address, so that an address can be freed  *)
(* and allocated again while something still points to it.  timer and      *)
(* watch are the sources that GLib holds on behalf of an address: they     *)
(* outlive the object unless the code removes them.                        *)
(***************************************************************************)
EXTENDS Integers, DBus

CONSTANTS
    SystemBus,      \* DA_BUS_SYSTEM, the zero of its enumeration
    Peers,          \* addresses of DAPeerPriv objects
    TimeoutSec,     \* DBUSACCESS_PEER_TIMEOUT_SEC
    MaxHeld         \* bound: references the application takes on one peer

\* What is stored in a peer.  pub is the field bus of the public structure, bus
\* stands for the private pointer.
PeerData ==
    [bus : Buses, name : Names, pub : Buses, cred : Procs \cup {NULL}]

ASSUME PeerAssumption ==
    /\ SystemBus \in Buses
    /\ NULL \notin Peers \cup PeerData
    /\ TimeoutSec \in Nat \ {0}
    /\ MaxHeld \in Nat

VARIABLES
    connection, \* connection[b]: bus->connection (and bus->peers) exist
    peers,      \* peers[b][n]: the entry of n in bus->peers, or NULL
    refs,       \* refs[o]: priv->ref_count, 0 for an address that is free
    data,       \* data[o]: what is stored at o, NULL for a free address
    timer,      \* timer[o]: seconds left of the timeout whose argument is o
    watch,      \* watch[o]: state of the name watch whose argument is o
    call,       \* the da_peer_get in progress
    borrowed,   \* peers that da_peer_get returned to the running callback
    held        \* held[o]: references that the application owns

peerVars ==
    <<connection, peers, refs, data, timer, watch, call, borrowed, held>>
vars == <<busVars, peerVars>>

NoTimer == -1
Idle == [pc |-> "idle", bus |-> NULL, name |-> NULL, obj |-> NULL, pid |-> NULL]

Call ==
    {Idle}
    \cup [pc : {"asking"}, bus : Buses, name : Names, obj : {NULL}, pid : {NULL}]
    \cup [pc : {"reading"}, bus : Buses, name : Names, obj : Peers, pid : Pids]

TypeOK ==
    /\ DBusTypeOK
    /\ connection \in [Buses -> BOOLEAN]
    /\ peers \in [Buses -> [Names -> Peers \cup {NULL}]]
    /\ refs \in [Peers -> Nat]
    /\ data \in [Peers -> PeerData \cup {NULL}]
    /\ timer \in [Peers -> {NoTimer} \cup 0 .. TimeoutSec]
    /\ watch \in [Peers -> {"off", "requested", "watching", "vanishing"}]
    /\ call \in Call
    /\ borrowed \in SUBSET Peers
    /\ held \in [Peers -> 0 .. MaxHeld]

Init ==
    /\ DBusInit
    /\ connection = [b \in Buses |-> FALSE]
    /\ peers = [b \in Buses |-> [n \in Names |-> NULL]]
    /\ refs = [o \in Peers |-> 0]
    /\ data = [o \in Peers |-> NULL]
    /\ timer = [o \in Peers |-> NoTimer]
    /\ watch = [o \in Peers |-> "off"]
    /\ call = Idle
    /\ borrowed = {}
    /\ held = [o \in Peers |-> 0]

-----------------------------------------------------------------------------
(* What the handlers are made of.                                          *)

\* One reference to each member of S is dropped (da_peer_unref): the last one
\* finalizes the object, which removes its timer and its watch and frees it.
\* The timers and watches of D are removed in any case (da_peer_dispose).
\* What is not freed contains d.
Release(S, D, d) ==
    LET freed == {o \in S : refs[o] = 1}
    IN  /\ refs' = [o \in Peers |-> IF o \in S THEN refs[o] - 1 ELSE refs[o]]
        /\ data' = [o \in Peers |-> IF o \in freed THEN NULL ELSE d[o]]
        /\ timer' = [o \in Peers |->
                        IF o \in freed \cup D THEN NoTimer ELSE timer[o]]
        /\ watch' = [o \in Peers |->
                        IF o \in freed \cup D THEN "off" ELSE watch[o]]

\* da_peer_bus: connect, unless there is a connection, and have a table.  (When
\* there is no connection to be had, da_peer_get returns NULL and nothing
\* changes.)
DaPeerBus(b) == connection' = [connection EXCEPT ![b] = TRUE]

\* Mutant of DaPeerCleanup: the connection is kept for the next call.
DaPeerCleanupNever(b) == UNCHANGED connection

\* The connection and the table are given up when the table is empty.
DaPeerCleanup(b) ==
    connection' = [connection EXCEPT
        ![b] = IF \A n \in Names : peers'[b][n] = NULL THEN FALSE ELSE @]

\* o stops being cached: the entry that the table has under o's name is
\* dropped with the table's reference to it.
DaPeerRemove(o) ==
    LET b == data[o].bus
        n == data[o].name
    IN  /\ Release({peers[b][n]} \ {NULL}, {o}, data)
        /\ peers' = [peers EXCEPT ![b][n] = NULL]
        /\ DaPeerCleanup(b)

\* Mutant of ResetTimeout: g_timeout_add, which counts milliseconds.
ResetTimeoutMsec(o) == timer' = [timer EXCEPT ![o] = 1000 * TimeoutSec]

ResetTimeout(o) == timer' = [timer EXCEPT ![o] = TimeoutSec]

\* Mutants of DaPeerNew: no name watch, no timer.
DaPeerNewNoWatch(o, b, n) ==
    /\ refs[o] = 0
    /\ refs' = [refs EXCEPT ![o] = 1]
    /\ data' = [data EXCEPT
            ![o] = [bus |-> b, name |-> n, pub |-> SystemBus, cred |-> NULL]]
    /\ ResetTimeout(o)
    /\ UNCHANGED watch

DaPeerNewNoTimer(o, b, n) ==
    /\ refs[o] = 0
    /\ refs' = [refs EXCEPT ![o] = 1]
    /\ data' = [data EXCEPT
            ![o] = [bus |-> b, name |-> n, pub |-> SystemBus, cred |-> NULL]]
    /\ UNCHANGED timer
    /\ watch' = [watch EXCEPT ![o] = "requested"]

\* A peer without credentials at a free address, with one reference, a timer
\* that runs and a name watch whose requests are sent.  The public field bus is
\* left zero.
DaPeerNew(o, b, n) ==
    /\ refs[o] = 0
    /\ refs' = [refs EXCEPT ![o] = 1]
    /\ data' = [data EXCEPT
            ![o] = [bus |-> b, name |-> n, pub |-> SystemBus, cred |-> NULL]]
    /\ ResetTimeout(o)
    /\ watch' = [watch EXCEPT ![o] = "requested"]

-----------------------------------------------------------------------------
(* da_peer_get.                                                            *)

\* The name is cached: the entry gets a new lease and is returned.  The caller
\* gets no reference.
DaPeerGetHit(b, n) ==
    /\ call = Idle
    /\ peers[b][n] # NULL
    /\ ResetTimeout(peers[b][n])
    /\ borrowed' = borrowed \cup {peers[b][n]}
    /\ UNCHANGED <<busVars, connection, peers, refs, data, watch, call, held>>

\* Mutant of DaPeerGetMiss: the table is not consulted.
DaPeerGetMissAlways(b, n) ==
    /\ call = Idle
    /\ DaPeerBus(b)
    /\ call' = [Idle EXCEPT !.pc = "asking", !.bus = b, !.name = n]
    /\ UNCHANGED <<busVars, peers, refs, data, timer, watch, borrowed, held>>

\* The name is not cached: connect if needed and block in
\* GetConnectionUnixProcessID.
DaPeerGetMiss(b, n) ==
    /\ call = Idle
    /\ peers[b][n] = NULL
    /\ DaPeerBus(b)
    /\ call' = [Idle EXCEPT !.pc = "asking", !.bus = b, !.name = n]
    /\ UNCHANGED <<busVars, peers, refs, data, timer, watch, borrowed, held>>

\* The daemon answers with the pid of the current owner, and the peer is made
\* before da_peer_fill_cred goes for /proc.
DaPeerGetReply(o) ==
    /\ call.pc = "asking"
    /\ owner[call.bus][call.name] \in Procs
    /\ DaPeerNew(o, call.bus, call.name)
    /\ call' = [call EXCEPT !.pc = "reading", !.obj = o,
                            !.pid = PidOf[owner[call.bus][call.name]]]
    /\ UNCHANGED <<busVars, connection, peers, borrowed, held>>

\* The daemon does not know the name, or there is no answer in time.
DaPeerGetError ==
    /\ call.pc = "asking"
    /\ call' = Idle
    /\ UNCHANGED peers
    /\ DaPeerCleanup(call.bus)
    /\ UNCHANGED <<busVars, refs, data, timer, watch, borrowed, held>>

\* The processes that /proc/<pid> may show.
ProcStatus(pid) == {p \in Procs : Alive(p) /\ PidOf[p] = pid}

\* The status file is read and parsed, and the peer is cached; an entry that is
\* already there would be replaced.
DaPeerFillCred(p) ==
    LET o == call.obj
        b == call.bus
        n == call.name
    IN  /\ call.pc = "reading"
        /\ p \in ProcStatus(call.pid)
        /\ Release({peers[b][n]} \ {NULL}, {}, [data EXCEPT ![o].cred = p])
        /\ peers' = [peers EXCEPT ![b][n] = o]
        /\ borrowed' = borrowed \cup {o}
        /\ call' = Idle
        /\ UNCHANGED <<busVars, connection, held>>

\* Mutants of DaPeerFillFail: the reference is not dropped; the result of
\* da_peer_fill_cred is ignored.
DaPeerFillFailLeak ==
    /\ call.pc = "reading"
    /\ call' = Idle
    /\ UNCHANGED peers
    /\ DaPeerCleanup(call.bus)
    /\ UNCHANGED <<busVars, refs, data, timer, watch, borrowed, held>>

DaPeerFillFailIgnored ==
    /\ call.pc = "reading"
    /\ peers' = [peers EXCEPT ![call.bus][call.name] = call.obj]
    /\ borrowed' = borrowed \cup {call.obj}
    /\ call' = Idle
    /\ UNCHANGED <<busVars, connection, refs, data, timer, watch, held>>

\* There is no such file (any more), or it cannot be read or parsed: the new
\* peer is dropped again.
DaPeerFillFail ==
    /\ call.pc = "reading"
    /\ Release({call.obj}, {}, data)
    /\ call' = Idle
    /\ UNCHANGED peers
    /\ DaPeerCleanup(call.bus)
    /\ UNCHANGED <<busVars, borrowed, held>>

-----------------------------------------------------------------------------
(* The rest of the interface.                                              *)

\* The application keeps a pointer that it was given, or copies one that it
\* holds.  The count is atomic: any thread may do this at any time.
DaPeerRef(o) ==
    /\ o \in borrowed \/ held[o] > 0
    /\ held[o] < MaxHeld
    /\ refs' = [refs EXCEPT ![o] = @ + 1]
    /\ held' = [held EXCEPT ![o] = @ + 1]
    /\ UNCHANGED <<busVars, connection, peers, data, timer, watch, call, borrowed>>

DaPeerUnref(o) ==
    /\ held[o] > 0
    /\ Release({o}, {}, data)
    /\ held' = [held EXCEPT ![o] = @ - 1]
    /\ UNCHANGED <<busVars, connection, peers, call, borrowed>>

\* da_peer_flush of one name.
DaPeerFlush(b, n) ==
    /\ call = Idle
    /\ connection[b]
    /\ peers[b][n] # NULL
    /\ DaPeerRemove(peers[b][n])
    /\ borrowed' = borrowed \ {peers[b][n]}
    /\ UNCHANGED <<busVars, call, held>>

\* Mutant of DaPeerFlushAll: the table is emptied without da_peer_dispose.
DaPeerFlushAllNoDispose(b) ==
    LET all == {peers[b][n] : n \in Names} \ {NULL}
    IN  /\ call = Idle
        /\ connection[b]
        /\ Release(all, {}, data)
        /\ peers' = [peers EXCEPT ![b] = [n \in Names |-> NULL]]
        /\ DaPeerCleanup(b)
        /\ borrowed' = borrowed \ all
        /\ UNCHANGED <<busVars, call, held>>

\* da_peer_flush of a whole bus.
DaPeerFlushAll(b) ==
    LET all == {peers[b][n] : n \in Names} \ {NULL}
    IN  /\ call = Idle
        /\ connection[b]
        /\ Release(all, all, data)
        /\ peers' = [peers EXCEPT ![b] = [n \in Names |-> NULL]]
        /\ DaPeerCleanup(b)
        /\ borrowed' = borrowed \ all
        /\ UNCHANGED <<busVars, call, held>>

-----------------------------------------------------------------------------
(* Callbacks from the main loop.  A pointer that the application borrowed  *)
(* in its own callback is not used after that callback has returned.       *)

\* Mutant of DaPeerTimeout: the blocking call runs the main loop.
DaPeerTimeoutNested(o) ==
    /\ timer[o] = 0
    /\ DaPeerRemove(o)
    /\ UNCHANGED <<busVars, call, borrowed, held>>

DaPeerTimeout(o) ==
    /\ call = Idle
    /\ timer[o] = 0
    /\ DaPeerRemove(o)
    /\ borrowed' = {}
    /\ UNCHANGED <<busVars, call, held>>

DaPeerVanished(o) ==
    /\ call = Idle
    /\ watch[o] = "vanishing"
    /\ DaPeerRemove(o)
    /\ borrowed' = {}
    /\ UNCHANGED <<busVars, call, held>>

-----------------------------------------------------------------------------
(* The world moves, whether or not the library is blocked.                 *)

\* GLib's name watch, which sends AddMatch and GetNameOwner and calls
\* da_peer_vanished (in the main loop) when the answer is that there is no
\* owner, or when the owner changes after the answer.  Changes before the
\* answer are ignored.  The first call makes the library unwatch the name, so
\* one pending call is all there is to remember.
WatchAnswered(o) ==
    /\ watch[o] = "requested"
    /\ watch' = [watch EXCEPT
        ![o] = IF owner[data[o].bus][data[o].name] \in Procs
               THEN "watching" ELSE "vanishing"]
    /\ UNCHANGED <<busVars, connection, peers, refs, data, timer, call, borrowed, held>>

Notify(b, n) ==
    watch' = [o \in Peers |->
        IF /\ watch[o] = "watching"
           /\ data[o].bus = b
           /\ data[o].name = n
        THEN "vanishing" ELSE watch[o]]

NameAcquired(b, n, p) ==
    /\ RequestName(b, n, p)
    /\ Notify(b, n)
    /\ UNCHANGED <<connection, peers, refs, data, timer, call, borrowed, held>>

NameReleased(b, n) ==
    /\ ReleaseName(b, n)
    /\ Notify(b, n)
    /\ UNCHANGED <<connection, peers, refs, data, timer, call, borrowed, held>>

ProcStarts(p) == ProcStart(p) /\ UNCHANGED peerVars

ProcExits(p) == ProcExit(p) /\ UNCHANGED peerVars

\* One second passes.  A timer that has run down stays due until the main loop
\* gets to it.
Tick ==
    /\ \E o \in Peers : timer[o] > 0
    /\ timer' = [o \in Peers |-> IF timer[o] > 0 THEN timer[o] - 1 ELSE timer[o]]
    /\ UNCHANGED <<busVars, connection, peers, refs, data, watch, call, borrowed, held>>

-----------------------------------------------------------------------------

Get ==
    \/ \E b \in Buses, n \in Names : DaPeerGetHit(b, n) \/ DaPeerGetMiss(b, n)

GetStep ==
    \/ \E o \in Peers : DaPeerGetReply(o)
    \/ DaPeerGetError
    \/ \E p \in Procs : DaPeerFillCred(p)
    \/ DaPeerFillFail

Application ==
    \/ \E o \in Peers : DaPeerRef(o) \/ DaPeerUnref(o)
    \/ \E b \in Buses, n \in Names : DaPeerFlush(b, n)
    \/ \E b \in Buses : DaPeerFlushAll(b)

MainLoop == \E o \in Peers : DaPeerTimeout(o) \/ DaPeerVanished(o)

World ==
    \/ \E o \in Peers : WatchAnswered(o)
    \/ \E b \in Buses, n \in Names, p \in Procs : NameAcquired(b, n, p)
    \/ \E b \in Buses, n \in Names : NameReleased(b, n)
    \/ \E p \in Procs : ProcStarts(p) \/ ProcExits(p)
    \/ Tick

Next == Get \/ GetStep \/ Application \/ MainLoop \/ World

Spec == Init /\ [][Next]_vars

\* What may be relied on, beyond Spec:
\*   - the daemon answers and /proc can be read, so da_peer_get returns;
\*   - the daemon notices that the owner of a name is dead;
\*   - time passes;
\*   - the main loop dispatches every source that is due: GLib runs all the
\*     sources of one priority that are ready in an iteration, so a timer or a
\*     watch that is due again and again, between calls of da_peer_get that
\*     block the loop, gets its turn.  That is strong fairness.
\* Nothing is assumed of the application, nor of processes and names.
Fairness ==
    /\ WF_vars((\E o \in Peers : DaPeerGetReply(o)) \/ DaPeerGetError)
    /\ WF_vars((\E p \in Procs : DaPeerFillCred(p)) \/ DaPeerFillFail)
    /\ \A o \in Peers : WF_vars(WatchAnswered(o))
    /\ \A b \in Buses, n \in Names :
            WF_vars(~Alive(owner[b][n]) /\ NameReleased(b, n))
    /\ WF_vars(Tick)
    /\ \A o \in Peers : SF_vars(DaPeerTimeout(o)) /\ SF_vars(DaPeerVanished(o))

FairSpec == Spec /\ Fairness

-----------------------------------------------------------------------------
(* Safety.                                                                 *)

Cached(o) == \E b \in Buses, n \in Names : peers[b][n] = o

\* o has been allocated by the da_peer_get in progress.
Building(o) == call.pc = "reading" /\ call.obj = o

\* No reference is lost and none is dropped twice: an object is allocated as
\* long as the table, the da_peer_get in progress or the application (on any
\* thread) has a reference to it, and no longer.
RefsAccounted ==
    \A o \in Peers :
        refs[o] = held[o] + (IF Cached(o) \/ Building(o) THEN 1 ELSE 0)

\* The callbacks of GLib find what they expect: a timer or a watch exists for
\* exactly the peers that the table (or da_peer_get) still refers to, so
\* da_peer_remove never runs on freed memory, and never takes another peer's
\* entry out of the table for a peer that the application kept.
CallbacksMatchTable ==
    \A o \in Peers :
        /\ timer[o] # NoTimer \/ watch[o] # "off" =>
            /\ data[o] # NULL
            /\ Building(o) \/ peers[data[o].bus][data[o].name] = o
        /\ Cached(o) \/ Building(o) => timer[o] # NoTimer /\ watch[o] # "off"

\* The library is connected to a bus exactly as long as it has a peer of that
\* bus in its table or is looking for one.
ConnectedIffUsed ==
    \A b \in Buses :
        connection[b] <=> \/ call.pc # "idle" /\ call.bus = b
                          \/ \E n \in Names : peers[b][n] # NULL

\* The credentials cached for a unique name are those of its owner, unless that
\* process is gone: neither the kernel's reuse of pids between the answer of
\* the daemon and the reading of /proc, nor a connection that is lost between
\* the answer and the name watch, makes the library take one live client for
\* another.
UniqueNameFresh ==
    \A b \in Buses, n \in Unique :
        peers[b][n] # NULL /\ Alive(owner[b][n]) =>
            data[peers[b][n]].cred = owner[b][n]

\* The pointers of the application are good: what it holds a reference to has
\* its credentials, and what da_peer_get has lent to the running callback is
\* still the cached entry of its name ("the object can go away at any time"
\* means: in a later callback).
PointersUsable ==
    \A o \in Peers :
        /\ held[o] > 0 => data[o] # NULL /\ data[o].cred # NULL
        /\ o \in borrowed =>
            /\ data[o] # NULL
            /\ data[o].cred # NULL
            /\ peers[data[o].bus][data[o].name] = o

Immutable ==
    /\ \A b \in Buses, n \in Names :
        peers[b][n] # NULL => peers'[b][n] \in {peers[b][n], NULL}
    /\ \A o \in Peers :
        refs[o] > 0 /\ refs'[o] > 0 /\ data[o].cred # NULL => data'[o] = data[o]

\* A cached entry is not replaced, it is only evicted; and the contents of a
\* peer that has been published never change while someone refers to it.
SnapshotsImmutable == [][Immutable]_vars

\* The credentials in the table and the da_peer_get in progress, without the
\* objects that hold them.
CachedCred ==
    [b \in Buses |-> [n \in Names |->
        IF peers[b][n] = NULL THEN NULL ELSE data[peers[b][n]].cred]]

CallLookUp == [bus |-> call.bus, name |-> call.name, pid |-> call.pid]

Cache == INSTANCE PeerCache WITH cache <- CachedCred, lookup <- CallLookUp

\* Whatever happens to objects, references, timers, watches and connections,
\* the table behaves as the cache of PeerCache: credentials enter it only by a
\* look-up of their name, leave it only as whole entries while no look-up is
\* blocked, and are never those of an object that was freed or used again.
ImplementsCache == Cache!Spec

\* The field bus of a peer that da_peer_get returns tells its bus.
PublicBusIsBus ==
    \A o \in Peers : Cached(o) => data[o].pub = data[o].bus

-----------------------------------------------------------------------------
(* Liveness.                                                               *)

\* When the application stops asking, the library lets go of everything: the
\* timeouts empty the tables and the last one closes the connection.
Drains ==
    <>[][~Get]_vars => <>[](\A b \in Buses : ~connection[b])

Stale(b, n) == peers[b][n] # NULL /\ data[peers[b][n]].cred # owner[b][n]

\* Credentials that are not those of the owner of the name (any more) do not
\* stay in the table, however often the application asks for them.
StaleEvicted ==
    \A b \in Buses, n \in Names : Stale(b, n) ~> ~Stale(b, n)

=============================================================================
