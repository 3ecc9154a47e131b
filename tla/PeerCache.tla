------------------------------ MODULE PeerCache ------------------------------
(***************************************************************************)
(* What the peer cache promises, without objects, references, timers and   *)
(* watches: for each bus and name the credentials of a process, or none.   *)
(*                                                                         *)
(* Credentials enter only through a look-up that asked the daemon for the  *)
(* pid of the owner and then found the process in /proc; while the look-up *)
(* is blocked nothing enters or leaves.  Otherwise any of them may leave   *)
(* at any time, and while they are in, they do not change.                 *)
(***************************************************************************)
EXTENDS DBus

VARIABLES
    cache,      \* cache[b][n]: whose credentials n stands for, or NULL
    lookup      \* the look-up in progress: its bus, its name and, when the
                \* daemon has answered, the pid

cacheVars == <<cache, lookup>>

None == [bus |-> NULL, name |-> NULL, pid |-> NULL]

Init ==
    /\ DBusInit
    /\ cache = [b \in Buses |-> [n \in Names |-> NULL]]
    /\ lookup = None

\* Only what is not in the cache is looked up.
Ask(b, n) ==
    /\ lookup = None
    /\ cache[b][n] = NULL
    /\ lookup' = [bus |-> b, name |-> n, pid |-> NULL]
    /\ UNCHANGED <<busVars, cache>>

Answer ==
    /\ lookup # None
    /\ lookup.pid = NULL
    /\ owner[lookup.bus][lookup.name] \in Procs
    /\ lookup' = [lookup EXCEPT !.pid = PidOf[owner[lookup.bus][lookup.name]]]
    /\ UNCHANGED <<busVars, cache>>

\* p is the process that has the pid now, whoever had it before.
Enter(p) ==
    /\ lookup # None
    /\ Alive(p)
    /\ lookup.pid = PidOf[p]
    /\ cache' = [cache EXCEPT ![lookup.bus][lookup.name] = p]
    /\ lookup' = None
    /\ UNCHANGED busVars

GiveUp ==
    /\ lookup # None
    /\ lookup' = None
    /\ UNCHANGED <<busVars, cache>>

Evict(b, N) ==
    /\ lookup = None
    /\ cache' = [cache EXCEPT
            ![b] = [n \in Names |-> IF n \in N THEN NULL ELSE cache[b][n]]]
    /\ UNCHANGED <<busVars, lookup>>

World ==
    /\ \/ \E b \in Buses, n \in Names, p \in Procs : RequestName(b, n, p)
       \/ \E b \in Buses, n \in Names : ReleaseName(b, n)
       \/ \E p \in Procs : ProcStart(p) \/ ProcExit(p)
    /\ UNCHANGED cacheVars

Next ==
    \/ \E b \in Buses, n \in Names : Ask(b, n)
    \/ Answer
    \/ \E p \in Procs : Enter(p)
    \/ GiveUp
    \/ \E b \in Buses, N \in SUBSET Names : Evict(b, N)
    \/ World

Spec == Init /\ [][Next]_<<busVars, cacheVars>>

=============================================================================
