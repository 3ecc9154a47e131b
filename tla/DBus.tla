-------------------------------- MODULE DBus --------------------------------
(***************************************************************************)
(* The world around the peer cache: the processes of the machine, with     *)
(* their pids, and the message bus daemons, with the owners of the bus     *)
(* names.  None of it is code of the library; it is what                   *)
(* src/src/dbusaccess_peer.c relies on when it asks the daemon for the pid *)
(* behind a name and then reads /proc/<pid>/status.                        *)
(*                                                                         *)
(* A member of Procs is one incarnation of a process: it starts once,      *)
(* exits once, and owns its credentials, so that "the credentials of p"    *)
(* and p are identified.  Two members of Procs may have the same pid, but  *)
(* not while both are alive: the kernel reuses pids.                       *)
(***************************************************************************)

CONSTANTS
    Buses,      \* the message buses, DA_BUS_SYSTEM and DA_BUS_SESSION
    Names,      \* bus names that a client of the library may ask about
    Unique,     \* those that the daemon never gives away twice (":1.42")
    Procs,      \* incarnations of processes
    Pids,       \* process ids
    PidOf,      \* PidOf[p]: the pid of p
    NULL,       \* no process, no object
    Retired     \* "owner" of a unique name whose connection is gone

ASSUME BusAssumption ==
    /\ Unique \subseteq Names
    /\ PidOf \in [Procs -> Pids]
    /\ NULL \notin Procs \cup Pids \cup Names
    /\ Retired \notin Procs \cup {NULL}

VARIABLES
    status,     \* status[p]: "new", "alive" or "dead"
    owner       \* owner[b][n]: the owner of n as the daemon of b knows it

busVars == <<status, owner>>

DBusTypeOK ==
    /\ status \in [Procs -> {"new", "alive", "dead"}]
    /\ owner \in [Buses -> [Names -> Procs \cup {NULL, Retired}]]

DBusInit ==
    /\ status = [p \in Procs |-> "new"]
    /\ owner = [b \in Buses |-> [n \in Names |-> NULL]]

Alive(p) == p \in Procs /\ status[p] = "alive"

\* The kernel gives p its pid, which no running process has.
ProcStart(p) ==
    /\ status[p] = "new"
    /\ \A q \in Procs : Alive(q) => PidOf[q] # PidOf[p]
    /\ status' = [status EXCEPT ![p] = "alive"]
    /\ UNCHANGED owner

\* p exits.  The daemon finds out later, when it sees the socket close: until
\* then p still owns its names.
ProcExit(p) ==
    /\ status[p] = "alive"
    /\ status' = [status EXCEPT ![p] = "dead"]
    /\ UNCHANGED owner

\* p becomes the owner of n: it connects (a unique name), or it requests a
\* well-known name that is free or that it takes over from its owner.
RequestName(b, n, p) ==
    /\ Alive(p)
    /\ owner[b][n] \notin {p, Retired}
    /\ n \in Unique => owner[b][n] = NULL
    /\ owner' = [owner EXCEPT ![b][n] = p]
    /\ UNCHANGED status

\* The owner of n gives it up, disconnects, or is found to be dead.
ReleaseName(b, n) ==
    /\ owner[b][n] \in Procs
    /\ owner' = [owner EXCEPT ![b][n] = IF n \in Unique THEN Retired ELSE NULL]
    /\ UNCHANGED status

=============================================================================
