------------------------------- MODULE DASelf -------------------------------
(***************************************************************************)
(* Reference-counted snapshots of the credentials of a process,            *)
(* src/src/dbusaccess_proc.c, and the instance that describes the process  *)
(* itself and is shared for DBUSACCESS_SELF_TIMEOUT_SEC,                   *)
(* src/src/dbusaccess_self.c.                                              *)
(*                                                                         *)
(* da_self_new_shared and da_self_flush belong to the thread of the main   *)
(* loop, which also runs the timeout; references may be taken and dropped  *)
(* by any thread.  The reference of the shared instance belongs to the     *)
(* timeout source: GLib drops it (da_self_shared_unref) when it destroys   *)
(* the source.                                                             *)
(***************************************************************************)
EXTENDS Integers

CONSTANTS
    Selves,     \* addresses of DAProcPriv objects
    Sources,    \* ids of timeout sources
    NULL,       \* no object, no source (id 0)
    Off,        \* an id that no source has
    MaxCred,    \* bound: how often the process changes its credentials
    MaxHeld     \* bound: references that the application takes on one object

ASSUME SelfAssumption ==
    /\ NULL \notin Selves \cup Sources
    /\ Off \notin Selves \cup {NULL}
    /\ MaxCred \in Nat
    /\ MaxHeld \in Nat \ {0}

VARIABLES
    self_shared,            \* the shared instance, or NULL
    self_shared_timeout_id, \* the id of its timeout, or NULL
    source,     \* source[s]: the argument of timeout s, Off if there is none
    refs,       \* refs[o]: ref_count, 0 for an address that is free
    snapshot,   \* snapshot[o]: the credentials stored at o
    held,       \* held[o]: references that the application owns
    cred,       \* the credentials of the process, as a version number
    flushed,    \* history: the credentials at the last da_self_flush
    disturbed   \* history: a call has failed and timeouts from then are left

vars == <<self_shared, self_shared_timeout_id, source, refs, snapshot, held,
          cred, flushed, disturbed>>

TypeOK ==
    /\ self_shared \in Selves \cup {NULL}
    /\ self_shared_timeout_id \in Sources \cup {NULL}
    /\ source \in [Sources -> Selves \cup {NULL, Off}]
    /\ refs \in [Selves -> Nat]
    /\ snapshot \in [Selves -> 0 .. MaxCred]
    /\ held \in [Selves -> 0 .. MaxHeld]
    /\ cred \in 0 .. MaxCred
    /\ flushed \in 0 .. MaxCred
    /\ disturbed \in BOOLEAN

Init ==
    /\ self_shared = NULL
    /\ self_shared_timeout_id = NULL
    /\ source = [s \in Sources |-> Off]
    /\ refs = [o \in Selves |-> 0]
    /\ snapshot = [o \in Selves |-> 0]
    /\ held = [o \in Selves |-> 0]
    /\ cred = 0
    /\ flushed = 0
    /\ disturbed = FALSE

-----------------------------------------------------------------------------
(* Snapshots.                                                              *)

\* da_proc_new at a free address: the status file of the process is read and
\* parsed, and n references exist when the call that made it returns.
Allocate(o, n) ==
    /\ refs[o] = 0
    /\ refs' = [refs EXCEPT ![o] = n]
    /\ snapshot' = [snapshot EXCEPT ![o] = cred]

\* da_self_new (and da_proc_new): the caller gets the only reference.  When the
\* file cannot be read or parsed the result is NULL and nothing changes.
DaSelfNew(o) ==
    /\ Allocate(o, 1)
    /\ held' = [held EXCEPT ![o] = 1]
    /\ UNCHANGED <<self_shared, self_shared_timeout_id, source, cred, flushed,
                   disturbed>>

\* da_proc_ref, from any thread.
DaProcRef(o) ==
    /\ held[o] \in 1 .. MaxHeld - 1
    /\ refs' = [refs EXCEPT ![o] = @ + 1]
    /\ held' = [held EXCEPT ![o] = @ + 1]
    /\ UNCHANGED <<self_shared, self_shared_timeout_id, source, snapshot, cred,
                   flushed, disturbed>>

\* da_proc_unref, from any thread.
DaProcUnref(o) ==
    /\ held[o] > 0
    /\ refs' = [refs EXCEPT ![o] = @ - 1]
    /\ held' = [held EXCEPT ![o] = @ - 1]
    /\ UNCHANGED <<self_shared, self_shared_timeout_id, source, snapshot, cred,
                   flushed, disturbed>>

-----------------------------------------------------------------------------
(* The shared instance.                                                    *)

\* Mutant of DaSelfNewShared: the new instance is returned without a reference
\* for the caller.
DaSelfNewSharedNoRef(o, s) ==
    /\ self_shared = NULL
    /\ Allocate(o, 1)
    /\ self_shared' = o
    /\ source[s] = Off
    /\ source' = [source EXCEPT ![s] = o]
    /\ self_shared_timeout_id' = s
    /\ held' = [held EXCEPT ![o] = 1]
    /\ UNCHANGED <<cred, flushed, disturbed>>

\* Mutant of DaSelfNewShared: the id of the timeout is not stored.
DaSelfNewSharedNoId(o, s) ==
    /\ self_shared = NULL
    /\ Allocate(o, 2)
    /\ self_shared' = o
    /\ source[s] = Off
    /\ source' = [source EXCEPT ![s] = o]
    /\ held' = [held EXCEPT ![o] = 1]
    /\ UNCHANGED <<self_shared_timeout_id, cred, flushed, disturbed>>

\* da_self_new_shared makes the shared instance, whose first reference goes to
\* a new timeout and whose second one goes to the caller.
DaSelfNewShared(o, s) ==
    /\ self_shared = NULL
    /\ Allocate(o, 2)
    /\ self_shared' = o
    /\ source[s] = Off
    /\ source' = [source EXCEPT ![s] = o]
    /\ self_shared_timeout_id' = s
    /\ held' = [held EXCEPT ![o] = 1]
    /\ UNCHANGED <<cred, flushed, disturbed>>

\* da_self_new fails.  The timeout is started all the same, with no argument.
DaSelfNewSharedFail(s) ==
    /\ self_shared = NULL
    /\ source[s] = Off
    /\ source' = [source EXCEPT ![s] = NULL]
    /\ self_shared_timeout_id' = s
    /\ disturbed' = TRUE
    /\ UNCHANGED <<self_shared, refs, snapshot, held, cred, flushed>>

\* Mutant of DaSelfNewSharedHit: a hit extends the lease, as in da_peer_get.
DaSelfNewSharedHitRenew ==
    /\ self_shared # NULL
    /\ held[self_shared] < MaxHeld
    /\ \E s \in Sources :
        /\ source[s] = Off
        /\ source' = [source EXCEPT ![s] = self_shared,
                                    ![self_shared_timeout_id] = Off]
        /\ self_shared_timeout_id' = s
    /\ refs' = [refs EXCEPT ![self_shared] = @ + 1]
    /\ held' = [held EXCEPT ![self_shared] = @ + 1]
    /\ UNCHANGED <<self_shared, snapshot, cred, flushed, disturbed>>

\* There is a shared instance: the caller gets a reference to it.
DaSelfNewSharedHit ==
    /\ self_shared # NULL
    /\ held[self_shared] < MaxHeld
    /\ refs' = [refs EXCEPT ![self_shared] = @ + 1]
    /\ held' = [held EXCEPT ![self_shared] = @ + 1]
    /\ UNCHANGED <<self_shared, self_shared_timeout_id, source, snapshot, cred,
                   flushed, disturbed>>

\* GLib destroys source s, which drops the reference of its argument.
DestroySource(s) ==
    /\ source' = [source EXCEPT ![s] = Off]
    /\ refs' = [o \in Selves |-> IF o = source[s] THEN refs[o] - 1 ELSE refs[o]]
    /\ disturbed' = (disturbed /\ \E t \in Sources \ {s} : source[t] # Off)

\* Mutants of DaSelfSharedTimeout: the callback drops the reference as well as
\* GLib; nothing but the reference is dropped.
DaSelfSharedTimeoutTwice(s) ==
    /\ source[s] # Off
    /\ self_shared' = NULL
    /\ self_shared_timeout_id' = NULL
    /\ source' = [source EXCEPT ![s] = Off]
    /\ refs' = [o \in Selves |->
                  IF o = source[s] THEN refs[o] - 2 ELSE refs[o]]
    /\ UNCHANGED <<snapshot, held, cred, flushed, disturbed>>

DaSelfSharedTimeoutKeep(s) ==
    /\ source[s] # Off
    /\ DestroySource(s)
    /\ self_shared_timeout_id' = NULL
    /\ UNCHANGED <<self_shared, snapshot, held, cred, flushed>>

\* da_self_shared_timeout: the shared instance is forgotten, whatever the
\* argument of the timeout that fires.  The interval comes from the environment,
\* where it may change and may be 0, so the order of the sources is not known.
DaSelfSharedTimeout(s) ==
    /\ source[s] # Off
    /\ self_shared' = NULL
    /\ self_shared_timeout_id' = NULL
    /\ DestroySource(s)
    /\ UNCHANGED <<snapshot, held, cred, flushed>>

\* Mutants of DaSelfFlush: the timeout is not removed; its id is not reset; the
\* shared instance is not forgotten.
DaSelfFlushKeepTimer ==
    /\ self_shared' = NULL
    /\ self_shared_timeout_id' = NULL
    /\ flushed' = cred
    /\ UNCHANGED <<source, refs, snapshot, held, cred, disturbed>>

DaSelfFlushKeepId ==
    /\ self_shared' = NULL
    /\ IF self_shared_timeout_id # NULL
       THEN DestroySource(self_shared_timeout_id)
       ELSE UNCHANGED <<source, refs, disturbed>>
    /\ flushed' = cred
    /\ UNCHANGED <<self_shared_timeout_id, snapshot, held, cred>>

DaSelfFlushKeepShared ==
    /\ IF self_shared_timeout_id # NULL
       THEN DestroySource(self_shared_timeout_id)
       ELSE UNCHANGED <<source, refs, disturbed>>
    /\ self_shared_timeout_id' = NULL
    /\ flushed' = cred
    /\ UNCHANGED <<self_shared, snapshot, held, cred>>

\* da_self_flush: the shared instance is forgotten and its timeout removed.
DaSelfFlush ==
    /\ self_shared' = NULL
    /\ IF self_shared_timeout_id # NULL
       THEN DestroySource(self_shared_timeout_id)
       ELSE UNCHANGED <<source, refs, disturbed>>
    /\ self_shared_timeout_id' = NULL
    /\ flushed' = cred
    /\ UNCHANGED <<snapshot, held, cred>>

-----------------------------------------------------------------------------

\* The process changes its credentials (setuid, setgroups).
ChangeCred ==
    /\ cred < MaxCred
    /\ cred' = cred + 1
    /\ UNCHANGED <<self_shared, self_shared_timeout_id, source, refs, snapshot,
                   held, flushed, disturbed>>

NewShared ==
    \/ \E o \in Selves, s \in Sources : DaSelfNewShared(o, s)
    \/ \E s \in Sources : DaSelfNewSharedFail(s)
    \/ DaSelfNewSharedHit

Next ==
    \/ NewShared
    \/ \E o \in Selves : DaSelfNew(o) \/ DaProcRef(o) \/ DaProcUnref(o)
    \/ \E s \in Sources : DaSelfSharedTimeout(s)
    \/ DaSelfFlush
    \/ ChangeCred

Spec == Init /\ [][Next]_vars

\* Time passes and the main loop runs, so every timeout fires or is removed.
FairSpec ==
    Spec /\ \A s \in Sources : WF_vars(DaSelfSharedTimeout(s))

-----------------------------------------------------------------------------

\* An object is allocated exactly as long as a timeout or the application has a
\* reference to it, also when timeouts, flushes, failures and other threads
\* interleave: nothing leaks and nothing is freed twice.
InstancesAccounted ==
    \A o \in Selves :
        refs[o] = held[o] + (IF \E s \in Sources : source[s] = o THEN 1 ELSE 0)

\* The shared instance, to which self_shared has no reference of its own, is
\* kept alive by a timeout that will also forget it; and da_self_flush never
\* removes a source that is gone.  Both hold even when reading may fail.
SharedLeased ==
    /\ self_shared # NULL => \E s \in Sources : source[s] = self_shared
    /\ self_shared_timeout_id # NULL => source[self_shared_timeout_id] # Off

\* "You can use da_self_flush to clear the shared instance and force the next
\* da_self_new_shared call to create a new one": the shared instance is never
\* older than the last flush.
FlushForcesNew == self_shared # NULL => snapshot[self_shared] >= flushed

\* The assertion of da_self_new_shared, at any moment at which it may be called
\* and there is no shared instance: there is no timeout either.
NewSharedAssert == self_shared = NULL => self_shared_timeout_id = NULL

\* The assertions of da_self_shared_timeout, at any moment at which a timeout
\* may fire: it is the current one and it belongs to the shared instance.
TimeoutAsserts ==
    \A s \in Sources : source[s] # Off =>
        self_shared_timeout_id # NULL /\ self_shared = source[s]

\* All three assertions of the code hold as long as no call has failed, and
\* after failures they hold again as soon as every timeout is gone.
AssertsUntilFailure == ~disturbed => NewSharedAssert /\ TimeoutAsserts

\* The shared instance is forgotten only by its own timeout or by a flush,
\* unless there are timeouts that were started since a failure.
OnlyOwnTimeoutForgets ==
    [][~disturbed /\ self_shared # NULL /\ self_shared' = NULL =>
        DaSelfFlush \/ \E s \in Sources :
            source[s] = self_shared /\ DaSelfSharedTimeout(s)]_vars

\* Credentials that the process no longer has are not shared forever, however
\* often the application asks for the shared instance.
StaleForgotten ==
    \A o \in Selves :
        self_shared = o /\ snapshot[o] # cred ~>
            self_shared # o \/ snapshot[o] = cred

\* When the application stops asking for it, the shared instance is forgotten
\* and no timeout is left.
InstancesDrain ==
    <>[][~NewShared]_vars =>
        <>[](self_shared = NULL /\ \A s \in Sources : source[s] = Off)

=============================================================================
