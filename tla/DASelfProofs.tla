---------------------------- MODULE DASelfProofs ----------------------------
(***************************************************************************)
(* Theorems about DASelf: the references of the snapshots are accounted    *)
(* for and the shared instance is kept alive by its timeout, whether or    *)
(* not reading fails; the assertions of the code hold until it does, and   *)
(* again when the timeouts of that time are gone.                          *)
(***************************************************************************)
EXTENDS DASelf, TLAPS

\* No two timeouts own a reference to the same object.
OneTimeoutEach ==
    \A s, t \in Sources : source[s] \in Selves /\ source[s] = source[t] => s = t

\* The inductive invariant of the references.
SelfInv ==
    /\ TypeOK
    /\ OneTimeoutEach
    /\ InstancesAccounted
    /\ SharedLeased

\* A free address is the argument of no timeout and is not shared.
LEMMA FreeUnused ==
  ASSUME SelfInv, NEW o \in Selves, refs[o] = 0
  PROVE  /\ held[o] = 0 /\ self_shared # o
         /\ \A s \in Sources : source[s] # o
<1>1. held[o] = 0 /\ \A s \in Sources : source[s] # o
  BY DEF SelfInv, TypeOK, InstancesAccounted
<1> QED BY <1>1, SelfAssumption DEF SelfInv, SharedLeased

\* The end of a timeout, whether it fires or is removed, drops one reference.
LEMMA DestroyInv ==
  ASSUME SelfInv, NEW s \in Sources, source[s] # Off, DestroySource(s),
         self_shared' = NULL, self_shared_timeout_id' = NULL, UNCHANGED held
  PROVE  /\ OneTimeoutEach' /\ InstancesAccounted' /\ SharedLeased'
         /\ refs' \in [Selves -> Nat]
         /\ source' \in [Sources -> Selves \cup {NULL, Off}] /\ disturbed' \in BOOLEAN
<1>1. /\ source' \in [Sources -> Selves \cup {NULL, Off}]
      /\ source'[s] = Off
      /\ \A t \in Sources \ {s} : source'[t] = source[t]
  BY DEF DestroySource, SelfInv, TypeOK
<1>2. \A o \in Selves :
        refs'[o] = held[o] + (IF \E t \in Sources : source'[t] = o THEN 1 ELSE 0)
  <2> SUFFICES ASSUME NEW o \in Selves
               PROVE  refs'[o] = held[o] + (IF \E t \in Sources : source'[t] = o THEN 1 ELSE 0)
    OBVIOUS
  <2>1. refs'[o] = IF o = source[s] THEN refs[o] - 1 ELSE refs[o]
    BY DEF DestroySource
  <2>2. CASE o = source[s]
    <3>1. ~ \E t \in Sources : source'[t] = o
      BY <1>1, <2>2, SelfAssumption DEF SelfInv, OneTimeoutEach
    <3>2. refs[o] = held[o] + 1
      BY <2>2 DEF SelfInv, InstancesAccounted
    <3> QED BY <2>1, <2>2, <3>1, <3>2 DEF SelfInv, TypeOK
  <2>3. CASE o # source[s]
    <3>1. (\E t \in Sources : source'[t] = o) <=> (\E t \in Sources : source[t] = o)
      BY <1>1, <2>3, SelfAssumption
    <3> QED BY <2>1, <2>3, <3>1 DEF SelfInv, InstancesAccounted
  <2> QED BY <2>2, <2>3
<1>3. refs' \in [Selves -> Nat]
  <2>1. \A o \in Selves : refs'[o] \in Nat
    BY <1>2 DEF SelfInv, TypeOK
  <2> QED BY <2>1 DEF DestroySource
<1>4. OneTimeoutEach'
  BY <1>1, SelfAssumption DEF SelfInv, OneTimeoutEach
<1>5. disturbed' \in BOOLEAN
  BY Zenon DEF DestroySource
<1> QED BY <1>1, <1>2, <1>3, <1>4, <1>5 DEF InstancesAccounted, SharedLeased

\* Every step keeps the inductive invariant.
LEMMA SelfNextInv == SelfInv /\ [Next]_vars => SelfInv'
<1> SUFFICES ASSUME SelfInv, [Next]_vars
             PROVE  SelfInv'
  OBVIOUS
<1>1. ASSUME NEW o \in Selves, DaSelfNew(o)
      PROVE  SelfInv'
  <2>1. \A s \in Sources : source[s] # o
    BY <1>1, FreeUnused DEF DaSelfNew, Allocate
  <2>2. TypeOK'
    BY <1>1, SelfAssumption DEF DaSelfNew, Allocate, SelfInv, TypeOK
  <2> QED BY <1>1, <2>1, <2>2
     DEF DaSelfNew, Allocate, SelfInv, TypeOK, OneTimeoutEach, InstancesAccounted,
         SharedLeased
<1>2. ASSUME NEW o \in Selves, DaProcRef(o) \/ DaProcUnref(o)
      PROVE  SelfInv'
  <2>1. refs[o] >= held[o]
    BY DEF SelfInv, TypeOK, InstancesAccounted
  <2>2. TypeOK'
    BY <1>2, <2>1, SelfAssumption DEF DaProcRef, DaProcUnref, SelfInv, TypeOK
  <2> QED BY <1>2, <2>2
     DEF DaProcRef, DaProcUnref, SelfInv, TypeOK, OneTimeoutEach, InstancesAccounted,
         SharedLeased
<1>3. ASSUME NEW o \in Selves, NEW s \in Sources, DaSelfNewShared(o, s)
      PROVE  SelfInv'
  <2>1. held[o] = 0 /\ \A t \in Sources : source[t] # o
    BY <1>3, FreeUnused DEF DaSelfNewShared, Allocate
  <2>2. TypeOK'
    BY <1>3, SelfAssumption DEF DaSelfNewShared, Allocate, SelfInv, TypeOK
  <2>3. /\ source'[s] = o /\ self_shared' = o /\ self_shared_timeout_id' = s
        /\ \A t \in Sources \ {s} : source'[t] = source[t]
        /\ refs'[o] = 2 /\ held'[o] = 1
        /\ \A x \in Selves \ {o} : refs'[x] = refs[x] /\ held'[x] = held[x]
        /\ source[s] = Off
    BY <1>3 DEF DaSelfNewShared, Allocate, SelfInv, TypeOK
  <2>4. OneTimeoutEach'
    BY <2>1, <2>3 DEF SelfInv, OneTimeoutEach
  <2>5. InstancesAccounted'
    BY <2>1, <2>3, SelfAssumption DEF SelfInv, InstancesAccounted
  <2>6. SharedLeased'
    BY <2>3, SelfAssumption DEF SharedLeased
  <2> QED BY <2>2, <2>4, <2>5, <2>6 DEF SelfInv
<1>4. ASSUME NEW s \in Sources, DaSelfNewSharedFail(s)
      PROVE  SelfInv'
  BY <1>4, SelfAssumption
  DEF DaSelfNewSharedFail, SelfInv, TypeOK, OneTimeoutEach, InstancesAccounted, SharedLeased
<1>5. CASE DaSelfNewSharedHit
  <2>1. TypeOK'
    BY <1>5, SelfAssumption DEF DaSelfNewSharedHit, SelfInv, TypeOK
  <2> QED BY <1>5, <2>1
     DEF DaSelfNewSharedHit, SelfInv, TypeOK, OneTimeoutEach, InstancesAccounted,
         SharedLeased
<1>6. ASSUME NEW s \in Sources, DaSelfSharedTimeout(s)
      PROVE  SelfInv'
  BY <1>6, DestroyInv DEF DaSelfSharedTimeout, SelfInv, TypeOK
<1>7. CASE DaSelfFlush
  <2>1. CASE self_shared_timeout_id # NULL
    <3>1. /\ self_shared_timeout_id \in Sources
          /\ source[self_shared_timeout_id] # Off
      BY <2>1 DEF SelfInv, TypeOK, SharedLeased
    <3> QED BY <1>7, <2>1, <3>1, DestroyInv DEF DaSelfFlush, SelfInv, TypeOK
  <2>2. CASE self_shared_timeout_id = NULL
    BY <1>7, <2>2 DEF DaSelfFlush, SelfInv, TypeOK, OneTimeoutEach, InstancesAccounted,
                      SharedLeased
  <2> QED BY <2>1, <2>2
<1>8. CASE ChangeCred
  BY <1>8, SelfAssumption
  DEF ChangeCred, SelfInv, TypeOK, OneTimeoutEach, InstancesAccounted, SharedLeased
<1>9. CASE UNCHANGED vars
  BY <1>9 DEF vars, SelfInv, TypeOK, OneTimeoutEach, InstancesAccounted, SharedLeased
<1> QED BY <1>1, <1>2, <1>3, <1>4, <1>5, <1>6, <1>7, <1>8, <1>9 DEF Next, NewShared

\* Every reachable state satisfies the inductive invariant.
THEOREM SelfInvariant == Spec => []SelfInv
<1>1. Init => SelfInv
  <2> SUFFICES ASSUME Init
               PROVE  SelfInv
    OBVIOUS
  <2>1. disturbed \in BOOLEAN
    BY Zenon DEF Init
  <2> QED BY <2>1, SelfAssumption DEF Init, SelfInv, TypeOK, OneTimeoutEach,
                                      InstancesAccounted, SharedLeased
<1> QED BY <1>1, SelfNextInv, PTL DEF Spec

\* All variables keep their types; in particular no reference is dropped that
\* does not exist.
THEOREM SelfTypeCorrect == Spec => []TypeOK
<1>1. SelfInv => TypeOK
  BY DEF SelfInv
<1> QED BY <1>1, SelfInvariant, PTL

\* The reference counts of da_proc_ref and da_proc_unref are exact, for any
\* number of objects, timeouts and references.
THEOREM SelfInstancesAccounted == Spec => []InstancesAccounted
<1>1. SelfInv => InstancesAccounted
  BY DEF SelfInv
<1> QED BY <1>1, SelfInvariant, PTL

\* The shared instance is always alive, and da_self_flush removes only a
\* timeout that exists, even when da_self_new may fail.
THEOREM SelfSharedLeased == Spec => []SharedLeased
<1>1. SelfInv => SharedLeased
  BY DEF SelfInv
<1> QED BY <1>1, SelfInvariant, PTL

-----------------------------------------------------------------------------

\* The last flush saw credentials that the process has or had.
FlushInv == flushed <= cred /\ FlushForcesNew

\* da_self_new_shared never returns a snapshot from before the last
\* da_self_flush.
THEOREM SelfFlushForcesNew == Spec => []FlushForcesNew
<1>1. Init => FlushInv
  BY DEF Init, FlushInv, FlushForcesNew
<1>2. SelfInv /\ FlushInv /\ [Next]_vars => FlushInv'
  <2> SUFFICES ASSUME SelfInv, FlushInv, [Next]_vars
               PROVE  FlushInv'
    OBVIOUS
  <2> USE DEF FlushInv, FlushForcesNew
  <2>1. ASSUME NEW o \in Selves, DaSelfNew(o)
        PROVE  FlushInv'
    <3>1. self_shared # o
      BY <2>1, FreeUnused DEF DaSelfNew, Allocate
    <3> QED BY <2>1, <3>1, SelfAssumption DEF DaSelfNew, Allocate, SelfInv, TypeOK
  <2>2. ASSUME NEW o \in Selves, DaProcRef(o) \/ DaProcUnref(o)
        PROVE  FlushInv'
    BY <2>2 DEF DaProcRef, DaProcUnref
  <2>3. ASSUME NEW o \in Selves, NEW s \in Sources, DaSelfNewShared(o, s)
        PROVE  FlushInv'
    BY <2>3 DEF DaSelfNewShared, Allocate, SelfInv, TypeOK
  <2>4. ASSUME NEW s \in Sources, DaSelfNewSharedFail(s)
        PROVE  FlushInv'
    BY <2>4 DEF DaSelfNewSharedFail
  <2>5. CASE DaSelfNewSharedHit
    BY <2>5 DEF DaSelfNewSharedHit
  <2>6. ASSUME NEW s \in Sources, DaSelfSharedTimeout(s)
        PROVE  FlushInv'
    BY <2>6 DEF DaSelfSharedTimeout
  <2>7. CASE DaSelfFlush
    BY <2>7 DEF DaSelfFlush, SelfInv, TypeOK
  <2>8. CASE ChangeCred
    BY <2>8 DEF ChangeCred, SelfInv, TypeOK
  <2>9. CASE UNCHANGED vars
    BY <2>9 DEF vars
  <2> QED BY <2>1, <2>2, <2>3, <2>4, <2>5, <2>6, <2>7, <2>8, <2>9 DEF Next, NewShared
<1>3. FlushInv => FlushForcesNew
  BY DEF FlushInv
<1> QED BY <1>1, <1>2, <1>3, SelfInvariant, PTL DEF Spec

-----------------------------------------------------------------------------
(* The assertions hold while no timeouts are left of a failed call.        *)

\* A step after which there is neither a timeout nor a shared instance makes the
\* assertions hold.
LEMMA QuietAsserts ==
  ASSUME self_shared' = NULL, self_shared_timeout_id' = NULL,
         \A t \in Sources : source'[t] = Off
  PROVE  AssertsUntilFailure'
BY DEF AssertsUntilFailure, NewSharedAssert, TimeoutAsserts

\* The end of the last timeout, by itself or by da_self_flush, leaves none; and
\* if no call has failed, every timeout is the last one.
LEMMA DestroyAsserts ==
  ASSUME SelfInv, AssertsUntilFailure, NEW s \in Sources, source[s] # Off,
         DestroySource(s), self_shared' = NULL, self_shared_timeout_id' = NULL
  PROVE  AssertsUntilFailure'
<1>1. CASE \A t \in Sources \ {s} : source[t] = Off
  BY <1>1, QuietAsserts DEF DestroySource, SelfInv, TypeOK
<1>2. ASSUME NEW t \in Sources \ {s}, source[t] # Off
      PROVE  disturbed'
  <2>1. ASSUME ~disturbed
        PROVE  source[s] = self_shared /\ source[t] = self_shared /\ self_shared # NULL
    BY <1>2, <2>1 DEF AssertsUntilFailure, NewSharedAssert, TimeoutAsserts
  <2>2. disturbed
    BY <1>2, <2>1 DEF SelfInv, TypeOK, OneTimeoutEach
  <2> QED BY <1>2, <2>2 DEF DestroySource
<1> QED BY <1>1, <1>2 DEF AssertsUntilFailure

\* The assertions of da_self_shared_timeout and da_self_new_shared hold until a
\* call fails, and again when no timeout is left, for any number of addresses
\* and timeouts.
THEOREM SelfAssertsUntilFailure == Spec => []AssertsUntilFailure
<1>1. Init => AssertsUntilFailure
  BY DEF Init, AssertsUntilFailure, TimeoutAsserts, NewSharedAssert
<1>2. SelfInv /\ AssertsUntilFailure /\ [Next]_vars => AssertsUntilFailure'
  <2> SUFFICES ASSUME SelfInv, AssertsUntilFailure, [Next]_vars
               PROVE  AssertsUntilFailure'
    OBVIOUS
  <2> USE DEF AssertsUntilFailure, TimeoutAsserts, NewSharedAssert
  <2>1. ASSUME NEW o \in Selves, DaSelfNew(o) \/ DaProcRef(o) \/ DaProcUnref(o)
        PROVE  AssertsUntilFailure'
    BY <2>1 DEF DaSelfNew, DaProcRef, DaProcUnref
  <2>2. ASSUME NEW o \in Selves, NEW s \in Sources, DaSelfNewShared(o, s)
        PROVE  AssertsUntilFailure'
    <3>1. ~disturbed => \A t \in Sources : source[t] = Off
      BY <2>2 DEF DaSelfNewShared
    <3>2. /\ self_shared' = o /\ self_shared_timeout_id' = s /\ source'[s] = o
          /\ \A t \in Sources \ {s} : source'[t] = source[t]
          /\ disturbed' = disturbed
      BY <2>2 DEF DaSelfNewShared, SelfInv, TypeOK
    <3> QED BY <3>1, <3>2, SelfAssumption
  <2>3. ASSUME NEW s \in Sources, DaSelfNewSharedFail(s)
        PROVE  AssertsUntilFailure'
    BY <2>3 DEF DaSelfNewSharedFail
  <2>4. ASSUME NEW s \in Sources, DaSelfSharedTimeout(s)
        PROVE  AssertsUntilFailure'
    BY <2>4, DestroyAsserts DEF DaSelfSharedTimeout
  <2>5. CASE DaSelfFlush /\ self_shared_timeout_id # NULL
    <3>1. self_shared_timeout_id \in Sources /\ source[self_shared_timeout_id] # Off
      BY <2>5 DEF SelfInv, TypeOK, SharedLeased
    <3> QED BY <2>5, <3>1, DestroyAsserts DEF DaSelfFlush
  <2>6. CASE DaSelfFlush /\ self_shared_timeout_id = NULL
    BY <2>6 DEF DaSelfFlush
  <2>7. CASE DaSelfNewSharedHit
    BY <2>7 DEF DaSelfNewSharedHit
  <2>8. CASE ChangeCred
    BY <2>8 DEF ChangeCred
  <2>9. CASE UNCHANGED vars
    BY <2>9 DEF vars
  <2> QED BY <2>1, <2>2, <2>3, <2>4, <2>5, <2>6, <2>7, <2>8, <2>9 DEF Next, NewShared
<1> QED BY <1>1, <1>2, SelfInvariant, PTL DEF Spec

\* The shared instance is forgotten only by its own timeout or by da_self_flush,
\* unless timeouts are left of a failed call, which cut short the lease of a
\* later instance.
THEOREM SelfOnlyOwnTimeoutForgets == Spec => OnlyOwnTimeoutForgets
<1> DEFINE Own ==
      ~disturbed /\ self_shared # NULL /\ self_shared' = NULL =>
          DaSelfFlush \/ \E s \in Sources :
              source[s] = self_shared /\ DaSelfSharedTimeout(s)
<1>1. ASSUME AssertsUntilFailure, [Next]_vars
      PROVE  [Own]_vars
  <2>1. ASSUME NEW o \in Selves, DaSelfNew(o) \/ DaProcRef(o) \/ DaProcUnref(o)
        PROVE  Own
    BY <2>1 DEF DaSelfNew, DaProcRef, DaProcUnref
  <2>2. CASE NewShared
    BY <2>2
    DEF NewShared, DaSelfNewShared, DaSelfNewSharedFail, DaSelfNewSharedHit
  <2>3. ASSUME NEW s \in Sources, DaSelfSharedTimeout(s)
        PROVE  Own
    <3>1. ~disturbed => source[s] = self_shared
      BY <1>1, <2>3 DEF AssertsUntilFailure, TimeoutAsserts, DaSelfSharedTimeout
    <3> QED BY <2>3, <3>1
  <2>4. CASE ChangeCred
    BY <2>4 DEF ChangeCred
  <2> QED BY <1>1, <2>1, <2>2, <2>3, <2>4 DEF Next
<1> QED BY <1>1, SelfAssertsUntilFailure, PTL DEF Spec, OnlyOwnTimeoutForgets

=============================================================================
