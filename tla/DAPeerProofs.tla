---------------------------- MODULE DAPeerProofs ----------------------------
(***************************************************************************)
(* Theorems about DAPeer, for any number of buses, names, processes,       *)
(* addresses and references.                                               *)
(*                                                                         *)
(* PeerInv is inductive and gives the safety properties that need no more: *)
(* its own conjuncts TableOK (an entry of the table knows its place) and   *)
(* CallOK (the name that da_peer_get is busy with is not cached) say what  *)
(* the handlers rely on without checking it.  ConnectedIffUsed and         *)
(* SnapshotsImmutable follow from PeerInv and the step; UniqueNameFresh    *)
(* needs UniqueTracked, which ties the pid that the daemon told to the     *)
(* owner of the name for as long as that process lives.                    *)
(***************************************************************************)
EXTENDS DAPeer, TLAPS

\* An entry of the table is complete and stored under its own bus and name.
TableOK ==
    \A b \in Buses, n \in Names :
        peers[b][n] # NULL =>
            /\ data[peers[b][n]] # NULL
            /\ data[peers[b][n]].bus = b
            /\ data[peers[b][n]].name = n
            /\ data[peers[b][n]].cred # NULL

\* While da_peer_get is busy with a name nothing is cached for it, and the peer
\* that it makes is the one for this name.
CallOK ==
    /\ call.pc # "idle" => peers[call.bus][call.name] = NULL
    /\ call.pc = "reading" =>
        /\ data[call.obj] # NULL
        /\ data[call.obj].bus = call.bus
        /\ data[call.obj].name = call.name
        /\ data[call.obj].cred = NULL

\* The inductive invariant.
PeerInv ==
    /\ TypeOK
    /\ TableOK
    /\ CallOK
    /\ RefsAccounted
    /\ CallbacksMatchTable
    /\ PointersUsable

\* The invariant holds initially.
LEMMA InitInv == Init => PeerInv
  BY BusAssumption, PeerAssumption
  DEF Init, DBusInit, PeerInv, TypeOK, DBusTypeOK, TableOK, CallOK,
      RefsAccounted,
      CallbacksMatchTable, PointersUsable, Cached, Building, Call, Idle, NoTimer

\* The three phases of da_peer_get and what is known in each.
LEMMA CallType ==
  ASSUME call \in Call
  PROVE  \/ call = Idle /\ call.pc = "idle"
         \/ call.pc = "asking" /\ call.bus \in Buses /\ call.name \in Names
         \/ /\ call.pc = "reading"
            /\ call.bus \in Buses /\ call.name \in Names
            /\ call.obj \in Peers /\ call.pid \in Pids
<1>1. CASE call = Idle
  BY <1>1 DEF Idle
<1>2. CASE call \in [pc : {"asking"}, bus : Buses, name : Names, obj : {NULL}, pid : {NULL}]
  BY <1>2
<1>3. CASE call \in [pc : {"reading"}, bus : Buses, name : Names, obj : Peers, pid : Pids]
  BY <1>3
<1> QED BY <1>1, <1>2, <1>3 DEF Call

\* A peer is cached under its own bus and name, and nowhere else.
LEMMA CachedAt ==
  ASSUME TypeOK, TableOK, NEW o \in Peers
  PROVE  Cached(o) <=> data[o] # NULL /\ peers[data[o].bus][data[o].name] = o
<1>1. ASSUME Cached(o)
      PROVE  data[o] # NULL /\ peers[data[o].bus][data[o].name] = o
  BY <1>1, PeerAssumption DEF Cached, TableOK
<1>2. ASSUME data[o] # NULL, peers[data[o].bus][data[o].name] = o
      PROVE  Cached(o)
  BY <1>2 DEF Cached, TypeOK, PeerData
<1> QED BY <1>1, <1>2

\* The peer that da_peer_get is making is not cached, and nobody has it.
LEMMA BuildingAlone ==
  ASSUME PeerInv, NEW o \in Peers, Building(o)
  PROVE  /\ call.bus \in Buses /\ call.name \in Names /\ call.pid \in Pids
         /\ peers[call.bus][call.name] = NULL
         /\ data[o] \in PeerData
         /\ data[o].bus = call.bus /\ data[o].name = call.name
         /\ ~Cached(o) /\ held[o] = 0 /\ refs[o] = 1 /\ o \notin borrowed
         /\ \A x \in Peers \ {o} : ~Building(x)
<1>1. /\ call.bus \in Buses /\ call.name \in Names /\ call.pid \in Pids
      /\ peers[call.bus][call.name] = NULL
      /\ data[o] # NULL /\ data[o] \in PeerData
      /\ data[o].bus = call.bus /\ data[o].name = call.name /\ data[o].cred = NULL
  BY CallType DEF Building, PeerInv, TypeOK, CallOK
<1>2. ~Cached(o)
  BY <1>1, CachedAt, PeerAssumption DEF PeerInv
<1>3. held[o] = 0 /\ o \notin borrowed
  BY <1>1 DEF PeerInv, TypeOK, PointersUsable
<1> QED BY <1>1, <1>2, <1>3 DEF PeerInv, TypeOK, RefsAccounted, Building

\* A hit changes a timer and nothing else that the invariant is about.
LEMMA GetHitInv ==
  ASSUME PeerInv, NEW b \in Buses, NEW n \in Names, DaPeerGetHit(b, n)
  PROVE  PeerInv'
<1>1. TypeOK' /\ TableOK' /\ CallOK' /\ RefsAccounted' /\ CallbacksMatchTable'
  BY PeerAssumption, CallType
  DEF DaPeerGetHit, ResetTimeout, PeerInv, TypeOK, DBusTypeOK, TableOK,
      CallOK, RefsAccounted,
      CallbacksMatchTable, Cached, Building, busVars, NoTimer
<1>2. PointersUsable'
  BY DEF DaPeerGetHit, PeerInv, TypeOK, TableOK, PointersUsable
<1> QED BY <1>1, <1>2 DEF PeerInv

\* A miss starts a call for a name that is not cached.
LEMMA GetMissInv ==
  ASSUME PeerInv, NEW b \in Buses, NEW n \in Names, DaPeerGetMiss(b, n)
  PROVE  PeerInv'
<1>1. call' = [pc |-> "asking", bus |-> b, name |-> n, obj |-> NULL, pid |-> NULL]
  BY DEF DaPeerGetMiss, DaPeerBus, Idle
<1>2. TypeOK'
  BY <1>1 DEF DaPeerGetMiss, DaPeerBus, PeerInv, TypeOK, DBusTypeOK, Call, busVars
<1>3. \A o \in Peers : ~Building(o) /\ ~Building(o)'
  BY <1>1 DEF DaPeerGetMiss, DaPeerBus, Building, Idle
<1> QED BY <1>1, <1>2, <1>3
   DEF DaPeerGetMiss, DaPeerBus, PeerInv, TableOK, CallOK, RefsAccounted,
       CallbacksMatchTable, PointersUsable, Cached

\* da_peer_new takes an address that nothing points to.
LEMMA GetReplyInv ==
  ASSUME PeerInv, NEW o \in Peers, DaPeerGetReply(o)
  PROVE  PeerInv'
<1>1. /\ call.pc = "asking" /\ call.bus \in Buses /\ call.name \in Names
      /\ PidOf[owner[call.bus][call.name]] \in Pids
      /\ refs[o] = 0
      /\ UNCHANGED <<busVars, connection, peers, borrowed, held>>
  BY CallType, BusAssumption DEF DaPeerGetReply, DaPeerNew, PeerInv, TypeOK
<1>2. call' = [pc |-> "reading", bus |-> call.bus, name |-> call.name, obj |-> o,
               pid |-> PidOf[owner[call.bus][call.name]]]
  <2>1. call \in [pc : {"asking"}, bus : Buses, name : Names, obj : {NULL}, pid : {NULL}]
    BY <1>1 DEF PeerInv, TypeOK, Call, Idle
  <2> QED BY <2>1 DEF DaPeerGetReply, DaPeerNew
<1>3. /\ data'[o] = [bus |-> call.bus, name |-> call.name, pub |-> SystemBus, cred |-> NULL]
      /\ timer'[o] = TimeoutSec /\ watch'[o] = "requested" /\ refs'[o] = 1
      /\ \A x \in Peers \ {o} : /\ data'[x] = data[x] /\ timer'[x] = timer[x]
                                /\ watch'[x] = watch[x] /\ refs'[x] = refs[x]
  BY DEF DaPeerGetReply, DaPeerNew, PeerInv, TypeOK, ResetTimeout
<1>4. data'[o] # NULL
  BY <1>1, <1>3, PeerAssumption DEF PeerData
<1>5. TypeOK'
  <2>1. call' \in Call
    BY <1>1, <1>2 DEF Call
  <2>2. data' \in [Peers -> PeerData \cup {NULL}]
    BY <1>1, PeerAssumption DEF DaPeerGetReply, DaPeerNew, PeerInv, TypeOK, PeerData
  <2> QED
    BY <2>1, <2>2, PeerAssumption
    DEF DaPeerGetReply, DaPeerNew, PeerInv, TypeOK, DBusTypeOK, busVars, ResetTimeout
<1>6. /\ ~Cached(o) /\ held[o] = 0
      /\ \A x \in Peers : ~Building(x)
  BY <1>1 DEF PeerInv, TypeOK, RefsAccounted, Building
<1>7. o \notin borrowed
  BY <1>6, CachedAt DEF PeerInv, PointersUsable
<1>8. TableOK'
  BY <1>6, <1>1, <1>3 DEF PeerInv, TypeOK, TableOK, Cached
<1>9. CallOK'
  BY <1>1, <1>2, <1>3, <1>4 DEF PeerInv, CallOK
<1>10. \A x \in Peers : (Cached(x)' <=> Cached(x)) /\ (Building(x)' <=> x = o)
  BY <1>1, <1>2 DEF Cached, Building
<1>11. RefsAccounted'
  BY <1>6, <1>1, <1>3, <1>10 DEF PeerInv, RefsAccounted
<1>12. CallbacksMatchTable'
  BY <1>6, <1>1, <1>3, <1>4, <1>10, PeerAssumption DEF PeerInv,
      CallbacksMatchTable, NoTimer
<1>13. PointersUsable'
  BY <1>6, <1>7, <1>1, <1>3 DEF PeerInv, TypeOK, PointersUsable
<1> QED BY <1>5, <1>8, <1>9, <1>11, <1>12, <1>13 DEF PeerInv

\* da_peer_fill_cred succeeds: the peer moves from the call into the table.
LEMMA FillCredInv ==
  ASSUME PeerInv, NEW p \in Procs, DaPeerFillCred(p)
  PROVE  PeerInv'
<1> DEFINE b == call.bus
           n == call.name
<1>1. PICK o \in Peers : o = call.obj /\ Building(o)
  BY CallType DEF DaPeerFillCred, PeerInv, TypeOK, Building
<1>2. /\ b \in Buses /\ n \in Names /\ peers[b][n] = NULL
      /\ data[o] \in PeerData /\ data[o].bus = b /\ data[o].name = n
      /\ ~Cached(o) /\ held[o] = 0 /\ refs[o] = 1
      /\ \A x \in Peers \ {o} : ~Building(x)
  BY <1>1, BuildingAlone
<1>3. /\ refs' = refs /\ timer' = timer /\ watch' = watch /\ held' = held
      /\ call' = Idle /\ call'.pc = "idle"
      /\ borrowed' = borrowed \cup {o}
      /\ peers' = [peers EXCEPT ![b][n] = o]
      /\ data' = [data EXCEPT ![o].cred = p]
  <2>1. {peers[b][n]} \ {NULL} = {}
    BY <1>2
  <2>2. Release({}, {}, [data EXCEPT ![o].cred = p])
    BY <2>1, <1>1 DEF DaPeerFillCred
  <2> QED
    BY <2>2, <1>1 DEF DaPeerFillCred, Release, PeerInv, TypeOK, Idle
<1>4. /\ data'[o] \in PeerData /\ data'[o].bus = b /\ data'[o].name = n
      /\ data'[o].cred # NULL /\ data'[o] # NULL
      /\ \A x \in Peers \ {o} : data'[x] = data[x]
      /\ data' \in [Peers -> PeerData \cup {NULL}]
  BY <1>2, <1>3, PeerAssumption, BusAssumption DEF PeerInv, TypeOK, PeerData
<1>5. TypeOK'
  BY <1>2, <1>3, <1>4 DEF DaPeerFillCred, PeerInv, TypeOK, DBusTypeOK,
      busVars, Call
<1>6. \A c \in Buses, m \in Names :
          peers'[c][m] = IF c = b /\ m = n THEN o ELSE peers[c][m]
  BY <1>2, <1>3 DEF PeerInv, TypeOK
<1>7. Cached(o)' /\ \A x \in Peers \ {o} : Cached(x)' <=> Cached(x)
  BY <1>6, <1>2, PeerAssumption DEF Cached
<1>8. \A x \in Peers : ~Building(x)'
  BY <1>3 DEF Building
<1>9. TableOK'
  BY <1>2, <1>4, <1>6, <1>7 DEF PeerInv, TypeOK, TableOK, Cached
<1>10. CallOK'
  BY <1>3 DEF CallOK
<1>11. RefsAccounted'
  BY <1>1, <1>2, <1>3, <1>7, <1>8 DEF PeerInv, RefsAccounted
<1>12. CallbacksMatchTable'
  BY <1>1, <1>2, <1>3, <1>4, <1>6, <1>7, <1>8, PeerAssumption DEF PeerInv,
      TypeOK, PeerData, CallbacksMatchTable
<1>13. PointersUsable'
  BY <1>2, <1>3, <1>4, <1>6, PeerAssumption DEF PeerInv, TypeOK, PeerData,
      PointersUsable
<1> QED BY <1>5, <1>9, <1>10, <1>11, <1>12, <1>13 DEF PeerInv

\* da_peer_fill_cred fails: the new peer goes with its timer and its watch.
LEMMA FillFailInv ==
  ASSUME PeerInv, DaPeerFillFail
  PROVE  PeerInv'
<1>1. PICK o \in Peers : o = call.obj /\ Building(o)
  BY CallType DEF DaPeerFillFail, PeerInv, TypeOK, Building
<1>2. /\ ~Cached(o) /\ held[o] = 0 /\ refs[o] = 1 /\ o \notin borrowed
      /\ \A x \in Peers \ {o} : ~Building(x)
  BY <1>1, BuildingAlone
<1>3. /\ UNCHANGED <<peers, held, borrowed, busVars>>
      /\ call' = Idle /\ call'.pc = "idle"
      /\ refs' \in [Peers -> Nat] /\ data' \in [Peers -> PeerData \cup {NULL}]
      /\ timer' \in [Peers -> {NoTimer} \cup 0 .. TimeoutSec]
      /\ watch' \in [Peers -> {"off", "requested", "watching", "vanishing"}]
      /\ refs'[o] = 0 /\ data'[o] = NULL /\ timer'[o] = NoTimer /\ watch'[o] = "off"
      /\ \A x \in Peers \ {o} : /\ refs'[x] = refs[x] /\ data'[x] = data[x]
                                /\ timer'[x] = timer[x] /\ watch'[x] = watch[x]
  BY <1>1, <1>2 DEF DaPeerFillFail, Release, PeerInv, TypeOK, Idle
<1>4. TypeOK'
  BY <1>3 DEF DaPeerFillFail, DaPeerCleanup, PeerInv, TypeOK, DBusTypeOK,
      busVars, Call
<1>5. \A x \in Peers : (Cached(x)' <=> Cached(x)) /\ ~Building(x)'
  BY <1>3 DEF Cached, Building
<1>6. TableOK'
  BY <1>2, <1>3 DEF PeerInv, TypeOK, TableOK, Cached
<1>7. CallOK'
  BY <1>3 DEF CallOK
<1>8. RefsAccounted'
  BY <1>2, <1>3, <1>5 DEF PeerInv, RefsAccounted
<1>9. CallbacksMatchTable'
  BY <1>2, <1>3, <1>5 DEF PeerInv, CallbacksMatchTable
<1>10. PointersUsable'
  BY <1>2, <1>3 DEF PeerInv, TypeOK, PointersUsable
<1> QED BY <1>4, <1>6, <1>7, <1>8, <1>9, <1>10 DEF PeerInv

\* A reference more: what it refers to exists and is complete.
LEMMA RefInv ==
  ASSUME PeerInv, NEW o \in Peers, DaPeerRef(o)
  PROVE  PeerInv'
<1>1. data[o] # NULL /\ data[o].cred # NULL
  BY DEF DaPeerRef, PeerInv, PointersUsable
<1>2. TypeOK'
  BY PeerAssumption DEF DaPeerRef, PeerInv, TypeOK, DBusTypeOK, busVars
<1>3. RefsAccounted'
  BY DEF DaPeerRef, PeerInv, TypeOK, RefsAccounted, Cached, Building
<1>4. PointersUsable'
  BY <1>1 DEF DaPeerRef, PeerInv, TypeOK, PointersUsable
<1> QED BY <1>2, <1>3, <1>4
   DEF DaPeerRef, PeerInv, TableOK, CallOK, CallbacksMatchTable, Cached,
       Building

\* The last reference of the application may be the last one of all.
LEMMA UnrefInv ==
  ASSUME PeerInv, NEW o \in Peers, DaPeerUnref(o)
  PROVE  PeerInv'
<1>1. /\ held[o] > 0 /\ refs[o] \in Nat /\ refs[o] >= held[o]
      /\ ~Building(o)
      /\ refs[o] = 1 => ~Cached(o) /\ held[o] = 1 /\ o \notin borrowed
  <2>1. ~Building(o)
    BY BuildingAlone DEF DaPeerUnref, PeerInv, TypeOK
  <2>2. /\ held[o] > 0 /\ refs[o] \in Nat /\ refs[o] >= held[o]
        /\ refs[o] = 1 => ~Cached(o) /\ held[o] = 1
    BY DEF DaPeerUnref, PeerInv, TypeOK, RefsAccounted
  <2>3. o \in borrowed => Cached(o)
    BY CachedAt DEF PeerInv, PointersUsable
  <2> QED BY <2>1, <2>2, <2>3
<1>2. /\ UNCHANGED <<busVars, connection, peers, call, borrowed>>
      /\ refs' \in [Peers -> Nat] /\ data' \in [Peers -> PeerData \cup {NULL}]
      /\ timer' \in [Peers -> {NoTimer} \cup 0 .. TimeoutSec]
      /\ watch' \in [Peers -> {"off", "requested", "watching", "vanishing"}]
      /\ held' \in [Peers -> 0 .. MaxHeld]
      /\ refs'[o] = refs[o] - 1 /\ held'[o] = held[o] - 1
      /\ IF refs[o] = 1
         THEN data'[o] = NULL /\ timer'[o] = NoTimer /\ watch'[o] = "off"
         ELSE data'[o] = data[o] /\ timer'[o] = timer[o] /\ watch'[o] = watch[o]
      /\ \A x \in Peers \ {o} : /\ refs'[x] = refs[x] /\ data'[x] = data[x]
                                /\ timer'[x] = timer[x] /\ watch'[x] = watch[x]
                                /\ held'[x] = held[x]
  <2>1. held' \in [Peers -> 0 .. MaxHeld] /\ held'[o] = held[o] - 1
        /\ \A x \in Peers \ {o} : held'[x] = held[x]
    BY <1>1, PeerAssumption DEF DaPeerUnref, PeerInv, TypeOK
  <2> QED BY <2>1, <1>1 DEF DaPeerUnref, Release, PeerInv, TypeOK
<1>3. TypeOK'
  BY <1>2 DEF PeerInv, TypeOK, DBusTypeOK, busVars
<1>4. \A x \in Peers : (Cached(x)' <=> Cached(x)) /\ (Building(x)' <=> Building(x))
  BY <1>2 DEF Cached, Building
<1>5. TableOK'
  BY <1>1, <1>2 DEF PeerInv, TypeOK, TableOK, Cached
<1>6. CallOK'
  <2>1. call.pc = "reading" => call.obj \in Peers \ {o}
    BY <1>1, CallType DEF Building, PeerInv, TypeOK
  <2> QED BY <2>1, <1>2 DEF PeerInv, CallOK
<1>7. RefsAccounted'
  BY <1>1, <1>2, <1>4 DEF PeerInv, TypeOK, RefsAccounted
<1>8. CallbacksMatchTable'
  <2> SUFFICES ASSUME NEW x \in Peers
               PROVE  /\ timer'[x] # NoTimer \/ watch'[x] # "off" =>
                          /\ data'[x] # NULL
                          /\ Building(x)' \/ peers'[data'[x].bus][data'[x].name] = x
                      /\ Cached(x)' \/ Building(x)' => timer'[x] # NoTimer /\ watch'[x] # "off"
    BY DEF CallbacksMatchTable
  <2> QED BY <1>1, <1>2, <1>4 DEF PeerInv, CallbacksMatchTable
<1>9. PointersUsable'
  BY <1>1, <1>2 DEF PeerInv, TypeOK, PointersUsable
<1> QED BY <1>3, <1>5, <1>6, <1>7, <1>8, <1>9 DEF PeerInv

\* da_peer_remove of a cached peer, for a timeout, a watch or da_peer_flush.
LEMMA RemoveInv ==
  ASSUME PeerInv, NEW o \in Peers, Cached(o), call = Idle, DaPeerRemove(o),
         UNCHANGED <<busVars, call, held>>, borrowed' \subseteq borrowed \ {o}
  PROVE  PeerInv'
<1> DEFINE b == data[o].bus
           n == data[o].name
<1>1. /\ data[o] # NULL /\ data[o] \in PeerData /\ b \in Buses /\ n \in Names
      /\ peers[b][n] = o /\ call.pc = "idle"
      /\ refs[o] = held[o] + 1 /\ held[o] \in Nat
      /\ \A x \in Peers : ~Building(x) /\ ~Building(x)'
  BY CachedAt DEF PeerInv, TypeOK, PeerData, RefsAccounted, Building, Idle
<1>2. /\ refs' \in [Peers -> Nat] /\ data' \in [Peers -> PeerData \cup {NULL}]
      /\ timer' \in [Peers -> {NoTimer} \cup 0 .. TimeoutSec]
      /\ watch' \in [Peers -> {"off", "requested", "watching", "vanishing"}]
      /\ refs'[o] = held[o] /\ timer'[o] = NoTimer /\ watch'[o] = "off"
      /\ held[o] > 0 => data'[o] = data[o]
      /\ \A x \in Peers \ {o} : /\ refs'[x] = refs[x] /\ data'[x] = data[x]
                                /\ timer'[x] = timer[x] /\ watch'[x] = watch[x]
  <2>1. Release({o}, {o}, data)
    <3>1. {peers[b][n]} \ {NULL} = {o}
      BY <1>1, PeerAssumption
    <3> QED BY <3>1 DEF DaPeerRemove
  <2> QED BY <2>1, <1>1 DEF Release, PeerInv, TypeOK
<1>3. /\ peers' = [peers EXCEPT ![b][n] = NULL]
      /\ \A c \in Buses, m \in Names :
            peers'[c][m] = IF c = b /\ m = n THEN NULL ELSE peers[c][m]
  BY <1>1 DEF DaPeerRemove, PeerInv, TypeOK
<1>4. TypeOK'
  <2>1. connection' \in [Buses -> BOOLEAN]
    BY <1>1 DEF DaPeerRemove, DaPeerCleanup, PeerInv, TypeOK
  <2>2. peers' \in [Buses -> [Names -> Peers \cup {NULL}]]
    BY <1>1, <1>3 DEF PeerInv, TypeOK
  <2> QED BY <2>1, <2>2, <1>2 DEF PeerInv, TypeOK, DBusTypeOK, busVars
<1>5. \A c \in Buses, m \in Names : peers[c][m] = o => c = b /\ m = n
  BY PeerAssumption DEF PeerInv, TableOK
<1>6. ~Cached(o)' /\ \A x \in Peers \ {o} : Cached(x)' <=> Cached(x)
  BY <1>1, <1>3, <1>5, PeerAssumption DEF Cached
<1>7. TableOK'
  BY <1>2, <1>3, <1>5 DEF PeerInv, TypeOK, TableOK
<1>8. CallOK'
  BY <1>1 DEF CallOK
<1>9. RefsAccounted'
  BY <1>1, <1>2, <1>6 DEF PeerInv, RefsAccounted
<1>10. CallbacksMatchTable'
  <2> SUFFICES ASSUME NEW x \in Peers \ {o}, timer[x] # NoTimer \/ watch[x] # "off"
               PROVE  peers'[data[x].bus][data[x].name] = x
    BY <1>1, <1>2, <1>6 DEF PeerInv, CallbacksMatchTable
  <2>1. peers[data[x].bus][data[x].name] = x /\ data[x] \in PeerData
    BY <1>1 DEF PeerInv, TypeOK, CallbacksMatchTable
  <2> QED BY <2>1, <1>1, <1>3 DEF PeerData
<1>11. PointersUsable'
  <2> SUFFICES ASSUME NEW x \in Peers
               PROVE  /\ held[x] > 0 => data'[x] # NULL /\ data'[x].cred # NULL
                      /\ x \in borrowed \ {o} =>
                            /\ data'[x] # NULL /\ data'[x].cred # NULL
                            /\ peers'[data'[x].bus][data'[x].name] = x
    BY DEF PointersUsable
  <2>1. held[x] > 0 => data'[x] # NULL /\ data'[x].cred # NULL
    BY <1>2 DEF PeerInv, PointersUsable
  <2>2. ASSUME x \in borrowed \ {o}
        PROVE  /\ data'[x] # NULL /\ data'[x].cred # NULL
               /\ peers'[data'[x].bus][data'[x].name] = x
    <3>1. data'[x] = data[x] /\ peers[data[x].bus][data[x].name] = x
          /\ data[x] # NULL /\ data[x] \in PeerData /\ data[x].cred # NULL
      BY <2>2, <1>2 DEF PeerInv, TypeOK, PointersUsable
    <3> QED BY <3>1, <2>2, <1>1, <1>3 DEF PeerData
  <2> QED BY <2>1, <2>2
<1> QED BY <1>4, <1>7, <1>8, <1>9, <1>10, <1>11 DEF PeerInv

\* da_peer_flush of one name.
LEMMA FlushInv ==
  ASSUME PeerInv, NEW b \in Buses, NEW n \in Names, DaPeerFlush(b, n)
  PROVE  PeerInv'
<1>1. peers[b][n] \in Peers /\ Cached(peers[b][n])
  BY DEF DaPeerFlush, Cached, PeerInv, TypeOK
<1> QED BY <1>1, RemoveInv DEF DaPeerFlush

\* The timeout and the name watch are only ever called for a cached peer.
LEMMA CallbackInv ==
  ASSUME PeerInv, NEW o \in Peers, DaPeerTimeout(o) \/ DaPeerVanished(o)
  PROVE  PeerInv'
<1>1. call = Idle /\ ~Building(o)
  BY DEF DaPeerTimeout, DaPeerVanished, Building, Idle
<1>2. Cached(o)
  BY <1>1, CachedAt DEF DaPeerTimeout, DaPeerVanished, PeerInv,
      CallbacksMatchTable, NoTimer
<1> QED BY <1>1, <1>2, RemoveInv DEF DaPeerTimeout, DaPeerVanished

\* da_peer_flush of a whole bus.
LEMMA FlushAllInv ==
  ASSUME PeerInv, NEW b \in Buses, DaPeerFlushAll(b)
  PROVE  PeerInv'
<1> DEFINE all == {peers[b][n] : n \in Names} \ {NULL}
<1>1. /\ call = Idle /\ call.pc = "idle" /\ UNCHANGED <<busVars, call, held>>
      /\ borrowed' = borrowed \ all
      /\ Release(all, all, data)
  BY DEF DaPeerFlushAll, Idle
<1>2. \A x \in Peers : ~Building(x) /\ ~Building(x)'
  BY <1>1 DEF Building
<1>3. \A x \in all : /\ x \in Peers /\ Cached(x) /\ refs[x] = held[x] + 1
                     /\ data[x].bus = b
  BY DEF PeerInv, TypeOK, TableOK, RefsAccounted, Cached
<1>4. /\ refs' \in [Peers -> Nat] /\ data' \in [Peers -> PeerData \cup {NULL}]
      /\ timer' \in [Peers -> {NoTimer} \cup 0 .. TimeoutSec]
      /\ watch' \in [Peers -> {"off", "requested", "watching", "vanishing"}]
      /\ \A x \in all : /\ refs'[x] = held[x] /\ timer'[x] = NoTimer /\ watch'[x] = "off"
                        /\ held[x] > 0 => data'[x] = data[x]
      /\ \A x \in Peers \ all : /\ refs'[x] = refs[x] /\ data'[x] = data[x]
                                /\ timer'[x] = timer[x] /\ watch'[x] = watch[x]
  <2> HIDE DEF all
  <2> QED BY <1>1, <1>3 DEF Release, PeerInv, TypeOK
<1>5. /\ peers' = [peers EXCEPT ![b] = [n \in Names |-> NULL]]
      /\ \A c \in Buses, m \in Names : peers'[c][m] = IF c = b THEN NULL ELSE peers[c][m]
  BY DEF DaPeerFlushAll, PeerInv, TypeOK
<1>6. TypeOK'
  BY <1>1, <1>4, <1>5 DEF DaPeerFlushAll, DaPeerCleanup, PeerInv, TypeOK,
      DBusTypeOK, busVars
<1>7. \A x \in Peers : Cached(x)' <=> Cached(x) /\ x \notin all
  <2>1. \A c \in Buses, m \in Names : peers[c][m] \in all => c = b
    BY <1>3 DEF PeerInv, TableOK
  <2> QED BY <2>1, <1>5, PeerAssumption DEF Cached
<1>8. TableOK'
  BY <1>3, <1>4, <1>5 DEF PeerInv, TypeOK, TableOK
<1>9. CallOK'
  BY <1>1 DEF CallOK
<1>10. RefsAccounted'
  BY <1>1, <1>2, <1>3, <1>4, <1>7 DEF PeerInv, RefsAccounted
<1>11. \A x \in Peers \ all : data[x] # NULL /\ peers[data[x].bus][data[x].name] = x =>
          peers'[data'[x].bus][data'[x].name] = x
  <2> SUFFICES ASSUME NEW x \in Peers \ all, data[x] # NULL, peers[data[x].bus][data[x].name] = x
               PROVE  peers'[data[x].bus][data[x].name] = x
    BY <1>4
  <2>1. data[x].bus \in Buses /\ data[x].name \in Names
    BY DEF PeerInv, TypeOK, PeerData
  <2>2. data[x].bus # b
    BY <2>1, PeerAssumption
  <2> QED BY <2>1, <2>2, <1>5
<1>12. CallbacksMatchTable'
  <2> HIDE DEF all
  <2> QED BY <1>2, <1>4, <1>7, <1>11 DEF PeerInv, CallbacksMatchTable
<1>13. PointersUsable'
  <2> HIDE DEF all
  <2> QED BY <1>1, <1>3, <1>4, <1>11 DEF PeerInv, PointersUsable
<1> QED BY <1>6, <1>8, <1>9, <1>10, <1>12, <1>13 DEF PeerInv

\* The world changes names, processes, watches and the clock, but it neither
\* starts nor ends a timer or a watch.
LEMMA WorldInv ==
  ASSUME PeerInv, World
  PROVE  PeerInv'
<1> DEFINE Quiet ==
      /\ UNCHANGED <<peers, refs, data, call, borrowed, held>>
      /\ \A o \in Peers : /\ timer'[o] = NoTimer <=> timer[o] = NoTimer
                          /\ watch'[o] = "off" <=> watch[o] = "off"
<1>1. ASSUME NEW o \in Peers, WatchAnswered(o)
      PROVE  TypeOK' /\ Quiet
  <2>1. watch' \in [Peers -> {"off", "requested", "watching", "vanishing"}]
    BY <1>1 DEF WatchAnswered, PeerInv, TypeOK
  <2>2. \A x \in Peers : watch'[x] = "off" <=> watch[x] = "off"
    BY <1>1 DEF WatchAnswered, PeerInv, TypeOK
  <2> QED BY <2>1, <2>2, <1>1 DEF WatchAnswered, PeerInv, TypeOK, DBusTypeOK,
      busVars
<1>2. ASSUME NEW b \in Buses, NEW n \in Names, Notify(b, n)
      PROVE  /\ watch' \in [Peers -> {"off", "requested", "watching", "vanishing"}]
             /\ \A x \in Peers : watch'[x] = "off" <=> watch[x] = "off"
  BY <1>2 DEF Notify, PeerInv, TypeOK
<1>3. ASSUME NEW b \in Buses, NEW n \in Names, NEW p \in Procs, NameAcquired(b, n, p)
      PROVE  TypeOK' /\ Quiet
  BY <1>2, <1>3 DEF NameAcquired, RequestName, PeerInv, TypeOK, DBusTypeOK
<1>4. ASSUME NEW b \in Buses, NEW n \in Names, NameReleased(b, n)
      PROVE  TypeOK' /\ Quiet
  BY <1>2, <1>4 DEF NameReleased, ReleaseName, PeerInv, TypeOK, DBusTypeOK
<1>5. ASSUME NEW p \in Procs, ProcStarts(p) \/ ProcExits(p)
      PROVE  TypeOK' /\ Quiet
  BY <1>5 DEF ProcStarts, ProcExits, ProcStart, ProcExit, peerVars, PeerInv,
      TypeOK, DBusTypeOK
<1>6. ASSUME Tick
      PROVE  TypeOK' /\ Quiet
  <2>1. timer' \in [Peers -> {NoTimer} \cup 0 .. TimeoutSec]
    BY <1>6, PeerAssumption DEF Tick, NoTimer, PeerInv, TypeOK
  <2>2. \A o \in Peers : timer'[o] = NoTimer <=> timer[o] = NoTimer
    BY <1>6, PeerAssumption DEF Tick, NoTimer, PeerInv, TypeOK
  <2>3. TypeOK'
    BY <2>1, <1>6 DEF Tick, PeerInv, TypeOK, DBusTypeOK, busVars
  <2>4. Quiet
    BY <2>2, <1>6 DEF Tick
  <2> QED BY <2>3, <2>4
<1>7. TypeOK' /\ Quiet
  <2> HIDE DEF Quiet
  <2> QED BY <1>1, <1>3, <1>4, <1>5, <1>6 DEF World
<1> QED BY <1>7
   DEF PeerInv, TableOK, CallOK, RefsAccounted, CallbacksMatchTable,
       PointersUsable, Cached, Building

\* The daemon's error ends the call and changes no peer.
LEMMA GetErrorInv ==
  ASSUME PeerInv, DaPeerGetError
  PROVE  PeerInv'
<1>1. call'.pc = "idle" /\ call' \in Call /\ \A o \in Peers : ~Building(o) /\ ~Building(o)'
  BY DEF DaPeerGetError, Building, Idle, Call
<1>2. TypeOK'
  BY <1>1 DEF DaPeerGetError, DaPeerCleanup, PeerInv, TypeOK, DBusTypeOK,
      busVars
<1> QED BY <1>1, <1>2
   DEF DaPeerGetError, PeerInv, TableOK, CallOK, RefsAccounted,
       CallbacksMatchTable, PointersUsable, Cached

\* Every step keeps the invariant.
LEMMA NextInv == PeerInv /\ [Next]_vars => PeerInv'
<1> SUFFICES ASSUME PeerInv, [Next]_vars
             PROVE  PeerInv'
  OBVIOUS
<1>1. CASE Get
  BY <1>1, GetHitInv, GetMissInv DEF Get
<1>2. CASE GetStep
  BY <1>2, GetReplyInv, GetErrorInv, FillCredInv, FillFailInv DEF GetStep
<1>3. CASE Application
  BY <1>3, RefInv, UnrefInv, FlushInv, FlushAllInv DEF Application
<1>4. CASE MainLoop
  BY <1>4, CallbackInv DEF MainLoop
<1>5. CASE World
  BY <1>5, WorldInv
<1>6. CASE UNCHANGED vars
  BY <1>6
  DEF vars, busVars, peerVars, PeerInv, TypeOK, DBusTypeOK, TableOK, CallOK,
      RefsAccounted,
      CallbacksMatchTable, PointersUsable, Cached, Building
<1> QED BY <1>1, <1>2, <1>3, <1>4, <1>5, <1>6 DEF Next

\* PeerInv is an invariant.
THEOREM PeerInvariant == Spec => []PeerInv
<1>1. Init => PeerInv
  BY InitInv
<1>2. PeerInv /\ [Next]_vars => PeerInv'
  BY NextInv
<1> QED BY <1>1, <1>2, PTL DEF Spec

\* All variables keep their types.
THEOREM PeerTypeCorrect == Spec => []TypeOK
<1>1. PeerInv => TypeOK
  BY DEF PeerInv
<1> QED BY <1>1, PeerInvariant, PTL

\* Every reference is owned by the table, by the da_peer_get in progress or by
\* the application, and an object without references is free.
THEOREM PeerRefsAccounted == Spec => []RefsAccounted
<1>1. PeerInv => RefsAccounted
  BY DEF PeerInv
<1> QED BY <1>1, PeerInvariant, PTL

\* Timers and watches belong to peers that are cached or being made, and each
\* of these peers has both.
THEOREM PeerCallbacksMatchTable == Spec => []CallbacksMatchTable
<1>1. PeerInv => CallbacksMatchTable
  BY DEF PeerInv
<1> QED BY <1>1, PeerInvariant, PTL

\* Whatever pointer the application may use leads to a complete peer.
THEOREM PeerPointersUsable == Spec => []PointersUsable
<1>1. PeerInv => PointersUsable
  BY DEF PeerInv
<1> QED BY <1>1, PeerInvariant, PTL

-----------------------------------------------------------------------------
(* The connection.                                                         *)

\* There is a connection to a bus exactly as long as something is cached for it
\* or a da_peer_get is using it.  The proof takes one action at a time.
THEOREM PeerConnectedIffUsed == Spec => []ConnectedIffUsed
<1> DEFINE Used(b) == \E n \in Names : peers[b][n] # NULL
           Inv == PeerInv /\ ConnectedIffUsed
<1>1. Init => ConnectedIffUsed
  <2> SUFFICES ASSUME Init, NEW b \in Buses
               PROVE  /\ ~connection[b] /\ call.pc = "idle"
                      /\ \A n \in Names : peers[b][n] = NULL
    BY DEF ConnectedIffUsed
  <2> QED BY DEF Init, Idle
<1>2. ASSUME PeerInv, ConnectedIffUsed, [Next]_vars
      PROVE  ConnectedIffUsed'
  <2> USE <1>2 DEF ConnectedIffUsed
  <2>1. ASSUME NEW b \in Buses, NEW n \in Names, DaPeerGetHit(b, n) \/ DaPeerGetMiss(b, n)
        PROVE  ConnectedIffUsed'
    <3>1. CASE DaPeerGetHit(b, n)
      BY <3>1 DEF DaPeerGetHit
    <3>2. CASE DaPeerGetMiss(b, n)
      <4>1. call.pc = "idle" /\ call'.pc = "asking" /\ call'.bus = b
        BY <3>2 DEF DaPeerGetMiss, DaPeerBus, Idle
      <4> QED BY <4>1, <3>2 DEF DaPeerGetMiss, DaPeerBus, PeerInv, TypeOK
    <3> QED BY <2>1, <3>1, <3>2
  <2>2. ASSUME NEW o \in Peers, DaPeerGetReply(o)
        PROVE  ConnectedIffUsed'
    BY <2>2, CallType DEF DaPeerGetReply, DaPeerNew, PeerInv, TypeOK
  <2>3. CASE DaPeerGetError
    BY <2>3, CallType DEF DaPeerGetError, DaPeerCleanup, Idle, PeerInv, TypeOK
  <2>4. ASSUME NEW p \in Procs, DaPeerFillCred(p)
        PROVE  ConnectedIffUsed'
    BY <2>4, CallType, PeerAssumption DEF DaPeerFillCred, Idle, PeerInv, TypeOK
  <2>5. CASE DaPeerFillFail
    BY <2>5, CallType DEF DaPeerFillFail, DaPeerCleanup, Idle, PeerInv, TypeOK
  <2>6. ASSUME NEW o \in Peers, DaPeerRef(o) \/ DaPeerUnref(o)
        PROVE  ConnectedIffUsed'
    BY <2>6 DEF DaPeerRef, DaPeerUnref
  <2>7. ASSUME NEW o \in Peers, call = Idle, Cached(o), DaPeerRemove(o), UNCHANGED call
        PROVE  ConnectedIffUsed'
    <3>1. /\ data[o].bus \in Buses /\ data[o].name \in Names
          /\ peers[data[o].bus][data[o].name] = o /\ o # NULL
      BY <2>7, CachedAt, PeerAssumption DEF PeerInv, TypeOK, PeerData
    <3> QED BY <2>7, <3>1 DEF DaPeerRemove, DaPeerCleanup, Idle, PeerInv, TypeOK
  <2>8. ASSUME NEW b \in Buses, NEW n \in Names, DaPeerFlush(b, n)
        PROVE  ConnectedIffUsed'
    <3>1. peers[b][n] \in Peers /\ Cached(peers[b][n])
      BY <2>8 DEF DaPeerFlush, Cached, PeerInv, TypeOK
    <3> QED BY <2>7, <2>8, <3>1 DEF DaPeerFlush
  <2>9. ASSUME NEW b \in Buses, DaPeerFlushAll(b)
        PROVE  ConnectedIffUsed'
    BY <2>9 DEF DaPeerFlushAll, DaPeerCleanup, Idle, PeerInv, TypeOK
  <2>10. ASSUME NEW o \in Peers, DaPeerTimeout(o) \/ DaPeerVanished(o)
         PROVE  ConnectedIffUsed'
    <3>1. Cached(o)
      BY <2>10, CachedAt
      DEF DaPeerTimeout, DaPeerVanished, Building, Idle, PeerInv,
          CallbacksMatchTable, NoTimer
    <3> QED BY <2>7, <2>10, <3>1 DEF DaPeerTimeout, DaPeerVanished
  <2>11. CASE World
    BY <2>11
    DEF World, WatchAnswered, NameAcquired, NameReleased, ProcStarts,
        ProcExits, Tick, peerVars
  <2>12. CASE UNCHANGED vars
    BY <2>12 DEF vars, peerVars
  <2> QED BY <2>1, <2>2, <2>3, <2>4, <2>5, <2>6, <2>8, <2>9, <2>10, <2>11, <2>12
     DEF Next, Get, GetStep, Application, MainLoop
<1> QED BY <1>1, <1>2, PeerInvariant, PTL DEF Spec

-----------------------------------------------------------------------------
(* Published peers do not change.                                          *)

\* Release does not change what survives it.
LEMMA ReleaseKeeps ==
  ASSUME TypeOK, NEW S, NEW D, Release(S, D, data), NEW x \in Peers, refs'[x] > 0
  PROVE  data'[x] = data[x]
BY DEF Release, TypeOK

\* No step changes a peer that was published, or its place in the table.
LEMMA StepImmutable == PeerInv /\ [Next]_vars => Immutable
<1> SUFFICES ASSUME PeerInv, [Next]_vars
             PROVE  Immutable
  OBVIOUS
<1>1. CASE UNCHANGED <<peers, data>>
  BY <1>1 DEF Immutable
<1>2. ASSUME NEW o \in Peers, DaPeerGetReply(o)
      PROVE  Immutable
  BY <1>2 DEF DaPeerGetReply, DaPeerNew, Immutable, PeerInv, TypeOK
<1>3. ASSUME NEW p \in Procs, DaPeerFillCred(p)
      PROVE  Immutable
  <2>1. PICK o \in Peers : o = call.obj /\ Building(o)
    BY <1>3, CallType DEF DaPeerFillCred, PeerInv, TypeOK, Building
  <2>2. /\ call.bus \in Buses /\ call.name \in Names
        /\ peers[call.bus][call.name] = NULL /\ data[o].cred = NULL
    BY <2>1, BuildingAlone DEF Building, PeerInv, CallOK
  <2>3. peers' = [peers EXCEPT ![call.bus][call.name] = o]
    BY <1>3, <2>1 DEF DaPeerFillCred
  <2>4. \A x \in Peers \ {o} : refs'[x] > 0 => data'[x] = data[x]
    BY <1>3, <2>1 DEF DaPeerFillCred, Release, PeerInv, TypeOK
  <2> QED BY <2>2, <2>3, <2>4 DEF Immutable, PeerInv, TypeOK
<1>4. CASE DaPeerFillFail
  BY <1>4, ReleaseKeeps DEF DaPeerFillFail, Immutable, PeerInv
<1>5. ASSUME NEW o \in Peers, DaPeerUnref(o)
      PROVE  Immutable
  BY <1>5, ReleaseKeeps DEF DaPeerUnref, Immutable, PeerInv
<1>6. ASSUME NEW o \in Peers, DaPeerRemove(o)
      PROVE  Immutable
  <2>1. \A x \in Peers : refs'[x] > 0 => data'[x] = data[x]
    BY <1>6, ReleaseKeeps DEF DaPeerRemove, PeerInv
  <2>2. \A b \in Buses, n \in Names : peers'[b][n] \in {peers[b][n], NULL}
    BY <1>6 DEF DaPeerRemove, PeerInv, TypeOK
  <2> QED BY <2>1, <2>2 DEF Immutable
<1>7. ASSUME NEW b \in Buses, NEW n \in Names, DaPeerFlush(b, n)
      PROVE  Immutable
  <2>1. peers[b][n] \in Peers
    BY <1>7 DEF DaPeerFlush, PeerInv, TypeOK
  <2> QED BY <2>1, <1>6, <1>7 DEF DaPeerFlush
<1>8. ASSUME NEW b \in Buses, DaPeerFlushAll(b)
      PROVE  Immutable
  <2>1. \A x \in Peers : refs'[x] > 0 => data'[x] = data[x]
    BY <1>8, ReleaseKeeps DEF DaPeerFlushAll, PeerInv
  <2>2. \A c \in Buses, n \in Names : peers'[c][n] \in {peers[c][n], NULL}
    BY <1>8 DEF DaPeerFlushAll, PeerInv, TypeOK
  <2> QED BY <2>1, <2>2 DEF Immutable
<1>9. CASE MainLoop
  BY <1>6, <1>9 DEF MainLoop, DaPeerTimeout, DaPeerVanished
<1>10. CASE Get
  BY <1>1, <1>10 DEF Get, DaPeerGetHit, DaPeerGetMiss, DaPeerBus
<1>11. CASE DaPeerGetError
  BY <1>1, <1>11 DEF DaPeerGetError
<1>12. ASSUME NEW o \in Peers, DaPeerRef(o)
       PROVE  Immutable
  BY <1>1, <1>12 DEF DaPeerRef
<1>13. CASE World
  BY <1>1, <1>13
  DEF World, WatchAnswered, NameAcquired, NameReleased, ProcStarts, ProcExits,
      Tick, peerVars
<1>14. CASE UNCHANGED vars
  BY <1>1, <1>14 DEF vars, peerVars
<1> QED BY <1>2, <1>3, <1>4, <1>5, <1>7, <1>8, <1>9, <1>10, <1>11, <1>12,
    <1>13, <1>14
   DEF Next, GetStep, Application

\* An entry that stays in the table stays the same object with the same
\* contents.
LEMMA EntriesKept ==
  ASSUME PeerInv, PeerInv', [Next]_vars, NEW b \in Buses, NEW n \in Names,
         peers[b][n] # NULL, peers'[b][n] # NULL
  PROVE  /\ peers'[b][n] = peers[b][n]
         /\ data'[peers[b][n]] = data[peers[b][n]]
<1>1. peers[b][n] \in Peers /\ data[peers[b][n]].cred # NULL
  BY DEF PeerInv, TypeOK, TableOK
<1>2. peers'[b][n] = peers[b][n] /\ Cached(peers[b][n])
  BY StepImmutable DEF Immutable, Cached
<1>3. PICK o \in Peers : o = peers[b][n] /\ Cached(o) /\ Cached(o)'
  BY <1>1, <1>2 DEF Cached
<1>4. refs[o] > 0 /\ refs'[o] > 0
  BY <1>3 DEF PeerInv, TypeOK, RefsAccounted
<1> QED BY <1>1, <1>2, <1>3, <1>4, StepImmutable DEF Immutable

\* Credentials that the application can see do not change under its hands.
THEOREM PeerSnapshotsImmutable == Spec => SnapshotsImmutable
<1>1. PeerInv /\ [Next]_vars => [Immutable]_vars
  BY StepImmutable
<1> QED BY <1>1, PeerInvariant, PTL DEF Spec, SnapshotsImmutable

-----------------------------------------------------------------------------
(* Unique names.                                                           *)

\* Processes that are alive have different pids, and only a process that has
\* been started owns a name.
BusInv ==
    /\ \A p, q \in Procs : Alive(p) /\ Alive(q) /\ PidOf[p] = PidOf[q] => p = q
    /\ \A b \in Buses, n \in Names : owner[b][n] \in Procs => status[owner[b][n]] # "new"

\* A unique name that is being looked up, or that is cached, has (had) an owner;
\* if that process is alive, then it is the one that the daemon told the pid of
\* and the one whose credentials are cached.
UniqueTracked ==
    /\ call.pc = "reading" /\ call.name \in Unique =>
        /\ owner[call.bus][call.name] # NULL
        /\ Alive(owner[call.bus][call.name]) =>
              PidOf[owner[call.bus][call.name]] = call.pid
    /\ \A b \in Buses, n \in Unique : peers[b][n] # NULL => owner[b][n] # NULL
    /\ UniqueNameFresh

\* What the library does leaves the world alone.
LEMMA WorldOnly ==
  ASSUME [Next]_vars
  PROVE  \/ UNCHANGED busVars
         \/ \E b \in Buses, n \in Names, p \in Procs : NameAcquired(b, n, p)
         \/ \E b \in Buses, n \in Names : NameReleased(b, n)
         \/ \E p \in Procs : ProcStarts(p) \/ ProcExits(p)
<1>1. CASE Get
  BY <1>1 DEF Get, DaPeerGetHit, DaPeerGetMiss, DaPeerBus
<1>2. CASE GetStep
  BY <1>2 DEF GetStep, DaPeerGetReply, DaPeerNew, DaPeerGetError, DaPeerFillCred,
      DaPeerFillFail
<1>3. CASE Application
  BY <1>3 DEF Application, DaPeerRef, DaPeerUnref, DaPeerFlush, DaPeerFlushAll
<1>4. CASE MainLoop
  BY <1>4 DEF MainLoop, DaPeerTimeout, DaPeerVanished
<1>5. CASE World
  BY <1>5 DEF World, WatchAnswered, Tick
<1>6. CASE UNCHANGED vars
  BY <1>6 DEF vars
<1> QED BY <1>1, <1>2, <1>3, <1>4, <1>5, <1>6 DEF Next

\* Only the success of da_peer_fill_cred caches a peer, and only the answer of
\* the daemon makes da_peer_get read a status file.
LEMMA OnlyFillCaches ==
  ASSUME PeerInv, [Next]_vars,
         ~ \E p \in Procs : DaPeerFillCred(p),
         ~ \E o \in Peers : DaPeerGetReply(o)
  PROVE  /\ \A b \in Buses, n \in Names : peers'[b][n] # NULL => peers[b][n] # NULL
         /\ call'.pc = "reading" => call' = call
<1>1. CASE Get
  BY <1>1 DEF Get, DaPeerGetHit, DaPeerGetMiss, DaPeerBus, Idle
<1>2. CASE GetStep
  BY <1>2 DEF GetStep, DaPeerGetError, DaPeerFillFail, Idle
<1>3. CASE Application
  <2>1. ASSUME NEW o \in Peers, DaPeerRef(o) \/ DaPeerUnref(o)
        PROVE  UNCHANGED <<peers, call>>
    BY <2>1 DEF DaPeerRef, DaPeerUnref
  <2>2. ASSUME NEW b \in Buses, NEW n \in Names, DaPeerFlush(b, n)
        PROVE  /\ UNCHANGED call
               /\ \A c \in Buses, m \in Names : peers'[c][m] # NULL => peers[c][m] # NULL
    BY <2>2 DEF DaPeerFlush, DaPeerRemove, PeerInv, TypeOK
  <2>3. ASSUME NEW b \in Buses, DaPeerFlushAll(b)
        PROVE  /\ UNCHANGED call
               /\ \A c \in Buses, m \in Names : peers'[c][m] # NULL => peers[c][m] # NULL
    BY <2>3 DEF DaPeerFlushAll, PeerInv, TypeOK
  <2> QED BY <1>3, <2>1, <2>2, <2>3 DEF Application
<1>4. CASE MainLoop
  BY <1>4 DEF MainLoop, DaPeerTimeout, DaPeerVanished, DaPeerRemove, PeerInv,
      TypeOK
<1>5. CASE World
  BY <1>5
  DEF World, WatchAnswered, NameAcquired, NameReleased, ProcStarts, ProcExits,
      Tick, peerVars
<1>6. CASE UNCHANGED vars
  BY <1>6 DEF vars, peerVars
<1> QED BY <1>1, <1>2, <1>3, <1>4, <1>5, <1>6 DEF Next

\* BusInv is an invariant: pids are unique among living processes.
LEMMA BusInvariant == Spec => []BusInv
<1>1. Init => BusInv
  BY BusAssumption DEF Init, DBusInit, BusInv, Alive
<1>2. PeerInv /\ BusInv /\ [Next]_vars => BusInv'
  <2> SUFFICES ASSUME PeerInv, BusInv, [Next]_vars
               PROVE  BusInv'
    OBVIOUS
  <2> USE DEF BusInv, Alive, PeerInv, TypeOK, DBusTypeOK
  <2>1. CASE UNCHANGED busVars
    BY <2>1 DEF busVars
  <2>2. ASSUME NEW b \in Buses, NEW n \in Names, NEW p \in Procs, NameAcquired(b, n, p)
        PROVE  BusInv'
    BY <2>2 DEF NameAcquired, RequestName
  <2>3. ASSUME NEW b \in Buses, NEW n \in Names, NameReleased(b, n)
        PROVE  BusInv'
    BY <2>3, BusAssumption DEF NameReleased, ReleaseName
  <2>4. ASSUME NEW p \in Procs, ProcStarts(p)
        PROVE  BusInv'
    BY <2>4 DEF ProcStarts, ProcStart
  <2>5. ASSUME NEW p \in Procs, ProcExits(p)
        PROVE  BusInv'
    BY <2>5 DEF ProcExits, ProcExit
  <2> QED BY <2>1, <2>2, <2>3, <2>4, <2>5, WorldOnly
<1> QED BY <1>1, <1>2, PeerInvariant, PTL DEF Spec

\* What is cached for a unique name are the credentials of its owner, as long as
\* that process lives, also when pids are used again.
THEOREM PeerUniqueNameFresh == Spec => []UniqueNameFresh
<1>1. Init => UniqueTracked
  BY BusAssumption DEF Init, UniqueTracked, UniqueNameFresh, Idle
<1>2. PeerInv /\ PeerInv' /\ BusInv /\ UniqueTracked /\ [Next]_vars => UniqueTracked'
  <2> SUFFICES ASSUME PeerInv, PeerInv', BusInv, UniqueTracked, [Next]_vars
               PROVE  UniqueTracked'
    OBVIOUS
  <2>1. \A b \in Buses, n \in Names :
            peers[b][n] # NULL /\ peers'[b][n] # NULL =>
                /\ peers'[b][n] = peers[b][n]
                /\ data'[peers[b][n]] = data[peers[b][n]]
    BY EntriesKept
  <2>2. ASSUME NEW p \in Procs, DaPeerFillCred(p)
        PROVE  UniqueTracked'
    <3>1. PICK o \in Peers : o = call.obj /\ Building(o)
      BY <2>2, CallType DEF DaPeerFillCred, PeerInv, TypeOK, Building
    <3>2. /\ call.bus \in Buses /\ call.name \in Names /\ data[o] \in PeerData
          /\ call.pc = "reading"
      BY <3>1, BuildingAlone DEF Building
    <3>3. /\ UNCHANGED busVars /\ call'.pc = "idle"
          /\ Alive(p) /\ PidOf[p] = call.pid
          /\ \A b \in Buses, n \in Names :
                peers'[b][n] = IF b = call.bus /\ n = call.name THEN o ELSE peers[b][n]
      BY <2>2, <3>1, <3>2 DEF DaPeerFillCred, ProcStatus, Idle, PeerInv, TypeOK
    <3>4. data'[o].cred = p
      <4>1. peers[call.bus][call.name] = NULL
        BY <3>1, BuildingAlone
      <4> QED BY <4>1, <2>2, <3>1, <3>2 DEF DaPeerFillCred, Release, PeerInv,
          TypeOK, PeerData
    <3>5. ASSUME call.name \in Unique, Alive(owner[call.bus][call.name])
          PROVE  p = owner[call.bus][call.name]
      BY <3>2, <3>3, <3>5 DEF UniqueTracked, BusInv, Alive
    <3>6. \A b \in Buses, n \in Unique : peers'[b][n] # NULL => owner'[b][n] # NULL
      BY <3>2, <3>3 , BusAssumption DEF UniqueTracked, busVars
    <3>7. ASSUME NEW b \in Buses, NEW n \in Unique, peers'[b][n] # NULL, Alive(owner[b][n])'
          PROVE  data'[peers'[b][n]].cred = owner'[b][n]
      <4>1. owner' = owner /\ Alive(owner[b][n]) /\ n \in Names
        BY <3>7, <3>3, BusAssumption DEF busVars, Alive
      <4>2. CASE b = call.bus /\ n = call.name
        BY <4>1, <4>2, <3>2, <3>3, <3>4, <3>5
      <4>3. CASE ~(b = call.bus /\ n = call.name)
        BY <4>1, <4>3, <3>7, <3>3, <2>1 DEF UniqueTracked, UniqueNameFresh
      <4> QED BY <4>2, <4>3
    <3> QED BY <3>3, <3>6, <3>7 DEF UniqueTracked, UniqueNameFresh, Alive,
        busVars
  <2>3. ASSUME NEW o \in Peers, DaPeerGetReply(o)
        PROVE  UniqueTracked'
    <3>1. /\ UNCHANGED <<busVars, peers>>
          /\ call'.bus = call.bus /\ call'.name = call.name
          /\ call'.pid = PidOf[owner[call.bus][call.name]]
          /\ owner[call.bus][call.name] \in Procs
      BY <2>3 DEF DaPeerGetReply, DaPeerNew, PeerInv, TypeOK, Call, Idle
    <3> QED BY <3>1, <2>1, BusAssumption DEF UniqueTracked, UniqueNameFresh,
        Alive, busVars
  <2>4. CASE /\ ~ \E p \in Procs : DaPeerFillCred(p)
             /\ ~ \E o \in Peers : DaPeerGetReply(o)
    <3>1. /\ \A b \in Buses, n \in Names : peers'[b][n] # NULL =>
                /\ peers[b][n] # NULL
                /\ peers'[b][n] = peers[b][n]
                /\ data'[peers[b][n]] = data[peers[b][n]]
          /\ call'.pc = "reading" => call' = call
      BY <2>1, <2>4, OnlyFillCaches
    <3>2. call.pc = "reading" => call.bus \in Buses /\ call.name \in Names
      BY CallType DEF PeerInv, TypeOK
    <3> DEFINE Tracked(b, n) == \/ peers[b][n] # NULL
                                \/ call.pc = "reading" /\ call.bus = b /\ call.name = n
    <3>3. ASSUME NEW b \in Buses, NEW n \in Unique, Tracked(b, n)
          PROVE  /\ owner[b][n] # NULL /\ owner'[b][n] # NULL
                 /\ Alive(owner[b][n])' => Alive(owner[b][n]) /\ owner'[b][n] = owner[b][n]
      <4>1. owner[b][n] # NULL /\ n \in Names
        BY <3>3, BusAssumption DEF UniqueTracked
      <4>2. CASE UNCHANGED busVars
        BY <4>1, <4>2 DEF busVars, Alive
      <4>3. ASSUME NEW c \in Buses, NEW m \in Names, NEW p \in Procs, NameAcquired(c, m, p)
            PROVE  UNCHANGED <<status, owner[b][n]>>
        BY <4>1, <4>3 DEF NameAcquired, RequestName, PeerInv, TypeOK, DBusTypeOK
      <4>4. ASSUME NEW c \in Buses, NEW m \in Names, NameReleased(c, m)
            PROVE  /\ UNCHANGED status
                   /\ owner'[b][n] \in {owner[b][n], Retired}
        BY <4>1, <4>4 DEF NameReleased, ReleaseName, PeerInv, TypeOK, DBusTypeOK
      <4>5. ASSUME NEW p \in Procs, ProcStarts(p) \/ ProcExits(p)
            PROVE  /\ UNCHANGED owner
                   /\ Alive(owner[b][n])' => Alive(owner[b][n])
        BY <4>1, <4>5 DEF ProcStarts, ProcStart, ProcExits, ProcExit, Alive,
            BusInv, PeerInv, TypeOK, DBusTypeOK
      <4>6. CASE UNCHANGED <<status, owner[b][n]>>
        BY <4>1, <4>6 DEF Alive
      <4>7. CASE UNCHANGED status /\ owner'[b][n] \in {owner[b][n], Retired}
        BY <4>1, <4>7, BusAssumption DEF Alive
      <4>8. CASE UNCHANGED owner /\ (Alive(owner[b][n])' => Alive(owner[b][n]))
        BY <4>1, <4>8
      <4> QED BY <4>2, <4>3, <4>4, <4>5, <4>6, <4>7, <4>8, WorldOnly
    <3>4. ASSUME call'.pc = "reading", call'.name \in Unique
          PROVE  /\ owner'[call'.bus][call'.name] # NULL
                 /\ Alive(owner[call.bus][call.name])' =>
                        PidOf[owner'[call'.bus][call'.name]] = call'.pid
      BY <3>1, <3>2, <3>3, <3>4 DEF UniqueTracked
    <3>5. ASSUME NEW b \in Buses, NEW n \in Unique, peers'[b][n] # NULL
          PROVE  /\ owner'[b][n] # NULL
                 /\ Alive(owner[b][n])' => data'[peers'[b][n]].cred = owner'[b][n]
      <4>1. n \in Names
        BY BusAssumption
      <4> QED BY <4>1, <3>1, <3>3, <3>5 DEF UniqueTracked, UniqueNameFresh
    <3> QED BY <3>4, <3>5 DEF UniqueTracked, UniqueNameFresh
  <2> QED BY <2>2, <2>3, <2>4
<1>3. UniqueTracked => UniqueNameFresh
  BY DEF UniqueTracked
<1> QED BY <1>1, <1>2, <1>3, PeerInvariant, BusInvariant, PTL DEF Spec

-----------------------------------------------------------------------------
(* The table implements the abstract cache.                                *)

\* While the entries of the table stay where they are, so do the credentials.
LEMMA SameCache ==
  ASSUME PeerInv, PeerInv', [Next]_vars, peers' = peers
  PROVE  CachedCred' = CachedCred
<1>1. ASSUME NEW b \in Buses, NEW n \in Names
      PROVE  CachedCred'[b][n] = CachedCred[b][n]
  BY <1>1, EntriesKept DEF CachedCred
<1> QED BY <1>1 DEF CachedCred

\* A da_peer_get in progress is a look-up in progress.
LEMMA LookUpIffCall ==
  ASSUME PeerInv
  PROVE  CallLookUp = Cache!None <=> call = Idle
<1>1. call = Idle \/ call.name \in Names
  BY CallType DEF PeerInv, TypeOK
<1>2. CallLookUp.name = call.name /\ Cache!None.name = NULL
  BY DEF CallLookUp, Cache!None
<1>3. call = Idle => CallLookUp = Cache!None
  BY DEF CallLookUp, Cache!None, Idle
<1> QED BY <1>1, <1>2, <1>3, BusAssumption

\* The table loses the entries of the names N of one bus, between two calls.
LEMMA EvictStep ==
  ASSUME PeerInv, PeerInv', [Next]_vars, call = Idle, UNCHANGED <<busVars, call>>,
         NEW b \in Buses, NEW N \in SUBSET Names,
         \A c \in Buses, n \in Names :
            peers'[c][n] = IF c = b /\ n \in N THEN NULL ELSE peers[c][n]
  PROVE  Cache!Evict(b, N)
<1>1. ASSUME NEW c \in Buses, NEW n \in Names
      PROVE  CachedCred'[c][n] = IF c = b /\ n \in N THEN NULL ELSE CachedCred[c][n]
  BY <1>1, EntriesKept DEF CachedCred
<1>2. CachedCred' = [CachedCred EXCEPT
          ![b] = [n \in Names |-> IF n \in N THEN NULL ELSE CachedCred[b][n]]]
  <2>1. ASSUME NEW c \in Buses
        PROVE  CachedCred'[c] = IF c = b
                                THEN [n \in Names |-> IF n \in N THEN NULL ELSE CachedCred[b][n]]
                                ELSE CachedCred[c]
    BY <1>1 DEF CachedCred
  <2> QED BY <2>1 DEF CachedCred
<1>3. CallLookUp = Cache!None /\ CallLookUp' = CallLookUp
  BY LookUpIffCall DEF CallLookUp
<1> QED BY <1>2, <1>3 DEF Cache!Evict, Cache!busVars, busVars

\* da_peer_remove is an eviction.
LEMMA RemoveEvicts ==
  ASSUME PeerInv, PeerInv', [Next]_vars, call = Idle, UNCHANGED <<busVars, call>>,
         NEW o \in Peers, data[o] # NULL, DaPeerRemove(o)
  PROVE  \E b \in Buses, N \in SUBSET Names : Cache!Evict(b, N)
<1>1. data[o].bus \in Buses /\ {data[o].name} \in SUBSET Names
  BY DEF PeerInv, TypeOK, PeerData
<1>2. \A c \in Buses, n \in Names :
          peers'[c][n] = IF c = data[o].bus /\ n \in {data[o].name}
                         THEN NULL ELSE peers[c][n]
  BY <1>1 DEF DaPeerRemove, PeerInv, TypeOK
<1>3. Cache!Evict(data[o].bus, {data[o].name})
  BY <1>1, <1>2, EvictStep
<1> QED BY <1>1, <1>3

\* Every step of the library or of the world is one of the abstract cache or
\* leaves it as it is.
LEMMA StepRefines ==
  ASSUME PeerInv, PeerInv', [Next]_vars
  PROVE  [Cache!Next]_<<busVars, CachedCred, CallLookUp>>
<1> USE DEF Cache!busVars, Cache!cacheVars
<1>1. ASSUME UNCHANGED <<busVars, peers, call>>
      PROVE  UNCHANGED <<busVars, CachedCred, CallLookUp>>
  BY <1>1, SameCache DEF CallLookUp
<1>2. ASSUME NEW b \in Buses, NEW n \in Names, DaPeerGetMiss(b, n)
      PROVE  Cache!Ask(b, n)
  <2>1. /\ call = Idle
        /\ call' = [pc |-> "asking", bus |-> b, name |-> n, obj |-> NULL, pid |-> NULL]
    BY <1>2 DEF DaPeerGetMiss, Idle
  <2>2. CallLookUp = Cache!None /\ CallLookUp' = [bus |-> b, name |-> n, pid |-> NULL]
    BY <2>1 DEF CallLookUp, Cache!None, Idle
  <2>3. CachedCred[b][n] = NULL /\ CachedCred' = CachedCred /\ UNCHANGED busVars
    BY <1>2, SameCache DEF DaPeerGetMiss, CachedCred
  <2> QED BY <2>2, <2>3 DEF Cache!Ask, busVars
<1>3. ASSUME NEW o \in Peers, DaPeerGetReply(o)
      PROVE  Cache!Answer
  <2>1. /\ CallLookUp = [bus |-> call.bus, name |-> call.name, pid |-> NULL]
        /\ CallLookUp # Cache!None
        /\ CallLookUp' = [CallLookUp EXCEPT !.pid = PidOf[owner[call.bus][call.name]]]
    BY <1>3, LookUpIffCall DEF DaPeerGetReply, CallLookUp, PeerInv, TypeOK, Call, Idle
  <2> QED BY <1>3, <2>1, SameCache DEF DaPeerGetReply, Cache!Answer, busVars
<1>4. ASSUME DaPeerGetError \/ DaPeerFillFail
      PROVE  Cache!GiveUp
  <2>1. CallLookUp # Cache!None /\ CallLookUp' = Cache!None /\ UNCHANGED <<busVars, peers>>
    BY <1>4, LookUpIffCall DEF DaPeerGetError, DaPeerFillFail, CallLookUp, Cache!None, Idle
  <2> QED BY <2>1, SameCache DEF Cache!GiveUp, busVars
<1>5. ASSUME NEW p \in Procs, DaPeerFillCred(p)
      PROVE  Cache!Enter(p)
  <2>1. PICK o \in Peers : o = call.obj /\ Building(o)
    BY <1>5, CallType DEF DaPeerFillCred, PeerInv, TypeOK, Building
  <2>2. /\ call.bus \in Buses /\ call.name \in Names /\ call.pc = "reading"
        /\ peers[call.bus][call.name] = NULL /\ data[o] \in PeerData
    BY <2>1, BuildingAlone DEF Building
  <2>3. /\ CallLookUp # Cache!None /\ CallLookUp' = Cache!None
        /\ CallLookUp.bus = call.bus /\ CallLookUp.name = call.name
        /\ CallLookUp.pid = PidOf[p] /\ Alive(p) /\ UNCHANGED busVars
    BY <1>5, <2>2, LookUpIffCall DEF DaPeerFillCred, CallLookUp, Cache!None, ProcStatus, Idle
  <2>4. \A c \in Buses, n \in Names :
            peers'[c][n] = IF c = call.bus /\ n = call.name THEN o ELSE peers[c][n]
    BY <1>5, <2>1, <2>2 DEF DaPeerFillCred, PeerInv, TypeOK
  <2>5. data'[o].cred = p /\ o # NULL
    BY <1>5, <2>1, <2>2, PeerAssumption
    DEF DaPeerFillCred, Release, PeerInv, TypeOK, PeerData
  <2>6. ASSUME NEW c \in Buses, NEW n \in Names
        PROVE  CachedCred'[c][n] = IF c = call.bus /\ n = call.name THEN p
                                   ELSE CachedCred[c][n]
    BY <2>2, <2>4, <2>5, <2>6, EntriesKept DEF CachedCred
  <2>7. ASSUME NEW c \in Buses
        PROVE  CachedCred'[c] = IF c = call.bus
                                THEN [CachedCred[c] EXCEPT ![call.name] = p]
                                ELSE CachedCred[c]
    BY <2>2, <2>6 DEF CachedCred
  <2>8. CachedCred' = [CachedCred EXCEPT ![call.bus][call.name] = p]
    <3>1. /\ CachedCred = [c \in Buses |-> CachedCred[c]]
          /\ CachedCred' = [c \in Buses |-> CachedCred'[c]]
      BY DEF CachedCred
    <3> QED BY <2>2, <2>7, <3>1
  <2> QED BY <2>3, <2>8 DEF Cache!Enter, Cache!Alive, Alive, busVars
<1>6. ASSUME NEW b \in Buses, NEW n \in Names, DaPeerFlush(b, n)
      PROVE  \E c \in Buses, N \in SUBSET Names : Cache!Evict(c, N)
  <2>1. peers[b][n] \in Peers /\ data[peers[b][n]] # NULL
    BY <1>6 DEF DaPeerFlush, PeerInv, TypeOK, TableOK
  <2> QED BY <1>6, <2>1, RemoveEvicts DEF DaPeerFlush
<1>7. ASSUME NEW b \in Buses, DaPeerFlushAll(b)
      PROVE  Cache!Evict(b, Names)
  <2>1. \A c \in Buses, n \in Names :
            peers'[c][n] = IF c = b /\ n \in Names THEN NULL ELSE peers[c][n]
    BY <1>7 DEF DaPeerFlushAll, PeerInv, TypeOK
  <2> QED BY <1>7, <2>1, EvictStep DEF DaPeerFlushAll
<1>8. ASSUME NEW o \in Peers, DaPeerTimeout(o) \/ DaPeerVanished(o)
      PROVE  \E c \in Buses, N \in SUBSET Names : Cache!Evict(c, N)
  <2>1. data[o] # NULL
    BY <1>8, PeerAssumption
    DEF DaPeerTimeout, DaPeerVanished, PeerInv, CallbacksMatchTable, NoTimer
  <2> QED BY <1>8, <2>1, RemoveEvicts DEF DaPeerTimeout, DaPeerVanished
<1>9. ASSUME \/ \E b \in Buses, n \in Names, p \in Procs : NameAcquired(b, n, p)
             \/ \E b \in Buses, n \in Names : NameReleased(b, n)
             \/ \E p \in Procs : ProcStarts(p) \/ ProcExits(p)
      PROVE  Cache!World
  <2>1. UNCHANGED <<peers, call>>
    BY <1>9 DEF NameAcquired, NameReleased, ProcStarts, ProcExits, peerVars
  <2>2. UNCHANGED <<CachedCred, CallLookUp>>
    BY <2>1, SameCache DEF CallLookUp
  <2>3. \/ \E b \in Buses, n \in Names, p \in Procs : RequestName(b, n, p)
        \/ \E b \in Buses, n \in Names : ReleaseName(b, n)
        \/ \E p \in Procs : ProcStart(p) \/ ProcExit(p)
    BY <1>9 DEF NameAcquired, NameReleased, ProcStarts, ProcExits
  <2> QED BY <2>2, <2>3 DEF Cache!World, Cache!RequestName, Cache!ReleaseName,
      Cache!ProcStart, Cache!ProcExit, Cache!Alive, RequestName, ReleaseName,
      ProcStart, ProcExit, Alive
<1>10. ASSUME \/ \E b \in Buses, n \in Names : DaPeerGetHit(b, n)
              \/ \E o \in Peers : DaPeerRef(o) \/ DaPeerUnref(o) \/ WatchAnswered(o)
              \/ Tick
              \/ UNCHANGED vars
       PROVE  UNCHANGED <<busVars, peers, call>>
  BY <1>10 DEF DaPeerGetHit, DaPeerRef, DaPeerUnref, WatchAnswered, Tick, vars, peerVars
<1> QED
  BY <1>1, <1>2, <1>3, <1>4, <1>5, <1>6, <1>7, <1>8, <1>9, <1>10
  DEF Next, Get, GetStep, Application, MainLoop, World, Cache!Next

\* The peer cache implements PeerCache, for any number of buses, names,
\* processes, addresses and references: references, timers, watches and memory
\* make no difference to what is cached for whom.
THEOREM PeerImplementsCache == Spec => ImplementsCache
<1>1. Init => Cache!Init
  BY DEF Init, Cache!Init, Cache!DBusInit, DBusInit, Cache!None, CachedCred, CallLookUp,
     Idle
<1>2. PeerInv /\ PeerInv' /\ [Next]_vars
      => [Cache!Next]_<<Cache!busVars, Cache!cacheVars>>
  BY StepRefines DEF Cache!busVars, Cache!cacheVars, busVars
<1> QED BY <1>1, <1>2, PeerInvariant, PTL DEF Spec, ImplementsCache, Cache!Spec

=============================================================================
