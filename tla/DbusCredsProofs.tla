-------------------------- MODULE DbusCredsProofs --------------------------
(***************************************************************************)
(* Theorems about DbusCreds, for any number of buses, names, processes and *)
(* addresses.                                                              *)
(*                                                                         *)
(* The tool is a client of the library: each step of it is a step of       *)
(* DAPeer, or none (ClientStep), so that the invariants of DAPeer hold in  *)
(* it.  ToolInv adds what this client does with the library: it takes no   *)
(* reference, caches no name but its own, and has one call in progress.    *)
(***************************************************************************)
EXTENDS DbusCreds, DAPeerProofs

\* Where main has, and where it does not have, its peer.
Having == pc \in {"found", "assert", "rest", "flush"}

\* The name to look up is known.
AppOK == pc = "get" \/ Having => app \in App

\* The inductive invariant.
ToolInv ==
    /\ ToolTypeOK
    /\ pc # "aborted"
    /\ \A o \in Peers : held[o] = 0
    /\ AppOK
    /\ call # Idle => pc = "get" /\ call.bus = app.bus /\ call.name = app.name
    /\ ~Having => \A b \in Buses, n \in Names : peers[b][n] = NULL
    /\ Having =>
        /\ \A b \in Buses, n \in Names :
            peers[b][n] # NULL => b = app.bus /\ n = app.name
        /\ peer # NULL /\ peers[app.bus][app.name] = peer
    /\ pc \in {"start", "get", "found"} => out.ids = NULL
    /\ pc \in {"assert", "rest", "flush"} => out.ids = data[peer].cred
    /\ pc = "flush" => out.rest = out.ids
    /\ ret = RET_OK => pc = "exited" /\ out.rest # NULL /\ out.rest = out.ids

\* The name is known from the end of app_init to the end.
LEMMA AppKnown == ToolSpec => []AppOK
<1>1. ToolInit => AppOK
  BY DEF ToolInit, AppOK, Having
<1>2. ASSUME AppOK, [ToolNext]_allVars
      PROVE  AppOK'
  <2> USE <1>2 DEF AppOK, Having
  <2>1. ASSUME NEW b \in Buses, NEW n \in Names, AppInit(b, n)
        PROVE  AppOK'
    BY <2>1 DEF AppInit, App
  <2>2. ASSUME NEW o, Return(o)
        PROVE  AppOK'
    BY <2>2 DEF Return, GotPeer, Asserted
  <2>3. CASE AppInitFail \/ AppPrintIds \/ AppPrintRest \/ AppFlush
    BY <2>3 DEF AppInitFail, AppPrintIds, AppPrintRest, AppFlush
  <2>4. CASE UNCHANGED toolVars
    BY <2>4 DEF toolVars
  <2> QED BY <2>1, <2>2, <2>3, <2>4
     DEF ToolNext, Main, Elsewhere, AppGetHit, AppGetMiss, AppGetNoBus, AppGetReply,
         AppGetError, AppFillCred, AppFillFail, allVars
<1> QED BY <1>1, <1>2, PTL DEF ToolSpec

\* A step of the tool is one of the library, of the machine, or neither.
LEMMA ClientStep == AppOK /\ [ToolNext]_allVars => [Next]_vars
<1> SUFFICES ASSUME AppOK, [ToolNext]_allVars
             PROVE  [Next]_vars
  OBVIOUS
<1>1. CASE AppGetHit \/ AppGetMiss
  <2>1. app.bus \in Buses /\ app.name \in Names
    BY <1>1 DEF AppGetHit, AppGetMiss, Getting, AppOK, Having, App
  <2> QED BY <1>1, <2>1 DEF AppGetHit, AppGetMiss, Next, Get
<1>2. CASE (\E o \in Peers : AppGetReply(o)) \/ AppGetError \/ AppFillFail
           \/ (\E p \in Procs : AppFillCred(p))
  BY <1>2 DEF AppGetReply, AppGetError, AppFillFail, AppFillCred, Next, GetStep
<1>3. CASE AppFlush
  <2>1. app.bus \in Buses /\ app.name \in Names
    BY <1>3 DEF AppFlush, AppOK, Having, App
  <2> QED BY <1>3, <2>1 DEF AppFlush, Next, Application
<1>4. CASE Elsewhere
  BY <1>4 DEF Elsewhere, Next
<1>5. ASSUME NEW b \in Buses, NEW n \in Names, AppInit(b, n)
      PROVE  UNCHANGED vars
  BY <1>5 DEF AppInit
<1>6. CASE AppInitFail \/ AppGetNoBus \/ AppPrintIds \/ AppPrintRest
  BY <1>6 DEF AppInitFail, AppGetNoBus, AppPrintIds, AppPrintRest
<1>7. CASE UNCHANGED allVars
  BY <1>7 DEF allVars
<1> QED BY <1>1, <1>2, <1>3, <1>4, <1>5, <1>6, <1>7 DEF ToolNext, Main

\* The tool uses the library as DAPeer expects of an application, so what is
\* proved of DAPeer holds in it.
THEOREM ToolIsClient == ToolSpec => Spec
<1>1. ToolInit => Init
  BY DEF ToolInit
<1> QED BY <1>1, AppKnown, ClientStep, PTL DEF ToolSpec, Spec

-----------------------------------------------------------------------------

\* main begins with an empty library.
LEMMA ToolInitInv == ToolInit => ToolInv
<1> SUFFICES ASSUME ToolInit
             PROVE  ToolInv
  OBVIOUS
<1>1. PeerInv
  BY InitInv DEF ToolInit
<1>2. ToolTypeOK
  BY <1>1 DEF PeerInv, ToolInit, ToolTypeOK, RET_ERR
<1> QED BY <1>2 DEF ToolInit, ToolInv, AppOK, Having, Init, RET_OK, RET_ERR

\* Steps that leave the library alone.
LEMMA OwnStep ==
  ASSUME PeerInv, PeerInv', ToolInv, UNCHANGED vars,
         \/ \E b \in Buses, n \in Names : AppInit(b, n)
         \/ AppInitFail \/ AppPrintIds \/ AppPrintRest
  PROVE  ToolInv'
<1> USE DEF ToolInv, Having, AppOK
<1>1. UNCHANGED <<peers, data, held, call, connection>> /\ TypeOK'
  BY DEF vars, peerVars, PeerInv
<1>2. ASSUME NEW b \in Buses, NEW n \in Names, AppInit(b, n)
      PROVE  ToolInv'
  BY <1>1, <1>2 DEF AppInit, ToolTypeOK, App
<1>3. CASE AppInitFail
  BY <1>1, <1>3 DEF AppInitFail, ToolTypeOK
<1>4. ASSUME Having
      PROVE  data[peer].cred \in Procs /\ NULL \notin Procs
  <2>1. app.bus \in Buses /\ app.name \in Names /\ peer \in Peers
    BY <1>4 DEF App, ToolTypeOK
  <2>2. data[peer] # NULL /\ data[peer].cred # NULL
    BY <1>4, <2>1 DEF PeerInv, TableOK
  <2> QED BY <2>1, <2>2, BusAssumption DEF PeerInv, TypeOK, PeerData
<1>5. CASE AppPrintIds
  <2>1. pc = "found" /\ out' = [out EXCEPT !.ids = data[peer].cred]
        /\ UNCHANGED <<debug, app, peer, ret>> /\ pc' \in {"assert", "rest"}
    BY <1>5 DEF AppPrintIds
  <2>2. /\ out'.ids = data[peer].cred
        /\ out' \in [ids : Procs \cup {NULL}, rest : Procs \cup {NULL}]
    BY <1>4, <2>1 DEF ToolTypeOK
  <2> QED BY <1>1, <2>1, <2>2 DEF ToolTypeOK
<1>6. CASE AppPrintRest
  <2>1. pc = "rest" /\ out' = [out EXCEPT !.rest = data[peer].cred]
        /\ UNCHANGED <<debug, app, peer, ret>> /\ pc' = "flush"
    BY <1>6 DEF AppPrintRest
  <2>2. /\ out'.rest = data[peer].cred /\ out'.ids = out.ids
        /\ out' \in [ids : Procs \cup {NULL}, rest : Procs \cup {NULL}]
    BY <1>4, <2>1 DEF ToolTypeOK
  <2> QED BY <1>1, <2>1, <2>2 DEF ToolTypeOK
<1> QED BY <1>2, <1>3, <1>5, <1>6

\* The machine moves on, which the table does not notice.
LEMMA ElsewhereStep ==
  ASSUME PeerInv', ToolInv, Elsewhere
  PROVE  ToolInv'
<1>1. UNCHANGED <<peers, data, held, call>>
  BY DEF Elsewhere, World, WatchAnswered, NameAcquired, NameReleased, ProcStarts,
     ProcExits, Tick, peerVars
<1>2. UNCHANGED <<pc, debug, app, peer, out, ret>> /\ TypeOK'
  BY DEF Elsewhere, toolVars, PeerInv
<1> QED BY <1>1, <1>2 DEF ToolInv, ToolTypeOK, Having, AppOK

\* da_peer_get, for the first time (the table is empty) or for the assertion (the
\* entry is in the table).
LEMMA GetStepInv ==
  ASSUME PeerInv, PeerInv', ConnectedIffUsed, ToolInv,
         \/ AppGetHit \/ AppGetMiss \/ AppGetNoBus \/ AppGetError \/ AppFillFail
         \/ \E o \in Peers : AppGetReply(o)
         \/ \E p \in Procs : AppFillCred(p)
  PROVE  ToolInv'
<1> USE DEF ToolInv, Having, AppOK
<1>1. TypeOK' /\ peers \in [Buses -> [Names -> Peers \cup {NULL}]] /\ NULL \notin Peers
  BY PeerAssumption DEF PeerInv, TypeOK
<1>2. pc \in {"get", "assert"} =>
        /\ app.bus \in Buses /\ app.name \in Names
        /\ pc = "get" <=> peers[app.bus][app.name] = NULL
  BY DEF App
<1>3. CASE AppGetHit
  <2>1. /\ pc = "assert" /\ Asserted(peer) /\ UNCHANGED <<debug, app, out>>
        /\ UNCHANGED <<peers, data, call, held>>
    BY <1>2, <1>3 DEF AppGetHit, Getting, DaPeerGetHit, Return
  <2> QED BY <1>1, <2>1 DEF Asserted, ToolTypeOK
<1>4. CASE AppGetMiss
  <2>1. /\ pc = "get" /\ UNCHANGED <<pc, debug, app, peer, out, ret>>
        /\ UNCHANGED <<peers, data, held>>
        /\ call' = [Idle EXCEPT !.pc = "asking", !.bus = app.bus, !.name = app.name]
    BY <1>2, <1>4 DEF AppGetMiss, Getting, DaPeerGetMiss, toolVars
  <2>2. call'.bus = app.bus /\ call'.name = app.name
    BY <2>1 DEF Idle
  <2> QED BY <1>1, <2>1, <2>2 DEF ToolTypeOK
<1>5. ASSUME NEW o \in Peers, AppGetReply(o)
      PROVE  ToolInv'
  <2>1. /\ call.pc = "asking" /\ UNCHANGED <<pc, debug, app, peer, out, ret>>
        /\ UNCHANGED <<peers, held>>
        /\ call' = [call EXCEPT !.pc = "reading", !.obj = o,
                               !.pid = PidOf[owner[call.bus][call.name]]]
    BY <1>5 DEF AppGetReply, DaPeerGetReply, toolVars
  <2>2. pc = "get" /\ call.bus = app.bus /\ call.name = app.name
    BY <2>1 DEF Idle
  <2>3. call'.bus = call.bus /\ call'.name = call.name
    <3>1. call \in [pc : {"asking"}, bus : Buses, name : Names, obj : {NULL}, pid : {NULL}]
      BY <2>1 DEF PeerInv, TypeOK, Call, Idle
    <3> QED BY <2>1, <3>1
  <2> QED BY <1>1, <2>1, <2>2, <2>3 DEF ToolTypeOK
<1>6. CASE AppGetNoBus \/ AppGetError \/ AppFillFail
  <2>1. /\ call' = Idle /\ UNCHANGED <<peers, held>>
        /\ pc = "get" \/ (call = Idle /\ ~connection[app.bus])
    <3>1. CASE AppGetNoBus
      BY <3>1 DEF AppGetNoBus, vars, peerVars
    <3>2. CASE AppGetError \/ AppFillFail
      <4>1. /\ call.pc \in {"asking", "reading"} /\ call' = Idle
            /\ UNCHANGED <<peers, held>>
        BY <3>2 DEF AppGetError, DaPeerGetError, AppFillFail, DaPeerFillFail
      <4>2. call # Idle
        BY <4>1 DEF Idle
      <4> QED BY <4>1, <4>2
    <3> QED BY <1>6, <3>1, <3>2
  <2>2. Return(NULL)
    BY <1>6 DEF AppGetNoBus, AppGetError, AppFillFail
  <2>3. pc = "get"
    <3>1. CASE pc = "assert"
      <4>1. connection[app.bus]
        BY <1>2, <3>1 DEF ConnectedIffUsed
      <4> QED BY <2>1, <4>1
    <3> QED BY <2>2, <3>1 DEF Return
  <2>4. /\ pc' = "exited" /\ ret' = RET_NOTFOUND /\ peer' = NULL
        /\ UNCHANGED <<debug, app, out>>
    BY <2>2, <2>3 DEF Return, GotPeer
  <2> QED BY <1>1, <2>1, <2>3, <2>4 DEF ToolTypeOK, RET_OK, RET_NOTFOUND, RET_ERR
<1>7. ASSUME NEW p \in Procs, AppFillCred(p)
      PROVE  ToolInv'
  <2>1. /\ call.pc = "reading" /\ call' = Idle /\ UNCHANGED held
        /\ peers' = [peers EXCEPT ![call.bus][call.name] = call.obj]
        /\ Return(call.obj)
    BY <1>7 DEF AppFillCred, DaPeerFillCred
  <2>2. pc = "get" /\ call.bus = app.bus /\ call.name = app.name
    BY <2>1 DEF Idle
  <2>3. call.obj \in Peers
    BY <2>1, CallType DEF PeerInv, TypeOK, Idle
  <2>4. /\ pc' = "found" /\ peer' = call.obj /\ UNCHANGED <<debug, app, out, ret>>
    BY <1>1, <2>1, <2>2, <2>3 DEF Return, GotPeer
  <2>5. /\ peers'[app.bus][app.name] = call.obj
        /\ \A b \in Buses, n \in Names :
              b # app.bus \/ n # app.name => peers'[b][n] = NULL
    BY <1>1, <1>2, <2>1, <2>2
  <2> QED BY <1>1, <2>1, <2>2, <2>3, <2>4, <2>5 DEF ToolTypeOK
<1> QED BY <1>3, <1>4, <1>5, <1>6, <1>7

\* The flush empties the table.
LEMMA FlushStep ==
  ASSUME PeerInv, PeerInv', ConnectedIffUsed, ToolInv, AppFlush
  PROVE  ToolInv'
<1> USE DEF ToolInv, Having, AppOK
<1>1. /\ pc = "flush" /\ pc' = "exited" /\ ret' = RET_OK
      /\ UNCHANGED <<debug, app, peer, out>> /\ TypeOK'
  BY DEF AppFlush, PeerInv
<1>2. app.bus \in Buses /\ app.name \in Names /\ peer \in Peers
  BY <1>1 DEF App, ToolTypeOK
<1>3. connection[app.bus]
  BY <1>1, <1>2 DEF ConnectedIffUsed
<1>4. data[peer].bus = app.bus /\ data[peer].name = app.name
      /\ data[peer].cred # NULL
  BY <1>1, <1>2 DEF PeerInv, TableOK
<1>5. DaPeerFlush(app.bus, app.name)
  BY <1>1, <1>3 DEF AppFlush
<1>6. /\ peers' = [peers EXCEPT ![app.bus][app.name] = NULL]
      /\ UNCHANGED <<call, held>> /\ call = Idle
  BY <1>1, <1>4, <1>5 DEF DaPeerFlush, DaPeerRemove
<1>7. \A b \in Buses, n \in Names : peers'[b][n] = NULL
  BY <1>1, <1>2, <1>6 DEF PeerInv, TypeOK
<1> QED BY <1>1, <1>4, <1>6, <1>7 DEF ToolTypeOK

\* Every reachable state of the tool satisfies the inductive invariant.
THEOREM ToolInvariant == ToolSpec => []ToolInv
<1>1. ASSUME PeerInv, PeerInv', ConnectedIffUsed, ToolInv, [ToolNext]_allVars
      PROVE  ToolInv'
  <2>1. CASE UNCHANGED allVars
    BY <1>1, <2>1
    DEF allVars, vars, peerVars, toolVars, ToolInv, ToolTypeOK, Having, AppOK, PeerInv
  <2>2. ASSUME \/ \E b \in Buses, n \in Names : AppInit(b, n)
               \/ AppInitFail \/ AppPrintIds \/ AppPrintRest
        PROVE  UNCHANGED vars
    BY <2>2 DEF AppInit, AppInitFail, AppPrintIds, AppPrintRest
  <2> QED BY <1>1, <2>1, <2>2, OwnStep, ElsewhereStep, GetStepInv, FlushStep
     DEF ToolNext, Main
<1> QED BY <1>1, ToolInitInv, ToolIsClient, PeerInvariant, PeerConnectedIffUsed, PTL
   DEF ToolSpec

\* All variables of the tool and of the library keep their types.
THEOREM ToolTypeCorrect == ToolSpec => []ToolTypeOK
<1>1. ToolInv => ToolTypeOK
  BY DEF ToolInv
<1> QED BY <1>1, ToolInvariant, PTL

\* The second da_peer_get of app_run returns what the first one returned.
THEOREM ToolAssertionHolds == ToolSpec => []AssertionHolds
<1>1. ToolInv => AssertionHolds
  BY DEF ToolInv, AssertionHolds
<1> QED BY <1>1, ToolInvariant, PTL

\* The pointer is good until the flush, and the output is about one process.
THEOREM ToolPeerUsable == ToolSpec => []PeerUsable
<1>1. PeerInv /\ ToolInv => PeerUsable
  <2> SUFFICES ASSUME PeerInv, ToolInv
               PROVE  PeerUsable
    OBVIOUS
  <2>1. ASSUME Having
        PROVE  app.bus \in Buses /\ app.name \in Names
               /\ data[peer] # NULL /\ data[peer].cred # NULL
    <3>1. app.bus \in Buses /\ app.name \in Names
      BY <2>1 DEF ToolInv, AppOK, App
    <3> QED BY <2>1, <3>1 DEF ToolInv, PeerInv, TableOK
  <2> QED BY <2>1 DEF ToolInv, PeerUsable, Having
<1> QED BY <1>1, ToolIsClient, PeerInvariant, ToolInvariant, PTL

\* The tool takes no reference and flushes its only name, so that nothing of the
\* library is left, by what PeerInv says of references, timers and watches.
THEOREM ToolLeavesNothing == ToolSpec => []LeavesNothing
<1>1. PeerInv /\ ConnectedIffUsed /\ ToolInv => LeavesNothing
  <2> SUFFICES ASSUME PeerInv, ConnectedIffUsed, ToolInv, pc = "exited"
               PROVE  LeavesNothing
    BY DEF LeavesNothing
  <2>1. call = Idle /\ \A b \in Buses, n \in Names : peers[b][n] = NULL
    BY DEF ToolInv, Having
  <2>2. \A b \in Buses : ~connection[b]
    BY <2>1 DEF ConnectedIffUsed, Idle, PeerInv, TypeOK
  <2>3. ASSUME NEW o \in Peers
        PROVE  refs[o] = 0 /\ timer[o] = NoTimer /\ watch[o] = "off"
    <3>1. ~Cached(o) /\ ~Building(o) /\ held[o] = 0
      BY <2>1, PeerAssumption DEF ToolInv, Cached, Building, Idle
    <3>2. refs[o] = 0
      BY <3>1 DEF PeerInv, RefsAccounted
    <3>3. data[o] # NULL => data[o].bus \in Buses /\ data[o].name \in Names
      BY DEF PeerInv, TypeOK, PeerData
    <3>4. ~(timer[o] # NoTimer \/ watch[o] # "off")
      BY <2>1, <3>1, <3>3, PeerAssumption DEF PeerInv, CallbacksMatchTable
    <3> QED BY <3>2, <3>4
  <2> QED BY <2>1, <2>2, <2>3 DEF LeavesNothing
<1> QED BY <1>1, ToolIsClient, PeerInvariant, PeerConnectedIffUsed, ToolInvariant, PTL

=============================================================================
