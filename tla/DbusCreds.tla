----------------------------- MODULE DbusCreds -----------------------------
(***************************************************************************)
(* The dbus-creds tool, src/tools/dbus-creds/dbus-creds.c, as a client of  *)
(* the peer cache: one run of main().                                      *)
(*                                                                         *)
(* The tool looks a name up, prints what it found and leaves.  It has no   *)
(* main loop: the timeouts and the name watches of the library never call  *)
(* back, however long the tool takes and whatever happens on the bus       *)
(* meanwhile.  That is what makes it right to use the pointer until the    *)
(* end without a reference, and what the assertion in app_run relies on.   *)
(***************************************************************************)
EXTENDS DAPeer

VARIABLES
    pc,         \* where main is
    debug,      \* whether GASSERT is compiled in
    app,        \* App, NULL before app_init
    peer,       \* the peer of app_run, or NULL
    out,        \* whose ids, and whose groups and capabilities, were printed
    ret         \* the exit status

toolVars == <<pc, debug, app, peer, out, ret>>
allVars == <<vars, toolVars>>

RET_OK == 0
RET_NOTFOUND == 1
RET_ERR == 2

App == [bus : Buses, name : Names]

ToolTypeOK ==
    /\ TypeOK
    /\ pc \in {"start", "get", "found", "assert", "rest", "flush",
               "exited", "aborted"}
    /\ debug \in BOOLEAN
    /\ app \in App \cup {NULL}
    /\ peer \in Peers \cup {NULL}
    /\ out \in [ids : Procs \cup {NULL}, rest : Procs \cup {NULL}]
    /\ ret \in {RET_OK, RET_NOTFOUND, RET_ERR}

ToolInit ==
    /\ Init
    /\ pc = "start"
    /\ debug \in BOOLEAN
    /\ app = NULL
    /\ peer = NULL
    /\ out = [ids |-> NULL, rest |-> NULL]
    /\ ret = RET_ERR

-----------------------------------------------------------------------------

\* The options and the name are good.
AppInit(b, n) ==
    /\ pc = "start"
    /\ app' = [bus |-> b, name |-> n]
    /\ pc' = "get"
    /\ UNCHANGED <<vars, debug, peer, out, ret>>

\* They are not, or there is more than one name, or none.
AppInitFail ==
    /\ pc = "start"
    /\ pc' = "exited"
    /\ UNCHANGED <<vars, debug, app, peer, out, ret>>

\* Mutant of GotPeer: a name that is not found is asked for again.
GotPeerRetry(o) ==
    /\ peer' = o
    /\ pc' = IF o = NULL THEN "get" ELSE "found"
    /\ UNCHANGED ret

GotPeer(o) ==
    /\ peer' = o
    /\ pc' = IF o = NULL THEN "exited" ELSE "found"
    /\ ret' = IF o = NULL THEN RET_NOTFOUND ELSE ret

\* The result of the assertion's da_peer_get is compared.
Asserted(o) ==
    /\ pc' = IF o = peer THEN "rest" ELSE "aborted"
    /\ UNCHANGED <<peer, ret>>

\* da_peer_get returns o, to the first call or to that of the assertion.
Return(o) ==
    /\ \/ pc = "get" /\ GotPeer(o)
       \/ pc = "assert" /\ Asserted(o)
    /\ UNCHANGED <<debug, app, out>>

Getting == pc \in {"get", "assert"}

AppGetHit ==
    /\ Getting
    /\ DaPeerGetHit(app.bus, app.name)
    /\ Return(peers[app.bus][app.name])

AppGetMiss ==
    /\ Getting
    /\ DaPeerGetMiss(app.bus, app.name)
    /\ UNCHANGED toolVars

\* g_bus_get_sync fails.
AppGetNoBus ==
    /\ Getting
    /\ call = Idle
    /\ ~connection[app.bus]
    /\ Return(NULL)
    /\ UNCHANGED vars

AppGetReply(o) == DaPeerGetReply(o) /\ UNCHANGED toolVars

AppGetError == DaPeerGetError /\ Return(NULL)

AppFillCred(p) == DaPeerFillCred(p) /\ Return(call.obj)

AppFillFail == DaPeerFillFail /\ Return(NULL)

\* Mutant of AppPrintIds: the entry is flushed as soon as the ids are printed.
AppPrintIdsFlush ==
    /\ pc = "found"
    /\ out' = [out EXCEPT !.ids = data[peer].cred]
    /\ pc' = IF debug THEN "assert" ELSE "rest"
    /\ DaPeerFlush(app.bus, app.name)
    /\ UNCHANGED <<debug, app, peer, ret>>

\* Pid, Uid and Gid.
AppPrintIds ==
    /\ pc = "found"
    /\ out' = [out EXCEPT !.ids = data[peer].cred]
    /\ pc' = IF debug THEN "assert" ELSE "rest"
    /\ UNCHANGED <<vars, debug, app, peer, ret>>

\* The groups and the capabilities, if they are known.
AppPrintRest ==
    /\ pc = "rest"
    /\ out' = [out EXCEPT !.rest = data[peer].cred]
    /\ pc' = "flush"
    /\ UNCHANGED <<vars, debug, app, peer, ret>>

\* Mutant of AppFlush: the entry is left to its timeout.
AppFlushNever ==
    /\ pc = "flush"
    /\ pc' = "exited"
    /\ ret' = RET_OK
    /\ UNCHANGED <<vars, debug, app, peer, out>>

\* da_peer_flush, and the end.
AppFlush ==
    /\ pc = "flush"
    /\ IF connection[app.bus] /\ peers[app.bus][app.name] # NULL
       THEN DaPeerFlush(app.bus, app.name)
       ELSE UNCHANGED vars
    /\ pc' = "exited"
    /\ ret' = RET_OK
    /\ UNCHANGED <<debug, app, peer, out>>

-----------------------------------------------------------------------------

Main ==
    \/ \E b \in Buses, n \in Names : AppInit(b, n)
    \/ AppInitFail
    \/ AppGetHit \/ AppGetMiss \/ AppGetNoBus
    \/ \E o \in Peers : AppGetReply(o)
    \/ AppGetError
    \/ \E p \in Procs : AppFillCred(p)
    \/ AppFillFail
    \/ AppPrintIds \/ AppPrintRest \/ AppFlush

\* The rest of the machine goes on, at any point of main, and time passes.
Elsewhere == World /\ UNCHANGED toolVars

ToolNext == Main \/ Elsewhere

ToolSpec == ToolInit /\ [][ToolNext]_allVars

\* The tool is scheduled, the daemon answers and /proc can be read.
ToolFairSpec == ToolSpec /\ WF_allVars(Main)

-----------------------------------------------------------------------------

\* GASSERT(da_peer_get(app->bus, app->name) == peer) holds, although it is a
\* second look-up that could block, and although the name may have changed hands
\* or vanished and the timeout have run out since the first one.
AssertionHolds == pc # "aborted"

\* The pointer that app_run uses is good to the end without a reference: it is
\* the entry of the name in the table, with its credentials, and both halves of
\* the output are about the same process.
PeerUsable ==
    /\ pc \in {"found", "assert", "rest", "flush"} =>
        /\ peers[app.bus][app.name] = peer
        /\ data[peer] # NULL
        /\ data[peer].cred # NULL
        /\ out.ids \in {NULL, data[peer].cred}
    /\ ret = RET_OK => out.rest # NULL /\ out.rest = out.ids

\* However main ends, the library has nothing left: no object, no source, no
\* name watch and no connection to any bus.
LeavesNothing ==
    pc = "exited" =>
        /\ call = Idle
        /\ \A b \in Buses : ~connection[b]
        /\ \A o \in Peers :
            refs[o] = 0 /\ timer[o] = NoTimer /\ watch[o] = "off"

\* The tool ends, with an answer or without.
Terminates == <>(pc = "exited")

=============================================================================
