---------------------------- MODULE MCDbusCreds ----------------------------
(***************************************************************************)
(* An instance of DbusCreds for TLC: which processes share a pid.          *)
(***************************************************************************)
EXTENDS DbusCreds

\* Two of the processes share a pid and the others do not.
SharedPid == CHOOSE f \in [Procs -> Pids] :
                /\ \E p, q \in Procs : p # q /\ f[p] = f[q]
                /\ {f[p] : p \in Procs} = Pids

=============================================================================
