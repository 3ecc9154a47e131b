------------------------------ MODULE MCDAPeer ------------------------------
(***************************************************************************)
(* Instances of DAPeer for TLC: which processes share a pid, and the       *)
(* symmetry of the addresses.                                              *)
(***************************************************************************)
EXTENDS DAPeer, TLC

\* Every process gets the same pid (the smallest pid table there is), so no two
\* of them run at the same time and each reuses the pid of the one before.
OnePid == [p \in Procs |-> CHOOSE i \in Pids : TRUE]

\* Every process has a pid of its own, so all of them may run at once.
OwnPid == CHOOSE f \in [Procs -> Pids] :
              \A p, q \in Procs : f[p] = f[q] => p = q

\* Two of the processes share a pid and the others do not.
SharedPid == CHOOSE f \in [Procs -> Pids] :
                /\ \E p, q \in Procs : p # q /\ f[p] = f[q]
                /\ {f[p] : p \in Procs} = Pids

\* Addresses are interchangeable.
PeerSymmetry == Permutations(Peers)

=============================================================================
