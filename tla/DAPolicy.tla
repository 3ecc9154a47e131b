------------------------------ MODULE DAPolicy ------------------------------
(***************************************************************************)
(* Access policies, src/src/dbusaccess_policy.c: reference-counted lists   *)
(* of rules that several threads share, compare and apply.                 *)
(*                                                                         *)
(* A rule is an expression, or NULL for "*", and the access that it gives. *)
(* da_policy_check takes no reference of its own.  It walks the list one   *)
(* rule at a time, and between two rules other threads may take and drop   *)
(* references, free policies and compile new ones at their addresses.      *)
(***************************************************************************)
EXTENDS DAPolicyExpr, Sequences, FiniteSets

CONSTANTS
    Threads,    \* threads of the application
    Policies,   \* addresses of DAPolicy objects
    Specs,      \* what the policy strings compile to: sequences of rules
    Idle        \* a thread that is not in da_policy_check

Access == {"DENY", "ALLOW"}
Rules == [expr : Exprs \cup {NULL}, access : Access]

ASSUME PolicyAssumption ==
    /\ IsFiniteSet(Threads)
    /\ NULL \notin Policies
    /\ Specs \subseteq Seq(Rules)

\* A da_policy_check: its arguments, its local variables, and the rules that
\* the policy had when it was called, for the properties.  next is the position
\* of the rule to look at, 0 when there is none.
Calls == [policy : Policies \cup {NULL}, pc : Checks, next : Nat,
          result : Access, def : Access, rules : Seq(Rules)]

ASSUME IdleAssumption == Idle \notin Calls

VARIABLES
    ref_count,  \* ref_count[o]: references to policy o, 0 for a free address
    entries,    \* entries[o]: its rules
    held,       \* held[t]: the policies to which thread t has a reference
    call        \* call[t]: the da_policy_check that t is in, or Idle

vars == <<ref_count, entries, held, call>>

TypeOK ==
    /\ ref_count \in [Policies -> Nat]
    /\ entries \in [Policies -> Seq(Rules)]
    /\ held \in [Threads -> SUBSET Policies]
    /\ call \in [Threads -> Calls \cup {Idle}]

Init ==
    /\ ref_count = [o \in Policies |-> 0]
    /\ entries = [o \in Policies |-> <<>>]
    /\ held = [t \in Threads |-> {}]
    /\ call = [t \in Threads |-> Idle]

-----------------------------------------------------------------------------
(* References.                                                             *)

\* da_policy_new_full compiles a policy at a free address.  When the string
\* does not parse the result is NULL, which da_policy_check accepts.
DaPolicyNewFull(t, o, spec) ==
    /\ call[t] = Idle
    /\ ref_count[o] = 0
    /\ ref_count' = [ref_count EXCEPT ![o] = 1]
    /\ entries' = [entries EXCEPT ![o] = spec]
    /\ held' = [held EXCEPT ![t] = @ \cup {o}]
    /\ UNCHANGED call

\* Mutant of DaPolicyRef: the increment is lost, as it may be when two threads
\* increment the counter without an atomic operation.
DaPolicyRefLost(t, u, o) ==
    /\ call[t] = Idle
    /\ o \in held[t] \ held[u]
    /\ held' = [held EXCEPT ![u] = @ \cup {o}]
    /\ UNCHANGED <<ref_count, entries, call>>

\* da_policy_ref by thread t, which has a reference, on behalf of thread u.
DaPolicyRef(t, u, o) ==
    /\ call[t] = Idle
    /\ o \in held[t] \ held[u]
    /\ ref_count' = [ref_count EXCEPT ![o] = @ + 1]
    /\ held' = [held EXCEPT ![u] = @ \cup {o}]
    /\ UNCHANGED <<entries, call>>

\* Mutant of DaPolicyUnref: the policy is freed while references remain.
DaPolicyUnrefAlways(t, o) ==
    /\ call[t] = Idle
    /\ o \in held[t]
    /\ ref_count' = [ref_count EXCEPT ![o] = 0]
    /\ entries' = [entries EXCEPT ![o] = <<>>]
    /\ held' = [held EXCEPT ![t] = @ \ {o}]
    /\ UNCHANGED call

\* da_policy_unref and, for the last reference, da_policy_finalize.
DaPolicyUnref(t, o) ==
    /\ call[t] = Idle
    /\ o \in held[t]
    /\ ref_count' = [ref_count EXCEPT ![o] = @ - 1]
    /\ entries' = IF ref_count[o] = 1
                  THEN [entries EXCEPT ![o] = <<>>]
                  ELSE entries
    /\ held' = [held EXCEPT ![t] = @ \ {o}]
    /\ UNCHANGED call

-----------------------------------------------------------------------------
(* da_policy_check.                                                        *)

Root(cred) == cred # NULL /\ cred.euid = 0

RuleMatches(rule, pc) == rule.expr = NULL \/ pc \in Match[rule.expr]

RulesOf(o) == IF o = NULL THEN <<>> ELSE entries[o]

\* The beginning of da_policy_check by thread t: root is allowed everything,
\* and without a policy or without rules the default applies.
CheckStart(t, o, pc, def) ==
    /\ call[t] = Idle
    /\ o \in held[t] \cup {NULL}
    /\ call' = [call EXCEPT ![t] =
           [policy |-> o, pc |-> pc, def |-> def, rules |-> RulesOf(o),
            next   |-> IF Root(pc.cred) \/ RulesOf(o) = <<>> THEN 0 ELSE 1,
            result |-> IF Root(pc.cred) THEN "ALLOW" ELSE def]]
    /\ UNCHANGED <<ref_count, entries, held>>

\* Mutant of CheckRule: the first rule that matches decides.
CheckRuleFirst(t) ==
    /\ call[t] # Idle
    /\ call[t].next # 0
    /\ LET c == call[t]
           rules == entries[c.policy]
           matches == RuleMatches(rules[c.next], c.pc)
       IN  /\ c.next \in DOMAIN rules
           /\ call' = [call EXCEPT
                ![t].result = IF matches THEN rules[c.next].access ELSE @,
                ![t].next = IF @ < Len(rules) /\ ~matches THEN @ + 1 ELSE 0]
    /\ UNCHANGED <<ref_count, entries, held>>

\* One iteration of its loop.
CheckRule(t) ==
    /\ call[t] # Idle
    /\ call[t].next # 0
    /\ LET c == call[t]
           rules == entries[c.policy]
       IN  /\ c.next \in DOMAIN rules
           /\ call' = [call EXCEPT
                ![t].result = IF RuleMatches(rules[c.next], c.pc)
                              THEN rules[c.next].access
                              ELSE @,
                ![t].next = IF @ < Len(rules) THEN @ + 1 ELSE 0]
    /\ UNCHANGED <<ref_count, entries, held>>

\* da_policy_check returns.
CheckReturn(t) ==
    /\ call[t] # Idle
    /\ call[t].next = 0
    /\ call' = [call EXCEPT ![t] = Idle]
    /\ UNCHANGED <<ref_count, entries, held>>

-----------------------------------------------------------------------------

Next ==
    \E t \in Threads :
        \/ \E o \in Policies, spec \in Specs : DaPolicyNewFull(t, o, spec)
        \/ \E u \in Threads, o \in Policies : DaPolicyRef(t, u, o)
        \/ \E o \in Policies : DaPolicyUnref(t, o)
        \/ \E o \in Policies \cup {NULL}, pc \in Checks, def \in Access :
               CheckStart(t, o, pc, def)
        \/ CheckRule(t)
        \/ CheckReturn(t)

Spec == Init /\ [][Next]_vars

-----------------------------------------------------------------------------
(* da_policy_equal.                                                        *)

SameExpr(x1, x2) ==
    IF NULL \in {x1, x2} THEN x1 = x2 ELSE Equal[x1][x2]

\* Mutant of DaPolicyEqual: a policy equals each of its prefixes.
DaPolicyEqualPrefix(rules1, rules2) ==
    \A i \in DOMAIN rules1 \cap DOMAIN rules2 :
        /\ SameExpr(rules1[i].expr, rules2[i].expr)
        /\ rules1[i].access = rules2[i].access

\* da_policy_equal of two policies that are not NULL.
DaPolicyEqual(rules1, rules2) ==
    /\ Len(rules1) = Len(rules2)
    /\ \A i \in DOMAIN rules1 :
        /\ SameExpr(rules1[i].expr, rules2[i].expr)
        /\ rules1[i].access = rules2[i].access

-----------------------------------------------------------------------------

\* "The rules are applied in the order in this they appear in the policy": the
\* last one of the first n rules that matches decides, or else the default.
LastMatch(rules, n, pc, def) ==
    LET matching == {i \in 1 .. n : RuleMatches(rules[i], pc)}
    IN  IF matching = {}
        THEN def
        ELSE rules[CHOOSE i \in matching : \A j \in matching : j <= i].access

Decision(rules, pc, def) ==
    IF Root(pc.cred) THEN "ALLOW" ELSE LastMatch(rules, Len(rules), pc, def)

\* The counter of a policy is the number of threads that have a reference to
\* it, however their calls interleave.
RefsCounted ==
    \A o \in Policies :
        ref_count[o] = Cardinality({t \in Threads : o \in held[t]})

\* The policy that a thread is checking is neither freed nor replaced by
\* another one at the same address before the check is done.
CheckedPolicyAlive ==
    \A t \in Threads : call[t] # Idle /\ call[t].policy # NULL =>
        /\ ref_count[call[t].policy] > 0
        /\ entries[call[t].policy] = call[t].rules

\* A check decides by the rules that the policy had when it was called, whatever
\* the other threads do meanwhile.
ChecksDecide ==
    \A t \in Threads : call[t] # Idle /\ call[t].next = 0 =>
        call[t].result = Decision(call[t].rules, call[t].pc, call[t].def)

\* Policies that da_policy_equal considers equal decide alike in every case.
EqualPoliciesAgree ==
    \A o1, o2 \in Policies :
        DaPolicyEqual(entries[o1], entries[o2]) =>
            \A pc \in Checks, def \in Access :
                Decision(entries[o1], pc, def) = Decision(entries[o2], pc, def)

=============================================================================
