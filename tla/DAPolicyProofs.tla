--------------------------- MODULE DAPolicyProofs ---------------------------
(***************************************************************************)
(* Theorems about DAPolicy.  The invariant PolicyInv says, besides the     *)
(* types, that the counters count the references and that each check in    *)
(* progress has looked at a prefix of the rules of a policy that its       *)
(* thread keeps alive, with the result that this prefix gives.  What an    *)
(* expression matches is expanded only for da_policy_equal, which depends  *)
(* on the equality of expressions (DAPolicyExprProofs).                    *)
(***************************************************************************)
EXTENDS DAPolicy, DAPolicyExprProofs, FiniteSetTheorems, TLAPS

\* The threads that have a reference to policy o.
Holders(o) == {t \in Threads : o \in held[t]}

\* The check c of thread t: its policy is kept alive, and it has looked at all
\* rules before c.next, or is done.
CallOK(c, t) ==
    /\ c.policy # NULL =>
         c.policy \in held[t] /\ entries[c.policy] = c.rules
    /\ c.next # 0 =>
         /\ c.policy # NULL
         /\ c.next \in 1 .. Len(c.rules)
         /\ ~Root(c.pc.cred)
         /\ c.result = LastMatch(c.rules, c.next - 1, c.pc, c.def)
    /\ c.next = 0 => c.result = Decision(c.rules, c.pc, c.def)

\* All checks in progress.
CallsOK == \A t \in Threads : call[t] # Idle => CallOK(call[t], t)

\* The inductive invariant.
PolicyInv == TypeOK /\ RefsCounted /\ CallsOK

-----------------------------------------------------------------------------
(* The decision.                                                           *)

\* Before the first rule, the default applies.
LEMMA LastMatchNone ==
    ASSUME NEW rules, NEW pc, NEW def
    PROVE  LastMatch(rules, 0, pc, def) = def
<1>1. {i \in 1 .. 0 : RuleMatches(rules[i], pc)} = {}
    OBVIOUS
<1> QED BY <1>1 DEF LastMatch

\* One more rule decides if it matches, and changes nothing otherwise.
LEMMA LastMatchStep ==
    ASSUME NEW rules, NEW pc, NEW def, NEW n \in Nat \ {0}
    PROVE  LastMatch(rules, n, pc, def) =
             IF RuleMatches(rules[n], pc)
             THEN rules[n].access
             ELSE LastMatch(rules, n - 1, pc, def)
<1> DEFINE M(k) == {i \in 1 .. k : RuleMatches(rules[i], pc)}
<1>1. CASE RuleMatches(rules[n], pc)
    <2>1. n \in M(n) /\ \A j \in M(n) : j <= n
        BY <1>1
    <2>2. \A i \in M(n) : (\A j \in M(n) : j <= i) => i = n
        BY <2>1
    <2>3. (CHOOSE i \in M(n) : \A j \in M(n) : j <= i) = n
        BY <2>1, <2>2
    <2> QED BY <1>1, <2>1, <2>3 DEF LastMatch
<1>2. CASE ~RuleMatches(rules[n], pc)
    <2> DEFINE Last(S) == IF S = {}
                          THEN def
                          ELSE rules[CHOOSE i \in S : \A j \in S : j <= i].access
    <2>1. M(n) = M(n - 1)
        BY <1>2
    <2>2. /\ LastMatch(rules, n, pc, def) = Last(M(n))
          /\ LastMatch(rules, n - 1, pc, def) = Last(M(n - 1))
        BY DEF LastMatch
    <2> HIDE DEF M, Last
    <2> QED BY <1>2, <2>1, <2>2
<1> QED BY <1>1, <1>2

-----------------------------------------------------------------------------
(* The counters.                                                           *)

\* There are finitely many holders, and none exactly when they count 0.
LEMMA HoldersFinite ==
    ASSUME NEW o
    PROVE  /\ IsFiniteSet(Holders(o))
           /\ Cardinality(Holders(o)) \in Nat
           /\ \A t \in Threads : o \in held[t] => Cardinality(Holders(o)) > 0
<1>1. Holders(o) \in SUBSET Threads
    BY DEF Holders
<1>2. IsFiniteSet(Holders(o))
    BY <1>1, FS_Subset, PolicyAssumption
<1>3. Cardinality(Holders(o)) \in Nat
    BY <1>2, FS_CardinalityType
<1>4. Cardinality(Holders(o)) = 0 <=> Holders(o) = {}
    BY <1>2, FS_EmptySet
<1>5. \A t \in Threads : o \in held[t] => Holders(o) # {}
    BY DEF Holders
<1> QED BY <1>2, <1>3, <1>4, <1>5

\* RefsCounted in terms of Holders.
LEMMA RefsAreHolders ==
    RefsCounted <=> \A o \in Policies : ref_count[o] = Cardinality(Holders(o))
BY DEF RefsCounted, Holders

\* A new holder of policy p makes one more of p, and none of the others.
LEMMA HoldersAdd ==
    ASSUME TypeOK, NEW u \in Threads, NEW p \in Policies, p \notin held[u],
           held' = [held EXCEPT ![u] = @ \cup {p}]
    PROVE  /\ Cardinality(Holders(p)') = Cardinality(Holders(p)) + 1
           /\ \A o \in Policies : o # p => Holders(o)' = Holders(o)
<1>1. Holders(p)' = Holders(p) \cup {u} /\ u \notin Holders(p)
    BY DEF Holders, TypeOK
<1>2. \A o \in Policies : o # p => Holders(o)' = Holders(o)
    BY DEF Holders, TypeOK
<1>3. IsFiniteSet(Holders(p))
    BY HoldersFinite
<1> QED BY <1>1, <1>2, <1>3, FS_AddElement

\* A holder less of policy p, and of no other one.
LEMMA HoldersRemove ==
    ASSUME TypeOK, NEW u \in Threads, NEW p \in Policies, p \in held[u],
           held' = [held EXCEPT ![u] = @ \ {p}]
    PROVE  /\ Cardinality(Holders(p)') = Cardinality(Holders(p)) - 1
           /\ \A o \in Policies : o # p => Holders(o)' = Holders(o)
<1>1. Holders(p)' = Holders(p) \ {u} /\ u \in Holders(p)
    BY DEF Holders, TypeOK
<1>2. \A o \in Policies : o # p => Holders(o)' = Holders(o)
    BY DEF Holders, TypeOK
<1>3. IsFiniteSet(Holders(p))
    BY HoldersFinite
<1> QED BY <1>1, <1>2, <1>3, FS_RemoveElement

-----------------------------------------------------------------------------
(* The invariant.                                                          *)

\* A step that keeps what the checks in progress depend on keeps CallsOK.
LEMMA CallsKept ==
    ASSUME CallsOK, UNCHANGED call,
           \A t \in Threads : call[t] # Idle =>
               \A o \in held[t] : o \in held'[t] /\ entries'[o] = entries[o]
    PROVE  CallsOK'
BY DEF CallsOK, CallOK

\* The invariant holds initially.
LEMMA PolicyInit == Init => PolicyInv
<1> SUFFICES ASSUME Init PROVE PolicyInv
    OBVIOUS
<1>1. TypeOK
    BY DEF Init, TypeOK
<1>2. RefsCounted
    <2> SUFFICES ASSUME NEW o \in Policies
                 PROVE  ref_count[o] = Cardinality(Holders(o))
        BY RefsAreHolders
    <2>1. Holders(o) = {}
        BY DEF Init, Holders
    <2> QED BY <2>1, FS_EmptySet DEF Init
<1>3. CallsOK
    BY DEF Init, CallsOK
<1> QED BY <1>1, <1>2, <1>3 DEF PolicyInv

\* da_policy_new_full keeps the invariant.
LEMMA NewKeepsInv ==
    ASSUME PolicyInv, NEW t \in Threads, NEW o \in Policies, NEW spec \in Specs,
           DaPolicyNewFull(t, o, spec)
    PROVE  PolicyInv'
<1> USE DEF DaPolicyNewFull, PolicyInv
<1>0. \A u \in Threads : o \notin held[u]
    BY HoldersFinite, RefsAreHolders
<1>1. TypeOK'
    BY PolicyAssumption DEF TypeOK
<1>2. RefsCounted'
    <2>1. /\ Cardinality(Holders(o)') = Cardinality(Holders(o)) + 1
          /\ \A p \in Policies : p # o => Holders(p)' = Holders(p)
        BY <1>0, HoldersAdd
    <2>2. \A p \in Policies : ref_count'[p] = Cardinality(Holders(p)')
        BY <2>1, RefsAreHolders DEF TypeOK
    <2> QED BY <2>2 DEF RefsCounted, Holders
<1>3. CallsOK'
    <2>1. \A u \in Threads : call[u] # Idle =>
              \A p \in held[u] : p \in held'[u] /\ entries'[p] = entries[p]
        BY <1>0 DEF TypeOK
    <2> QED BY <2>1, CallsKept
<1> QED BY <1>1, <1>2, <1>3

\* da_policy_ref keeps the invariant.
LEMMA RefKeepsInv ==
    ASSUME PolicyInv, NEW t \in Threads, NEW u \in Threads, NEW o \in Policies,
           DaPolicyRef(t, u, o)
    PROVE  PolicyInv'
<1> USE DEF DaPolicyRef, PolicyInv
<1>1. TypeOK'
    BY DEF TypeOK
<1>2. RefsCounted'
    <2>1. /\ Cardinality(Holders(o)') = Cardinality(Holders(o)) + 1
          /\ \A p \in Policies : p # o => Holders(p)' = Holders(p)
        BY HoldersAdd
    <2>2. \A p \in Policies : ref_count'[p] = Cardinality(Holders(p)')
        BY <2>1, RefsAreHolders DEF TypeOK
    <2> QED BY <2>2 DEF RefsCounted, Holders
<1>3. CallsOK'
    <2>1. \A v \in Threads : call[v] # Idle =>
              \A p \in held[v] : p \in held'[v] /\ entries'[p] = entries[p]
        BY DEF TypeOK
    <2> QED BY <2>1, CallsKept
<1> QED BY <1>1, <1>2, <1>3

\* da_policy_unref keeps the invariant: a policy that another thread is checking
\* has at least two references while this thread has one.
LEMMA UnrefKeepsInv ==
    ASSUME PolicyInv, NEW t \in Threads, NEW o \in Policies, DaPolicyUnref(t, o)
    PROVE  PolicyInv'
<1> USE DEF DaPolicyUnref, PolicyInv
<1>0. /\ Cardinality(Holders(o)') = Cardinality(Holders(o)) - 1
      /\ \A p \in Policies : p # o => Holders(p)' = Holders(p)
    BY HoldersRemove
<1>1. TypeOK'
    <2>1. ref_count[o] > 0
        BY HoldersFinite, RefsAreHolders
    <2> QED BY <2>1 DEF TypeOK
<1>2. RefsCounted'
    <2>1. \A p \in Policies : ref_count'[p] = Cardinality(Holders(p)')
        BY <1>0, RefsAreHolders DEF TypeOK
    <2> QED BY <2>1 DEF RefsCounted, Holders
<1>3. CallsOK'
    <2>1. ASSUME NEW u \in Threads, u # t, o \in held[u]
          PROVE  ref_count[o] # 1
        <3>1. u \in Holders(o) /\ t \in Holders(o)
            BY <2>1 DEF Holders
        <3>2. IsFiniteSet(Holders(o))
            BY HoldersFinite
        <3>3. Cardinality(Holders(o)) # 1
            BY <2>1, <3>1, <3>2, FS_Singleton
        <3> QED BY <3>3, RefsAreHolders
    <2>2. \A u \in Threads : call[u] # Idle =>
              \A p \in held[u] : p \in held'[u] /\ entries'[p] = entries[p]
        BY <2>1 DEF TypeOK
    <2> QED BY <2>2, CallsKept
<1> QED BY <1>1, <1>2, <1>3

\* The beginning of da_policy_check keeps the invariant.
LEMMA StartKeepsInv ==
    ASSUME PolicyInv, NEW t \in Threads, NEW o \in Policies \cup {NULL},
           NEW pc \in Checks, NEW def \in Access, CheckStart(t, o, pc, def)
    PROVE  PolicyInv'
<1> USE DEF CheckStart, PolicyInv
<1> DEFINE c == call'[t]
<1>0. RulesOf(o) \in Seq(Rules)
    BY DEF RulesOf, TypeOK
<1>1. /\ c.policy = o /\ c.pc = pc /\ c.def = def /\ c.rules = RulesOf(o)
      /\ c.next = (IF Root(pc.cred) \/ RulesOf(o) = <<>> THEN 0 ELSE 1)
      /\ c.result = (IF Root(pc.cred) THEN "ALLOW" ELSE def)
    BY DEF TypeOK
<1>2. TypeOK'
    <2>1. c \in Calls
        BY <1>0 DEF Calls, Access, TypeOK
    <2> QED BY <2>1 DEF TypeOK
<1>3. RefsCounted'
    BY DEF RefsCounted
<1>4. CallOK(call[t], t)'
    <2>1. o # NULL => o \in held'[t] /\ entries'[o] = RulesOf(o)
        BY DEF RulesOf
    <2>2. CASE Root(pc.cred)
        BY <1>1, <2>1, <2>2 DEF CallOK, Decision
    <2>3. CASE ~Root(pc.cred) /\ RulesOf(o) = <<>>
        <3>1. LastMatch(RulesOf(o), Len(RulesOf(o)), pc, def) = def
            BY <2>3, LastMatchNone
        <3> QED BY <1>1, <2>1, <2>3, <3>1 DEF CallOK, Decision
    <2>4. CASE ~Root(pc.cred) /\ RulesOf(o) # <<>>
        <3>1. LastMatch(RulesOf(o), 0, pc, def) = def
            BY LastMatchNone
        <3>2. o # NULL
            BY <2>4 DEF RulesOf
        <3>3. 1 \in 1 .. Len(RulesOf(o))
            BY <1>0, <2>4
        <3> QED BY <1>1, <2>1, <2>4, <3>1, <3>2, <3>3 DEF CallOK
    <2> QED BY <2>2, <2>3, <2>4
<1>5. CallsOK'
    BY <1>4 DEF CallsOK, CallOK, TypeOK
<1> QED BY <1>2, <1>3, <1>5

\* An iteration of da_policy_check keeps the invariant: the prefix becomes one
\* rule longer.
LEMMA RuleKeepsInv ==
    ASSUME PolicyInv, NEW t \in Threads, CheckRule(t)
    PROVE  PolicyInv'
<1> USE DEF PolicyInv
<1> DEFINE c == call[t]
           rules == c.rules
<1>0. /\ c \in Calls /\ c # Idle /\ c.next \in Nat \ {0}
      /\ rules \in Seq(Rules) /\ Len(rules) \in Nat
    BY DEF CheckRule, TypeOK, Calls
<1>1. /\ c.policy # NULL
      /\ c.policy \in held[t]
      /\ entries[c.policy] = rules
      /\ c.next \in 1 .. Len(rules)
      /\ ~Root(c.pc.cred)
      /\ c.result = LastMatch(rules, c.next - 1, c.pc, c.def)
    BY <1>0 DEF CallsOK, CallOK
<1> DEFINE result == IF RuleMatches(rules[c.next], c.pc)
                     THEN rules[c.next].access ELSE c.result
           next == IF c.next < Len(rules) THEN c.next + 1 ELSE 0
           d == [c EXCEPT !.result = result, !.next = next]
<1>2. call' = [call EXCEPT ![t] = d] /\ call'[t] = d
    BY <1>0, <1>1 DEF CheckRule, TypeOK, Calls
<1>3. /\ d.policy = c.policy /\ d.pc = c.pc /\ d.def = c.def
      /\ d.rules = c.rules
      /\ d.next = next
      /\ d.result = result
      /\ d \in Calls
    <2>0. rules[c.next] \in Rules
        BY <1>0, <1>1
    <2>1. rules[c.next].access \in Access
        BY <2>0 DEF Rules
    <2>2. c.result \in Access
        BY <1>0 DEF Calls
    <2>3. result \in Access /\ next \in Nat
        BY <1>0, <2>1, <2>2
    <2> HIDE DEF c, result, next
    <2> QED BY <1>0, <2>3 DEF Calls
<1>4. TypeOK'
    <2> HIDE DEF d
    <2> QED BY <1>2, <1>3 DEF TypeOK, CheckRule
<1>5. RefsCounted'
    BY DEF RefsCounted, CheckRule
<1>6. d.result = LastMatch(rules, c.next, c.pc, c.def)
    BY <1>0, <1>1, <1>3, LastMatchStep
<1>7. CallOK(call[t], t)'
    <2>1. d.next # 0 => d.next - 1 = c.next /\ d.next \in 1 .. Len(rules)
        BY <1>0, <1>1, <1>3
    <2>2. d.next = 0 => c.next = Len(rules)
        BY <1>0, <1>1, <1>3
    <2>3. held' = held /\ entries' = entries
        BY DEF CheckRule
    <2> HIDE DEF d
    <2> QED BY <1>1, <1>2, <1>3, <1>6, <2>1, <2>2, <2>3 DEF CallOK, Decision
<1>8. CallsOK'
    <2>1. \A u \in Threads : u # t => call'[u] = call[u]
        BY <1>2 DEF TypeOK
    <2>2. held' = held /\ entries' = entries
        BY DEF CheckRule
    <2> QED BY <1>7, <2>1, <2>2 DEF CallsOK, CallOK
<1> QED BY <1>4, <1>5, <1>8

\* The return of da_policy_check keeps the invariant.
LEMMA ReturnKeepsInv ==
    ASSUME PolicyInv, NEW t \in Threads, CheckReturn(t)
    PROVE  PolicyInv'
BY DEF CheckReturn, PolicyInv, TypeOK, RefsCounted, CallsOK, CallOK

\* PolicyInv is an invariant.
THEOREM PolicyInvariant == Spec => []PolicyInv
<1>1. ASSUME PolicyInv, [Next]_vars PROVE PolicyInv'
    <2>1. CASE Next
        BY <1>1, <2>1, NewKeepsInv, RefKeepsInv, UnrefKeepsInv, StartKeepsInv,
           RuleKeepsInv, ReturnKeepsInv DEF Next
    <2>2. CASE UNCHANGED vars
        BY <1>1, <2>2
        DEF vars, PolicyInv, TypeOK, RefsCounted, CallsOK, CallOK
    <2> QED BY <1>1, <2>1, <2>2
<1> QED BY <1>1, PolicyInit, PTL DEF Spec

\* All variables keep their types; in particular no counter of da_policy_unref
\* goes below 0.
THEOREM PolicyTypeCorrect == Spec => []TypeOK
BY PolicyInvariant, PTL DEF PolicyInv

\* The counter of a policy is the number of threads that have a reference.
THEOREM PolicyRefsCounted == Spec => []RefsCounted
BY PolicyInvariant, PTL DEF PolicyInv

\* No policy is freed or replaced while da_policy_check walks its rules.
THEOREM PolicyCheckedAlive == Spec => []CheckedPolicyAlive
<1>1. PolicyInv => CheckedPolicyAlive
    BY HoldersFinite, RefsAreHolders
    DEF PolicyInv, CheckedPolicyAlive, CallsOK, CallOK, TypeOK, Calls
<1> QED BY <1>1, PolicyInvariant, PTL

\* da_policy_check returns the access of the last rule that matches, or the
\* default, whatever other threads do during the call.
THEOREM PolicyChecksDecide == Spec => []ChecksDecide
<1>1. PolicyInv => ChecksDecide
    BY DEF PolicyInv, ChecksDecide, CallsOK, CallOK
<1> QED BY <1>1, PolicyInvariant, PTL

\* Rules that da_policy_equal considers equal match the same calls.
LEMMA SameExprMatches ==
    ASSUME NEW rule1 \in Rules, NEW rule2 \in Rules, NEW pc \in Checks,
           SameExpr(rule1.expr, rule2.expr)
    PROVE  RuleMatches(rule1, pc) <=> RuleMatches(rule2, pc)
<1>1. rule1.expr \in Exprs \cup {NULL} /\ rule2.expr \in Exprs \cup {NULL}
    BY DEF Rules
<1>2. CASE rule1.expr = NULL \/ rule2.expr = NULL
    <2>1. rule1.expr = rule2.expr
        BY <1>2 DEF SameExpr
    <2> QED BY <2>1 DEF RuleMatches
<1>3. CASE rule1.expr # NULL /\ rule2.expr # NULL
    <2>1. Equal[rule1.expr][rule2.expr]
        BY <1>3 DEF SameExpr
    <2>2. Match[rule1.expr] = Match[rule2.expr]
        BY <1>1, <1>3, <2>1, ExprEqualIsSound DEF EqualIsSound
    <2> QED BY <1>3, <2>2 DEF RuleMatches
<1> QED BY <1>2, <1>3

\* Lists of rules that da_policy_equal considers equal decide alike: by induction
\* on the number of rules that have been looked at.
LEMMA EqualRulesAgree ==
    ASSUME NEW rules1 \in Seq(Rules), NEW rules2 \in Seq(Rules),
           DaPolicyEqual(rules1, rules2), NEW pc \in Checks, NEW def
    PROVE  LastMatch(rules1, Len(rules1), pc, def) =
           LastMatch(rules2, Len(rules2), pc, def)
<1> DEFINE n == Len(rules1)
           T == {k \in 0 .. n : LastMatch(rules1, k, pc, def) =
                                LastMatch(rules2, k, pc, def)}
<1>1. n \in Nat /\ Len(rules2) = n
    BY DEF DaPolicyEqual
<1>2. ASSUME NEW i \in 1 .. n
      PROVE  /\ RuleMatches(rules1[i], pc) <=> RuleMatches(rules2[i], pc)
             /\ rules1[i].access = rules2[i].access
    <2>1. SameExpr(rules1[i].expr, rules2[i].expr)
          /\ rules1[i].access = rules2[i].access
        BY DEF DaPolicyEqual
    <2>2. rules1[i] \in Rules /\ rules2[i] \in Rules
        BY <1>1
    <2> QED BY <2>1, <2>2, SameExprMatches
<1>3. 0 \in T
    BY <1>1, LastMatchNone
<1>4. ASSUME NEW k \in 0 .. n - 1, k \in T
      PROVE  k + 1 \in T
    <2>1. /\ k + 1 \in 1 .. n /\ k + 1 \in Nat \ {0} /\ k + 1 - 1 = k
          /\ k + 1 \in 0 .. n
        BY <1>1
    <2>2. LastMatch(rules1, k + 1, pc, def) =
              IF RuleMatches(rules1[k + 1], pc) THEN rules1[k + 1].access
              ELSE LastMatch(rules1, k, pc, def)
        BY <2>1, LastMatchStep
    <2>3. LastMatch(rules2, k + 1, pc, def) =
              IF RuleMatches(rules2[k + 1], pc) THEN rules2[k + 1].access
              ELSE LastMatch(rules2, k, pc, def)
        BY <2>1, LastMatchStep
    <2> QED BY <1>2, <1>4, <2>1, <2>2, <2>3
<1>5. n \in T
    <2>1. 0 .. n \subseteq T
        <3> HIDE DEF T, n
        <3> QED BY ONLY <1>1, <1>3, <1>4, UpTo
    <2> QED BY <1>1, <2>1
<1> QED BY <1>1, <1>5

\* Policies that da_policy_equal considers equal give the same access to every
\* caller, whatever their length, their operators and the default are.
THEOREM PolicyEqualPoliciesAgree == Spec => []EqualPoliciesAgree
<1>1. PolicyInv => EqualPoliciesAgree
    <2> SUFFICES ASSUME PolicyInv, NEW o1 \in Policies, NEW o2 \in Policies,
                        DaPolicyEqual(entries[o1], entries[o2]),
                        NEW pc \in Checks, NEW def \in Access
                 PROVE  Decision(entries[o1], pc, def) =
                        Decision(entries[o2], pc, def)
        BY DEF EqualPoliciesAgree
    <2>1. entries[o1] \in Seq(Rules) /\ entries[o2] \in Seq(Rules)
        BY DEF PolicyInv, TypeOK
    <2>2. LastMatch(entries[o1], Len(entries[o1]), pc, def) =
          LastMatch(entries[o2], Len(entries[o2]), pc, def)
        BY <2>1, EqualRulesAgree
    <2> QED BY <2>2 DEF Decision
<1> QED BY <1>1, PolicyInvariant, PTL

\* "user(uid:gid) is equivalent to (user(uid)&group(gid))" for all calls, also
\* for unknown names and callers without credentials.
THEOREM UserGroupIsConjunction == \A uid, gid : PairIsConjunction(uid, gid)
BY DEF PairIsConjunction, MatchIdentity, MatchUser, MatchGroup, Identity,
       DA_WILDCARD, DA_INVALID

=============================================================================
