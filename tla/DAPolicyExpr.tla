---------------------------- MODULE DAPolicyExpr ----------------------------
(***************************************************************************)
(* The expressions of access policies, src/src/dbusaccess_policy.c: what   *)
(* they match and when two of them are considered equal.                   *)
(*                                                                         *)
(* An expression is the tree that da_policy_expr_new makes of the result   *)
(* of the parser.  The functions that the code dispatches through          *)
(* DAPolicyExprType are the cases of the recursive functions Match and     *)
(* Equal, whose domain is the expressions of a bounded depth.              *)
(***************************************************************************)
EXTENDS Integers

CONSTANTS
    Ids,        \* the user and group ids that rules name
    Actions,    \* ids of the caller's actions
    Args,       \* arguments of calls
    Patterns,   \* glob patterns other than "*"
    Globs,      \* Globs[x]: the arguments that pattern x matches
    Creds,      \* credentials: [euid, egid, groups]
    Atoms,      \* the calls of user(), group() and actions that rules use
    Depth,      \* bound: the nesting of operators
    NULL        \* no credentials, no argument, no pattern

ASSUME ExprAssumption ==
    /\ Ids \subseteq Nat
    /\ NULL \notin Args /\ NULL \notin Patterns /\ NULL \notin Creds
    /\ Globs \in [Patterns -> SUBSET Args]
    /\ Depth \in Nat

DA_WILDCARD == -1   \* user(*), group(*), and the other half of user() and group()
DA_INVALID == -2    \* a name that the system does not know

Star == "*"

\* da_policy_expr_identity_new.
Identity(uid, gid) == [type |-> "identity", uid |-> uid, gid |-> gid]

\* da_policy_expr_custom_new: "*" is the same as no pattern.
Custom(action, param) ==
    [type |-> "custom", action |-> action,
     pattern |-> IF param = Star THEN NULL ELSE param]

AllAtoms ==
    {Identity(u, g) : u, g \in Ids \cup {DA_WILDCARD, DA_INVALID}}
    \cup {Custom(a, p) : a \in Actions, p \in Patterns \cup {NULL, Star}}

ASSUME AtomAssumption == Atoms \subseteq AllAtoms

\* da_policy_expr_unary_not_new and da_policy_expr_binary_new.
Not(x) == [type |-> "not", operand |-> x]
And(x, y) == [type |-> "and", left |-> x, right |-> y]
Or(x, y) == [type |-> "or", left |-> x, right |-> y]

\* The expressions with at most d nested operators.
Nested[d \in 0 .. Depth] ==
    IF d = 0 THEN Atoms
    ELSE LET Below == Nested[d - 1]
         IN  Below \cup {Not(x) : x \in Below}
                   \cup {And(x, y) : x, y \in Below}
                   \cup {Or(x, y) : x, y \in Below}

Exprs == Nested[Depth]

\* DAPolicyCheck: who calls what with which argument.
Checks == [cred : Creds \cup {NULL}, action : Actions, arg : Args \cup {NULL}]

-----------------------------------------------------------------------------
(* What an expression matches.                                             *)

\* da_policy_expr_identity_match_user.
MatchUser(uid, cred) ==
    \/ uid = DA_WILDCARD
    \/ /\ uid # DA_INVALID
       /\ cred # NULL
       /\ uid = cred.euid

\* Mutant of MatchGroup: every negative id is taken for the wildcard.
MatchGroupNegative(gid, cred) ==
    gid < 0 \/ (cred # NULL /\ gid \in {cred.egid} \cup cred.groups)

\* da_policy_expr_identity_match_group: the effective group or a supplementary
\* one.
MatchGroup(gid, cred) ==
    \/ gid = DA_WILDCARD
    \/ /\ gid # DA_INVALID
       /\ cred # NULL
       /\ gid \in {cred.egid} \cup cred.groups

\* da_policy_expr_identity_match.
MatchIdentity(x, pc) == MatchUser(x.uid, pc.cred) /\ MatchGroup(x.gid, pc.cred)

\* da_policy_expr_custom_match.
MatchCustom(x, pc) ==
    /\ pc.action = x.action
    /\ x.pattern # NULL => pc.arg # NULL /\ pc.arg \in Globs[x.pattern]

\* da_policy_expr_match of an expression that is not NULL: the checks for which
\* it returns TRUE.
Match[x \in Exprs] ==
    CASE x.type = "identity" -> {pc \in Checks : MatchIdentity(x, pc)}
      [] x.type = "custom"   -> {pc \in Checks : MatchCustom(x, pc)}
      [] x.type = "not"      -> Checks \ Match[x.operand]
      [] x.type = "and"      -> Match[x.left] \cap Match[x.right]
      [] OTHER               -> Match[x.left] \cup Match[x.right]

-----------------------------------------------------------------------------
(* When two expressions are equal.                                         *)

Binary(x) == x.type \in {"and", "or"}

\* Mutants of SameOperands: the order of operands matters; one equal pair is
\* enough.
SameOperandsOrdered(ll, rr, lr, rl) == ll /\ rr

SameOperandsAny(ll, rr, lr, rl) == ll \/ rr \/ (lr /\ rl)

\* da_policy_expr_binary_equal: both operations are commutative.  ll says that
\* the left operands are equal, lr that the left operand of the first expression
\* is equal to the right one of the second, and so on.
SameOperands(ll, rr, lr, rl) == (ll /\ rr) \/ (lr /\ rl)

\* da_policy_expr_custom_equal.
SameCustom(x1, x2) == x1.action = x2.action /\ x1.pattern = x2.pattern

\* da_policy_expr_equal of expressions x1 and x2 that are not NULL.
Equal[x1 \in Exprs] == [x2 \in Exprs |->
    /\ x1.type = x2.type
    /\ CASE Binary(x1) -> SameOperands(Equal[x1.left][x2.left],
                                       Equal[x1.right][x2.right],
                                       Equal[x1.left][x2.right],
                                       Equal[x1.right][x2.left])
         [] x1.type = "not"    -> Equal[x1.operand][x2.operand]
         [] x1.type = "custom" -> SameCustom(x1, x2)
         [] OTHER              -> x1.uid = x2.uid /\ x1.gid = x2.gid]

-----------------------------------------------------------------------------
(* What is expected of both.                                               *)

\* The expression without the order of operands.
Canon[x \in Exprs] ==
    CASE Binary(x)      -> [type |-> x.type, operands |-> {Canon[x.left], Canon[x.right]}]
      [] x.type = "not" -> Not(Canon[x.operand])
      [] OTHER          -> x

\* Equality is no finer and no coarser than "the same tree up to the order of
\* operands", at every level; in particular it is an equivalence.
EqualIsCanonical(x1, x2) == Equal[x1][x2] <=> Canon[x1] = Canon[x2]

\* Equal expressions match the same calls.
EqualIsSound(x1, x2) == Equal[x1][x2] => Match[x1] = Match[x2]

\* cred1 is at most as privileged as cred2: no credentials at all, or the same
\* user with fewer groups, whichever of them is the effective one.
AtMost(cred1, cred2) ==
    \/ cred1 = NULL
    \/ /\ NULL \notin {cred1, cred2}
       /\ cred1.euid = cred2.euid
       /\ {cred1.egid} \cup cred1.groups \subseteq {cred2.egid} \cup cred2.groups

\* id1 is at most as wide as id2: a name that the system does not know stands for
\* nobody, and the wildcard for everybody.
AtMostId(id1, id2) == id1 = id2 \/ id1 = DA_INVALID \/ id2 = DA_WILDCARD

\* user() or group() of a name that the system does not know, and user(*).
Nobody(x) == x.type = "identity" /\ DA_INVALID \in {x.uid, x.gid}

Anybody(x) == x = Identity(DA_WILDCARD, DA_WILDCARD)

\* The same tree, without "!", in which the ids of x1 are at most as wide as those of
\* x2; nobody's is narrower than any expression, and anybody's is wider.
Narrower[x1 \in Exprs] == [x2 \in Exprs |->
    \/ Nobody(x1)
    \/ Anybody(x2)
    \/ /\ x1.type = x2.type
       /\ CASE Binary(x1) -> /\ Narrower[x1.left][x2.left]
                             /\ Narrower[x1.right][x2.right]
            [] x1.type = "not"    -> FALSE
            [] x1.type = "custom" -> SameCustom(x1, x2)
            [] OTHER              -> /\ AtMostId(x1.uid, x2.uid)
                                     /\ AtMostId(x1.gid, x2.gid)]

\* Without "!", a match is not lost when the caller gets more groups, or its
\* credentials become known, or when the rule gets wider: unknown names are below all
\* ids, and the wildcard above them, for known and for unknown callers.
MatchIsMonotone(x1, x2) ==
    Narrower[x1][x2] =>
        LET matched == Match[x1]
            matchedByWider == Match[x2]
        IN  \A pc1 \in matched : \A pc2 \in Checks :
                /\ AtMost(pc1.cred, pc2.cred)
                /\ pc1.action = pc2.action
                /\ pc1.arg = pc2.arg
                => pc2 \in matchedByWider

\* "user(uid:gid) is equivalent to (user(uid)&group(gid))", also for names that
\* the system does not know and callers without credentials.
PairIsConjunction(uid, gid) ==
    \A pc \in Checks :
        MatchIdentity(Identity(uid, gid), pc) <=>
            /\ MatchIdentity(Identity(uid, DA_WILDCARD), pc)
            /\ MatchIdentity(Identity(DA_WILDCARD, gid), pc)

=============================================================================
