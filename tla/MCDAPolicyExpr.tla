--------------------------- MODULE MCDAPolicyExpr ---------------------------
(***************************************************************************)
(* Enumerates the pairs of expressions of the same type, the only ones     *)
(* that da_policy_expr_equal looks into.                                   *)
(***************************************************************************)
EXTENDS DAPolicyExpr, FiniteSets

VARIABLES x1, x2

\* user(1:2), group(2), user(*), group(x) where the system does not know x, and
\* call("p")
FiveAtoms ==
    {Identity(1, 2), Identity(DA_WILDCARD, 2), Identity(DA_WILDCARD, DA_WILDCARD),
     Identity(DA_WILDCARD, DA_INVALID), Custom("call", "p")}

\* The first argument is the only one that pattern "p" matches.
PatternGlobs == [p \in {"p"} |-> {"arg1"}]

\* Users 0 (root) and 1; group 2 is the effective group, a supplementary one,
\* or neither.
SomeCreds ==
    {[euid |-> u, egid |-> g, groups |-> s] :
        u \in {0, 1}, g \in {1, 2}, s \in {{}, {2}}}

Init == x1 \in Exprs /\ x2 = NULL

\* The atoms of an expression.
Leaves[x \in Exprs] ==
    CASE Binary(x)      -> Leaves[x.left] \cup Leaves[x.right]
      [] x.type = "not" -> Leaves[x.operand]
      [] OTHER          -> {x}

\* For each two atoms, the expressions over them.
Families ==
    {{x \in Exprs : Leaves[x] \subseteq A} :
        A \in {A \in SUBSET Atoms : Cardinality(A) = 2}}

\* Bound: the two expressions have at most two different atoms.
Next ==
    /\ x2 = NULL
    /\ \E F \in Families : x1 \in F /\ x2' \in {x \in F : x.type = x1.type}
    /\ UNCHANGED x1

Spec == Init /\ [][Next]_<<x1, x2>>

\* da_policy_expr_equal is equality up to the order of the operands.
EqualCanonical == x2 # NULL => EqualIsCanonical(x1, x2)

\* Equal expressions cannot be told apart by any call.
EqualSound == x2 # NULL => EqualIsSound(x1, x2)

\* More groups, and wider ids, never lose a match of an expression without "!".
MatchMonotone == x2 # NULL => MatchIsMonotone(x1, x2)

=============================================================================
