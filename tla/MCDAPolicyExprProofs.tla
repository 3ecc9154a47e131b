------------------------- MODULE MCDAPolicyExprProofs -------------------------
(***************************************************************************)
(* What the run of MCDAPolicyExpr checks for expressions with two nested   *)
(* operators over two atoms at a time, for every nesting and all atoms.    *)
(***************************************************************************)
EXTENDS MCDAPolicyExpr, DAPolicyExprProofs

\* The inductive invariant: only expressions are compared.
PairOK == x1 \in Exprs /\ x2 \in Exprs \cup {NULL}

\* Every reachable state satisfies it.
LEMMA PairInvariant == Spec => []PairOK
<1>1. Init => PairOK
  BY DEF Init, PairOK
<1>2. PairOK /\ [Next]_<<x1, x2>> => PairOK'
  BY DEF Next, PairOK, Families
<1> QED BY <1>1, <1>2, PTL DEF Spec

\* da_policy_expr_equal says that two expressions are equal exactly if they are
\* the same tree up to the order of operands.
THEOREM PairEqualCanonical == Spec => []EqualCanonical
<1>1. PairOK => EqualCanonical
  BY ExprEqualIsCanonical DEF PairOK, EqualCanonical
<1> QED BY <1>1, PairInvariant, PTL

\* No call can tell apart two expressions that da_policy_expr_equal considers
\* equal.
THEOREM PairEqualSound == Spec => []EqualSound
<1>1. PairOK => EqualSound
  BY ExprEqualIsSound DEF PairOK, EqualSound
<1> QED BY <1>1, PairInvariant, PTL

\* A caller that gets more groups, or whose credentials become known, is matched
\* by every expression without "!" that matched it before, and by every one that has
\* wider ids: for user(*) and group(*) instead of others, and for others instead of
\* names that the system does not know.
THEOREM PairMatchMonotone == Spec => []MatchMonotone
<1>1. PairOK => MatchMonotone
  BY ExprMatchIsMonotone DEF PairOK, MatchMonotone
<1> QED BY <1>1, PairInvariant, PTL

=============================================================================
