-------------------------- MODULE DAPolicyExprProofs --------------------------
(***************************************************************************)
(* Theorems about DAPolicyExpr, for expressions of any nesting over any    *)
(* atoms.  Each recursive function (Nested, Match, Canon, Equal, Narrower) *)
(* is first shown to exist, so that its definition can be used as an       *)
(* equation; what it computes is proved by induction on the nesting.       *)
(***************************************************************************)
EXTENDS DAPolicyExpr, WellFoundedInduction, TLAPS

\* A set that contains 0 and the successor of each of its elements below n
\* contains all numbers up to n: otherwise there is a least one outside.
LEMMA UpTo ==
  ASSUME NEW n \in Nat, NEW T, 0 \in T,
         \A i \in 0 .. n - 1 : i \in T => i + 1 \in T
  PROVE  0 .. n \subseteq T
<1> DEFINE Outside == {i \in 0 .. n : i \notin T}
<1> SUFFICES ASSUME Outside # {} PROVE FALSE
  OBVIOUS
<1>1. PICK m \in Outside : \A i \in Outside : ~ (<<i, m>> \in OpToRel(<, Nat))
  <2> Outside \subseteq Nat
    OBVIOUS
  <2> HIDE DEF Outside
  <2> QED BY NatLessThanWellFounded, WFMin
<1>2. \A i, j \in Nat : ~ (<<i, j>> \in OpToRel(<, Nat)) => j <= i
  BY DEF OpToRel
<1>3. m \in 0 .. n /\ m \notin T /\ m # 0 /\ m - 1 \in 0 .. n - 1
  OBVIOUS
<1>4. m - 1 \notin Outside
  <2>1. ~ (m <= m - 1) /\ m - 1 \in Nat /\ m \in Nat
    BY <1>3
  <2> HIDE DEF Outside
  <2> QED BY <1>1, <1>2, <2>1
<1>5. m - 1 \in T
  BY <1>3, <1>4
<1> QED BY <1>3, <1>5

-----------------------------------------------------------------------------
(* The expressions.                                                        *)

\* The expressions with at most one operator more than those of a set.
Layer(Below) ==
    Below \cup {Not(x) : x \in Below}
          \cup {And(x, y) : x, y \in Below}
          \cup {Or(x, y) : x, y \in Below}

\* Nested is defined for every nesting up to the bound: each level depends only
\* on the one below.
LEMMA NestedDef ==
  /\ Nested[0] = Atoms
  /\ \A d \in 1 .. Depth : Nested[d] = Layer(Nested[d - 1])
<1> DEFINE Levels(f, k) ==
             f = [d \in 0 .. k |-> IF d = 0 THEN Atoms ELSE Layer(f[d - 1])]
           T == {k \in 0 .. Depth : \E f : Levels(f, k)}
<1>1. 0 \in T
  <2> DEFINE f == [d \in 0 .. 0 |-> Atoms]
  <2>1. Levels(f, 0)
    OBVIOUS
  <2>2. 0 \in 0 .. Depth
    BY ExprAssumption
  <2> HIDE DEF f, Levels
  <2> QED BY <2>1, <2>2
<1>2. ASSUME NEW k \in 0 .. Depth - 1, k \in T
      PROVE  k + 1 \in T
  <2>1. PICK f : Levels(f, k)
    BY <1>2
  <2> DEFINE g == [d \in 0 .. k + 1 |-> IF d = k + 1 THEN Layer(f[k]) ELSE f[d]]
  <2>2. Levels(g, k + 1)
    <3>1. \A d \in 0 .. k + 1 : d = k + 1 \/ d \in 0 .. k
      OBVIOUS
    <3>2. \A d \in 0 .. k : d # 0 => d - 1 \in 0 .. k /\ d - 1 \in 0 .. k + 1 /\ d - 1 # k + 1
      OBVIOUS
    <3>3. \A d \in 0 .. k : g[d] = f[d]
      OBVIOUS
    <3>4. \A d \in 0 .. k : f[d] = IF d = 0 THEN Atoms ELSE Layer(f[d - 1])
      BY <2>1
    <3>5. \A d \in 0 .. k : g[d] = IF d = 0 THEN Atoms ELSE Layer(g[d - 1])
      <4> HIDE DEF g
      <4> QED BY <3>2, <3>3, <3>4
    <3>6. g[k + 1] = Layer(g[k]) /\ k + 1 - 1 = k /\ k + 1 # 0
      BY <3>3
    <3>7. ASSUME NEW d \in 0 .. k + 1
          PROVE  g[d] = IF d = 0 THEN Atoms ELSE Layer(g[d - 1])
      <4> HIDE DEF g
      <4> QED BY <3>1, <3>5, <3>6
    <3>8. g = [d \in 0 .. k + 1 |-> g[d]]
      OBVIOUS
    <3> HIDE DEF g
    <3> QED BY <3>7, <3>8
  <2>3. k + 1 \in 0 .. Depth
    BY ExprAssumption
  <2> HIDE DEF g, Levels
  <2> QED BY <2>2, <2>3
<1>3. Depth \in T
  <2>1. Depth \in Nat /\ Depth \in 0 .. Depth
    BY ExprAssumption
  <2>2. 0 .. Depth \subseteq T
    <3> HIDE DEF T
    <3> QED BY ONLY <1>1, <1>2, <2>1, UpTo
  <2> QED BY <2>1, <2>2
<1>4. Levels(CHOOSE f : Levels(f, Depth), Depth)
  <2> HIDE DEF Levels
  <2> QED BY <1>3
<1>5. Nested = CHOOSE f : Levels(f, Depth)
  BY DEF Nested, Layer
<1>6. Levels(Nested, Depth)
  <2> HIDE DEF Levels
  <2> QED BY <1>4, <1>5
<1>7. \A d \in 1 .. Depth : d \in 0 .. Depth /\ d # 0
  BY ExprAssumption
<1>8. 0 \in 0 .. Depth
  BY ExprAssumption
<1> QED BY <1>6, <1>7, <1>8

\* A level contains the ones below it.
LEMMA NestedGrows ==
  /\ \A d \in 1 .. Depth : Nested[d - 1] \subseteq Nested[d]
  /\ \A d \in 0 .. Depth : Nested[d] \subseteq Exprs
<1>1. \A d \in 1 .. Depth : Nested[d - 1] \subseteq Nested[d]
  BY NestedDef DEF Layer
<1> DEFINE T == {k \in 0 .. Depth : Nested[Depth - k] \subseteq Nested[Depth]}
<1>2. 0 \in T
  <2>1. 0 \in 0 .. Depth /\ Depth - 0 = Depth
    BY ExprAssumption
  <2> QED BY <2>1
<1>3. ASSUME NEW k \in 0 .. Depth - 1, k \in T
      PROVE  k + 1 \in T
  <2>1. Depth - k \in 1 .. Depth /\ Depth - k - 1 = Depth - (k + 1) /\ k + 1 \in 0 .. Depth
    BY ExprAssumption
  <2>2. Nested[Depth - (k + 1)] \subseteq Nested[Depth - k]
    BY <1>1, <2>1
  <2>3. Nested[Depth - k] \subseteq Nested[Depth]
    BY <1>3
  <2> QED BY <2>1, <2>2, <2>3
<1>4. 0 .. Depth \subseteq T
  <2>1. Depth \in Nat
    BY ExprAssumption
  <2> HIDE DEF T
  <2> QED BY ONLY <1>2, <1>3, <2>1, UpTo
<1>5. ASSUME NEW d \in 0 .. Depth
      PROVE  Nested[d] \subseteq Nested[Depth]
  <2>1. Depth - d \in 0 .. Depth /\ Depth - (Depth - d) = d
    BY ExprAssumption
  <2> QED BY <1>4, <2>1
<1> QED BY <1>1, <1>5 DEF Exprs

\* x is a leaf, or an operator applied to operands of a level below d.
Shape(x, d) ==
    \/ x \in Atoms
    \/ /\ d \in 1 .. Depth
       /\ \/ \E y \in Nested[d - 1] : x = Not(y)
          \/ \E y, z \in Nested[d - 1] : x = And(y, z)
          \/ \E y, z \in Nested[d - 1] : x = Or(y, z)

\* The operands of an expression have fewer nested operators.
LEMMA NestedShape == \A d \in 0 .. Depth : \A x \in Nested[d] : Shape(x, d)
<1> DEFINE T == {d \in 0 .. Depth : \A x \in Nested[d] : Shape(x, d)}
<1>1. 0 \in T
  <2>1. 0 \in 0 .. Depth /\ \A x \in Nested[0] : Shape(x, 0)
    BY ExprAssumption, NestedDef DEF Shape
  <2> QED BY <2>1
<1>2. ASSUME NEW k \in 0 .. Depth - 1, k \in T
      PROVE  k + 1 \in T
  <2> DEFINE d == k + 1
  <2>1. d \in 1 .. Depth /\ d - 1 = k /\ d \in 0 .. Depth
    BY ExprAssumption
  <2> HIDE DEF d
  <2>2. ASSUME NEW x \in Nested[d]
        PROVE  Shape(x, d)
    <3>1. CASE x \in Nested[k]
      <4>1. Shape(x, k)
        BY <1>2, <3>1
      <4>2. k \in 1 .. Depth => Nested[k - 1] \subseteq Nested[d - 1]
        BY <2>1, NestedGrows
      <4> QED BY <2>1, <4>1, <4>2 DEF Shape
    <3>2. CASE x \notin Nested[k]
      <4>1. x \in Layer(Nested[d - 1]) /\ x \notin Nested[d - 1]
        BY <2>1, <2>2, <3>2, NestedDef
      <4> QED BY <2>1, <4>1 DEF Layer, Shape
    <3> QED BY <3>1, <3>2
  <2>3. d \in T
    BY <2>1, <2>2
  <2> QED BY <2>3 DEF d
<1>3. 0 .. Depth \subseteq T
  <2>1. Depth \in Nat
    BY ExprAssumption
  <2> HIDE DEF T
  <2> QED BY ONLY <1>1, <1>2, <2>1, UpTo
<1> QED BY <1>3

\* The operands again, by the type of the expression.
LEMMA Operands ==
  ASSUME NEW d \in 0 .. Depth, NEW x \in Nested[d]
  PROVE  /\ x.type \in {"identity", "custom"} <=> x \in Atoms
         /\ x.type \in {"identity", "custom", "not", "and", "or"}
         /\ x.type = "not" =>
               d \in 1 .. Depth /\ x.operand \in Nested[d - 1] /\ x = Not(x.operand)
         /\ Binary(x) =>
               d \in 1 .. Depth /\ x.left \in Nested[d - 1] /\ x.right \in Nested[d - 1]
<1>1. Shape(x, d)
  BY NestedShape
<1>2. CASE x \in Atoms
  <2>1. x.type \in {"identity", "custom"}
    BY <1>2, AtomAssumption DEF AllAtoms, Identity, Custom
  <2> QED BY <1>2, <2>1 DEF Binary
<1>3. ASSUME d \in 1 .. Depth, NEW y \in Nested[d - 1], x = Not(y)
      PROVE  x.type = "not" /\ x.operand \in Nested[d - 1] /\ x = Not(x.operand)
  BY <1>3 DEF Not
<1>4. ASSUME d \in 1 .. Depth, NEW y \in Nested[d - 1], NEW z \in Nested[d - 1],
             x = And(y, z) \/ x = Or(y, z)
      PROVE  x.type \in {"and", "or"} /\ x.left \in Nested[d - 1] /\ x.right \in Nested[d - 1]
  BY <1>4 DEF And, Or
<1>5. CASE x \notin Atoms
  <2>1. CASE \E y \in Nested[d - 1] : x = Not(y)
    <3>1. d \in 1 .. Depth /\ x.type = "not" /\ x.operand \in Nested[d - 1] /\ x = Not(x.operand)
      BY <1>1, <1>3, <1>5, <2>1 DEF Shape
    <3> QED BY <1>5, <3>1 DEF Binary
  <2>2. CASE \E y, z \in Nested[d - 1] : x = And(y, z) \/ x = Or(y, z)
    <3>1. d \in 1 .. Depth /\ x.type \in {"and", "or"}
          /\ x.left \in Nested[d - 1] /\ x.right \in Nested[d - 1]
      BY <1>1, <1>4, <1>5, <2>2 DEF Shape
    <3> QED BY <1>5, <3>1 DEF Binary
  <2> QED BY <1>1, <1>5, <2>1, <2>2 DEF Shape
<1> QED BY <1>2, <1>5

-----------------------------------------------------------------------------
(* What an expression matches.                                             *)

\* The definition of Match in terms of what f says of the operands.
MatchBy(f, x) ==
    CASE x.type = "identity" -> {pc \in Checks : MatchIdentity(x, pc)}
      [] x.type = "custom"   -> {pc \in Checks : MatchCustom(x, pc)}
      [] x.type = "not"      -> Checks \ f[x.operand]
      [] x.type = "and"      -> f[x.left] \cap f[x.right]
      [] OTHER               -> f[x.left] \cup f[x.right]

\* It depends on the operands only.
LEMMA MatchByOperands ==
  ASSUME NEW d \in 0 .. Depth, NEW x \in Nested[d], NEW f, NEW g,
         d \in 1 .. Depth => \A y \in Nested[d - 1] : f[y] = g[y]
  PROVE  MatchBy(f, x) = MatchBy(g, x)
<1>1. CASE x.type = "identity"
  BY <1>1 DEF MatchBy
<1>2. CASE x.type = "custom"
  BY <1>2 DEF MatchBy
<1>3. CASE x.type = "not"
  <2>1. f[x.operand] = g[x.operand]
    BY <1>3, Operands
  <2> QED BY <1>3, <2>1 DEF MatchBy
<1>4. CASE x.type \in {"and", "or"}
  <2>1. f[x.left] = g[x.left] /\ f[x.right] = g[x.right]
    BY <1>4, Operands DEF Binary
  <2> QED BY <1>4, <2>1 DEF MatchBy
<1> QED BY <1>1, <1>2, <1>3, <1>4, Operands

\* Match is defined for every expression.
LEMMA MatchDef == \A x \in Exprs : Match[x] = MatchBy(Match, x)
<1> DEFINE Correct(f, d) == f = [x \in Nested[d] |-> MatchBy(f, x)]
           T == {d \in 0 .. Depth : \E f : Correct(f, d)}
<1>0. Depth \in Nat /\ 0 \in 0 .. Depth /\ Depth \in 0 .. Depth
  BY ExprAssumption
<1>1. 0 \in T
  <2> DEFINE f == [x \in Nested[0] |-> MatchBy(Checks, x)]
  <2>1. Correct(f, 0)
    <3>1. \A x \in Nested[0] : MatchBy(Checks, x) = MatchBy(f, x)
      <4> HIDE DEF f
      <4> QED BY <1>0, MatchByOperands
    <3> QED BY <3>1
  <2> HIDE DEF f, Correct
  <2> QED BY <1>0, <2>1
<1>2. ASSUME NEW k \in 0 .. Depth - 1, k \in T
      PROVE  k + 1 \in T
  <2>1. PICK f : Correct(f, k)
    BY <1>2
  <2> DEFINE g == [x \in Nested[k + 1] |-> MatchBy(f, x)]
  <2>2. k + 1 \in 1 .. Depth /\ k + 1 \in 0 .. Depth /\ k + 1 - 1 = k
    BY <1>0
  <2>3. \A x \in Nested[k] : g[x] = f[x]
    <3>1. \A x \in Nested[k] : x \in Nested[k + 1]
      BY <2>2, NestedGrows
    <3> QED BY <2>1, <3>1
  <2>4. Correct(g, k + 1)
    <3>1. \A x \in Nested[k + 1] : MatchBy(f, x) = MatchBy(g, x)
      <4> HIDE DEF g
      <4> QED BY <2>2, <2>3, MatchByOperands
    <3> QED BY <3>1
  <2> HIDE DEF g, Correct
  <2> QED BY <2>2, <2>4
<1>3. Depth \in T
  <2>1. 0 .. Depth \subseteq T
    <3> HIDE DEF T
    <3> QED BY ONLY <1>0, <1>1, <1>2, UpTo
  <2> QED BY <1>0, <2>1
<1>4. Correct(CHOOSE f : Correct(f, Depth), Depth)
  <2> HIDE DEF Correct
  <2> QED BY <1>3
<1>5. Match = CHOOSE f : Correct(f, Depth)
  BY DEF Match, MatchBy, Exprs
<1>6. Correct(Match, Depth)
  <2> HIDE DEF Correct
  <2> QED BY <1>4, <1>5
<1> QED BY <1>6 DEF Exprs

-----------------------------------------------------------------------------
(* The tree without the order of operands.                                  *)

\* The definition of Canon in terms of what f says of the operands.
CanonBy(f, x) ==
    CASE Binary(x)      -> [type |-> x.type, operands |-> {f[x.left], f[x.right]}]
      [] x.type = "not" -> Not(f[x.operand])
      [] OTHER          -> x

\* It depends on the operands only.
LEMMA CanonByOperands ==
  ASSUME NEW d \in 0 .. Depth, NEW x \in Nested[d], NEW f, NEW g,
         d \in 1 .. Depth => \A y \in Nested[d - 1] : f[y] = g[y]
  PROVE  CanonBy(f, x) = CanonBy(g, x)
<1>1. CASE x.type \in {"identity", "custom"}
  BY <1>1 DEF CanonBy, Binary
<1>2. CASE x.type = "not"
  <2>1. f[x.operand] = g[x.operand]
    BY <1>2, Operands
  <2> QED BY <1>2, <2>1 DEF CanonBy, Binary
<1>3. CASE x.type \in {"and", "or"}
  <2>1. f[x.left] = g[x.left] /\ f[x.right] = g[x.right]
    BY <1>3, Operands DEF Binary
  <2> QED BY <1>3, <2>1 DEF CanonBy
<1> QED BY <1>1, <1>2, <1>3, Operands

\* Canon is defined for every expression.
LEMMA CanonDef == \A x \in Exprs : Canon[x] = CanonBy(Canon, x)
<1> DEFINE Correct(f, d) == f = [x \in Nested[d] |-> CanonBy(f, x)]
           T == {d \in 0 .. Depth : \E f : Correct(f, d)}
<1>0. Depth \in Nat /\ 0 \in 0 .. Depth /\ Depth \in 0 .. Depth
  BY ExprAssumption
<1>1. 0 \in T
  <2> DEFINE f == [x \in Nested[0] |-> CanonBy(Checks, x)]
  <2>1. Correct(f, 0)
    <3>1. \A x \in Nested[0] : CanonBy(Checks, x) = CanonBy(f, x)
      <4> HIDE DEF f
      <4> QED BY <1>0, CanonByOperands
    <3> QED BY <3>1
  <2> HIDE DEF f, Correct
  <2> QED BY <1>0, <2>1
<1>2. ASSUME NEW k \in 0 .. Depth - 1, k \in T
      PROVE  k + 1 \in T
  <2>1. PICK f : Correct(f, k)
    BY <1>2
  <2> DEFINE g == [x \in Nested[k + 1] |-> CanonBy(f, x)]
  <2>2. k + 1 \in 1 .. Depth /\ k + 1 \in 0 .. Depth /\ k + 1 - 1 = k
    BY <1>0
  <2>3. \A x \in Nested[k] : g[x] = f[x]
    <3>1. \A x \in Nested[k] : x \in Nested[k + 1]
      BY <2>2, NestedGrows
    <3> QED BY <2>1, <3>1
  <2>4. Correct(g, k + 1)
    <3>1. \A x \in Nested[k + 1] : CanonBy(f, x) = CanonBy(g, x)
      <4> HIDE DEF g
      <4> QED BY <2>2, <2>3, CanonByOperands
    <3> QED BY <3>1
  <2> HIDE DEF g, Correct
  <2> QED BY <2>2, <2>4
<1>3. Depth \in T
  <2>1. 0 .. Depth \subseteq T
    <3> HIDE DEF T
    <3> QED BY ONLY <1>0, <1>1, <1>2, UpTo
  <2> QED BY <1>0, <2>1
<1>4. Correct(CHOOSE f : Correct(f, Depth), Depth)
  <2> HIDE DEF Correct
  <2> QED BY <1>3
<1>5. Canon = CHOOSE f : Correct(f, Depth)
  BY DEF Canon, CanonBy, Exprs
<1>6. Correct(Canon, Depth)
  <2> HIDE DEF Correct
  <2> QED BY <1>4, <1>5
<1> QED BY <1>6 DEF Exprs

-----------------------------------------------------------------------------
(* When two expressions are equal.                                          *)

\* The definition of Equal in terms of what f says of the operands.
EqualBy(f, x1) == [x2 \in Exprs |->
    /\ x1.type = x2.type
    /\ CASE Binary(x1) -> SameOperands(f[x1.left][x2.left],
                                       f[x1.right][x2.right],
                                       f[x1.left][x2.right],
                                       f[x1.right][x2.left])
         [] x1.type = "not"    -> f[x1.operand][x2.operand]
         [] x1.type = "custom" -> SameCustom(x1, x2)
         [] OTHER              -> x1.uid = x2.uid /\ x1.gid = x2.gid]

\* It depends on the operands only.
LEMMA EqualByOperands ==
  ASSUME NEW d \in 0 .. Depth, NEW x \in Nested[d], NEW f, NEW g,
         d \in 1 .. Depth => \A y \in Nested[d - 1] : f[y] = g[y]
  PROVE  EqualBy(f, x) = EqualBy(g, x)
<1>1. CASE x.type \in {"identity", "custom"}
  BY <1>1 DEF EqualBy, Binary
<1>2. CASE x.type = "not"
  <2>1. f[x.operand] = g[x.operand]
    BY <1>2, Operands
  <2> QED BY <1>2, <2>1 DEF EqualBy, Binary
<1>3. CASE x.type \in {"and", "or"}
  <2>1. f[x.left] = g[x.left] /\ f[x.right] = g[x.right]
    BY <1>3, Operands DEF Binary
  <2> QED BY <1>3, <2>1 DEF EqualBy
<1> QED BY <1>1, <1>2, <1>3, Operands

\* Equal is defined for every expression.
LEMMA EqualDef == \A x \in Exprs : Equal[x] = EqualBy(Equal, x)
<1> DEFINE Correct(f, d) == f = [x \in Nested[d] |-> EqualBy(f, x)]
           T == {d \in 0 .. Depth : \E f : Correct(f, d)}
<1>0. Depth \in Nat /\ 0 \in 0 .. Depth /\ Depth \in 0 .. Depth
  BY ExprAssumption
<1>1. 0 \in T
  <2> DEFINE f == [x \in Nested[0] |-> EqualBy(Checks, x)]
  <2>1. Correct(f, 0)
    <3>1. \A x \in Nested[0] : EqualBy(Checks, x) = EqualBy(f, x)
      <4> HIDE DEF f
      <4> QED BY <1>0, EqualByOperands
    <3> QED BY <3>1
  <2> HIDE DEF f, Correct
  <2> QED BY <1>0, <2>1
<1>2. ASSUME NEW k \in 0 .. Depth - 1, k \in T
      PROVE  k + 1 \in T
  <2>1. PICK f : Correct(f, k)
    BY <1>2
  <2> DEFINE g == [x \in Nested[k + 1] |-> EqualBy(f, x)]
  <2>2. k + 1 \in 1 .. Depth /\ k + 1 \in 0 .. Depth /\ k + 1 - 1 = k
    BY <1>0
  <2>3. \A x \in Nested[k] : g[x] = f[x]
    <3>1. \A x \in Nested[k] : x \in Nested[k + 1]
      BY <2>2, NestedGrows
    <3> QED BY <2>1, <3>1
  <2>4. Correct(g, k + 1)
    <3>1. \A x \in Nested[k + 1] : EqualBy(f, x) = EqualBy(g, x)
      <4> HIDE DEF g
      <4> QED BY <2>2, <2>3, EqualByOperands
    <3> QED BY <3>1
  <2> HIDE DEF g, Correct
  <2> QED BY <2>2, <2>4
<1>3. Depth \in T
  <2>1. 0 .. Depth \subseteq T
    <3> HIDE DEF T
    <3> QED BY ONLY <1>0, <1>1, <1>2, UpTo
  <2> QED BY <1>0, <2>1
<1>4. Correct(CHOOSE f : Correct(f, Depth), Depth)
  <2> HIDE DEF Correct
  <2> QED BY <1>3
<1>5. Equal = CHOOSE f : Correct(f, Depth)
  BY DEF Equal, EqualBy, Exprs
<1>6. Correct(Equal, Depth)
  <2> HIDE DEF Correct
  <2> QED BY <1>4, <1>5
<1> QED BY <1>6 DEF Exprs

-----------------------------------------------------------------------------
(* When an expression is narrower than another one.                        *)

\* The definition of Narrower in terms of what f says of the operands.
NarrowerBy(f, x1) == [x2 \in Exprs |->
    \/ Nobody(x1)
    \/ Anybody(x2)
    \/ /\ x1.type = x2.type
       /\ CASE Binary(x1) -> /\ f[x1.left][x2.left]
                             /\ f[x1.right][x2.right]
            [] x1.type = "not"    -> FALSE
            [] x1.type = "custom" -> SameCustom(x1, x2)
            [] OTHER              -> /\ AtMostId(x1.uid, x2.uid)
                                     /\ AtMostId(x1.gid, x2.gid)]

\* It depends on the operands only.
LEMMA NarrowerByOperands ==
  ASSUME NEW d \in 0 .. Depth, NEW x \in Nested[d], NEW f, NEW g,
         d \in 1 .. Depth => \A y \in Nested[d - 1] : f[y] = g[y]
  PROVE  NarrowerBy(f, x) = NarrowerBy(g, x)
<1>1. CASE x.type \in {"identity", "custom"}
  BY <1>1 DEF NarrowerBy, Binary
<1>2. CASE x.type = "not"
  BY <1>2 DEF NarrowerBy, Binary
<1>3. CASE x.type \in {"and", "or"}
  <2>1. f[x.left] = g[x.left] /\ f[x.right] = g[x.right]
    BY <1>3, Operands DEF Binary
  <2> QED BY <1>3, <2>1 DEF NarrowerBy
<1> QED BY <1>1, <1>2, <1>3, Operands

\* Narrower is defined for every expression.
LEMMA NarrowerDef == \A x \in Exprs : Narrower[x] = NarrowerBy(Narrower, x)
<1> DEFINE Correct(f, d) == f = [x \in Nested[d] |-> NarrowerBy(f, x)]
           T == {d \in 0 .. Depth : \E f : Correct(f, d)}
<1>0. Depth \in Nat /\ 0 \in 0 .. Depth /\ Depth \in 0 .. Depth
  BY ExprAssumption
<1>1. 0 \in T
  <2> DEFINE f == [x \in Nested[0] |-> NarrowerBy(Checks, x)]
  <2>1. Correct(f, 0)
    <3>1. \A x \in Nested[0] : NarrowerBy(Checks, x) = NarrowerBy(f, x)
      <4> HIDE DEF f
      <4> QED BY <1>0, NarrowerByOperands
    <3> QED BY <3>1
  <2> HIDE DEF f, Correct
  <2> QED BY <1>0, <2>1
<1>2. ASSUME NEW k \in 0 .. Depth - 1, k \in T
      PROVE  k + 1 \in T
  <2>1. PICK f : Correct(f, k)
    BY <1>2
  <2> DEFINE g == [x \in Nested[k + 1] |-> NarrowerBy(f, x)]
  <2>2. k + 1 \in 1 .. Depth /\ k + 1 \in 0 .. Depth /\ k + 1 - 1 = k
    BY <1>0
  <2>3. \A x \in Nested[k] : g[x] = f[x]
    <3>1. \A x \in Nested[k] : x \in Nested[k + 1]
      BY <2>2, NestedGrows
    <3> QED BY <2>1, <3>1
  <2>4. Correct(g, k + 1)
    <3>1. \A x \in Nested[k + 1] : NarrowerBy(f, x) = NarrowerBy(g, x)
      <4> HIDE DEF g
      <4> QED BY <2>2, <2>3, NarrowerByOperands
    <3> QED BY <3>1
  <2> HIDE DEF g, Correct
  <2> QED BY <2>2, <2>4
<1>3. Depth \in T
  <2>1. 0 .. Depth \subseteq T
    <3> HIDE DEF T
    <3> QED BY ONLY <1>0, <1>1, <1>2, UpTo
  <2> QED BY <1>0, <2>1
<1>4. Correct(CHOOSE f : Correct(f, Depth), Depth)
  <2> HIDE DEF Correct
  <2> QED BY <1>3
<1>5. Narrower = CHOOSE f : Correct(f, Depth)
  BY DEF Narrower, NarrowerBy, Exprs
<1>6. Correct(Narrower, Depth)
  <2> HIDE DEF Correct
  <2> QED BY <1>4, <1>5
<1> QED BY <1>6 DEF Exprs

-----------------------------------------------------------------------------
(* Equality.                                                               *)

\* da_policy_expr_equal of two expressions, in terms of their operands.
LEMMA EqualUnfold ==
  ASSUME NEW x1 \in Exprs, NEW x2 \in Exprs
  PROVE  /\ Equal[x1][x2] => x1.type = x2.type
         /\ x1.type = x2.type /\ Binary(x1) =>
              (Equal[x1][x2] <=>
                 \/ Equal[x1.left][x2.left] /\ Equal[x1.right][x2.right]
                 \/ Equal[x1.left][x2.right] /\ Equal[x1.right][x2.left])
         /\ x1.type = x2.type /\ x1.type = "not" =>
              (Equal[x1][x2] <=> Equal[x1.operand][x2.operand])
         /\ x1.type = x2.type /\ x1.type = "custom" =>
              (Equal[x1][x2] <=> SameCustom(x1, x2))
         /\ x1.type = x2.type /\ x1.type = "identity" =>
              (Equal[x1][x2] <=> x1.uid = x2.uid /\ x1.gid = x2.gid)
<1>1. Equal[x1] = EqualBy(Equal, x1)
  BY EqualDef
<1> QED BY <1>1 DEF EqualBy, SameOperands, Binary

\* Taking the order away keeps the type of an expression.
LEMMA CanonUnfold ==
  ASSUME NEW d \in 0 .. Depth, NEW x \in Nested[d]
  PROVE  /\ Canon[x].type = x.type
         /\ Binary(x) =>
              Canon[x] = [type |-> x.type, operands |-> {Canon[x.left], Canon[x.right]}]
         /\ x.type = "not" => Canon[x] = Not(Canon[x.operand])
         /\ x.type \in {"identity", "custom"} => Canon[x] = x
<1>1. x \in Exprs
  BY NestedGrows
<1>2. Canon[x] = CanonBy(Canon, x)
  BY <1>1, CanonDef
<1>3. CASE Binary(x)
  BY <1>2, <1>3 DEF CanonBy, Binary
<1>4. CASE x.type = "not"
  BY <1>2, <1>4 DEF CanonBy, Binary, Not
<1>5. CASE x.type \in {"identity", "custom"}
  BY <1>2, <1>5 DEF CanonBy, Binary
<1> QED BY <1>3, <1>4, <1>5, Operands DEF Binary

\* Leaves are equal if they have the same contents.
LEMMA AtomsEqual ==
  ASSUME NEW x1 \in Atoms, NEW x2 \in Atoms, x1.type = x2.type
  PROVE  /\ x1.type = "custom" => (SameCustom(x1, x2) <=> x1 = x2)
         /\ x1.type = "identity" => (x1.uid = x2.uid /\ x1.gid = x2.gid <=> x1 = x2)
<1>1. ASSUME NEW x \in Atoms
      PROVE  /\ x.type = "custom" =>
                   x = [type |-> "custom", action |-> x.action, pattern |-> x.pattern]
             /\ x.type = "identity" =>
                   x = [type |-> "identity", uid |-> x.uid, gid |-> x.gid]
  <2>1. x \in AllAtoms
    BY AtomAssumption
  <2>2. CASE \E u, g \in Ids \cup {DA_WILDCARD, DA_INVALID} : x = Identity(u, g)
    BY <2>2 DEF Identity
  <2>3. CASE \E a \in Actions, p \in Patterns \cup {NULL, Star} : x = Custom(a, p)
    BY <2>3 DEF Custom
  <2> QED BY <2>1, <2>2, <2>3 DEF AllAtoms
<1> QED BY <1>1 DEF SameCustom

\* One level of expressions, if it is true of the operands.
LEMMA EqualCanonicalStep ==
  ASSUME NEW d \in 0 .. Depth, NEW x1 \in Nested[d], NEW x2 \in Nested[d],
         d \in 1 .. Depth =>
             \A y1, y2 \in Nested[d - 1] : EqualIsCanonical(y1, y2)
  PROVE  EqualIsCanonical(x1, x2)
<1> USE DEF EqualIsCanonical
<1>1. x1 \in Exprs /\ x2 \in Exprs
  BY NestedGrows
<1>2. CASE x1.type # x2.type
  <2>1. ~Equal[x1][x2]
    BY <1>1, <1>2, EqualUnfold
  <2>2. Canon[x1].type = x1.type /\ Canon[x2].type = x2.type
    BY CanonUnfold
  <2> QED BY <1>2, <2>1, <2>2
<1>3. CASE x1.type = x2.type /\ Binary(x1)
  <2> DEFINE a1 == Canon[x1.left]  b1 == Canon[x1.right]
             a2 == Canon[x2.left]  b2 == Canon[x2.right]
  <2>1. d \in 1 .. Depth /\ x1.left \in Nested[d - 1] /\ x1.right \in Nested[d - 1]
    BY <1>3, Operands
  <2>2. Binary(x2) /\ x2.left \in Nested[d - 1] /\ x2.right \in Nested[d - 1]
    BY <1>3, Operands DEF Binary
  <2>3. Equal[x1][x2] <=> (a1 = a2 /\ b1 = b2) \/ (a1 = b2 /\ b1 = a2)
    BY <1>1, <1>3, <2>1, <2>2, EqualUnfold
  <2>4. /\ Canon[x1] = [type |-> x1.type, operands |-> {a1, b1}]
        /\ Canon[x2] = [type |-> x1.type, operands |-> {a2, b2}]
    BY <1>3, <2>2, CanonUnfold
  <2>5. {a1, b1} = {a2, b2} <=> (a1 = a2 /\ b1 = b2) \/ (a1 = b2 /\ b1 = a2)
    <3> HIDE DEF a1, a2, b1, b2
    <3> QED OBVIOUS
  <2> HIDE DEF a1, a2, b1, b2
  <2>6. Canon[x1] = Canon[x2] <=> {a1, b1} = {a2, b2}
    BY <2>4
  <2> QED BY <2>3, <2>5, <2>6
<1>4. CASE x1.type = x2.type /\ x1.type = "not"
  <2>1. d \in 1 .. Depth /\ x1.operand \in Nested[d - 1] /\ x2.operand \in Nested[d - 1]
    BY <1>4, Operands
  <2>2. Equal[x1][x2] <=> Equal[x1.operand][x2.operand]
    BY <1>1, <1>4, EqualUnfold
  <2>3. Equal[x1.operand][x2.operand] <=> Canon[x1.operand] = Canon[x2.operand]
    BY <2>1
  <2>4. Canon[x1] = Not(Canon[x1.operand])
    BY <1>4, CanonUnfold
  <2>5. Canon[x2] = Not(Canon[x2.operand])
    <3>1. x2.type = "not"
      BY <1>4
    <3> QED BY <3>1, CanonUnfold
  <2> QED BY <2>2, <2>3, <2>4, <2>5 DEF Not
<1>5. CASE x1.type = x2.type /\ x1.type \in {"identity", "custom"}
  <2>1. x1 \in Atoms /\ x2 \in Atoms
    BY <1>5, Operands
  <2>2. Canon[x1] = x1 /\ Canon[x2] = x2
    <3>1. Canon[x1] = x1
      BY <1>5, CanonUnfold
    <3>2. x2.type \in {"identity", "custom"}
      BY <1>5
    <3>3. Canon[x2] = x2
      BY <3>2, CanonUnfold
    <3> QED BY <3>1, <3>3
  <2> QED BY <1>1, <1>5, <2>1, <2>2, EqualUnfold, AtomsEqual
<1> QED BY <1>2, <1>3, <1>4, <1>5, Operands DEF Binary

\* da_policy_expr_equal is equality up to the order of operands, however deeply
\* the expressions are nested; so it is an equivalence relation.
THEOREM ExprEqualIsCanonical == \A x1, x2 \in Exprs : EqualIsCanonical(x1, x2)
<1> DEFINE T == {d \in 0 .. Depth : \A x1, x2 \in Nested[d] : EqualIsCanonical(x1, x2)}
<1>0. Depth \in Nat /\ 0 \in 0 .. Depth /\ Depth \in 0 .. Depth /\ ~(0 \in 1 .. Depth)
  BY ExprAssumption
<1>1. 0 \in T
  <2>1. \A x1, x2 \in Nested[0] : EqualIsCanonical(x1, x2)
    BY <1>0, EqualCanonicalStep
  <2> QED BY <1>0, <2>1
<1>2. ASSUME NEW k \in 0 .. Depth - 1, k \in T
      PROVE  k + 1 \in T
  <2>1. k + 1 \in 0 .. Depth /\ k + 1 - 1 = k
    BY <1>0
  <2>2. \A x1, x2 \in Nested[k + 1] : EqualIsCanonical(x1, x2)
    BY <1>2, <2>1, EqualCanonicalStep
  <2> QED BY <2>1, <2>2
<1>3. 0 .. Depth \subseteq T
  <2> HIDE DEF T
  <2> QED BY ONLY <1>0, <1>1, <1>2, UpTo
<1> QED BY <1>0, <1>3 DEF Exprs

-----------------------------------------------------------------------------
(* What equality is good for.                                              *)

\* One level of expressions, if it is true of the operands.
LEMMA EqualSoundStep ==
  ASSUME NEW d \in 0 .. Depth, NEW x1 \in Nested[d], NEW x2 \in Nested[d],
         d \in 1 .. Depth => \A y1, y2 \in Nested[d - 1] : EqualIsSound(y1, y2)
  PROVE  EqualIsSound(x1, x2)
<1> SUFFICES ASSUME Equal[x1][x2] PROVE Match[x1] = Match[x2]
  BY DEF EqualIsSound
<1>1. x1 \in Exprs /\ x2 \in Exprs
  BY NestedGrows
<1>2. x1.type = x2.type
  BY <1>1, EqualUnfold
<1>3. Match[x1] = MatchBy(Match, x1) /\ Match[x2] = MatchBy(Match, x2)
  BY <1>1, MatchDef
<1>4. CASE x1.type \in {"and", "or"}
  <2>1. Binary(x1) /\ Binary(x2)
    BY <1>2, <1>4 DEF Binary
  <2>2. d \in 1 .. Depth /\ x1.left \in Nested[d - 1] /\ x1.right \in Nested[d - 1]
    BY <2>1, Operands
  <2>3. x2.left \in Nested[d - 1] /\ x2.right \in Nested[d - 1]
    BY <2>1, Operands
  <2>4. \/ Equal[x1.left][x2.left] /\ Equal[x1.right][x2.right]
        \/ Equal[x1.left][x2.right] /\ Equal[x1.right][x2.left]
    BY <1>1, <1>2, <2>1, EqualUnfold
  <2>5. \/ Match[x1.left] = Match[x2.left] /\ Match[x1.right] = Match[x2.right]
        \/ Match[x1.left] = Match[x2.right] /\ Match[x1.right] = Match[x2.left]
    BY <2>2, <2>3, <2>4 DEF EqualIsSound
  <2>6. CASE x1.type = "and"
    <3>1. /\ Match[x1] = Match[x1.left] \cap Match[x1.right]
          /\ Match[x2] = Match[x2.left] \cap Match[x2.right]
      BY <1>2, <1>3, <2>6 DEF MatchBy
    <3> QED BY <2>5, <3>1
  <2>7. CASE x1.type = "or"
    <3>1. /\ Match[x1] = Match[x1.left] \cup Match[x1.right]
          /\ Match[x2] = Match[x2.left] \cup Match[x2.right]
      BY <1>2, <1>3, <2>7 DEF MatchBy
    <3> QED BY <2>5, <3>1
  <2> QED BY <1>4, <2>6, <2>7
<1>5. CASE x1.type = "not"
  <2>1. d \in 1 .. Depth /\ x1.operand \in Nested[d - 1]
    BY <1>5, Operands
  <2>2. x2.operand \in Nested[d - 1]
    <3>1. x2.type = "not"
      BY <1>2, <1>5
    <3> QED BY <3>1, Operands
  <2>3. Equal[x1.operand][x2.operand]
    BY <1>1, <1>2, <1>5, EqualUnfold
  <2>4. Match[x1.operand] = Match[x2.operand]
    BY <2>1, <2>2, <2>3 DEF EqualIsSound
  <2>5. Match[x1] = Checks \ Match[x1.operand] /\ Match[x2] = Checks \ Match[x2.operand]
    BY <1>2, <1>3, <1>5 DEF MatchBy
  <2> QED BY <2>4, <2>5
<1>6. CASE x1.type = "custom"
  <2>1. SameCustom(x1, x2)
    BY <1>1, <1>2, <1>6, EqualUnfold
  <2>2. \A pc \in Checks : MatchCustom(x1, pc) <=> MatchCustom(x2, pc)
    BY <2>1 DEF SameCustom, MatchCustom
  <2>3. Match[x1] = {pc \in Checks : MatchCustom(x1, pc)}
        /\ Match[x2] = {pc \in Checks : MatchCustom(x2, pc)}
    BY <1>2, <1>3, <1>6 DEF MatchBy
  <2> QED BY <2>2, <2>3
<1>7. CASE x1.type = "identity"
  <2>1. x1.uid = x2.uid /\ x1.gid = x2.gid
    BY <1>1, <1>2, <1>7, EqualUnfold
  <2>2. \A pc \in Checks : MatchIdentity(x1, pc) <=> MatchIdentity(x2, pc)
    BY <2>1 DEF MatchIdentity
  <2>3. Match[x1] = {pc \in Checks : MatchIdentity(x1, pc)}
        /\ Match[x2] = {pc \in Checks : MatchIdentity(x2, pc)}
    BY <1>2, <1>3, <1>7 DEF MatchBy
  <2> QED BY <2>2, <2>3
<1> QED BY <1>4, <1>5, <1>6, <1>7, Operands

\* Expressions that da_policy_expr_equal considers equal match the same calls,
\* however deeply they are nested.
THEOREM ExprEqualIsSound == \A x1, x2 \in Exprs : EqualIsSound(x1, x2)
<1> DEFINE T == {d \in 0 .. Depth : \A x1, x2 \in Nested[d] : EqualIsSound(x1, x2)}
<1>0. Depth \in Nat /\ 0 \in 0 .. Depth /\ Depth \in 0 .. Depth /\ ~(0 \in 1 .. Depth)
  BY ExprAssumption
<1>1. 0 \in T
  <2>1. \A x1, x2 \in Nested[0] : EqualIsSound(x1, x2)
    BY <1>0, EqualSoundStep
  <2> QED BY <1>0, <2>1
<1>2. ASSUME NEW k \in 0 .. Depth - 1, k \in T
      PROVE  k + 1 \in T
  <2>1. k + 1 \in 0 .. Depth /\ k + 1 - 1 = k
    BY <1>0
  <2>2. \A x1, x2 \in Nested[k + 1] : EqualIsSound(x1, x2)
    BY <1>2, <2>1, EqualSoundStep
  <2> QED BY <2>1, <2>2
<1>3. 0 .. Depth \subseteq T
  <2> HIDE DEF T
  <2> QED BY ONLY <1>0, <1>1, <1>2, UpTo
<1> QED BY <1>0, <1>3 DEF Exprs

\* Narrower of two expressions, in terms of their operands.
LEMMA NarrowerUnfold ==
  ASSUME NEW x1 \in Exprs, NEW x2 \in Exprs, Narrower[x1][x2],
         ~Nobody(x1), ~Anybody(x2)
  PROVE  /\ x1.type = x2.type
         /\ Binary(x1) => Narrower[x1.left][x2.left] /\ Narrower[x1.right][x2.right]
         /\ x1.type # "not"
         /\ x1.type = "custom" => SameCustom(x1, x2)
         /\ x1.type = "identity" =>
               AtMostId(x1.uid, x2.uid) /\ AtMostId(x1.gid, x2.gid)
<1>1. Narrower[x1] = NarrowerBy(Narrower, x1)
  BY NarrowerDef
<1> QED BY <1>1 DEF NarrowerBy, Binary

\* An unknown name matches no call, and user(*) matches all.
LEMMA ExtremesMatch ==
  ASSUME NEW x \in Exprs
  PROVE  /\ Nobody(x) => Match[x] = {}
         /\ Anybody(x) => Match[x] = Checks
<1>1. Match[x] = MatchBy(Match, x)
  BY MatchDef
<1>2. ASSUME x.type = "identity"
      PROVE  Match[x] = {pc \in Checks : MatchIdentity(x, pc)}
  BY <1>1, <1>2 DEF MatchBy
<1>3. CASE Nobody(x)
  <2>1. DA_INVALID # DA_WILDCARD
    BY DEF DA_INVALID, DA_WILDCARD
  <2>2. \A pc \in Checks : ~MatchIdentity(x, pc)
    BY <1>3, <2>1 DEF Nobody, MatchIdentity, MatchUser, MatchGroup
  <2>3. x.type = "identity"
    BY <1>3 DEF Nobody
  <2>4. ~Anybody(x)
    BY <1>3, <2>1 DEF Nobody, Anybody, Identity
  <2> QED BY <1>2, <2>2, <2>3, <2>4
<1>4. CASE Anybody(x)
  <2>1. x.type = "identity" /\ x.uid = DA_WILDCARD /\ x.gid = DA_WILDCARD
    BY <1>4 DEF Anybody, Identity
  <2>2. \A pc \in Checks : MatchIdentity(x, pc)
    BY <2>1 DEF MatchIdentity, MatchUser, MatchGroup
  <2>3. ~Nobody(x)
    BY <2>1 DEF Nobody, DA_INVALID, DA_WILDCARD
  <2> QED BY <1>2, <2>1, <2>2, <2>3
<1> QED BY <1>3, <1>4

\* An id that matches a caller can be replaced by a wider one, and the caller by a more
\* privileged one.
LEMMA IdMonotone ==
  ASSUME NEW id1, NEW id2, AtMostId(id1, id2),
         NEW cred1, NEW cred2, AtMost(cred1, cred2)
  PROVE  /\ MatchUser(id1, cred1) => MatchUser(id2, cred2)
         /\ MatchGroup(id1, cred1) => MatchGroup(id2, cred2)
<1>1. DA_INVALID # DA_WILDCARD
  BY DEF DA_INVALID, DA_WILDCARD
<1> QED BY <1>1 DEF MatchUser, MatchGroup, AtMostId, AtMost

\* One level of expressions, if it is true of the operands.
LEMMA MatchMonotoneStep ==
  ASSUME NEW d \in 0 .. Depth, NEW x1 \in Nested[d], NEW x2 \in Nested[d],
         d \in 1 .. Depth => \A y1, y2 \in Nested[d - 1] : MatchIsMonotone(y1, y2)
  PROVE  MatchIsMonotone(x1, x2)
<1> SUFFICES ASSUME Narrower[x1][x2], NEW pc1 \in Match[x1], NEW pc2 \in Checks,
                    AtMost(pc1.cred, pc2.cred), pc1.action = pc2.action,
                    pc1.arg = pc2.arg
             PROVE  pc2 \in Match[x2]
  BY DEF MatchIsMonotone
<1>1. x1 \in Exprs /\ x2 \in Exprs
  BY NestedGrows
<1>2. Match[x1] = MatchBy(Match, x1) /\ Match[x2] = MatchBy(Match, x2)
  BY <1>1, MatchDef
<1>3. CASE Nobody(x1) \/ Anybody(x2)
  BY <1>1, <1>3, ExtremesMatch
<1> SUFFICES ASSUME ~Nobody(x1), ~Anybody(x2)
             PROVE  pc2 \in Match[x2]
  BY <1>3
<1>4. x1.type = x2.type /\ x1.type # "not"
  BY <1>1, NarrowerUnfold
<1>5. CASE x1.type \in {"and", "or"}
  <2>1. Binary(x1) /\ Binary(x2)
    BY <1>4, <1>5 DEF Binary
  <2>2. d \in 1 .. Depth /\ x1.left \in Nested[d - 1] /\ x1.right \in Nested[d - 1]
    BY <2>1, Operands
  <2>3. x2.left \in Nested[d - 1] /\ x2.right \in Nested[d - 1]
    BY <2>1, Operands
  <2>4. Narrower[x1.left][x2.left] /\ Narrower[x1.right][x2.right]
    BY <1>1, <2>1, NarrowerUnfold
  <2>5. /\ pc1 \in Match[x1.left] => pc2 \in Match[x2.left]
        /\ pc1 \in Match[x1.right] => pc2 \in Match[x2.right]
    BY <2>2, <2>3, <2>4 DEF MatchIsMonotone
  <2>6. CASE x1.type = "and"
    BY <1>2, <1>4, <2>5, <2>6 DEF MatchBy
  <2>7. CASE x1.type = "or"
    BY <1>2, <1>4, <2>5, <2>7 DEF MatchBy
  <2> QED BY <1>5, <2>6, <2>7
<1>6. CASE x1.type = "custom"
  <2>1. SameCustom(x1, x2)
    BY <1>1, <1>6, NarrowerUnfold
  <2>2. MatchCustom(x1, pc1) => MatchCustom(x2, pc2)
    BY <2>1 DEF SameCustom, MatchCustom
  <2> QED BY <1>2, <1>4, <1>6, <2>2 DEF MatchBy
<1>7. CASE x1.type = "identity"
  <2>1. AtMostId(x1.uid, x2.uid) /\ AtMostId(x1.gid, x2.gid)
    BY <1>1, <1>7, NarrowerUnfold
  <2>2. MatchIdentity(x1, pc1) => MatchIdentity(x2, pc2)
    BY <2>1, IdMonotone DEF MatchIdentity
  <2> QED BY <1>2, <1>4, <1>7, <2>2 DEF MatchBy
<1> QED BY <1>4, <1>5, <1>6, <1>7, Operands

\* Without "!", more groups, known credentials or wider ids never lose a match,
\* however deeply the expressions are nested.
THEOREM ExprMatchIsMonotone == \A x1, x2 \in Exprs : MatchIsMonotone(x1, x2)
<1> DEFINE T == {d \in 0 .. Depth : \A x1, x2 \in Nested[d] : MatchIsMonotone(x1, x2)}
<1>0. Depth \in Nat /\ 0 \in 0 .. Depth /\ Depth \in 0 .. Depth /\ ~(0 \in 1 .. Depth)
  BY ExprAssumption
<1>1. 0 \in T
  <2>1. \A x1, x2 \in Nested[0] : MatchIsMonotone(x1, x2)
    BY <1>0, MatchMonotoneStep
  <2> QED BY <1>0, <2>1
<1>2. ASSUME NEW k \in 0 .. Depth - 1, k \in T
      PROVE  k + 1 \in T
  <2>1. k + 1 \in 0 .. Depth /\ k + 1 - 1 = k
    BY <1>0
  <2>2. \A x1, x2 \in Nested[k + 1] : MatchIsMonotone(x1, x2)
    BY <1>2, <2>1, MatchMonotoneStep
  <2> QED BY <2>1, <2>2
<1>3. 0 .. Depth \subseteq T
  <2> HIDE DEF T
  <2> QED BY ONLY <1>0, <1>1, <1>2, UpTo
<1> QED BY <1>0, <1>3 DEF Exprs

=============================================================================
