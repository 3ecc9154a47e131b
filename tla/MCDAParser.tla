----------------------------- MODULE MCDAParser -----------------------------
(***************************************************************************)
(* What DAParser should make of a text, defined on the text as a whole,    *)
(* and an instance for TLC.                                                *)
(***************************************************************************)
EXTENDS DAParser, TLC

LOCAL INSTANCE SequencesExt

LOCAL INSTANCE FiniteSetsExt

\* "1", the first number that does not fit into four bits with a sign, and
\* digits that are not a number, as an octal number begins with "0".
Numbers == [x \in {"1", "8", "09"} |->
                CASE x = "1" -> 1 [] x = "8" -> 8 [] x = "09" -> NULL]
Quotes == [x \in {"'q'"} |-> "q"]
\* "qux" is no action.
SomeActions == [x \in {"foo", "bar", "baz"} |-> IF x = "foo" THEN 1 ELSE 0]
Names == Keywords \cup Words \cup Patterns

\* Names that the system knows, with ids that fit into an int of four bits and
\* ids that do not: there 15 is DA_WILDCARD, 14 is DA_INVALID, and 9 is negative.
SomeUsers ==
    [x \in Names |-> CASE x = "foo" -> 3 [] x = "user" -> 15 [] x = "group" -> 14
                       [] x = "allow" -> 9 [] OTHER -> NULL]
SomeGroups ==
    [x \in Names |-> CASE x = "bar" -> 5 [] x = "group" -> 15 [] x = "foo" -> 14
                       [] x = "?a" -> 9 [] OTHER -> NULL]

\* Expressions of two terms, or of three without arguments; up to three rules;
\* everything that may be between parentheses; and everything.
SomeTexts ==
    {[lexemes |-> {"bar", "baz", "(", ")", "!", "|", "&"}, max |-> 11],
     [lexemes |-> {"*", "=", "semicolon", "allow", "deny", "1"}, max |-> 11],
     [lexemes |-> {"user", "group", "foo", "(", ")", ":", "*", "1", "8", "'q'", "?a"},
      max |-> 6],
     [lexemes |-> Lexemes, max |-> 6]}

\* Numbers between parentheses.
NumberTexts == {[lexemes |-> {"user", "group", "(", ")", "1", "8"}, max |-> 4]}

-----------------------------------------------------------------------------
(* Texts as sequences ts of tokens, each with the number of parentheses    *)
(* that are open after it; lo .. hi are positions in ts.                   *)

Operators == {"|", "&"}

Count(ts, sym, k) == Cardinality({m \in 1 .. k : ts[m].sym = sym})

\* The tokens of ts with these numbers, where n are open before (SubSeq has TLC count
\* them once only).
WithOpen(n, ts) ==
    SubSeq([k \in DOMAIN ts |->
                [sym |-> ts[k].sym, val |-> ts[k].val,
                 open |-> n + Count(ts, "(", k) - Count(ts, ")", k)]], 1, Len(ts))

Open(ts, k) == IF k = 0 THEN 0 ELSE ts[k].open

\* Nothing that is opened or closed from j to k is left open.
Balanced(ts, j, k) ==
    /\ Open(ts, k) = Open(ts, j - 1)
    /\ \A m \in j .. k : Open(ts, m) >= Open(ts, j - 1)

\* The operators of lo .. hi that are not in parentheses.
Outer(ts, lo, hi) ==
    {k \in lo .. hi : ts[k].sym \in Operators /\ Balanced(ts, lo, k)}

IsId(t) == t.sym \in {"NUMBER", "WILDCARD", "WORD"}

IsTerm(ts, lo, hi) ==
    /\ hi > lo + 1
    /\ ts[lo + 1].sym = "("
    /\ ts[hi].sym = ")"
    /\ \/ ts[lo].sym \in {"USER", "GROUP"} /\ hi = lo + 3 /\ IsId(ts[lo + 2])
       \/ /\ ts[lo].sym = "USER"
          /\ hi = lo + 5
          /\ IsId(ts[lo + 2]) /\ ts[lo + 3].sym = ":" /\ IsId(ts[lo + 4])
       \/ /\ ts[lo].sym = "ID"
          /\ ts[lo].val \in DOMAIN Actions
          /\ hi = lo + 2 + Actions[ts[lo].val]
          /\ Actions[ts[lo].val] = 1 =>
                ts[lo + 2].sym \in {"WORD", "STRING", "WILDCARD"}

\* Expressions with operators between them, or a single one.
RECURSIVE IsExpr(_, _, _)
IsExpr(ts, lo, hi) ==
    LET outer == Outer(ts, lo, hi)
        k == Min(outer)
    IN  \/ outer # {} /\ IsExpr(ts, lo, k - 1) /\ IsExpr(ts, k + 1, hi)
        \/ /\ outer = {}
           /\ \/ IsTerm(ts, lo, hi)
              \/ lo < hi /\ ts[lo].sym = "!" /\ IsExpr(ts, lo + 1, hi)
              \/ /\ lo < hi /\ ts[lo].sym = "(" /\ ts[hi].sym = ")"
                 /\ IsExpr(ts, lo + 1, hi - 1)

\* An id as the text gives it, where ids looks names up.
Id(t, ids) ==
    CASE t.sym = "WILDCARD" -> DA_WILDCARD
      [] t.sym = "NUMBER"   -> IF t.val < 0 THEN DA_WILDCARD ELSE t.val
      [] t.sym = "WORD"     -> IF ids[t.val] \in 0 .. 2^(IntBits - 1) - 1
                               THEN ids[t.val] ELSE DA_INVALID

Person(uid, gid) == [type |-> "identity", uid |-> uid, gid |-> gid]

Term(ts, lo, hi) ==
    CASE ts[lo].sym = "USER" /\ hi = lo + 5 ->
            Person(Id(ts[lo + 2], Uid), Id(ts[lo + 4], Gid))
      [] ts[lo].sym = "USER"  -> Person(Id(ts[lo + 2], Uid), DA_WILDCARD)
      [] ts[lo].sym = "GROUP" -> Person(DA_WILDCARD, Id(ts[lo + 2], Gid))
      [] ts[lo].sym = "ID"    ->
            [type |-> "custom", action |-> ts[lo].val,
             param |-> IF hi = lo + 2 THEN NULL ELSE ts[lo + 2].val]

\* An expression with the operator that token t is.
Combined(t, x, y) ==
    [type |-> IF t.sym = "|" THEN "or" ELSE "and", expr |-> <<x, y>>]

Negated(x) == [type |-> "not", expr |-> <<x>>]

\* The expression when every operator extends as far to the right as it can.
RECURSIVE Rightmost(_, _, _)
Rightmost(ts, lo, hi) ==
    LET outer == Outer(ts, lo, hi)
        k == Min(outer)
    IN  CASE ts[lo].sym = "!" -> Negated(Rightmost(ts, lo + 1, hi))
          [] ts[lo].sym # "!" /\ outer # {} ->
                Combined(ts[k], Rightmost(ts, lo, k - 1), Rightmost(ts, k + 1, hi))
          [] ts[lo].sym = "(" /\ outer = {} -> Rightmost(ts, lo + 1, hi - 1)
          [] OTHER -> Term(ts, lo, hi)

\* The expression by the usual precedences: "!" before "&" before "|".
RECURSIVE Usual(_, _, _)
Usual(ts, lo, hi) ==
    LET outer == Outer(ts, lo, hi)
        ors == {k \in outer : ts[k].sym = "|"}
        k == Max(IF ors # {} THEN ors ELSE outer)
    IN  CASE outer # {} ->
                Combined(ts[k], Usual(ts, lo, k - 1), Usual(ts, k + 1, hi))
          [] outer = {} /\ ts[lo].sym = "!" -> Negated(Usual(ts, lo + 1, hi))
          [] outer = {} /\ ts[lo].sym = "(" -> Usual(ts, lo + 1, hi - 1)
          [] OTHER -> Term(ts, lo, hi)

\* Within a pair of parentheses there is one kind of operator only, and nothing
\* follows the operand of "!".
Unmixed(ts, lo, hi) ==
    \A j, k \in lo .. hi :
        /\ j < k
        /\ ts[k].sym \in Operators
        /\ ts[j].sym \in Operators \cup {"!"}
        /\ Balanced(ts, j, k)
        => ts[j].sym = ts[k].sym

\* The value of x when exactly the terms of S match.
RECURSIVE Holds(_, _)
Holds(x, S) ==
    CASE x.type = "not" -> ~Holds(x.expr[1], S)
      [] x.type = "or"  -> Holds(x.expr[1], S) \/ Holds(x.expr[2], S)
      [] x.type = "and" -> Holds(x.expr[1], S) /\ Holds(x.expr[2], S)
      [] OTHER          -> x \in S

RECURSIVE Terms(_)
Terms(x) ==
    CASE x.type = "not" -> Terms(x.expr[1])
      [] x.type \in {"or", "and"} -> Terms(x.expr[1]) \cup Terms(x.expr[2])
      [] OTHER -> {x}

Equivalent(x, y) == \A S \in SUBSET Terms(x) : Holds(x, S) = Holds(y, S)

-----------------------------------------------------------------------------
(* A text is a version, or rules, or both.                                 *)

\* The first and the last position of what is between semicolons.
Parts(ts) ==
    LET semicolons == SelectSeq([k \in DOMAIN ts |-> k],
                                LAMBDA k : ts[k].sym = "semicolon")
        ends == <<0>> \o semicolons \o <<Len(ts) + 1>>
    IN  [i \in 1 .. Len(ends) - 1 |-> [lo |-> ends[i] + 1, hi |-> ends[i + 1] - 1]]

Versioned(ts) == ts # <<>> /\ ts[1].sym = "NUMBER"

\* The parts that have to be rules: not the version, nor nothing at the end.
RuleParts(ts) ==
    LET parts == Parts(ts)
        rules == IF Versioned(ts) THEN Tail(parts) ELSE parts
    IN  IF Len(rules) > 1 /\ rules[Len(rules)].lo > Len(ts) THEN Front(rules) ELSE rules

\* Where the expression of rule p ends.
ExprEnd(ts, p) ==
    IF p.hi > p.lo /\ ts[p.hi - 1].sym = "=" THEN p.hi - 2 ELSE p.hi

IsRule(ts, p) ==
    LET end == ExprEnd(ts, p)
    IN  /\ p.lo <= end
        /\ end < p.hi => ts[p.hi].sym \in {"ALLOW", "DENY"}
        /\ \/ IsExpr(ts, p.lo, end)
           \/ end < p.hi /\ end = p.lo /\ ts[p.lo].sym = "*"

IsPolicy(ts) ==
    /\ ts # <<>>
    /\ Versioned(ts) => Parts(ts)[1].hi = 1 /\ ts[1].val = FORMAT_VERSION
    /\ \A i \in DOMAIN RuleParts(ts) : IsRule(ts, RuleParts(ts)[i])

RuleOf(ts, p) ==
    [expr |-> IF ts[p.lo].sym = "*" THEN NULL ELSE Rightmost(ts, p.lo, ExprEnd(ts, p)),
     access |-> IF ts[p.hi].sym = "DENY" THEN "DENY" ELSE "ALLOW"]

PolicyOf(ts) == [i \in DOMAIN RuleParts(ts) |-> RuleOf(ts, RuleParts(ts)[i])]

-----------------------------------------------------------------------------
(* The tokens of a text, without the start conditions of the scanner.      *)

\* Lexeme k is between the parentheses of "user", "group" or an action.
IsArgument(ls, k) ==
    \E j \in 2 .. k - 1 :
        /\ ls[j - 1] \in Words \cup {"user", "group"}
        /\ ls[j] = "("
        /\ \A m \in j .. k - 1 : ls[m] # ")"

\* What lexeme k means.
Meant(ls, k) ==
    LET x == ls[k]
        argument == IsArgument(ls, k)
    IN  CASE x \in Numerals                -> Number(x)
          [] x = "*" /\ argument           -> Token("WILDCARD", x)
          [] x \in Names /\ argument       -> Token("WORD", x)
          [] x \in Strings /\ argument     -> Token("STRING", Quoted[x])
          [] x \in Words /\ ~argument      -> Token("ID", x)
          [] x \in Keywords /\ ~argument   -> Token(KeywordToken[x], NULL)
          [] OTHER                         -> Char(x)

\* The text as far as the scanner has read it.
Text ==
    LET read == SelectSeq(tokens, LAMBDA t : t.lexeme # NULL)
        ls == [k \in DOMAIN read |-> read[k].lexeme]
    IN  WithOpen(0, [k \in DOMAIN ls |-> Meant(ls, k)])

ReadToEnd == tokens # <<>> /\ tokens[Len(tokens)].sym = "$end"

\* A text has been read to its end and compiled.
Compiled == status = "deleted" /\ ReadToEnd

-----------------------------------------------------------------------------
(* What is refused before the end is reached.                              *)

\* How what has been begun may end: with what is missing of a term or of an
\* entry, and of the parentheses around it.
Samples ==
    {<<"USER", "(", "WORD", ":", "WORD", ")">>, <<"(", "WORD", ")">>, <<"(", ")">>,
     <<"=", "ALLOW">>}

Endings == UNION {{SubSeq(s, k, Len(s)) : k \in 1 .. Len(s) + 1} : s \in Samples}

\* ts with such an ending.
Completed(ts, ending) ==
    LET open == Open(ts, Len(ts))
        rest == WithOpen(open, [k \in DOMAIN ending |-> Token(ending[k], NULL)])
        left == IF rest = <<>> THEN open ELSE Open(rest, Len(rest))
    IN  ts \o rest \o WithOpen(left, [k \in 1 .. left |-> Token(")", NULL)])

\* There is a policy that begins with ts.
BeginsPolicy(ts) == \E ending \in Endings : IsPolicy(Completed(ts, ending))

\* No action in ts is unknown, or has an argument too many, or one that is missing.
KnownActions(ts) ==
    \A k \in DOMAIN ts : ts[k].sym = "ID" =>
        /\ ts[k].val \in DOMAIN Actions
        /\ k + 2 \in DOMAIN ts => (Actions[ts[k].val] = 0 <=> ts[k + 2].sym = ")")

\* The texts that compile are those of the grammar, with known actions and the
\* right version: the choices that the generated parser makes where the grammar
\* is ambiguous reject nothing.  A text that is refused before its end is the
\* beginning of no policy; and as long as a text is read on, it is the beginning of
\* one, unless one of its actions is wrong, which is noticed at its ")".
AcceptsPolicies ==
    LET ts == Text
    IN  /\ policy # NULL => ReadToEnd /\ IsPolicy(ts)
        /\ status = "deleted" /\ policy = NULL =>
                IF ReadToEnd THEN ~IsPolicy(ts) ELSE ~BeginsPolicy(ts)
        /\ status = "parsing" /\ look = NULL /\ Complete = {} /\ KnownActions(ts) =>
                BeginsPolicy(ts)

\* A policy has the rules of its text, in the order of the text, and every
\* operator extends as far to the right as it can: "!a & b" is !(a & b), and
\* "a & b | c" is a & (b | c).  A name stands for its id, or for nobody if the
\* system does not know it or its id is no int: never for everybody, and never
\* for somebody else.
CompilesText == Compiled /\ policy # NULL => policy = PolicyOf(Text)

\* Where operators are not mixed without parentheses, this makes no difference:
\* the rule matches what it would match by the usual precedences.
UnmixedIsUsual ==
    Compiled /\ policy # NULL =>
        \A i \in DOMAIN policy :
            LET p == RuleParts(Text)[i]
                end == ExprEnd(Text, p)
            IN  policy[i].expr # NULL /\ Unmixed(Text, p.lo, end) =>
                    Equivalent(policy[i].expr, Usual(Text, p.lo, end))

\* "user(uid)", "group(gid)": a number in a policy means itself.
NumbersExact ==
    policy # NULL =>
        \A k \in DOMAIN tokens : tokens[k].sym = "NUMBER" =>
            tokens[k].val = Numeral[tokens[k].lexeme]

=============================================================================
