--------------------------- MODULE DAParserProofs ---------------------------
(***************************************************************************)
(* Proofs about the parser, for all texts of any length, all actions,      *)
(* users and groups:                                                       *)
(*   - it frees each list cell once;                                       *)
(*   - a policy has all entries of its text, in their order;               *)
(*   - it never has to choose between two rules, and its types are right;  *)
(*   - the values of symbols have the types that the grammar declares, and *)
(*     so the rules of a policy are well formed;                           *)
(*   - a policy is what the grammar makes of the whole of its text, and of *)
(*     the policies it makes the only one in which every operator extends  *)
(*     to the right as far as it can;                                      *)
(*   - a text that the grammar can make a policy of is never refused.      *)
(*                                                                         *)
(* What is known about the stack of the parser, and with it about the      *)
(* texts that the grammar accepts, is in StackOK. Readings in which        *)
(* operators extend to the right (RightReading) are what the stack is      *)
(* shown to hold; that there is one of them is proved of the grammar       *)
(* alone. For the last result the stack and the rest of the text are one   *)
(* sequence, and what the parser has left to do of it (Late) is shown      *)
(* never to be nothing: a token and a rule are shifted and reduced when a  *)
(* reading has them next.                                                  *)
(* Where a recursive definition or a number of steps needs an induction,   *)
(* UpTo stands for it.                                                     *)
(***************************************************************************)
EXTENDS DAParser, FiniteSetTheorems, SequenceTheorems, WellFoundedInduction, TLAPS

\* The number of cells that were allocated.
Allocated == Len(freed)

\* s is a sequence of n elements, whatever they are.
SequenceOf(s, n) == s = [k \in 1 .. n |-> s[k]]

\* The inductive invariant: link_list has every cell once, the last one first,
\* and nothing is freed before the end.
OwnershipInv ==
    /\ freed \in Seq(Nat)
    /\ SequenceOf(cells, Allocated)
    /\ link_list \in Seq(Nat)
    /\ Len(link_list) = Allocated
    /\ \A j \in 1 .. Allocated : link_list[j] = Allocated + 1 - j
    /\ status \in {"parsing", "accepted", "failed", "deleted"}
    /\ \A k \in 1 .. Allocated : freed[k] = (IF status = "deleted" THEN 1 ELSE 0)

\* The invariant does not depend on the other variables, nor on how the cells are
\* linked to each other.
LEMMA OwnershipStutter ==
    ASSUME OwnershipInv,
           UNCHANGED <<link_list, freed>>,
           SequenceOf(cells', Allocated),
           status' = status \/ (status = "parsing" /\ status' \in {"accepted", "failed"})
    PROVE  OwnershipInv'
  BY DEF OwnershipInv, Allocated, SequenceOf

\* A sequence has a length, and may be appended to.
LEMMA SequenceLength ==
    ASSUME NEW s, NEW n \in Nat, SequenceOf(s, n), NEW e
    PROVE  Len(s) = n /\ SequenceOf(Append(s, e), n + 1)
  <1> DEFINE S == {s[k] : k \in 1 .. n} \cup {e}
  <1>1. s \in [1 .. n -> S]
    BY DEF SequenceOf
  <1>2. s \in Seq(S) /\ Len(s) = n
    BY <1>1
  <1>3. Append(s, e) \in Seq(S) /\ Len(Append(s, e)) = n + 1
    BY <1>2
  <1>4. Append(s, e) = [k \in 1 .. n + 1 |-> Append(s, e)[k]]
    <2>1. Append(s, e) \in [1 .. n + 1 -> S]
      BY <1>3, LenProperties
    <2> HIDE DEF S
    <2> QED
      BY <2>1
  <1> QED
    BY <1>2, <1>4 DEF SequenceOf

\* g_slist_concat allocates no cell.
LEMMA ConcatLength ==
    ASSUME NEW s, NEW n \in Nat, SequenceOf(s, n), NEW c, NEW d
    PROVE  SequenceOf(Concat(s, c, d), n)
  <1>1. CASE c = 0
    BY <1>1 DEF Concat
  <1>2. CASE c # 0
    <2> DEFINE l == LastCell(s, c)
    <2>1. Concat(s, c, d) = [s EXCEPT ![l].next = d]
      BY <1>2 DEF Concat
    <2>2. DOMAIN s = 1 .. n
      BY DEF SequenceOf
    <2> HIDE DEF l
    <2> QED
      BY <2>1, <2>2 DEF SequenceOf
  <1> QED
    BY <1>1, <1>2

\* A new cell goes to the front of link_list.
LEMMA OwnershipReduceList ==
    ASSUME OwnershipInv, NEW r, ReduceList(r)
    PROVE  OwnershipInv'
  <1> DEFINE n == Allocated
             e == [data |-> Values(r)[Len(Values(r))], next |-> 0]
             f == IF Grammar[r].action = "longer_list" THEN Values(r)[1] ELSE 0
             new == Len(cells) + 1
  <1>1. /\ n \in Nat
        /\ SequenceOf(cells, n)
        /\ freed \in Seq(Nat) /\ Len(freed) = n
        /\ link_list \in Seq(Nat) /\ Len(link_list) = n
    BY DEF OwnershipInv, Allocated
  <1>2. /\ cells' = Concat(Append(cells, e), f, new)
        /\ link_list' = <<new>> \o link_list
        /\ freed' = Append(freed, 0)
        /\ status' = status
        /\ status = "parsing"
    BY DEF ReduceList, Reducible
  <1> HIDE DEF e, f
  <1>3. new = n + 1 /\ SequenceOf(Append(cells, e), n + 1)
    BY <1>1, SequenceLength
  <1> HIDE DEF n, new
  <1>4. SequenceOf(cells', n + 1)
    BY <1>1, <1>2, <1>3, ConcatLength
  <1>5. /\ freed' \in Seq(Nat)
        /\ Allocated' = n + 1
        /\ \A k \in 1 .. n + 1 : freed'[k] = IF k = n + 1 THEN 0 ELSE freed[k]
    <2>1. freed' \in Seq(Nat) /\ Len(freed') = n + 1
      BY <1>1, <1>2
    <2>2. \A k \in 1 .. n + 1 : freed'[k] = IF k = n + 1 THEN 0 ELSE freed[k]
      BY <1>1, <1>2
    <2> QED
      BY <2>1, <2>2 DEF Allocated
  <1>6. /\ link_list' \in Seq(Nat)
        /\ Len(link_list') = n + 1
        /\ \A j \in 1 .. n + 1 :
             link_list'[j] = IF j = 1 THEN n + 1 ELSE link_list[j - 1]
    BY <1>1, <1>2, <1>3
  <1>7. \A j \in 1 .. n + 1 : link_list'[j] = n + 2 - j
    <2>1. \A j \in 1 .. n : link_list[j] = n + 1 - j
      BY DEF OwnershipInv, n
    <2> QED
      BY <1>1, <1>6, <2>1
  <1>8. \A k \in 1 .. n + 1 : freed'[k] = 0
    BY <1>1, <1>2, <1>5 DEF OwnershipInv, n
  <1>9. \A k \in 1 .. Allocated' :
          /\ link_list'[k] = Allocated' + 1 - k
          /\ freed'[k] = (IF status' = "deleted" THEN 1 ELSE 0)
    <2>1. Allocated' = n + 1 /\ n \in Nat /\ status' # "deleted"
      BY <1>1, <1>2, <1>5
    <2>2. \A k \in 1 .. n + 1 : Allocated' + 1 - k = n + 2 - k
      BY <2>1
    <2> QED
      BY <1>7, <1>8, <2>1, <2>2
  <1> QED
    BY <1>2, <1>4, <1>5, <1>6, <1>9 DEF OwnershipInv

\* Whichever way the parser is deleted, it frees each cell once.
LEMMA OwnershipDelete ==
    ASSUME OwnershipInv,
           FreeLinks,
           status # "deleted",
           status' = "deleted",
           UNCHANGED <<cells, link_list>>
    PROVE  OwnershipInv'
  <1> DEFINE n == Allocated
  <1>1. /\ n \in Nat
        /\ DOMAIN freed = 1 .. n
        /\ DOMAIN link_list = 1 .. n
    BY DEF OwnershipInv, Allocated
  <1>2. ASSUME NEW k \in 1 .. n
        PROVE  Cardinality({j \in DOMAIN link_list : link_list[j] = k}) = 1
    <2>1. {j \in DOMAIN link_list : link_list[j] = k} = {n + 1 - k}
      BY <1>1 DEF OwnershipInv
    <2> QED
      BY <2>1, FS_Singleton
  <1>3. freed' = [k \in 1 .. n |-> 1]
    <2>1. \A k \in 1 .. n : freed[k] = 0
      BY DEF OwnershipInv
    <2> QED
      BY <1>1, <1>2, <2>1 DEF FreeLinks
  <1>4. freed' \in Seq(Nat) /\ Allocated' = n
    BY <1>1, <1>3 DEF Allocated
  <1> QED
    BY <1>1, <1>3, <1>4 DEF OwnershipInv

\* The invariant holds in every behaviour.
THEOREM ParserOwnership == Spec => []OwnershipInv
  <1>1. Init => OwnershipInv
    BY DEF Init, OwnershipInv, Allocated, SequenceOf
  <1>2. OwnershipInv /\ [Next]_vars => OwnershipInv'
    <2> SUFFICES ASSUME OwnershipInv, [Next]_vars
                 PROVE  OwnershipInv'
      OBVIOUS
    <2>1. Allocated \in Nat /\ SequenceOf(cells, Allocated)
      BY DEF OwnershipInv, Allocated
    <2>2. CASE \/ Yylex \/ YylexEnd \/ Shift \/ Accept \/ ParseError
               \/ UNCHANGED vars
      <3>1. /\ UNCHANGED <<link_list, freed, cells>>
            /\ \/ status' = status
               \/ status = "parsing" /\ status' \in {"accepted", "failed"}
        BY <2>2 DEF Yylex, YylexEnd, Scan, Shift, Accept, ParseError, vars
      <3> QED
        BY <2>1, <3>1, OwnershipStutter
    <2>3. ASSUME NEW r \in Complete, Reduce(r)
          PROVE  OwnershipInv'
      <3>1. UNCHANGED <<link_list, freed, cells, status>>
        BY <2>3 DEF Reduce
      <3> QED
        BY <2>1, <3>1, OwnershipStutter
    <2>4. ASSUME NEW r \in Complete, ReduceList(r)
          PROVE  OwnershipInv'
      BY <2>4, OwnershipReduceList
    <2>5. ASSUME NEW r \in Complete, ReduceAdd(r)
          PROVE  OwnershipInv'
      <3>1. /\ UNCHANGED <<link_list, freed, status>>
            /\ \E list : cells' = Concat(cells, entries, list)
        BY <2>5 DEF ReduceAdd
      <3>2. SequenceOf(cells', Allocated)
        BY <2>1, <3>1, ConcatLength
      <3> QED
        BY <3>1, <3>2, OwnershipStutter
    <2>6. CASE DaPolicyNewFull
      BY <2>6, OwnershipDelete DEF DaPolicyNewFull
    <2>7. CASE DaParserCompileFails
      BY <2>7, OwnershipDelete DEF DaParserCompileFails
    <2> QED
      BY <2>2, <2>3, <2>4, <2>5, <2>6, <2>7 DEF Next, Step, Done
  <1> QED
    BY <1>1, <1>2, PTL DEF Spec

\* Each cell is freed once, however long the text and wherever it fails to parse:
\* da_parser_delete goes through link_list, and g_slist_concat, which links cells
\* to each other, never adds one to or takes one from it.
THEOREM ParserLinksFreedOnce == Spec => []LinksFreedOnce
  <1>1. OwnershipInv => LinksFreedOnce
    <2> SUFFICES ASSUME OwnershipInv, status = "deleted"
                 PROVE  \A k \in DOMAIN cells : freed[k] = 1
      BY DEF LinksFreedOnce
    <2>1. DOMAIN cells = 1 .. Allocated
      BY DEF OwnershipInv, SequenceOf
    <2> QED
      BY <2>1 DEF OwnershipInv
  <1> QED
    BY <1>1, ParserOwnership, PTL

-----------------------------------------------------------------------------
(* The grammar, as the provers read it.                                    *)

Rules == 1 .. 33
Lhs(r) == Grammar[r].lhs
Size(r) == Len(Grammar[r].rhs)
Sym(r, k) == Grammar[r].rhs[k]
Act(r) == Grammar[r].action

\* r is one of the 33.
OneByOne(r) ==
    \/ r = 1 \/ r = 2 \/ r = 3 \/ r = 4 \/ r = 5 \/ r = 6 \/ r = 7 \/ r = 8
    \/ r = 9 \/ r = 10 \/ r = 11 \/ r = 12 \/ r = 13 \/ r = 14 \/ r = 15
    \/ r = 16 \/ r = 17 \/ r = 18 \/ r = 19 \/ r = 20 \/ r = 21 \/ r = 22
    \/ r = 23 \/ r = 24 \/ r = 25 \/ r = 26 \/ r = 27 \/ r = 28 \/ r = 29
    \/ r = 30 \/ r = 31 \/ r = 32 \/ r = 33

\* The rules, one by one.
LEMMA GrammarTable ==
    /\ Lhs(1) = "$accept" /\ Size(1) = 2 /\ Sym(1, 1) = "policy"
       /\ Sym(1, 2) = "$end"
    /\ Lhs(2) = "policy" /\ Size(2) = 1 /\ Sym(2, 1) = "version"
    /\ Lhs(3) = "policy" /\ Size(3) = 3 /\ Sym(3, 1) = "version"
       /\ Sym(3, 2) = "semicolon" /\ Sym(3, 3) = "entries"
    /\ Lhs(4) = "policy" /\ Size(4) = 4 /\ Sym(4, 1) = "version"
       /\ Sym(4, 2) = "semicolon" /\ Sym(4, 3) = "entries"
       /\ Sym(4, 4) = "semicolon"
    /\ Lhs(5) = "policy" /\ Size(5) = 1 /\ Sym(5, 1) = "entries"
    /\ Lhs(6) = "policy" /\ Size(6) = 2 /\ Sym(6, 1) = "entries"
       /\ Sym(6, 2) = "semicolon"
    /\ Lhs(7) = "version" /\ Size(7) = 1 /\ Sym(7, 1) = "NUMBER"
    /\ Lhs(8) = "entries" /\ Size(8) = 1 /\ Sym(8, 1) = "entry"
    /\ Lhs(9) = "entries" /\ Size(9) = 3 /\ Sym(9, 1) = "entries"
       /\ Sym(9, 2) = "semicolon" /\ Sym(9, 3) = "entry"
    /\ Lhs(10) = "entry" /\ Size(10) = 3 /\ Sym(10, 1) = "*" /\ Sym(10, 2) = "="
       /\ Sym(10, 3) = "access"
    /\ Lhs(11) = "entry" /\ Size(11) = 3 /\ Sym(11, 1) = "expr"
       /\ Sym(11, 2) = "=" /\ Sym(11, 3) = "access"
    /\ Lhs(12) = "entry" /\ Size(12) = 1 /\ Sym(12, 1) = "expr"
    /\ Lhs(13) = "access" /\ Size(13) = 1 /\ Sym(13, 1) = "ALLOW"
    /\ Lhs(14) = "access" /\ Size(14) = 1 /\ Sym(14, 1) = "DENY"
    /\ Lhs(15) = "user" /\ Size(15) = 1 /\ Sym(15, 1) = "NUMBER"
    /\ Lhs(16) = "user" /\ Size(16) = 1 /\ Sym(16, 1) = "WILDCARD"
    /\ Lhs(17) = "user" /\ Size(17) = 1 /\ Sym(17, 1) = "WORD"
    /\ Lhs(18) = "group" /\ Size(18) = 1 /\ Sym(18, 1) = "NUMBER"
    /\ Lhs(19) = "group" /\ Size(19) = 1 /\ Sym(19, 1) = "WILDCARD"
    /\ Lhs(20) = "group" /\ Size(20) = 1 /\ Sym(20, 1) = "WORD"
    /\ Lhs(21) = "expr" /\ Size(21) = 1 /\ Sym(21, 1) = "term"
    /\ Lhs(22) = "expr" /\ Size(22) = 2 /\ Sym(22, 1) = "!" /\ Sym(22, 2) = "expr"
    /\ Lhs(23) = "expr" /\ Size(23) = 3 /\ Sym(23, 1) = "(" /\ Sym(23, 2) = "expr"
       /\ Sym(23, 3) = ")"
    /\ Lhs(24) = "expr" /\ Size(24) = 3 /\ Sym(24, 1) = "expr" /\ Sym(24, 2) = "|"
       /\ Sym(24, 3) = "expr"
    /\ Lhs(25) = "expr" /\ Size(25) = 3 /\ Sym(25, 1) = "expr" /\ Sym(25, 2) = "&"
       /\ Sym(25, 3) = "expr"
    /\ Lhs(26) = "term" /\ Size(26) = 4 /\ Sym(26, 1) = "USER" /\ Sym(26, 2) = "("
       /\ Sym(26, 3) = "user" /\ Sym(26, 4) = ")"
    /\ Lhs(27) = "term" /\ Size(27) = 6 /\ Sym(27, 1) = "USER" /\ Sym(27, 2) = "("
       /\ Sym(27, 3) = "user" /\ Sym(27, 4) = ":" /\ Sym(27, 5) = "group"
       /\ Sym(27, 6) = ")"
    /\ Lhs(28) = "term" /\ Size(28) = 4 /\ Sym(28, 1) = "GROUP"
       /\ Sym(28, 2) = "(" /\ Sym(28, 3) = "group" /\ Sym(28, 4) = ")"
    /\ Lhs(29) = "term" /\ Size(29) = 3 /\ Sym(29, 1) = "ID" /\ Sym(29, 2) = "("
       /\ Sym(29, 3) = ")"
    /\ Lhs(30) = "term" /\ Size(30) = 4 /\ Sym(30, 1) = "ID" /\ Sym(30, 2) = "("
       /\ Sym(30, 3) = "param" /\ Sym(30, 4) = ")"
    /\ Lhs(31) = "param" /\ Size(31) = 1 /\ Sym(31, 1) = "WORD"
    /\ Lhs(32) = "param" /\ Size(32) = 1 /\ Sym(32, 1) = "STRING"
    /\ Lhs(33) = "param" /\ Size(33) = 1 /\ Sym(33, 1) = "WILDCARD"
  BY ZenonT(60) DEF Grammar, Rule, Lhs, Size, Sym

\* Their actions.
LEMMA ActionTable ==
    /\ Act(1) = "accept"
    /\ Act(2) = "first_value"
    /\ Act(3) = "add_third"
    /\ Act(4) = "add_third"
    /\ Act(5) = "add_first"
    /\ Act(6) = "add_first"
    /\ Act(7) = "version"
    /\ Act(8) = "new_list"
    /\ Act(9) = "longer_list"
    /\ Act(10) = "entry_for_all"
    /\ Act(11) = "entry"
    /\ Act(12) = "entry_that_allows"
    /\ Act(13) = "allow"
    /\ Act(14) = "deny"
    /\ Act(15) = "id"
    /\ Act(16) = "any_id"
    /\ Act(17) = "user_name"
    /\ Act(18) = "id"
    /\ Act(19) = "any_id"
    /\ Act(20) = "group_name"
    /\ Act(21) = "first_value"
    /\ Act(22) = "not"
    /\ Act(23) = "second_value"
    /\ Act(24) = "or"
    /\ Act(25) = "and"
    /\ Act(26) = "user"
    /\ Act(27) = "user_and_group"
    /\ Act(28) = "group"
    /\ Act(29) = "action"
    /\ Act(30) = "action_with_argument"
    /\ Act(31) = "first_value"
    /\ Act(32) = "first_value"
    /\ Act(33) = "first_value"
  BY DEF Grammar, Rule, Act

\* Each rule is one of them, and its right-hand side is not empty.
LEMMA GrammarRules ==
  /\ DOMAIN Grammar = Rules /\ Len(Grammar) = 33
  /\ \A r \in Rules :
        /\ Size(r) \in 1 .. 6
        /\ DOMAIN Grammar[r].rhs = 1 .. Size(r)
  /\ \A r \in Rules : OneByOne(r)
<1>1. DOMAIN Grammar = Rules /\ Len(Grammar) = 33
  BY DEF Grammar, Rules
<1>2. \A r \in Rules : OneByOne(r)
  BY DEF Rules, OneByOne
<1>3. \A r \in Rules : Size(r) \in 1 .. 6
  BY ONLY <1>2, GrammarTable DEF OneByOne
<1> DEFINE S(r) == DOMAIN Grammar[r].rhs = 1 .. Len(Grammar[r].rhs)
<1>4. \A r \in Rules : S(r)
  <2>1. /\ S(1) /\ S(2) /\ S(3) /\ S(4) /\ S(5) /\ S(6) /\ S(7) /\ S(8)
        /\ S(9) /\ S(10) /\ S(11) /\ S(12) /\ S(13) /\ S(14) /\ S(15) /\ S(16)
        /\ S(17) /\ S(18) /\ S(19) /\ S(20) /\ S(21) /\ S(22) /\ S(23) /\ S(24)
        /\ S(25) /\ S(26) /\ S(27) /\ S(28) /\ S(29) /\ S(30) /\ S(31) /\ S(32)
        /\ S(33)
    BY SMTT(60) DEF Grammar, Rule
  <2> HIDE DEF S
  <2> QED BY ONLY <1>2, <2>1 DEF OneByOne
<1> QED BY <1>1, <1>2, <1>3, <1>4 DEF Size
\* The nonterminals that may begin what X stands for.
Derives(X) ==
    CASE X = "$accept" ->
            {"$accept", "policy", "version", "entries", "entry", "expr", "term"}
      [] X = "policy" -> {"policy", "version", "entries", "entry", "expr", "term"}
      [] X = "entries" -> {"entries", "entry", "expr", "term"}
      [] X = "entry" -> {"entry", "expr", "term"}
      [] X = "expr" -> {"expr", "term"}
      [] OTHER -> {X}

\* X may begin X.
LEMMA DerivesItself == \A X : X \in Derives(X)
  BY DEF Derives

\* A nonterminal at the beginning of a right-hand side begins whatever the
\* left-hand side begins.
LEMMA DerivesFirst ==
  \A r, q \in Rules : \A X :
    Lhs(r) \in Derives(X) /\ Sym(r, 1) = Lhs(q) => Lhs(q) \in Derives(X)
<1> DEFINE Heads == {Lhs(q) : q \in Rules}
<1>1. Heads = {"$accept", "policy", "version", "entries", "entry", "access", "user",
               "group", "expr", "term", "param"}
  <2>1. ASSUME NEW q \in Rules
        PROVE  Lhs(q) \in {"$accept", "policy", "version", "entries", "entry", "access",
                            "user", "group", "expr", "term", "param"}
    <3>1. OneByOne(q)
      BY GrammarRules
    <3> QED BY ONLY <3>1, GrammarTable DEF OneByOne
  <2> QED BY <2>1, GrammarTable DEF Rules
<1>2. ASSUME NEW r \in Rules, Sym(r, 1) \in Heads
      PROVE
          \/ Lhs(r) = "$accept" /\ Sym(r, 1) = "policy"
          \/ Lhs(r) = "policy" /\ Sym(r, 1) \in {"version", "entries"}
          \/ Lhs(r) = "entries" /\ Sym(r, 1) \in {"entry", "entries"}
          \/ Lhs(r) = "entry" /\ Sym(r, 1) = "expr"
          \/ Lhs(r) = "expr" /\ Sym(r, 1) \in {"term", "expr"}
  <2> HIDE DEF Heads
  <2>1. OneByOne(r)
    BY GrammarRules
  <2> QED BY ONLY <2>1, GrammarTable, <1>1, <1>2 DEF OneByOne
<1> HIDE DEF Heads
<1>3. \A r \in Rules : \A X : Sym(r, 1) \in Heads /\ Lhs(r) \in Derives(X) =>
          Sym(r, 1) \in Derives(X)
  BY <1>2 DEF Derives
<1>4. \A q \in Rules : Lhs(q) \in Heads
  BY DEF Heads
<1> QED BY <1>3, <1>4

\* What is on the left of a nonterminal inside a right-hand side, and with that
\* on the left of all that it may begin with.
LEMMA DerivesInside ==
  ASSUME NEW r \in Rules, NEW k \in 1 .. Size(r) - 1,
         NEW q \in Rules, Lhs(q) \in Derives(Sym(r, k + 1))
  PROVE  /\ Lhs(q) \notin {"$accept", "policy", "version"}
         /\ Lhs(q) = "entries" => r \in {3, 4} /\ k = 2
         /\ Lhs(q) = "entry" => Sym(r, k) = "semicolon"
         /\ Lhs(q) = "user" => k = 2 /\ Sym(r, 1) = "USER" /\ Sym(r, 2) = "("
         /\ Lhs(q) = "group" => \/ k = 2 /\ Sym(r, 1) = "GROUP" /\ Sym(r, 2) = "("
                                \/ Sym(r, k) = ":"
         /\ Lhs(q) = "param" => k = 2 /\ Sym(r, 1) = "ID" /\ Sym(r, 2) = "("
<1>1. k \in 1 .. 5 /\ k + 1 \in 2 .. Size(r) /\ Size(r) \in 1 .. 6
  BY GrammarRules
<1>2. /\ Sym(r, k + 1) \notin {"$accept", "policy", "version"}
      /\ Sym(r, k + 1) = "entries" => r \in {3, 4} /\ k = 2
      /\ Sym(r, k + 1) \in {"entries", "entry"} => Sym(r, k) = "semicolon"
      /\ Sym(r, k + 1) = "user" => k = 2 /\ Sym(r, 1) = "USER" /\ Sym(r, 2) = "("
      /\ Sym(r, k + 1) = "group" =>
            \/ k = 2 /\ Sym(r, 1) = "GROUP" /\ Sym(r, 2) = "("
            \/ Sym(r, k) = ":"
      /\ Sym(r, k + 1) = "param" => k = 2 /\ Sym(r, 1) = "ID" /\ Sym(r, 2) = "("
  <2>1. k = 1 \/ k = 2 \/ k = 3 \/ k = 4 \/ k = 5
    BY <1>1
  <2>2. OneByOne(r)
    BY GrammarRules
  <2> QED BY ONLY GrammarTable, <1>1, <2>1, <2>2, SMTT(60) DEF OneByOne
<1> QED BY <1>2 DEF Derives

\* Right-hand sides of which one is the end of the other.
LEMMA RightHandSides ==
  ASSUME NEW r \in Rules, NEW q \in Rules, r # q, Size(r) <= Size(q),
         \A k \in 1 .. Size(r) : Sym(r, k) = Sym(q, Size(q) - Size(r) + k)
  PROVE  \/ {r, q} \subseteq {7, 15, 18}
         \/ {r, q} \subseteq {16, 19, 33}
         \/ {r, q} \subseteq {17, 20, 31}
         \/ r = 5 /\ q = 3
         \/ r = 6 /\ q = 4
         \/ r = 8 /\ q = 9
         \/ r = 12 /\ q \in {22, 24, 25}
<1>1. Size(r) \in 1 .. 6 /\ Size(q) \in 1 .. 6
  BY GrammarRules
<1>2. /\ Sym(r, Size(r)) = Sym(q, Size(q))
      /\ Size(r) > 1 => Sym(r, Size(r) - 1) = Sym(q, Size(q) - 1)
      /\ Size(r) > 2 => Sym(r, Size(r) - 2) = Sym(q, Size(q) - 2)
  <2> DEFINE Same(k) == Sym(r, k) = Sym(q, Size(q) - Size(r) + k)
  <2>1. /\ Same(Size(r))
        /\ Size(r) > 1 => Same(Size(r) - 1)
        /\ Size(r) > 2 => Same(Size(r) - 2)
    <3>1. \A k \in 1 .. Size(r) : Same(k)
      OBVIOUS
    <3> HIDE DEF Same
    <3> QED BY <1>1, <3>1
  <2>2. /\ Size(q) - Size(r) + Size(r) = Size(q)
        /\ Size(q) - Size(r) + (Size(r) - 1) = Size(q) - 1
        /\ Size(q) - Size(r) + (Size(r) - 2) = Size(q) - 2
    BY <1>1
  <2> QED BY <2>1, <2>2
<1>3. OneByOne(r) /\ OneByOne(q)
  BY GrammarRules
<1>4. CASE Size(r) = 1
  <2>1. /\ Sym(r, 1) = Sym(q, Size(q))
        /\ r \in {2, 5, 7, 8, 12, 13, 14, 15, 16, 17, 18, 19, 20, 21, 31, 32, 33}
    BY ONLY <1>2, <1>3, <1>4, GrammarTable DEF OneByOne
  <2> QED BY ONLY <1>3, <2>1, r # q, GrammarTable, SMTT(60) DEF OneByOne
<1>5. CASE Size(r) > 1
  <2>1. CASE Size(r) = 2
    <3>1. r \in {1, 4, 6, 22}
      BY ONLY <1>3, <2>1, GrammarTable DEF OneByOne
    <3> QED BY ONLY <1>2, <1>3, <2>1, <3>1, r # q, Size(r) <= Size(q), GrammarTable,
                    SMTT(60) DEF OneByOne
  <2>2. CASE Size(r) > 2
    <3>1. r \in {3, 4, 9, 10, 11, 23, 24, 25, 26, 27, 28, 29, 30}
      BY ONLY <1>1, <1>3, <2>2, GrammarTable DEF OneByOne
    <3>2. q \in {3, 4, 9, 10, 11, 23, 24, 25, 26, 27, 28, 29, 30}
      BY ONLY <1>1, <1>3, <2>2, Size(r) <= Size(q), GrammarTable DEF OneByOne
    <3> QED BY ONLY <1>2, <2>2, <3>1, <3>2, r # q, Size(r) <= Size(q), GrammarTable,
                    SMTT(60)
  <2> QED BY <1>1, <1>5, <2>1, <2>2
<1> QED BY <1>1, <1>4, <1>5

-----------------------------------------------------------------------------
(* Induction and recursion over the positions of a sequence.               *)

\* A set that contains 0 and the successor of each of its elements below n
\* contains all numbers up to n: otherwise there is a least one outside.
LEMMA UpTo ==
  ASSUME NEW n \in Nat, NEW T, 0 \in T,
         \A i \in 0 .. n - 1 : i \in T => i + 1 \in T
  PROVE  0 .. n \subseteq T
<1> DEFINE Outside == {i \in 0 .. n : i \notin T}
<1> SUFFICES ASSUME Outside # {} PROVE FALSE
  OBVIOUS
<1>1. PICK m \in Outside : \A i \in Outside : ~ (<<i, m>> \in OpToRel(<, Nat))
  <2> Outside \subseteq Nat
    OBVIOUS
  <2> HIDE DEF Outside
  <2> QED BY NatLessThanWellFounded, WFMin
<1>2. \A i, j \in Nat : ~ (<<i, j>> \in OpToRel(<, Nat)) => j <= i
  BY DEF OpToRel
<1>3. m \in 0 .. n /\ m \notin T /\ m # 0 /\ m - 1 \in 0 .. n - 1
  OBVIOUS
<1>4. m - 1 \notin Outside
  <2>1. ~ (m <= m - 1) /\ m - 1 \in Nat /\ m \in Nat
    BY <1>3
  <2> HIDE DEF Outside
  <2> QED BY <1>1, <1>2, <2>1
<1>5. m - 1 \in T
  BY <1>3, <1>4
<1> QED BY <1>3, <1>5

\* The functions over 0 .. n that start with a and proceed by the given steps.
Steps(n, S) == [1 .. n -> [S -> S]]
Runs(n, S, a, step) ==
    {f \in [0 .. n -> S] : f[0] = a /\ \A i \in 1 .. n : f[i] = step[i][f[i - 1]]}

\* There is one if the steps stay in a set: what is correct up to i can be
\* continued by the value at i + 1.
LEMMA StepByStep ==
  ASSUME NEW n \in Nat, NEW S, NEW a \in S, NEW step \in Steps(n, S)
  PROVE  \E f : f \in Runs(n, S, a, step)
<1> USE DEF Steps
<1> DEFINE Correct(f, k) ==
             f[0] = a /\ \A i \in 1 .. k : f[i] = step[i][f[i - 1]]
           T == {k \in 0 .. n : \E f \in [0 .. n -> S] : Correct(f, k)}
<1>1. 0 \in T
  <2>1. Correct([i \in 0 .. n |-> a], 0) /\ [i \in 0 .. n |-> a] \in [0 .. n -> S]
    OBVIOUS
  <2>2. \E f \in [0 .. n -> S] : Correct(f, 0)
    BY <2>1
  <2> HIDE DEF Correct
  <2> QED BY <2>2
<1>2. ASSUME NEW k \in 0 .. n - 1, k \in T
      PROVE  k + 1 \in T
  <2>1. PICK f \in [0 .. n -> S] : Correct(f, k)
    BY <1>2
  <2> DEFINE v == step[k + 1][f[k]]
             g == [f EXCEPT ![k + 1] = v]
  <2>2. v \in S
    <3>1. f[k] \in S /\ k + 1 \in 1 .. n
      OBVIOUS
    <3> QED BY <3>1
  <2>3. g \in [0 .. n -> S] /\ g[k + 1] = v /\ \A i \in 0 .. k : g[i] = f[i]
    <3> HIDE DEF v
    <3>1. k + 1 \in 0 .. n /\ \A i \in 0 .. k : i \in 0 .. n /\ i # k + 1
      OBVIOUS
    <3> QED BY <2>2, <3>1
  <2>4. Correct(g, k + 1)
    <3> HIDE DEF g
    <3>1. g[0] = a
      <4>1. 0 \in 0 .. k
        OBVIOUS
      <4> QED BY <2>1, <2>3, <4>1
    <3>2. ASSUME NEW i \in 1 .. k
          PROVE  g[i] = step[i][g[i - 1]]
      <4>1. i \in 0 .. k /\ i - 1 \in 0 .. k
        OBVIOUS
      <4>2. f[i] = step[i][f[i - 1]]
        BY <2>1
      <4> QED BY <2>3, <4>1, <4>2
    <3>3. g[k + 1] = step[k + 1][g[k + 1 - 1]]
      <4>1. k + 1 - 1 = k /\ k \in 0 .. k
        OBVIOUS
      <4> QED BY <2>3, <4>1
    <3>4. ASSUME NEW i \in 1 .. k + 1
          PROVE  g[i] = step[i][g[i - 1]]
      <4>1. CASE i = k + 1
        BY <3>3, <4>1
      <4>2. CASE i \in 1 .. k
        BY <3>2, <4>2
      <4> QED BY <4>1, <4>2
    <3> QED BY <3>1, <3>4
  <2>5. k + 1 \in 0 .. n
    OBVIOUS
  <2>6. \E h \in [0 .. n -> S] : Correct(h, k + 1)
    <3> HIDE DEF g, Correct
    <3> QED BY <2>3, <2>4
  <2> HIDE DEF Correct
  <2> QED BY <2>5, <2>6
<1>3. 0 .. n \subseteq T
  <2> HIDE DEF T
  <2> QED BY <1>1, <1>2, UpTo
<1>4. \E f \in [0 .. n -> S] : Correct(f, n)
  <2> HIDE DEF Correct
  <2> QED BY <1>3
<1> QED BY <1>4 DEF Runs

-----------------------------------------------------------------------------
(* The states of the parser.                                               *)

\* A rule with which X may begin is of something that may begin X.
LEMMA PredictedRules ==
  ASSUME NEW X \in Symbols, NEW r \in Predicted[X]
  PROVE  r \in Rules /\ Lhs(r) \in Derives(X)
<1> DEFINE Own(Y) == {q \in DOMAIN Grammar : Grammar[q].lhs = Y}
           first == [Y \in Symbols |-> Own(Y)]
           Longer(before) == [Y \in Symbols |->
                before[Y] \cup UNION {Own(Grammar[q].rhs[1]) : q \in before[Y]}]
           S == [Symbols -> SUBSET Rules]
           P(f) == f = [n \in 0 .. 33 |-> IF n = 0 THEN first ELSE Longer(f[n - 1])]
           step == [n \in 1 .. 33 |-> [before \in S |-> Longer(before)]]
<1>1. first \in S
  BY GrammarRules
<1>2. \A before \in S : Longer(before) \in S
  <2>1. \A Y : Own(Y) \subseteq Rules
    BY GrammarRules
  <2> HIDE DEF Own
  <2>2. ASSUME NEW before \in S, NEW Y \in Symbols
        PROVE  Longer(before)[Y] \in SUBSET Rules
    <3>1. before[Y] \subseteq Rules
      OBVIOUS
    <3> QED BY <2>1, <3>1
  <2> QED BY <2>2
<1>3. step \in Steps(33, S)
  <2> HIDE DEF Longer, S
  <2> QED BY <1>2 DEF Steps
<1>4. PICK f : f \in Runs(33, S, first, step)
  <2> HIDE DEF first, step, S
  <2> QED BY <1>1, <1>3, StepByStep
<1>5. P(f)
  <2> HIDE DEF first, Longer, S
  <2>1. /\ f \in [0 .. 33 -> S] /\ f[0] = first
        /\ \A n \in 1 .. 33 : f[n] = step[n][f[n - 1]]
    BY <1>4 DEF Runs
  <2>2. \A n \in 1 .. 33 : n - 1 \in 0 .. 33 /\ n # 0
    OBVIOUS
  <2>3. \A n \in 1 .. 33 : f[n] = Longer(f[n - 1])
    BY <2>1, <2>2
  <2>4. \A n \in 0 .. 33 : n = 0 \/ n \in 1 .. 33
    OBVIOUS
  <2> HIDE DEF step
  <2> QED BY <2>1, <2>2, <2>3, <2>4
<1>6. Begins = CHOOSE g : P(g)
  BY GrammarRules DEF Begins
<1>7. P(Begins)
  <2> HIDE DEF P
  <2> QED BY <1>5, <1>6
<1> DEFINE Right(before) ==
             \A Y \in Symbols : \A q \in before[Y] : q \in Rules /\ Lhs(q) \in Derives(Y)
           T == {n \in 0 .. 33 : Right(Begins[n])}
<1>8. Right(first)
  BY GrammarRules, DerivesItself DEF Lhs
<1>9. ASSUME NEW before, Right(before) PROVE Right(Longer(before))
  <2> SUFFICES ASSUME NEW Y \in Symbols, NEW q \in Longer(before)[Y]
               PROVE  q \in Rules /\ Lhs(q) \in Derives(Y)
    OBVIOUS
  <2>1. CASE q \in before[Y]
    BY <1>9, <2>1
  <2>2. CASE \E p \in before[Y] : q \in Own(Grammar[p].rhs[1])
    <3>1. PICK p \in before[Y] : q \in Own(Grammar[p].rhs[1])
      BY <2>2
    <3>2. p \in Rules /\ Lhs(p) \in Derives(Y)
      BY <1>9
    <3>3. q \in Rules /\ Sym(p, 1) = Lhs(q)
      BY <3>1, GrammarRules DEF Sym, Lhs
    <3> QED BY <3>2, <3>3, DerivesFirst
  <2> QED BY <2>1, <2>2
<1>10. 0 \in T /\ \A n \in 0 .. 33 - 1 : n \in T => n + 1 \in T
  <2> HIDE DEF Right, first, Longer
  <2>1. Begins[0] = first /\ \A n \in 0 .. 32 : Begins[n + 1] = Longer(Begins[n])
    <3>1. \A n \in 0 .. 32 : n + 1 \in 0 .. 33 /\ n + 1 # 0 /\ n + 1 - 1 = n
      OBVIOUS
    <3> QED BY <1>7, <3>1
  <2>2. \A n \in 0 .. 33 - 1 : n \in 0 .. 32 /\ n + 1 \in 0 .. 33
    OBVIOUS
  <2> QED BY <1>8, <1>9, <2>1, <2>2
<1>11. 0 .. 33 \subseteq T
  <2> HIDE DEF T
  <2> QED BY <1>10, UpTo
<1>12. Cardinality(Nonterminals) \in 0 .. 33
  <2> DEFINE g == [q \in 1 .. 33 |-> Grammar[q].lhs]
  <2>1. ExistsSurjection(1 .. 33, Nonterminals)
    <3>1. g \in Surjection(1 .. 33, Nonterminals)
      BY GrammarRules DEF Surjection, Nonterminals, Rules
    <3> QED BY <3>1 DEF ExistsSurjection
  <2>2. Cardinality(Nonterminals) <= 33 /\ IsFiniteSet(Nonterminals)
    BY <2>1, FS_SurjCardinalityBound, FS_NatSurjection
  <2>3. Cardinality(Nonterminals) \in Nat
    BY <2>2, FS_CardinalityType
  <2> QED BY <2>2, <2>3
<1>13. Right(Predicted)
  <2> HIDE DEF Right
  <2> QED BY <1>11, <1>12 DEF Predicted
<1> QED BY <1>13

\* Items of the grammar.
IsItem(r, k) == r \in Rules /\ k \in 0 .. Size(r)
Items == UNION {{<<r, k>> : k \in 0 .. Size(r)} : r \in Rules}

\* There is a symbol after the dot unless it is at the end.
LEMMA ItemAfterDot ==
  ASSUME NEW r \in Rules, NEW k \in 0 .. Size(r)
  PROVE  /\ k < Size(r) =>
               AfterDot(<<r, k>>) = Sym(r, k + 1) /\ Sym(r, k + 1) \in Symbols
         /\ k = Size(r) => AfterDot(<<r, k>>) = NULL
         /\ k < Size(r) <=> AfterDot(<<r, k>>) # NULL
<1>1. /\ Size(r) \in 1 .. 6 /\ r \in DOMAIN Grammar
      /\ DOMAIN Grammar[r].rhs = 1 .. Size(r)
  BY GrammarRules
<1>2. AfterDot(<<r, k>>) = IF k < Size(r) THEN Sym(r, k + 1) ELSE NULL
  BY DEF AfterDot, Size, Sym
<1>3. k < Size(r) => Sym(r, k + 1) \in Symbols
  <2>1. \A i \in DOMAIN Grammar[r].rhs : Grammar[r].rhs[i] \in Symbols
    BY <1>1 DEF Symbols
  <2>2. k < Size(r) => k + 1 \in 1 .. Size(r)
    BY <1>1
  <2> QED BY <1>1, <2>1, <2>2 DEF Sym
<1> QED BY <1>1, <1>2, <1>3, NullAssumption

\* An item of the closure of K is one of K, or begins a rule of what may come next.
LEMMA ClosureItems ==
  ASSUME NEW K \in SUBSET Items, NEW i \in Closure(K)
  PROVE  \/ i \in K
         \/ \E r, q \in Rules : \E k \in 0 .. Size(r) - 1 :
                /\ <<r, k>> \in K
                /\ Lhs(q) \in Derives(Sym(r, k + 1))
                /\ i = <<q, 0>>
<1> SUFFICES ASSUME i \notin K
             PROVE  \E r, q \in Rules : \E k \in 0 .. Size(r) - 1 :
                        /\ <<r, k>> \in K
                        /\ Lhs(q) \in Derives(Sym(r, k + 1))
                        /\ i = <<q, 0>>
  OBVIOUS
<1>1. PICK j \in K : /\ AfterDot(j) # NULL
                    /\ \E q \in Predicted[AfterDot(j)] : i = <<q, 0>>
  BY DEF Closure
<1>2. PICK q \in Predicted[AfterDot(j)] : i = <<q, 0>>
  BY <1>1
<1>3. PICK r \in Rules : \E k \in 0 .. Size(r) : j = <<r, k>>
  BY DEF Items
<1>4. PICK k \in 0 .. Size(r) : j = <<r, k>>
  BY <1>3
<1>5. k < Size(r) /\ AfterDot(j) = Sym(r, k + 1) /\ Sym(r, k + 1) \in Symbols
  BY <1>1, <1>4, ItemAfterDot
<1>6. q \in Rules /\ Lhs(q) \in Derives(Sym(r, k + 1))
  BY <1>2, <1>5, PredictedRules
<1>7. k \in 0 .. Size(r) - 1
  BY <1>5, GrammarRules
<1> QED BY <1>2, <1>4, <1>6, <1>7

\* An item of the state after X follows from one of the state before it.
LEMMA GotoItems ==
  ASSUME NEW I \in SUBSET Items, NEW X \in Symbols, NEW i \in Goto(I, X)
  PROVE  \E r \in Rules : \E k \in 1 .. Size(r) :
            /\ <<r, k - 1>> \in I
            /\ Sym(r, k) = X
            /\ \/ i = <<r, k>>
               \/ /\ k < Size(r)
                  /\ \E q \in Rules : Lhs(q) \in Derives(Sym(r, k + 1)) /\ i = <<q, 0>>
<1> DEFINE K == {<<j[1], j[2] + 1>> : j \in {j \in I : AfterDot(j) = X}}
<1>1. i \in Closure(K)
  BY DEF Goto
<1>2. ASSUME NEW c \in K
      PROVE  \E r \in Rules : \E k \in 1 .. Size(r) :
                <<r, k - 1>> \in I /\ Sym(r, k) = X /\ c = <<r, k>>
  <2>1. PICK j \in I : AfterDot(j) = X /\ c = <<j[1], j[2] + 1>>
    OBVIOUS
  <2>2. PICK r \in Rules : \E m \in 0 .. Size(r) : j = <<r, m>>
    BY DEF Items
  <2>3. PICK m \in 0 .. Size(r) : j = <<r, m>>
    BY <2>2
  <2>4. m < Size(r) /\ X = Sym(r, m + 1)
    BY <2>1, <2>3, ItemAfterDot, NullAssumption
  <2>5. m + 1 \in 1 .. Size(r) /\ m + 1 - 1 = m
    <3>1. Size(r) \in 1 .. 6
      BY GrammarRules
    <3> QED BY <2>4, <3>1
  <2>6. c = <<r, m + 1>> /\ <<r, m>> \in I
    BY <2>1, <2>3
  <2> QED BY <2>4, <2>5, <2>6
<1>3. K \in SUBSET Items
  <2> HIDE DEF K
  <2>1. \A r \in Rules : \A k \in 1 .. Size(r) : <<r, k>> \in Items
    BY GrammarRules DEF Items
  <2> QED BY <1>2, <2>1
<1> HIDE DEF K
<1>4. CASE i \in K
  BY <1>2, <1>4
<1>5. CASE i \notin K
  <2>1. PICK p \in Rules, q \in Rules : \E m \in 0 .. Size(p) - 1 :
            /\ <<p, m>> \in K
            /\ Lhs(q) \in Derives(Sym(p, m + 1))
            /\ i = <<q, 0>>
    BY <1>1, <1>3, <1>5, ClosureItems
  <2>2. PICK m \in 0 .. Size(p) - 1 :
            /\ <<p, m>> \in K
            /\ Lhs(q) \in Derives(Sym(p, m + 1))
            /\ i = <<q, 0>>
    BY <2>1
  <2>3. PICK r \in Rules : \E k \in 1 .. Size(r) :
            <<r, k - 1>> \in I /\ Sym(r, k) = X /\ <<p, m>> = <<r, k>>
    BY <1>2, <2>2
  <2>4. r = p /\ m \in 1 .. Size(p) /\ <<p, m - 1>> \in I /\ Sym(p, m) = X
    BY <2>3
  <2>5. m < Size(p)
    BY GrammarRules
  <2> QED BY <2>2, <2>4, <2>5
<1> QED BY <1>4, <1>5

-----------------------------------------------------------------------------
(* The stack of the parser.                                                *)

\* What may be on the stack s below position j + 1, where an X begins.
Before(s, j, X) ==
    /\ X \in {"$accept", "policy", "version"} => j = 1
    /\ X = "entries" =>
          \/ j = 1
          \/ j = 3 /\ s[2].sym = "version" /\ s[3].sym = "semicolon"
    /\ X = "entry" => j = 1 \/ (j > 1 /\ s[j].sym = "semicolon")
    /\ X = "user" => j > 2 /\ s[j - 1].sym = "USER" /\ s[j].sym = "("
    /\ X = "group" => \/ j > 2 /\ s[j - 1].sym = "GROUP" /\ s[j].sym = "("
                      \/ j > 2 /\ s[j].sym = ":"
    /\ X = "param" => j > 2 /\ s[j - 1].sym = "ID" /\ s[j].sym = "("

\* What an item of a state stands for: what is to the left of the dot is on top of
\* the stack, and the item with the dot at the left is in the state below that.
Explained(s, j, r, k) ==
    /\ k < j
    /\ \A m \in 1 .. k : s[j - k + m].sym = Sym(r, m)
    /\ <<r, 0>> \in s[j - k].state
    /\ Before(s, j - k, Lhs(r))

StackOK(s) ==
    /\ Len(s) \in Nat \ {0}
    /\ SequenceOf(s, Len(s))
    /\ \A j \in 1 .. Len(s) :
        /\ s[j].state \in SUBSET Items
        /\ \A r \in Rules : \A k \in 0 .. Size(r) :
              <<r, k>> \in s[j].state => Explained(s, j, r, k)

\* Whether an item is explained depends on nothing above it.
LEMMA ExplainedBelow ==
  ASSUME NEW s, NEW t, NEW j \in Nat \ {0},
         \A i \in 1 .. j : t[i] = s[i],
         NEW r \in Rules, NEW k \in Nat, Explained(s, j, r, k)
  PROVE  Explained(t, j, r, k)
<1>1. k < j /\ j - k \in 1 .. j /\ (j - k > 1 => j - k - 1 \in 1 .. j)
      /\ (j - k = 3 => 2 \in 1 .. j /\ 3 \in 1 .. j)
  BY DEF Explained
<1>2. \A m \in 1 .. k : j - k + m \in 1 .. j
  BY <1>1
<1>3. Before(t, j - k, Lhs(r))
  <2>1. Before(s, j - k, Lhs(r))
    BY DEF Explained
  <2>2. \/ j - k = 1
        \/ j - k > 1 /\ t[j - k] = s[j - k] /\ t[j - k - 1] = s[j - k - 1]
    BY <1>1
  <2>3. j - k = 3 => t[2] = s[2] /\ t[3] = s[3]
    BY <1>1
  <2>4. t[j - k] = s[j - k] /\ j - k \in Nat
    BY <1>1
  <2> DEFINE b == j - k
  <2> HIDE DEF b
  <2>5. /\ Before(s, b, Lhs(r))
        /\ b = 1 \/ (b > 1 /\ t[b] = s[b] /\ t[b - 1] = s[b - 1])
        /\ b = 3 => t[2] = s[2] /\ t[3] = s[3]
        /\ t[b] = s[b] /\ b \in Nat
    BY <2>1, <2>2, <2>3, <2>4 DEF b
  <2>6. Before(t, b, Lhs(r))
    BY ONLY <2>5 DEF Before
  <2> QED BY <2>6 DEF b
<1> QED BY <1>1, <1>2, <1>3 DEF Explained

\* The lower part of a stack is a stack.
LEMMA StackBelow ==
  ASSUME NEW s, StackOK(s), NEW n \in 1 .. Len(s)
  PROVE  /\ StackOK(SubSeq(s, 1, n))
         /\ Len(SubSeq(s, 1, n)) = n
         /\ \A i \in 1 .. n : SubSeq(s, 1, n)[i] = s[i]
<1> DEFINE t == SubSeq(s, 1, n)
           S == {s[k] : k \in 1 .. Len(s)}
<1>1. s \in Seq(S) /\ Len(s) \in Nat
  <2>1. s \in [1 .. Len(s) -> S] /\ Len(s) \in Nat
    BY DEF StackOK, SequenceOf
  <2> HIDE DEF S
  <2> QED BY <2>1
<1>2. Len(t) = n /\ SequenceOf(t, n) /\ \A i \in 1 .. n : t[i] = s[i]
  <2> HIDE DEF S
  <2>1. t \in Seq(S) /\ Len(t) = n /\ \A i \in 1 .. n : t[i] = s[i]
    BY <1>1, SubSeqProperties
  <2> HIDE DEF t
  <2> QED BY <2>1 DEF SequenceOf
<1> HIDE DEF t
<1>3. ASSUME NEW j \in 1 .. n
      PROVE  /\ t[j].state \in SUBSET Items
             /\ \A r \in Rules : \A k \in 0 .. Size(r) :
                  <<r, k>> \in t[j].state => Explained(t, j, r, k)
  <2>1. j \in 1 .. Len(s) /\ j \in Nat \ {0} /\ \A i \in 1 .. j : t[i] = s[i]
    BY <1>1, <1>2
  <2>2. t[j] = s[j]
    BY <1>2
  <2>3. \A r \in Rules : \A k \in 0 .. Size(r) :
            <<r, k>> \in s[j].state => Explained(s, j, r, k)
    BY <2>1 DEF StackOK
  <2>4. ASSUME NEW r \in Rules, NEW k \in 0 .. Size(r), <<r, k>> \in t[j].state
        PROVE  Explained(t, j, r, k)
    BY <2>1, <2>2, <2>3, <2>4, ExplainedBelow
  <2>5. s[j].state \in SUBSET Items
    BY <2>1 DEF StackOK
  <2> QED BY <2>2, <2>4, <2>5
<1>4. n \in Nat \ {0}
  BY <1>1
<1>5. StackOK(t)
  BY <1>2, <1>3, <1>4 DEF StackOK
<1> QED BY <1>2, <1>5 DEF t

\* X goes on top of the stack.  What begins after it is to the right of it in some
\* rule, or in none.
LEMMA StackPush ==
  ASSUME NEW s, StackOK(s), NEW X \in Symbols, NEW v
  PROVE  /\ StackOK(Push(s, X, v))
         /\ Len(Push(s, X, v)) = Len(s) + 1
         /\ \A i \in 1 .. Len(s) : Push(s, X, v)[i] = s[i]
         /\ Push(s, X, v)[Len(s) + 1].sym = X
         /\ Push(s, X, v)[Len(s) + 1].val = v
<1> DEFINE n == Len(s)
           I == Goto(s[n].state, X)
           e == [sym |-> X, val |-> v, state |-> I]
           t == Append(s, e)
<1>1. Push(s, X, v) = t
  BY DEF Push
<1>2. n \in Nat \ {0} /\ n \in 1 .. n /\ SequenceOf(s, n)
  BY DEF StackOK
<1>3. /\ SequenceOf(t, n + 1) /\ Len(t) = n + 1
      /\ \A i \in 1 .. n : t[i] = s[i]
      /\ t[n + 1] = e
  <2> HIDE DEF n, e
  <2>1. SequenceOf(t, n + 1)
    BY <1>2, SequenceLength
  <2>2. SequenceOf(t, n + 1) => Len(t) = n + 1
    BY <1>2, SequenceLength
  <2>3. Len(s) = n /\ DOMAIN s = 1 .. n
    BY <1>2 DEF n, SequenceOf
  <2> QED BY <1>2, <2>1, <2>2, <2>3, AppendProperties
<1>4. e.sym = X /\ e.val = v /\ e.state = I
  OBVIOUS
<1>5. s[n].state \in SUBSET Items
  BY <1>2 DEF StackOK
<1> HIDE DEF n, e, I, t
<1>6. ASSUME NEW i \in I
      PROVE  \E r \in Rules : \E k \in 1 .. Size(r) :
                /\ <<r, k - 1>> \in s[n].state
                /\ Sym(r, k) = X
                /\ \/ i = <<r, k>>
                   \/ /\ k < Size(r)
                      /\ \E q \in Rules : Lhs(q) \in Derives(Sym(r, k + 1)) /\ i = <<q, 0>>
  BY <1>5, GotoItems DEF I
<1>7. ASSUME NEW r \in Rules, NEW k \in 1 .. Size(r), <<r, k - 1>> \in s[n].state,
             Sym(r, k) = X
      PROVE  Explained(t, n + 1, r, k)
  <2>1. Explained(s, n, r, k - 1) /\ k - 1 \in 0 .. Size(r) /\ Size(r) \in 1 .. 6
    <3>1. k - 1 \in 0 .. Size(r) /\ Size(r) \in 1 .. 6
      BY GrammarRules
    <3> QED BY <1>2, <1>7, <3>1 DEF StackOK, n
  <2>2. Explained(t, n, r, k - 1)
    BY <1>2, <1>3, <2>1, ExplainedBelow
  <2>3. k - 1 < n /\ n - (k - 1) = (n + 1) - k
    BY <1>2, <2>1, <2>2 DEF Explained
  <2>4. /\ \A m \in 1 .. k - 1 : t[(n + 1) - k + m].sym = Sym(r, m)
        /\ <<r, 0>> \in t[(n + 1) - k].state
        /\ Before(t, (n + 1) - k, Lhs(r))
    BY <2>2, <2>3 DEF Explained
  <2>5. t[(n + 1) - k + k].sym = Sym(r, k)
    BY <1>2, <1>3, <1>4, <1>7
  <2>6. \A m \in 1 .. k : m \in 1 .. k - 1 \/ m = k
    OBVIOUS
  <2>7. k < n + 1
    BY <1>2, <2>1, <2>3
  <2> QED BY <2>4, <2>5, <2>6, <2>7 DEF Explained
<1>8. ASSUME NEW r \in Rules, NEW k \in 1 .. Size(r) - 1, Explained(t, n + 1, r, k),
             NEW q \in Rules, Lhs(q) \in Derives(Sym(r, k + 1))
      PROVE  Before(t, n + 1, Lhs(q))
  <2>1. k < n + 1 /\ Size(r) \in 1 .. 6 /\ k \in 1 .. 5
    BY <1>8, GrammarRules DEF Explained
  <2>2. /\ t[n + 1].sym = Sym(r, k)
        /\ k = 2 => t[n].sym = Sym(r, 1) /\ n + 1 > 2
        /\ n + 1 > 1
    <3>1. \A m \in 1 .. k : t[(n + 1) - k + m].sym = Sym(r, m)
      BY <1>8 DEF Explained
    <3>2. (n + 1) - k + k = n + 1 /\ (k = 2 => (n + 1) - k + 1 = n)
      BY <1>2, <2>1
    <3> QED BY <1>2, <2>1, <3>1, <3>2
  <2>3. Sym(r, k) = ":" => n + 1 > 2
    <3>1. OneByOne(r)
      BY GrammarRules
    <3>2. Sym(r, k) = ":" => k > 1
      <4>1. Sym(r, 1) # ":"
        BY ONLY <3>1, GrammarTable DEF OneByOne
      <4> QED BY <2>1, <4>1
    <3> QED BY <1>2, <2>1, <3>2
  <2>4. Lhs(q) = "entries" =>
            n + 1 = 3 /\ t[2].sym = "version" /\ t[3].sym = "semicolon"
    <3> SUFFICES ASSUME Lhs(q) = "entries"
                 PROVE  n + 1 = 3 /\ t[2].sym = "version" /\ t[3].sym = "semicolon"
      OBVIOUS
    <3>1. r \in {3, 4} /\ k = 2
      BY <1>8, DerivesInside
    <3>2. Lhs(r) = "policy" /\ Sym(r, 1) = "version" /\ Sym(r, 2) = "semicolon"
      BY <3>1, GrammarTable
    <3>3. Before(t, (n + 1) - 2, "policy")
      BY <1>8, <3>1, <3>2 DEF Explained
    <3>4. (n + 1) - 2 = 1
      BY <3>3 DEF Before
    <3>5. n = 2
      BY <1>2, <3>4
    <3> QED BY <2>2, <3>1, <3>2, <3>5
  <2>5. (n + 1) - 1 = n
    BY <1>2
  <2> DEFINE j == n + 1
  <2>6. j - 1 = n /\ j > 1
    BY <2>2, <2>5
  <2> HIDE DEF j
  <2>7. /\ Lhs(q) \notin {"$accept", "policy", "version"}
        /\ Lhs(q) = "entry" => t[j].sym = "semicolon"
        /\ Lhs(q) = "user" => j > 2 /\ t[j - 1].sym = "USER" /\ t[j].sym = "("
        /\ Lhs(q) = "group" => \/ j > 2 /\ t[j - 1].sym = "GROUP" /\ t[j].sym = "("
                               \/ j > 2 /\ t[j].sym = ":"
        /\ Lhs(q) = "param" => j > 2 /\ t[j - 1].sym = "ID" /\ t[j].sym = "("
    BY <1>8, <2>2, <2>3, <2>6, DerivesInside DEF j
  <2> QED BY <2>4, <2>6, <2>7 DEF Before, j
<1>9. ASSUME NEW i \in I
      PROVE  /\ i \in Items
             /\ \A q \in Rules : \A h \in 0 .. Size(q) :
                  i = <<q, h>> => Explained(t, n + 1, q, h)
  <2>1. PICK r \in Rules : \E k \in 1 .. Size(r) :
                /\ <<r, k - 1>> \in s[n].state
                /\ Sym(r, k) = X
                /\ \/ i = <<r, k>>
                   \/ /\ k < Size(r)
                      /\ \E q \in Rules : Lhs(q) \in Derives(Sym(r, k + 1)) /\ i = <<q, 0>>
    BY <1>6
  <2>2. PICK k \in 1 .. Size(r) :
                /\ <<r, k - 1>> \in s[n].state
                /\ Sym(r, k) = X
                /\ \/ i = <<r, k>>
                   \/ /\ k < Size(r)
                      /\ \E q \in Rules : Lhs(q) \in Derives(Sym(r, k + 1)) /\ i = <<q, 0>>
    BY <2>1
  <2>3. Explained(t, n + 1, r, k)
    BY <1>7, <2>2
  <2>4. CASE i = <<r, k>>
    <3>1. k \in 0 .. Size(r)
      OBVIOUS
    <3> QED BY <2>3, <2>4, <3>1 DEF Items
  <2>5. ASSUME k < Size(r), NEW q \in Rules, Lhs(q) \in Derives(Sym(r, k + 1)),
               i = <<q, 0>>
        PROVE  Explained(t, n + 1, q, 0) /\ 0 \in 0 .. Size(q)
    <3>1. k \in 1 .. Size(r) - 1 /\ 0 \in 0 .. Size(q)
      <4>1. Size(r) \in 1 .. 6 /\ Size(q) \in 1 .. 6
        BY GrammarRules
      <4> QED BY <2>5, <4>1
    <3>2. Before(t, n + 1, Lhs(q))
      BY <1>8, <2>3, <2>5, <3>1
    <3>3. <<q, 0>> \in t[n + 1].state
      BY <1>3, <1>4, <2>5
    <3>4. (n + 1) - 0 = n + 1 /\ 0 < n + 1
      BY <1>2
    <3> QED BY <3>1, <3>2, <3>3, <3>4 DEF Explained
  <2>6. CASE /\ k < Size(r)
             /\ \E q \in Rules : Lhs(q) \in Derives(Sym(r, k + 1)) /\ i = <<q, 0>>
    BY <2>5, <2>6 DEF Items
  <2> QED BY <2>2, <2>4, <2>6
<1>10. ASSUME NEW j \in 1 .. n + 1
       PROVE  /\ t[j].state \in SUBSET Items
              /\ \A r \in Rules : \A k \in 0 .. Size(r) :
                   <<r, k>> \in t[j].state => Explained(t, j, r, k)
  <2>1. CASE j = n + 1
    BY <1>3, <1>4, <1>9, <2>1
  <2>2. CASE j # n + 1
    <3>1. j \in 1 .. Len(s) /\ j \in Nat \ {0} /\ \A i \in 1 .. j : t[i] = s[i]
      BY <1>2, <1>3, <2>2 DEF n
    <3>2. t[j] = s[j]
      BY <3>1
    <3>3. s[j].state \in SUBSET Items
      BY <3>1 DEF StackOK
    <3>4. \A r \in Rules : \A k \in 0 .. Size(r) :
              <<r, k>> \in s[j].state => Explained(s, j, r, k)
      BY <3>1 DEF StackOK
    <3>5. ASSUME NEW r \in Rules, NEW k \in 0 .. Size(r), <<r, k>> \in t[j].state
          PROVE  Explained(t, j, r, k)
      BY <3>1, <3>2, <3>4, <3>5, ExplainedBelow
    <3> QED BY <3>2, <3>3, <3>5
  <2> QED BY <2>1, <2>2
<1>11. StackOK(t)
  BY <1>2, <1>3, <1>10 DEF StackOK
<1> QED BY <1>1, <1>3, <1>4, <1>11 DEF n

\* The left-hand sides are symbols, but for that of the first rule.
LEMMA LeftHandSides ==
  ASSUME NEW r \in Rules, r # 1
  PROVE  Lhs(r) \in Symbols
<1>1. OneByOne(r)
  BY GrammarRules
<1>2. Lhs(r) \in {"policy", "version", "entries", "entry", "access", "user", "group",
                  "expr", "term", "param"}
  BY ONLY <1>1, r # 1, GrammarTable DEF OneByOne
<1>3. ASSUME NEW q \in Rules, NEW k \in 1 .. Size(q)
      PROVE  Sym(q, k) \in Symbols
  <2>1. q \in DOMAIN Grammar /\ k \in DOMAIN Grammar[q].rhs
    BY GrammarRules
  <2> QED BY <2>1 DEF Symbols, Sym
<1> DEFINE Is(q, k, X) == q \in Rules /\ k \in 1 .. Size(q) /\ Sym(q, k) = X
<1>4. /\ Is(1, 1, "policy") /\ Is(2, 1, "version") /\ Is(5, 1, "entries")
      /\ Is(8, 1, "entry") /\ Is(10, 3, "access") /\ Is(26, 3, "user")
      /\ Is(28, 3, "group") /\ Is(12, 1, "expr") /\ Is(21, 1, "term")
      /\ Is(30, 3, "param")
  BY GrammarTable DEF Rules
<1>5. \A q, k, X : Is(q, k, X) => X \in Symbols
  BY <1>3
<1> HIDE DEF Is
<1> QED BY <1>2, <1>4, <1>5

\* The stack is right before any symbol.
LEMMA StackInit == Init => StackOK(stack)
<1> SUFFICES ASSUME Init PROVE StackOK(stack)
  OBVIOUS
<1> DEFINE e == [sym |-> NULL, val |-> NULL, state |-> StartState]
<1>1. stack = <<e>> /\ e.state = StartState
  BY DEF Init
<1> HIDE DEF e
<1>2. Len(stack) = 1 /\ SequenceOf(stack, 1) /\ stack[1] = e
  BY <1>1 DEF SequenceOf
<1>3. {<<1, 0>>} \in SUBSET Items
  BY GrammarTable DEF Items, Rules
<1>4. ASSUME NEW i \in StartState
      PROVE  \E q \in Rules :
                i = <<q, 0>> /\ Before(stack, 1, Lhs(q)) /\ 0 \in 0 .. Size(q)
  <2>1. i = <<1, 0>> \/ \E q \in Rules : Lhs(q) \in Derives("policy") /\ i = <<q, 0>>
    <3>1. i \in Closure({<<1, 0>>})
      BY DEF StartState
    <3>2. \/ i \in {<<1, 0>>}
          \/ \E r, q \in Rules : \E k \in 0 .. Size(r) - 1 :
                /\ <<r, k>> \in {<<1, 0>>}
                /\ Lhs(q) \in Derives(Sym(r, k + 1))
                /\ i = <<q, 0>>
      BY <1>3, <3>1, ClosureItems
    <3>3. ASSUME NEW r \in Rules, NEW q \in Rules, NEW k \in 0 .. Size(r) - 1,
                 <<r, k>> \in {<<1, 0>>}, Lhs(q) \in Derives(Sym(r, k + 1))
          PROVE  Lhs(q) \in Derives("policy")
      <4>1. r = 1 /\ k = 0
        BY <3>3
      <4>2. k + 1 = 1 /\ Sym(1, 1) = "policy"
        BY <4>1, GrammarTable
      <4> QED BY <3>3, <4>1, <4>2
    <3> QED BY <3>2, <3>3
  <2>2. ASSUME NEW q \in Rules
        PROVE  0 \in 0 .. Size(q)
    <3>1. Size(q) \in 1 .. 6
      BY GrammarRules
    <3> QED BY <3>1
  <2>3. CASE i = <<1, 0>>
    <3>1. 1 \in Rules /\ Before(stack, 1, Lhs(1))
      BY GrammarTable DEF Before, Rules
    <3> QED BY <2>2, <2>3, <3>1
  <2>4. ASSUME NEW q \in Rules, Lhs(q) \in Derives("policy"), i = <<q, 0>>
        PROVE  Before(stack, 1, Lhs(q))
    BY <2>4 DEF Derives, Before
  <2> QED BY <2>1, <2>2, <2>3, <2>4
<1>5. ASSUME NEW r \in Rules, NEW k \in 0 .. Size(r), <<r, k>> \in StartState
      PROVE  Explained(stack, 1, r, k)
  <2>1. PICK q \in Rules : <<r, k>> = <<q, 0>> /\ Before(stack, 1, Lhs(q))
    BY <1>4, <1>5
  <2>2. k = 0 /\ Before(stack, 1, Lhs(r))
    BY <2>1
  <2> QED BY <1>1, <1>2, <1>5, <2>2 DEF Explained
<1>6. StartState \in SUBSET Items
  BY <1>4 DEF Items
<1>7. \A j \in 1 .. Len(stack) : j = 1 /\ stack[j] = e
  BY <1>2
<1> QED BY <1>1, <1>2, <1>5, <1>6, <1>7 DEF StackOK

\* A complete rule: its right-hand side is on top of the stack, and the state below
\* that expects its left-hand side.
LEMMA CompleteRule ==
  ASSUME StackOK(stack), NEW r \in Complete
  PROVE  /\ r \in Rules /\ Size(r) \in 1 .. 6
         /\ Explained(stack, Len(stack), r, Size(r))
         /\ Len(stack) - Size(r) \in 1 .. Len(stack) - 1
         /\ Len(Grammar[r].rhs) = Size(r)
<1>1. r \in Rules /\ Size(r) \in 1 .. 6 /\ Size(r) \in 0 .. Size(r)
  BY GrammarRules DEF Complete
<1>2. <<r, Size(r)>> \in stack[Len(stack)].state /\ Len(stack) \in 1 .. Len(stack)
  BY DEF Complete, State, Size, StackOK
<1>3. Explained(stack, Len(stack), r, Size(r))
  BY <1>1, <1>2 DEF StackOK
<1>4. Size(r) < Len(stack) /\ Len(stack) \in Nat
  BY <1>3 DEF Explained, StackOK
<1>5. Len(stack) - Size(r) \in 1 .. Len(stack) - 1
  BY <1>1, <1>4
<1>6. Len(Grammar[r].rhs) = Size(r)
  BY DEF Size
<1> QED BY <1>1, <1>3, <1>5, <1>6

\* What a reduction by rule r leaves on the stack.
LEMMA StackReduce ==
  ASSUME StackOK(stack), NEW r \in Complete, r # 1, NEW v,
         stack' = Push(Below(r), Lhs(r), v)
  PROVE  LET n == Len(stack) - Size(r) IN
         /\ StackOK(stack)'
         /\ n \in 1 .. Len(stack) - 1
         /\ Len(stack') = n + 1
         /\ \A i \in 1 .. n : stack'[i] = stack[i]
         /\ stack'[n + 1].sym = Lhs(r)
         /\ stack'[n + 1].val = v
<1> DEFINE n == Len(stack) - Size(r)
<1>1. /\ n \in 1 .. Len(stack) /\ n \in 1 .. Len(stack) - 1
      /\ Below(r) = SubSeq(stack, 1, n)
  <2>1. n \in 1 .. Len(stack) - 1 /\ Len(stack) \in Nat
    BY CompleteRule DEF StackOK
  <2>2. Below(r) = SubSeq(stack, 1, n)
    BY CompleteRule DEF Below
  <2> QED BY <2>1, <2>2
<1> HIDE DEF n
<1> DEFINE t == SubSeq(stack, 1, n)
<1>2. StackOK(t) /\ Len(t) = n /\ \A i \in 1 .. n : t[i] = stack[i]
  BY <1>1, StackBelow
<1> HIDE DEF t
<1>3. Lhs(r) \in Symbols
  BY CompleteRule, LeftHandSides
<1>4. stack' = Push(t, Lhs(r), v)
  BY <1>1 DEF t
<1>5. /\ StackOK(stack')
      /\ Len(stack') = n + 1
      /\ \A i \in 1 .. n : stack'[i] = t[i]
      /\ stack'[n + 1].sym = Lhs(r)
      /\ stack'[n + 1].val = v
  BY <1>2, <1>3, <1>4, StackPush
<1>6. StackOK(stack)'
  BY <1>5
<1> QED BY <1>1, <1>2, <1>5, <1>6 DEF n

\* Reductions have in common how they change the stack.
LEMMA SameReduction ==
  ASSUME StackOK(stack), NEW r \in Complete, Reduce(r) \/ ReduceList(r) \/ ReduceAdd(r)
  PROVE  r # 1 /\ \E v : stack' = Push(Below(r), Lhs(r), v)
<1>1. r \in Rules /\ OneByOne(r)
  BY CompleteRule, GrammarRules
<1>2. CASE Reduce(r)
  <2>1. Act(r) # "accept" /\ \E v : stack' = Push(Below(r), Lhs(r), v)
    BY <1>2 DEF Reduce, Act, Lhs
  <2> QED BY <2>1, ActionTable
<1>3. CASE ReduceList(r)
  <2>1. /\ Act(r) \in {"new_list", "longer_list"}
        /\ \E v : stack' = Push(Below(r), "entries", v)
    BY <1>3 DEF ReduceList, Act
  <2>2. r \in {8, 9}
    BY ONLY <1>1, <2>1, ActionTable DEF OneByOne
  <2> QED BY <2>1, <2>2, GrammarTable
<1>4. CASE ReduceAdd(r)
  <2>1. /\ Act(r) \in {"add_first", "add_third"}
        /\ \E v : stack' = Push(Below(r), "policy", v)
    BY <1>4 DEF ReduceAdd, Act
  <2>2. r \in {3, 4, 5, 6}
    BY ONLY <1>1, <2>1, ActionTable DEF OneByOne
  <2> QED BY <2>1, <2>2, GrammarTable
<1> QED BY <1>2, <1>3, <1>4

\* No step makes it wrong.
LEMMA StackNext == StackOK(stack) /\ [Next]_vars => StackOK(stack)'
<1> SUFFICES ASSUME StackOK(stack), [Next]_vars
             PROVE  StackOK(stack)'
  OBVIOUS
<1>1. CASE UNCHANGED stack
  BY <1>1
<1>2. CASE Shift
  <2>1. look.sym \in Symbols /\ stack' = Push(stack, look.sym, look.val)
    BY <1>2 DEF Shift, Shiftable, Terminals
  <2> QED BY <2>1, StackPush
<1>3. ASSUME NEW r \in Complete, Reduce(r) \/ ReduceList(r) \/ ReduceAdd(r)
      PROVE  StackOK(stack)'
  BY <1>3, SameReduction, StackReduce
<1>4. CASE Yylex \/ YylexEnd \/ Accept \/ ParseError \/ DaPolicyNewFull
           \/ DaParserCompileFails \/ Done \/ UNCHANGED vars
  <2>1. UNCHANGED stack
    BY <1>4 DEF Yylex, YylexEnd, Scan, Accept, ParseError, DaPolicyNewFull,
                DaParserCompileFails, Done, vars
  <2> QED BY <2>1, <1>1
<1> QED BY <1>2, <1>3, <1>4 DEF Next, Step

\* The parse is explained by the stack, after any text.
THEOREM ParserStack == Spec => []StackOK(stack)
<1> QED BY StackInit, StackNext, PTL DEF Spec

\* No two rules are ever complete: of two that end in the same symbols, the symbols
\* below are never those that the other one needs.
LEMMA OneComplete ==
  ASSUME StackOK(stack), NEW r \in Complete, NEW q \in Complete, r # q,
         Size(r) <= Size(q)
  PROVE  FALSE
<1> DEFINE n == Len(stack)
<1>1. /\ n \in Nat /\ r \in Rules /\ q \in Rules
      /\ Size(r) \in 1 .. 6 /\ Size(q) \in 1 .. 6
      /\ n - Size(r) \in 1 .. n - 1 /\ n - Size(q) \in 1 .. n - 1
      /\ Explained(stack, n, r, Size(r)) /\ Explained(stack, n, q, Size(q))
  BY CompleteRule DEF StackOK
<1>2. /\ \A m \in 1 .. Size(r) : stack[n - Size(r) + m].sym = Sym(r, m)
      /\ \A m \in 1 .. Size(q) : stack[n - Size(q) + m].sym = Sym(q, m)
      /\ Before(stack, n - Size(r), Lhs(r)) /\ Before(stack, n - Size(q), Lhs(q))
  BY <1>1 DEF Explained
<1> HIDE DEF n
<1>3. \A k \in 1 .. Size(r) : Sym(r, k) = Sym(q, Size(q) - Size(r) + k)
  <2>1. ASSUME NEW k \in 1 .. Size(r)
        PROVE  /\ Size(q) - Size(r) + k \in 1 .. Size(q)
               /\ n - Size(q) + (Size(q) - Size(r) + k) = n - Size(r) + k
    BY <1>1
  <2> QED BY <1>2, <2>1
<1>4. \/ {r, q} \subseteq {7, 15, 18}
      \/ {r, q} \subseteq {16, 19, 33}
      \/ {r, q} \subseteq {17, 20, 31}
      \/ r = 5 /\ q = 3
      \/ r = 6 /\ q = 4
      \/ r = 8 /\ q = 9
      \/ r = 12 /\ q \in {22, 24, 25}
  BY <1>1, <1>3, RightHandSides
<1>5. ASSUME NEW c \in {{7, 15, 18}, {16, 19, 33}, {17, 20, 31}}, {r, q} \subseteq c
      PROVE  FALSE
  <2>1. /\ Size(r) = 1 /\ Size(q) = 1
        /\ Lhs(r) \in {"version", "user", "group", "param"}
        /\ Lhs(q) \in {"version", "user", "group", "param"}
        /\ Lhs(r) # Lhs(q)
    <3>1. \A i \in {7, 15, 18, 16, 19, 33, 17, 20, 31} :
              Size(i) = 1 /\ Lhs(i) \in {"version", "user", "group", "param"}
      BY GrammarTable
    <3>2. /\ r \in {7, 15, 18, 16, 19, 33, 17, 20, 31}
          /\ q \in {7, 15, 18, 16, 19, 33, 17, 20, 31}
      BY <1>5
    <3>3. Lhs(r) # Lhs(q)
      BY ONLY <1>5, r # q, GrammarTable
    <3> QED BY <3>1, <3>2, <3>3
  <2> DEFINE j == n - 1
  <2>2. Before(stack, j, Lhs(r)) /\ Before(stack, j, Lhs(q))
    BY <1>2, <2>1
  <2> HIDE DEF j
  <2> QED BY ONLY <2>1, <2>2 DEF Before
<1>6. CASE (r = 5 /\ q = 3) \/ (r = 6 /\ q = 4)
  <2>1. Lhs(r) = "policy" /\ Lhs(q) = "policy" /\ Size(r) + 2 = Size(q)
    BY <1>6, GrammarTable
  <2>2. n - Size(r) = 1 /\ n - Size(q) = 1
    BY <1>2, <2>1 DEF Before
  <2> QED BY <1>1, <2>1, <2>2
<1>7. CASE r = 8 /\ q = 9
  <2>1. /\ Lhs(r) = "entries" /\ Size(r) = 1
        /\ Size(q) = 3 /\ Sym(q, 1) = "entries"
    BY <1>7, GrammarTable
  <2>2. Before(stack, n - 1, "entries") /\ stack[n - 3 + 1].sym = "entries"
    BY <1>1, <1>2, <2>1
  <2>3. n - 1 \in {1, 3} /\ (n - 1 = 3 => stack[2].sym = "version")
    BY <2>2 DEF Before
  <2>4. n = 4 /\ n - 3 + 1 = 2
    BY <1>1, <2>1, <2>3
  <2> QED BY <2>2, <2>3, <2>4
<1>8. CASE r = 12 /\ q \in {22, 24, 25}
  <2>1. /\ Lhs(r) = "entry" /\ Size(r) = 1 /\ Size(q) > 1
        /\ Sym(q, Size(q) - 1) \in {"!", "|", "&"}
    BY <1>8, GrammarTable
  <2>2. /\ Before(stack, n - 1, "entry")
        /\ stack[n - 1].sym \in {"!", "|", "&"} /\ n - 1 # 1
    <3>1. Size(q) - 1 \in 1 .. Size(q) /\ n - Size(q) + (Size(q) - 1) = n - 1
      BY <1>1, <2>1
    <3> QED BY <1>1, <1>2, <2>1, <3>1
  <2> QED BY <2>2 DEF Before
<1> QED BY <1>4, <1>5, <1>6, <1>7, <1>8

-----------------------------------------------------------------------------
(* Types.                                                                  *)

\* A set with one more element has twice as many subsets.
LEMMA PowerOfTwo ==
  ASSUME NEW n \in Nat
  PROVE  2^n \in Nat \ {0} /\ 2^(n + 1) = 2^n + 2^n
<1> DEFINE A == SUBSET (1 .. n)
           add == [T \in A |-> T \cup {n + 1}]
           B == {T \cup {n + 1} : T \in A}
<1>1. ASSUME NEW m \in Nat
      PROVE  IsFiniteSet(SUBSET (1 .. m)) /\ Cardinality(SUBSET (1 .. m)) = 2^m
  <2>1. IsFiniteSet(1 .. m) /\ Cardinality(1 .. m) = m
    BY FS_Interval
  <2> QED BY <2>1, FS_SUBSET
<1>2. IsFiniteSet(A) /\ Cardinality(A) = 2^n
  BY <1>1
<1>3. 2^n \in Nat \ {0}
  <2>1. A # {}
    OBVIOUS
  <2> HIDE DEF A
  <2>2. Cardinality(A) \in Nat /\ Cardinality(A) # 0
    BY <1>2, <2>1, FS_CardinalityType, FS_EmptySet
  <2> QED BY <1>2, <2>2
<1>4. SUBSET (1 .. n + 1) = A \cup B
  <2>1. ASSUME NEW T \in SUBSET (1 .. n + 1), n + 1 \in T
        PROVE  T \in B
    <3>1. T \ {n + 1} \in A /\ T = (T \ {n + 1}) \cup {n + 1}
      BY <2>1
    <3> QED BY <3>1
  <2>2. ASSUME NEW T \in SUBSET (1 .. n + 1), n + 1 \notin T
        PROVE  T \in A
    BY <2>2
  <2>3. A \cup B \subseteq SUBSET (1 .. n + 1)
    <3>1. 1 .. n \subseteq 1 .. n + 1 /\ n + 1 \in 1 .. n + 1
      OBVIOUS
    <3> QED BY <3>1
  <2> HIDE DEF A, B
  <2> QED BY <2>1, <2>2, <2>3
<1>5. A \cap B = {}
  <2>1. \A T \in A : n + 1 \notin T
    OBVIOUS
  <2>2. \A T \in B : n + 1 \in T
    OBVIOUS
  <2> HIDE DEF A, B
  <2> QED BY <2>1, <2>2
<1>6. add \in Surjection(A, B) /\ add \in Injection(A, B)
  <2>1. \A T, U \in A : T \cup {n + 1} = U \cup {n + 1} => T = U
    <3>1. \A T \in A : T = (T \cup {n + 1}) \ {n + 1}
      OBVIOUS
    <3> HIDE DEF A
    <3> QED BY <3>1
  <2> HIDE DEF A
  <2> QED BY <2>1 DEF Surjection, Injection, IsInjective
<1>7. IsFiniteSet(B) /\ Cardinality(B) = 2^n
  <2> HIDE DEF A, B, add
  <2> QED BY <1>2, <1>6, FS_Surjection
<1>8. Cardinality(A \cup B) = 2^n + 2^n
  <2> HIDE DEF A, B
  <2>1. Cardinality(A \cup B) = Cardinality(A) + Cardinality(B) - Cardinality(A \cap B)
    BY <1>2, <1>7, FS_Union
  <2>2. Cardinality(A \cap B) = 0
    BY <1>5, FS_EmptySet
  <2> QED BY <1>2, <1>3, <1>7, <2>1, <2>2
<1>9. Cardinality(SUBSET (1 .. n + 1)) = 2^(n + 1)
  <2>1. n + 1 \in Nat
    OBVIOUS
  <2> QED BY <1>1, <2>1
<1> QED BY <1>3, <1>4, <1>8, <1>9

Ints == -2^(IntBits - 1) .. 2^(IntBits - 1) - 1

\* What is stored in an int is of type int.
LEMMA ToIntType ==
  ASSUME NEW x \in Int
  PROVE  ToInt(x) \in Ints
<1> DEFINE h == 2^(IntBits - 1)
           w == 2^IntBits
<1>1. h \in Nat \ {0} /\ w = h + h
  <2> DEFINE n == IntBits - 1
  <2>1. n \in Nat /\ n + 1 = IntBits
    BY ParserAssumption
  <2> HIDE DEF n
  <2>2. 2^n \in Nat \ {0} /\ 2^(n + 1) = 2^n + 2^n
    BY <2>1, PowerOfTwo
  <2> QED BY <2>1, <2>2 DEF n
<1> HIDE DEF h, w
<1>2. x % w \in 0 .. w - 1
  BY <1>1
<1>3. ToInt(x) = IF x % w < h THEN x % w ELSE (x % w) - w
  BY DEF ToInt, h, w
<1>4. ToInt(x) \in -h .. h - 1
  BY <1>1, <1>2, <1>3
<1> QED BY <1>4 DEF h, Ints

-----------------------------------------------------------------------------
(* The list of entries.                                                    *)

\* The first n cells are linked in the order in which they were allocated.
Chain(cs, n) ==
    \A k \in 1 .. n :
        cs[k] = [data |-> cs[k].data, next |-> IF k = n THEN 0 ELSE k + 1]

NoEntries == \A j \in 2 .. Len(stack) : stack[j].sym # "entries"

\* All cells are in one list.  It is the value of the only "entries" on the stack
\* until the parser takes it for its result; there is none as long as there are no
\* cells.
ListInv ==
    /\ Chain(cells, Allocated)
    /\ \A j \in 2 .. Len(stack) :
          stack[j].sym = "entries" =>
              stack[j].val = 1 /\ entries = 0 /\ Allocated # 0
    /\ \/ entries = 0
       \/ /\ entries = 1 /\ Allocated # 0
          /\ Len(stack) > 1 /\ stack[2].sym = "policy"
    /\ entries = 0 /\ NoEntries => Allocated = 0
    /\ status = "accepted" => NoEntries
    /\ status # "deleted" => policy = NULL
    /\ policy # NULL => policy = [k \in 1 .. Allocated |-> cells[k].data]

\* The last cell of a list of n cells, with one more cell behind it.
LEMMA LastOfChain ==
  ASSUME NEW n \in Nat \ {0}, NEW cs, DOMAIN cs = 1 .. n + 1,
         \A k \in 1 .. n : cs[k].next = IF k = n THEN 0 ELSE k + 1,
         cs[n + 1].next = 0
  PROVE  LastCell(cs, 1) = n
<1> DEFINE P(f) == f = [k \in DOMAIN cs |->
                IF cs[k].next = 0 THEN k ELSE f[cs[k].next]]
           last == CHOOSE f : P(f)
           w == [k \in DOMAIN cs |-> IF k = n + 1 THEN n + 1 ELSE n]
<1>1. LastCell(cs, 1) = last[1]
  BY DEF LastCell
<1>2. P(w)
  <2>1. ASSUME NEW k \in 1 .. n + 1
        PROVE  w[k] = IF cs[k].next = 0 THEN k ELSE w[cs[k].next]
    <3>1. CASE k = n + 1
      BY <3>1
    <3>2. CASE k = n
      BY <3>2
    <3>3. CASE k < n
      BY <3>3
    <3> QED BY <3>1, <3>2, <3>3
  <2> QED BY <2>1
<1>3. P(last)
  <2> HIDE DEF P, w
  <2> QED BY <1>2
<1> HIDE DEF last
<1> DEFINE T == {i \in 0 .. n - 1 : last[n - i] = n}
<1>4. \A k \in 1 .. n + 1 : last[k] = IF cs[k].next = 0 THEN k ELSE last[cs[k].next]
  <2> HIDE DEF w
  <2> QED BY <1>3
<1>5. 0 \in T
  BY <1>4
<1>6. ASSUME NEW i \in 0 .. (n - 1) - 1, i \in T
      PROVE  i + 1 \in T
  <2>1. /\ n - (i + 1) \in 1 .. n - 1 /\ (n - (i + 1)) + 1 = n - i
        /\ i + 1 \in 0 .. n - 1
    OBVIOUS
  <2>2. cs[n - (i + 1)].next = n - i
    BY <2>1
  <2>3. last[n - i] = n
    BY <1>6
  <2>4. last[n - (i + 1)] = last[n - i]
    BY <1>4, <2>1, <2>2
  <2> QED BY <2>1, <2>3, <2>4
<1>7. 0 .. n - 1 \subseteq T
  <2>1. n - 1 \in Nat
    OBVIOUS
  <2> HIDE DEF T
  <2> QED BY ONLY <1>5, <1>6, <2>1, UpTo
<1>8. n - (n - 1) = 1 /\ n - 1 \in 0 .. n - 1
  OBVIOUS
<1> QED BY <1>1, <1>7, <1>8

\* A list of n cells holds what they hold.
LEMMA ListOfChain ==
  ASSUME NEW n \in Nat, NEW cs, SequenceOf(cs, n), Chain(cs, n)
  PROVE  /\ ListOf(cs, 0) = <<>>
         /\ n # 0 => ListOf(cs, 1) = [k \in 1 .. n |-> cs[k].data]
<1> DEFINE P(f) == f = [k \in 0 .. Len(cs) |->
                IF k = 0 THEN <<>> ELSE <<cs[k].data>> \o f[cs[k].next]]
           rest == CHOOSE f : P(f)
           From(k) == [i \in 1 .. (n - k) + 1 |-> cs[(k + i) - 1].data]
           w == [k \in 0 .. n |-> IF k = 0 THEN <<>> ELSE From(k)]
<1>1. \A c : ListOf(cs, c) = rest[c]
  BY DEF ListOf
<1>2. Len(cs) = n
  BY SequenceLength
<1>3. /\ n # 0 => cs[n].next = 0 /\ From(n) = <<cs[n].data>> \o <<>>
      /\ \A k \in 1 .. n - 1 :
            cs[k].next = k + 1 /\ From(k) = <<cs[k].data>> \o From(k + 1)
  <2>1. ASSUME NEW k \in 1 .. n
        PROVE  cs[k].next = IF k = n THEN 0 ELSE k + 1
    <3> DEFINE next == IF k = n THEN 0 ELSE k + 1
    <3>1. cs[k] = [data |-> cs[k].data, next |-> next]
      BY DEF Chain
    <3> HIDE DEF next
    <3>2. cs[k].next = next
      BY <3>1
    <3> QED BY <3>2 DEF next
  <2> DEFINE S == {cs[k].data : k \in 1 .. n}
  <2>2. ASSUME NEW k \in 1 .. n
        PROVE  From(k) \in Seq(S) /\ Len(From(k)) = (n - k) + 1 /\ cs[k].data \in S
    <3>1. \A i \in 1 .. (n - k) + 1 : (k + i) - 1 \in 1 .. n
      OBVIOUS
    <3>2. (n - k) + 1 \in Nat
      OBVIOUS
    <3> DEFINE m == (n - k) + 1
    <3>3. \A i \in 1 .. m : cs[(k + i) - 1].data \in S
      BY <3>1
    <3> HIDE DEF S, m
    <3>4. From(k) \in [1 .. m -> S]
      BY <3>3 DEF m
    <3>5. cs[k].data \in S
      BY DEF S
    <3> HIDE DEF From
    <3> QED BY <3>2, <3>4, <3>5 DEF m
  <2>3. ASSUME n # 0
        PROVE  From(n) = <<cs[n].data>> \o <<>>
    <3>1. (n - n) + 1 = 1 /\ (n + 1) - 1 = n
      OBVIOUS
    <3> QED BY <3>1
  <2>4. ASSUME NEW k \in 1 .. n - 1
        PROVE  From(k) = <<cs[k].data>> \o From(k + 1)
    <3> DEFINE g == From(k + 1)
               h == <<cs[k].data>>
    <3>1. /\ k + 1 \in 1 .. n /\ (n - (k + 1)) + 1 = n - k /\ k \in 1 .. n
          /\ n - k \in Nat
      OBVIOUS
    <3>2. /\ g \in Seq(S) /\ Len(g) = n - k /\ h \in Seq(S) /\ Len(h) = 1
          /\ h[1] = cs[k].data
      <4> HIDE DEF From, S
      <4>1. g \in Seq(S) /\ Len(g) = n - k /\ cs[k].data \in S
        BY <2>2, <3>1
      <4> QED BY <4>1
    <3>3. \A i \in 1 .. n - k : g[i] = cs[((k + 1) + i) - 1].data
      BY <3>1
    <3> HIDE DEF From, S, g, h
    <3>4. /\ h \o g \in Seq(S) /\ Len(h \o g) = (n - k) + 1
          /\ \A i \in 1 .. (n - k) + 1 :
                (h \o g)[i] = IF i <= 1 THEN h[i] ELSE g[i - 1]
      <4>1. /\ h \o g \in Seq(S) /\ Len(h \o g) = Len(h) + Len(g)
            /\ \A i \in 1 .. Len(h) + Len(g) :
                  (h \o g)[i] = IF i <= Len(h) THEN h[i] ELSE g[i - Len(h)]
        BY <3>2, ConcatProperties
      <4>2. Len(h) + Len(g) = (n - k) + 1 /\ Len(h) = 1
        BY <3>1, <3>2
      <4> QED BY <4>1, <4>2
    <3>5. ASSUME NEW i \in 1 .. (n - k) + 1
          PROVE  (h \o g)[i] = cs[(k + i) - 1].data
      <4>1. CASE i = 1
        <5>1. (k + 1) - 1 = k
          OBVIOUS
        <5> QED BY <3>2, <3>4, <4>1, <5>1
      <4>2. CASE i # 1
        <5>1. /\ i - 1 \in 1 .. n - k
              /\ ((k + 1) + (i - 1)) - 1 = (k + i) - 1 /\ ~(i <= 1)
          BY <4>2
        <5> QED BY <3>3, <3>4, <5>1
      <4> QED BY <4>1, <4>2
    <3>6. h \o g = [i \in 1 .. (n - k) + 1 |-> cs[(k + i) - 1].data]
      <4> DEFINE m == (n - k) + 1
      <4>1. h \o g = [i \in 1 .. m |-> (h \o g)[i]]
        <5>1. h \o g \in Seq(S) /\ Len(h \o g) = m
          BY <3>4
        <5> HIDE DEF m
        <5>2. h \o g \in [1 .. m -> S]
          BY <5>1, LenProperties
        <5> QED BY <5>2
      <4> QED BY <3>5, <4>1
    <3> QED BY <3>6 DEF From, g, h
  <2>5. \A k \in 1 .. n - 1 : k \in 1 .. n /\ k # n
    OBVIOUS
  <2>6. n # 0 => n \in 1 .. n
    OBVIOUS
  <2> HIDE DEF From
  <2> QED BY <2>1, <2>3, <2>4, <2>5, <2>6
<1> HIDE DEF From
<1>4. P(w)
  <2>1. ASSUME NEW k \in 1 .. n
        PROVE  w[k] = <<cs[k].data>> \o w[cs[k].next]
    <3>1. CASE k = n
      <4>1. n # 0 /\ n \in 0 .. n /\ 0 \in 0 .. n
        OBVIOUS
      <4>2. w[n] = From(n) /\ w[0] = <<>>
        BY <4>1
      <4>3. cs[n].next = 0 /\ From(n) = <<cs[n].data>> \o <<>>
        BY <1>3, <4>1
      <4> HIDE DEF w
      <4> QED BY <3>1, <4>2, <4>3
    <3>2. CASE k # n
      <4>1. /\ k \in 1 .. n - 1 /\ k + 1 \in 0 .. n /\ k + 1 # 0
            /\ k \in 0 .. n /\ k # 0
        BY <3>2
      <4>2. w[k] = From(k) /\ w[k + 1] = From(k + 1)
        BY <4>1
      <4> QED BY <1>3, <4>1, <4>2
    <3> QED BY <3>1, <3>2
  <2>2. \A k \in 0 .. n : k = 0 \/ k \in 1 .. n
    OBVIOUS
  <2>3. w = [k \in 0 .. n |-> w[k]] /\ w[0] = <<>>
    OBVIOUS
  <2> HIDE DEF w
  <2> QED BY <1>2, <2>1, <2>2, <2>3
<1>5. P(rest)
  <2> HIDE DEF P, w
  <2> QED BY <1>4
<1> HIDE DEF rest, w
<1>6. /\ rest[0] = <<>>
      /\ \A k \in 1 .. n : rest[k] = <<cs[k].data>> \o rest[cs[k].next]
  <2>1. 0 \in 0 .. n /\ \A k \in 1 .. n : k \in 0 .. n /\ k # 0
    OBVIOUS
  <2> QED BY <1>2, <1>5, <2>1
<1>7. ASSUME n # 0
      PROVE  rest[1] = From(1)
  <2> DEFINE T == {i \in 0 .. n - 1 : rest[n - i] = From(n - i)}
  <2>1. 0 \in T
    <3>1. 0 \in 0 .. n - 1 /\ n - 0 = n /\ n \in 1 .. n
      BY <1>7
    <3>2. rest[n] = From(n)
      <4>1. rest[n] = <<cs[n].data>> \o rest[cs[n].next]
        BY <1>6, <3>1
      <4>2. cs[n].next = 0 /\ From(n) = <<cs[n].data>> \o <<>>
        BY <1>3, <1>7
      <4> QED BY <1>6, <4>1, <4>2
    <3> QED BY <3>1, <3>2
  <2>2. ASSUME NEW i \in 0 .. (n - 1) - 1, i \in T
        PROVE  i + 1 \in T
    <3>1. /\ n - (i + 1) \in 1 .. n - 1 /\ (n - (i + 1)) + 1 = n - i
          /\ i + 1 \in 0 .. n - 1 /\ n - (i + 1) \in 1 .. n
      BY <1>7
    <3>2. rest[n - i] = From(n - i)
      BY <2>2
    <3> DEFINE k == n - (i + 1)
    <3>3. k \in 1 .. n - 1 /\ k \in 1 .. n /\ k + 1 = n - i
      BY <3>1
    <3> HIDE DEF k
    <3>4. rest[k] = From(k)
      BY <1>3, <1>6, <3>2, <3>3
    <3> QED BY <3>1, <3>4 DEF k
  <2>3. 0 .. n - 1 \subseteq T
    <3>1. n - 1 \in Nat
      BY <1>7
    <3> HIDE DEF T
    <3> QED BY ONLY <2>1, <2>2, <3>1, UpTo
  <2>4. n - (n - 1) = 1 /\ n - 1 \in 0 .. n - 1
    BY <1>7
  <2> QED BY <2>3, <2>4
<1>8. From(1) = [k \in 1 .. n |-> cs[k].data]
  <2>1. (n - 1) + 1 = n /\ \A i \in 1 .. n : (1 + i) - 1 = i
    OBVIOUS
  <2> QED BY <2>1 DEF From
<1> QED BY <1>1, <1>6, <1>7, <1>8

\* The cells are a sequence.
CellsAre(n) == n = Allocated /\ n \in Nat /\ SequenceOf(cells, n) /\ Len(cells) = n

\* That is part of the invariant.
LEMMA CellsKnown ==
  ASSUME OwnershipInv
  PROVE  CellsAre(Allocated)
<1>1. Allocated \in Nat /\ SequenceOf(cells, Allocated)
  BY DEF OwnershipInv, Allocated
<1>2. Len(cells) = Allocated
  BY <1>1, SequenceLength
<1> QED BY <1>1, <1>2 DEF CellsAre

\* The stack with a symbol that was shifted.
LEMMA ListShift ==
  ASSUME StackOK(stack), ListInv, Shift
  PROVE  ListInv'
<1> DEFINE n == Len(stack)
<1>1. /\ status = "parsing" /\ look.sym \in Terminals
      /\ stack' = Push(stack, look.sym, look.val)
      /\ UNCHANGED <<cells, entries, freed, status, policy>>
  BY DEF Shift, Shiftable
<1>2. look.sym \in Symbols /\ look.sym # "entries"
  <2>1. "entries" \in Nonterminals
    <3>1. 8 \in DOMAIN Grammar /\ Grammar[8].lhs = "entries"
      BY GrammarRules, GrammarTable DEF Rules, Lhs
    <3> QED BY <3>1 DEF Nonterminals
  <2> QED BY <1>1, <2>1 DEF Terminals
<1>3. /\ n \in Nat \ {0} /\ Len(stack') = n + 1 /\ stack'[n + 1].sym = look.sym
      /\ \A i \in 1 .. n : stack'[i] = stack[i]
  BY <1>1, <1>2, StackPush DEF StackOK
<1> HIDE DEF n
<1>4. \A j \in 2 .. n + 1 : j = n + 1 \/ (j \in 2 .. n /\ j \in 1 .. n)
  BY <1>3
<1>5. NoEntries' <=> NoEntries
  <2>1. \A j \in 2 .. n : j \in 2 .. n + 1 /\ j \in 1 .. n
    BY <1>3
  <2> QED BY <1>2, <1>3, <1>4, <2>1 DEF NoEntries, n
<1>6. \A j \in 2 .. Len(stack') :
          stack'[j].sym = "entries" =>
              stack'[j].val = 1 /\ entries = 0 /\ Allocated # 0
  BY <1>2, <1>3, <1>4 DEF ListInv, n
<1>7. Len(stack) > 1 => Len(stack') > 1 /\ stack'[2] = stack[2]
  <2>1. n > 1 => 2 \in 1 .. n /\ n + 1 > 1
    BY <1>3
  <2> QED BY <1>3, <2>1 DEF n
<1>8. Allocated' = Allocated
  BY <1>1 DEF Allocated
<1> QED BY <1>1, <1>5, <1>6, <1>7, <1>8 DEF ListInv

\* The symbols of a complete rule are on top of the stack.
LEMMA TopSymbols ==
  ASSUME StackOK(stack), NEW r \in Complete, NEW k \in 1 .. Size(r)
  PROVE  /\ stack[Len(stack) - Size(r) + k].sym = Sym(r, k)
         /\ Before(stack, Len(stack) - Size(r), Lhs(r))
BY CompleteRule DEF Explained

\* Only these rules are about entries.
LEMMA OtherRules ==
  ASSUME NEW r \in Rules, r \notin {1, 3, 4, 5, 6, 8, 9}
  PROVE  /\ Lhs(r) # "entries"
         /\ \A k \in 1 .. Size(r) : Sym(r, k) \notin {"entries", "policy"}
<1>1. OneByOne(r)
  BY GrammarRules
<1>2. Lhs(r) # "entries"
  BY ONLY <1>1, r \notin {1, 3, 4, 5, 6, 8, 9}, GrammarTable DEF OneByOne
<1>3. ASSUME NEW k \in 1 .. Size(r)
      PROVE  Sym(r, k) \notin {"entries", "policy"}
  <2>1. k <= Size(r) /\ (k = 1 \/ k = 2 \/ k = 3 \/ k = 4 \/ k = 5 \/ k = 6)
    <3>1. Size(r) \in 1 .. 6
      BY GrammarRules
    <3> QED BY <3>1
  <2> QED BY ONLY <1>1, <2>1, r \notin {1, 3, 4, 5, 6, 8, 9}, GrammarTable, SMTT(60)
          DEF OneByOne
<1> QED BY <1>2, <1>3

\* Reductions by other rules neither add nor take away an "entries".
LEMMA ListReduce ==
  ASSUME StackOK(stack), ListInv, NEW r \in Complete, Reduce(r)
  PROVE  ListInv'
<1> DEFINE m == Len(stack)
           n == Len(stack) - Size(r)
<1>1. /\ r \in Rules /\ OneByOne(r) /\ Size(r) \in 1 .. 6
      /\ m \in Nat /\ n = m - Size(r) /\ n \in 1 .. m - 1
  BY CompleteRule, GrammarRules DEF StackOK
<1>2. /\ status = "parsing"
      /\ UNCHANGED <<cells, entries, freed, status, policy>>
      /\ Act(r) \notin {"accept", "add_first", "add_third", "new_list", "longer_list"}
  BY DEF Reduce, Reducible, Act
<1>3. r \notin {1, 3, 4, 5, 6, 8, 9}
  BY ONLY <1>2, ActionTable
<1>4. PICK v : stack' = Push(Below(r), Lhs(r), v)
  BY SameReduction
<1>5. /\ Len(stack') = n + 1 /\ \A i \in 1 .. n : stack'[i] = stack[i]
      /\ stack'[n + 1].sym = Lhs(r)
  BY <1>3, <1>4, StackReduce
<1>6. \A k \in 1 .. Size(r) : stack[n + k].sym = Sym(r, k)
  BY TopSymbols
<1>7. /\ Lhs(r) # "entries"
      /\ \A k \in 1 .. Size(r) : Sym(r, k) \notin {"entries", "policy"}
  BY <1>1, <1>3, OtherRules
<1>8. m = Len(stack)
  OBVIOUS
<1> HIDE DEF m, n
<1>9. \A j \in 2 .. n + 1 : j = n + 1 \/ (j \in 1 .. n /\ j \in 2 .. m)
  BY <1>1
<1>10. ASSUME NEW j \in 2 .. m, stack[j].sym = "entries"
       PROVE  j \in 2 .. n /\ j \in 1 .. n /\ j \in 2 .. n + 1
  <2>1. CASE j > n
    <3>1. j - n \in 1 .. Size(r) /\ n + (j - n) = j
      BY <1>1, <2>1
    <3> QED BY <1>6, <1>7, <1>10, <3>1
  <2>2. CASE j <= n
    BY <1>1, <2>2
  <2> QED BY <1>1, <2>1, <2>2
<1>11. NoEntries' => NoEntries
  BY <1>5, <1>8, <1>10 DEF NoEntries
<1>12. \A j \in 2 .. Len(stack') :
          stack'[j].sym = "entries" =>
              stack'[j].val = 1 /\ entries = 0 /\ Allocated # 0
  BY <1>5, <1>7, <1>8, <1>9 DEF ListInv
<1>13. Len(stack) > 1 /\ stack[2].sym = "policy" =>
            Len(stack') > 1 /\ stack'[2].sym = "policy"
  <2>1. CASE n = 1
    <3>1. 1 \in 1 .. Size(r) /\ n + 1 = 2
      BY <1>1, <2>1
    <3>2. stack[2].sym # "policy"
      BY <1>6, <1>7, <3>1
    <3> QED BY <3>2
  <2>2. CASE n > 1
    <3>1. 2 \in 1 .. n /\ n + 1 > 1
      BY <1>1, <2>2
    <3> QED BY <1>5, <3>1
  <2> QED BY <1>1, <2>1, <2>2
<1>14. Allocated' = Allocated
  BY <1>2 DEF Allocated
<1> QED BY <1>2, <1>11, <1>12, <1>13, <1>14 DEF ListInv

\* One more cell: the first one, or one behind the others.
LEMMA ListReduceList ==
  ASSUME OwnershipInv, StackOK(stack), ListInv, NEW r \in Complete, ReduceList(r)
  PROVE  ListInv'
<1> DEFINE c == Allocated
           m == Len(stack)
           n == Len(stack) - Size(r)
           size == Size(r)
           x == Values(r)[Len(Values(r))]
           e == [data |-> x, next |-> 0]
           cs == Append(cells, e)
<1>1. /\ r \in Rules /\ OneByOne(r) /\ size \in 1 .. 6
      /\ m \in Nat /\ n = m - size /\ n \in 1 .. m - 1
  BY CompleteRule, GrammarRules DEF StackOK
<1>2. /\ c \in Nat /\ SequenceOf(cells, c) /\ Len(cells) = c
      /\ Len(freed) = c /\ freed \in Seq(Nat)
  BY CellsKnown DEF CellsAre, Allocated, OwnershipInv
<1>3. /\ status = "parsing"
      /\ UNCHANGED <<entries, status, policy>>
      /\ Act(r) \in {"new_list", "longer_list"}
      /\ freed' = Append(freed, 0)
      /\ cells' = Concat(cs, IF Act(r) = "longer_list" THEN Values(r)[1] ELSE 0,
                         Len(cells) + 1)
      /\ stack' = Push(Below(r), "entries",
                       IF Act(r) = "longer_list" THEN Values(r)[1] ELSE Len(cells) + 1)
  BY DEF ReduceList, Reducible, Act
<1>4. r \in {8, 9} /\ (r = 9 <=> Act(r) = "longer_list")
  <2>1. OneByOne(r)
    BY GrammarRules, CompleteRule
  <2>2. Act(r) \in {"new_list", "longer_list"}
    BY <1>3
  <2> QED BY ONLY <2>1, <2>2, ActionTable DEF OneByOne
<1>5. Lhs(r) = "entries" /\ (r = 8 => size = 1 /\ Sym(r, 1) = "entry")
      /\ (r = 9 => size = 3 /\ Sym(r, 1) = "entries" /\ Sym(r, 2) = "semicolon"
                   /\ Sym(r, 3) = "entry")
  BY <1>4, GrammarTable
<1>6. Values(r) = [k \in 1 .. size |-> stack[m - size + k].val]
  BY DEF Values, Size
<1> DEFINE v == IF Act(r) = "longer_list" THEN Values(r)[1] ELSE Len(cells) + 1
<1>7. /\ Len(stack') = n + 1 /\ \A i \in 1 .. n : stack'[i] = stack[i]
      /\ stack'[n + 1].sym = "entries" /\ stack'[n + 1].val = v
  <2>1. stack' = Push(Below(r), Lhs(r), v)
    BY <1>3, <1>5
  <2>2. r # 1
    BY <1>4
  <2> HIDE DEF v
  <2> QED BY <1>5, <2>1, <2>2, StackReduce
<1>8. \A k \in 1 .. size : stack[n + k].sym = Sym(r, k)
  BY TopSymbols
<1>9. Before(stack, n, "entries")
  <2>1. 1 \in 1 .. size
    BY <1>1
  <2> QED BY <1>5, <2>1, TopSymbols
<1>10. SequenceOf(cs, c + 1) /\ Len(cs) = c + 1 /\ cs[c + 1] = e
       /\ \A k \in 1 .. c : cs[k] = cells[k]
  <2> HIDE DEF e, c
  <2>1. SequenceOf(cs, c + 1)
    BY <1>2, SequenceLength
  <2>2. SequenceOf(cs, c + 1) => Len(cs) = c + 1
    BY <1>2, SequenceLength
  <2>3. DOMAIN cells = 1 .. c
    BY <1>2 DEF SequenceOf
  <2> QED BY <1>2, <2>1, <2>2, <2>3, AppendProperties
<1>11. Allocated' = c + 1
  BY <1>2, <1>3 DEF Allocated
<1>12. m = Len(stack) /\ e.next = 0 /\ e = [data |-> e.data, next |-> 0]
  OBVIOUS
<1>13. Chain(cells, c)
  BY DEF ListInv
<1> HIDE DEF c, m, n, size, x, e, cs
<1>14. ASSUME Chain(cells', c + 1), v = 1, entries = 0,
              \A j \in 2 .. n : stack[j].sym # "entries"
       PROVE  ListInv'
  <2>1. \A j \in 2 .. Len(stack') : stack'[j].sym = "entries" => stack'[j].val = 1
    <3>1. \A j \in 2 .. n + 1 : j = n + 1 \/ (j \in 1 .. n /\ j \in 2 .. n)
      BY <1>1
    <3> QED BY <1>7, <1>14, <3>1
  <2>2. ~NoEntries'
    <3>1. n + 1 \in 2 .. n + 1
      BY <1>1
    <3> QED BY <1>7, <3>1 DEF NoEntries
  <2>3. policy = NULL
    BY <1>3 DEF ListInv
  <2>4. c + 1 # 0
    BY <1>2
  <2> QED BY <1>3, <1>11, <1>14, <2>1, <2>2, <2>3, <2>4 DEF ListInv
<1>15. CASE r = 8
  <2>1. /\ n + 1 = m /\ stack[m].sym = "entry" /\ 1 \in 1 .. size
    BY <1>1, <1>5, <1>8, <1>15
  <2>2. \/ n = 1
        \/ n = 3 /\ stack[2].sym = "version" /\ stack[3].sym = "semicolon"
    BY <1>9 DEF Before
  <2>3. \A j \in 2 .. m : stack[j].sym \in {"entry", "version", "semicolon"}
    <3>1. \A j \in 2 .. m : j = m \/ (n = 3 /\ (j = 2 \/ j = 3))
      BY <1>1, <2>1, <2>2
    <3> QED BY <2>1, <2>2, <3>1
  <2>4. NoEntries
    BY <1>12, <2>3 DEF NoEntries
  <2>5. entries = 0
    <3>1. 2 \in 2 .. m
      BY <1>1, <2>1
    <3> QED BY <2>3, <3>1 DEF ListInv
  <2>6. c = 0
    BY <2>4, <2>5 DEF ListInv, c
  <2>7. cells' = cs /\ v = 1
    BY <1>2, <1>3, <1>4, <1>15, <2>6 DEF Concat
  <2>8. Chain(cells', c + 1)
    <3>1. cells'[1] = e /\ \A k \in 1 .. c + 1 : k = 1 /\ k = c + 1
      BY <1>10, <2>6, <2>7
    <3> QED BY <1>12, <3>1 DEF Chain
  <2>9. \A j \in 2 .. n : j \in 2 .. m
    BY <1>1
  <2> QED BY <1>14, <2>3, <2>5, <2>7, <2>8, <2>9
<1>16. CASE r = 9
  <2>1. /\ n + 1 \in 2 .. m /\ stack[n + 1].sym = "entries" /\ size = 3
        /\ stack[n + 2].sym = "semicolon" /\ stack[n + 3].sym = "entry" /\ m = n + 3
    BY <1>1, <1>5, <1>8, <1>16
  <2>2. stack[n + 1].val = 1 /\ entries = 0 /\ c # 0
    BY <1>12, <2>1 DEF ListInv, c
  <2>3. Values(r)[1] = 1
    <3>1. m - 3 + 1 = n + 1 /\ 1 \in 1 .. 3
      BY <1>1, <2>1
    <3> QED BY <1>6, <2>1, <2>2, <3>1
  <2>4. v = 1
    BY <1>4, <1>16, <2>3
  <2>5. n = 1 \/ (n = 3 /\ stack[2].sym = "version" /\ stack[3].sym = "semicolon")
    BY <1>9 DEF Before
  <2>6. \A j \in 2 .. n : stack[j].sym # "entries"
    <3>1. \A j \in 2 .. n : n = 3 /\ (j = 2 \/ j = 3)
      BY <2>5
    <3> QED BY <2>5, <3>1
  <2>7. ASSUME NEW k \in 1 .. c
        PROVE  /\ cells[k].next = IF k = c THEN 0 ELSE k + 1
               /\ cells[k] = [data |-> cells[k].data, next |-> cells[k].next]
    <3> DEFINE next == IF k = c THEN 0 ELSE k + 1
    <3>1. cells[k] = [data |-> cells[k].data, next |-> next]
      BY <1>13 DEF Chain
    <3> HIDE DEF next
    <3>2. cells[k].next = next
      BY <3>1
    <3> QED BY <3>1, <3>2 DEF next
  <2>8. LastCell(cs, 1) = c
    <3>1. DOMAIN cs = 1 .. c + 1 /\ cs[c + 1].next = 0
      BY <1>10, <1>12 DEF SequenceOf
    <3>2. \A k \in 1 .. c : cs[k].next = IF k = c THEN 0 ELSE k + 1
      BY <1>10, <2>7
    <3>3. c \in Nat \ {0}
      BY <1>2, <2>2
    <3> QED BY <3>1, <3>2, <3>3, LastOfChain
  <2>9. cells' = [cs EXCEPT ![c].next = c + 1]
    <3>1. cells' = Concat(cs, 1, c + 1)
      BY <1>2, <1>3, <1>4, <1>16, <2>3
    <3> DEFINE l == LastCell(cs, 1)
    <3>2. Concat(cs, 1, c + 1) = [cs EXCEPT ![l].next = c + 1]
      BY DEF Concat
    <3>3. l = c
      BY <2>8
    <3> HIDE DEF l
    <3> QED BY <3>1, <3>2, <3>3
  <2>10. /\ \A k \in 1 .. c + 1 : k # c => cells'[k] = cs[k]
         /\ cells'[c] = [cs[c] EXCEPT !.next = c + 1]
    <3>1. DOMAIN cs = 1 .. c + 1 /\ c \in 1 .. c + 1
      BY <1>2, <1>10, <2>2 DEF SequenceOf
    <3> QED BY <2>9, <3>1
  <2>11. Chain(cells', c + 1)
    <3>1. ASSUME NEW k \in 1 .. c + 1
          PROVE  cells'[k] = [data |-> cells'[k].data,
                              next |-> IF k = c + 1 THEN 0 ELSE k + 1]
      <4>1. CASE k = c + 1
        <5>1. cells'[k] = e
          BY <1>2, <1>10, <2>10, <4>1
        <5> QED BY <1>12, <4>1, <5>1
      <4>2. CASE k = c
        <5>1. c \in 1 .. c /\ c # c + 1
          BY <1>2, <2>2
        <5>2. cs[c] = [data |-> cells[c].data, next |-> cells[c].next]
          BY <1>10, <2>7, <5>1
        <5>3. cells'[c] = [data |-> cells[c].data, next |-> c + 1]
          BY <2>10, <5>2
        <5> QED BY <4>2, <5>1, <5>3
      <4>3. CASE k < c
        <5>1. k \in 1 .. c /\ k # c /\ k # c + 1
          BY <1>2, <4>3
        <5>2. cells'[k] = [data |-> cells[k].data, next |-> k + 1]
          BY <1>10, <2>7, <2>10, <5>1
        <5> QED BY <5>1, <5>2
      <4> QED BY <1>2, <4>1, <4>2, <4>3
    <3> QED BY <3>1 DEF Chain
  <2> QED BY <1>14, <2>2, <2>4, <2>6, <2>11
<1> QED BY <1>4, <1>15, <1>16

\* da_parser_add_entries takes the list as the result.
LEMMA ListReduceAdd ==
  ASSUME OwnershipInv, StackOK(stack), ListInv, NEW r \in Complete, ReduceAdd(r)
  PROVE  ListInv'
<1> DEFINE m == Len(stack)
           n == Len(stack) - Size(r)
           size == Size(r)
           p == IF Act(r) = "add_first" THEN 1 ELSE 3
           list == IF Act(r) = "add_first" THEN Values(r)[1] ELSE Values(r)[3]
<1>1. /\ r \in Rules /\ OneByOne(r) /\ size \in 1 .. 6
      /\ m \in Nat /\ n = m - size /\ n \in 1 .. m - 1
  BY CompleteRule, GrammarRules DEF StackOK
<1>2. /\ status = "parsing"
      /\ UNCHANGED <<freed, status, policy>>
      /\ Act(r) \in {"add_first", "add_third"}
      /\ cells' = Concat(cells, entries, list)
      /\ entries' = IF entries = 0 THEN list ELSE entries
      /\ stack' = Push(Below(r), "policy", NULL)
  BY DEF ReduceAdd, Reducible, Act
<1>3. r \in {3, 4, 5, 6}
  BY ONLY <1>1, <1>2, ActionTable DEF OneByOne
<1>4. Lhs(r) = "policy" /\ p \in 1 .. size /\ Sym(r, p) = "entries"
  <2>1. (r \in {5, 6} /\ p = 1) \/ (r \in {3, 4} /\ p = 3)
    BY <1>3, ActionTable
  <2> HIDE DEF p
  <2>2. /\ r = 3 => Lhs(r) = "policy" /\ size = 3 /\ Sym(r, 3) = "entries"
        /\ r = 4 => Lhs(r) = "policy" /\ size = 4 /\ Sym(r, 3) = "entries"
        /\ r = 5 => Lhs(r) = "policy" /\ size = 1 /\ Sym(r, 1) = "entries"
        /\ r = 6 => Lhs(r) = "policy" /\ size = 2 /\ Sym(r, 1) = "entries"
    BY ONLY GrammarTable
  <2> HIDE DEF size
  <2> QED BY <1>3, <2>1, <2>2
<1>5. Values(r) = [k \in 1 .. size |-> stack[m - size + k].val]
  BY DEF Values, Size
<1>6. list = Values(r)[p]
  OBVIOUS
<1>7. /\ n = 1 /\ stack[n + p].sym = "entries"
  <2>1. Before(stack, n, "policy")
    BY <1>4, TopSymbols
  <2>2. stack[n + p].sym = "entries"
    BY <1>4, TopSymbols
  <2> QED BY <2>1, <2>2 DEF Before
<1> HIDE DEF list, p
<1>8. n + p \in 2 .. m /\ m - size + p = n + p
  BY <1>1, <1>4, <1>7
<1>9. list = 1 /\ entries = 0 /\ Allocated # 0
  <2>1. stack[n + p].val = 1 /\ entries = 0 /\ Allocated # 0
    BY <1>7, <1>8 DEF ListInv
  <2> QED BY <1>4, <1>5, <1>6, <1>8, <2>1
<1>10. cells' = cells /\ entries' = 1
  BY <1>2, <1>9 DEF Concat
<1>11. /\ Len(stack') = 2 /\ stack'[2].sym = "policy"
  <2>1. r # 1 /\ stack' = Push(Below(r), Lhs(r), NULL)
    BY <1>2, <1>3, <1>4
  <2>2. Len(stack') = n + 1 /\ stack'[n + 1].sym = "policy"
    BY <1>4, <2>1, StackReduce
  <2>3. n + 1 = 2
    BY <1>7
  <2> QED BY <2>2, <2>3
<1>12. Allocated' = Allocated
  BY <1>2 DEF Allocated
<1>13. \A j \in 2 .. Len(stack') : stack'[j].sym # "entries"
  <2>1. \A j \in 2 .. 2 : j = 2
    OBVIOUS
  <2> QED BY <1>11, <2>1
<1> QED BY <1>2, <1>9, <1>10, <1>11, <1>12, <1>13 DEF ListInv

\* The stack of a text that is accepted has been reduced to the policy.
LEMMA ListAccept ==
  ASSUME StackOK(stack), ListInv, Accept
  PROVE  ListInv'
<1> DEFINE m == Len(stack)
<1>1. /\ 1 \in Complete /\ status' = "accepted" /\ status = "parsing"
      /\ UNCHANGED <<stack, cells, entries, freed, policy>>
  BY DEF Accept
<1>2. /\ Size(1) = 2 /\ Lhs(1) = "$accept" /\ Sym(1, 1) = "policy" /\ Sym(1, 2) = "$end"
  BY GrammarTable
<1>3. m \in Nat /\ m - 2 \in 1 .. m - 1
  BY <1>1, <1>2, CompleteRule DEF StackOK
<1>4. m = 3 /\ stack[2].sym = "policy" /\ stack[3].sym = "$end"
  <2>1. /\ \A k \in 1 .. 2 : stack[m - 2 + k].sym = Sym(1, k)
        /\ Before(stack, m - 2, "$accept")
    <3>1. 1 \in 1 .. 2
      OBVIOUS
    <3> QED BY <1>1, <1>2, <3>1, TopSymbols
  <2>2. m - 2 = 1
    BY <2>1 DEF Before
  <2>3. m = 3 /\ m - 2 + 1 = 2 /\ m - 2 + 2 = 3 /\ 1 \in 1 .. 2 /\ 2 \in 1 .. 2
    BY <1>3, <2>2
  <2> QED BY <1>2, <2>1, <2>3
<1>5. NoEntries
  <2>1. \A j \in 2 .. 3 : j = 2 \/ j = 3
    OBVIOUS
  <2> QED BY <1>4, <2>1 DEF NoEntries
<1>6. NoEntries' /\ Allocated' = Allocated
  BY <1>1, <1>5 DEF NoEntries, Allocated
<1> QED BY <1>1, <1>5, <1>6 DEF ListInv

\* The policy holds what the cells hold.
LEMMA ListNewPolicy ==
  ASSUME OwnershipInv, ListInv, DaPolicyNewFull
  PROVE  ListInv' /\ policy' = [k \in 1 .. Allocated' |-> cells'[k].data]
<1> DEFINE n == Allocated
<1>1. /\ status = "accepted" /\ status' = "deleted"
      /\ policy' = ListOf(cells, entries)
      /\ UNCHANGED <<stack, cells, entries>>
      /\ freed' = [k \in DOMAIN freed |-> freed[k] +
            Cardinality({j \in DOMAIN link_list : link_list[j] = k})]
  BY DEF DaPolicyNewFull, FreeLinks
<1>2. n \in Nat /\ SequenceOf(cells, n) /\ Chain(cells, n)
  BY CellsKnown DEF CellsAre, ListInv
<1>3. Allocated' = n
  <2>1. OwnershipInv'
    BY <1>1, OwnershipDelete DEF DaPolicyNewFull
  <2>2. DOMAIN freed' = DOMAIN freed
    BY <1>1
  <2>3. DOMAIN freed = 1 .. n
    BY DEF OwnershipInv, Allocated
  <2>4. DOMAIN freed' = 1 .. Allocated' /\ Allocated' \in Nat
    BY <2>1 DEF OwnershipInv, Allocated
  <2> QED BY <1>2, <2>2, <2>3, <2>4
<1>4. policy' = [k \in 1 .. n |-> cells[k].data]
  <2>1. CASE entries = 0
    <3>1. n = 0
      BY <1>1, <2>1 DEF ListInv
    <3>2. policy' = <<>>
      BY <1>1, <1>2, <2>1, ListOfChain
    <3> QED BY <3>1, <3>2
  <2>2. CASE entries # 0
    <3>1. n # 0 /\ entries = 1
      BY <2>2 DEF ListInv
    <3> HIDE DEF n
    <3> QED BY <1>1, <1>2, <3>1, ListOfChain
  <2> QED BY <2>1, <2>2
<1>5. NoEntries' <=> NoEntries
  BY <1>1 DEF NoEntries
<1> QED BY <1>1, <1>3, <1>4, <1>5 DEF ListInv

\* A text that fails to parse has no policy.
LEMMA ListFails ==
  ASSUME OwnershipInv, ListInv, DaParserCompileFails
  PROVE  ListInv'
<1> DEFINE n == Allocated
<1>1. /\ status = "failed" /\ status' = "deleted"
      /\ UNCHANGED <<stack, cells, entries, policy>>
      /\ freed' = [k \in DOMAIN freed |-> freed[k] +
            Cardinality({j \in DOMAIN link_list : link_list[j] = k})]
  BY DEF DaParserCompileFails, FreeLinks
<1>2. n \in Nat
  BY CellsKnown DEF CellsAre
<1>3. Allocated' = n
  <2>1. OwnershipInv'
    BY <1>1, OwnershipDelete DEF DaParserCompileFails
  <2>2. DOMAIN freed' = DOMAIN freed
    BY <1>1
  <2>3. DOMAIN freed = 1 .. n
    BY DEF OwnershipInv, Allocated
  <2>4. DOMAIN freed' = 1 .. Allocated' /\ Allocated' \in Nat
    BY <2>1 DEF OwnershipInv, Allocated
  <2> QED BY <1>2, <2>2, <2>3, <2>4
<1>4. NoEntries' <=> NoEntries
  BY <1>1 DEF NoEntries
<1> QED BY <1>1, <1>3, <1>4 DEF ListInv

\* The list of entries is as it should be in every behaviour.
THEOREM ParserList == Spec => []ListInv
<1>1. Init => ListInv
  <2> SUFFICES ASSUME Init PROVE ListInv
    OBVIOUS
  <2>1. /\ Len(stack) = 1 /\ Len(freed) = 0 /\ entries = 0 /\ status = "parsing"
        /\ policy = NULL
    BY DEF Init
  <2> QED BY <2>1 DEF ListInv, Chain, Allocated, NoEntries
<1>2. OwnershipInv /\ StackOK(stack) /\ ListInv /\ [Next]_vars => ListInv'
  <2> SUFFICES ASSUME OwnershipInv, StackOK(stack), ListInv, [Next]_vars
               PROVE  ListInv'
    OBVIOUS
  <2>1. CASE UNCHANGED <<stack, cells, entries, freed, policy>>
             /\ (status' = status \/ (status = "parsing" /\ status' = "failed"))
    <3>1. Allocated' = Allocated /\ (NoEntries' <=> NoEntries)
      BY <2>1 DEF Allocated, NoEntries
    <3> QED BY <2>1, <3>1 DEF ListInv
  <2>2. CASE Shift
    BY <2>2, ListShift
  <2>3. ASSUME NEW r \in Complete, Reduce(r) \/ ReduceList(r) \/ ReduceAdd(r)
        PROVE  ListInv'
    BY <2>3, ListReduce, ListReduceList, ListReduceAdd
  <2>4. CASE Accept
    BY <2>4, ListAccept
  <2>5. CASE DaPolicyNewFull
    BY <2>5, ListNewPolicy
  <2>6. CASE DaParserCompileFails
    BY <2>6, ListFails
  <2>7. CASE Yylex \/ YylexEnd \/ ParseError \/ Done \/ UNCHANGED vars
    <3>1. /\ UNCHANGED <<stack, cells, entries, freed, policy>>
          /\ status' = status \/ (status = "parsing" /\ status' = "failed")
      BY <2>7 DEF Yylex, YylexEnd, Scan, ParseError, Done, vars
    <3> QED BY <2>1, <3>1
  <2> QED BY <2>2, <2>3, <2>4, <2>5, <2>6, <2>7 DEF Next, Step
<1> QED BY <1>1, <1>2, ParserOwnership, ParserStack, PTL DEF Spec

\* The rules of a policy are those of all cells, in their order.
PolicyComplete ==
    policy # NULL => policy = [k \in 1 .. Len(cells) |-> cells[k].data]

\* No entry of a policy is lost, doubled or out of place, however long the text:
\* one cell is allocated for each entry that is reduced to, da_parser_add_entries
\* finds them all linked, and the mutations of g_slist_concat form no cycle.
THEOREM ParserPolicyComplete == Spec => []PolicyComplete
<1>1. OwnershipInv /\ ListInv => PolicyComplete
  <2> SUFFICES ASSUME OwnershipInv, ListInv PROVE PolicyComplete
    OBVIOUS
  <2>1. Len(cells) = Allocated
    BY CellsKnown DEF CellsAre
  <2> QED BY <2>1 DEF ListInv, PolicyComplete
<1> QED BY <1>1, ParserOwnership, ParserList, PTL

-----------------------------------------------------------------------------
(* Types.                                                                  *)

\* The tokens are a sequence, and its numbers are of type int.
TokensInv ==
    /\ text \in Texts
    /\ condition \in {"INITIAL", "BEFORE_ARGS", "ARGS"}
    /\ Len(tokens) \in Nat
    /\ SequenceOf(tokens, Len(tokens))
    /\ \A k \in 1 .. Len(tokens) : tokens[k].sym = "NUMBER" => tokens[k].val \in Ints

\* No two kinds of lexemes have one in common.
LEMMA KindsDiffer ==
  /\ \A x \in Numerals : x \notin Keywords /\ x \notin Words /\ x \notin Patterns
                         /\ x \notin Punctuation /\ x \notin Strings
  /\ \A x \in Keywords : x \notin Words /\ x \notin Punctuation /\ x \notin Strings
  /\ \A x \in Words : x \notin Punctuation /\ x \notin Strings
  /\ \A x \in Patterns : x \notin Punctuation /\ x \notin Strings
  /\ \A x \in Strings : x \notin Punctuation
<1>1. /\ DOMAIN Kinds = 1 .. 7 /\ Kinds[1] = Punctuation /\ Kinds[2] = Keywords
      /\ Kinds[3] = Words /\ Kinds[4] = Patterns /\ Kinds[5] = Numerals
      /\ Kinds[6] = Strings
  BY DEF Kinds
<1>2. \A i, j \in 1 .. 7 : i # j => Kinds[i] \cap Kinds[j] = {}
  BY <1>1, ParserAssumption
<1> DEFINE Differ(i, j) == Kinds[i] \cap Kinds[j] = {}
<1>3. /\ Differ(1, 2) /\ Differ(1, 3) /\ Differ(1, 4) /\ Differ(1, 5) /\ Differ(1, 6)
      /\ Differ(2, 3) /\ Differ(2, 5) /\ Differ(2, 6)
      /\ Differ(3, 5) /\ Differ(3, 6)
      /\ Differ(4, 5) /\ Differ(4, 6) /\ Differ(5, 6)
  BY <1>2
<1> HIDE DEF Keywords, Punctuation, Numerals, Strings
<1> QED BY <1>1, <1>3

\* A number that the scanner finds is of type int.
LEMMA TokenOfNumber ==
  ASSUME NEW c, NEW x, TokenOf(c, x).sym = "NUMBER"
  PROVE  TokenOf(c, x).val \in Ints
<1>1. CASE x \in Numerals /\ c # "BEFORE_ARGS"
  <2>1. TokenOf(c, x) = Number(x)
    <3>1. /\ x \notin Keywords /\ x \notin Words /\ x \notin Patterns /\ x # "*"
          /\ x \notin Strings
      BY <1>1, KindsDiffer DEF Punctuation
    <3> QED BY <1>1, <3>1 DEF TokenOf
  <2>2. Numeral[x] # NULL => ToInt(Numeral[x]) \in Ints
    BY <1>1, ParserAssumption, ToIntType
  <2> QED BY <2>1, <2>2 DEF Number, Token
<1>2. CASE ~(x \in Numerals /\ c # "BEFORE_ARGS")
  <2> DEFINE Others == {"USER", "GROUP", "ALLOW", "DENY", "ID", "WILDCARD", "WORD",
                        "STRING", "ERROR"} \cup Punctuation
  <2>1. \A v : Token("NUMBER", v).sym = "NUMBER"
    BY DEF Token
  <2>2. "NUMBER" \notin Others
    BY DEF Punctuation
  <2>3. TokenOf(c, x).sym \in Others
    BY <1>2 DEF TokenOf, Token, Char, KeywordToken, Keywords
  <2> QED BY <2>2, <2>3
<1> QED BY <1>1, <1>2

\* The scanner adds a token.
LEMMA TokensScan ==
  ASSUME TokensInv, NEW x, NEW token, Scan(x, token),
         token.sym = "NUMBER" => token.val \in Ints,
         UNCHANGED condition \/ condition' = ConditionAfter(condition, x)
  PROVE  TokensInv'
<1> DEFINE n == Len(tokens)
           e == [sym |-> token.sym, val |-> token.val, lexeme |-> x]
<1>1. tokens' = Append(tokens, e) /\ UNCHANGED text
  BY DEF Scan
<1>2. condition' \in {"INITIAL", "BEFORE_ARGS", "ARGS"}
  BY DEF TokensInv, ConditionAfter
<1>3. /\ SequenceOf(tokens', n + 1) /\ n + 1 \in Nat /\ Len(tokens') = n + 1
      /\ \A k \in 1 .. n : tokens'[k] = tokens[k]
      /\ tokens'[n + 1] = e
  <2> HIDE DEF e
  <2>1. n \in Nat /\ SequenceOf(tokens, n) /\ DOMAIN tokens = 1 .. n
    BY DEF TokensInv, SequenceOf
  <2> HIDE DEF n
  <2>2. SequenceOf(tokens', n + 1) /\ n + 1 \in Nat
    BY <1>1, <2>1, SequenceLength
  <2>3. Len(tokens') = n + 1
    BY <2>2, SequenceLength
  <2> QED BY <1>1, <2>1, <2>2, <2>3, AppendProperties DEF n
<1>4. \A k \in 1 .. n + 1 : tokens'[k].sym = "NUMBER" => tokens'[k].val \in Ints
  <2>1. n \in Nat
    BY DEF TokensInv
  <2>2. \A k \in 1 .. n + 1 : k = n + 1 \/ k \in 1 .. n
    BY <2>1
  <2> QED BY <1>3, <2>2 DEF TokensInv
<1> QED BY <1>1, <1>2, <1>3, <1>4 DEF TokensInv

\* It does so in every behaviour.
THEOREM ParserTokens == Spec => []TokensInv
<1>1. Init => TokensInv
  BY DEF Init, TokensInv, SequenceOf
<1>2. TokensInv /\ [Next]_vars => TokensInv'
  <2> SUFFICES ASSUME TokensInv, [Next]_vars PROVE TokensInv'
    OBVIOUS
  <2>1. CASE Yylex
    <3>1. PICK x : /\ Scan(x, TokenOf(condition, x))
                   /\ condition' = ConditionAfter(condition, x)
      BY <2>1 DEF Yylex
    <3> QED BY <3>1, TokenOfNumber, TokensScan
  <2>2. CASE YylexEnd
    <3>1. Scan(NULL, Token("$end", NULL)) /\ UNCHANGED condition
      BY <2>2 DEF YylexEnd
    <3>2. Token("$end", NULL).sym # "NUMBER"
      BY DEF Token
    <3> QED BY <3>1, <3>2, TokensScan
  <2>3. CASE UNCHANGED <<text, condition, tokens>>
    BY <2>3 DEF TokensInv, SequenceOf
  <2> QED
    BY <2>1, <2>2, <2>3 DEF Next, Step, Done, vars, Shift, Reduce, ReduceList, ReduceAdd,
       Accept, ParseError, DaPolicyNewFull, DaParserCompileFails
<1> QED BY <1>1, <1>2, PTL DEF Spec

\* A set no two elements of which differ has at most one.
LEMMA AtMostOne ==
  ASSUME NEW S, \A a, b \in S : a = b
  PROVE  Cardinality(S) <= 1
<1>1. CASE S = {}
  BY <1>1, FS_EmptySet
<1>2. CASE S # {}
  <2>1. PICK a : a \in S
    BY <1>2
  <2>2. S = {a}
    BY <2>1
  <2>3. Cardinality({a}) = 1
    BY FS_Singleton
  <2> QED BY <2>2, <2>3
<1> QED BY <1>1, <1>2

\* Types hold for all texts, however long, and all names, numbers and actions.  Of
\* these, that a list begins and goes on within the cells needs all that is known
\* about the list, and that never two rules are complete, so that the parser need
\* not choose between them, all that is known about the stack.
THEOREM ParserTypeCorrect == Spec => []TypeOK
<1>1. OwnershipInv /\ StackOK(stack) /\ ListInv /\ TokensInv => TypeOK
  <2> SUFFICES ASSUME OwnershipInv, StackOK(stack), ListInv, TokensInv
               PROVE  TypeOK
    OBVIOUS
  <2>1. /\ text \in Texts
        /\ condition \in {"INITIAL", "BEFORE_ARGS", "ARGS"}
        /\ \A k \in DOMAIN tokens :
              tokens[k].sym = "NUMBER" => tokens[k].val \in Ints
    BY DEF TokensInv, SequenceOf
  <2>2. status \in {"parsing", "accepted", "failed", "deleted"}
    BY DEF OwnershipInv
  <2> DEFINE n == Allocated
  <2>3. n \in Nat /\ Len(cells) = n /\ DOMAIN cells = 1 .. n
    BY CellsKnown DEF CellsAre, SequenceOf
  <2>4. Chain(cells, n) /\ (entries = 0 \/ (entries = 1 /\ n # 0))
    BY DEF ListInv
  <2> HIDE DEF n
  <2>5. entries \in 0 .. Len(cells)
    BY <2>3, <2>4
  <2>6. ASSUME NEW k \in 1 .. n
        PROVE  cells[k].next \in 0 .. n
    <3> DEFINE next == IF k = n THEN 0 ELSE k + 1
    <3>1. cells[k] = [data |-> cells[k].data, next |-> next]
      BY <2>4 DEF Chain
    <3>2. next \in 0 .. n
      BY <2>3
    <3> HIDE DEF next
    <3>3. cells[k].next = next
      BY <3>1
    <3> QED BY <3>2, <3>3
  <2>7. Cardinality(Complete) <= 1
    <3>1. ASSUME NEW r \in Complete, NEW q \in Complete, r # q
          PROVE  FALSE
      <4>1. Size(r) \in Nat /\ Size(q) \in Nat
        BY CompleteRule
      <4>2. Size(r) <= Size(q) \/ Size(q) <= Size(r)
        BY <4>1
      <4> QED BY <3>1, <4>2, OneComplete
    <3> QED BY <3>1, AtMostOne
  <2> QED BY <2>1, <2>2, <2>3, <2>5, <2>6, <2>7 DEF TypeOK, Ints
<1> QED BY <1>1, ParserOwnership, ParserStack, ParserList, ParserTokens, PTL

-----------------------------------------------------------------------------
(* The values of the symbols.                                              *)

Names == Words \cup Patterns \cup Keywords
Params == Names \cup {"*"} \cup {Quoted[x] : x \in Strings}
Ids == {DA_WILDCARD, DA_INVALID} \cup 0 .. 2^(IntBits - 1) - 1

\* Expressions without operators.  The action of one exists and has as many
\* arguments as it is given.
Customs ==
    {x \in [type : {"custom"}, action : DOMAIN Actions, param : Params \cup {NULL}] :
        Actions[x.action] = 1 <=> x.param # NULL}
Leaves == {Identity(uid, gid) : uid \in Ids, gid \in Ids} \cup Customs

\* The expressions of E, and those with one more operator.
Grow(E) ==
    E \cup {Not(x) : x \in E}
      \cup {Binary(type, x, y) : type \in {"and", "or"}, x \in E, y \in E}

ExprsOfDepth[n \in Nat] == IF n = 0 THEN Leaves ELSE Grow(ExprsOfDepth[n - 1])

\* All expressions that are well formed.
Exprs == UNION {ExprsOfDepth[n] : n \in Nat}

\* The first n steps of the definition have one result.
LEMMA DepthSteps ==
  ASSUME NEW n \in Nat
  PROVE  LET Correct(f, k) ==
                 f[0] = Leaves /\ \A i \in 1 .. k : f[i] = Grow(f[i - 1])
         IN  /\ \E f : Correct(f, n)
             /\ \A f, g :
                   Correct(f, n) /\ Correct(g, n) => \A i \in 0 .. n : f[i] = g[i]
<1> DEFINE Correct(f, k) == f[0] = Leaves /\ \A i \in 1 .. k : f[i] = Grow(f[i - 1])
           T == {k \in 0 .. n : \E f : Correct(f, k)}
<1>1. 0 \in T
  <2>1. Correct([i \in 0 .. n |-> Leaves], 0)
    OBVIOUS
  <2>2. \E f : Correct(f, 0)
    BY <2>1
  <2> HIDE DEF Correct
  <2> QED BY <2>2
<1>2. ASSUME NEW k \in 0 .. n - 1, k \in T
      PROVE  k + 1 \in T
  <2>1. PICK f : Correct(f, k)
    BY <1>2
  <2> DEFINE v == Grow(f[k])
             g == [i \in 0 .. n |-> IF i = k + 1 THEN v ELSE f[i]]
  <2>2. g[k + 1] = v /\ \A i \in 0 .. k : g[i] = f[i]
    <3> HIDE DEF v
    <3>1. k + 1 \in 0 .. n /\ \A i \in 0 .. k : i \in 0 .. n /\ i # k + 1
      OBVIOUS
    <3> QED BY <3>1
  <2>3. Correct(g, k + 1)
    <3> HIDE DEF g
    <3>1. g[0] = Leaves
      <4>1. 0 \in 0 .. k
        OBVIOUS
      <4> QED BY <2>1, <2>2, <4>1
    <3>2. ASSUME NEW i \in 1 .. k
          PROVE  g[i] = Grow(g[i - 1])
      <4>1. i \in 0 .. k /\ i - 1 \in 0 .. k
        OBVIOUS
      <4> QED BY <2>1, <2>2, <4>1
    <3>3. g[k + 1] = Grow(g[k + 1 - 1])
      <4>1. k + 1 - 1 = k /\ k \in 0 .. k
        OBVIOUS
      <4> QED BY <2>2, <4>1
    <3>4. \A i \in 1 .. k + 1 : i = k + 1 \/ i \in 1 .. k
      OBVIOUS
    <3> QED BY <3>1, <3>2, <3>3, <3>4
  <2>4. k + 1 \in 0 .. n
    OBVIOUS
  <2>5. \E h : Correct(h, k + 1)
    <3> HIDE DEF g, Correct
    <3> QED BY <2>3
  <2> HIDE DEF Correct
  <2> QED BY <2>4, <2>5
<1>3. \E f : Correct(f, n)
  <2>1. 0 .. n \subseteq T
    <3> HIDE DEF T
    <3> QED BY <1>1, <1>2, UpTo
  <2> HIDE DEF Correct
  <2> QED BY <2>1
<1>4. ASSUME NEW f, NEW g, Correct(f, n), Correct(g, n)
      PROVE  \A i \in 0 .. n : f[i] = g[i]
  <2> DEFINE U == {i \in 0 .. n : f[i] = g[i]}
  <2>1. 0 \in U
    BY <1>4
  <2>2. ASSUME NEW i \in 0 .. n - 1, i \in U
        PROVE  i + 1 \in U
    <3>1. i + 1 \in 1 .. n /\ i + 1 \in 0 .. n /\ i + 1 - 1 = i
      OBVIOUS
    <3>2. f[i + 1] = Grow(f[i]) /\ g[i + 1] = Grow(g[i])
      BY <1>4, <3>1
    <3> QED BY <2>2, <3>1, <3>2
  <2>3. 0 .. n \subseteq U
    <3> HIDE DEF U
    <3> QED BY <2>1, <2>2, UpTo
  <2> QED BY <2>3
<1> QED BY <1>3, <1>4

\* The recursive definition defines what it seems to.
LEMMA DepthDefined ==
  /\ ExprsOfDepth[0] = Leaves
  /\ \A n \in Nat : ExprsOfDepth[n + 1] = Grow(ExprsOfDepth[n])
<1> DEFINE Correct(f, k) == f[0] = Leaves /\ \A i \in 1 .. k : f[i] = Grow(f[i - 1])
           c(n) == CHOOSE f : Correct(f, n)
           w == [n \in Nat |-> c(n)[n]]
           P(e) == e = [n \in Nat |-> IF n = 0 THEN Leaves ELSE Grow(e[n - 1])]
<1>1. \A n \in Nat : Correct(c(n), n)
  <2>1. \A n \in Nat : \E f : Correct(f, n)
    BY DepthSteps
  <2> HIDE DEF Correct
  <2> QED BY <2>1
<1>2. \A n \in Nat : \A f, g :
          Correct(f, n) /\ Correct(g, n) => \A i \in 0 .. n : f[i] = g[i]
  BY DepthSteps
<1> HIDE DEF c
<1>3. w[0] = Leaves
  <2>1. Correct(c(0), 0)
    BY <1>1
  <2> QED BY <2>1
<1>4. ASSUME NEW n \in Nat
      PROVE  w[n + 1] = Grow(w[n])
  <2>1. n + 1 \in Nat /\ n + 1 \in 1 .. n + 1 /\ n + 1 - 1 = n /\ n \in 0 .. n
        /\ \A i \in 1 .. n : i \in 1 .. n + 1
    OBVIOUS
  <2>2. Correct(c(n + 1), n + 1)
    BY <1>1, <2>1
  <2>3. c(n + 1)[n + 1] = Grow(c(n + 1)[n]) /\ Correct(c(n + 1), n)
    BY <2>1, <2>2
  <2>4. Correct(c(n), n)
    BY <1>1
  <2> HIDE DEF Correct
  <2>5. c(n + 1)[n] = c(n)[n]
    BY <1>2, <2>1, <2>3, <2>4
  <2> QED BY <2>1, <2>3, <2>5
<1>5. P(w)
  <2>1. ASSUME NEW n \in Nat
        PROVE  w[n] = IF n = 0 THEN Leaves ELSE Grow(w[n - 1])
    <3>1. CASE n = 0
      BY <1>3, <3>1
    <3>2. CASE n # 0
      <4>1. n - 1 \in Nat /\ (n - 1) + 1 = n
        BY <3>2
      <4> HIDE DEF w
      <4> QED BY <1>4, <3>2, <4>1
    <3> QED BY <3>1, <3>2
  <2>2. w = [n \in Nat |-> w[n]]
    OBVIOUS
  <2> HIDE DEF w
  <2> QED BY <2>1, <2>2
<1>6. P(ExprsOfDepth)
  <2>1. ExprsOfDepth = CHOOSE e : P(e)
    BY DEF ExprsOfDepth
  <2> HIDE DEF P, w
  <2> QED BY <1>5, <2>1
<1>7. \A n \in Nat : n + 1 \in Nat /\ n + 1 # 0 /\ n + 1 - 1 = n
  OBVIOUS
<1> QED BY <1>6, <1>7

\* An expression is still one at any greater depth.
LEMMA DepthGrows ==
  ASSUME NEW i \in Nat, NEW j \in Nat, i <= j
  PROVE  ExprsOfDepth[i] \subseteq ExprsOfDepth[j]
<1> DEFINE E(k) == ExprsOfDepth[i + k]
           T == {k \in 0 .. j - i : ExprsOfDepth[i] \subseteq E(k)}
<1>1. 0 \in T
  BY i + 0 = i
<1>2. ASSUME NEW k \in 0 .. (j - i) - 1, k \in T
      PROVE  k + 1 \in T
  <2>1. i + k \in Nat /\ i + (k + 1) = (i + k) + 1 /\ k + 1 \in 0 .. j - i
    OBVIOUS
  <2>2. E(k + 1) = Grow(E(k))
    BY <2>1, DepthDefined
  <2>3. E(k) \subseteq Grow(E(k))
    BY DEF Grow
  <2> HIDE DEF E
  <2> QED BY <1>2, <2>1, <2>2, <2>3
<1>3. 0 .. j - i \subseteq T
  <2>1. j - i \in Nat
    OBVIOUS
  <2> HIDE DEF T
  <2> QED BY <1>1, <1>2, <2>1, UpTo
<1>4. j - i \in 0 .. j - i /\ i + (j - i) = j
  OBVIOUS
<1> QED BY <1>3, <1>4

\* Expressions that are combined make an expression.
LEMMA ExprsClosed ==
  /\ Leaves \subseteq Exprs
  /\ \A x \in Exprs : Not(x) \in Exprs
  /\ \A type \in {"and", "or"} : \A x, y \in Exprs : Binary(type, x, y) \in Exprs
<1>1. Leaves \subseteq Exprs
  <2>1. 0 \in Nat
    OBVIOUS
  <2> QED BY <2>1, DepthDefined DEF Exprs
<1>2. ASSUME NEW n \in Nat
      PROVE  Grow(ExprsOfDepth[n]) \subseteq Exprs
  <2>1. n + 1 \in Nat /\ ExprsOfDepth[n + 1] = Grow(ExprsOfDepth[n])
    BY DepthDefined
  <2> QED BY <2>1 DEF Exprs
<1>3. ASSUME NEW x \in Exprs
      PROVE  Not(x) \in Exprs
  <2>1. PICK n \in Nat : x \in ExprsOfDepth[n]
    BY DEF Exprs
  <2>2. Not(x) \in Grow(ExprsOfDepth[n])
    BY <2>1 DEF Grow
  <2> QED BY <1>2, <2>2
<1>4. ASSUME NEW type \in {"and", "or"}, NEW x \in Exprs, NEW y \in Exprs
      PROVE  Binary(type, x, y) \in Exprs
  <2>1. PICK n \in Nat, m \in Nat : x \in ExprsOfDepth[n] /\ y \in ExprsOfDepth[m]
    BY DEF Exprs
  <2>2. PICK k \in Nat : n <= k /\ m <= k
    <3>1. CASE n <= m
      BY <3>1
    <3>2. CASE m <= n
      BY <3>2
    <3> QED BY <3>1, <3>2
  <2>3. x \in ExprsOfDepth[k] /\ y \in ExprsOfDepth[k]
    BY <2>1, <2>2, DepthGrows
  <2>4. Binary(type, x, y) \in Grow(ExprsOfDepth[k])
    BY <2>3 DEF Grow
  <2> QED BY <1>2, <2>4
<1> QED BY <1>1, <1>3, <1>4

\* What da_policy_new_full makes a policy of.
Entries == [expr : Exprs \cup {NULL}, access : {"ALLOW", "DENY"}]

\* The value of a symbol has the type that the grammar declares for it.
Typed(X, v) ==
    /\ X \in {"NUMBER", "version"} => v \in Ints
    /\ X = "ID" => v \in Words
    /\ X = "WORD" => v \in Names
    /\ X \in {"WORD", "WILDCARD", "STRING", "param"} => v \in Params
    /\ X \in {"user", "group"} => v \in Ids
    /\ X = "access" => v \in {"ALLOW", "DENY"}
    /\ X \in {"expr", "term"} => v \in Exprs
    /\ X = "entry" => v \in Entries

\* The tokens and symbols have values of their types, and the list is of entries.
ValuesInv ==
    /\ look # NULL => Typed(look.sym, look.val)
    /\ \A j \in 2 .. Len(stack) : Typed(stack[j].sym, stack[j].val)
    /\ \A k \in 1 .. Allocated : cells[k].data \in Entries

\* Most symbols have no value.
Untyped == Punctuation \cup {"$end", "$accept", "policy", "entries", "USER", "GROUP",
                             "ALLOW", "DENY", "ERROR"}

\* Such a value has its type.
LEMMA UntypedSymbols == \A X \in Untyped : \A v : Typed(X, v)
  BY DEF Untyped, Typed, Punctuation

\* The scanner gives each token a value of its type.
LEMMA TokenTyped ==
  ASSUME NEW c, NEW x
  PROVE  Typed(TokenOf(c, x).sym, TokenOf(c, x).val)
<1> DEFINE t == TokenOf(c, x)
<1>1. CASE t.sym = "NUMBER"
  BY <1>1, TokenOfNumber DEF Typed
<1>2. CASE t.sym # "NUMBER"
  <2>1. \/ x \in Numerals /\ t = Number(x)
        \/ x \in Keywords /\ t = Token(KeywordToken[x], NULL)
        \/ x \in Words /\ t = Token("ID", x)
        \/ x = "*" /\ t = Token("WILDCARD", x)
        \/ x \in Names /\ t = Token("WORD", x)
        \/ x \in Strings /\ t = Token("STRING", Quoted[x])
        \/ t = Char(x)
    BY DEF TokenOf, Names
  <2> HIDE DEF t
  <2>2. CASE x \in Numerals /\ t = Number(x)
    <3>1. t.sym = "ERROR"
      BY <1>2, <2>2 DEF Number, Token
    <3> QED BY <3>1, UntypedSymbols DEF Untyped, t
  <2>3. CASE x \in Keywords /\ t = Token(KeywordToken[x], NULL)
    <3>1. t.sym \in {"USER", "GROUP", "ALLOW", "DENY"}
      BY <2>3 DEF Keywords, KeywordToken, Token
    <3> QED BY <3>1, UntypedSymbols DEF Untyped, t
  <2>4. CASE x \in Words /\ t = Token("ID", x)
    BY <2>4 DEF Token, Typed, t
  <2>5. CASE x = "*" /\ t = Token("WILDCARD", x)
    BY <2>5 DEF Token, Typed, Params, t
  <2>6. CASE x \in Names /\ t = Token("WORD", x)
    BY <2>6 DEF Token, Typed, Params, t
  <2>7. CASE x \in Strings /\ t = Token("STRING", Quoted[x])
    BY <2>7 DEF Token, Typed, Params, t
  <2>8. CASE t = Char(x)
    <3>1. t.sym \in Untyped
      BY <2>8 DEF Char, Token, Untyped
    <3> QED BY <3>1, UntypedSymbols DEF t
  <2> QED BY <2>1, <2>2, <2>3, <2>4, <2>5, <2>6, <2>7, <2>8
<1> QED BY <1>1, <1>2

\* The id of a name is an id.
LEMMA IdsOfNames ==
  /\ \A n \in Ints : (IF n < 0 THEN DA_WILDCARD ELSE n) \in Ids
  /\ \A x \in Names : IdOf(DaSystemUid(x)) \in Ids /\ IdOf(DaSystemGid(x)) \in Ids
<1> DEFINE h == 2^(IntBits - 1)
<1>1. h \in Nat \ {0} /\ 2^IntBits \in Nat
  <2> DEFINE n == IntBits - 1
  <2>1. n \in Nat /\ IntBits \in Nat
    BY ParserAssumption
  <2> HIDE DEF n
  <2> QED BY <2>1, PowerOfTwo DEF n
<1>2. Ints = -h .. h - 1 /\ Ids = {-1, -2} \cup 0 .. h - 1
  BY DEF Ints, Ids, DA_WILDCARD, DA_INVALID
<1> HIDE DEF h
<1>3. \A n \in Ints : (IF n < 0 THEN DA_WILDCARD ELSE n) \in Ids
  BY <1>1, <1>2 DEF DA_WILDCARD
<1>4. ASSUME NEW n \in Ints \cup {-1}
      PROVE  IdOf(n) \in Ids
  BY <1>1, <1>2 DEF IdOf, DA_INVALID
<1>5. ASSUME NEW x \in Names
      PROVE  /\ DaSystemUid(x) \in Ints \cup {-1}
             /\ DaSystemGid(x) \in Ints \cup {-1}
  <2>1. {Uid[x], Gid[x]} \subseteq 0 .. 2^IntBits - 1 \cup {NULL}
    BY ParserAssumption DEF Names
  <2>2. /\ Uid[x] # NULL => Uid[x] \in Int
        /\ Gid[x] # NULL => Gid[x] \in Int
    BY <1>1, <2>1
  <2> QED BY <2>2, ToIntType DEF DaSystemUid, DaSystemGid
<1> QED BY <1>3, <1>4, <1>5

\* What the actions make of the values.
LEMMA ValueTable ==
  ASSUME NEW v
  PROVE  /\ Value("first_value", v) = v[1]
         /\ Value("second_value", v) = v[2]
         /\ Value("entry_for_all", v) = Entry(NULL, v[3])
         /\ Value("entry", v) = Entry(v[1], v[3])
         /\ Value("entry_that_allows", v) = Entry(v[1], "ALLOW")
         /\ Value("allow", v) = "ALLOW"
         /\ Value("deny", v) = "DENY"
         /\ Value("id", v) = IF v[1] < 0 THEN DA_WILDCARD ELSE v[1]
         /\ Value("any_id", v) = DA_WILDCARD
         /\ Value("user_name", v) = IdOf(DaSystemUid(v[1]))
         /\ Value("group_name", v) = IdOf(DaSystemGid(v[1]))
         /\ Value("not", v) = Not(v[2])
         /\ Value("or", v) = Binary("or", v[1], v[3])
         /\ Value("and", v) = Binary("and", v[1], v[3])
         /\ Value("user", v) = Identity(v[3], DA_WILDCARD)
         /\ Value("user_and_group", v) = Identity(v[3], v[5])
         /\ Value("group", v) = Identity(DA_WILDCARD, v[3])
         /\ Value("action", v) = Custom(v[1], NULL)
         /\ Value("action_with_argument", v) = Custom(v[1], v[3])
         /\ Value("version", v) = v[1]
  BY DEF Value

\* A custom expression is well formed, unless there is none.
LEMMA CustomType ==
  ASSUME NEW name, NEW param \in Params \cup {NULL}, Custom(name, param) # NULL
  PROVE  Custom(name, param) \in Exprs
<1>1. /\ name \in DOMAIN Actions /\ (Actions[name] = 1 <=> param # NULL)
      /\ Custom(name, param) = [type |-> "custom", action |-> name, param |-> param]
  BY DEF Custom
<1>2. Custom(name, param) \in Customs
  BY <1>1 DEF Customs
<1> QED BY <1>2, ExprsClosed DEF Leaves

\* An identity is well formed.
LEMMA IdentityType ==
  ASSUME NEW uid \in Ids, NEW gid \in Ids
  PROVE  Identity(uid, gid) \in Exprs
BY ExprsClosed DEF Leaves

\* The value that an action makes has the type of the left-hand side.
LEMMA ValueTyped ==
  ASSUME NEW r \in Rules, NEW v, \A k \in 1 .. Size(r) : Typed(Sym(r, k), v[k]),
         Act(r) \notin {"accept", "add_first", "add_third", "new_list", "longer_list"},
         ~Yyerror(Act(r), v)
  PROVE  Typed(Lhs(r), Value(Act(r), v))
<1> DEFINE Arg(X, k) == k \in 1 .. Size(r) /\ Sym(r, k) = X
<1>1. ASSUME NEW X, NEW k, Arg(X, k)
      PROVE  Typed(X, v[k])
  BY <1>1
<1>2. OneByOne(r)
  BY GrammarRules
<1>3. Act(r) \in {"action", "action_with_argument"} => Value(Act(r), v) # NULL
  BY DEF Yyerror
<1> DEFINE w == Value(Act(r), v)
<1> SUFFICES Typed(Lhs(r), w)
  OBVIOUS
<1>4. CASE r = 2
  BY ONLY <1>4, GrammarTable, UntypedSymbols DEF Untyped
<1>5. CASE r = 7
  <2>1. Arg("NUMBER", 1) /\ Lhs(r) = "version" /\ w = v[1]
    BY ONLY <1>5, GrammarTable, ActionTable, ValueTable
  <2> HIDE DEF w, Arg
  <2> QED BY <1>1, <2>1 DEF Typed
<1>6. CASE r \in {10, 11, 12}
  <2>1. /\ Lhs(r) = "entry"
        /\ \/ r = 10 /\ Arg("access", 3) /\ w = Entry(NULL, v[3])
           \/ r = 11 /\ Arg("expr", 1) /\ Arg("access", 3) /\ w = Entry(v[1], v[3])
           \/ r = 12 /\ Arg("expr", 1) /\ w = Entry(v[1], "ALLOW")
    BY ONLY <1>6, GrammarTable, ActionTable, ValueTable
  <2> HIDE DEF w, Arg
  <2>2. w \in Entries
    BY <1>1, <2>1 DEF Typed, Entry, Entries
  <2> QED BY <2>1, <2>2 DEF Typed
<1>7. CASE r \in {13, 14}
  <2>1. Lhs(r) = "access" /\ w \in {"ALLOW", "DENY"}
    BY ONLY <1>7, GrammarTable, ActionTable, ValueTable
  <2> HIDE DEF w
  <2> QED BY <2>1 DEF Typed
<1>8. CASE r \in {15, 16, 17, 18, 19, 20}
  <2>1. /\ Lhs(r) \in {"user", "group"}
        /\ \/ Arg("NUMBER", 1) /\ w = (IF v[1] < 0 THEN DA_WILDCARD ELSE v[1])
           \/ w = DA_WILDCARD
           \/ /\ Arg("WORD", 1)
              /\ w \in {IdOf(DaSystemUid(v[1])), IdOf(DaSystemGid(v[1]))}
    BY ONLY <1>8, GrammarTable, ActionTable, ValueTable
  <2> HIDE DEF w, Arg
  <2>2. w \in Ids
    <3>1. CASE Arg("NUMBER", 1) /\ w = (IF v[1] < 0 THEN DA_WILDCARD ELSE v[1])
      <4>1. v[1] \in Ints
        BY <1>1, <3>1 DEF Typed
      <4> QED BY <3>1, <4>1, IdsOfNames
    <3>2. CASE w = DA_WILDCARD
      BY <3>2 DEF Ids
    <3>3. CASE /\ Arg("WORD", 1)
               /\ w \in {IdOf(DaSystemUid(v[1])), IdOf(DaSystemGid(v[1]))}
      <4>1. v[1] \in Names
        BY <1>1, <3>3 DEF Typed
      <4> QED BY <3>3, <4>1, IdsOfNames
    <3> QED BY <2>1, <3>1, <3>2, <3>3
  <2> QED BY <2>1, <2>2 DEF Typed
<1>9. CASE r \in {21, 22, 23, 24, 25}
  <2>1. /\ Lhs(r) = "expr"
        /\ \/ Arg("term", 1) /\ w = v[1]
           \/ Arg("expr", 2) /\ w \in {Not(v[2]), v[2]}
           \/ /\ Arg("expr", 1) /\ Arg("expr", 3)
              /\ w \in {Binary("or", v[1], v[3]), Binary("and", v[1], v[3])}
    BY ONLY <1>9, GrammarTable, ActionTable, ValueTable
  <2> HIDE DEF w, Arg
  <2>2. w \in Exprs
    BY <1>1, <2>1, ExprsClosed DEF Typed
  <2> QED BY <2>1, <2>2 DEF Typed
<1>10. CASE r \in {26, 27, 28}
  <2>1. /\ Lhs(r) = "term"
        /\ \/ Arg("user", 3) /\ w = Identity(v[3], DA_WILDCARD)
           \/ Arg("user", 3) /\ Arg("group", 5) /\ w = Identity(v[3], v[5])
           \/ Arg("group", 3) /\ w = Identity(DA_WILDCARD, v[3])
    BY ONLY <1>10, GrammarTable, ActionTable, ValueTable
  <2> HIDE DEF w, Arg
  <2>2. DA_WILDCARD \in Ids
    BY DEF Ids
  <2>3. w \in Exprs
    BY <1>1, <2>1, <2>2, IdentityType DEF Typed
  <2> QED BY <2>1, <2>3 DEF Typed
<1>11. CASE r \in {29, 30}
  <2>1. /\ Lhs(r) = "term" /\ Act(r) \in {"action", "action_with_argument"}
        /\ \/ w = Custom(v[1], NULL)
           \/ Arg("param", 3) /\ w = Custom(v[1], v[3])
    BY ONLY <1>11, GrammarTable, ActionTable, ValueTable
  <2>2. w # NULL
    BY <1>3, <2>1
  <2> HIDE DEF w, Arg
  <2>3. Arg("param", 3) => v[3] \in Params
    BY <1>1 DEF Typed
  <2>4. w \in Exprs
    BY <2>1, <2>2, <2>3, CustomType
  <2> QED BY <2>1, <2>4 DEF Typed
<1>12. CASE r \in {31, 32, 33}
  <2>1. /\ Lhs(r) = "param" /\ w = v[1]
        /\ (Arg("WORD", 1) \/ Arg("STRING", 1) \/ Arg("WILDCARD", 1))
    BY ONLY <1>12, GrammarTable, ActionTable, ValueTable
  <2> HIDE DEF w, Arg
  <2> QED BY <1>1, <2>1 DEF Typed
<1>13. r \notin {1, 3, 4, 5, 6, 8, 9}
  BY ActionTable
<1> QED
  BY <1>2, <1>4, <1>5, <1>6, <1>7, <1>8, <1>9, <1>10, <1>11, <1>12, <1>13 DEF OneByOne

\* g_slist_concat changes what no cell holds.
LEMMA ConcatData ==
  ASSUME NEW s, NEW n \in Nat, SequenceOf(s, n),
         \A k \in 1 .. n : s[k] = [data |-> s[k].data, next |-> s[k].next],
         NEW c, NEW d, NEW k \in 1 .. n
  PROVE  Concat(s, c, d)[k].data = s[k].data
<1>1. CASE c = 0
  BY <1>1 DEF Concat
<1>2. CASE c # 0
  <2> DEFINE l == LastCell(s, c)
  <2>1. Concat(s, c, d) = [s EXCEPT ![l].next = d]
    BY <1>2 DEF Concat
  <2>2. k \in DOMAIN s
    BY DEF SequenceOf
  <2> HIDE DEF l
  <2>3. CASE k = l
    <3>1. Concat(s, c, d)[k] = [s[k] EXCEPT !.next = d]
      BY <2>1, <2>2, <2>3
    <3> DEFINE x == s[k].data
               y == s[k].next
    <3>2. s[k] = [data |-> x, next |-> y]
      OBVIOUS
    <3> HIDE DEF x, y
    <3>3. Concat(s, c, d)[k].data = x
      BY <3>1, <3>2
    <3> QED BY <3>3 DEF x
  <2>4. CASE k # l
    BY <2>1, <2>2, <2>4
  <2> QED BY <2>3, <2>4
<1> QED BY <1>1, <1>2

\* An action that only makes a value makes one of its type.
LEMMA ValuesReduce ==
  ASSUME StackOK(stack), ValuesInv, NEW r \in Complete, Reduce(r)
  PROVE  ValuesInv'
<1> DEFINE m == Len(stack)
           n == Len(stack) - Size(r)
           size == Size(r)
           v == Values(r)
           w == Value(Act(r), v)
<1>1. /\ r \in Rules /\ size \in 1 .. 6
      /\ m \in Nat /\ n = m - size /\ n \in 1 .. m - 1
  BY CompleteRule DEF StackOK
<1>2. /\ stack' = Push(Below(r), Lhs(r), w) /\ ~Yyerror(Act(r), v)
      /\ UNCHANGED <<look, cells, freed>>
      /\ Act(r) \notin {"accept", "add_first", "add_third", "new_list", "longer_list"}
  BY DEF Reduce, Act, Lhs
<1>3. v = [k \in 1 .. size |-> stack[m - size + k].val]
  BY DEF Values, Size
<1>4. ASSUME NEW k \in 1 .. size
      PROVE  Typed(Sym(r, k), v[k])
  <2>1. stack[m - size + k].sym = Sym(r, k)
    BY TopSymbols
  <2> DEFINE i == m - size + k
  <2>2. i \in 2 .. m
    BY <1>1
  <2>3. v[k] = stack[i].val
    BY <1>3
  <2>4. Typed(stack[i].sym, stack[i].val)
    BY <2>2 DEF ValuesInv
  <2> QED BY <2>1, <2>3, <2>4
<1> HIDE DEF v
<1>5. Typed(Lhs(r), w)
  BY <1>1, <1>2, <1>4, ValueTyped
<1> HIDE DEF w
<1>6. /\ n \in 1 .. m - 1 /\ Len(stack') = n + 1
      /\ \A i \in 1 .. n : stack'[i] = stack[i]
      /\ stack'[n + 1].sym = Lhs(r) /\ stack'[n + 1].val = w
  <2>1. r # 1
    BY <1>2, ActionTable
  <2> QED BY <1>2, <2>1, StackReduce
<1>7. ASSUME NEW j \in 2 .. Len(stack')
      PROVE  Typed(stack'[j].sym, stack'[j].val)
  <2>1. CASE j = n + 1
    BY <1>5, <1>6, <2>1
  <2>2. CASE j # n + 1
    <3>1. j \in 1 .. n /\ j \in 2 .. m
      BY <1>1, <1>6, <2>2
    <3> QED BY <1>6, <3>1 DEF ValuesInv
  <2> QED BY <2>1, <2>2
<1>8. Allocated' = Allocated
  BY <1>2 DEF Allocated
<1> QED BY <1>2, <1>7, <1>8 DEF ValuesInv

\* A symbol without a value does not disturb the others.
LEMMA ValuesPush ==
  ASSUME StackOK(stack), ValuesInv, NEW r \in Complete, r # 1,
         NEW v, stack' = Push(Below(r), Lhs(r), v), Lhs(r) \in Untyped
  PROVE  \A j \in 2 .. Len(stack') : Typed(stack'[j].sym, stack'[j].val)
<1> DEFINE m == Len(stack)
           n == Len(stack) - Size(r)
<1>1. /\ m \in Nat /\ n \in 1 .. m - 1 /\ Len(stack') = n + 1
      /\ \A i \in 1 .. n : stack'[i] = stack[i]
      /\ stack'[n + 1].sym = Lhs(r)
  BY StackReduce DEF StackOK
<1>2. ASSUME NEW j \in 2 .. Len(stack')
      PROVE  Typed(stack'[j].sym, stack'[j].val)
  <2>1. CASE j = n + 1
    BY <1>1, <2>1, UntypedSymbols
  <2>2. CASE j # n + 1
    <3>1. j \in 1 .. n /\ j \in 2 .. m
      BY <1>1, <2>2
    <3> QED BY <1>1, <3>1 DEF ValuesInv
  <2> QED BY <2>1, <2>2
<1> QED BY <1>2

\* The cells of a list are records.
LEMMA ChainRecords ==
  ASSUME NEW cs, NEW n \in Nat, Chain(cs, n), NEW k \in 1 .. n
  PROVE  cs[k] = [data |-> cs[k].data, next |-> cs[k].next]
<1> DEFINE next == IF k = n THEN 0 ELSE k + 1
<1>1. cs[k] = [data |-> cs[k].data, next |-> next]
  BY DEF Chain
<1> HIDE DEF next
<1>2. cs[k].next = next
  BY <1>1
<1> QED BY <1>1, <1>2

\* A new cell holds the last of the values, and the others what they held.
LEMMA NewCell ==
  ASSUME OwnershipInv, ListInv, NEW r, ReduceList(r)
  PROVE  /\ Allocated' = Allocated + 1
         /\ \A k \in 1 .. Allocated : cells'[k].data = cells[k].data
         /\ cells'[Allocated + 1].data = Values(r)[Len(Values(r))]
<1> DEFINE c == Allocated
           x == Values(r)[Len(Values(r))]
           e == [data |-> x, next |-> 0]
           cs == Append(cells, e)
           l == IF Act(r) = "longer_list" THEN Values(r)[1] ELSE 0
<1>1. c \in Nat /\ SequenceOf(cells, c) /\ Len(cells) = c /\ freed \in Seq(Nat)
  BY CellsKnown DEF CellsAre, OwnershipInv
<1>2. freed' = Append(freed, 0) /\ cells' = Concat(cs, l, Len(cells) + 1)
  BY DEF ReduceList, Act
<1>3. Allocated' = c + 1
  BY <1>1, <1>2 DEF Allocated
<1> HIDE DEF c, x, l
<1>4. /\ SequenceOf(cs, c + 1) /\ cs[c + 1] = e
      /\ \A k \in 1 .. c : cs[k] = cells[k]
  <2> HIDE DEF e
  <2>1. SequenceOf(cs, c + 1)
    BY <1>1, SequenceLength
  <2>2. DOMAIN cells = 1 .. c
    BY <1>1 DEF SequenceOf
  <2> QED BY <1>1, <2>1, <2>2, AppendProperties
<1>5. e = [data |-> e.data, next |-> e.next] /\ e.data = x
  OBVIOUS
<1> HIDE DEF cs, e
<1>6. ASSUME NEW k \in 1 .. c + 1
      PROVE  cs[k] = [data |-> cs[k].data, next |-> cs[k].next]
  <2>1. CASE k = c + 1
    BY <1>4, <1>5, <2>1
  <2>2. CASE k # c + 1
    <3>1. k \in 1 .. c
      BY <1>1, <2>2
    <3>2. cells[k] = [data |-> cells[k].data, next |-> cells[k].next]
      BY <1>1, <3>1, ChainRecords DEF ListInv, c
    <3> QED BY <1>4, <3>1, <3>2
  <2> QED BY <2>1, <2>2
<1>7. \A k \in 1 .. c + 1 : cells'[k].data = cs[k].data
  <2>1. c + 1 \in Nat
    BY <1>1
  <2> QED BY <1>2, <1>4, <1>6, <2>1, ConcatData
<1>8. c + 1 \in 1 .. c + 1 /\ \A k \in 1 .. c : k \in 1 .. c + 1
  BY <1>1
<1> QED BY <1>3, <1>4, <1>5, <1>7, <1>8 DEF c, x

\* Adding a list to the result changes what no cell holds.
LEMMA SameCells ==
  ASSUME OwnershipInv, ListInv, NEW r, ReduceAdd(r)
  PROVE  /\ Allocated' = Allocated
         /\ \A k \in 1 .. Allocated : cells'[k].data = cells[k].data
<1> DEFINE c == Allocated
           list == IF Act(r) = "add_first" THEN Values(r)[1] ELSE Values(r)[3]
<1>1. UNCHANGED freed /\ cells' = Concat(cells, entries, list)
  BY DEF ReduceAdd, Act
<1>2. c \in Nat /\ SequenceOf(cells, c) /\ Chain(cells, c)
  BY CellsKnown DEF CellsAre, ListInv
<1> HIDE DEF c, list
<1>3. \A k \in 1 .. c : cells[k] = [data |-> cells[k].data, next |-> cells[k].next]
  BY <1>2, ChainRecords
<1>4. \A k \in 1 .. c : cells'[k].data = cells[k].data
  BY <1>1, <1>2, <1>3, ConcatData
<1> QED BY <1>1, <1>4 DEF Allocated, c

\* The symbol on top of the right-hand side of a list.
LEMMA ListRules ==
  ASSUME StackOK(stack), NEW r \in Complete, ReduceList(r)
  PROVE  /\ r \in {8, 9} /\ r # 1 /\ Lhs(r) = "entries" /\ Sym(r, Size(r)) = "entry"
         /\ Act(r) = IF r = 8 THEN "new_list" ELSE "longer_list"
         /\ Values(r)[Len(Values(r))] = stack[Len(stack)].val
         /\ stack[Len(stack)].sym = "entry" /\ Len(stack) \in 2 .. Len(stack)
<1> DEFINE size == Size(r)
           m == Len(stack)
<1>1. /\ r \in Rules /\ OneByOne(r) /\ size \in 1 .. 6
      /\ m \in Nat /\ m - size \in 1 .. m - 1
  BY CompleteRule, GrammarRules DEF StackOK
<1>2. Act(r) \in {"new_list", "longer_list"}
  BY DEF ReduceList, Act
<1>3. r \in {8, 9}
  BY ONLY <1>1, <1>2, ActionTable DEF OneByOne
<1>4. /\ Lhs(r) = "entries" /\ Sym(r, size) = "entry"
      /\ Act(r) = IF r = 8 THEN "new_list" ELSE "longer_list"
  BY ONLY <1>3, GrammarTable, ActionTable
<1>5. Values(r) = [k \in 1 .. size |-> stack[m - size + k].val]
  BY DEF Values, Size
<1>6. size \in 1 .. size /\ m \in 2 .. m /\ m - size + size = m /\ size \in Nat
  BY <1>1
<1>7. Len(Values(r)) = size /\ Values(r)[size] = stack[m].val
  BY <1>5, <1>6
<1>8. stack[m].sym = "entry"
  BY <1>4, <1>6, TopSymbols
<1> QED BY <1>3, <1>4, <1>6, <1>7, <1>8

\* A new cell holds an entry.
LEMMA ValuesReduceList ==
  ASSUME OwnershipInv, StackOK(stack), ListInv, ValuesInv,
         NEW r \in Complete, ReduceList(r)
  PROVE  ValuesInv'
<1> DEFINE c == Allocated
           v == IF Act(r) = "longer_list" THEN Values(r)[1] ELSE Len(cells) + 1
<1>1. UNCHANGED look /\ stack' = Push(Below(r), "entries", v)
  BY DEF ReduceList, Act
<1> HIDE DEF v
<1>2. Values(r)[Len(Values(r))] \in Entries
  BY ListRules DEF ValuesInv, Typed
<1>3. c \in Nat /\ Allocated' = c + 1
  BY NewCell, CellsKnown DEF CellsAre
<1>4. ASSUME NEW k \in 1 .. c + 1
      PROVE  cells'[k].data \in Entries
  <2>1. CASE k = c + 1
    BY <1>2, <2>1, NewCell
  <2>2. CASE k # c + 1
    <3>1. k \in 1 .. c
      BY <1>3, <2>2
    <3> QED BY <3>1, NewCell DEF ValuesInv
  <2> QED BY <2>1, <2>2
<1>5. \A j \in 2 .. Len(stack') : Typed(stack'[j].sym, stack'[j].val)
  BY <1>1, ListRules, ValuesPush DEF Untyped
<1> QED BY <1>1, <1>3, <1>4, <1>5 DEF ValuesInv

\* The rules by which the list becomes the result.
LEMMA AddRules ==
  ASSUME StackOK(stack), NEW r \in Complete, ReduceAdd(r)
  PROVE  /\ r \in {3, 4, 5, 6} /\ r # 1 /\ Lhs(r) = "policy"
         /\ Act(r) = IF r \in {3, 4} THEN "add_third" ELSE "add_first"
         /\ Size(r) >= IF r \in {3, 4} THEN 3 ELSE 1
         /\ Sym(r, IF r \in {3, 4} THEN 3 ELSE 1) = "entries"
<1>1. r \in Rules /\ OneByOne(r) /\ Act(r) \in {"add_first", "add_third"}
  BY CompleteRule, GrammarRules DEF ReduceAdd, Act
<1>2. r \in {3, 4, 5, 6}
  BY ONLY <1>1, ActionTable DEF OneByOne
<1> QED BY ONLY <1>2, GrammarTable, ActionTable

\* A list that is added holds entries still.
LEMMA ValuesReduceAdd ==
  ASSUME OwnershipInv, StackOK(stack), ListInv, ValuesInv,
         NEW r \in Complete, ReduceAdd(r)
  PROVE  ValuesInv'
<1>1. UNCHANGED look /\ stack' = Push(Below(r), "policy", NULL)
  BY DEF ReduceAdd
<1>2. \A k \in 1 .. Allocated' : cells'[k].data \in Entries
  BY SameCells DEF ValuesInv
<1>3. \A j \in 2 .. Len(stack') : Typed(stack'[j].sym, stack'[j].val)
  BY <1>1, AddRules, ValuesPush DEF Untyped
<1> QED BY <1>1, <1>2, <1>3 DEF ValuesInv

\* Every value on the stack has the type of its symbol, so that the actions take
\* from the union of types, %union, the member that was stored in it.
THEOREM ParserValues == Spec => []ValuesInv
<1>1. Init => ValuesInv
  <2> SUFFICES ASSUME Init PROVE ValuesInv
    OBVIOUS
  <2>1. look = NULL /\ Len(stack) = 1 /\ Len(freed) = 0
    BY DEF Init
  <2> QED BY <2>1 DEF ValuesInv, Allocated
<1>2. OwnershipInv /\ StackOK(stack) /\ ListInv /\ ValuesInv /\ OwnershipInv'
        /\ [Next]_vars => ValuesInv'
  <2> SUFFICES ASSUME OwnershipInv, StackOK(stack), ListInv, ValuesInv,
                      OwnershipInv', [Next]_vars
               PROVE  ValuesInv'
    OBVIOUS
  <2>1. ASSUME NEW x, NEW token, Scan(x, token), Typed(token.sym, token.val)
        PROVE  ValuesInv'
    <3>1. look' = token /\ UNCHANGED <<stack, cells, freed>>
      BY <2>1 DEF Scan
    <3>2. Allocated' = Allocated
      BY <3>1 DEF Allocated
    <3> QED BY <2>1, <3>1, <3>2 DEF ValuesInv
  <2>2. CASE Yylex
    BY <2>1, <2>2, TokenTyped DEF Yylex
  <2>3. CASE YylexEnd
    <3>1. Scan(NULL, Token("$end", NULL))
      BY <2>3 DEF YylexEnd
    <3>2. Token("$end", NULL).sym \in Untyped
      BY DEF Token, Untyped
    <3>3. Typed(Token("$end", NULL).sym, Token("$end", NULL).val)
      BY <3>2, UntypedSymbols
    <3> QED BY <2>1, <3>1, <3>3
  <2>4. CASE Shift
    <3> DEFINE n == Len(stack)
    <3>1. /\ look # NULL /\ look.sym \in Symbols /\ look' = NULL
          /\ stack' = Push(stack, look.sym, look.val)
          /\ UNCHANGED <<cells, freed>>
      BY <2>4 DEF Shift, Shiftable, Terminals
    <3>2. /\ n \in Nat \ {0} /\ Len(stack') = n + 1
          /\ stack'[n + 1].sym = look.sym /\ stack'[n + 1].val = look.val
          /\ \A i \in 1 .. n : stack'[i] = stack[i]
      BY <3>1, StackPush DEF StackOK
    <3>3. ASSUME NEW j \in 2 .. Len(stack')
          PROVE  Typed(stack'[j].sym, stack'[j].val)
      <4>1. CASE j = n + 1
        BY <3>1, <3>2, <4>1 DEF ValuesInv
      <4>2. CASE j # n + 1
        <5>1. j \in 1 .. n /\ j \in 2 .. n
          BY <3>2, <4>2
        <5> QED BY <3>2, <5>1 DEF ValuesInv
      <4> QED BY <4>1, <4>2
    <3>4. Allocated' = Allocated
      BY <3>1 DEF Allocated
    <3> QED BY <3>1, <3>3, <3>4 DEF ValuesInv
  <2>5. ASSUME NEW r \in Complete, Reduce(r) \/ ReduceList(r) \/ ReduceAdd(r)
        PROVE  ValuesInv'
    BY <2>5, ValuesReduce, ValuesReduceList, ValuesReduceAdd
  <2>6. CASE DaPolicyNewFull \/ DaParserCompileFails
    <3>1. /\ UNCHANGED <<look, stack, cells>>
          /\ freed' = [k \in DOMAIN freed |-> freed[k] +
                Cardinality({j \in DOMAIN link_list : link_list[j] = k})]
      BY <2>6 DEF DaPolicyNewFull, DaParserCompileFails, FreeLinks
    <3>2. Allocated' = Allocated
      <4>1. DOMAIN freed' = DOMAIN freed
        BY <3>1
      <4>2. DOMAIN freed = 1 .. Allocated /\ Allocated \in Nat
        BY DEF OwnershipInv, Allocated
      <4>3. DOMAIN freed' = 1 .. Allocated' /\ Allocated' \in Nat
        BY DEF OwnershipInv, Allocated
      <4> QED BY <4>1, <4>2, <4>3
    <3> QED BY <3>1, <3>2 DEF ValuesInv
  <2>7. CASE Accept \/ ParseError \/ Done \/ UNCHANGED vars
    <3>1. UNCHANGED <<look, stack, cells, freed>>
      BY <2>7 DEF Accept, ParseError, Done, vars
    <3>2. Allocated' = Allocated
      BY <3>1 DEF Allocated
    <3> QED BY <3>1, <3>2 DEF ValuesInv
  <2> QED BY <2>2, <2>3, <2>4, <2>5, <2>6, <2>7 DEF Next, Step
<1> QED BY <1>1, <1>2, ParserOwnership, ParserStack, ParserList, PTL DEF Spec

\* Whatever the text, the rules of a policy are well formed: an expression and an
\* access, the expression being made of identities and actions by the operators,
\* each id a wildcard, invalid or a natural number of type int, and each action one
\* that exists, with as many arguments as it has.  This is what dbusaccess_policy.c
\* takes for granted when it checks and compares them.
PolicyWellFormed == policy # NULL => policy \in Seq(Entries)

\* It holds for all texts, names, numbers and actions.
THEOREM ParserPolicyWellFormed == Spec => []PolicyWellFormed
<1>1. OwnershipInv /\ ListInv /\ ValuesInv => PolicyWellFormed
  <2> SUFFICES ASSUME OwnershipInv, ListInv, ValuesInv, policy # NULL
               PROVE  policy \in Seq(Entries)
    BY DEF PolicyWellFormed
  <2> DEFINE n == Allocated
  <2>1. n \in Nat /\ policy = [k \in 1 .. n |-> cells[k].data]
    BY CellsKnown DEF CellsAre, ListInv
  <2>2. \A k \in 1 .. n : cells[k].data \in Entries
    BY DEF ValuesInv
  <2> HIDE DEF n
  <2>3. policy \in [1 .. n -> Entries]
    BY <2>1, <2>2
  <2> QED BY <2>1, <2>3
<1> QED BY <1>1, ParserOwnership, ParserList, ParserValues, PTL

-----------------------------------------------------------------------------
(* What a state of the parser expects.                                     *)

Own(X) == {q \in Rules : Lhs(q) = X}

\* The rules with which an X may begin are those of what may begin it.
Longer(before) ==
    [X \in Symbols |-> before[X] \cup UNION {Own(Sym(q, 1)) : q \in before[X]}]

\* Begins is defined, and so are the rules that are predicted.
LEMMA BeginsDefined ==
  /\ Begins[0] = [X \in Symbols |-> Own(X)]
  /\ \A n \in 0 .. 32 : Begins[n + 1] = Longer(Begins[n])
  /\ \A n \in 0 .. 33 : Begins[n] \in [Symbols -> SUBSET Rules]
<1> DEFINE first == [X \in Symbols |-> Own(X)]
           S == [Symbols -> SUBSET Rules]
           P(f) == f = [n \in 0 .. 33 |-> IF n = 0 THEN first ELSE Longer(f[n - 1])]
           step == [n \in 1 .. 33 |-> [before \in S |-> Longer(before)]]
<1>1. first \in S
  BY DEF Own
<1>2. \A before \in S : Longer(before) \in S
  <2>1. \A Y : Own(Y) \subseteq Rules
    BY DEF Own
  <2>2. ASSUME NEW before \in S, NEW Y \in Symbols
        PROVE  Longer(before)[Y] \in SUBSET Rules
    <3>1. before[Y] \subseteq Rules
      OBVIOUS
    <3> QED BY <2>1, <3>1 DEF Longer
  <2> QED BY <2>2 DEF Longer
<1>3. step \in Steps(33, S)
  <2> HIDE DEF S
  <2> QED BY <1>2 DEF Steps
<1>4. PICK f : f \in Runs(33, S, first, step)
  <2> HIDE DEF first, step, S
  <2> QED BY <1>1, <1>3, StepByStep
<1>5. P(f)
  <2> HIDE DEF first, S
  <2>1. /\ f \in [0 .. 33 -> S] /\ f[0] = first
        /\ \A n \in 1 .. 33 : f[n] = step[n][f[n - 1]]
    BY <1>4 DEF Runs
  <2>2. \A n \in 1 .. 33 : n - 1 \in 0 .. 33 /\ n # 0
    OBVIOUS
  <2>3. \A n \in 1 .. 33 : f[n] = Longer(f[n - 1])
    BY <2>1, <2>2
  <2>4. \A n \in 0 .. 33 : n = 0 \/ n \in 1 .. 33
    OBVIOUS
  <2> HIDE DEF step
  <2> QED BY <2>1, <2>2, <2>3, <2>4
<1>6. Begins = CHOOSE g : P(g)
  BY GrammarRules DEF Begins, Own, Longer, Lhs, Sym
<1>7. P(Begins)
  <2> HIDE DEF P
  <2> QED BY <1>5, <1>6
<1>8. Begins[0] = first /\ \A n \in 0 .. 32 : Begins[n + 1] = Longer(Begins[n])
  <2> HIDE DEF first
  <2>1. \A n \in 0 .. 32 : n + 1 \in 0 .. 33 /\ n + 1 # 0 /\ n + 1 - 1 = n
    OBVIOUS
  <2> QED BY <1>7, <2>1
<1> DEFINE T == {n \in 0 .. 33 : Begins[n] \in S}
<1>9. 0 .. 33 \subseteq T
  <2> HIDE DEF first, S
  <2>1. 0 \in T
    BY <1>1, <1>8
  <2>2. \A n \in 0 .. 33 - 1 : n \in 0 .. 32 /\ n + 1 \in 0 .. 33
    OBVIOUS
  <2>3. \A n \in 0 .. 33 - 1 : n \in T => n + 1 \in T
    BY <1>2, <1>8, <2>2
  <2> HIDE DEF T
  <2> QED BY <2>1, <2>3, UpTo
<1> QED BY <1>8, <1>9

\* What may begin X may begin it after one more rule.
LEMMA BeginsStep ==
  ASSUME NEW n \in 0 .. 32, NEW X \in Symbols
  PROVE  /\ Begins[n][X] \subseteq Begins[n + 1][X]
         /\ \A p \in Begins[n][X], q \in Rules :
                Lhs(q) = Sym(p, 1) => q \in Begins[n + 1][X]
<1>1. Begins[n + 1] = Longer(Begins[n])
  BY BeginsDefined
<1>2. Begins[n + 1][X] = Begins[n][X] \cup UNION {Own(Sym(q, 1)) : q \in Begins[n][X]}
  BY <1>1 DEF Longer
<1> QED BY <1>2 DEF Own

\* There are enough nonterminals for the longest chain of rules.
LEMMA NonterminalsCount == Cardinality(Nonterminals) \in 5 .. 33
<1> DEFINE g == [q \in 1 .. 33 |-> Grammar[q].lhs]
           h == [X \in Nonterminals |->
                    IF X = "policy" THEN 1 ELSE IF X = "version" THEN 2
                    ELSE IF X = "entries" THEN 3 ELSE IF X = "entry" THEN 4 ELSE 5]
<1>1. ExistsSurjection(1 .. 33, Nonterminals)
  <2>1. g \in Surjection(1 .. 33, Nonterminals)
    BY GrammarRules DEF Surjection, Nonterminals, Rules
  <2> QED BY <2>1 DEF ExistsSurjection
<1>2. Cardinality(Nonterminals) <= 33 /\ IsFiniteSet(Nonterminals)
  BY <1>1, FS_SurjCardinalityBound, FS_NatSurjection
<1>3. Cardinality(Nonterminals) \in Nat
  BY <1>2, FS_CardinalityType
<1>4. h \in Surjection(Nonterminals, 1 .. 5)
  <2>1. \A q \in Rules : Lhs(q) \in Nonterminals
    BY GrammarRules DEF Nonterminals, Lhs
  <2>2. /\ "policy" \in Nonterminals /\ "version" \in Nonterminals
        /\ "entries" \in Nonterminals /\ "entry" \in Nonterminals
        /\ "expr" \in Nonterminals
    <3>1. 2 \in Rules /\ 7 \in Rules /\ 8 \in Rules /\ 10 \in Rules /\ 21 \in Rules
      BY DEF Rules
    <3> QED BY <2>1, <3>1, GrammarTable
  <2>3. h \in [Nonterminals -> 1 .. 5]
    OBVIOUS
  <2>4. /\ h["policy"] = 1 /\ h["version"] = 2 /\ h["entries"] = 3
        /\ h["entry"] = 4 /\ h["expr"] = 5
    BY <2>2
  <2>5. \A n \in 1 .. 5 : n = 1 \/ n = 2 \/ n = 3 \/ n = 4 \/ n = 5
    OBVIOUS
  <2> HIDE DEF h
  <2>6. \A n \in 1 .. 5 : \E X \in Nonterminals : h[X] = n
    BY <2>2, <2>4, <2>5
  <2> QED BY <2>3, <2>6 DEF Surjection
<1> HIDE DEF h
<1>5. Cardinality(1 .. 5) <= Cardinality(Nonterminals)
  BY <1>2, <1>4, FS_Surjection
<1>6. Cardinality(1 .. 5) = 5
  <2>1. 1 \in Int /\ 5 \in Int /\ ~ (1 > 5) /\ 5 - 1 + 1 = 5
    OBVIOUS
  <2>2. Cardinality(1 .. 5) = IF 1 > 5 THEN 0 ELSE 5 - 1 + 1
    BY ONLY <2>1, FS_Interval, Zenon
  <2> QED BY <2>1, <2>2
<1> QED BY <1>2, <1>3, <1>5, <1>6

\* Each rule of what may begin X is predicted.
LEMMA PredictedAll ==
  ASSUME NEW X \in Symbols, NEW q \in Rules, Lhs(q) \in Derives(X)
  PROVE  q \in Predicted[X]
<1> DEFINE c == Cardinality(Nonterminals)
           At(n, Y) == \A p \in Rules : Lhs(p) = Y => p \in Begins[n][X]
<1>1. c \in 5 .. 33
  BY NonterminalsCount
<1> HIDE DEF c
<1>2. At(0, X)
  BY BeginsDefined DEF Own
<1>3. ASSUME NEW n \in 0 .. 32, NEW p \in Rules, At(n, Lhs(p))
      PROVE  At(n + 1, Sym(p, 1))
  <2>1. p \in Begins[n][X]
    BY <1>3
  <2> QED BY <2>1, BeginsStep
<1>4. ASSUME NEW n \in 0 .. 32, NEW Y, At(n, Y)
      PROVE  At(n + 1, Y)
  BY <1>4, BeginsStep
<1>5. ASSUME NEW n \in 0 .. 5, NEW Y, At(n, Y)
      PROVE  At(c, Y)
  <2> DEFINE T == {k \in 0 .. 33 - n : At(n + k, Y)}
  <2>1. 0 \in T
    BY <1>5
  <2>2. ASSUME NEW k \in 0 .. (33 - n) - 1, k \in T
        PROVE  k + 1 \in T
    <3>1. n + k \in 0 .. 32 /\ k + 1 \in 0 .. 33 - n /\ n + (k + 1) = (n + k) + 1
      OBVIOUS
    <3> HIDE DEF At
    <3> QED BY <1>4, <2>2, <3>1
  <2>3. 0 .. 33 - n \subseteq T
    <3> HIDE DEF T
    <3>1. 33 - n \in Nat
      OBVIOUS
    <3> QED BY <2>1, <2>2, <3>1, UpTo
  <2>4. c - n \in 0 .. 33 - n /\ n + (c - n) = c
    BY <1>1
  <2> HIDE DEF At
  <2> QED BY <2>3, <2>4
<1> HIDE DEF At
<1>6. /\ 1 \in Rules /\ 2 \in Rules /\ 5 \in Rules /\ 8 \in Rules /\ 12 \in Rules
      /\ 21 \in Rules
  BY DEF Rules
<1>7. ASSUME NEW n \in 0 .. 4
      PROVE  /\ At(n, "$accept") => At(n + 1, "policy")
             /\ At(n, "policy") => At(n + 1, "version") /\ At(n + 1, "entries")
             /\ At(n, "entries") => At(n + 1, "entry")
             /\ At(n, "entry") => At(n + 1, "expr")
             /\ At(n, "expr") => At(n + 1, "term")
  <2>1. n \in 0 .. 32
    OBVIOUS
  <2> QED BY <1>3, <1>6, <2>1, GrammarTable
<1>8. /\ 0 \in 0 .. 4 /\ 1 \in 0 .. 4 /\ 2 \in 0 .. 4 /\ 3 \in 0 .. 4 /\ 4 \in 0 .. 4
      /\ 0 + 1 = 1 /\ 1 + 1 = 2 /\ 2 + 1 = 3 /\ 3 + 1 = 4 /\ 4 + 1 = 5
      /\ 0 \in 0 .. 5 /\ 1 \in 0 .. 5 /\ 2 \in 0 .. 5 /\ 3 \in 0 .. 5 /\ 4 \in 0 .. 5
      /\ 5 \in 0 .. 5
  OBVIOUS
<1>9. At(c, X)
  BY <1>2, <1>5, <1>8
<1>10. At(c, Lhs(q))
  <2>1. CASE X = "expr"
    <3>1. At(1, "term")
      BY <1>2, <1>7, <1>8, <2>1
    <3> QED BY <1>5, <1>8, <1>9, <2>1, <3>1 DEF Derives
  <2>2. CASE X = "entry"
    <3>1. At(1, "expr")
      BY <1>2, <1>7, <1>8, <2>2
    <3>2. At(2, "term")
      BY <1>7, <1>8, <3>1
    <3> QED BY <1>5, <1>8, <1>9, <2>2, <3>1, <3>2 DEF Derives
  <2>3. CASE X = "entries"
    <3>1. At(1, "entry")
      BY <1>2, <1>7, <1>8, <2>3
    <3>2. At(2, "expr")
      BY <1>7, <1>8, <3>1
    <3>3. At(3, "term")
      BY <1>7, <1>8, <3>2
    <3> QED BY <1>5, <1>8, <1>9, <2>3, <3>1, <3>2, <3>3 DEF Derives
  <2>4. CASE X = "policy"
    <3>1. At(1, "version") /\ At(1, "entries")
      BY <1>2, <1>7, <1>8, <2>4
    <3>2. At(2, "entry")
      BY <1>7, <1>8, <3>1
    <3>3. At(3, "expr")
      BY <1>7, <1>8, <3>2
    <3>4. At(4, "term")
      BY <1>7, <1>8, <3>3
    <3> QED BY <1>5, <1>8, <1>9, <2>4, <3>1, <3>2, <3>3, <3>4 DEF Derives
  <2>5. CASE X = "$accept"
    <3>1. At(1, "policy")
      BY <1>2, <1>7, <1>8, <2>5
    <3>2. At(2, "version") /\ At(2, "entries")
      BY <1>7, <1>8, <3>1
    <3>3. At(3, "entry")
      BY <1>7, <1>8, <3>2
    <3>4. At(4, "expr")
      BY <1>7, <1>8, <3>3
    <3>5. At(5, "term")
      BY <1>7, <1>8, <3>4
    <3> QED BY <1>5, <1>8, <1>9, <2>5, <3>1, <3>2, <3>3, <3>4, <3>5 DEF Derives
  <2>6. CASE X \notin {"$accept", "policy", "entries", "entry", "expr"}
    BY <1>9, <2>6 DEF Derives
  <2> QED BY <2>1, <2>2, <2>3, <2>4, <2>5, <2>6
<1> QED BY <1>10 DEF At, Predicted, c

\* A state that waits for the left-hand side of a rule may begin with the rule.
LEMMA ClosureExpects ==
  ASSUME NEW K \in SUBSET Items, NEW r \in Rules, NEW k \in 0 .. Size(r) - 1,
         <<r, k>> \in Closure(K), NEW q \in Rules, Lhs(q) = Sym(r, k + 1)
  PROVE  <<q, 0>> \in Closure(K)
<1>1. \A p \in Rules : \A m \in 0 .. Size(p) - 1 :
        <<p, m>> \in K /\ Lhs(q) \in Derives(Sym(p, m + 1)) => <<q, 0>> \in Closure(K)
  <2> SUFFICES ASSUME NEW p \in Rules, NEW m \in 0 .. Size(p) - 1, <<p, m>> \in K,
                      Lhs(q) \in Derives(Sym(p, m + 1))
               PROVE  <<q, 0>> \in Closure(K)
    OBVIOUS
  <2>1. m \in 0 .. Size(p) /\ m < Size(p)
    <3>1. Size(p) \in 1 .. 6
      BY GrammarRules
    <3> QED BY <3>1
  <2>2. AfterDot(<<p, m>>) = Sym(p, m + 1) /\ Sym(p, m + 1) \in Symbols
    BY <2>1, ItemAfterDot
  <2>3. AfterDot(<<p, m>>) # NULL
    BY <2>2, NullAssumption
  <2>4. q \in Predicted[AfterDot(<<p, m>>)]
    BY <2>2, PredictedAll
  <2> QED BY <2>3, <2>4 DEF Closure
<1>2. CASE <<r, k>> \in K
  <2>1. Lhs(q) \in Derives(Sym(r, k + 1))
    BY DerivesItself
  <2> QED BY <1>1, <1>2, <2>1
<1>3. CASE <<r, k>> \notin K
  <2>1. PICK p, h \in Rules : \E m \in 0 .. Size(p) - 1 :
            <<p, m>> \in K /\ Lhs(h) \in Derives(Sym(p, m + 1)) /\ <<r, k>> = <<h, 0>>
    BY <1>3, ClosureItems
  <2>2. PICK m \in 0 .. Size(p) - 1 :
            <<p, m>> \in K /\ Lhs(h) \in Derives(Sym(p, m + 1)) /\ <<r, k>> = <<h, 0>>
    BY <2>1
  <2>3. r = h /\ k = 0
    BY <2>2
  <2>4. Sym(r, 1) = Lhs(q)
    BY <2>3
  <2>5. Lhs(q) \in Derives(Sym(p, m + 1))
    BY <2>2, <2>3, <2>4, DerivesFirst
  <2> QED BY <1>1, <2>2, <2>5
<1> QED BY <1>2, <1>3

\* The state I waits for an X.
Expects(I, X) == \E r \in Rules : \E k \in 0 .. Size(r) - 1 : <<r, k>> \in I /\ Sym(r, k + 1) = X

\* I has the beginnings of all that it waits for.
Begun(I) == \A q \in Rules : Expects(I, Lhs(q)) => <<q, 0>> \in I

\* After X, J has all that I has with the dot before X.
Advances(I, J, X) ==
    \A r \in Rules : \A k \in 0 .. Size(r) - 1 :
        <<r, k>> \in I /\ Sym(r, k + 1) = X => <<r, k + 1>> \in J

\* The states of the parser are such.
LEMMA ClosureBegun ==
  ASSUME NEW K \in SUBSET Items
  PROVE  Begun(Closure(K))
BY ClosureExpects DEF Begun, Expects

\* And so are those after them.
LEMMA GotoAdvances ==
  ASSUME NEW I \in SUBSET Items, NEW X \in Symbols
  PROVE  Begun(Goto(I, X)) /\ Advances(I, Goto(I, X), X)
<1> DEFINE K == {<<i[1], i[2] + 1>> : i \in {j \in I : AfterDot(j) = X}}
<1>1. Goto(I, X) = Closure(K)
  BY DEF Goto
<1>2. K \in SUBSET Items
  <2> SUFFICES ASSUME NEW j \in I, AfterDot(j) = X PROVE <<j[1], j[2] + 1>> \in Items
    OBVIOUS
  <2>1. PICK r \in Rules : \E m \in 0 .. Size(r) : j = <<r, m>>
    BY DEF Items
  <2>2. PICK m \in 0 .. Size(r) : j = <<r, m>>
    BY <2>1
  <2>3. m < Size(r)
    BY <2>2, ItemAfterDot, NullAssumption
  <2>4. m + 1 \in 0 .. Size(r)
    BY <2>3, GrammarRules
  <2> QED BY <2>2, <2>4 DEF Items
<1>3. ASSUME NEW r \in Rules, NEW k \in 0 .. Size(r) - 1, <<r, k>> \in I, Sym(r, k + 1) = X
      PROVE  <<r, k + 1>> \in K
  <2>1. k \in 0 .. Size(r) /\ k < Size(r)
    <3>1. Size(r) \in 1 .. 6
      BY GrammarRules
    <3> QED BY <3>1
  <2>2. AfterDot(<<r, k>>) = X
    BY <1>3, <2>1, ItemAfterDot
  <2> DEFINE i == <<r, k>>
  <2>3. <<i[1], i[2] + 1>> \in K
    BY <1>3, <2>2
  <2> QED BY <2>3
<1>4. K \subseteq Closure(K)
  BY DEF Closure
<1> HIDE DEF K
<1> QED BY <1>1, <1>2, <1>3, <1>4, ClosureBegun DEF Advances

\* The state on top of the stack after X was pushed.
LEMMA PushState ==
  ASSUME NEW s, StackOK(s), NEW X, NEW v
  PROVE  Push(s, X, v)[Len(s) + 1].state = Goto(s[Len(s)].state, X)
<1> DEFINE n == Len(s)
           S == {s[k] : k \in 1 .. n}
           I == Goto(s[n].state, X)
           e == [sym |-> X, val |-> v, state |-> I]
<1>1. s \in Seq(S) /\ n \in Nat
  <2>1. s \in [1 .. n -> S] /\ n \in Nat
    BY DEF StackOK, SequenceOf
  <2> HIDE DEF S
  <2> QED BY <2>1
<1>2. Push(s, X, v) = Append(s, e)
  BY DEF Push
<1>3. e.state = I
  OBVIOUS
<1> HIDE DEF S, I, e
<1>4. Append(s, e)[n + 1] = e
  BY <1>1, AppendProperties
<1> QED BY <1>2, <1>3, <1>4 DEF I

\* Each state of the stack follows from the one below it.
Linked(s) ==
    /\ s[1].state = StartState
    /\ \A j \in 1 .. Len(s) - 1 : s[j + 1].state = Goto(s[j].state, s[j + 1].sym)
    /\ \A j \in 2 .. Len(s) : s[j].sym \in Symbols

\* It does when a symbol goes on top of a lower part of the stack.
LEMMA LinkedPush ==
  ASSUME NEW s, StackOK(s), Linked(s), NEW n \in 1 .. Len(s), NEW X \in Symbols, NEW v
  PROVE  Linked(Push(SubSeq(s, 1, n), X, v))
<1> DEFINE t == SubSeq(s, 1, n)
           p == Push(t, X, v)
<1>1. n \in Nat \ {0} /\ Len(s) \in Nat /\ n <= Len(s)
  BY DEF StackOK
<1>2. StackOK(t) /\ Len(t) = n /\ \A i \in 1 .. n : t[i] = s[i]
  BY StackBelow
<1> HIDE DEF t
<1>3. /\ Len(p) = n + 1
      /\ \A i \in 1 .. n : p[i] = t[i]
      /\ p[n + 1].sym = X
      /\ p[n + 1].state = Goto(t[n].state, X)
  BY <1>2, StackPush, PushState
<1> HIDE DEF p
<1>4. p[1].state = StartState
  BY <1>1, <1>2, <1>3 DEF Linked
<1>5. ASSUME NEW j \in 1 .. Len(p) - 1
      PROVE  p[j + 1].state = Goto(p[j].state, p[j + 1].sym)
  <2>1. j = n \/ (j \in 1 .. n - 1 /\ j \in 1 .. Len(s) - 1 /\ j \in 1 .. n
                  /\ j + 1 \in 1 .. n)
    BY <1>1, <1>3
  <2>2. CASE j = n
    BY <1>1, <1>3, <2>2
  <2>3. CASE j \in 1 .. Len(s) - 1 /\ j \in 1 .. n /\ j + 1 \in 1 .. n
    BY <1>2, <1>3, <2>3 DEF Linked
  <2> QED BY <2>1, <2>2, <2>3
<1>6. ASSUME NEW j \in 2 .. Len(p)
      PROVE  p[j].sym \in Symbols
  <2>1. j = n + 1 \/ (j \in 1 .. n /\ j \in 2 .. Len(s))
    BY <1>1, <1>3
  <2> QED BY <1>2, <1>3, <2>1 DEF Linked
<1> QED BY <1>4, <1>5, <1>6 DEF Linked, p, t

\* No step makes it wrong.
LEMMA LinkedNext == StackOK(stack) /\ Linked(stack) /\ [Next]_vars => Linked(stack)'
<1> SUFFICES ASSUME StackOK(stack), Linked(stack), [Next]_vars
             PROVE  Linked(stack')
  OBVIOUS
<1>1. CASE Shift
  <2>1. look.sym \in Symbols /\ stack' = Push(stack, look.sym, look.val)
    BY <1>1 DEF Shift, Shiftable, Terminals
  <2>2. Len(stack) \in 1 .. Len(stack)
    BY DEF StackOK
  <2>3. SubSeq(stack, 1, Len(stack)) = stack
    <3> DEFINE S == {stack[k] : k \in 1 .. Len(stack)}
    <3>1. stack \in [1 .. Len(stack) -> S] /\ Len(stack) \in Nat
      BY DEF StackOK, SequenceOf
    <3> HIDE DEF S
    <3>2. stack \in Seq(S)
      BY <3>1
    <3> QED BY <3>2
  <2> QED BY <2>1, <2>2, <2>3, LinkedPush
<1>2. ASSUME NEW r \in Complete, Reduce(r) \/ ReduceList(r) \/ ReduceAdd(r)
      PROVE  Linked(stack')
  <2>1. PICK v : stack' = Push(Below(r), Lhs(r), v)
    BY <1>2, SameReduction
  <2>2. r # 1
    BY <1>2, SameReduction
  <2>3. r \in Rules /\ Len(stack) - Size(r) \in 1 .. Len(stack) /\ Lhs(r) \in Symbols
    <3>1. Len(stack) \in Nat
      BY DEF StackOK
    <3> QED BY <2>2, <3>1, CompleteRule, LeftHandSides
  <2>4. Below(r) = SubSeq(stack, 1, Len(stack) - Size(r))
    BY DEF Below, Size
  <2> QED BY <2>1, <2>3, <2>4, LinkedPush
<1>3. CASE Yylex \/ YylexEnd \/ Accept \/ ParseError \/ DaPolicyNewFull
           \/ DaParserCompileFails \/ Done \/ UNCHANGED vars
  <2>1. UNCHANGED stack
    BY <1>3 DEF Yylex, YylexEnd, Scan, Accept, ParseError, DaPolicyNewFull,
                DaParserCompileFails, Done, vars
  <2> QED BY <2>1
<1> QED BY <1>1, <1>2, <1>3 DEF Next, Step

\* The stack always is as the automaton makes it, state by state.
LEMMA ParserLinked == Spec => []Linked(stack)
<1>1. Init => Linked(stack)
  BY DEF Init, Linked
<1> QED BY <1>1, LinkedNext, ParserStack, PTL DEF Spec

\* What is known of its states.
LEMMA LinkedStates ==
  ASSUME StackOK(stack), Linked(stack)
  PROVE  /\ \A j \in 1 .. Len(stack) : Begun(stack[j].state)
         /\ \A j \in 1 .. Len(stack) - 1 :
                Advances(stack[j].state, stack[j + 1].state, stack[j + 1].sym)
         /\ <<1, 0>> \in stack[1].state
<1>1. {<<1, 0>>} \in SUBSET Items
  BY GrammarTable DEF Items, Rules
<1>2. Begun(stack[1].state) /\ <<1, 0>> \in stack[1].state
  <2>1. stack[1].state = Closure({<<1, 0>>})
    BY DEF Linked, StartState
  <2>2. <<1, 0>> \in Closure({<<1, 0>>})
    BY DEF Closure
  <2> QED BY <1>1, <2>1, <2>2, ClosureBegun
<1>3. ASSUME NEW j \in 1 .. Len(stack) - 1
      PROVE  /\ Begun(stack[j + 1].state)
             /\ Advances(stack[j].state, stack[j + 1].state, stack[j + 1].sym)
  <2>1. j \in 1 .. Len(stack) /\ j + 1 \in 2 .. Len(stack)
    BY DEF StackOK
  <2>2. stack[j].state \in SUBSET Items /\ stack[j + 1].sym \in Symbols
    BY <2>1 DEF StackOK, Linked
  <2>3. stack[j + 1].state = Goto(stack[j].state, stack[j + 1].sym)
    BY DEF Linked
  <2> QED BY <2>2, <2>3, GotoAdvances
<1>4. \A j \in 1 .. Len(stack) : j = 1 \/ (j - 1 \in 1 .. Len(stack) - 1 /\ (j - 1) + 1 = j)
  BY DEF StackOK
<1> QED BY <1>2, <1>3, <1>4

\* The left-hand sides.
Heads == {Lhs(r) : r \in Rules}

\* Punctuation is no left-hand side.
LEMMA PunctuationIsTerminal ==
  \A X \in {"semicolon", "=", ")", "|", "&", "$end"} : X \notin Heads
<1>1. ASSUME NEW q \in Rules
      PROVE  Lhs(q) \notin {"semicolon", "=", ")", "|", "&", "$end"}
  <2>1. OneByOne(q)
    BY GrammarRules
  <2> QED BY ONLY <2>1, GrammarTable DEF OneByOne
<1> QED BY <1>1 DEF Heads

\* What a state waits for, other than a left-hand side, can be shifted.
LEMMA ShiftableExpected ==
  ASSUME StackOK(stack), NEW c, c \notin Heads
  PROVE  Expects(State, c) <=> c \in Shiftable
<1>1. Nonterminals = Heads
  BY GrammarRules DEF Nonterminals, Heads, Lhs
<1>2. State \in SUBSET Items
  BY DEF StackOK, State
<1>3. ASSUME Expects(State, c)
      PROVE  c \in Shiftable
  <2>1. PICK r \in Rules : \E k \in 0 .. Size(r) - 1 :
            <<r, k>> \in State /\ Sym(r, k + 1) = c
    BY <1>3 DEF Expects
  <2>2. PICK k \in 0 .. Size(r) - 1 : <<r, k>> \in State /\ Sym(r, k + 1) = c
    BY <2>1
  <2>3. k \in 0 .. Size(r) /\ k < Size(r)
    <3>1. Size(r) \in 1 .. 6
      BY GrammarRules
    <3> QED BY <3>1
  <2>4. AfterDot(<<r, k>>) = c /\ c \in Symbols
    BY <2>2, <2>3, ItemAfterDot
  <2> QED BY <1>1, <2>2, <2>4 DEF Shiftable, Terminals
<1>4. ASSUME c \in Shiftable
      PROVE  Expects(State, c)
  <2>1. PICK i \in State : AfterDot(i) = c
    BY <1>4 DEF Shiftable
  <2>2. PICK r \in Rules : \E k \in 0 .. Size(r) : i = <<r, k>>
    BY <1>2, <2>1 DEF Items
  <2>3. PICK k \in 0 .. Size(r) : i = <<r, k>>
    BY <2>2
  <2>4. c # NULL
    BY <1>4, NullAssumption DEF Shiftable, Terminals
  <2>5. k < Size(r) /\ Sym(r, k + 1) = c
    BY <2>1, <2>3, <2>4, ItemAfterDot
  <2>6. k \in 0 .. Size(r) - 1
    <3>1. Size(r) \in 1 .. 6
      BY GrammarRules
    <3> QED BY <2>5, <3>1
  <2> QED BY <2>3, <2>5, <2>6 DEF Expects
<1> QED BY <1>3, <1>4

\* An operator that may follow an expression can be shifted after it: what the
\* expression is an operand of has to wait.
LEMMA OperatorsShift ==
  ASSUME StackOK(stack), Linked(stack), NEW r \in Complete, r \in {22, 24, 25}
  PROVE  {"|", "&"} \subseteq Shiftable
<1> DEFINE m == Len(stack)
           I == stack[m - 1].state
<1>1. r \in Rules /\ Size(r) \in 1 .. 6 /\ m \in Nat /\ m - Size(r) \in 1 .. m - 1
  BY CompleteRule DEF StackOK
<1>2. Size(r) >= 2 /\ Sym(r, Size(r)) = "expr"
  BY GrammarTable
<1>3. m - 1 \in 1 .. m - 1 /\ m - 1 \in 1 .. m /\ m \in 2 .. m
  BY <1>1
<1>4. stack[m].sym = "expr"
  <2>1. Size(r) \in 1 .. Size(r) /\ (m - Size(r)) + Size(r) = m
    BY <1>1
  <2> QED BY <1>2, <2>1, TopSymbols
<1>5. State = Goto(I, "expr") /\ "expr" \in Symbols
  <2>1. (m - 1) + 1 = m
    BY <1>1
  <2> QED BY <1>3, <1>4, <2>1 DEF Linked, State
<1>6. I \in SUBSET Items
  BY <1>3 DEF StackOK
<1>7. Expects(I, "expr")
  <2> DEFINE i == <<r, Size(r)>>
  <2>1. i \in Goto(I, "expr")
    BY <1>1, <1>5 DEF Complete, Size
  <2> HIDE DEF I, i
  <2>2. PICK p \in Rules :
            \E k \in 1 .. Size(p) :
                /\ <<p, k - 1>> \in I
                /\ Sym(p, k) = "expr"
                /\ \/ i = <<p, k>>
                   \/ /\ k < Size(p)
                      /\ \E q \in Rules : Lhs(q) \in Derives(Sym(p, k + 1)) /\ i = <<q, 0>>
    BY <1>5, <1>6, <2>1, GotoItems
  <2>3. PICK k \in 1 .. Size(p) : <<p, k - 1>> \in I /\ Sym(p, k) = "expr"
    BY <2>2
  <2>4. Size(p) \in 1 .. 6
    BY GrammarRules
  <2>5. k - 1 \in 0 .. Size(p) - 1 /\ (k - 1) + 1 = k
    BY <2>4
  <2> QED BY <2>3, <2>5 DEF Expects
<1>8. ASSUME NEW q \in {24, 25}
      PROVE  <<q, 1>> \in State
  <2>1. q \in Rules /\ Lhs(q) = "expr" /\ Size(q) = 3 /\ Sym(q, 1) = "expr"
    BY GrammarTable DEF Rules
  <2>2. <<q, 0>> \in I
    BY <1>3, <1>7, <2>1, LinkedStates DEF Begun
  <2>3. Advances(I, State, "expr")
    <3>1. (m - 1) + 1 = m
      BY <1>1
    <3> QED BY <1>3, <1>4, <3>1, LinkedStates DEF State
  <2>4. 0 \in 0 .. Size(q) - 1 /\ 0 + 1 = 1
    BY <2>1
  <2> QED BY <2>1, <2>2, <2>3, <2>4 DEF Advances
<1>9. ASSUME NEW q \in {24, 25}
      PROVE  Sym(q, 2) \in Shiftable
  <2>1. q \in Rules /\ 1 \in 0 .. Size(q) - 1 /\ 1 + 1 = 2 /\ Sym(q, 2) \in {"|", "&"}
    BY GrammarTable DEF Rules
  <2>2. Expects(State, Sym(q, 2))
    BY <1>8, <2>1 DEF Expects
  <2>3. Sym(q, 2) \notin Heads
    BY <2>1, PunctuationIsTerminal
  <2> QED BY <2>2, <2>3, ShiftableExpected
<1> QED BY <1>9, GrammarTable

-----------------------------------------------------------------------------
(* What a text means: the grammar and its actions, without the parser.     *)

\* What rule r makes of the values of its right-hand side, lists being sequences.
Meaning(r, v) ==
    CASE Act(r) = "new_list" -> <<v[1]>>
      [] Act(r) = "longer_list" -> Append(v[1], v[3])
      [] Act(r) = "add_first" -> v[1]
      [] Act(r) = "add_third" -> v[3]
      [] Act(r) = "first_value" /\ Lhs(r) = "policy" -> <<>>
      [] OTHER -> Value(Act(r), v)

\* The tokens after position i up to position j are an X with value v.
Span(X, i, j, v) == [sym |-> X, from |-> i, to |-> j, val |-> v]

\* The parts q of a text are a right-hand side of rule r, one after the other.
Fits(r, q) ==
    /\ \A k \in 1 .. Size(r) : q[k].sym = Sym(r, k)
    /\ \A k \in 1 .. Size(r) - 1 : q[k].to = q[k + 1].from

\* S has what the tokens w are, and what the rules make of its elements.
Closed(S, w) ==
    /\ \A k \in 1 .. Len(w) : Span(w[k].sym, k - 1, k, w[k].val) \in S
    /\ \A r \in Rules \ {1} : \A q \in [1 .. Size(r) -> S] :
          LET v == [k \in 1 .. Size(r) |-> q[k].val]
          IN  Fits(r, q) /\ ~Yyerror(Act(r), v) =>
                Span(Lhs(r), q[1].from, q[Size(r)].to, Meaning(r, v)) \in S

\* The tokens w can be read as t: it is in the least of the closed sets.
Reading(t, w) == \A S : Closed(S, w) => t \in S

\* The meaning of the rules that make no new value: lists, and no list.
LEMMA MeaningTable ==
  ASSUME NEW v
  PROVE  /\ Meaning(8, v) = <<v[1]>>
         /\ Meaning(9, v) = Append(v[1], v[3])
         /\ \A r \in {3, 4} : Meaning(r, v) = v[3]
         /\ \A r \in {5, 6} : Meaning(r, v) = v[1]
         /\ Meaning(2, v) = <<>>
<1>1. /\ Meaning(8, v) = <<v[1]>>
      /\ Meaning(9, v) = Append(v[1], v[3])
  BY ActionTable DEF Meaning
<1>2. Meaning(3, v) = v[3] /\ Meaning(4, v) = v[3]
  BY ActionTable DEF Meaning
<1>3. Meaning(5, v) = v[1] /\ Meaning(6, v) = v[1]
  BY ActionTable DEF Meaning
<1>4. Act(2) = "first_value" /\ Lhs(2) = "policy"
  BY ActionTable, GrammarTable
<1>5. Meaning(2, v) = <<>>
  BY ONLY <1>4 DEF Meaning
<1> QED BY <1>1, <1>2, <1>3, <1>5

\* Other rules mean what their actions do.
LEMMA MeaningOther ==
  ASSUME NEW r \in Rules, NEW v, r \notin {1, 2},
         Act(r) \notin {"accept", "add_first", "add_third", "new_list", "longer_list"}
  PROVE  Meaning(r, v) = Value(Act(r), v)
<1>1. ~ (Act(r) = "first_value" /\ Lhs(r) = "policy")
  <2>1. OneByOne(r)
    BY GrammarRules
  <2> QED BY ONLY <2>1, r \notin {1, 2}, GrammarTable, ActionTable DEF OneByOne
<1> QED BY <1>1 DEF Meaning

\* A token can be read as itself.
LEMMA ReadingToken ==
  ASSUME NEW w, NEW k \in 1 .. Len(w)
  PROVE  Reading(Span(w[k].sym, k - 1, k, w[k].val), w)
BY DEF Reading, Closed

\* Where all parts of a right-hand side can be read, so can the whole.
LEMMA ReadingRule ==
  ASSUME NEW w, NEW r \in Rules, r # 1, NEW q, NEW v,
         q = [k \in 1 .. Size(r) |-> q[k]],
         v = [k \in 1 .. Size(r) |-> q[k].val],
         \A k \in 1 .. Size(r) : Reading(q[k], w),
         Fits(r, q), ~Yyerror(Act(r), v)
  PROVE  Reading(Span(Lhs(r), q[1].from, q[Size(r)].to, Meaning(r, v)), w)
<1> DEFINE t == Span(Lhs(r), q[1].from, q[Size(r)].to, Meaning(r, v))
<1> SUFFICES ASSUME NEW S, Closed(S, w) PROVE t \in S
  BY DEF Reading
<1>1. \A k \in 1 .. Size(r) : q[k] \in S
  BY DEF Reading
<1>2. q \in [1 .. Size(r) -> S]
  BY <1>1
<1>3. r \in Rules \ {1}
  OBVIOUS
<1> QED BY <1>2, <1>3 DEF Closed

\* What can be read still can when there is more to be read.
LEMMA ReadingGrows ==
  ASSUME NEW w, NEW u, NEW n \in Nat, Len(w) = n, Len(u) = n + 1,
         \A k \in 1 .. n : u[k] = w[k],
         NEW t, Reading(t, w)
  PROVE  Reading(t, u)
<1> SUFFICES ASSUME NEW S, Closed(S, u) PROVE t \in S
  BY DEF Reading
<1>1. \A k \in 1 .. n : Span(w[k].sym, k - 1, k, w[k].val) \in S
  <2>1. \A k \in 1 .. n : k \in 1 .. n + 1
    OBVIOUS
  <2> QED BY <2>1 DEF Closed
<1>2. Closed(S, w)
  BY <1>1 DEF Closed
<1> QED BY <1>2 DEF Reading

-----------------------------------------------------------------------------
(* The end of the text.                                                    *)

\* The token that was read is the last one; nothing is read after the end; and
\* what was accepted ends with it.
EndInv ==
    /\ look # NULL => /\ Len(tokens) # 0
                      /\ look = Token(tokens[Len(tokens)].sym, tokens[Len(tokens)].val)
    /\ stack[Len(stack)].sym = "$end" =>
          /\ look = NULL /\ State \subseteq {<<1, 2>>}
          /\ Len(tokens) # 0 /\ tokens[Len(tokens)].sym = "$end"
    /\ status = "accepted" \/ policy # NULL => 1 \in Complete

\* The end of the text is a symbol, and not NULL.
LEMMA EndIsSymbol == "$end" \in Symbols /\ "$end" # NULL
<1>1. 1 \in Rules /\ 1 \in 0 .. Size(1) /\ 1 < Size(1) /\ Sym(1, 1 + 1) = "$end"
  BY GrammarTable DEF Rules
<1>2. "$end" \in Symbols
  BY <1>1, ItemAfterDot
<1> QED BY <1>2, NullAssumption

\* Nothing can be shifted after the end.
LEMMA AfterEnd ==
  /\ \A I \in SUBSET Items : Goto(I, "$end") \subseteq {<<1, 2>>}
  /\ AfterDot(<<1, 2>>) = NULL
<1>1. AfterDot(<<1, 2>>) = NULL
  <2>1. 1 \in Rules /\ 2 \in 0 .. Size(1) /\ 2 = Size(1)
    BY GrammarTable DEF Rules
  <2> QED BY <2>1, ItemAfterDot
<1>2. ASSUME NEW I \in SUBSET Items
      PROVE  Goto(I, "$end") \subseteq {<<1, 2>>}
  <2> DEFINE K == {<<i[1], i[2] + 1>> : i \in {j \in I : AfterDot(j) = "$end"}}
  <2>1. ASSUME NEW i \in I, AfterDot(i) = "$end"
        PROVE  <<i[1], i[2] + 1>> = <<1, 2>>
    <3>1. PICK r \in Rules : \E k \in 0 .. Size(r) : i = <<r, k>>
      BY DEF Items
    <3>2. PICK k \in 0 .. Size(r) : i = <<r, k>>
      BY <3>1
    <3>3. k < Size(r) /\ Sym(r, k + 1) = "$end"
      BY <2>1, <3>2, EndIsSymbol, ItemAfterDot
    <3>4. OneByOne(r) /\ Size(r) \in 1 .. 6
      BY GrammarRules
    <3>5. k = 0 \/ k = 1 \/ k = 2 \/ k = 3 \/ k = 4 \/ k = 5
      BY <3>3, <3>4
    <3>6. r = 1 /\ k = 1
      BY ONLY <3>3, <3>4, <3>5, GrammarTable DEF OneByOne
    <3> QED BY <3>2, <3>6
  <2>2. K \subseteq {<<1, 2>>}
    BY <2>1
  <2> HIDE DEF K
  <2>3. \A j \in K : AfterDot(j) = NULL
    BY <1>1, <2>2
  <2>4. Closure(K) = K
    BY <2>3 DEF Closure
  <2> QED BY <2>2, <2>4 DEF Goto, K
<1> QED BY <1>1, <1>2

\* So nothing is read after it.
LEMMA NothingAfterEnd ==
  ASSUME EndInv, Shiftable # {}
  PROVE  stack[Len(stack)].sym # "$end"
<1> SUFFICES ASSUME stack[Len(stack)].sym = "$end" PROVE FALSE
  OBVIOUS
<1>1. State \subseteq {<<1, 2>>}
  BY DEF EndInv
<1>2. \A i \in State : AfterDot(i) \notin Terminals
  BY <1>1, AfterEnd, NullAssumption DEF Terminals
<1> QED BY <1>2 DEF Shiftable

\* A token that is read is remembered as it is.
LEMMA EndScan ==
  ASSUME TokensInv, EndInv, NEW x, NEW sym, NEW val, Scan(x, Token(sym, val))
  PROVE  EndInv'
<1> DEFINE n == Len(tokens)
           e == [sym |-> sym, val |-> val, lexeme |-> x]
<1>1. /\ look = NULL /\ look' = Token(sym, val) /\ Shiftable # {}
      /\ tokens' = Append(tokens, e)
      /\ UNCHANGED <<stack, status, policy>>
  BY DEF Scan, Token
<1>2. n \in Nat /\ Len(tokens') = n + 1 /\ tokens'[n + 1] = e
  <2> HIDE DEF e
  <2>1. n \in Nat /\ SequenceOf(tokens, n)
    BY DEF TokensInv
  <2> HIDE DEF n
  <2>2. SequenceOf(tokens', n + 1)
    BY <1>1, <2>1, SequenceLength
  <2>3. Len(tokens') = n + 1
    BY <2>1, <2>2, SequenceLength
  <2> QED BY <1>1, <2>1, <2>3, AppendProperties DEF n
<1>3. e.sym = sym /\ e.val = val /\ n + 1 # 0
  BY <1>2
<1>4. stack[Len(stack)].sym # "$end"
  BY <1>1, NothingAfterEnd
<1> HIDE DEF n, e
<1>5. look' = Token(tokens'[Len(tokens')].sym, tokens'[Len(tokens')].val)
  BY <1>1, <1>2, <1>3
<1>6. Complete' = Complete
  BY <1>1 DEF Complete, State
<1> QED BY <1>1, <1>2, <1>3, <1>4, <1>5, <1>6 DEF EndInv

\* When the end goes onto the stack, the parser only waits for YYACCEPT.
LEMMA EndShift ==
  ASSUME StackOK(stack), ListInv, EndInv, Shift
  PROVE  EndInv'
<1> DEFINE n == Len(stack)
<1>1. /\ status = "parsing" /\ look # NULL /\ look' = NULL
      /\ look.sym \in Symbols
      /\ stack' = Push(stack, look.sym, look.val)
      /\ UNCHANGED <<tokens, status, policy>>
  BY DEF Shift, Shiftable, Terminals
<1>2. /\ n \in Nat \ {0} /\ Len(stack') = n + 1
      /\ stack'[n + 1].sym = look.sym
  BY <1>1, StackPush DEF StackOK
<1>3. stack'[n + 1].state = Goto(State, look.sym)
  BY <1>1, <1>2, PushState DEF StackOK, State
<1>4. State \in SUBSET Items
  BY <1>2 DEF StackOK, State
<1>5. look.sym = "$end" => State' \subseteq {<<1, 2>>}
  <2>1. State' = stack'[n + 1].state
    BY <1>2 DEF State
  <2> QED BY <1>3, <1>4, <2>1, AfterEnd
<1>6. Len(tokens) # 0 /\ look = Token(tokens[Len(tokens)].sym, tokens[Len(tokens)].val)
  BY <1>1 DEF EndInv
<1>7. look.sym = tokens[Len(tokens)].sym
  BY <1>6 DEF Token
<1>8. status' # "accepted" /\ policy' = NULL
  BY <1>1 DEF ListInv
<1> HIDE DEF n
<1> QED BY <1>1, <1>2, <1>5, <1>6, <1>7, <1>8 DEF EndInv

\* No step makes it wrong.
THEOREM ParserEnd == Spec => []EndInv
<1>1. Init => EndInv
  <2> SUFFICES ASSUME Init PROVE EndInv
    OBVIOUS
  <2>1. look = NULL /\ status = "parsing" /\ policy = NULL
    BY DEF Init
  <2>2. Len(stack) = 1 /\ stack[1].sym = NULL
    BY DEF Init
  <2> QED BY <2>1, <2>2, EndIsSymbol DEF EndInv
<1>2. StackOK(stack) /\ ListInv /\ TokensInv /\ EndInv /\ [Next]_vars => EndInv'
  <2> SUFFICES ASSUME StackOK(stack), ListInv, TokensInv, EndInv, [Next]_vars
               PROVE  EndInv'
    OBVIOUS
  <2>1. CASE Yylex
    <3>1. PICK x : Scan(x, TokenOf(condition, x))
      BY <2>1 DEF Yylex
    <3>2. \E sym, val : TokenOf(condition, x) = Token(sym, val)
      BY DEF TokenOf, Number, Char
    <3> QED BY <3>1, <3>2, EndScan
  <2>2. CASE YylexEnd
    BY <2>2, EndScan DEF YylexEnd
  <2>3. CASE Shift
    BY <2>3, EndShift
  <2>4. ASSUME NEW r \in Complete, Reduce(r) \/ ReduceList(r) \/ ReduceAdd(r)
        PROVE  EndInv'
    <3>1. /\ status = "parsing" /\ UNCHANGED <<tokens, look, status, policy>>
      BY <2>4 DEF Reduce, ReduceList, ReduceAdd, Reducible
    <3>2. r # 1 /\ r \in Rules /\ \E v : stack' = Push(Below(r), Lhs(r), v)
      BY <2>4, SameReduction, CompleteRule
    <3>3. stack'[Len(stack')].sym = Lhs(r)
      BY <3>2, StackReduce
    <3>4. OneByOne(r)
      BY <3>2, GrammarRules
    <3>5. Lhs(r) # "$end"
      BY ONLY <3>4, GrammarTable DEF OneByOne
    <3>6. policy = NULL
      BY <3>1 DEF ListInv
    <3> QED BY <3>1, <3>3, <3>5, <3>6 DEF EndInv
  <2>5. CASE Accept \/ DaPolicyNewFull
    <3>1. UNCHANGED <<tokens, look, stack>> /\ (1 \in Complete \/ status = "accepted")
      BY <2>5 DEF Accept, DaPolicyNewFull
    <3>2. Complete' = Complete /\ State' = State
      BY <3>1 DEF Complete, State
    <3>3. 1 \in Complete
      BY <3>1 DEF EndInv
    <3> QED BY <3>1, <3>2, <3>3 DEF EndInv
  <2>6. CASE ParseError \/ DaParserCompileFails \/ Done \/ UNCHANGED vars
    <3>1. /\ UNCHANGED <<tokens, look, stack, policy>>
          /\ UNCHANGED status \/ status' \in {"failed", "deleted"}
      BY <2>6 DEF ParseError, DaParserCompileFails, Done, vars
    <3>2. Complete' = Complete /\ State' = State
      BY <3>1 DEF Complete, State
    <3> QED BY <3>1, <3>2 DEF EndInv
  <2> QED BY <2>1, <2>2, <2>3, <2>4, <2>5, <2>6 DEF Next, Step
<1> QED BY <1>1, <1>2, ParserStack, ParserList, ParserTokens, PTL DEF Spec

-----------------------------------------------------------------------------
(* The readings in which operators extend to the right.                    *)

Operators == {"|", "&"}

\* An expression that cannot be mistaken for a longer one may be an operand.
Made(r) == {Lhs(r)} \cup (IF r \in {21, 23} THEN {"operand"} ELSE {})

\* To the left of an operator stands an operand.  What stands to its right, and what
\* follows "!", is any expression: it extends as far as it can.
Role(r, k) == IF r \in {24, 25} /\ k = 1 THEN "operand" ELSE Sym(r, k)

RightFits(r, q) ==
    /\ \A k \in 1 .. Size(r) : q[k].sym = Role(r, k)
    /\ \A k \in 1 .. Size(r) - 1 : q[k].to = q[k + 1].from

RightClosed(S, w) ==
    /\ \A k \in 1 .. Len(w) : Span(w[k].sym, k - 1, k, w[k].val) \in S
    /\ \A r \in Rules \ {1} : \A q \in [1 .. Size(r) -> S] :
          LET v == [k \in 1 .. Size(r) |-> q[k].val]
          IN  RightFits(r, q) /\ ~Yyerror(Act(r), v) =>
                \A X \in Made(r) :
                    Span(X, q[1].from, q[Size(r)].to, Meaning(r, v)) \in S

\* The tokens w can be read as t in this way.
RightReading(t, w) == \A S : RightClosed(S, w) => t \in S

\* The lemmas about readings hold for these: of a token,
LEMMA RightToken ==
  ASSUME NEW w, NEW k \in 1 .. Len(w)
  PROVE  RightReading(Span(w[k].sym, k - 1, k, w[k].val), w)
BY DEF RightReading, RightClosed

\* of the right-hand side of a rule,
LEMMA RightRule ==
  ASSUME NEW w, NEW r \in Rules, r # 1, NEW q, NEW v,
         q = [k \in 1 .. Size(r) |-> q[k]],
         v = [k \in 1 .. Size(r) |-> q[k].val],
         \A k \in 1 .. Size(r) : RightReading(q[k], w),
         RightFits(r, q), ~Yyerror(Act(r), v), NEW X \in Made(r)
  PROVE  RightReading(Span(X, q[1].from, q[Size(r)].to, Meaning(r, v)), w)
<1> DEFINE t == Span(X, q[1].from, q[Size(r)].to, Meaning(r, v))
<1> SUFFICES ASSUME NEW S, RightClosed(S, w) PROVE t \in S
  BY DEF RightReading
<1>1. \A k \in 1 .. Size(r) : q[k] \in S
  BY DEF RightReading
<1>2. q \in [1 .. Size(r) -> S]
  BY <1>1
<1>3. r \in Rules \ {1}
  OBVIOUS
<1> QED BY <1>2, <1>3 DEF RightClosed

\* and of a longer text.
LEMMA RightGrows ==
  ASSUME NEW w, NEW u, NEW n \in Nat, Len(w) = n, Len(u) = n + 1,
         \A k \in 1 .. n : u[k] = w[k],
         NEW t, RightReading(t, w)
  PROVE  RightReading(t, u)
<1> SUFFICES ASSUME NEW S, RightClosed(S, u) PROVE t \in S
  BY DEF RightReading
<1>1. \A k \in 1 .. n : Span(w[k].sym, k - 1, k, w[k].val) \in S
  <2>1. \A k \in 1 .. n : k \in 1 .. n + 1
    OBVIOUS
  <2> QED BY <2>1 DEF RightClosed
<1>2. RightClosed(S, w)
  BY <1>1 DEF RightClosed
<1> QED BY <1>2 DEF RightReading

\* Operands are not symbols of the grammar.
LEMMA NoOperand ==
  \A r \in Rules : Lhs(r) # "operand" /\ \A k \in 1 .. Size(r) : Sym(r, k) # "operand"
<1> SUFFICES ASSUME NEW r \in Rules, NEW k \in 1 .. Size(r)
             PROVE  Lhs(r) # "operand" /\ Sym(r, k) # "operand"
  <2>1. \A r \in Rules : 1 \in 1 .. Size(r)
    BY GrammarRules
  <2> QED BY <2>1
<1>1. OneByOne(r) /\ Size(r) \in 1 .. 6
  BY GrammarRules
<1>2. k = 1 \/ k = 2 \/ k = 3 \/ k = 4 \/ k = 5 \/ k = 6
  BY <1>1
<1>3. k <= Size(r)
  OBVIOUS
<1>4. Size(r) < 2 => k = 1
  BY <1>1
<1> QED
  <2>1. Lhs(r) # "operand"
    BY ONLY <1>1, GrammarTable DEF OneByOne
  <2>2. /\ Size(r) < 2 => k = 1 
        /\ Size(r) < 3 => k = 1 \/ k = 2
        /\ Size(r) < 4 => k = 1 \/ k = 2 \/ k = 3
        /\ Size(r) < 5 => k = 1 \/ k = 2 \/ k = 3 \/ k = 4
    BY <1>1, <1>2
  <2>3. Sym(r, k) # "operand"
    BY ONLY <1>1, <1>2, <2>2, GrammarTable DEF OneByOne
  <2> QED BY <2>1, <2>3

\* Operators are between expressions, and operands are expressions.
LEMMA OperatorRules ==
  /\ \A r \in {24, 25} : /\ Size(r) = 3 /\ Lhs(r) = "expr"
                         /\ Sym(r, 1) = "expr" /\ Sym(r, 2) \in Operators
                         /\ Sym(r, 3) = "expr"
  /\ \A r \in {21, 23} : Lhs(r) = "expr"
BY GrammarTable DEF Operators

\* S, and what is an operand when S has the expressions.
WithOperands(S) ==
    {x \in S : x.sym # "operand"}
        \cup {Span("operand", x.from, x.to, x.val) :
                 x \in {y \in S : y = Span("expr", y.from, y.to, y.val)}}

\* It is closed if S is: only the places of operators are restricted.
LEMMA OperandsClosed ==
  ASSUME NEW w, \A k \in 1 .. Len(w) : w[k].sym # "operand",
         NEW S, Closed(S, w)
  PROVE  RightClosed(WithOperands(S), w)
<1> DEFINE E == {x \in S : x = Span("expr", x.from, x.to, x.val)}
           T == {x \in S : x.sym # "operand"}
                    \cup {Span("operand", x.from, x.to, x.val) : x \in E}
<1>1. ASSUME NEW k \in 1 .. Len(w)
      PROVE  Span(w[k].sym, k - 1, k, w[k].val) \in T
  <2>1. Span(w[k].sym, k - 1, k, w[k].val) \in S
    BY DEF Closed
  <2>2. Span(w[k].sym, k - 1, k, w[k].val).sym # "operand"
    BY DEF Span
  <2> QED BY <2>1, <2>2
<1>2. ASSUME NEW r \in Rules \ {1}, NEW q \in [1 .. Size(r) -> T], NEW v,
             v = [k \in 1 .. Size(r) |-> q[k].val],
             RightFits(r, q), ~Yyerror(Act(r), v), NEW X \in Made(r)
      PROVE  Span(X, q[1].from, q[Size(r)].to, Meaning(r, v)) \in T
  <2> DEFINE Plain(x) == IF x.sym = "operand" THEN Span("expr", x.from, x.to, x.val) ELSE x
             p == [k \in 1 .. Size(r) |-> Plain(q[k])]
             e == Span(Lhs(r), q[1].from, q[Size(r)].to, Meaning(r, v))
  <2>1. Size(r) \in 1 .. 6
    BY GrammarRules
  <2>2. ASSUME NEW x \in T
        PROVE  /\ Plain(x) \in S
               /\ Plain(x).from = x.from /\ Plain(x).to = x.to /\ Plain(x).val = x.val
    <3>1. CASE x.sym = "operand"
      <4>1. PICK y \in E : x = Span("operand", y.from, y.to, y.val)
        BY <3>1
      <4>2. y \in S /\ y = Span("expr", y.from, y.to, y.val)
        OBVIOUS
      <4>3. x.from = y.from /\ x.to = y.to /\ x.val = y.val
        BY <4>1 DEF Span
      <4>4. Plain(x) = y
        BY <3>1, <4>2, <4>3
      <4> HIDE DEF Plain
      <4> QED BY <4>2, <4>3, <4>4
    <3>2. CASE x.sym # "operand"
      <4>1. x \notin {Span("operand", y.from, y.to, y.val) : y \in E}
        BY <3>2 DEF Span
      <4> QED BY <3>2, <4>1
    <3> QED BY <3>1, <3>2
  <2>3. ASSUME NEW k \in 1 .. Size(r)
        PROVE  Plain(q[k]).sym = Sym(r, k)
    <3> HIDE DEF T
    <3>1. q[k].sym = Role(r, k) /\ Sym(r, k) # "operand"
      BY <1>2, NoOperand DEF RightFits
    <3>2. CASE r \in {24, 25} /\ k = 1
      <4>1. Sym(r, k) = "expr" /\ Role(r, k) = "operand"
        BY <3>2, OperatorRules DEF Role
      <4> QED BY <3>1, <4>1 DEF Span
    <3>3. CASE ~ (r \in {24, 25} /\ k = 1)
      BY <3>1, <3>3 DEF Role
    <3> QED BY <3>2, <3>3
  <2> HIDE DEF T, Plain
  <2>4. \A k \in 1 .. Size(r) : p[k] = Plain(q[k]) /\ q[k] \in T
    OBVIOUS
  <2>5. p \in [1 .. Size(r) -> S]
    BY <2>2
  <2>6. v = [k \in 1 .. Size(r) |-> p[k].val]
    BY <1>2, <2>2
  <2> HIDE DEF p
  <2>7. Fits(r, p)
    <3>1. ASSUME NEW k \in 1 .. Size(r) - 1
          PROVE  p[k].to = p[k + 1].from
      <4>1. k \in 1 .. Size(r) /\ k + 1 \in 1 .. Size(r)
        BY <2>1
      <4> QED BY <1>2, <2>2, <2>4, <4>1 DEF RightFits
    <3> QED BY <2>3, <2>4, <3>1 DEF Fits
  <2>8. Span(Lhs(r), p[1].from, p[Size(r)].to, Meaning(r, v)) \in S
    BY <1>2, <2>5, <2>6, <2>7 DEF Closed
  <2>9. e \in S
    <3>1. 1 \in 1 .. Size(r) /\ Size(r) \in 1 .. Size(r)
      BY <2>1
    <3> QED BY <2>2, <2>4, <2>8, <3>1
  <2>10. CASE X = Lhs(r)
    <3>1. e.sym # "operand"
      BY NoOperand DEF Span
    <3> HIDE DEF e
    <3>2. e \in T
      BY <2>9, <3>1 DEF T
    <3> QED BY <2>10, <3>2 DEF e
  <2>11. CASE X # Lhs(r)
    <3>1. r \in {21, 23} /\ X = "operand"
      BY <2>11 DEF Made
    <3>2. Lhs(r) = "expr"
      BY <3>1, OperatorRules
    <3>3. e.from = q[1].from /\ e.to = q[Size(r)].to /\ e.val = Meaning(r, v)
      BY DEF Span
    <3>4. e = Span("expr", e.from, e.to, e.val)
      BY <3>2, <3>3
    <3>5. Span(X, q[1].from, q[Size(r)].to, Meaning(r, v))
            = Span("operand", e.from, e.to, e.val)
      BY <3>1, <3>3
    <3> HIDE DEF e
    <3>6. e \in E
      BY <2>9, <3>4
    <3> QED BY <3>5, <3>6 DEF T
  <2> QED BY <2>10, <2>11
<1>3. WithOperands(S) = T
  BY DEF WithOperands
<1> HIDE DEF T
<1> QED BY <1>1, <1>2, <1>3 DEF RightClosed

\* So these readings are readings.
LEMMA RightIsReading ==
  ASSUME NEW w, \A k \in 1 .. Len(w) : w[k].sym # "operand",
         NEW t, RightReading(t, w), t.sym # "operand"
  PROVE  Reading(t, w)
<1> SUFFICES ASSUME NEW S, Closed(S, w) PROVE t \in S
  BY DEF Reading
<1>1. t \in WithOperands(S)
  BY OperandsClosed DEF RightReading
<1>2. \A x : t # Span("operand", x.from, x.to, x.val)
  BY DEF Span
<1> QED BY <1>1, <1>2 DEF WithOperands

-----------------------------------------------------------------------------
(* What is on the stack can be read from the text.                         *)

\* The list of the parser.
List == [k \in 1 .. Allocated |-> cells[k].data]

\* What the symbol at position j of the stack s stands for.
Meant(s, list, j) == IF s[j].sym \in {"entries", "policy"} THEN list ELSE s[j].val

\* The position in the text up to which it is on the stack.
Taken == IF look = NULL THEN Len(tokens) ELSE Len(tokens) - 1

\* What may follow the symbol at position j of the stack s, on top of which one of
\* next comes.
Follows(s, j, next) == IF j < Len(s) THEN {s[j + 1].sym} ELSE next

\* An X can be read as an operand too if an operator may follow it.
Roles(X, next) ==
    {X} \cup (IF X = "expr" /\ next \cap Operators # {} THEN {"operand"} ELSE {})

\* The symbols of the stack s can be read from the tokens w, each one from where the
\* one below ends.
Cuts(cut, s, list, w, taken, next) ==
    /\ cut[1] = 0
    /\ cut[Len(s)] = taken
    /\ \A j \in 2 .. Len(s) : \A X \in Roles(s[j].sym, Follows(s, j, next)) :
          RightReading(Span(X, cut[j - 1], cut[j], Meant(s, list, j)), w)
    /\ s[Len(s)].sym = "$end" => cut[Len(s) - 1] = Len(w) - 1

\* The token that was read, or the operators, any of which may come.
Ahead == IF look = NULL THEN Operators ELSE {look.sym}

ReadInv == \E cut : Cuts(cut, stack, List, tokens, Taken, Ahead)

\* The stack t has a symbol in place of what s has above position n, and it can be
\* read from where the symbol below it ends.
Continues(cut, s, list, old, before, t, longer, taken, next, n, w) ==
    /\ n \in Nat \ {0} /\ Len(s) \in Nat /\ n <= Len(s) /\ Len(t) = n + 1
    /\ \A i \in 1 .. n : t[i] = s[i]
    /\ Cuts(cut, s, list, w, old, before)
    /\ \A j \in 2 .. n : Meant(t, longer, j) = Meant(s, list, j)
    /\ Roles(s[n].sym, {t[n + 1].sym}) \subseteq Roles(s[n].sym, Follows(s, n, before))
    /\ \A X \in Roles(t[n + 1].sym, next) :
          RightReading(Span(X, cut[n], taken, Meant(t, longer, n + 1)), w)
    /\ t[n + 1].sym = "$end" => cut[n] = Len(w) - 1

\* Then all its symbols can be read.
LEMMA CutsPush ==
  ASSUME NEW cut, NEW s, NEW list, NEW old, NEW before, NEW t, NEW longer, NEW taken,
         NEW next, NEW n, NEW w,
         Continues(cut, s, list, old, before, t, longer, taken, next, n, w)
  PROVE  \E c : Cuts(c, t, longer, w, taken, next)
<1> USE DEF Continues
<1> DEFINE c == [j \in 1 .. n + 1 |-> IF j = n + 1 THEN taken ELSE cut[j]]
<1>1. c[n + 1] = taken /\ \A j \in 1 .. n : c[j] = cut[j]
  <2>1. n + 1 \in 1 .. n + 1 /\ \A j \in 1 .. n : j \in 1 .. n + 1 /\ j # n + 1
    OBVIOUS
  <2> QED BY <2>1
<1> HIDE DEF c
<1>2. c[1] = 0 /\ c[n] = cut[n]
  <2>1. 1 \in 1 .. n /\ n \in 1 .. n
    OBVIOUS
  <2> QED BY <1>1, <2>1 DEF Cuts
<1>3. ASSUME NEW j \in 2 .. n + 1, NEW X \in Roles(t[j].sym, Follows(t, j, next))
      PROVE  RightReading(Span(X, c[j - 1], c[j], Meant(t, longer, j)), w)
  <2>1. CASE j = n + 1
    <3>1. j - 1 = n /\ Follows(t, j, next) = next
      BY <2>1 DEF Follows
    <3> QED BY <1>1, <1>2, <1>3, <2>1, <3>1
  <2>2. CASE j # n + 1
    <3>1. j \in 1 .. n /\ j \in 2 .. n /\ j - 1 \in 1 .. n /\ j \in 2 .. Len(s)
      BY <2>2
    <3>3. t[j].sym = s[j].sym /\ c[j - 1] = cut[j - 1] /\ c[j] = cut[j]
      BY <1>1, <3>1
    <3>5. X \in Roles(s[j].sym, Follows(s, j, before))
      <4>1. Follows(t, j, next) = {t[j + 1].sym}
        BY <3>1 DEF Follows
      <4>2. CASE j = n
        BY <1>3, <3>3, <4>1, <4>2
      <4>3. CASE j # n
        <5>1. j + 1 \in 1 .. n /\ j < Len(s)
          BY <3>1, <4>3
        <5>2. Follows(s, j, before) = {t[j + 1].sym}
          BY <5>1 DEF Follows
        <5> QED BY <1>3, <3>3, <4>1, <5>2
      <4> QED BY <4>2, <4>3
    <3>2. RightReading(Span(X, cut[j - 1], cut[j], Meant(s, list, j)), w)
      BY <3>1, <3>5 DEF Cuts
    <3>4. Meant(t, longer, j) = Meant(s, list, j)
      BY <3>1
    <3> QED BY <3>2, <3>3, <3>4
  <2> QED BY <2>1, <2>2
<1>4. n + 1 - 1 = n
  OBVIOUS
<1>5. Cuts(c, t, longer, w, taken, next)
  BY <1>1, <1>2, <1>3, <1>4 DEF Cuts
<1> QED BY <1>5

\* A token that is read stays to be taken.
LEMMA ReadScan ==
  ASSUME StackOK(stack), TokensInv, EndInv, ReadInv,
         NEW x, NEW token, Scan(x, token), token # NULL
  PROVE  ReadInv'
<1> DEFINE n == Len(tokens)
           e == [sym |-> token.sym, val |-> token.val, lexeme |-> x]
<1>1. /\ look = NULL /\ look' = token /\ Shiftable # {}
      /\ tokens' = Append(tokens, e) /\ UNCHANGED <<stack, cells, freed>>
  BY DEF Scan
<1>2. n \in Nat /\ Len(tokens') = n + 1 /\ \A k \in 1 .. n : tokens'[k] = tokens[k]
  <2> HIDE DEF e
  <2>1. n \in Nat /\ SequenceOf(tokens, n) /\ DOMAIN tokens = 1 .. n
    BY DEF TokensInv, SequenceOf
  <2> HIDE DEF n
  <2>2. SequenceOf(tokens', n + 1)
    BY <1>1, <2>1, SequenceLength
  <2>3. Len(tokens') = n + 1
    BY <2>1, <2>2, SequenceLength
  <2> QED BY <1>1, <2>1, <2>3, AppendProperties DEF n
<1> HIDE DEF e
<1>3. PICK cut : Cuts(cut, stack, List, tokens, Taken, Operators)
  BY <1>1 DEF ReadInv, Ahead
<1>4. Taken = n /\ Taken' = n
  BY <1>1, <1>2 DEF Taken
<1>5. List' = List
  BY <1>1 DEF List, Allocated
<1>6. stack[Len(stack)].sym # "$end"
  BY <1>1, NothingAfterEnd
<1>7. \A t : RightReading(t, tokens) => RightReading(t, tokens')
  BY <1>2, RightGrows
<1> HIDE DEF n
<1>8. Cuts(cut, stack, List, tokens', Taken, Ahead')
  <2>1. \A X : Roles(X, Ahead') \subseteq Roles(X, Operators)
    BY DEF Roles
  <2>2. \A j \in 2 .. Len(stack) : Roles(stack[j].sym, Follows(stack, j, Ahead'))
                \subseteq Roles(stack[j].sym, Follows(stack, j, Operators))
    BY <2>1 DEF Follows
  <2> QED BY <1>3, <1>6, <1>7, <2>2 DEF Cuts
<1>9. Cuts(cut, stack', List', tokens', Taken', Ahead')
  BY <1>1, <1>4, <1>5, <1>8
<1> QED BY <1>9 DEF ReadInv

\* A token goes onto the stack from the text.
LEMMA ReadShift ==
  ASSUME StackOK(stack), TokensInv, EndInv, ReadInv, Shift
  PROVE  ReadInv'
<1> DEFINE n == Len(stack)
           l == Len(tokens)
<1>1. /\ look # NULL /\ look' = NULL /\ look.sym \in Terminals
      /\ stack' = Push(stack, look.sym, look.val)
      /\ UNCHANGED <<tokens, cells, freed>>
  BY DEF Shift, Shiftable
<1>2. look.sym \in Symbols /\ look.sym \notin {"entries", "policy", "expr"}
  <2>1. \A r \in Rules : Lhs(r) \in Nonterminals
    BY GrammarRules DEF Nonterminals, Lhs
  <2>2. {"entries", "policy", "expr"} \subseteq Nonterminals
    BY <2>1, GrammarTable DEF Rules
  <2> QED BY <1>1, <2>2 DEF Terminals
<1>3. /\ n \in Nat \ {0} /\ Len(stack') = n + 1 /\ \A i \in 1 .. n : stack'[i] = stack[i]
      /\ stack'[n + 1].sym = look.sym /\ stack'[n + 1].val = look.val
  BY <1>1, <1>2, StackPush DEF StackOK
<1>4. /\ l \in Nat /\ l # 0 /\ l \in 1 .. l
      /\ look.sym = tokens[l].sym /\ look.val = tokens[l].val
  <2>1. l \in Nat /\ l # 0 /\ look = Token(tokens[l].sym, tokens[l].val)
    BY <1>1 DEF TokensInv, EndInv
  <2> QED BY <2>1 DEF Token
<1>5. PICK cut : Cuts(cut, stack, List, tokens, Taken, {look.sym})
  BY <1>1 DEF ReadInv, Ahead
<1>6. Taken = l - 1 /\ Taken' = l /\ List' = List
  BY <1>1 DEF Taken, List, Allocated
<1>7. cut[n] = l - 1
  BY <1>5, <1>6 DEF Cuts
<1> HIDE DEF l
<1>8. Meant(stack', List', n + 1) = look.val
  BY <1>2, <1>3 DEF Meant
<1>9. ASSUME NEW X \in Roles(stack'[n + 1].sym, Ahead')
      PROVE  RightReading(Span(X, cut[n], l, Meant(stack', List', n + 1)), tokens)
  <2>1. RightReading(Span(tokens[l].sym, l - 1, l, tokens[l].val), tokens)
    BY <1>4, RightToken DEF l
  <2>2. X = look.sym
    BY <1>2, <1>3, <1>9 DEF Roles
  <2> QED BY <1>3, <1>4, <1>7, <1>8, <2>1, <2>2
<1>10. \A j \in 2 .. n : Meant(stack', List', j) = Meant(stack, List, j)
  <2>1. \A j \in 2 .. n : j \in 1 .. n
    OBVIOUS
  <2> QED BY <1>3, <1>6, <2>1 DEF Meant
<1>11. Roles(stack[n].sym, {stack'[n + 1].sym})
            \subseteq Roles(stack[n].sym, Follows(stack, n, {look.sym}))
  BY <1>3 DEF Follows
<1>12. \A X \in Roles(stack'[n + 1].sym, Ahead') :
            RightReading(Span(X, cut[n], l, Meant(stack', List', n + 1)), tokens)
  BY <1>9
<1>13. n \in Nat \ {0} /\ n <= n
  BY <1>3
<1>14. Continues(cut, stack, List, Taken, {look.sym}, stack', List', l, Ahead', n,
                 tokens)
  BY ONLY <1>3, <1>5, <1>7, <1>10, <1>11, <1>12, <1>13 DEF Continues, l
<1>15. \E c : Cuts(c, stack', List', tokens, l, Ahead')
  BY <1>14, CutsPush
<1> QED BY <1>1, <1>6, <1>15 DEF ReadInv

\* What the symbols of rule r on the stack stand for.
Stands(r) == [k \in 1 .. Size(r) |-> Meant(stack, List, Len(stack) - Size(r) + k)]

\* A right-hand side on top of the stack can be read as the left-hand side.
LEMMA ReadTop ==
  ASSUME StackOK(stack), NEW r \in Complete, r # 1,
         NEW cut, Cuts(cut, stack, List, tokens, Taken, Ahead), ~Yyerror(Act(r), Stands(r)),
         NEW X \in Made(r)
  PROVE  RightReading(Span(X, cut[Len(stack) - Size(r)], Taken, Meaning(r, Stands(r))),
                      tokens)
<1> DEFINE m == Len(stack)
           size == Size(r)
           n == m - size
           Part(R, j) == Span(R, cut[j - 1], cut[j], Meant(stack, List, j))
           q == [k \in 1 .. size |-> Part(Role(r, k), n + k)]
           v == Stands(r)
<1>1. /\ r \in Rules /\ size \in 1 .. 6
      /\ m \in Nat /\ n \in 1 .. m - 1
  BY CompleteRule DEF StackOK
<1>2. \A R, j : /\ Part(R, j).sym = R /\ Part(R, j).val = Meant(stack, List, j)
              /\ Part(R, j).from = cut[j - 1] /\ Part(R, j).to = cut[j]
  BY DEF Span
<1>3. ASSUME NEW k \in 1 .. size
      PROVE  /\ RightReading(q[k], tokens)
             /\ q[k].sym = Role(r, k) /\ q[k].val = v[k]
             /\ q[k].from = cut[(n + k) - 1] /\ q[k].to = cut[n + k]
  <2> DEFINE i == n + k
  <2> SUFFICES /\ RightReading(q[k], tokens)
               /\ q[k].sym = Role(r, k) /\ q[k].val = v[k]
               /\ q[k].from = cut[i - 1] /\ q[k].to = cut[i]
    OBVIOUS
  <2>1. i \in 2 .. m
    BY <1>1
  <2>2. q[k] = Part(Role(r, k), i)
    OBVIOUS
  <2>3. stack[i].sym = Sym(r, k)
    BY TopSymbols
  <2>4. v[k] = Meant(stack, List, i)
    BY DEF Stands
  <2>6. Role(r, k) \in Roles(stack[i].sym, Follows(stack, i, Ahead))
    <3>1. CASE r \in {24, 25} /\ k = 1
      <4>1. i + 1 = n + 2 /\ i < m /\ 2 \in 1 .. size
        BY <1>1, <3>1, OperatorRules
      <4>2. stack[i + 1].sym \in Operators
        BY <3>1, <4>1, OperatorRules, TopSymbols
      <4> QED BY <2>3, <3>1, <4>1, <4>2, OperatorRules DEF Role, Roles, Follows
    <3>2. CASE ~ (r \in {24, 25} /\ k = 1)
      BY <2>3, <3>2 DEF Role, Roles
    <3> QED BY <3>1, <3>2
  <2> HIDE DEF q, v, i
  <2>5. RightReading(Part(Role(r, k), i), tokens)
    BY <2>1, <2>6 DEF Cuts
  <2> HIDE DEF Part
  <2> QED BY <1>2, <2>2, <2>3, <2>4, <2>5
<1>4. q = [k \in 1 .. size |-> q[k]]
  OBVIOUS
<1>5. v = [k \in 1 .. size |-> v[k]]
  BY DEF Stands
<1>6. v = [k \in 1 .. size |-> q[k].val]
  <2> HIDE DEF q, v
  <2> QED BY <1>3, <1>5
<1> HIDE DEF q, v
<1>7. RightFits(r, q)
  <2>1. ASSUME NEW k \in 1 .. size - 1
        PROVE  q[k].to = q[k + 1].from
    <3>1. k \in 1 .. size /\ k + 1 \in 1 .. size
      BY <1>1
    <3>2. n \in Nat /\ k \in Nat
      BY <1>1
    <3>3. (n + (k + 1)) - 1 = n + k
      BY <3>2
    <3>4. q[k].to = cut[n + k] /\ q[k + 1].from = cut[(n + (k + 1)) - 1]
      BY <1>3, <3>1
    <3> QED BY <3>3, <3>4
  <2> QED BY <1>3, <2>1 DEF RightFits
<1>8. RightReading(Span(X, q[1].from, q[size].to, Meaning(r, v)), tokens)
  BY <1>1, <1>3, <1>4, <1>6, <1>7, RightRule DEF v
<1>9. q[1].from = cut[n] /\ q[size].to = Taken
  <2>1. 1 \in 1 .. size /\ size \in 1 .. size /\ (n + 1) - 1 = n /\ n + size = m
    BY <1>1
  <2> QED BY <1>3, <2>1 DEF Cuts
<1> QED BY <1>8, <1>9 DEF v

\* Any reduction that puts onto the stack what its rule means.
LEMMA ReadPush ==
  ASSUME StackOK(stack), Linked(stack), ReadInv,
         NEW r \in Complete, r # 1, Reducible(r),
         NEW v, stack' = Push(Below(r), Lhs(r), v), UNCHANGED <<look, tokens>>,
         ~Yyerror(Act(r), Stands(r)),
         \/ Lhs(r) \in {"entries", "policy"} /\ List' = Meaning(r, Stands(r))
         \/ Lhs(r) \notin {"entries", "policy"} /\ v = Meaning(r, Stands(r)),
         \/ List' = List
         \/ \A j \in 2 .. Len(stack) - Size(r) : stack[j].sym \notin {"entries", "policy"}
  PROVE  ReadInv'
<1> DEFINE m == Len(stack)
           n == Len(stack) - Size(r)
<1>1. /\ m \in Nat /\ n \in Nat \ {0} /\ n <= m /\ Len(stack') = n + 1
      /\ \A i \in 1 .. n : stack'[i] = stack[i]
      /\ stack'[n + 1].sym = Lhs(r) /\ stack'[n + 1].val = v
  BY StackReduce DEF StackOK
<1>2. PICK cut : Cuts(cut, stack, List, tokens, Taken, Ahead)
  BY DEF ReadInv
<1>3. \A X \in Made(r) :
        RightReading(Span(X, cut[n], Taken, Meaning(r, Stands(r))), tokens)
  BY <1>2, ReadTop
<1>4. Taken' = Taken /\ Ahead' = Ahead
  BY DEF Taken, Ahead
<1>5. Meant(stack', List', n + 1) = Meaning(r, Stands(r))
  BY <1>1 DEF Meant
<1>6. \A j \in 2 .. n : Meant(stack', List', j) = Meant(stack, List, j)
  <2>1. \A j \in 2 .. n : j \in 1 .. n
    OBVIOUS
  <2> QED BY <1>1, <2>1 DEF Meant
<1>7. /\ Lhs(r) # "$end" /\ Lhs(r) \notin Operators
      /\ Lhs(r) = "expr" => r \in {21, 23} \/ r \in {22, 24, 25}
  <2>1. OneByOne(r)
    BY CompleteRule, GrammarRules
  <2> QED BY ONLY <2>1, GrammarTable DEF OneByOne, Operators
<1>10. Roles(Lhs(r), Ahead) \subseteq Made(r)
  <2>1. CASE r \in {22, 24, 25}
    <3>1. Operators \subseteq Shiftable /\ Operators # {}
      BY <2>1, OperatorsShift DEF Operators
    <3>2. look # NULL /\ look.sym \notin Shiftable
      BY <3>1 DEF Reducible
    <3>3. Ahead \cap Operators = {}
      BY <3>1, <3>2 DEF Ahead
    <3> QED BY <3>3 DEF Roles, Made
  <2>2. CASE r \in {21, 23} \/ Lhs(r) # "expr"
    BY <2>2 DEF Roles, Made
  <2> QED BY <1>7, <2>1, <2>2
<1>11. Roles(stack[n].sym, {stack'[n + 1].sym})
            \subseteq Roles(stack[n].sym, Follows(stack, n, Ahead))
  BY <1>1, <1>7 DEF Roles
<1>8. Continues(cut, stack, List, Taken, Ahead, stack', List', Taken, Ahead, n, tokens)
  BY <1>1, <1>2, <1>3, <1>5, <1>6, <1>7, <1>10, <1>11 DEF Continues
<1>9. \E c : Cuts(c, stack', List', tokens, Taken, Ahead)
  BY <1>8, CutsPush
<1> QED BY <1>4, <1>9 DEF ReadInv

\* An action that only makes a value makes what its rule means.
LEMMA ReadReduce ==
  ASSUME StackOK(stack), Linked(stack), ListInv, ReadInv, NEW r \in Complete, Reduce(r)
  PROVE  ReadInv'
<1> DEFINE m == Len(stack)
           size == Size(r)
           v == Values(r)
<1>1. /\ r \in Rules /\ OneByOne(r) /\ size \in 1 .. 6
      /\ m \in Nat /\ m - size \in 1 .. m - 1
  BY CompleteRule, GrammarRules DEF StackOK
<1>2. /\ stack' = Push(Below(r), Lhs(r), Value(Act(r), v)) /\ ~Yyerror(Act(r), v)
      /\ UNCHANGED <<look, tokens, cells, freed>> /\ Reducible(r)
      /\ Act(r) \notin {"accept", "add_first", "add_third", "new_list", "longer_list"}
  BY DEF Reduce, Act, Lhs
<1>3. r \notin {1, 3, 4, 5, 6, 8, 9}
  BY ONLY <1>2, ActionTable
<1>4. Values(r) = Stands(r)
  <2>1. v = [k \in 1 .. size |-> stack[m - size + k].val]
    BY DEF Values, Size
  <2>2. ASSUME NEW k \in 1 .. size
        PROVE  Meant(stack, List, m - size + k) = stack[m - size + k].val
    BY <1>1, <1>3, OtherRules, TopSymbols DEF Meant
  <2> QED BY <2>1, <2>2 DEF Stands
<1>5. List' = List
  BY <1>2 DEF List, Allocated
<1>6. CASE r = 2
  <2>1. /\ Lhs(r) = "policy" /\ Act(r) = "first_value" /\ size = 1
        /\ Sym(r, 1) = "version"
    BY <1>6, GrammarTable, ActionTable
  <2>2. m - size = 1 /\ m = 2
    <3>1. 1 \in 1 .. size
      BY <1>1
    <3>2. Before(stack, m - size, "policy")
      BY <2>1, <3>1, TopSymbols
    <3> QED BY <1>1, <2>1, <3>2 DEF Before
  <2>3. stack[2].sym = "version"
    <3>1. 1 \in 1 .. size /\ m - size + 1 = 2
      BY <2>1, <2>2
    <3> QED BY <2>1, <3>1, TopSymbols
  <2>4. Allocated = 0
    <3>1. NoEntries
      BY <2>2, <2>3 DEF NoEntries
    <3>2. entries = 0
      BY <2>2, <2>3 DEF ListInv
    <3> QED BY <3>1, <3>2 DEF ListInv
  <2>5. List = <<>>
    BY <2>4 DEF List
  <2>6. Meaning(r, Stands(r)) = <<>>
    BY <1>6, MeaningTable
  <2> HIDE DEF v
  <2> QED BY <1>2, <1>3, <1>4, <1>5, <2>1, <2>5, <2>6, ReadPush DEF v
<1>7. CASE r # 2
  <2>1. Meaning(r, Stands(r)) = Value(Act(r), Stands(r))
    BY <1>1, <1>2, <1>3, <1>7, MeaningOther
  <2>2. Lhs(r) \notin {"entries", "policy"}
    <3>1. OneByOne(r)
      BY <1>1
    <3> QED BY ONLY <3>1, <1>3, <1>7, GrammarTable DEF OneByOne
  <2> DEFINE w == Value(Act(r), Stands(r))
  <2>3. stack' = Push(Below(r), Lhs(r), w)
    BY <1>2, <1>4
  <2>4. ~Yyerror(Act(r), Stands(r))
    BY <1>2, <1>4
  <2> HIDE DEF w
  <2>5. w = Meaning(r, Stands(r))
    BY <2>1 DEF w
  <2> QED BY <1>2, <1>3, <1>5, <2>2, <2>3, <2>4, <2>5, ReadPush
<1> QED BY <1>6, <1>7

\* Where the parser expects entries, or a policy, there is neither below.
LEMMA NoListBelow ==
  ASSUME NEW n \in Nat, NEW X \in {"entries", "policy"}, Before(stack, n, X)
  PROVE  \A j \in 2 .. n : stack[j].sym \notin {"entries", "policy"}
<1>1. \/ n = 1
      \/ n = 3 /\ stack[2].sym = "version" /\ stack[3].sym = "semicolon"
  BY DEF Before
<1>2. \A j \in 2 .. n : n = 3 /\ (j = 2 \/ j = 3)
  BY <1>1
<1> QED BY <1>1, <1>2

\* Another entry makes the list longer by what it stands for.
LEMMA ReadReduceList ==
  ASSUME OwnershipInv, StackOK(stack), Linked(stack), ListInv, ReadInv,
         NEW r \in Complete, ReduceList(r)
  PROVE  ReadInv'
<1> DEFINE c == Allocated
           m == Len(stack)
           size == Size(r)
           n == Len(stack) - Size(r)
           x == stack[m].val
           v == IF Act(r) = "longer_list" THEN Values(r)[1] ELSE Len(cells) + 1
<1>1. /\ r \in {8, 9} /\ Lhs(r) = "entries"
      /\ Act(r) = IF r = 8 THEN "new_list" ELSE "longer_list"
      /\ Values(r)[Len(Values(r))] = x /\ stack[m].sym = "entry"
      /\ m \in Nat /\ n \in 1 .. m - 1 /\ n \in Nat
  BY ListRules, CompleteRule DEF StackOK
<1>2. /\ size = IF r = 8 THEN 1 ELSE 3
      /\ r = 9 => Sym(r, 1) = "entries"
  BY <1>1, GrammarTable
<1>3. /\ stack' = Push(Below(r), "entries", v) /\ UNCHANGED <<look, tokens>>
      /\ Reducible(r)
  BY DEF ReduceList, Act
<1> HIDE DEF v
<1>4. /\ Before(stack, n, "entries")
      /\ \A j \in 2 .. n : stack[j].sym \notin {"entries", "policy"}
  <2>1. 1 \in 1 .. size
    BY <1>1, <1>2
  <2>2. Before(stack, n, "entries")
    BY <1>1, <2>1, TopSymbols
  <2> QED BY <1>1, <2>2, NoListBelow
<1>5. Stands(r)[size] = x
  <2>1. size \in 1 .. size /\ m - size + size = m
    BY <1>1, <1>2
  <2> QED BY <1>1, <2>1 DEF Stands, Meant
<1>6. c \in Nat /\ List' = Append(List, x)
  <2>1. /\ c \in Nat /\ Allocated' = c + 1 /\ cells'[c + 1].data = x
        /\ \A k \in 1 .. c : cells'[k].data = cells[k].data
    BY <1>1, NewCell, CellsKnown DEF CellsAre
  <2> DEFINE new == [k \in 1 .. c + 1 |-> cells'[k].data]
  <2>2. List' = new
    BY <2>1 DEF List
  <2>3. List = [k \in 1 .. c |-> cells[k].data]
    BY DEF List
  <2> HIDE DEF c, x
  <2>4. new = Append(List, x)
    <3> DEFINE f == [k \in 1 .. c |-> cells[k].data]
    <3>1. Append(f, x) = [k \in 1 .. c + 1 |-> IF k = c + 1 THEN x ELSE f[k]]
      BY <2>1
    <3>2. \A k \in 1 .. c + 1 : k # c + 1 => k \in 1 .. c
      BY <2>1
    <3>3. ASSUME NEW k \in 1 .. c + 1
          PROVE  cells'[k].data = IF k = c + 1 THEN x ELSE f[k]
      BY <2>1, <3>2
    <3> HIDE DEF f
    <3>4. new = Append(f, x)
      BY <3>1, <3>3
    <3> QED BY <2>3, <3>4 DEF f
  <2> QED BY <2>1, <2>2, <2>4
<1>7. Meaning(r, Stands(r)) = Append(List, x)
  <2>1. CASE r = 8
    <3>1. n + 1 = m
      BY <1>1, <1>2, <2>1
    <3>2. NoEntries
      <4>1. \A j \in 2 .. m : j = m \/ j \in 2 .. n
        BY <1>1, <3>1
      <4> QED BY <1>1, <1>4, <4>1 DEF NoEntries
    <3>3. entries = 0
      <4>1. stack[2].sym # "policy"
        <5>1. 2 \in 2 .. n \/ m = 2
          BY <1>1, <3>1
        <5> QED BY <1>1, <1>4, <5>1
      <4> QED BY <4>1 DEF ListInv
    <3>4. c = 0
      BY <3>2, <3>3 DEF ListInv
    <3>5. List = <<>>
      BY <3>4 DEF List
    <3>6. Meaning(r, Stands(r)) = <<Stands(r)[1]>>
      BY <2>1, MeaningTable
    <3>7. Stands(r)[1] = x
      BY <1>2, <1>5, <2>1
    <3> HIDE DEF x
    <3> QED BY <3>5, <3>6, <3>7
  <2>2. CASE r = 9
    <3>1. Meaning(r, Stands(r)) = Append(Stands(r)[1], Stands(r)[3])
      BY <2>2, MeaningTable
    <3>2. Stands(r)[3] = x
      BY <1>2, <1>5, <2>2
    <3>3. Stands(r)[1] = List
      <4>1. size = 3 /\ 1 \in 1 .. size
        BY <1>2, <2>2
      <4>2. stack[m - size + 1].sym = "entries"
        BY <1>2, <2>2, <4>1, TopSymbols
      <4> QED BY <4>1, <4>2 DEF Stands, Meant
    <3> QED BY <3>1, <3>2, <3>3
  <2> QED BY <1>1, <2>1, <2>2
<1>8. ~Yyerror(Act(r), Stands(r))
  BY <1>1 DEF Yyerror
<1>9. r # 1
  BY <1>1
<1> QED BY <1>1, <1>3, <1>4, <1>6, <1>7, <1>8, <1>9, ReadPush

\* The result is what the list stands for.
LEMMA ReadReduceAdd ==
  ASSUME OwnershipInv, StackOK(stack), Linked(stack), ListInv, ReadInv,
         NEW r \in Complete, ReduceAdd(r)
  PROVE  ReadInv'
<1> DEFINE m == Len(stack)
           size == Size(r)
           p == IF r \in {3, 4} THEN 3 ELSE 1
<1>1. /\ r \in {3, 4, 5, 6} /\ r # 1 /\ Lhs(r) = "policy"
      /\ Act(r) = IF r \in {3, 4} THEN "add_third" ELSE "add_first"
      /\ size >= p /\ Sym(r, p) = "entries"
      /\ size \in 1 .. 6
  BY AddRules, CompleteRule
<1>2. /\ stack' = Push(Below(r), "policy", NULL) /\ UNCHANGED <<look, tokens>>
      /\ Reducible(r)
  BY DEF ReduceAdd
<1>3. p \in 1 .. size /\ stack[m - size + p].sym = "entries"
  <2>1. p \in 1 .. size
    BY <1>1
  <2> QED BY <1>1, <2>1, TopSymbols
<1>4. Stands(r)[p] = List
  BY <1>3 DEF Stands, Meant
<1>5. Meaning(r, Stands(r)) = List
  BY <1>1, <1>4, MeaningTable
<1>6. List' = List
  BY SameCells DEF List
<1>7. ~Yyerror(Act(r), Stands(r))
  BY <1>1 DEF Yyerror
<1> QED BY <1>1, <1>2, <1>5, <1>6, <1>7, ReadPush

\* It is so in every behaviour.
THEOREM ParserReads == Spec => []ReadInv
<1>1. Init => ReadInv
  <2> SUFFICES ASSUME Init PROVE ReadInv
    OBVIOUS
  <2>1. look = NULL /\ Len(tokens) = 0
    BY DEF Init
  <2>2. Len(stack) = 1 /\ stack[1].sym = NULL
    BY DEF Init
  <2> DEFINE cut == [j \in {1} |-> 0]
  <2>3. cut[1] = 0
    OBVIOUS
  <2> HIDE DEF cut
  <2>4. Cuts(cut, stack, List, tokens, Taken, Ahead)
    BY <2>1, <2>2, <2>3, EndIsSymbol DEF Cuts, Taken
  <2> QED BY <2>4 DEF ReadInv
<1>2. OwnershipInv /\ StackOK(stack) /\ Linked(stack) /\ ListInv /\ TokensInv /\ EndInv
        /\ ReadInv /\ [Next]_vars => ReadInv'
  <2> SUFFICES ASSUME OwnershipInv, StackOK(stack), Linked(stack), ListInv, TokensInv,
                      EndInv, ReadInv, [Next]_vars
               PROVE  ReadInv'
    OBVIOUS
  <2>1. CASE Yylex
    <3>1. PICK x \in text.lexemes : Scan(x, TokenOf(condition, x))
      BY <2>1 DEF Yylex
    <3>2. x \in Lexemes /\ condition \in {"INITIAL", "BEFORE_ARGS", "ARGS"}
      BY ParserAssumption DEF TokensInv
    <3> QED BY <3>1, <3>2, NullAssumption, ReadScan
  <2>2. CASE YylexEnd
    BY <2>2, NullAssumption, ReadScan DEF YylexEnd
  <2>3. CASE Shift
    BY <2>3, ReadShift
  <2>4. ASSUME NEW r \in Complete, Reduce(r) \/ ReduceList(r) \/ ReduceAdd(r)
        PROVE  ReadInv'
    BY <2>4, ReadReduce, ReadReduceList, ReadReduceAdd
  <2>5. ASSUME UNCHANGED <<stack, cells, tokens, look>>, Allocated' = Allocated
        PROVE  ReadInv'
    <3>1. List' = List /\ Taken' = Taken /\ Ahead' = Ahead
      BY <2>5 DEF List, Taken, Ahead
    <3> QED BY <2>5, <3>1 DEF ReadInv
  <2>6. CASE DaPolicyNewFull \/ DaParserCompileFails
    <3>1. /\ UNCHANGED <<look, stack, cells, tokens>>
          /\ freed' = [k \in DOMAIN freed |-> freed[k] +
                Cardinality({j \in DOMAIN link_list : link_list[j] = k})]
      BY <2>6 DEF DaPolicyNewFull, DaParserCompileFails, FreeLinks
    <3>2. Allocated' = Allocated
      BY <3>1 DEF OwnershipInv, Allocated
    <3> QED BY <2>5, <3>1, <3>2
  <2>7. CASE Accept \/ ParseError \/ Done \/ UNCHANGED vars
    <3>1. UNCHANGED <<look, stack, cells, tokens, freed>>
      BY <2>7 DEF Accept, ParseError, Done, vars
    <3> QED BY <2>5, <3>1 DEF Allocated
  <2> QED BY <2>1, <2>2, <2>3, <2>4, <2>6, <2>7 DEF Next, Step
<1> QED
  BY <1>1, <1>2, ParserOwnership, ParserStack, ParserLinked, ParserList, ParserTokens,
     ParserEnd, PTL DEF Spec

\* What was accepted has been read to its end.
LEMMA AcceptedReading ==
  ASSUME StackOK(stack), EndInv, ReadInv, 1 \in Complete
  PROVE  /\ Len(tokens) # 0
         /\ tokens[Len(tokens)].sym = "$end"
         /\ RightReading(Span("policy", 0, Len(tokens) - 1, List), tokens)
<1> DEFINE m == Len(stack)
           l == Len(tokens)
<1>1. /\ Lhs(1) = "$accept" /\ Size(1) = 2 /\ Sym(1, 1) = "policy"
      /\ Sym(1, 2) = "$end" /\ 1 \in 1 .. 2 /\ 2 \in 1 .. 2
  BY GrammarTable
<1>2. m \in Nat /\ m - 2 \in 1 .. m - 1
  BY <1>1, CompleteRule DEF StackOK
<1>3. /\ stack[m - 2 + 1].sym = "policy"
      /\ stack[m - 2 + 2].sym = "$end"
      /\ Before(stack, m - 2, "$accept")
  BY <1>1, TopSymbols
<1>4. m = 3
  BY <1>2, <1>3 DEF Before
<1>5. stack[2].sym = "policy" /\ stack[3].sym = "$end"
  BY <1>3, <1>4
<1>6. l # 0 /\ tokens[l].sym = "$end"
  BY <1>4, <1>5 DEF EndInv
<1>7. PICK cut : Cuts(cut, stack, List, tokens, Taken, Ahead)
  BY DEF ReadInv
<1>8. cut[1] = 0 /\ cut[2] = l - 1
  BY <1>4, <1>5, <1>7 DEF Cuts
<1>9. RightReading(Span("policy", 0, l - 1, List), tokens)
  <2>1. 2 \in 2 .. m /\ 2 - 1 = 1 /\ "policy" \in Roles(stack[2].sym, Follows(stack, 2, Ahead))
    BY <1>4, <1>5 DEF Roles
  <2>2. RightReading(Span("policy", cut[1], cut[2], Meant(stack, List, 2)), tokens)
    BY <1>7, <2>1 DEF Cuts
  <2>3. Meant(stack, List, 2) = List
    BY <1>5 DEF Meant
  <2> QED BY <1>8, <2>2, <2>3
<1> QED BY <1>6, <1>9

\* A policy is a reading of the whole text, of all tokens but the last one, which is
\* the end of the text; and in it operators extend to the right.
PolicyIsRightReading ==
    policy # NULL =>
        /\ Len(tokens) # 0
        /\ tokens[Len(tokens)].sym = "$end"
        /\ RightReading(Span("policy", 0, Len(tokens) - 1, policy), tokens)

\* Of the readings of an ambiguous text the parser chooses one in which the operand of
\* "!" and the right operand of "&" and "|" are as long as they can be, and the left
\* one is a term or in parentheses: it always shifts an operator that may follow.  So
\* "!a & b" is !(a & b), and "a & b | c" is a & (b | c), in texts of any length.
THEOREM ParserOperatorsExtendRight == Spec => []PolicyIsRightReading
<1>1. StackOK(stack) /\ ListInv /\ EndInv /\ ReadInv => PolicyIsRightReading
  <2> SUFFICES ASSUME StackOK(stack), ListInv, EndInv, ReadInv, policy # NULL
               PROVE  PolicyIsRightReading
    BY DEF PolicyIsRightReading
  <2>1. 1 \in Complete
    BY DEF EndInv
  <2>2. policy = List
    BY DEF ListInv, List
  <2> QED BY <2>1, <2>2, AcceptedReading DEF PolicyIsRightReading
<1> QED BY <1>1, ParserStack, ParserList, ParserEnd, ParserReads, PTL

-----------------------------------------------------------------------------
(* Readings are what their types say, and so not just anything is one.     *)

TokenSymbols ==
    Punctuation \cup {"USER", "GROUP", "ALLOW", "DENY", "ID", "NUMBER", "WILDCARD", "WORD",
                      "STRING", "ERROR", "$end"}

AllValues ==
    Ints \cup Params \cup Ids \cup {"ALLOW", "DENY"} \cup Exprs \cup Entries
        \cup Seq(Entries) \cup {NULL}

\* What an X of a reading stands for.
Valued(X, v) ==
    IF X \in {"entries", "policy"} THEN v \in Seq(Entries) ELSE Typed(X, v)

\* The parts of w, of at least one token, that stand for a value of their type.
Spans(w) ==
    {t \in [sym : TokenSymbols \cup {Lhs(r) : r \in Rules}, from : Nat, to : Nat,
            val : AllValues] :
        t.from < t.to /\ t.to <= Len(w) /\ Valued(t.sym, t.val)}

\* Each of the tokens w is of a known kind, with a value of its type.
TokensValued(w) ==
    /\ Len(w) \in Nat
    /\ \A k \in 1 .. Len(w) :
          /\ w[k].sym \in TokenSymbols
          /\ w[k].val \in AllValues
          /\ Typed(w[k].sym, w[k].val)

\* The scanner gives such tokens.
LEMMA TokenValued ==
  ASSUME NEW c, NEW x
  PROVE  TokenOf(c, x).sym \in TokenSymbols /\ TokenOf(c, x).val \in AllValues
<1> DEFINE t == TokenOf(c, x)
<1>1. CASE t.sym = "NUMBER"
  BY <1>1, TokenOfNumber DEF TokenSymbols, AllValues
<1>2. CASE t.sym # "NUMBER"
  <2>1. \/ x \in Numerals /\ t = Number(x)
        \/ x \in Keywords /\ t = Token(KeywordToken[x], NULL)
        \/ x \in Words /\ t = Token("ID", x)
        \/ x = "*" /\ t = Token("WILDCARD", x)
        \/ x \in Names /\ t = Token("WORD", x)
        \/ x \in Strings /\ t = Token("STRING", Quoted[x])
        \/ t = Char(x)
    BY DEF TokenOf, Names
  <2> HIDE DEF t
  <2>2. CASE x \in Numerals /\ t = Number(x)
    <3>1. t = Token("ERROR", NULL)
      BY <1>2, <2>2 DEF Number, Token
    <3> QED BY <3>1 DEF Token, TokenSymbols, AllValues, t
  <2>3. CASE x \in Keywords /\ t = Token(KeywordToken[x], NULL)
    <3>1. t.sym \in {"USER", "GROUP", "ALLOW", "DENY"} /\ t.val = NULL
      BY <2>3 DEF Keywords, KeywordToken, Token
    <3> QED BY <3>1 DEF TokenSymbols, AllValues, t
  <2>4. CASE x \in Words /\ t = Token("ID", x)
    BY <2>4 DEF Token, TokenSymbols, AllValues, Params, Names, t
  <2>5. CASE x = "*" /\ t = Token("WILDCARD", x)
    BY <2>5 DEF Token, TokenSymbols, AllValues, Params, t
  <2>6. CASE x \in Names /\ t = Token("WORD", x)
    BY <2>6 DEF Token, TokenSymbols, AllValues, Params, t
  <2>7. CASE x \in Strings /\ t = Token("STRING", Quoted[x])
    BY <2>7 DEF Token, TokenSymbols, AllValues, Params, t
  <2>8. CASE t = Char(x)
    BY <2>8 DEF Char, Token, TokenSymbols, AllValues, t
  <2> QED BY <2>1, <2>2, <2>3, <2>4, <2>5, <2>6, <2>7, <2>8
<1> QED BY <1>1, <1>2

\* All tokens are such.
LEMMA TokensAreValued == Spec => []TokensValued(tokens)
<1>1. Init => TokensValued(tokens)
  BY DEF Init, TokensValued
<1>2. ASSUME TokensInv, TokensValued(tokens), NEW x, NEW token, Scan(x, token),
             token.sym \in TokenSymbols, token.val \in AllValues,
             Typed(token.sym, token.val)
      PROVE  TokensValued(tokens)'
  <2> DEFINE n == Len(tokens)
             e == [sym |-> token.sym, val |-> token.val, lexeme |-> x]
  <2>1. tokens' = Append(tokens, e)
    BY <1>2 DEF Scan
  <2>2. e.sym = token.sym /\ e.val = token.val
    OBVIOUS
  <2> HIDE DEF e
  <2>3. n \in Nat /\ SequenceOf(tokens, n) /\ DOMAIN tokens = 1 .. n
    BY <1>2 DEF TokensInv, SequenceOf
  <2>4. SequenceOf(tokens', n + 1)
    BY <2>1, <2>3, SequenceLength
  <2>5. Len(tokens') = n + 1
    BY <2>3, <2>4, SequenceLength
  <2>6. tokens'[n + 1] = e /\ \A k \in 1 .. n : tokens'[k] = tokens[k]
    BY <2>1, <2>3, AppendProperties
  <2>7. \A k \in 1 .. n + 1 : k = n + 1 \/ k \in 1 .. n
    BY <2>3
  <2> HIDE DEF n
  <2> QED BY <1>2, <2>2, <2>3, <2>5, <2>6, <2>7 DEF TokensValued, n
<1>3. TokensInv /\ TokensValued(tokens) /\ [Next]_vars => TokensValued(tokens)'
  <2> SUFFICES ASSUME TokensInv, TokensValued(tokens), [Next]_vars
               PROVE  TokensValued(tokens)'
    OBVIOUS
  <2>1. CASE Yylex
    BY <1>2, <2>1, TokenTyped, TokenValued DEF Yylex
  <2>2. CASE YylexEnd
    <3>1. Scan(NULL, Token("$end", NULL))
      BY <2>2 DEF YylexEnd
    <3>2. Token("$end", NULL).sym \in TokenSymbols /\ Token("$end", NULL).val \in AllValues
      BY DEF Token, TokenSymbols, AllValues
    <3>3. Token("$end", NULL).sym \in Untyped
      BY DEF Token, Untyped
    <3>4. Typed(Token("$end", NULL).sym, Token("$end", NULL).val)
      BY <3>3, UntypedSymbols
    <3> QED BY <1>2, <3>1, <3>2, <3>4
  <2>3. CASE UNCHANGED tokens
    BY <2>3
  <2> QED
    BY <2>1, <2>2, <2>3 DEF Next, Step, Done, vars, Shift, Reduce, ReduceList, ReduceAdd,
       Accept, ParseError, DaPolicyNewFull, DaParserCompileFails
<1> QED BY <1>1, <1>3, ParserTokens, PTL DEF Spec

\* None of them is an operand.
LEMMA NoOperandToken ==
  \A w : TokensValued(w) => \A k \in 1 .. Len(w) : w[k].sym # "operand"
BY DEF TokensValued, TokenSymbols, Punctuation

\* A policy is a reading of the whole text: of all tokens but the last one, which is
\* the end of the text.
PolicyIsReading ==
    policy # NULL =>
        /\ Len(tokens) # 0
        /\ tokens[Len(tokens)].sym = "$end"
        /\ Reading(Span("policy", 0, Len(tokens) - 1, policy), tokens)

\* What da_policy_new_full returns is what the grammar of dbusaccess_policy1.y and
\* its actions make of the text, from the first token to the last, for texts of any
\* length: the generated parser skips nothing, takes no token twice, stops nowhere
\* before the end, and its lists of cells are the sequences that they stand for.
THEOREM ParserPolicyIsReading == Spec => []PolicyIsReading
<1>1. PolicyIsRightReading /\ TokensValued(tokens) => PolicyIsReading
  <2> SUFFICES ASSUME PolicyIsRightReading, TokensValued(tokens), policy # NULL
               PROVE  PolicyIsReading
    BY DEF PolicyIsReading
  <2> DEFINE t == Span("policy", 0, Len(tokens) - 1, policy)
  <2>1. /\ Len(tokens) # 0
        /\ tokens[Len(tokens)].sym = "$end"
        /\ RightReading(t, tokens)
    BY DEF PolicyIsRightReading
  <2>2. t.sym # "operand"
    BY DEF Span
  <2> HIDE DEF t
  <2>3. Reading(t, tokens)
    BY <2>1, <2>2, NoOperandToken, RightIsReading
  <2> QED BY <2>1, <2>3 DEF PolicyIsReading, t
<1> QED BY <1>1, ParserOperatorsExtendRight, TokensAreValued, PTL

\* What a rule means has the type of its left-hand side.
LEMMA MeaningTyped ==
  ASSUME NEW r \in Rules, r # 1, NEW v,
         \A k \in 1 .. Size(r) : Valued(Sym(r, k), v[k]), ~Yyerror(Act(r), v)
  PROVE  Valued(Lhs(r), Meaning(r, v)) /\ Meaning(r, v) \in AllValues
<1>1. OneByOne(r)
  BY GrammarRules
<1>2. CASE r \in {2, 3, 4, 5, 6, 8, 9}
  <2>1. Lhs(r) \in {"entries", "policy"}
    BY ONLY <1>2, GrammarTable
  <2>2. \A k \in 1 .. Size(r) :
          /\ Sym(r, k) = "entries" => v[k] \in Seq(Entries)
          /\ Sym(r, k) = "entry" => v[k] \in Entries
    BY DEF Valued, Typed
  <2>3. Meaning(r, v) \in Seq(Entries)
    <3>1. CASE r = 2
      <4>1. Meaning(r, v) = <<>>
        BY <3>1, MeaningTable
      <4> QED BY <4>1
    <3>2. CASE r \in {3, 4}
      <4>1. 3 \in 1 .. Size(r) /\ Sym(r, 3) = "entries"
        BY <3>2, GrammarTable
      <4> QED BY <2>2, <3>2, <4>1, MeaningTable
    <3>3. CASE r \in {5, 6}
      <4>1. 1 \in 1 .. Size(r) /\ Sym(r, 1) = "entries"
        BY <3>3, GrammarTable
      <4> QED BY <2>2, <3>3, <4>1, MeaningTable
    <3>4. CASE r = 8
      <4>1. 1 \in 1 .. Size(r) /\ Sym(r, 1) = "entry"
        BY <3>4, GrammarTable
      <4>2. v[1] \in Entries
        BY <2>2, <4>1
      <4>3. Meaning(r, v) = <<v[1]>>
        BY <3>4, MeaningTable
      <4> QED BY <4>2, <4>3
    <3>5. CASE r = 9
      <4>1. /\ 1 \in 1 .. Size(r) /\ Sym(r, 1) = "entries"
            /\ 3 \in 1 .. Size(r) /\ Sym(r, 3) = "entry"
        BY <3>5, GrammarTable
      <4>2. v[1] \in Seq(Entries) /\ v[3] \in Entries
        BY <2>2, <4>1
      <4>3. Meaning(r, v) = Append(v[1], v[3])
        BY <3>5, MeaningTable
      <4> QED BY <4>2, <4>3
    <3> QED BY <1>2, <3>1, <3>2, <3>3, <3>4, <3>5
  <2> QED BY <2>1, <2>3 DEF Valued, AllValues
<1>3. CASE r \notin {2, 3, 4, 5, 6, 8, 9}
  <2>1. Act(r) \notin {"accept", "add_first", "add_third", "new_list", "longer_list"}
    BY ONLY <1>1, <1>3, r # 1, ActionTable DEF OneByOne
  <2>2. Meaning(r, v) = Value(Act(r), v)
    BY <1>3, <2>1, MeaningOther
  <2>3. \A k \in 1 .. Size(r) : Typed(Sym(r, k), v[k])
    BY <1>3, OtherRules DEF Valued
  <2>4. Typed(Lhs(r), Meaning(r, v))
    BY <2>1, <2>2, <2>3, ValueTyped
  <2>5. Lhs(r) \in {"version", "param", "user", "group", "access", "expr", "term", "entry"}
    BY ONLY <1>1, <1>3, r # 1, GrammarTable DEF OneByOne
  <2>6. Meaning(r, v) \in AllValues
    BY <2>4, <2>5 DEF Typed, AllValues
  <2> QED BY <2>4, <2>5, <2>6 DEF Valued
<1> QED BY <1>2, <1>3

\* They are closed.
LEMMA SpansClosed ==
  ASSUME NEW w, TokensValued(w)
  PROVE  Closed(Spans(w), w)
<1> DEFINE S == Spans(w)
<1>1. ASSUME NEW X \in TokenSymbols \cup {Lhs(r) : r \in Rules},
             NEW i \in Nat, NEW j \in Nat, NEW v \in AllValues,
             i < j, j <= Len(w), Valued(X, v)
      PROVE  Span(X, i, j, v) \in S
  BY <1>1 DEF Span, Spans
<1>2. ASSUME NEW k \in 1 .. Len(w)
      PROVE  Span(w[k].sym, k - 1, k, w[k].val) \in S
  <2>1. k - 1 \in Nat /\ k \in Nat /\ k - 1 < k /\ k <= Len(w)
    BY DEF TokensValued
  <2>2. w[k].sym \in TokenSymbols /\ w[k].val \in AllValues
    BY DEF TokensValued
  <2>3. Valued(w[k].sym, w[k].val)
    <3>1. w[k].sym \notin {"entries", "policy"}
      BY <2>2 DEF TokenSymbols, Punctuation
    <3> QED BY <3>1 DEF Valued, TokensValued
  <2> HIDE DEF S
  <2> QED BY <1>1, <2>1, <2>2, <2>3
<1>3. ASSUME NEW r \in Rules \ {1}, NEW q \in [1 .. Size(r) -> S], Fits(r, q),
             ~Yyerror(Act(r), [k \in 1 .. Size(r) |-> q[k].val])
      PROVE  Span(Lhs(r), q[1].from, q[Size(r)].to,
                  Meaning(r, [k \in 1 .. Size(r) |-> q[k].val])) \in S
  <2> DEFINE v == [k \in 1 .. Size(r) |-> q[k].val]
             size == Size(r)
  <2>1. size \in 1 .. 6
    BY GrammarRules
  <2>2. \A k \in 1 .. size :
          /\ q[k].from \in Nat /\ q[k].to \in Nat
          /\ q[k].from < q[k].to /\ q[k].to <= Len(w)
          /\ Valued(q[k].sym, q[k].val)
    BY DEF Spans
  <2>3. \A k \in 1 .. size : Valued(Sym(r, k), v[k])
    BY <1>3, <2>2 DEF Fits
  <2> HIDE DEF v
  <2>4. Valued(Lhs(r), Meaning(r, v)) /\ Meaning(r, v) \in AllValues
    BY <1>3, <2>3, MeaningTyped DEF v
  <2>5. q[1].from < q[size].to
    <3>1. \A k \in 1 .. size - 1 : q[k].to = q[k + 1].from
      BY <1>3 DEF Fits
    <3> DEFINE T == {k \in 0 .. size - 1 : q[1].from < q[k + 1].to}
    <3>2. 0 \in T
      BY <2>1, <2>2
    <3>3. ASSUME NEW k \in 0 .. (size - 1) - 1, k \in T
          PROVE  k + 1 \in T
      <4>1. k + 1 \in 1 .. size - 1 /\ k + 1 \in 1 .. size /\ (k + 1) + 1 \in 1 .. size
            /\ 1 \in 1 .. size /\ k + 1 \in 0 .. size - 1
        BY <2>1
      <4>2. q[k + 1].to = q[(k + 1) + 1].from
        BY <3>1, <4>1
      <4> QED BY <2>2, <3>3, <4>1, <4>2
    <3>4. size - 1 \in Nat /\ size - 1 \in 0 .. size - 1 /\ (size - 1) + 1 = size
      BY <2>1
    <3>5. 0 .. size - 1 \subseteq T
      <4> HIDE DEF T
      <4> QED BY <3>2, <3>3, <3>4, UpTo
    <3> QED BY <3>4, <3>5
  <2>6. Lhs(r) \in TokenSymbols \cup {Lhs(p) : p \in Rules}
    OBVIOUS
  <2>7. /\ q[1].from \in Nat /\ q[size].to \in Nat /\ q[size].to <= Len(w)
    BY <2>1, <2>2
  <2> HIDE DEF S
  <2>8. Span(Lhs(r), q[1].from, q[size].to, Meaning(r, v)) \in S
    BY <1>1, <2>4, <2>5, <2>6, <2>7
  <2> QED BY <2>8 DEF v
<1> HIDE DEF S
<1>4. Closed(S, w)
  BY <1>2, <1>3 DEF Closed
<1> QED BY <1>4 DEF S

\* Every reading of the text is of at least one of its tokens, and its value has the
\* type that the grammar declares: a policy is one of well formed rules.
ReadingsTyped == \A t : Reading(t, tokens) => t \in Spans(tokens)

\* That a policy is a reading of its text therefore says something: the sets that
\* are closed under the rules exist, and the least of them has nothing but typed
\* parts of the text.
THEOREM ParserReadingsTyped == Spec => []ReadingsTyped
<1>1. TokensValued(tokens) => ReadingsTyped
  BY SpansClosed DEF Reading, ReadingsTyped
<1> QED BY <1>1, TokensAreValued, PTL
-----------------------------------------------------------------------------
(* There is one reading in which operators extend to the right.            *)

\* No token is a left-hand side.
LEMMA TokensAreTerminals == TokenSymbols \cap Heads = {}
<1>1. ASSUME NEW q \in Rules
      PROVE  Lhs(q) \notin TokenSymbols
  <2>1. OneByOne(q)
    BY GrammarRules
  <2>2. Lhs(q) \in {"$accept", "policy", "version", "entries", "entry", "access", "user",
                    "group", "expr", "term", "param"}
    BY ONLY <2>1, GrammarTable DEF OneByOne
  <2> QED BY <2>2 DEF TokenSymbols, Punctuation
<1> QED BY <1>1 DEF Heads

\* t is one of the tokens w.
IsToken(t, w) ==
    /\ t.to = t.from + 1
    /\ t.to \in 1 .. Len(w)
    /\ t.sym = w[t.to].sym
    /\ t.val = w[t.to].val

\* Rule r makes t of the readings q.
By(t, r, q, w) ==
    /\ r \in Rules \ {1}
    /\ q = [k \in 1 .. Size(r) |-> q[k]]
    /\ \A k \in 1 .. Size(r) : RightReading(q[k], w)
    /\ RightFits(r, q)
    /\ t.sym \in Made(r)
    /\ t.from = q[1].from
    /\ t.to = q[Size(r)].to
    /\ t.val = Meaning(r, [k \in 1 .. Size(r) |-> q[k].val])

\* Readings are of at least one token.
LEMMA RightSpans ==
  ASSUME NEW w, TokensValued(w), NEW t, RightReading(t, w)
  PROVE  /\ t.from \in Nat /\ t.to \in Nat
         /\ t.from < t.to /\ t.to <= Len(w)
         /\ t = Span(t.sym, t.from, t.to, t.val)
<1>1. t \in WithOperands(Spans(w))
  BY NoOperandToken, SpansClosed, OperandsClosed DEF RightReading
<1>2. \A x \in Spans(w) : /\ x.from \in Nat /\ x.to \in Nat
                         /\ x.from < x.to /\ x.to <= Len(w)
                         /\ x = Span(x.sym, x.from, x.to, x.val)
  BY DEF Spans, Span
<1>3. CASE t \in Spans(w)
  BY <1>2, <1>3
<1>4. CASE t \notin Spans(w)
  <2>1. PICK x \in Spans(w) : t = Span("operand", x.from, x.to, x.val)
    BY <1>1, <1>4 DEF WithOperands
  <2>2. /\ t.sym = "operand" /\ t.from = x.from /\ t.to = x.to /\ t.val = x.val
    BY <2>1 DEF Span
  <2>3. t = Span(t.sym, t.from, t.to, t.val)
    BY <2>1, <2>2
  <2> QED BY <1>2, <2>2, <2>3
<1> QED BY <1>3, <1>4

\* A reading is a token, or made by a rule.
LEMMA RightInverse ==
  ASSUME NEW w, TokensValued(w), NEW t, RightReading(t, w)
  PROVE  IsToken(t, w) \/ \E r, q : By(t, r, q, w)
<1> DEFINE U == WithOperands(Spans(w))
           S == {x \in U : RightReading(x, w)
                            /\ (IsToken(x, w) \/ \E r, q : By(x, r, q, w))}
<1>1. RightClosed(U, w)
  BY NoOperandToken, SpansClosed, OperandsClosed
<1>2. \A x : RightReading(x, w) => x \in U
  BY <1>1 DEF RightReading
<1> HIDE DEF U
<1>3. ASSUME NEW k \in 1 .. Len(w)
      PROVE  Span(w[k].sym, k - 1, k, w[k].val) \in S
  <2> DEFINE x == Span(w[k].sym, k - 1, k, w[k].val)
  <2>1. RightReading(x, w)
    BY RightToken
  <2>2. x.sym = w[k].sym /\ x.from = k - 1 /\ x.to = k /\ x.val = w[k].val
    BY DEF Span
  <2>3. k = (k - 1) + 1
    BY DEF TokensValued
  <2> HIDE DEF x
  <2>4. IsToken(x, w)
    BY <2>2, <2>3 DEF IsToken
  <2>5. x \in S
    BY <1>2, <2>1, <2>4
  <2> QED BY <2>5 DEF x
<1>4. ASSUME NEW r \in Rules \ {1}, NEW q \in [1 .. Size(r) -> S], NEW v,
             v = [k \in 1 .. Size(r) |-> q[k].val],
             RightFits(r, q), ~Yyerror(Act(r), v), NEW X \in Made(r)
      PROVE  Span(X, q[1].from, q[Size(r)].to, Meaning(r, v)) \in S
  <2> DEFINE x == Span(X, q[1].from, q[Size(r)].to, Meaning(r, v))
  <2>1. \A k \in 1 .. Size(r) : RightReading(q[k], w)
    OBVIOUS
  <2>2. q = [k \in 1 .. Size(r) |-> q[k]]
    OBVIOUS
  <2> HIDE DEF S
  <2>3. RightReading(x, w)
    BY <1>4, <2>1, <2>2, RightRule
  <2>4. x.sym = X /\ x.from = q[1].from /\ x.to = q[Size(r)].to /\ x.val = Meaning(r, v)
    BY DEF Span
  <2> HIDE DEF x
  <2>5. By(x, r, q, w)
    BY <1>4, <2>1, <2>2, <2>4 DEF By
  <2>6. x \in S
    BY <1>2, <2>3, <2>5 DEF S
  <2> QED BY <2>6 DEF x
<1> HIDE DEF S
<1>5. RightClosed(S, w)
  BY <1>3, <1>4 DEF RightClosed
<1>6. t \in S
  BY <1>5 DEF RightReading
<1> QED BY <1>6 DEF S

\* What no rule makes is a token,
LEMMA TokenPart ==
  ASSUME NEW w, TokensValued(w), NEW t, RightReading(t, w),
         t.sym \notin Heads \cup {"operand"}
  PROVE  IsToken(t, w)
<1>1. \A r, q : By(t, r, q, w) => t.sym \in Heads \cup {"operand"}
  BY DEF By, Made, Heads
<1> QED BY <1>1, RightInverse

\* and what a rule makes is none.
LEMMA RulePart ==
  ASSUME NEW w, TokensValued(w), NEW t, RightReading(t, w),
         t.sym \in Heads \cup {"operand"}
  PROVE  \E r, q : By(t, r, q, w)
<1>1. ~ IsToken(t, w)
  BY TokensAreTerminals, NoOperandToken DEF IsToken, TokensValued
<1> QED BY <1>1, RightInverse

\* The parts of a reading.
LEMMA Parts ==
  ASSUME NEW w, TokensValued(w), NEW t, NEW r, NEW q, By(t, r, q, w),
         NEW k \in 1 .. Size(r)
  PROVE  /\ r \in Rules /\ Size(r) \in 1 .. 6
         /\ RightReading(q[k], w) /\ q[k].sym = Role(r, k)
         /\ q[k].from \in Nat /\ q[k].to \in Nat
         /\ q[k].from < q[k].to /\ q[k].to <= Len(w)
         /\ k # 1 => k - 1 \in 1 .. Size(r) /\ q[k].from = q[k - 1].to
         /\ k # Size(r) => k + 1 \in 1 .. Size(r) /\ q[k].to = q[k + 1].from
         /\ 1 \in 1 .. Size(r) /\ Size(r) \in 1 .. Size(r)
<1>1. r \in Rules /\ Size(r) \in 1 .. 6
  BY GrammarRules DEF By
<1>2. RightReading(q[k], w) /\ q[k].sym = Role(r, k)
  BY DEF By, RightFits
<1>3. k # Size(r) => k \in 1 .. Size(r) - 1 /\ k + 1 \in 1 .. Size(r)
  BY <1>1
<1>4. k # 1 => k - 1 \in 1 .. Size(r) - 1 /\ k - 1 \in 1 .. Size(r) /\ (k - 1) + 1 = k
  BY <1>1
<1>5. \A i \in 1 .. Size(r) - 1 : q[i].to = q[i + 1].from
  BY DEF By, RightFits
<1>6. 1 \in 1 .. Size(r) /\ Size(r) \in 1 .. Size(r)
  BY <1>1
<1> QED BY <1>1, <1>2, <1>3, <1>4, <1>5, <1>6, RightSpans

\* Two readings that begin together end together, with the same value.
Match(x, y) == x.from = y.from => x.to = y.to /\ x.val = y.val

\* Or one of them is longer, and goes on with one of F where the other one ends.
Loose(x, y, w, F) ==
    x.from = y.from =>
        \/ x.to = y.to /\ x.val = y.val
        \/ x.to < y.to /\ w[x.to + 1].sym \in F
        \/ y.to < x.to /\ w[y.to + 1].sym \in F

\* Tokens are what they are.
LEMMA TokensMatch ==
  ASSUME NEW w, NEW x, NEW y, IsToken(x, w), IsToken(y, w)
  PROVE  Match(x, y) /\ (x.from = y.from => x.sym = y.sym)
BY DEF IsToken, Match

\* Where the parts before part n match, parts n begin together.
LEMMA Agree ==
  ASSUME NEW w, TokensValued(w), NEW t, NEW r, NEW q, By(t, r, q, w),
         NEW u, NEW p, NEW s, By(u, p, s, w), t.from = u.from,
         NEW n \in 1 .. Size(r), n \in 1 .. Size(p),
         \A k \in 1 .. n - 1 : Match(q[k], s[k])
  PROVE  /\ q[n].from = s[n].from
         /\ \A k \in 1 .. n - 1 : q[k].val = s[k].val
<1> DEFINE T == {i \in 0 .. n - 1 : q[i + 1].from = s[i + 1].from}
<1>1. Size(r) \in 1 .. 6 /\ Size(p) \in 1 .. 6
  BY Parts
<1>2. 0 \in T
  BY <1>1 DEF By
<1>3. ASSUME NEW i \in 0 .. (n - 1) - 1, i \in T
      PROVE  i + 1 \in T
  <2> DEFINE j == i + 1
  <2>1. j \in 1 .. n - 1 /\ j \in 1 .. Size(r) /\ j \in 1 .. Size(p)
        /\ j # Size(r) /\ j # Size(p) /\ j \in 0 .. n - 1
    BY <1>1
  <2>2. q[j].from = s[j].from
    BY <1>3
  <2> HIDE DEF j
  <2>3. q[j].to = s[j].to
    BY <2>1, <2>2 DEF Match
  <2>4. q[j + 1].from = s[j + 1].from
    BY <2>1, <2>3, Parts
  <2> QED BY <2>1, <2>4 DEF j
<1>4. n - 1 \in Nat
  BY <1>1
<1>5. 0 .. n - 1 \subseteq T
  <2> HIDE DEF T
  <2> QED BY <1>2, <1>3, <1>4, UpTo
<1>6. ASSUME NEW k \in 1 .. n
      PROVE  q[k].from = s[k].from
  <2>1. k - 1 \in 0 .. n - 1 /\ (k - 1) + 1 = k
    BY <1>1
  <2>2. k - 1 \in T
    BY <1>5, <2>1
  <2> QED BY <2>1, <2>2
<1>7. n \in 1 .. n /\ \A k \in 1 .. n - 1 : k \in 1 .. n
  BY <1>1
<1> QED BY <1>6, <1>7 DEF Match

\* By one rule: the last parts decide.
LEMMA SameRuleLoose ==
  ASSUME NEW w, TokensValued(w), NEW r, NEW t, NEW q, By(t, r, q, w),
         NEW u, NEW s, By(u, r, s, w), t.from = u.from,
         \A k \in 1 .. Size(r) - 1 : Match(q[k], s[k]),
         NEW F, Loose(q[Size(r)], s[Size(r)], w, F)
  PROVE  Loose(t, u, w, F)
<1> DEFINE n == Size(r)
           x == q[n]
           y == s[n]
           a == [k \in 1 .. n |-> q[k].val]
           b == [k \in 1 .. n |-> s[k].val]
<1>1. n \in 1 .. 6 /\ n \in 1 .. n
  BY GrammarRules DEF By
<1>2. x.from = y.from /\ \A k \in 1 .. n - 1 : q[k].val = s[k].val
  BY <1>1, Agree
<1>3. /\ t.to = x.to /\ t.val = Meaning(r, a)
      /\ u.to = y.to /\ u.val = Meaning(r, b)
  BY DEF By
<1>4. ASSUME x.val = y.val
      PROVE  t.val = u.val
  <2>1. \A k \in 1 .. n : k = n \/ k \in 1 .. n - 1
    BY <1>1
  <2>2. a = b
    BY <1>2, <1>4, <2>1
  <2> HIDE DEF a, b
  <2> QED BY <1>3, <2>2
<1> HIDE DEF x, y, a, b
<1> QED BY <1>2, <1>3, <1>4 DEF Loose, x, y

\* By one rule from matching parts: one reading.
LEMMA SameRule ==
  ASSUME NEW w, TokensValued(w), NEW r, NEW t, NEW q, By(t, r, q, w),
         NEW u, NEW s, By(u, r, s, w), t.from = u.from,
         \A k \in 1 .. Size(r) : Match(q[k], s[k])
  PROVE  t.to = u.to /\ t.val = u.val
<1>1. Size(r) \in 1 .. 6 /\ Size(r) \in 1 .. Size(r)
      /\ \A k \in 1 .. Size(r) - 1 : k \in 1 .. Size(r)
  BY GrammarRules DEF By
<1>2. Loose(q[Size(r)], s[Size(r)], w, {})
  BY <1>1 DEF Match, Loose
<1>3. Loose(t, u, w, {})
  BY <1>1, <1>2, SameRuleLoose
<1> QED BY <1>3 DEF Loose

\* A token that is none of F tells where the part before it ends.
LEMMA LooseThenToken ==
  ASSUME NEW w, TokensValued(w), NEW t, NEW r, NEW q, By(t, r, q, w),
         NEW u, NEW p, NEW s, By(u, p, s, w),
         NEW k \in 1 .. Size(r) - 1, k \in 1 .. Size(p) - 1, NEW F,
         Role(r, k + 1) = Role(p, k + 1),
         Role(r, k + 1) \notin Heads \cup {"operand"} \cup F,
         Loose(q[k], s[k], w, F)
  PROVE  Match(q[k], s[k])
<1>1. /\ k \in 1 .. Size(r) /\ k # Size(r) /\ k + 1 \in 1 .. Size(r)
      /\ k \in 1 .. Size(p) /\ k # Size(p) /\ k + 1 \in 1 .. Size(p)
  <2>1. Size(r) \in 1 .. 6 /\ Size(p) \in 1 .. 6
    BY GrammarRules DEF By
  <2> QED BY <2>1
<1> DEFINE x == q[k + 1]
           y == s[k + 1]
<1>2. /\ q[k].to = x.from /\ s[k].to = y.from
      /\ RightReading(x, w) /\ RightReading(y, w)
      /\ x.sym = Role(r, k + 1) /\ y.sym = Role(r, k + 1)
  BY <1>1, Parts
<1> HIDE DEF x, y
<1>3. IsToken(x, w) /\ IsToken(y, w)
  BY <1>2, TokenPart
<1>4. w[q[k].to + 1].sym \notin F /\ w[s[k].to + 1].sym \notin F
  BY <1>2, <1>3 DEF IsToken
<1> QED BY <1>4 DEF Loose, Match

\* The left-hand sides, and the rules for them.
LEMMA HeadsAre ==
  Heads = {"$accept", "policy", "version", "entries", "entry", "access", "user", "group",
           "expr", "term", "param"}
<1>1. ASSUME NEW r \in Rules
      PROVE  Lhs(r) \in {"$accept", "policy", "version", "entries", "entry", "access",
                         "user", "group", "expr", "term", "param"}
  <2>1. OneByOne(r)
    BY GrammarRules
  <2> QED BY ONLY <2>1, GrammarTable DEF OneByOne
<1>2. /\ Lhs(1) \in Heads /\ Lhs(2) \in Heads /\ Lhs(7) \in Heads /\ Lhs(8) \in Heads
      /\ Lhs(10) \in Heads /\ Lhs(13) \in Heads /\ Lhs(15) \in Heads /\ Lhs(18) \in Heads
      /\ Lhs(21) \in Heads /\ Lhs(26) \in Heads /\ Lhs(31) \in Heads
  BY DEF Heads, Rules
<1>3. {"$accept", "policy", "version", "entries", "entry", "access", "user", "group",
       "expr", "term", "param"} \subseteq Heads
  BY ONLY <1>2, GrammarTable
<1> QED BY <1>1, <1>3 DEF Heads

\* The rules that make each left-hand side.
LEMMA RulesFor ==
  ASSUME NEW w, NEW t, NEW r, NEW q, By(t, r, q, w)
  PROVE  /\ t.sym = "operand" => r = 21 \/ r = 23
         /\ t.sym = "expr" => r = 21 \/ r = 22 \/ r = 23 \/ r = 24 \/ r = 25
         /\ t.sym = "term" => r = 26 \/ r = 27 \/ r = 28 \/ r = 29 \/ r = 30
         /\ t.sym = "entry" => r = 10 \/ r = 11 \/ r = 12
         /\ t.sym = "entries" => r = 8 \/ r = 9
         /\ t.sym = "policy" => r = 2 \/ r = 3 \/ r = 4 \/ r = 5 \/ r = 6
         /\ t.sym = "version" => r = 7
         /\ t.sym = "access" => r = 13 \/ r = 14
         /\ t.sym = "user" => r = 15 \/ r = 16 \/ r = 17
         /\ t.sym = "group" => r = 18 \/ r = 19 \/ r = 20
         /\ t.sym = "param" => r = 31 \/ r = 32 \/ r = 33
<1>1. OneByOne(r) /\ r \in Rules
  BY GrammarRules DEF By
<1>2. t.sym = Lhs(r) \/ (t.sym = "operand" /\ (r = 21 \/ r = 23))
  BY DEF By, Made
<1>3. Lhs(r) # "operand"
  <2>1. Size(r) \in 1 .. 6
    BY <1>1, GrammarRules
  <2>2. 1 \in 1 .. Size(r)
    BY <2>1
  <2> QED BY <1>1, <2>2, NoOperand
<1> QED BY ONLY <1>1, <1>2, <1>3, GrammarTable DEF OneByOne

\* A rule that begins with a token.
LEMMA FirstToken ==
  ASSUME NEW w, TokensValued(w), NEW t, NEW r, NEW q, By(t, r, q, w),
         Role(r, 1) \notin Heads \cup {"operand"}
  PROVE  /\ IsToken(q[1], w) /\ q[1].sym = Role(r, 1) /\ q[1].from = t.from
         /\ w[t.from + 1].sym = Role(r, 1)
<1>1. 1 \in 1 .. Size(r)
  BY GrammarRules DEF By
<1>2. RightReading(q[1], w) /\ q[1].sym = Role(r, 1)
  BY <1>1, Parts
<1>3. IsToken(q[1], w)
  BY <1>2, TokenPart
<1>4. q[1].from = t.from
  BY DEF By
<1> QED BY <1>2, <1>3, <1>4 DEF IsToken

\* The rules that name the kinds of tokens.
LEMMA SingleRules ==
  /\ \A r \in {7, 13, 14, 15, 16, 17, 18, 19, 20, 31, 32, 33} :
        Size(r) = 1 /\ Role(r, 1) = Sym(r, 1) /\ Sym(r, 1) \notin Heads \cup {"operand"}
  /\ Sym(7, 1) = "NUMBER"
  /\ Sym(13, 1) = "ALLOW" /\ Sym(14, 1) = "DENY"
  /\ Sym(15, 1) = "NUMBER" /\ Sym(16, 1) = "WILDCARD" /\ Sym(17, 1) = "WORD"
  /\ Sym(18, 1) = "NUMBER" /\ Sym(19, 1) = "WILDCARD" /\ Sym(20, 1) = "WORD"
  /\ Sym(31, 1) = "WORD" /\ Sym(32, 1) = "STRING" /\ Sym(33, 1) = "WILDCARD"
BY ONLY GrammarTable, HeadsAre DEF Role

Singles == {"version", "access", "user", "group", "param"}

\* One token is read in one way.
LEMMA SinglesMatch ==
  ASSUME NEW w, TokensValued(w), NEW t, RightReading(t, w), NEW u, RightReading(u, w),
         t.sym = u.sym, t.sym \in Singles
  PROVE  Match(t, u)
<1> SUFFICES ASSUME t.from = u.from PROVE t.to = u.to /\ t.val = u.val
  BY DEF Match
<1>1. t.sym \in Heads
  BY HeadsAre DEF Singles
<1>2. PICK r, q : By(t, r, q, w)
  BY <1>1, RulePart
<1>3. PICK p, s : By(u, p, s, w)
  BY <1>1, RulePart
<1>4. /\ r \in {7, 13, 14, 15, 16, 17, 18, 19, 20, 31, 32, 33}
      /\ p \in {7, 13, 14, 15, 16, 17, 18, 19, 20, 31, 32, 33}
  BY <1>2, <1>3, RulesFor DEF Singles
<1>5. /\ Size(r) = 1 /\ Role(r, 1) = Sym(r, 1) /\ Sym(r, 1) \notin Heads \cup {"operand"}
      /\ Size(p) = 1 /\ Role(p, 1) = Sym(p, 1) /\ Sym(p, 1) \notin Heads \cup {"operand"}
  BY <1>4, SingleRules
<1>6. /\ IsToken(q[1], w) /\ q[1].sym = Sym(r, 1) /\ q[1].from = t.from
      /\ IsToken(s[1], w) /\ s[1].sym = Sym(p, 1) /\ s[1].from = u.from
  BY <1>2, <1>3, <1>5, FirstToken
<1>7. Match(q[1], s[1]) /\ Sym(r, 1) = Sym(p, 1)
  BY <1>6, TokensMatch
<1>8. r = p
  <2>1. /\ t.sym = "access" => r = 13 \/ r = 14
        /\ t.sym = "user" => r = 15 \/ r = 16 \/ r = 17
        /\ t.sym = "group" => r = 18 \/ r = 19 \/ r = 20
        /\ t.sym = "param" => r = 31 \/ r = 32 \/ r = 33
        /\ t.sym = "version" => r = 7
    BY <1>2, RulesFor
  <2>2. /\ t.sym = "access" => p = 13 \/ p = 14
        /\ t.sym = "user" => p = 15 \/ p = 16 \/ p = 17
        /\ t.sym = "group" => p = 18 \/ p = 19 \/ p = 20
        /\ t.sym = "param" => p = 31 \/ p = 32 \/ p = 33
        /\ t.sym = "version" => p = 7
    BY <1>3, RulesFor
  <2> QED BY ONLY <1>7, <2>1, <2>2, SingleRules, t.sym \in Singles DEF Singles
<1>9. \A k \in 1 .. Size(r) : Match(q[k], s[k])
  <2>1. \A k \in 1 .. 1 : k = 1
    OBVIOUS
  <2> QED BY <1>5, <1>7, <2>1
<1> QED BY <1>2, <1>3, <1>8, <1>9, SameRule

\* So is all that is no term and no expression.
LEMMA FirmParts ==
  ASSUME NEW w, TokensValued(w), NEW t, RightReading(t, w), NEW u, RightReading(u, w),
         t.sym = u.sym,
         t.sym \notin {"$accept", "policy", "entries", "entry", "expr", "operand", "term"}
  PROVE  Match(t, u)
<1>1. CASE t.sym \in Singles
  BY <1>1, SinglesMatch
<1>2. CASE t.sym \notin Singles
  <2>1. t.sym \notin Heads \cup {"operand"}
    BY <1>2, HeadsAre DEF Singles
  <2> QED BY <2>1, TokenPart, TokensMatch
<1> QED BY <1>1, <1>2

\* Terms, and the other expressions.
LEMMA TermRules ==
  /\ \A r \in {26, 27, 28, 29, 30} :
        /\ Role(r, 1) \notin Heads \cup {"operand"}
        /\ \A k \in 1 .. Size(r) :
              Role(r, k) \notin {"$accept", "policy", "entries", "entry", "expr",
                                 "operand", "term"}
  /\ Role(26, 1) = "USER" /\ Role(27, 1) = "USER" /\ Role(28, 1) = "GROUP"
  /\ Role(29, 1) = "ID" /\ Role(30, 1) = "ID"
  /\ \A k \in 1 .. 3 : Role(26, k) = Role(27, k)
  /\ Role(29, 2) = Role(30, 2)
  /\ Role(26, 4) = ")" /\ Role(27, 4) = ":" /\ Role(29, 3) = ")" /\ Role(30, 3) = "param"
  /\ Size(26) = 4 /\ Size(27) = 6 /\ Size(28) = 4 /\ Size(29) = 3 /\ Size(30) = 4
<1>1. /\ \A r \in {26, 27, 28, 29, 30} : Sym(r, 1) \notin Heads \cup {"operand"}
      /\ Sym(26, 1) = "USER" /\ Sym(27, 1) = "USER" /\ Sym(28, 1) = "GROUP"
      /\ Sym(29, 1) = "ID" /\ Sym(30, 1) = "ID"
      /\ Sym(26, 2) = Sym(27, 2) /\ Sym(26, 3) = Sym(27, 3)
      /\ Sym(29, 2) = Sym(30, 2)
      /\ Sym(26, 4) = ")" /\ Sym(27, 4) = ":" /\ Sym(29, 3) = ")" /\ Sym(30, 3) = "param"
      /\ Size(26) = 4 /\ Size(27) = 6 /\ Size(28) = 4 /\ Size(29) = 3 /\ Size(30) = 4
  BY ONLY GrammarTable, HeadsAre
<1>2. ASSUME NEW r \in {26, 27, 28, 29, 30}, NEW k \in 1 .. Size(r)
      PROVE  Sym(r, k) \notin {"$accept", "policy", "entries", "entry", "expr", "operand",
                               "term"}
  <2>1. \/ r = 26 /\ (k = 1 \/ k = 2 \/ k = 3 \/ k = 4)
        \/ r = 27 /\ (k = 1 \/ k = 2 \/ k = 3 \/ k = 4 \/ k = 5 \/ k = 6)
        \/ r = 28 /\ (k = 1 \/ k = 2 \/ k = 3 \/ k = 4)
        \/ r = 29 /\ (k = 1 \/ k = 2 \/ k = 3)
        \/ r = 30 /\ (k = 1 \/ k = 2 \/ k = 3 \/ k = 4)
    BY <1>1
  <2> QED BY ONLY <2>1, GrammarTable
<1>3. \A r \in {26, 27, 28, 29, 30} : \A k : Role(r, k) = Sym(r, k)
  BY DEF Role
<1>4. \A k \in 1 .. 3 : k = 1 \/ k = 2 \/ k = 3
  OBVIOUS
<1> QED BY <1>1, <1>2, <1>3, <1>4

\* A term is read in one way.
LEMMA TermsMatch ==
  ASSUME NEW w, TokensValued(w), NEW t, RightReading(t, w), NEW u, RightReading(u, w),
         t.sym = "term", u.sym = "term"
  PROVE  Match(t, u)
<1> SUFFICES ASSUME t.from = u.from PROVE t.to = u.to /\ t.val = u.val
  BY DEF Match
<1>1. "term" \in Heads
  BY HeadsAre
<1>2. PICK r, q : By(t, r, q, w)
  BY <1>1, RulePart
<1>3. PICK p, s : By(u, p, s, w)
  BY <1>1, RulePart
<1>4. r \in {26, 27, 28, 29, 30} /\ p \in {26, 27, 28, 29, 30}
  BY <1>2, <1>3, RulesFor
<1>5. Role(r, 1) = Role(p, 1)
  BY <1>2, <1>3, <1>4, TermRules, FirstToken
<1>6. ASSUME NEW k \in 1 .. Size(r), k \in 1 .. Size(p), Role(r, k) = Role(p, k)
      PROVE  Match(q[k], s[k])
  <2>1. /\ RightReading(q[k], w) /\ q[k].sym = Role(r, k)
        /\ RightReading(s[k], w) /\ s[k].sym = Role(p, k)
    BY <1>2, <1>3, <1>6, Parts
  <2> QED BY <1>4, <1>6, <2>1, TermRules, FirmParts
<1>7. ASSUME (r = 26 /\ p = 27) \/ (r = 27 /\ p = 26)
      PROVE  FALSE
  <2>1. /\ 4 \in 1 .. Size(r) /\ 4 \in 1 .. Size(p)
        /\ \A k \in 1 .. 4 - 1 : k \in 1 .. Size(r) /\ k \in 1 .. Size(p) /\ k \in 1 .. 3
    BY <1>7, TermRules
  <2>2. \A k \in 1 .. 4 - 1 : Match(q[k], s[k])
    BY <1>6, <1>7, <2>1, TermRules
  <2>3. q[4].from = s[4].from
    BY <1>2, <1>3, <2>1, <2>2, Agree
  <2>4. /\ RightReading(q[4], w) /\ q[4].sym = Role(r, 4)
        /\ RightReading(s[4], w) /\ s[4].sym = Role(p, 4)
    BY <1>2, <1>3, <2>1, Parts
  <2>5. Role(r, 4) # Role(p, 4) /\ {Role(r, 4), Role(p, 4)} \subseteq {")", ":"}
    BY <1>7, TermRules
  <2>6. IsToken(q[4], w) /\ IsToken(s[4], w)
    BY <2>4, <2>5, HeadsAre, TokenPart
  <2> QED BY <2>3, <2>4, <2>5, <2>6, TokensMatch
<1>8. ASSUME (r = 29 /\ p = 30) \/ (r = 30 /\ p = 29)
      PROVE  FALSE
  <2>1. /\ 3 \in 1 .. Size(r) /\ 3 \in 1 .. Size(p)
        /\ \A k \in 1 .. 3 - 1 : k \in 1 .. Size(r) /\ k \in 1 .. Size(p)
                                 /\ (k = 1 \/ k = 2)
    BY <1>8, TermRules
  <2>2. \A k \in 1 .. 3 - 1 : Match(q[k], s[k])
    BY <1>6, <1>8, <2>1, TermRules
  <2>3. q[3].from = s[3].from
    BY <1>2, <1>3, <2>1, <2>2, Agree
  <2>4. /\ RightReading(q[3], w) /\ q[3].sym = Role(r, 3)
        /\ RightReading(s[3], w) /\ s[3].sym = Role(p, 3)
    BY <1>2, <1>3, <2>1, Parts
  <2>5. ASSUME NEW x, RightReading(x, w), x.sym = "param",
               NEW y, RightReading(y, w), y.sym = ")", x.from = y.from
        PROVE  FALSE
    <3>1. PICK i, v : By(x, i, v, w)
      BY <2>5, HeadsAre, RulePart
    <3>2. i \in {31, 32, 33}
      BY <2>5, <3>1, RulesFor
    <3>3. Role(i, 1) \in {"WORD", "STRING", "WILDCARD"}
      BY <3>2, SingleRules
    <3>4. w[x.from + 1].sym \in {"WORD", "STRING", "WILDCARD"}
      BY <3>1, <3>3, HeadsAre, FirstToken
    <3>5. IsToken(y, w)
      BY <2>5, HeadsAre, TokenPart
    <3> QED BY <2>5, <3>4, <3>5 DEF IsToken
  <2> QED BY <1>8, <2>3, <2>4, <2>5, TermRules
<1>9. r = p
  <2>1. r = p \/ (r = 26 /\ p = 27) \/ (r = 27 /\ p = 26) \/ (r = 29 /\ p = 30)
          \/ (r = 30 /\ p = 29)
    BY <1>4, <1>5, TermRules
  <2> QED BY <1>7, <1>8, <2>1
<1>10. \A k \in 1 .. Size(r) : Match(q[k], s[k])
  BY <1>6, <1>9
<1> QED BY <1>2, <1>3, <1>9, <1>10, SameRule

\* A term begins with a word for what it is about.
LEMMA TermBegins ==
  ASSUME NEW w, TokensValued(w), NEW t, RightReading(t, w), t.sym = "term"
  PROVE  w[t.from + 1].sym \in {"USER", "GROUP", "ID"}
<1>1. PICK r, q : By(t, r, q, w)
  BY HeadsAre, RulePart
<1>2. r \in {26, 27, 28, 29, 30}
  BY <1>1, RulesFor
<1>3. Role(r, 1) \in {"USER", "GROUP", "ID"} /\ Role(r, 1) \notin Heads \cup {"operand"}
  BY <1>2, TermRules
<1> QED BY <1>1, <1>3, FirstToken

\* The rules for expressions.
LEMMA ExprRules ==
  /\ Size(21) = 1 /\ Role(21, 1) = "term"
  /\ Size(22) = 2 /\ Role(22, 1) = "!" /\ Role(22, 2) = "expr"
  /\ Size(23) = 3 /\ Role(23, 1) = "(" /\ Role(23, 2) = "expr" /\ Role(23, 3) = ")"
  /\ \A r \in {24, 25} : Size(r) = 3 /\ Role(r, 1) = "operand" /\ Role(r, 3) = "expr"
  /\ Role(24, 2) = "|" /\ Role(25, 2) = "&"
<1>1. /\ Size(21) = 1 /\ Sym(21, 1) = "term"
      /\ Size(22) = 2 /\ Sym(22, 1) = "!" /\ Sym(22, 2) = "expr"
      /\ Size(23) = 3 /\ Sym(23, 1) = "(" /\ Sym(23, 2) = "expr" /\ Sym(23, 3) = ")"
      /\ Size(24) = 3 /\ Size(25) = 3 /\ Sym(24, 3) = "expr" /\ Sym(25, 3) = "expr"
      /\ Sym(24, 2) = "|" /\ Sym(25, 2) = "&"
  BY ONLY GrammarTable
<1> QED BY <1>1 DEF Role

\* The parts of an expression, by the rules for them.
Primary(t, w) == \E r \in {21, 23} : \E q : By(t, r, q, w)
Negation(t, w) == \E q : By(t, 22, q, w)
Joined(t, w) == \E r \in {24, 25} : \E q : By(t, r, q, w)

\* An operand is primary, and an expression is one of the three.
LEMMA ExprParts ==
  ASSUME NEW w, TokensValued(w), NEW t, RightReading(t, w)
  PROVE  /\ t.sym = "operand" => Primary(t, w)
         /\ t.sym = "expr" => Primary(t, w) \/ Negation(t, w) \/ Joined(t, w)
<1>1. CASE t.sym \in {"operand", "expr"}
  <2>1. PICK r, q : By(t, r, q, w)
    BY <1>1, HeadsAre, RulePart
  <2>2. /\ t.sym = "operand" => r = 21 \/ r = 23
        /\ t.sym = "expr" => r = 21 \/ r = 22 \/ r = 23 \/ r = 24 \/ r = 25
    BY <2>1, RulesFor
  <2> QED BY <2>1, <2>2 DEF Primary, Negation, Joined
<1> QED BY <1>1

\* The first token tells them apart: of an operand,
LEMMA PrimaryBegins ==
  ASSUME NEW w, TokensValued(w), NEW t, NEW r, NEW q, By(t, r, q, w)
  PROVE  /\ r = 21 => w[t.from + 1].sym \in {"USER", "GROUP", "ID"}
         /\ r = 23 => w[t.from + 1].sym = "("
<1>1. CASE r = 21
  <2>1. RightReading(q[1], w) /\ q[1].sym = "term" /\ q[1].from = t.from
    <3>1. 1 \in 1 .. Size(r)
      BY <1>1, ExprRules
    <3>2. RightReading(q[1], w) /\ q[1].sym = Role(r, 1)
      BY <3>1, Parts
    <3>3. q[1].from = t.from
      BY DEF By
    <3> QED BY <1>1, <3>2, <3>3, ExprRules
  <2> QED BY <1>1, <2>1, TermBegins
<1>2. CASE r = 23
  BY <1>2, ExprRules, HeadsAre, FirstToken
<1> QED BY <1>1, <1>2

\* and of an expression with an operator.
LEMMA FirstOperand ==
  ASSUME NEW w, TokensValued(w), NEW t, NEW r \in {24, 25}, NEW q, By(t, r, q, w)
  PROVE  /\ Primary(q[1], w) /\ q[1].from = t.from /\ q[1].to < t.to
         /\ IsToken(q[2], w) /\ q[2].sym = Role(r, 2) /\ q[2].from = q[1].to
         /\ RightReading(q[3], w) /\ q[3].sym = "expr" /\ q[3].from = q[2].to
         /\ t.from < q[3].from
<1>1. Size(r) = 3 /\ Role(r, 1) = "operand" /\ Role(r, 3) = "expr"
      /\ Role(r, 2) \in {"|", "&"}
  BY ExprRules
<1>2. 1 \in 1 .. Size(r) /\ 2 \in 1 .. Size(r) /\ 3 \in 1 .. Size(r)
      /\ 1 # Size(r) /\ 2 # Size(r) /\ 1 + 1 = 2 /\ 2 + 1 = 3
  BY <1>1
<1>3. /\ RightReading(q[1], w) /\ q[1].sym = "operand" /\ q[1].to = q[2].from
      /\ q[1].from < q[1].to /\ q[1].from \in Nat /\ q[1].to \in Nat
  BY <1>1, <1>2, Parts
<1>4. /\ RightReading(q[2], w) /\ q[2].sym = Role(r, 2) /\ q[2].to = q[3].from
      /\ q[2].from < q[2].to /\ q[2].to \in Nat
  BY <1>1, <1>2, Parts
<1>5. /\ RightReading(q[3], w) /\ q[3].sym = "expr"
      /\ q[3].from < q[3].to /\ q[3].to \in Nat
  BY <1>1, <1>2, Parts
<1>6. t.from = q[1].from /\ t.to = q[3].to
  BY <1>1 DEF By
<1>7. IsToken(q[2], w)
  BY <1>1, <1>4, HeadsAre, TokenPart
<1> QED BY <1>3, <1>4, <1>5, <1>6, <1>7, ExprParts

\* An expression does not begin with "*".
LEMMA ExprBegins ==
  ASSUME NEW w, TokensValued(w), NEW t, RightReading(t, w), t.sym = "expr"
  PROVE  w[t.from + 1].sym \in {"USER", "GROUP", "ID", "(", "!"}
<1>1. ASSUME NEW x, Primary(x, w)
      PROVE  w[x.from + 1].sym \in {"USER", "GROUP", "ID", "("}
  BY <1>1, PrimaryBegins DEF Primary
<1>2. CASE Negation(t, w)
  <2>1. PICK q : By(t, 22, q, w)
    BY <1>2 DEF Negation
  <2> QED BY <2>1, ExprRules, HeadsAre, FirstToken
<1>3. CASE Joined(t, w)
  <2>1. PICK r \in {24, 25} : \E q : By(t, r, q, w)
    BY <1>3 DEF Joined
  <2>2. PICK q : Primary(q[1], w) /\ q[1].from = t.from
    BY <2>1, FirstOperand
  <2>3. w[q[1].from + 1].sym \in {"USER", "GROUP", "ID", "("}
    BY <1>1, <2>2
  <2> QED BY <2>2, <2>3
<1> QED BY <1>1, <1>2, <1>3, ExprParts

\* From every place one operand, and expressions of which one goes on with an operator
\* where the other one ends.
FirmFrom(n, w) ==
    /\ \A x, y : Primary(x, w) /\ Primary(y, w) /\ x.from = n => Match(x, y)
    /\ \A x, y : /\ RightReading(x, w) /\ x.sym = "expr" /\ x.from = n
                 /\ RightReading(y, w) /\ y.sym = "expr"
                 => Loose(x, y, w, Operators)

\* A shorter expression decides what is longer.
LEMMA LooseSymmetric ==
  ASSUME NEW w, NEW x, NEW y, NEW F, Loose(x, y, w, F)
  PROVE  Loose(y, x, w, F)
BY DEF Loose

\* Operands, if the expressions from later places are so.
LEMMA PrimariesFirm ==
  ASSUME NEW w, TokensValued(w), NEW n \in Nat, \A m \in Nat : n < m => FirmFrom(m, w),
         NEW x, Primary(x, w), x.from = n, NEW y, Primary(y, w)
  PROVE  Match(x, y)
<1> SUFFICES ASSUME y.from = n PROVE Match(x, y)
  BY DEF Match
<1>1. PICK r \in {21, 23} : \E q : By(x, r, q, w)
  BY DEF Primary
<1>2. PICK q : By(x, r, q, w)
  BY <1>1
<1>3. PICK p \in {21, 23} : \E s : By(y, p, s, w)
  BY DEF Primary
<1>4. PICK s : By(y, p, s, w)
  BY <1>3
<1>5. r = p
  <2>1. /\ r = 21 => w[n + 1].sym \in {"USER", "GROUP", "ID"}
        /\ r = 23 => w[n + 1].sym = "("
    BY <1>2, PrimaryBegins
  <2>2. /\ p = 21 => w[n + 1].sym \in {"USER", "GROUP", "ID"}
        /\ p = 23 => w[n + 1].sym = "("
    BY <1>4, PrimaryBegins
  <2> QED BY <2>1, <2>2
<1>6. ASSUME NEW k \in 1 .. Size(r)
      PROVE  /\ RightReading(q[k], w) /\ q[k].sym = Role(r, k)
             /\ RightReading(s[k], w) /\ s[k].sym = Role(r, k)
  BY <1>2, <1>4, <1>5, Parts
<1>7. CASE r = 21
  <2>1. \A k \in 1 .. Size(r) : k = 1
    BY <1>7, ExprRules
  <2>2. \A k \in 1 .. Size(r) : Match(q[k], s[k])
    BY <1>6, <1>7, <2>1, ExprRules, TermsMatch
  <2> QED BY <1>2, <1>4, <1>5, <2>2, SameRule DEF Match
<1>8. CASE r = 23
  <2>1. /\ 1 \in 1 .. Size(r) /\ 2 \in 1 .. Size(r) /\ 3 \in 1 .. Size(r)
        /\ 2 \in 1 .. Size(r) - 1 /\ 1 # Size(r) /\ 1 + 1 = 2 /\ 2 + 1 = 3
        /\ \A k \in 1 .. Size(r) : k = 1 \/ k = 2 \/ k = 3
    BY <1>8, ExprRules
  <2>2. /\ Role(r, 1) = "(" /\ Role(r, 2) = "expr" /\ Role(r, 3) = ")"
    BY <1>8, ExprRules
  <2>3. Match(q[1], s[1])
    BY <1>6, <2>1, <2>2, FirmParts
  <2>4. q[2].from \in Nat /\ n < q[2].from
    <3>1. /\ q[1].from < q[1].to /\ q[1].to = q[2].from /\ q[1].from \in Nat
          /\ q[1].to \in Nat
      BY <1>2, <2>1, Parts
    <3>2. q[1].from = n
      BY <1>2 DEF By
    <3> QED BY <3>1, <3>2
  <2>5. Loose(q[2], s[2], w, Operators)
    BY <1>6, <2>1, <2>2, <2>4 DEF FirmFrom
  <2>6. Match(q[2], s[2])
    <3>1. Role(r, 2 + 1) = Role(p, 2 + 1)
          /\ Role(r, 2 + 1) \notin Heads \cup {"operand"} \cup Operators
      BY <1>5, <2>1, <2>2, HeadsAre DEF Operators
    <3> QED BY <1>2, <1>4, <1>5, <2>1, <2>5, <3>1, LooseThenToken
  <2>7. Match(q[3], s[3])
    BY <1>6, <2>1, <2>2, FirmParts
  <2>8. \A k \in 1 .. Size(r) : Match(q[k], s[k])
    BY <2>1, <2>3, <2>6, <2>7
  <2> QED BY <1>2, <1>4, <1>5, <2>8, SameRule DEF Match
<1> QED BY <1>7, <1>8

\* A negation and another expression: the second one is a negation.
LEMMA NegationsFirm ==
  ASSUME NEW w, TokensValued(w), NEW n \in Nat, \A m \in Nat : n < m => FirmFrom(m, w),
         NEW x, Negation(x, w), x.from = n,
         NEW y, RightReading(y, w), y.sym = "expr"
  PROVE  Loose(x, y, w, Operators)
<1> SUFFICES ASSUME y.from = n PROVE Loose(x, y, w, Operators)
  BY DEF Loose
<1>1. PICK q : By(x, 22, q, w)
  BY DEF Negation
<1>2. w[n + 1].sym = "!"
  BY <1>1, ExprRules, HeadsAre, FirstToken
<1>3. ASSUME NEW z, Primary(z, w), z.from = n
      PROVE  FALSE
  <2>1. w[n + 1].sym \in {"USER", "GROUP", "ID", "("}
    BY <1>3, PrimaryBegins DEF Primary
  <2> QED BY <1>2, <2>1
<1>4. ~ Joined(y, w)
  <2> SUFFICES ASSUME NEW p \in {24, 25}, NEW s, By(y, p, s, w) PROVE FALSE
    BY DEF Joined
  <2> QED BY <1>3, FirstOperand
<1>5. PICK s : By(y, 22, s, w)
  BY <1>3, <1>4, ExprParts DEF Negation
<1>6. /\ 1 \in 1 .. Size(22) /\ 2 \in 1 .. Size(22) /\ 1 # Size(22) /\ 1 + 1 = 2
      /\ Size(22) = 2 /\ \A k \in 1 .. Size(22) - 1 : k = 1
  BY ExprRules
<1>7. /\ RightReading(q[1], w) /\ q[1].sym = "!" /\ RightReading(q[2], w)
      /\ q[2].sym = "expr" /\ q[1].to = q[2].from /\ q[1].from < q[1].to
      /\ q[1].from \in Nat /\ q[1].to \in Nat
  BY <1>1, <1>6, ExprRules, Parts
<1>8. /\ RightReading(s[1], w) /\ s[1].sym = "!" /\ RightReading(s[2], w)
      /\ s[2].sym = "expr"
  BY <1>5, <1>6, ExprRules, Parts
<1>9. q[1].from = n
  BY <1>1 DEF By
<1>10. Loose(q[2], s[2], w, Operators)
  BY <1>7, <1>8, <1>9 DEF FirmFrom
<1>11. \A k \in 1 .. Size(22) - 1 : Match(q[k], s[k])
  BY <1>6, <1>7, <1>8, FirmParts
<1> QED BY <1>1, <1>5, <1>6, <1>10, <1>11, SameRuleLoose

\* An expression with an operator, and another expression.
LEMMA OperationsFirm ==
  ASSUME NEW w, TokensValued(w), NEW n \in Nat, \A m \in Nat : n < m => FirmFrom(m, w),
         NEW x, RightReading(x, w), Joined(x, w), x.from = n,
         NEW y, RightReading(y, w), Primary(y, w) \/ Joined(y, w)
  PROVE  Loose(x, y, w, Operators)
<1> SUFFICES ASSUME y.from = n PROVE Loose(x, y, w, Operators)
  BY DEF Loose
<1>1. PICK r \in {24, 25} : \E q : By(x, r, q, w)
  BY DEF Joined
<1>2. PICK q : By(x, r, q, w)
  BY <1>1
<1>3. /\ Primary(q[1], w) /\ q[1].from = n /\ q[1].to < x.to
      /\ IsToken(q[2], w) /\ q[2].sym = Role(r, 2) /\ q[2].from = q[1].to
      /\ RightReading(q[3], w) /\ q[3].sym = "expr" /\ q[3].from = q[2].to
      /\ n < q[3].from
  BY <1>2, FirstOperand
<1>4. Role(24, 2) = "|" /\ Role(25, 2) = "&" /\ Role(r, 2) \in Operators
  BY ExprRules DEF Operators
<1>5. CASE Primary(y, w)
  <2>1. q[1].to = y.to
    BY <1>3, <1>5, PrimariesFirm DEF Match
  <2>2. w[y.to + 1].sym \in Operators
    BY <1>3, <1>4, <2>1 DEF IsToken
  <2>3. y.to < x.to
    BY <1>3, <2>1
  <2> QED BY <2>2, <2>3 DEF Loose
<1>6. CASE Joined(y, w)
  <2>1. PICK p \in {24, 25} : \E s : By(y, p, s, w)
    BY <1>6 DEF Joined
  <2>2. PICK s : By(y, p, s, w)
    BY <2>1
  <2>3. /\ Primary(s[1], w) /\ s[1].from = n
        /\ IsToken(s[2], w) /\ s[2].sym = Role(p, 2) /\ s[2].from = s[1].to
        /\ RightReading(s[3], w) /\ s[3].sym = "expr" /\ s[3].from = s[2].to
    BY <2>2, FirstOperand
  <2>4. Match(q[1], s[1]) /\ q[1].to = s[1].to
    BY <1>3, <2>3, PrimariesFirm DEF Match
  <2>5. Match(q[2], s[2]) /\ Role(r, 2) = Role(p, 2)
    BY <1>3, <2>3, <2>4, TokensMatch
  <2>6. r = p
    BY <1>4, <2>5
  <2>7. q[3].from \in Nat
    BY <1>3, RightSpans
  <2>8. Loose(q[3], s[3], w, Operators)
    BY <1>3, <2>3, <2>7 DEF FirmFrom
  <2>9. Size(r) = 3 /\ \A k \in 1 .. Size(r) - 1 : k = 1 \/ k = 2
    BY ExprRules
  <2>10. \A k \in 1 .. Size(r) - 1 : Match(q[k], s[k])
    BY <2>4, <2>5, <2>9
  <2> QED BY <1>2, <2>2, <2>6, <2>8, <2>9, <2>10, SameRuleLoose
<1> QED BY <1>5, <1>6

\* So the expressions from one place are as those from later places are.
LEMMA FirmBefore ==
  ASSUME NEW w, TokensValued(w), NEW n \in Nat, \A m \in Nat : n < m => FirmFrom(m, w)
  PROVE  FirmFrom(n, w)
<1>1. ASSUME NEW x, NEW y, Primary(x, w), Primary(y, w), x.from = n
      PROVE  Match(x, y)
  BY <1>1, PrimariesFirm
<1>2. ASSUME NEW x, RightReading(x, w), x.sym = "expr", x.from = n,
             NEW y, RightReading(y, w), y.sym = "expr"
      PROVE  Loose(x, y, w, Operators)
  <2> SUFFICES ASSUME y.from = n PROVE Loose(x, y, w, Operators)
    BY <1>2 DEF Loose
  <2>1. /\ Primary(x, w) \/ Negation(x, w) \/ Joined(x, w)
        /\ Primary(y, w) \/ Negation(y, w) \/ Joined(y, w)
    BY <1>2, ExprParts
  <2>2. CASE Negation(x, w)
    BY <1>2, <2>2, NegationsFirm
  <2>3. CASE Negation(y, w)
    BY <1>2, <2>3, NegationsFirm, LooseSymmetric
  <2>4. CASE Joined(x, w) /\ (Primary(y, w) \/ Joined(y, w))
    BY <1>2, <2>4, OperationsFirm
  <2>5. CASE Joined(y, w) /\ Primary(x, w)
    BY <1>2, <2>5, OperationsFirm, LooseSymmetric
  <2>6. CASE Primary(x, w) /\ Primary(y, w)
    BY <1>1, <1>2, <2>6 DEF Match, Loose
  <2> QED BY <2>1, <2>2, <2>3, <2>4, <2>5, <2>6
<1> QED BY <1>1, <1>2 DEF FirmFrom

\* Nothing begins after the last token; so it is from there back to the first one.
LEMMA FirmEverywhere ==
  ASSUME NEW w, TokensValued(w), NEW n \in Nat
  PROVE  FirmFrom(n, w)
<1> DEFINE N == Len(w) + n + 1
           T == {i \in 0 .. N : \A m \in Nat : N - i <= m => FirmFrom(m, w)}
<1>1. N \in Nat /\ N - (N - n) = n /\ N - n \in 0 .. N
  BY DEF TokensValued
<1>2. ASSUME NEW m \in Nat, N <= m
      PROVE  FirmFrom(m, w)
  <2>1. \A x : RightReading(x, w) => x.from # m
    BY <1>2, RightSpans DEF TokensValued
  <2>2. \A x : Primary(x, w) => x.from # m
    <3> SUFFICES ASSUME NEW x, Primary(x, w), x.from = m PROVE FALSE
      OBVIOUS
    <3>1. PICK r \in {21, 23} : \E q : By(x, r, q, w)
      BY DEF Primary
    <3>2. PICK q : By(x, r, q, w)
      BY <3>1
    <3>3. 1 \in 1 .. Size(r)
      BY ExprRules
    <3>4. RightReading(q[1], w) /\ q[1].from = m
      BY <3>2, <3>3 DEF By
    <3> QED BY <2>1, <3>4
  <2> QED BY <2>1, <2>2 DEF FirmFrom
<1> HIDE DEF N
<1>3. 0 \in T
  BY <1>1, <1>2
<1>4. ASSUME NEW i \in 0 .. N - 1, i \in T
      PROVE  i + 1 \in T
  <2>1. i \in Nat /\ i + 1 \in 0 .. N /\ N - (i + 1) \in Nat
    BY <1>1
  <2>2. \A m \in Nat : N - (i + 1) < m => N - i <= m
    BY <1>1, <2>1
  <2>3. \A m \in Nat : N - (i + 1) < m => FirmFrom(m, w)
    BY <1>4, <2>2
  <2>4. FirmFrom(N - (i + 1), w)
    BY <2>1, <2>3, FirmBefore
  <2>5. \A m \in Nat : N - (i + 1) <= m => N - (i + 1) = m \/ N - (i + 1) < m
    BY <1>1, <2>1
  <2> QED BY <2>1, <2>3, <2>4, <2>5
<1>5. 0 .. N \subseteq T
  <2> HIDE DEF T
  <2> QED BY <1>1, <1>3, <1>4, UpTo
<1>6. N - n \in T
  BY <1>1, <1>5
<1> QED BY <1>1, <1>6

\* Expressions: one goes on with an operator where the other one ends.
LEMMA ExprsLoose ==
  ASSUME NEW w, TokensValued(w), NEW x, RightReading(x, w), x.sym = "expr",
         NEW y, RightReading(y, w), y.sym = "expr"
  PROVE  Loose(x, y, w, Operators)
<1>1. x.from \in Nat
  BY RightSpans
<1> QED BY <1>1, FirmEverywhere DEF FirmFrom

\* The rules for entries.
LEMMA EntryRules ==
  /\ Size(10) = 3 /\ Role(10, 1) = "*" /\ Role(10, 2) = "=" /\ Role(10, 3) = "access"
  /\ Size(11) = 3 /\ Role(11, 1) = "expr" /\ Role(11, 2) = "=" /\ Role(11, 3) = "access"
  /\ Size(12) = 1 /\ Role(12, 1) = "expr"
<1>1. /\ Size(10) = 3 /\ Sym(10, 1) = "*" /\ Sym(10, 2) = "=" /\ Sym(10, 3) = "access"
      /\ Size(11) = 3 /\ Sym(11, 1) = "expr" /\ Sym(11, 2) = "=" /\ Sym(11, 3) = "access"
      /\ Size(12) = 1 /\ Sym(12, 1) = "expr"
  BY ONLY GrammarTable
<1> QED BY <1>1 DEF Role

\* An entry without an access may be the beginning of one with an access.
AfterEntry == Operators \cup {"="}

\* The first part of an entry: an expression, or "*".
LEMMA EntryFirst ==
  ASSUME NEW w, TokensValued(w), NEW t, NEW r \in {10, 11, 12}, NEW q, By(t, r, q, w)
  PROVE  /\ RightReading(q[1], w) /\ q[1].sym = Role(r, 1) /\ q[1].from = t.from
         /\ r = 10 => w[t.from + 1].sym = "*"
         /\ r # 10 => w[t.from + 1].sym \in {"USER", "GROUP", "ID", "(", "!"}
<1>1. 1 \in 1 .. Size(r)
  BY EntryRules
<1>2. RightReading(q[1], w) /\ q[1].sym = Role(r, 1) /\ q[1].from = t.from
  <2>1. RightReading(q[1], w) /\ q[1].sym = Role(r, 1)
    BY <1>1, Parts
  <2>2. q[1].from = t.from
    BY DEF By
  <2> QED BY <2>1, <2>2
<1>3. r = 10 => w[t.from + 1].sym = "*"
  BY EntryRules, HeadsAre, FirstToken
<1>4. r # 10 => w[t.from + 1].sym \in {"USER", "GROUP", "ID", "(", "!"}
  BY <1>2, EntryRules, ExprBegins
<1> QED BY <1>2, <1>3, <1>4

\* Entries by the same rule.
LEMMA SameEntries ==
  ASSUME NEW w, TokensValued(w), NEW r \in {10, 11, 12}, NEW t, NEW q, By(t, r, q, w),
         NEW u, NEW s, By(u, r, s, w), t.from = u.from
  PROVE  Loose(t, u, w, AfterEntry)
<1>1. ASSUME NEW k \in 1 .. Size(r)
      PROVE  /\ RightReading(q[k], w) /\ q[k].sym = Role(r, k)
             /\ RightReading(s[k], w) /\ s[k].sym = Role(r, k)
  BY Parts
<1>2. CASE r = 12
  <2>1. Size(r) = 1 /\ 1 \in 1 .. Size(r) /\ \A k \in 1 .. Size(r) - 1 : FALSE
    BY <1>2, EntryRules
  <2>2. Loose(q[1], s[1], w, Operators)
    BY <1>1, <1>2, <2>1, EntryRules, ExprsLoose
  <2>3. Loose(q[Size(r)], s[Size(r)], w, AfterEntry)
    BY <2>1, <2>2 DEF Loose, AfterEntry
  <2> QED BY <2>1, <2>3, SameRuleLoose
<1>3. CASE r \in {10, 11}
  <2>1. /\ Size(r) = 3 /\ 1 \in 1 .. Size(r) - 1 /\ 1 + 1 = 2
        /\ 1 \in 1 .. Size(r) /\ 2 \in 1 .. Size(r) /\ 3 \in 1 .. Size(r)
        /\ \A k \in 1 .. Size(r) : k = 1 \/ k = 2 \/ k = 3
    BY <1>3, EntryRules
  <2>2. Role(r, 2) = "=" /\ Role(r, 3) = "access" /\ Role(r, 1) \in {"*", "expr"}
    BY <1>3, EntryRules
  <2>3. Match(q[1], s[1])
    <3>1. CASE Role(r, 1) = "*"
      BY <1>1, <2>1, <3>1, FirmParts
    <3>2. CASE Role(r, 1) = "expr"
      <4>1. Loose(q[1], s[1], w, Operators)
        BY <1>1, <2>1, <3>2, ExprsLoose
      <4>2. Role(r, 1 + 1) \notin Heads \cup {"operand"} \cup Operators
        BY <2>1, <2>2, HeadsAre DEF Operators
      <4> QED BY <2>1, <4>1, <4>2, LooseThenToken
    <3> QED BY <2>2, <3>1, <3>2
  <2>4. Match(q[2], s[2]) /\ Match(q[3], s[3])
    BY <1>1, <2>1, <2>2, FirmParts
  <2>5. \A k \in 1 .. Size(r) : Match(q[k], s[k])
    BY <2>1, <2>3, <2>4
  <2> QED BY <2>5, SameRule DEF Loose
<1> QED BY <1>2, <1>3

\* One with an access, and one without.
LEMMA LongerEntry ==
  ASSUME NEW w, TokensValued(w), NEW t, NEW q, By(t, 11, q, w),
         NEW u, NEW s, By(u, 12, s, w), t.from = u.from
  PROVE  Loose(t, u, w, AfterEntry)
<1>1. /\ 1 \in 1 .. Size(11) /\ 2 \in 1 .. Size(11) /\ 3 \in 1 .. Size(11)
      /\ 1 # Size(11) /\ 2 # Size(11) /\ 1 + 1 = 2 /\ 2 + 1 = 3
      /\ 1 \in 1 .. Size(12) /\ Size(11) = 3 /\ Size(12) = 1
  BY EntryRules
<1>2. /\ RightReading(q[1], w) /\ q[1].sym = "expr" /\ q[1].to = q[2].from
      /\ q[1].to \in Nat
  BY <1>1, EntryRules, Parts
<1>3. /\ RightReading(q[2], w) /\ q[2].sym = "=" /\ q[2].from < q[2].to
      /\ q[2].to = q[3].from /\ q[2].to \in Nat
  BY <1>1, EntryRules, Parts
<1>4. q[3].from < q[3].to /\ q[3].to \in Nat
  BY <1>1, Parts
<1>5. RightReading(s[1], w) /\ s[1].sym = "expr" /\ s[1].to \in Nat
  BY <1>1, EntryRules, Parts
<1>6. q[1].from = t.from /\ q[3].to = t.to /\ s[1].from = t.from /\ s[1].to = u.to
  BY <1>1 DEF By
<1>7. w[q[1].to + 1].sym = "="
  BY <1>2, <1>3, HeadsAre, TokenPart DEF IsToken
<1>8. "=" \notin Operators
  BY DEF Operators
<1>9. Loose(q[1], s[1], w, Operators)
  BY <1>2, <1>5, ExprsLoose
<1>10. s[1].to = q[1].to \/ (s[1].to < q[1].to /\ w[s[1].to + 1].sym \in Operators)
  BY <1>6, <1>7, <1>8, <1>9 DEF Loose
<1>11. q[1].to < t.to
  BY <1>2, <1>3, <1>4, <1>6
<1>12. u.to < t.to
  BY <1>2, <1>4, <1>5, <1>6, <1>10, <1>11
<1>13. w[u.to + 1].sym \in AfterEntry
  BY <1>6, <1>7, <1>10 DEF AfterEntry
<1> QED BY <1>12, <1>13 DEF Loose

\* Entries: one goes on with an operator or "=" where the other one ends.
LEMMA EntriesLoose ==
  ASSUME NEW w, TokensValued(w), NEW t, RightReading(t, w), t.sym = "entry",
         NEW u, RightReading(u, w), u.sym = "entry"
  PROVE  Loose(t, u, w, AfterEntry)
<1> SUFFICES ASSUME t.from = u.from PROVE Loose(t, u, w, AfterEntry)
  BY DEF Loose
<1>1. PICK r, q : By(t, r, q, w)
  BY HeadsAre, RulePart
<1>2. PICK p, s : By(u, p, s, w)
  BY HeadsAre, RulePart
<1>3. r \in {10, 11, 12} /\ p \in {10, 11, 12}
  BY <1>1, <1>2, RulesFor
<1>4. r = 10 <=> p = 10
  BY <1>1, <1>2, <1>3, EntryFirst
<1>5. CASE r = p
  BY <1>1, <1>2, <1>3, <1>5, SameEntries
<1>6. CASE r = 11 /\ p = 12
  BY <1>1, <1>2, <1>6, LongerEntry
<1>7. CASE r = 12 /\ p = 11
  BY <1>1, <1>2, <1>7, LongerEntry, LooseSymmetric
<1> QED BY <1>3, <1>4, <1>5, <1>6, <1>7

\* What lies between is within one of the parts.
LEMMA Within ==
  ASSUME NEW w, TokensValued(w), NEW t, NEW r, NEW q, By(t, r, q, w),
         NEW i \in t.from + 1 .. t.to
  PROVE  \E k \in 1 .. Size(r) : i \in q[k].from + 1 .. q[k].to
<1> DEFINE n == Size(r)
           T == {j \in 0 .. n - 1 : \A m \in q[1].from + 1 .. q[j + 1].to :
                    \E k \in 1 .. n : m \in q[k].from + 1 .. q[k].to}
<1>1. n \in 1 .. 6 /\ n - 1 \in Nat /\ n - 1 \in 0 .. n - 1 /\ (n - 1) + 1 = n
      /\ 1 \in 1 .. n /\ 0 + 1 = 1 /\ 0 \in 0 .. n - 1
  <2>1. n \in 1 .. 6
    BY Parts, GrammarRules DEF By
  <2> QED BY <2>1
<1>2. t.from = q[1].from /\ t.to = q[n].to
  BY DEF By
<1>3. ASSUME NEW k \in 1 .. n
      PROVE  /\ q[k].from \in Nat /\ q[k].to \in Nat
             /\ k # n => k + 1 \in 1 .. n /\ q[k].to = q[k + 1].from
  BY Parts
<1> HIDE DEF n
<1>4. 0 \in T
  <2>1. \A m \in q[1].from + 1 .. q[0 + 1].to : m \in q[1].from + 1 .. q[1].to
    BY <1>1
  <2> QED BY <1>1, <2>1
<1>5. ASSUME NEW j \in 0 .. (n - 1) - 1, j \in T
      PROVE  j + 1 \in T
  <2> DEFINE h == j + 1
  <2>1. h \in 0 .. n - 1 /\ h \in 1 .. n /\ h # n /\ h + 1 \in 1 .. n
    BY <1>1
  <2>2. q[h].to = q[h + 1].from /\ q[h].to \in Nat /\ q[h + 1].to \in Nat
        /\ q[1].from \in Nat
    BY <1>1, <1>3, <2>1
  <2>3. \A m \in q[1].from + 1 .. q[h].to :
            \E k \in 1 .. n : m \in q[k].from + 1 .. q[k].to
    BY <1>5
  <2> HIDE DEF h
  <2>4. \A m \in q[1].from + 1 .. q[h + 1].to :
            \/ m \in q[1].from + 1 .. q[h].to
            \/ m \in q[h + 1].from + 1 .. q[h + 1].to
    BY <2>2
  <2>5. \A m \in q[1].from + 1 .. q[h + 1].to :
            \E k \in 1 .. n : m \in q[k].from + 1 .. q[k].to
    BY <2>1, <2>3, <2>4
  <2>6. h \in T
    BY <2>1, <2>5
  <2> QED BY <2>6 DEF h
<1>6. 0 .. n - 1 \subseteq T
  <2> HIDE DEF T
  <2> QED BY <1>1, <1>4, <1>5, UpTo
<1>7. n - 1 \in T
  BY <1>1, <1>6
<1>8. \A m \in q[1].from + 1 .. q[n].to :
          \E k \in 1 .. n : m \in q[k].from + 1 .. q[k].to
  BY <1>1, <1>7
<1> QED BY <1>2, <1>8 DEF n

\* Only the lists of entries, and the policy, hold semicolons.
Listing == {"semicolon", "entries", "policy"}

\* The rules for everything else have none of these.
LEMMA ListingRules ==
  \A r \in Rules \ {1} : Lhs(r) \notin Listing =>
      \A k \in 1 .. Size(r) : Role(r, k) \notin Listing
<1>1. ASSUME NEW r \in Rules \ {1}, Lhs(r) \notin Listing, NEW k \in 1 .. Size(r)
      PROVE  Sym(r, k) \notin Listing
  <2>1. OneByOne(r) /\ Size(r) \in 1 .. 6
    BY GrammarRules
  <2>2. k = 1 \/ k = 2 \/ k = 3 \/ k = 4 \/ k = 5 \/ k = 6
    BY <2>1
  <2>3. k <= Size(r)
    BY <2>1
  <2> QED BY ONLY <1>1, <2>1, <2>2, <2>3, GrammarTable DEF OneByOne, Listing
<1> QED BY <1>1 DEF Role, Listing

\* Between the first and the last token of all other symbols stands no semicolon, if
\* there is none in their parts;
LEMMA SemicolonFree ==
  ASSUME NEW w, TokensValued(w), NEW t, NEW r, NEW q, By(t, r, q, w), t.sym \notin Listing,
         \A k \in 1 .. Size(r) : q[k].sym \notin Listing =>
             \A j \in q[k].from + 1 .. q[k].to : w[j].sym # "semicolon",
         NEW i \in t.from + 1 .. t.to
  PROVE  w[i].sym # "semicolon"
<1>1. Lhs(r) \notin Listing
  <2>1. Lhs(21) = "expr" /\ Lhs(23) = "expr"
    BY ONLY GrammarTable
  <2> QED BY <2>1 DEF By, Made, Listing
<1>2. PICK k \in 1 .. Size(r) : i \in q[k].from + 1 .. q[k].to
  BY Within
<1>3. q[k].sym = Role(r, k) /\ r \in Rules \ {1}
  BY DEF By, RightFits
<1> QED BY <1>1, <1>2, <1>3, ListingRules

\* so there is none.
LEMMA NoSemicolon ==
  ASSUME NEW w, TokensValued(w), NEW t, RightReading(t, w), t.sym \notin Listing,
         NEW i \in t.from + 1 .. t.to
  PROVE  w[i].sym # "semicolon"
<1> DEFINE S == {x \in WithOperands(Spans(w)) :
                    RightReading(x, w) /\ (x.sym \notin Listing =>
                        \A j \in x.from + 1 .. x.to : w[j].sym # "semicolon")}
<1>1. RightClosed(WithOperands(Spans(w)), w)
  BY NoOperandToken, SpansClosed, OperandsClosed
<1>2. \A x : RightReading(x, w) => x \in WithOperands(Spans(w))
  BY <1>1 DEF RightReading
<1>3. ASSUME NEW k \in 1 .. Len(w)
      PROVE  Span(w[k].sym, k - 1, k, w[k].val) \in S
  <2> DEFINE x == Span(w[k].sym, k - 1, k, w[k].val)
  <2>1. RightReading(x, w)
    BY RightToken
  <2>2. x.sym = w[k].sym /\ x.from = k - 1 /\ x.to = k
    BY DEF Span
  <2>3. \A j \in (k - 1) + 1 .. k : j = k
    BY DEF TokensValued
  <2> HIDE DEF x
  <2>4. x \in S
    BY <1>2, <2>1, <2>2, <2>3 DEF Listing
  <2> QED BY <2>4 DEF x
<1>4. ASSUME NEW r \in Rules \ {1}, NEW q \in [1 .. Size(r) -> S], NEW v,
             v = [k \in 1 .. Size(r) |-> q[k].val],
             RightFits(r, q), ~Yyerror(Act(r), v), NEW X \in Made(r)
      PROVE  Span(X, q[1].from, q[Size(r)].to, Meaning(r, v)) \in S
  <2> DEFINE x == Span(X, q[1].from, q[Size(r)].to, Meaning(r, v))
  <2>1. \A k \in 1 .. Size(r) : RightReading(q[k], w)
    OBVIOUS
  <2>2. q = [k \in 1 .. Size(r) |-> q[k]]
    OBVIOUS
  <2>3. \A k \in 1 .. Size(r) : q[k].sym \notin Listing =>
            \A j \in q[k].from + 1 .. q[k].to : w[j].sym # "semicolon"
    OBVIOUS
  <2> HIDE DEF S
  <2>4. RightReading(x, w)
    BY <1>4, <2>1, <2>2, RightRule
  <2>5. x.sym = X /\ x.from = q[1].from /\ x.to = q[Size(r)].to /\ x.val = Meaning(r, v)
    BY DEF Span
  <2> HIDE DEF x
  <2>6. By(x, r, q, w)
    BY <1>4, <2>1, <2>2, <2>5 DEF By
  <2>7. x.sym \notin Listing => \A j \in x.from + 1 .. x.to : w[j].sym # "semicolon"
    BY <2>3, <2>6, SemicolonFree
  <2>8. x \in S
    BY <1>2, <2>4, <2>5, <2>7 DEF S
  <2> QED BY <2>8 DEF x
<1> HIDE DEF S
<1>5. RightClosed(S, w)
  BY <1>3, <1>4 DEF RightClosed
<1>6. t \in S
  BY <1>5 DEF RightReading
<1> QED BY <1>6 DEF S

\* The rules for lists of entries, and for the policy.
LEMMA EntriesRules ==
  /\ Size(8) = 1 /\ Role(8, 1) = "entry"
  /\ Size(9) = 3 /\ Role(9, 1) = "entries" /\ Role(9, 2) = "semicolon"
  /\ Role(9, 3) = "entry"
  /\ Size(2) = 1 /\ Size(3) = 3 /\ Size(4) = 4 /\ Size(5) = 1 /\ Size(6) = 2
  /\ \A r \in {2, 3, 4} : Role(r, 1) = "version"
  /\ \A r \in {3, 4} : Role(r, 2) = "semicolon" /\ Role(r, 3) = "entries"
  /\ \A r \in {5, 6} : Role(r, 1) = "entries"
  /\ Role(4, 4) = "semicolon" /\ Role(6, 2) = "semicolon"
<1>1. /\ Size(8) = 1 /\ Sym(8, 1) = "entry"
      /\ Size(9) = 3 /\ Sym(9, 1) = "entries" /\ Sym(9, 2) = "semicolon"
      /\ Sym(9, 3) = "entry"
      /\ Size(2) = 1 /\ Size(3) = 3 /\ Size(4) = 4 /\ Size(5) = 1 /\ Size(6) = 2
      /\ Sym(2, 1) = "version" /\ Sym(3, 1) = "version" /\ Sym(4, 1) = "version"
      /\ Sym(3, 2) = "semicolon" /\ Sym(4, 2) = "semicolon"
      /\ Sym(3, 3) = "entries" /\ Sym(4, 3) = "entries"
      /\ Sym(5, 1) = "entries" /\ Sym(6, 1) = "entries"
      /\ Sym(4, 4) = "semicolon" /\ Sym(6, 2) = "semicolon"
  BY ONLY GrammarTable
<1> QED BY <1>1 DEF Role

\* The parts of a list of entries: its last entry, and what is before it.
LEMMA ListParts ==
  ASSUME NEW w, TokensValued(w), NEW t, NEW q, By(t, 9, q, w)
  PROVE  /\ RightReading(q[1], w) /\ q[1].sym = "entries" /\ q[1].from = t.from
         /\ IsToken(q[2], w) /\ q[2].sym = "semicolon" /\ q[2].from = q[1].to
         /\ RightReading(q[3], w) /\ q[3].sym = "entry" /\ q[3].from = q[1].to + 1
         /\ q[3].to = t.to
         /\ q[1].to \in Nat /\ q[1].to < t.to /\ t.to \in Nat
<1>1. /\ 1 \in 1 .. Size(9) /\ 2 \in 1 .. Size(9) /\ 3 \in 1 .. Size(9)
      /\ 1 # Size(9) /\ 2 # Size(9) /\ 1 + 1 = 2 /\ 2 + 1 = 3 /\ Size(9) = 3
  BY EntriesRules
<1>2. /\ RightReading(q[1], w) /\ q[1].sym = "entries" /\ q[1].to = q[2].from
      /\ q[1].to \in Nat
  BY <1>1, EntriesRules, Parts
<1>3. /\ RightReading(q[2], w) /\ q[2].sym = "semicolon" /\ q[2].to = q[3].from
      /\ q[2].to \in Nat
  BY <1>1, EntriesRules, Parts
<1>4. /\ RightReading(q[3], w) /\ q[3].sym = "entry" /\ q[3].from < q[3].to
      /\ q[3].to \in Nat
  BY <1>1, EntriesRules, Parts
<1>5. q[1].from = t.from /\ q[3].to = t.to
  BY <1>1 DEF By
<1>6. IsToken(q[2], w)
  BY <1>3, HeadsAre, TokenPart
<1>7. q[3].from = q[1].to + 1
  BY <1>2, <1>3, <1>6 DEF IsToken
<1> QED BY <1>2, <1>3, <1>4, <1>5, <1>6, <1>7

\* A list of one entry is that entry,
LEMMA OneEntry ==
  ASSUME NEW w, TokensValued(w), NEW t, NEW q, By(t, 8, q, w)
  PROVE  RightReading(q[1], w) /\ q[1].sym = "entry" /\ q[1].from = t.from /\ q[1].to = t.to
<1>1. Size(8) = 1 /\ 1 \in 1 .. Size(8)
  BY EntriesRules
<1>2. RightReading(q[1], w) /\ q[1].sym = "entry"
  BY <1>1, EntriesRules, Parts
<1>3. q[1].from = t.from /\ q[1].to = t.to
  BY <1>1 DEF By
<1> QED BY <1>2, <1>3

\* and every list is either of one entry or longer.
LEMMA EntriesParts ==
  ASSUME NEW w, TokensValued(w), NEW t, RightReading(t, w), t.sym = "entries"
  PROVE  \/ \E q : By(t, 8, q, w)
         \/ \E q : By(t, 9, q, w)
<1>1. PICK r, q : By(t, r, q, w)
  BY HeadsAre, RulePart
<1> QED BY <1>1, RulesFor

\* The lists that end with token n.
ListsMatch(n, w) ==
    \A x, y : /\ RightReading(x, w) /\ x.sym = "entries" /\ x.to = n
              /\ RightReading(y, w) /\ y.sym = "entries" /\ y.to = n
              /\ x.from = y.from
              => x.val = y.val

\* The last entry begins after the last semicolon.
LEMMA ListsBefore ==
  ASSUME NEW w, TokensValued(w), NEW n \in Nat, \A m \in Nat : m < n => ListsMatch(m, w)
  PROVE  ListsMatch(n, w)
<1> SUFFICES ASSUME NEW x, RightReading(x, w), x.sym = "entries", x.to = n,
                    NEW y, RightReading(y, w), y.sym = "entries", y.to = n,
                    x.from = y.from
             PROVE  x.val = y.val
  BY DEF ListsMatch
<1>1. ASSUME NEW u, NEW q, By(u, 8, q, w), u.to = n,
             NEW v, NEW s, By(v, 9, s, w), v.to = n, u.from = v.from
      PROVE  FALSE
  <2>1. RightReading(q[1], w) /\ q[1].sym = "entry" /\ q[1].from = u.from /\ q[1].to = n
    BY <1>1, OneEntry
  <2>2. /\ RightReading(s[1], w) /\ s[1].from = u.from /\ s[1].to \in Nat /\ s[1].to < n
        /\ IsToken(s[2], w) /\ s[2].sym = "semicolon" /\ s[2].from = s[1].to
    BY <1>1, ListParts
  <2>3. s[1].from \in Nat /\ s[1].from < s[1].to
    BY <2>2, RightSpans
  <2>4. s[1].to + 1 \in q[1].from + 1 .. q[1].to
    BY <2>1, <2>2, <2>3
  <2>5. w[s[1].to + 1].sym = "semicolon"
    BY <2>2 DEF IsToken
  <2> QED BY <2>1, <2>4, <2>5, NoSemicolon DEF Listing
<1>2. ASSUME NEW q, By(x, 8, q, w), NEW s, By(y, 8, s, w)
      PROVE  x.val = y.val
  <2>1. RightReading(q[1], w) /\ q[1].sym = "entry" /\ q[1].from = x.from /\ q[1].to = n
    BY <1>2, OneEntry
  <2>2. RightReading(s[1], w) /\ s[1].sym = "entry" /\ s[1].from = x.from /\ s[1].to = n
    BY <1>2, OneEntry
  <2>3. Match(q[1], s[1])
    BY <2>1, <2>2, EntriesLoose DEF Loose, Match
  <2>4. \A k \in 1 .. Size(8) : k = 1
    BY EntriesRules
  <2>5. \A k \in 1 .. Size(8) : Match(q[k], s[k])
    BY <2>3, <2>4
  <2> QED BY <1>2, <2>5, SameRule
<1>3. ASSUME NEW u, NEW q, By(u, 9, q, w), u.to = n,
             NEW v, NEW s, By(v, 9, s, w), v.to = n, q[1].to < s[1].to
      PROVE  FALSE
  <2>1. /\ RightReading(q[3], w) /\ q[3].sym = "entry" /\ q[3].from = q[1].to + 1
        /\ q[3].to = n /\ q[1].to \in Nat
    BY <1>3, ListParts
  <2>2. /\ IsToken(s[2], w) /\ s[2].sym = "semicolon" /\ s[2].from = s[1].to
        /\ s[1].to \in Nat /\ s[1].to < n
    BY <1>3, ListParts
  <2>3. w[s[1].to + 1].sym = "semicolon"
    BY <2>2 DEF IsToken
  <2>4. s[1].to + 1 \in q[3].from + 1 .. q[3].to
    BY <1>3, <2>1, <2>2
  <2> QED BY <2>1, <2>3, <2>4, NoSemicolon DEF Listing
<1>4. ASSUME NEW q, By(x, 9, q, w), NEW s, By(y, 9, s, w)
      PROVE  x.val = y.val
  <2>1. /\ RightReading(q[1], w) /\ q[1].sym = "entries" /\ q[1].from = x.from
        /\ IsToken(q[2], w) /\ q[2].from = q[1].to
        /\ RightReading(q[3], w) /\ q[3].sym = "entry" /\ q[3].to = n
        /\ q[1].to \in Nat /\ q[1].to < n
    BY <1>4, ListParts
  <2>2. /\ RightReading(s[1], w) /\ s[1].sym = "entries" /\ s[1].from = x.from
        /\ IsToken(s[2], w) /\ s[2].from = s[1].to
        /\ RightReading(s[3], w) /\ s[3].sym = "entry" /\ s[3].to = n
        /\ s[1].to \in Nat /\ s[1].to < n
    BY <1>4, ListParts
  <2>3. ~ (q[1].to < s[1].to) /\ ~ (s[1].to < q[1].to)
    BY <1>3, <1>4
  <2>4. q[1].to = s[1].to
    BY <2>1, <2>2, <2>3
  <2>5. Match(q[1], s[1])
    BY <2>1, <2>2, <2>4 DEF ListsMatch, Match
  <2>6. Match(q[2], s[2])
    BY <2>1, <2>2, TokensMatch
  <2>7. Match(q[3], s[3])
    BY <2>1, <2>2, EntriesLoose DEF Loose, Match
  <2>8. \A k \in 1 .. Size(9) : k = 1 \/ k = 2 \/ k = 3
    BY EntriesRules
  <2>9. \A k \in 1 .. Size(9) : Match(q[k], s[k])
    BY <2>5, <2>6, <2>7, <2>8
  <2> QED BY <1>4, <2>9, SameRule
<1>5. \/ \E q : By(x, 8, q, w)
      \/ \E q : By(x, 9, q, w)
  BY EntriesParts
<1>6. \/ \E q : By(y, 8, q, w)
      \/ \E q : By(y, 9, q, w)
  BY EntriesParts
<1> QED BY <1>1, <1>2, <1>4, <1>5, <1>6

\* So the entries between two places are one list.
LEMMA ListsUnique ==
  ASSUME NEW w, TokensValued(w), NEW x, RightReading(x, w), x.sym = "entries",
         NEW y, RightReading(y, w), y.sym = "entries", x.from = y.from, x.to = y.to
  PROVE  x.val = y.val
<1> DEFINE N == x.to
           T == {i \in 0 .. N : \A m \in Nat : m <= i => ListsMatch(m, w)}
<1>1. N \in Nat /\ N \in 0 .. N
  BY RightSpans
<1>2. 0 \in T
  <2>1. \A z : RightReading(z, w) => z.to # 0
    BY RightSpans
  <2>2. ListsMatch(0, w)
    BY <2>1 DEF ListsMatch
  <2>3. \A m \in Nat : m <= 0 => m = 0
    OBVIOUS
  <2> QED BY <1>1, <2>2, <2>3
<1>3. ASSUME NEW i \in 0 .. N - 1, i \in T
      PROVE  i + 1 \in T
  <2>1. i \in Nat /\ i + 1 \in Nat /\ i + 1 \in 0 .. N
    BY <1>1
  <2>2. \A m \in Nat : m < i + 1 => m <= i
    BY <2>1
  <2>3. \A m \in Nat : m < i + 1 => ListsMatch(m, w)
    BY <1>3, <2>2
  <2>4. ListsMatch(i + 1, w)
    BY <2>1, <2>3, ListsBefore
  <2>5. \A m \in Nat : m <= i + 1 => m = i + 1 \/ m < i + 1
    BY <2>1
  <2> QED BY <2>1, <2>3, <2>4, <2>5
<1>4. 0 .. N \subseteq T
  <2> HIDE DEF T, N
  <2> QED BY <1>1, <1>2, <1>3, UpTo
<1>5. ListsMatch(N, w)
  BY <1>1, <1>4
<1> QED BY <1>5 DEF ListsMatch

\* An entry begins with no number,
LEMMA EntryBegins ==
  ASSUME NEW w, TokensValued(w), NEW t, RightReading(t, w), t.sym = "entry"
  PROVE  w[t.from + 1].sym # "NUMBER"
<1>1. PICK r, q : By(t, r, q, w)
  BY HeadsAre, RulePart
<1>2. r \in {10, 11, 12}
  BY <1>1, RulesFor
<1> QED BY <1>1, <1>2, EntryFirst

\* and so does no list of entries.
BeginsNoNumber(n, w) ==
    \A x : RightReading(x, w) /\ x.sym = "entries" /\ x.to = n =>
              w[x.from + 1].sym # "NUMBER"

\* By induction on where the list ends.
LEMMA EntriesBegin ==
  ASSUME NEW w, TokensValued(w), NEW x, RightReading(x, w), x.sym = "entries"
  PROVE  w[x.from + 1].sym # "NUMBER"
<1> DEFINE N == x.to
           T == {i \in 0 .. N : \A m \in Nat : m <= i => BeginsNoNumber(m, w)}
<1>1. N \in Nat /\ N \in 0 .. N
  BY RightSpans
<1>2. 0 \in T
  <2>1. \A z : RightReading(z, w) => z.to # 0
    BY RightSpans
  <2>2. BeginsNoNumber(0, w)
    BY <2>1 DEF BeginsNoNumber
  <2>3. \A m \in Nat : m <= 0 => m = 0
    OBVIOUS
  <2> QED BY <1>1, <2>2, <2>3
<1>3. ASSUME NEW i \in 0 .. N - 1, i \in T
      PROVE  i + 1 \in T
  <2>1. i \in Nat /\ i + 1 \in Nat /\ i + 1 \in 0 .. N
    BY <1>1
  <2>2. \A m \in Nat : m < i + 1 => m <= i
    BY <2>1
  <2>3. \A m \in Nat : m < i + 1 => BeginsNoNumber(m, w)
    BY <1>3, <2>2
  <2>4. ASSUME NEW t, RightReading(t, w), t.sym = "entries", t.to = i + 1
        PROVE  w[t.from + 1].sym # "NUMBER"
    <3>1. CASE \E q : By(t, 8, q, w)
      <4>1. PICK q : By(t, 8, q, w)
        BY <3>1
      <4> QED BY <4>1, OneEntry, EntryBegins
    <3>2. CASE \E q : By(t, 9, q, w)
      <4>1. PICK q : By(t, 9, q, w)
        BY <3>2
      <4>2. /\ RightReading(q[1], w) /\ q[1].sym = "entries" /\ q[1].from = t.from
            /\ q[1].to \in Nat /\ q[1].to < t.to
        BY <4>1, ListParts
      <4>3. BeginsNoNumber(q[1].to, w)
        BY <2>3, <2>4, <4>2
      <4> QED BY <4>2, <4>3 DEF BeginsNoNumber
    <3> QED BY <2>4, <3>1, <3>2, EntriesParts
  <2>5. BeginsNoNumber(i + 1, w)
    BY <2>4 DEF BeginsNoNumber
  <2>6. \A m \in Nat : m <= i + 1 => m = i + 1 \/ m < i + 1
    BY <2>1
  <2> QED BY <2>1, <2>3, <2>5, <2>6
<1>4. 0 .. N \subseteq T
  <2> HIDE DEF T, N
  <2> QED BY <1>1, <1>2, <1>3, UpTo
<1>5. BeginsNoNumber(N, w)
  BY <1>1, <1>4
<1> QED BY <1>5 DEF BeginsNoNumber

\* A list of entries does not end with a semicolon.
LEMMA EntriesEnd ==
  ASSUME NEW w, TokensValued(w), NEW x, RightReading(x, w), x.sym = "entries"
  PROVE  w[x.to].sym # "semicolon"
<1>1. ASSUME NEW t, RightReading(t, w), t.sym = "entry"
      PROVE  w[t.to].sym # "semicolon"
  <2>1. t.to \in t.from + 1 .. t.to
    BY <1>1, RightSpans
  <2> QED BY <1>1, <2>1, NoSemicolon DEF Listing
<1>2. CASE \E q : By(x, 8, q, w)
  <2>1. PICK q : By(x, 8, q, w)
    BY <1>2
  <2>2. RightReading(q[1], w) /\ q[1].sym = "entry" /\ q[1].to = x.to
    BY <2>1, OneEntry
  <2> QED BY <1>1, <2>2
<1>3. CASE \E q : By(x, 9, q, w)
  <2>1. PICK q : By(x, 9, q, w)
    BY <1>3
  <2>2. RightReading(q[3], w) /\ q[3].sym = "entry" /\ q[3].to = x.to
    BY <2>1, ListParts
  <2> QED BY <1>1, <2>2
<1> QED BY <1>2, <1>3, EntriesParts

\* A version is a number.
LEMMA VersionBegins ==
  ASSUME NEW w, TokensValued(w), NEW x, RightReading(x, w), x.sym = "version"
  PROVE  w[x.from + 1].sym = "NUMBER" /\ x.to = x.from + 1
<1>1. PICK r, q : By(x, r, q, w)
  BY HeadsAre, RulePart
<1>2. r = 7
  BY <1>1, RulesFor
<1>3. Size(7) = 1 /\ Role(7, 1) = "NUMBER" /\ Role(7, 1) \notin Heads \cup {"operand"}
  BY SingleRules
<1>4. IsToken(q[1], w) /\ w[x.from + 1].sym = "NUMBER"
  BY <1>1, <1>2, <1>3, FirstToken
<1>5. q[1].from = x.from /\ q[1].to = x.to
  BY <1>1, <1>2, <1>3 DEF By
<1> QED BY <1>4, <1>5 DEF IsToken

\* The parts of the policy.
LEMMA PolicyParts ==
  ASSUME NEW w, TokensValued(w), NEW t, NEW r \in {2, 3, 4, 5, 6}, NEW q, By(t, r, q, w)
  PROVE  /\ \A k \in 1 .. Size(r) :
               /\ RightReading(q[k], w)
               /\ q[k].sym = Role(r, k)
               /\ Role(r, k) = "semicolon" => IsToken(q[k], w)
               /\ q[k].from \in Nat /\ q[k].to \in Nat /\ q[k].from < q[k].to
         /\ Size(r) \in 1 .. 4 /\ q[1].from = t.from /\ q[Size(r)].to = t.to
         /\ r \in {3, 4} => q[1].to = q[2].from /\ q[2].to = q[3].from
         /\ r = 4 => q[3].to = q[4].from
         /\ r = 6 => q[1].to = q[2].from
<1>1. \A k \in 1 .. Size(r) : RightReading(q[k], w) /\ q[k].sym = Role(r, k)
         /\ q[k].from \in Nat /\ q[k].to \in Nat /\ q[k].from < q[k].to
  BY Parts
<1>2. \A k \in 1 .. Size(r) : Role(r, k) = "semicolon" => IsToken(q[k], w)
  BY <1>1, HeadsAre, TokenPart
<1>3. q[1].from = t.from /\ q[Size(r)].to = t.to
  BY DEF By
<1>4. /\ Size(r) \in 1 .. 4 /\ (r = 3 => Size(r) = 3) /\ (r = 4 => Size(r) = 4)
      /\ (r = 6 => Size(r) = 2)
  BY EntriesRules
<1>5. r \in {3, 4} => q[1].to = q[2].from /\ q[2].to = q[3].from
  <2> SUFFICES ASSUME r \in {3, 4} PROVE q[1].to = q[2].from /\ q[2].to = q[3].from
    OBVIOUS
  <2>1. /\ 1 \in 1 .. Size(r) /\ 2 \in 1 .. Size(r) /\ 1 # Size(r) /\ 2 # Size(r)
        /\ 1 + 1 = 2 /\ 2 + 1 = 3
    BY <1>4
  <2>2. q[1].to = q[2].from
    BY <2>1, Parts
  <2>3. q[2].to = q[3].from
    BY <2>1, Parts
  <2> QED BY <2>2, <2>3
<1>6. r = 4 => q[3].to = q[4].from
  <2>1. r = 4 => 3 \in 1 .. Size(r) /\ 3 # Size(r) /\ 3 + 1 = 4
    BY <1>4
  <2> QED BY <2>1, Parts
<1>7. r = 6 => q[1].to = q[2].from
  <2>1. r = 6 => 1 \in 1 .. Size(r) /\ 1 # Size(r) /\ 1 + 1 = 2
    BY <1>4
  <2> QED BY <2>1, Parts
<1> QED BY <1>1, <1>2, <1>3, <1>4, <1>5, <1>6, <1>7

\* How a policy begins and ends tells the rule.
LEMMA PolicyShape ==
  ASSUME NEW w, TokensValued(w), NEW t, NEW r \in {2, 3, 4, 5, 6}, NEW q, By(t, r, q, w)
  PROVE  /\ r \in {2, 3, 4} <=> w[t.from + 1].sym = "NUMBER"
         /\ r \in {2, 3, 4} => (r = 2 <=> t.to = t.from + 1)
         /\ r # 2 => (r \in {4, 6} <=> w[t.to].sym = "semicolon")
<1>1. /\ Size(2) = 1 /\ Size(3) = 3 /\ Size(4) = 4 /\ Size(5) = 1 /\ Size(6) = 2
      /\ r \in {2, 3, 4} => Role(r, 1) = "version"
      /\ r \in {3, 4} => Role(r, 2) = "semicolon" /\ Role(r, 3) = "entries"
      /\ r \in {5, 6} => Role(r, 1) = "entries"
      /\ Role(4, 4) = "semicolon" /\ Role(6, 2) = "semicolon"
  BY EntriesRules
<1>2. 1 \in 1 .. Size(r) /\ Size(r) \in 1 .. Size(r)
      /\ (r \in {3, 4} => 2 \in 1 .. Size(r) /\ 3 \in 1 .. Size(r))
  BY <1>1
<1>3. /\ RightReading(q[1], w) /\ q[1].sym = Role(r, 1) /\ q[1].from = t.from
      /\ q[1].from \in Nat
      /\ RightReading(q[Size(r)], w) /\ q[Size(r)].sym = Role(r, Size(r))
      /\ q[Size(r)].to = t.to /\ q[Size(r)].to \in Nat
      /\ Role(r, Size(r)) = "semicolon" => IsToken(q[Size(r)], w)
  <2>1. \A k \in 1 .. Size(r) : RightReading(q[k], w) /\ q[k].sym = Role(r, k)
           /\ q[k].from \in Nat /\ q[k].to \in Nat
    BY Parts
  <2>2. \A k \in 1 .. Size(r) : Role(r, k) = "semicolon" => IsToken(q[k], w)
    BY <2>1, HeadsAre, TokenPart
  <2>3. q[1].from = t.from /\ q[Size(r)].to = t.to
    BY DEF By
  <2> QED BY <1>2, <2>1, <2>2, <2>3
<1>4. r \in {2, 3, 4} => w[t.from + 1].sym = "NUMBER" /\ q[1].to = t.from + 1
  BY <1>1, <1>3, VersionBegins
<1>5. r \notin {2, 3, 4} => w[t.from + 1].sym # "NUMBER"
  BY <1>1, <1>3, EntriesBegin
<1>6. r = 2 => t.to = t.from + 1
  BY <1>1, <1>3, <1>4
<1>7. r \in {3, 4} => t.to # t.from + 1
  <2> SUFFICES ASSUME r \in {3, 4} PROVE t.to # t.from + 1
    OBVIOUS
  <2>1. /\ q[1].to = q[2].from /\ q[2].from < q[2].to /\ q[2].to = q[3].from
        /\ q[3].from < q[3].to /\ q[2].from \in Nat /\ q[2].to \in Nat /\ q[3].to \in Nat
    BY <1>2, PolicyParts
  <2>2. r = 4 => q[3].to = q[4].from /\ q[4].from < q[4].to /\ q[4].to \in Nat
    BY <1>1, <1>2, PolicyParts
  <2>3. r = 3 => Size(r) = 3
    BY <1>1
  <2>4. r = 4 => Size(r) = 4
    BY <1>1
  <2> QED BY <1>3, <1>4, <2>1, <2>2, <2>3, <2>4
<1>8. r \in {4, 6} => w[t.to].sym = "semicolon"
  <2>1. r \in {4, 6} => Role(r, Size(r)) = "semicolon"
    BY <1>1
  <2> QED BY <1>3, <2>1 DEF IsToken
<1>9. r \in {3, 5} => w[t.to].sym # "semicolon"
  <2>1. r \in {3, 5} => Role(r, Size(r)) = "entries"
    BY <1>1
  <2> QED BY <1>3, <2>1, EntriesEnd
<1> QED BY <1>4, <1>5, <1>6, <1>7, <1>8, <1>9

\* A text has one policy.
LEMMA OnePolicy ==
  ASSUME NEW w, TokensValued(w), NEW x, RightReading(x, w), x.sym = "policy",
         NEW y, RightReading(y, w), y.sym = "policy", x.from = y.from, x.to = y.to
  PROVE  x.val = y.val
<1>1. PICK r, q : By(x, r, q, w)
  BY HeadsAre, RulePart
<1>2. PICK p, s : By(y, p, s, w)
  BY HeadsAre, RulePart
<1>3. r \in {2, 3, 4, 5, 6} /\ p \in {2, 3, 4, 5, 6}
  BY <1>1, <1>2, RulesFor
<1>4. r = p
  <2>1. /\ r \in {2, 3, 4} <=> w[x.from + 1].sym = "NUMBER"
        /\ r \in {2, 3, 4} => (r = 2 <=> x.to = x.from + 1)
        /\ r # 2 => (r \in {4, 6} <=> w[x.to].sym = "semicolon")
    BY <1>1, <1>3, PolicyShape
  <2>2. /\ p \in {2, 3, 4} <=> w[x.from + 1].sym = "NUMBER"
        /\ p \in {2, 3, 4} => (p = 2 <=> x.to = x.from + 1)
        /\ p # 2 => (p \in {4, 6} <=> w[x.to].sym = "semicolon")
    BY <1>2, <1>3, PolicyShape
  <2> QED BY <1>3, <2>1, <2>2
<1>5. /\ Size(2) = 1 /\ Size(3) = 3 /\ Size(4) = 4 /\ Size(5) = 1 /\ Size(6) = 2
      /\ r \in {2, 3, 4} => Role(r, 1) = "version"
      /\ r \in {3, 4} => Role(r, 2) = "semicolon" /\ Role(r, 3) = "entries"
      /\ r \in {5, 6} => Role(r, 1) = "entries"
      /\ Role(4, 4) = "semicolon" /\ Role(6, 2) = "semicolon"
  BY EntriesRules
<1>6. ASSUME NEW k \in 1 .. Size(r)
      PROVE  /\ RightReading(q[k], w) /\ q[k].sym = Role(r, k)
             /\ RightReading(s[k], w) /\ s[k].sym = Role(r, k)
             /\ Role(r, k) = "semicolon" => IsToken(q[k], w) /\ IsToken(s[k], w)
             /\ q[k].from \in Nat /\ s[k].from \in Nat
  <2>1. /\ RightReading(q[k], w) /\ q[k].sym = Role(r, k)
        /\ Role(r, k) = "semicolon" => IsToken(q[k], w)
        /\ q[k].from \in Nat
    BY <1>1, <1>3, PolicyParts
  <2>2. /\ RightReading(s[k], w) /\ s[k].sym = Role(r, k)
        /\ Role(r, k) = "semicolon" => IsToken(s[k], w)
        /\ s[k].from \in Nat
    BY <1>2, <1>3, <1>4, PolicyParts
  <2> QED BY <2>1, <2>2
<1>7. /\ q[1].from = s[1].from /\ q[Size(r)].to = s[Size(r)].to
      /\ r \in {3, 4} => q[1].to = q[2].from /\ q[2].to = q[3].from
      /\ r \in {3, 4} => s[1].to = s[2].from /\ s[2].to = s[3].from
      /\ r = 4 => q[3].to = q[4].from /\ s[3].to = s[4].from
      /\ r = 6 => q[1].to = q[2].from /\ s[1].to = s[2].from
  <2>1. /\ q[1].from = x.from /\ q[Size(r)].to = x.to
        /\ r \in {3, 4} => q[1].to = q[2].from /\ q[2].to = q[3].from
        /\ r = 4 => q[3].to = q[4].from
        /\ r = 6 => q[1].to = q[2].from
    BY <1>1, <1>3, PolicyParts
  <2>2. /\ s[1].from = x.from /\ s[Size(r)].to = x.to
        /\ r \in {3, 4} => s[1].to = s[2].from /\ s[2].to = s[3].from
        /\ r = 4 => s[3].to = s[4].from
        /\ r = 6 => s[1].to = s[2].from
    BY <1>2, <1>3, <1>4, PolicyParts
  <2> QED BY <2>1, <2>2
\* The parts that are no list match.
<1>8. ASSUME NEW k \in 1 .. Size(r), Role(r, k) # "entries"
      PROVE  Match(q[k], s[k])
  <2>1. Role(r, k) \in {"version", "semicolon"}
    <3>1. k \in {1, 2, 3, 4}
      BY <1>3, <1>5
    <3> QED BY <1>3, <1>5, <1>8, <3>1
  <2>2. Role(r, k) \notin {"$accept", "policy", "entries", "entry", "expr", "operand",
                           "term"}
    BY <2>1
  <2> QED BY <1>6, <2>2, FirmParts
\* The list begins after the version, if there is one, and ends before the semicolon,
\* if there is one.
<1>9. ASSUME NEW k \in 1 .. Size(r), Role(r, k) = "entries"
      PROVE  q[k].from = s[k].from /\ q[k].to = s[k].to
  <2>1. CASE r = 5
    <3>1. k = 1 /\ Size(r) = 1
      BY <1>5, <2>1
    <3> QED BY <1>7, <3>1
  <2>2. CASE r = 6
    <3>1. k = 1 /\ Size(r) = 2 /\ 2 \in 1 .. Size(r) /\ Role(r, 2) = "semicolon"
      BY <1>5, <1>9, <2>2
    <3>2. IsToken(q[2], w) /\ IsToken(s[2], w)
      BY <1>6, <3>1
    <3>3. q[2].from \in Nat /\ s[2].from \in Nat /\ q[2].to = s[2].to
      BY <1>6, <1>7, <3>1
    <3>4. q[2].from = s[2].from
      BY <3>2, <3>3 DEF IsToken
    <3> QED BY <1>7, <2>2, <3>1, <3>4
  <2>3. CASE r \in {3, 4}
    <3>1. /\ 1 \in 1 .. Size(r) /\ 2 \in 1 .. Size(r) /\ 3 \in 1 .. Size(r)
          /\ k \in {1, 2, 3, 4}
      BY <1>5, <2>3
    <3>2. k = 3
      BY <1>5, <1>9, <2>3, <3>1
    <3>3. Match(q[1], s[1]) /\ Match(q[2], s[2])
      BY <1>5, <1>8, <2>3, <3>1
    <3>4. q[3].from = s[3].from
      BY <1>7, <2>3, <3>3 DEF Match
    <3>5. CASE r = 3
      BY <1>5, <1>7, <3>2, <3>4, <3>5
    <3>6. CASE r = 4
      <4>1. Size(r) = 4 /\ 4 \in 1 .. Size(r) /\ Role(r, 4) = "semicolon"
        BY <1>5, <3>6
      <4>2. IsToken(q[4], w) /\ IsToken(s[4], w)
        BY <1>6, <4>1
      <4>3. q[4].from \in Nat /\ s[4].from \in Nat /\ q[4].to = s[4].to
        BY <1>6, <1>7, <4>1
      <4>4. q[4].from = s[4].from
        BY <4>2, <4>3 DEF IsToken
      <4> QED BY <1>7, <3>2, <3>4, <3>6, <4>4
    <3> QED BY <2>3, <3>5, <3>6
  <2>4. r # 2
    <3>1. r = 2 => k = 1
      BY <1>5
    <3> QED BY <1>5, <1>9, <3>1
  <2> QED BY <1>3, <2>1, <2>2, <2>3, <2>4
<1>10. ASSUME NEW k \in 1 .. Size(r), Role(r, k) = "entries"
       PROVE  Match(q[k], s[k])
  BY <1>6, <1>9, <1>10, ListsUnique DEF Match
<1>11. \A k \in 1 .. Size(r) : Match(q[k], s[k])
  BY <1>8, <1>10
<1> QED BY <1>1, <1>2, <1>4, <1>11, SameRule

-----------------------------------------------------------------------------
(* What the parser still has to do.                                        *)

\* A set of natural numbers has a least element.
LEMMA Least ==
  ASSUME NEW S \in SUBSET Nat, S # {}
  PROVE  \E m \in S : \A i \in S : m <= i
<1>1. PICK m \in S : \A i \in S : ~ (<<i, m>> \in OpToRel(<, Nat))
  BY NatLessThanWellFounded, WFMin
<1>2. \A i, j \in Nat : ~ (<<i, j>> \in OpToRel(<, Nat)) => j <= i
  BY DEF OpToRel
<1> QED BY <1>1, <1>2

\* The part of a form between two positions, to be read as an X.
Piece(X, i, j) == [sym |-> X, from |-> i, to |-> j]

\* The action of rule r ends in YYERROR if this is the value of the first symbol.
Refused(r, val) ==
    \/ r = 7 /\ val # FORMAT_VERSION
    \/ r = 29 /\ ~ (val \in DOMAIN Actions /\ Actions[val] = 0)
    \/ r = 30 /\ ~ (val \in DOMAIN Actions /\ Actions[val] = 1)

\* A form is the first g symbols, on the stack, and the tokens after them.  S has
\* its n symbols, and what the rules make of its elements that do not end before g.
Built(S, u, n, g) ==
    /\ \A k \in 1 .. n : Piece(u[k].sym, k - 1, k) \in S
    /\ \A r \in Rules \ {1} : \A q \in [1 .. Size(r) -> S] :
          /\ Fits(r, q)
          /\ g <= q[Size(r)].to
          /\ ~ Refused(r, u[q[1].from + 1].val)
          => Piece(Lhs(r), q[1].from, q[Size(r)].to) \in S

\* The form can be read as t, by rules that all are still to be reduced by.
Late(t, u, n, g) == \A S : Built(S, u, n, g) => t \in S

\* A symbol of the form can be read as itself.
LEMMA LateLeaf ==
  ASSUME NEW u, NEW n, NEW g, NEW k \in 1 .. n
  PROVE  Late(Piece(u[k].sym, k - 1, k), u, n, g)
BY DEF Late, Built

\* Where all parts of a right-hand side can be read, so can the whole.
LEMMA LateRule ==
  ASSUME NEW u, NEW n, NEW g, NEW r \in Rules, r # 1, NEW q,
         \A k \in 1 .. Size(r) : Late(q[k], u, n, g),
         Fits(r, q), g <= q[Size(r)].to, ~ Refused(r, u[q[1].from + 1].val)
  PROVE  Late(Piece(Lhs(r), q[1].from, q[Size(r)].to), u, n, g)
<1> SUFFICES ASSUME NEW S, Built(S, u, n, g)
             PROVE  Piece(Lhs(r), q[1].from, q[Size(r)].to) \in S
  BY DEF Late
<1> DEFINE p == [k \in 1 .. Size(r) |-> q[k]]
<1>1. p \in [1 .. Size(r) -> S]
  BY DEF Late
<1>2. /\ 1 \in 1 .. Size(r) /\ Size(r) \in 1 .. Size(r)
      /\ \A k \in 1 .. Size(r) - 1 : k \in 1 .. Size(r) /\ k + 1 \in 1 .. Size(r)
  <2>1. Size(r) \in 1 .. 6
    BY GrammarRules
  <2> QED BY <2>1
<1>3. p[1] = q[1] /\ p[Size(r)] = q[Size(r)]
  BY <1>2
<1>4. Fits(r, p)
  BY <1>2 DEF Fits
<1>5. r \in Rules \ {1}
  OBVIOUS
<1> HIDE DEF p
<1> QED BY <1>1, <1>3, <1>4, <1>5 DEF Built

\* t is a symbol of the form.
IsLeaf(t, u) == t.to = t.from + 1 /\ t.sym = u[t.to].sym

\* t is a part of the form; what ends before g has been reduced.
Shaped(t, u, n, g) ==
    /\ t.from \in Nat /\ t.to \in Nat
    /\ t.from < t.to /\ t.to <= n
    /\ t = Piece(t.sym, t.from, t.to)
    /\ t.to < g \/ t.sym \notin Heads => IsLeaf(t, u)

\* The parts of a form.
Pieces(u, n) ==
    {Piece(X, i, j) : X \in Heads \cup {u[k].sym : k \in 1 .. n}, i \in 0 .. n, j \in 0 .. n}

\* The parts of a right-hand side follow each other.
LEMMA PartsInOrder ==
  ASSUME NEW u, NEW n, NEW g, NEW p \in Rules, NEW q, Fits(p, q),
         \A k \in 1 .. Size(p) : Shaped(q[k], u, n, g)
  PROVE  /\ \A j, k \in 1 .. Size(p) : j < k => q[j].to <= q[k].from
         /\ q[1].from < q[Size(p)].to
<1> DEFINE size == Size(p)
<1>1. size \in 1 .. 6
  BY GrammarRules
<1>2. \A k \in 1 .. size : q[k].from \in Nat /\ q[k].to \in Nat /\ q[k].from < q[k].to
  BY DEF Shaped
<1>3. \A k \in 1 .. size - 1 : q[k].to = q[k + 1].from
  BY DEF Fits
<1> HIDE DEF size
<1>4. ASSUME NEW j \in 1 .. size, NEW k \in 1 .. size, j < k
      PROVE  q[j].to <= q[k].from
  <2> DEFINE T == {d \in 0 .. size - (j + 1) : q[j].to <= q[(j + 1) + d].from}
  <2>1. 0 \in T
    <3>1. j \in 1 .. size - 1 /\ (j + 1) + 0 = j + 1 /\ j + 1 \in 1 .. size
          /\ 0 \in 0 .. size - (j + 1)
      BY <1>1, <1>4
    <3>2. q[j].to = q[j + 1].from /\ q[j].to \in Nat
      BY <1>2, <1>3, <3>1
    <3> QED BY <3>1, <3>2
  <2>2. ASSUME NEW d \in 0 .. (size - (j + 1)) - 1, d \in T
        PROVE  d + 1 \in T
    <3>1. /\ (j + 1) + d \in 1 .. size - 1 /\ (j + 1) + d \in 1 .. size
          /\ (j + 1) + (d + 1) = ((j + 1) + d) + 1
          /\ (j + 1) + (d + 1) \in 1 .. size
          /\ d + 1 \in 0 .. size - (j + 1)
      BY <1>1
    <3>2. q[(j + 1) + d].to = q[((j + 1) + d) + 1].from
      BY <1>3, <3>1
    <3>3. q[j].to <= q[(j + 1) + d].from
      BY <2>2
    <3> QED BY <1>2, <3>1, <3>2, <3>3
  <2>3. size - (j + 1) \in Nat /\ k - (j + 1) \in 0 .. size - (j + 1)
        /\ (j + 1) + (k - (j + 1)) = k
    BY <1>1, <1>4
  <2>4. 0 .. size - (j + 1) \subseteq T
    <3> HIDE DEF T
    <3> QED BY <2>1, <2>2, <2>3, UpTo
  <2>5. k - (j + 1) \in T
    BY <2>3, <2>4
  <2> QED BY <2>3, <2>5
<1>5. q[1].from < q[size].to
  <2>1. 1 \in 1 .. size /\ size \in 1 .. size /\ (1 = size \/ 1 < size)
    BY <1>1
  <2> QED BY <1>2, <1>4, <2>1
<1> QED BY <1>4, <1>5 DEF size

\* The states after the first g symbols of a form.
Frame(u, n, g, st) ==
    /\ n \in Nat /\ g \in Nat /\ g < n
    /\ \A i \in 0 .. g : Begun(st[i])
    /\ \A i \in 1 .. g : Advances(st[i - 1], st[i], u[i].sym)

\* Part i of a right-hand side is the first that is not below the top of the stack.
Active(p, q, i, u, g, st) ==
    /\ i \in 1 .. Size(p)
    /\ q[i].from <= g /\ g <= q[i].to
    /\ q[i].from = q[1].from + (i - 1)
    /\ <<p, i - 1>> \in st[q[i].from]
    /\ Expects(st[q[i].from], q[i].sym)
    /\ \A j \in 1 .. i - 1 : IsLeaf(q[j], u) /\ q[j].to <= q[i].from
    /\ \A j \in i + 1 .. Size(p) : q[i].to <= q[j].from

\* There is one in whatever is not below the top, where the stack waits for it: what
\* is on the left of it are symbols of the stack.
LEMMA Descent ==
  ASSUME NEW u, NEW n, NEW g, NEW st, Frame(u, n, g, st),
         NEW p \in Rules, NEW q, Fits(p, q),
         \A k \in 1 .. Size(p) : Shaped(q[k], u, n, g),
         q[1].from <= g, g <= q[Size(p)].to,
         Expects(st[q[1].from], Lhs(p))
  PROVE  \E i \in 1 .. Size(p) : Active(p, q, i, u, g, st)
<1> DEFINE size == Size(p)
           f == q[1].from
<1>1. size \in 1 .. 6 /\ n \in Nat /\ g \in Nat /\ g < n
  BY GrammarRules DEF Frame
<1>2. \A k \in 1 .. size : q[k].from \in Nat /\ q[k].to \in Nat /\ q[k].from < q[k].to
  BY DEF Shaped
<1>3. \A j, k \in 1 .. size : j < k => q[j].to <= q[k].from
  BY PartsInOrder
<1>4. \A k \in 1 .. size - 1 : q[k].to = q[k + 1].from
  BY DEF Fits
<1>5. \A k \in 1 .. size : q[k].sym = Sym(p, k)
  BY DEF Fits
<1>6. f \in Nat /\ f <= g
  BY <1>1, <1>2
<1>7. PICK i \in 1 .. size : g <= q[i].to /\ \A j \in 1 .. size : g <= q[j].to => i <= j
  <2> DEFINE S == {k \in 1 .. size : g <= q[k].to}
  <2>1. S \in SUBSET Nat /\ S # {}
    BY <1>1
  <2>2. PICK i \in S : \A j \in S : i <= j
    <3> HIDE DEF S
    <3> QED BY <2>1, Least
  <2> QED BY <2>2
<1> HIDE DEF size, f
<1>8. ASSUME NEW j \in 1 .. i - 1
      PROVE  /\ j \in 1 .. size /\ j < i /\ q[j].to < g
             /\ IsLeaf(q[j], u) /\ q[j].to = q[j].from + 1 /\ u[q[j].to].sym = Sym(p, j)
  <2>1. j \in 1 .. size /\ j < i
    BY <1>1
  <2>2. q[j].to < g
    BY <1>1, <1>2, <1>7, <2>1
  <2>3. IsLeaf(q[j], u)
    BY <2>1, <2>2 DEF Shaped, size
  <2> QED BY <1>5, <2>1, <2>2, <2>3 DEF IsLeaf
<1> DEFINE T == {d \in 0 .. i - 1 : q[d + 1].from = f + d /\ <<p, d>> \in st[f + d]}
<1>9. 0 \in T
  <2>1. <<p, 0>> \in st[f]
    <3>1. Begun(st[f])
      BY <1>1, <1>6 DEF Frame
    <3> QED BY <3>1 DEF Begun, f
  <2>2. f + 0 = f /\ 0 + 1 = 1 /\ 0 \in 0 .. i - 1
    BY <1>1, <1>6
  <2> QED BY <2>1, <2>2 DEF f
<1>10. ASSUME NEW d \in 0 .. (i - 1) - 1, d \in T
       PROVE  d + 1 \in T
  <2>1. /\ d + 1 \in 1 .. i - 1 /\ d + 1 \in 0 .. i - 1 /\ d + 1 \in 1 .. size - 1
        /\ d \in 0 .. size - 1
    BY <1>1
  <2>2. q[d + 1].from = f + d /\ <<p, d>> \in st[f + d]
    BY <1>10
  <2>3. /\ q[d + 1].to = (f + d) + 1 /\ (f + d) + 1 < g
        /\ u[(f + d) + 1].sym = Sym(p, d + 1)
    BY <1>8, <2>1, <2>2
  <2>4. (f + d) + 1 \in 1 .. g /\ ((f + d) + 1) - 1 = f + d /\ (f + d) + 1 = f + (d + 1)
    BY <1>1, <1>6, <2>3
  <2>5. Advances(st[f + d], st[(f + d) + 1], u[(f + d) + 1].sym)
    BY <2>4 DEF Frame
  <2>6. <<p, d + 1>> \in st[(f + d) + 1]
    BY <2>1, <2>2, <2>3, <2>5 DEF Advances, size
  <2>7. q[(d + 1) + 1].from = (f + d) + 1
    BY <1>4, <2>1, <2>3
  <2> QED BY <2>1, <2>4, <2>6, <2>7
<1>11. i - 1 \in T
  <2> HIDE DEF T
  <2>1. i - 1 \in Nat /\ i - 1 \in 0 .. i - 1
    BY <1>1
  <2> QED BY <1>9, <1>10, <2>1, UpTo
<1>12. q[i].from = f + (i - 1) /\ <<p, i - 1>> \in st[q[i].from]
  <2>1. (i - 1) + 1 = i
    BY <1>1
  <2> QED BY <1>11, <2>1
<1>13. q[i].from <= g
  <2>1. CASE i = 1
    BY <1>6, <2>1 DEF f
  <2>2. CASE i # 1
    <3>1. i - 1 \in 1 .. i - 1 /\ i - 1 \in 1 .. size - 1 /\ (i - 1) + 1 = i
      BY <1>1, <2>2
    <3>2. q[i].from = q[i - 1].to /\ q[i - 1].to < g
      BY <1>4, <1>8, <3>1
    <3> QED BY <1>1, <1>2, <1>8, <3>1, <3>2
  <2> QED BY <2>1, <2>2
<1>14. Expects(st[q[i].from], q[i].sym)
  <2>1. i - 1 \in 0 .. size - 1 /\ (i - 1) + 1 = i
    BY <1>1
  <2> QED BY <1>5, <1>12, <2>1 DEF Expects, size
<1>15. \A j \in 1 .. i - 1 : IsLeaf(q[j], u) /\ q[j].to <= q[i].from
  BY <1>3, <1>8
<1>16. \A j \in i + 1 .. size : q[i].to <= q[j].from
  <2>1. \A j \in i + 1 .. size : j \in 1 .. size /\ i < j
    BY <1>1
  <2> QED BY <1>3, <2>1
<1> HIDE DEF T
<1> QED BY <1>7, <1>12, <1>13, <1>14, <1>15, <1>16 DEF Active, size, f

\* Where position x is after h symbols below position g became one.
Moved(x, g, h) == IF x < g THEN x ELSE (x - h) + 1

Image(t, g, h) == Piece(t.sym, Moved(t.from, g, h), Moved(t.to, g, h))

\* The form v is what is left of u when the symbols below g are reduced by rule r.
Reduced(u, v, n, g, r) ==
    /\ Size(r) <= g
    /\ \A k \in 1 .. g - Size(r) : v[k] = u[k]
    /\ v[(g - Size(r)) + 1].sym = Lhs(r)
    /\ \A k \in g + 1 .. n : v[(k - Size(r)) + 1] = u[k]

\* What is read as t is still there to be read after the reduction.
LateAfter(t, v, n, g, r) ==
    Late(Image(t, g, Size(r)), v, (n - Size(r)) + 1, (g - Size(r)) + 1)

\* The states st after the symbols of form u.  No rule but r may be complete, and if
\* it is, then v is what is left after it.
Choice(u, n, g, st, r, v) ==
    /\ Frame(u, n, g, st)
    /\ r \in Rules
    /\ \A p \in Rules \ {1} : <<p, Size(p)>> \in st[g] => p = r
    /\ <<r, Size(r)>> \in st[g] => Reduced(u, v, n, g, r)

\* t can be read after the next symbol is taken, which the top of the stack waits for.
Forward(t, u, n, g, st) ==
    /\ t.to > g
    /\ Late(t, u, n, g + 1)
    /\ Expects(st[g], u[g + 1].sym)

\* t can be read after the reduction, which is possible.
Backward(t, u, n, g, st, r, v) ==
    /\ t.sym \in Heads
    /\ t.from <= g - Size(r)
    /\ <<r, Size(r)>> \in st[g]
    /\ ~ Refused(r, u[(g - Size(r)) + 1].val)
    /\ LateAfter(t, v, n, g, r)

\* A symbol of the form can be read whatever was reduced.
LEMMA LeafIsLate ==
  ASSUME NEW u, NEW n \in Nat, NEW g, NEW t, Shaped(t, u, n, g), IsLeaf(t, u), NEW h
  PROVE  Late(t, u, n, h)
<1>1. t.to \in 1 .. n /\ t.from = t.to - 1
  BY DEF Shaped, IsLeaf
<1>2. t = Piece(u[t.to].sym, t.to - 1, t.to)
  BY <1>1 DEF Shaped, IsLeaf
<1>3. Late(Piece(u[t.to].sym, t.to - 1, t.to), u, n, h)
  BY <1>1, LateLeaf
<1> QED BY <1>2, <1>3

\* The same rule makes the images of the parts into that of the whole.
LEMMA LateImage ==
  ASSUME NEW v, NEW n \in Nat, NEW g \in Nat, NEW r \in Rules, Size(r) <= g,
         NEW p \in Rules, p # 1, NEW q, Fits(p, q),
         \A k \in 1 .. Size(p) : LateAfter(q[k], v, n, g, r),
         q[Size(p)].to \in Nat, g <= q[Size(p)].to,
         ~ Refused(p, v[Moved(q[1].from, g, Size(r)) + 1].val)
  PROVE  LateAfter(Piece(Lhs(p), q[1].from, q[Size(p)].to), v, n, g, r)
<1> DEFINE size == Size(p)
           h == Size(r)
           m == [k \in 1 .. size |-> Image(q[k], g, h)]
           n2 == (n - h) + 1
           g2 == (g - h) + 1
<1>1. /\ size \in 1 .. 6 /\ h \in 1 .. 6
      /\ 1 \in 1 .. size /\ size \in 1 .. size
      /\ \A k \in 1 .. size - 1 : k \in 1 .. size /\ k + 1 \in 1 .. size
  <2>1. size \in 1 .. 6 /\ h \in 1 .. 6
    BY GrammarRules
  <2> QED BY <2>1
<1>2. \A k \in 1 .. size : /\ m[k].sym = q[k].sym
                           /\ m[k].from = Moved(q[k].from, g, h)
                           /\ m[k].to = Moved(q[k].to, g, h)
                           /\ Late(m[k], v, n2, g2)
  BY DEF Image, Piece, LateAfter
<1>3. /\ \A k \in 1 .. size : q[k].sym = Sym(p, k)
      /\ \A k \in 1 .. size - 1 : q[k].to = q[k + 1].from
  BY DEF Fits
<1> HIDE DEF size, m, h, n2
<1>4. \A k \in 1 .. size : m[k].sym = Sym(p, k)
  BY <1>2, <1>3
<1>5. \A k \in 1 .. size - 1 : m[k].to = m[k + 1].from
  BY <1>1, <1>2, <1>3
<1>6. Fits(p, m)
  BY <1>4, <1>5 DEF Fits, size
<1>7. g2 <= m[size].to
  <2>1. m[size].to = (q[size].to - h) + 1
    BY <1>1, <1>2 DEF Moved, size
  <2> QED BY <1>1, <2>1 DEF size
<1>8. ~ Refused(p, v[m[1].from + 1].val)
  BY <1>1, <1>2 DEF h
<1> HIDE DEF g2
<1>9. Late(Piece(Lhs(p), m[1].from, m[size].to), v, n2, g2)
  BY <1>2, <1>6, <1>7, <1>8, LateRule DEF size
<1>10. Piece(Lhs(p), m[1].from, m[size].to)
         = Image(Piece(Lhs(p), q[1].from, q[size].to), g, h)
  BY <1>1, <1>2 DEF Image, Piece
<1> QED BY <1>9, <1>10 DEF LateAfter, size, h, n2, g2

\* Rules that may refuse begin with a terminal.
LEMMA RefusingRules ==
  ASSUME NEW p \in Rules, NEW x, Refused(p, x)
  PROVE  p \in {7, 29, 30} /\ Sym(p, 1) \notin Heads
<1>1. p \in {7, 29, 30}
  BY DEF Refused
<1>2. Sym(p, 1) \in {"NUMBER", "ID"}
  BY ONLY <1>1, GrammarTable
<1>3. "NUMBER" \notin Heads /\ "ID" \notin Heads
  <2>1. ASSUME NEW q \in Rules
        PROVE  Lhs(q) \notin {"NUMBER", "ID"}
    <3>1. OneByOne(q)
      BY GrammarRules
    <3> QED BY ONLY <3>1, GrammarTable DEF OneByOne
  <2> QED BY <2>1 DEF Heads
<1> QED BY <1>1, <1>2, <1>3

\* What is claimed of every part of the form that can be read: nothing above the top
\* of the stack depends on the next step, and for what the stack waits for the next
\* step is the right one.
Claim(t, u, n, g, st, r, v) ==
    /\ Shaped(t, u, n, g)
    /\ g <= t.from =>
          /\ Late(t, u, n, g + 1)
          /\ <<r, Size(r)>> \in st[g] => LateAfter(t, v, n, g, r)
    /\ t.from <= g /\ g <= t.to /\ Expects(st[t.from], t.sym) =>
          \/ IsLeaf(t, u) /\ t.to = g
          \/ Forward(t, u, n, g, st)
          \/ Backward(t, u, n, g, st, r, v)

\* It holds for the symbols of the form.
LEMMA ClaimLeaf ==
  ASSUME NEW u, NEW n, NEW g, NEW st, NEW r, NEW v, Choice(u, n, g, st, r, v),
         NEW k \in 1 .. n
  PROVE  Claim(Piece(u[k].sym, k - 1, k), u, n, g, st, r, v)
<1> DEFINE t == Piece(u[k].sym, k - 1, k)
<1>1. /\ n \in Nat /\ g \in Nat /\ g < n /\ r \in Rules /\ Size(r) \in 1 .. 6
      /\ <<r, Size(r)>> \in st[g] => Reduced(u, v, n, g, r)
  BY GrammarRules DEF Choice, Frame
<1>2. t.sym = u[k].sym /\ t.from = k - 1 /\ t.to = k /\ t = Piece(t.sym, t.from, t.to)
  BY DEF Piece
<1> HIDE DEF t
<1>3. IsLeaf(t, u) /\ Shaped(t, u, n, g)
  BY <1>1, <1>2 DEF IsLeaf, Shaped
<1>4. Late(t, u, n, g + 1)
  BY <1>1, <1>3, LeafIsLate
<1>5. ASSUME g <= t.from, <<r, Size(r)>> \in st[g]
      PROVE  LateAfter(t, v, n, g, r)
  <2> DEFINE h == Size(r)
             m == (k - h) + 1
  <2>1. /\ h <= g /\ h \in 1 .. 6 /\ k \in g + 1 .. n
        /\ v[m] = u[k]
    BY <1>1, <1>2, <1>5 DEF Reduced
  <2>2. m \in 1 .. (n - h) + 1 /\ ((k - 1) - h) + 1 = m - 1
    BY <1>1, <2>1
  <2>3. Moved(t.from, g, h) = m - 1 /\ Moved(t.to, g, h) = m
    BY <1>1, <1>2, <1>5, <2>2 DEF Moved
  <2>4. Image(t, g, h) = Piece(v[m].sym, m - 1, m)
    BY <1>2, <2>1, <2>3 DEF Image
  <2> HIDE DEF m, h
  <2>5. Late(Piece(v[m].sym, m - 1, m), v, (n - h) + 1, (g - h) + 1)
    BY <2>2, LateLeaf
  <2> QED BY <2>4, <2>5 DEF LateAfter, h
<1>6. ASSUME t.from <= g, g <= t.to, Expects(st[t.from], t.sym), t.to # g
      PROVE  Forward(t, u, n, g, st)
  <2>1. k = g + 1 /\ t.from = g
    BY <1>1, <1>2, <1>6
  <2> QED BY <1>1, <1>2, <1>4, <1>6, <2>1 DEF Forward
<1>7. Claim(t, u, n, g, st, r, v)
  BY <1>3, <1>4, <1>5, <1>6 DEF Claim
<1> QED BY <1>7 DEF t

\* And for what the rules make of parts for which it holds.
LEMMA ClaimRule ==
  ASSUME NEW u, NEW n, NEW g, NEW st, NEW r, NEW v, Choice(u, n, g, st, r, v),
         NEW p \in Rules, p # 1, NEW q, Fits(p, q),
         \A k \in 1 .. Size(p) : Claim(q[k], u, n, g, st, r, v),
         g <= q[Size(p)].to, ~ Refused(p, u[q[1].from + 1].val)
  PROVE  Claim(Piece(Lhs(p), q[1].from, q[Size(p)].to), u, n, g, st, r, v)
<1> DEFINE size == Size(p)
           h == Size(r)
           f == q[1].from
           t == Piece(Lhs(p), f, q[size].to)
           complete == <<r, h>> \in st[g]
<1>1. /\ n \in Nat /\ g \in Nat /\ g < n /\ r \in Rules
      /\ h \in 1 .. 6 /\ size \in 1 .. 6
      /\ complete => Reduced(u, v, n, g, r) /\ h <= g
      /\ Frame(u, n, g, st)
  BY GrammarRules DEF Choice, Frame, Reduced
<1>2. \A k \in 1 .. size : Shaped(q[k], u, n, g)
  BY DEF Claim
<1>3. \A k \in 1 .. size : q[k].from \in Nat /\ q[k].to \in Nat /\ q[k].from < q[k].to
                           /\ q[k].to <= n
  BY <1>2 DEF Shaped
<1>4. /\ \A j, k \in 1 .. size : j < k => q[j].to <= q[k].from
      /\ f < q[size].to
  BY <1>2, PartsInOrder
<1>5. /\ \A k \in 1 .. size : q[k].sym = Sym(p, k)
      /\ \A k \in 1 .. size - 1 : q[k].to = q[k + 1].from
  BY DEF Fits
<1>6. 1 \in 1 .. size /\ size \in 1 .. size
  BY <1>1
<1>7. t.sym = Lhs(p) /\ t.from = f /\ t.to = q[size].to /\ t = Piece(t.sym, t.from, t.to)
  BY DEF Piece
<1> HIDE DEF t
<1>8. Shaped(t, u, n, g)
  <2>1. t.sym \in Heads
    BY <1>7 DEF Heads
  <2>2. ~ (t.to < g)
    BY <1>1, <1>3, <1>6, <1>7
  <2> QED BY <1>3, <1>4, <1>6, <1>7, <2>1, <2>2 DEF Shaped
<1>9. ASSUME \A k \in 1 .. size : Late(q[k], u, n, g + 1), g < q[size].to
      PROVE  Late(t, u, n, g + 1)
  <2>1. g + 1 <= q[size].to
    BY <1>1, <1>3, <1>6, <1>9
  <2> QED BY <1>9, <2>1, LateRule DEF t
<1>10. ASSUME \A k \in 1 .. size : LateAfter(q[k], v, n, g, r), complete,
              ~ Refused(p, v[Moved(f, g, h) + 1].val)
       PROVE  LateAfter(t, v, n, g, r)
  BY <1>1, <1>3, <1>6, <1>10, LateImage DEF t
<1>11. ASSUME g <= f
       PROVE  /\ Late(t, u, n, g + 1)
              /\ complete => LateAfter(t, v, n, g, r)
  <2>1. \A k \in 1 .. size : g <= q[k].from
    <3>1. \A k \in 1 .. size : k = 1 \/ 1 < k
      OBVIOUS
    <3> QED BY <1>1, <1>3, <1>4, <1>6, <1>11, <3>1
  <2>2. \A k \in 1 .. size :
          /\ Late(q[k], u, n, g + 1)
          /\ complete => LateAfter(q[k], v, n, g, r)
    BY <2>1 DEF Claim
  <2>3. g < q[size].to
    BY <1>1, <1>3, <1>4, <1>6, <1>11
  <2>4. ASSUME complete
        PROVE  ~ Refused(p, v[Moved(f, g, h) + 1].val)
    <3>1. f + 1 \in g + 1 .. n /\ Moved(f, g, h) + 1 = ((f + 1) - h) + 1
      BY <1>1, <1>3, <1>6, <1>11 DEF Moved
    <3>2. v[((f + 1) - h) + 1] = u[f + 1]
      BY <1>1, <2>4, <3>1 DEF Reduced
    <3> QED BY <3>1, <3>2
  <2> QED BY <1>9, <1>10, <2>2, <2>3, <2>4
<1>12. ASSUME f <= g, Expects(st[f], Lhs(p))
       PROVE  Forward(t, u, n, g, st) \/ Backward(t, u, n, g, st, r, v)
  <2>1. PICK i \in 1 .. size : Active(p, q, i, u, g, st)
    BY <1>1, <1>2, <1>12, Descent
  <2>2. /\ q[i].from <= g /\ g <= q[i].to
        /\ q[i].from = f + (i - 1)
        /\ <<p, i - 1>> \in st[q[i].from]
        /\ Expects(st[q[i].from], q[i].sym)
        /\ \A j \in 1 .. i - 1 : IsLeaf(q[j], u) /\ q[j].to <= q[i].from
        /\ \A j \in i + 1 .. size : q[i].to <= q[j].from
    BY <2>1 DEF Active
  <2>3. \A k \in 1 .. size : k \in 1 .. i - 1 \/ k = i \/ k \in i + 1 .. size
    OBVIOUS
  <2>4. \A k \in i + 1 .. size : k \in 1 .. size /\ g <= q[k].from
    <3>1. \A k \in i + 1 .. size : k \in 1 .. size
      OBVIOUS
    <3> QED BY <1>1, <1>3, <2>2, <3>1
  <2>5. \A k \in i + 1 .. size :
          /\ Late(q[k], u, n, g + 1)
          /\ complete => LateAfter(q[k], v, n, g, r)
    BY <2>4 DEF Claim
  <2>6. \A k \in 1 .. i - 1 : k \in 1 .. size /\ Late(q[k], u, n, g + 1)
    <3>1. \A k \in 1 .. i - 1 : k \in 1 .. size
      BY <1>1
    <3> QED BY <1>1, <1>2, <2>2, <3>1, LeafIsLate
  <2>7. ASSUME Late(q[i], u, n, g + 1), g < q[size].to, Expects(st[g], u[g + 1].sym)
        PROVE  Forward(t, u, n, g, st)
    <3>1. \A k \in 1 .. size : Late(q[k], u, n, g + 1)
      BY <2>3, <2>5, <2>6, <2>7
    <3>2. t.to > g
      BY <1>3, <1>6, <1>7, <2>7
    <3> QED BY <1>9, <2>7, <3>1, <3>2 DEF Forward
  <2>8. \/ IsLeaf(q[i], u) /\ q[i].to = g
        \/ Forward(q[i], u, n, g, st)
        \/ Backward(q[i], u, n, g, st, r, v)
    BY <2>2 DEF Claim
  <2>9. CASE Forward(q[i], u, n, g, st)
    <3>1. g < q[size].to
      <4>1. i = size \/ i < size
        BY <1>1
      <4> QED BY <1>1, <1>3, <1>4, <1>6, <2>9, <4>1 DEF Forward
    <3> QED BY <2>7, <2>9, <3>1 DEF Forward
  <2>10. CASE IsLeaf(q[i], u) /\ q[i].to = g /\ i < size
    <3>1. /\ i \in 1 .. size - 1 /\ i \in 0 .. size - 1 /\ i + 1 \in 1 .. size
          /\ i + 1 \in i + 1 .. size
      BY <1>1, <2>10
    <3>2. q[i + 1].from = g /\ q[i + 1].sym = Sym(p, i + 1)
      BY <1>5, <2>10, <3>1
    <3>3. g \in 1 .. g /\ q[i].from = g - 1 /\ u[g].sym = Sym(p, (i - 1) + 1)
          /\ i - 1 \in 0 .. size - 1
      <4>1. q[i].from = g - 1 /\ u[g].sym = q[i].sym /\ (i - 1) + 1 = i
        BY <1>1, <1>3, <2>10 DEF IsLeaf
      <4> QED BY <1>1, <1>3, <1>5, <2>10, <4>1
    <3>4. Advances(st[g - 1], st[g], u[g].sym)
      BY <1>1, <3>3 DEF Frame
    <3>5. <<p, (i - 1) + 1>> \in st[g]
      BY <2>2, <3>3, <3>4 DEF Advances, size
    <3>6. Expects(st[g], q[i + 1].sym)
      <4>1. (i - 1) + 1 = i
        OBVIOUS
      <4> QED BY <3>1, <3>2, <3>5, <4>1 DEF Expects, size
    <3>7. g < q[i + 1].to /\ g <= g /\ ~ (g <= g - h)
      BY <1>1, <1>3, <3>1, <3>2
    <3>8. Forward(q[i + 1], u, n, g, st)
      <4>1. Claim(q[i + 1], u, n, g, st, r, v)
        BY <3>1
      <4>2. q[i + 1].to # g /\ g <= q[i + 1].to
        BY <1>1, <1>3, <3>1, <3>7
      <4> QED BY <3>2, <3>6, <3>7, <4>1, <4>2 DEF Claim, Backward
    <3>9. g < q[size].to
      <4>1. i + 1 = size \/ i + 1 < size
        BY <1>1, <2>10
      <4> QED BY <1>1, <1>3, <1>4, <1>6, <3>1, <3>7, <4>1
    <3>10. Late(q[i], u, n, g + 1)
      BY <1>1, <1>2, <2>10, LeafIsLate
    <3> QED BY <2>7, <3>8, <3>9, <3>10 DEF Forward
  <2>11. CASE IsLeaf(q[i], u) /\ q[i].to = g /\ i = size
    <3>3. g \in 1 .. g /\ q[i].from = g - 1 /\ u[g].sym = Sym(p, (i - 1) + 1)
          /\ i - 1 \in 0 .. size - 1
      <4>1. q[i].from = g - 1 /\ u[g].sym = q[i].sym /\ (i - 1) + 1 = i
        BY <1>1, <1>3, <2>11 DEF IsLeaf
      <4> QED BY <1>1, <1>3, <1>5, <2>11, <4>1
    <3>4. Advances(st[g - 1], st[g], u[g].sym)
      BY <1>1, <3>3 DEF Frame
    <3>5. <<p, (i - 1) + 1>> \in st[g]
      BY <2>2, <3>3, <3>4 DEF Advances, size
    <3>6. <<p, Size(p)>> \in st[g]
      <4>1. (i - 1) + 1 = Size(p)
        BY <2>11
      <4> QED BY <3>5, <4>1
    <3>7. p = r
      BY <3>6 DEF Choice
    <3>8. complete /\ size = h
      BY <3>6, <3>7
    <3>9. f = g - h /\ f + 1 = (g - h) + 1
      BY <1>1, <1>3, <1>6, <2>2, <2>11, <3>3, <3>8
    <3>10. LateAfter(t, v, n, g, r)
      <4> DEFINE k == (g - h) + 1
      <4>1. v[k].sym = Lhs(r) /\ h <= g
        BY <1>1, <3>8 DEF Reduced
      <4>2. k \in 1 .. (n - h) + 1 /\ k - 1 = g - h
        BY <1>1, <4>1
      <4>3. t.from = k - 1 /\ t.to = g /\ t.sym = v[k].sym
        BY <1>7, <2>11, <3>7, <3>9, <4>1, <4>2
      <4>4. Moved(t.from, g, h) = k - 1 /\ Moved(t.to, g, h) = k
        BY <1>1, <4>2, <4>3 DEF Moved
      <4>5. Image(t, g, h) = Piece(v[k].sym, k - 1, k)
        BY <4>3, <4>4 DEF Image
      <4> HIDE DEF k
      <4>6. Late(Piece(v[k].sym, k - 1, k), v, (n - h) + 1, (g - h) + 1)
        BY <4>2, LateLeaf
      <4> QED BY <4>5, <4>6 DEF LateAfter
    <3>11. t.sym \in Heads /\ t.from <= g - h
      BY <1>1, <1>7, <3>9 DEF Heads
    <3>12. ~ Refused(r, u[(g - h) + 1].val)
      BY <3>7, <3>9
    <3> QED BY <3>8, <3>10, <3>11, <3>12 DEF Backward
  <2>12. CASE Backward(q[i], u, n, g, st, r, v)
    <3>1. /\ complete /\ q[i].sym \in Heads /\ q[i].from <= g - h
          /\ ~ Refused(r, u[(g - h) + 1].val)
          /\ LateAfter(q[i], v, n, g, r)
      BY <2>12 DEF Backward
    <3>2. Reduced(u, v, n, g, r) /\ h <= g
      BY <1>1, <3>1
    <3>3. ASSUME NEW k \in 1 .. i - 1
          PROVE  LateAfter(q[k], v, n, g, r)
      <4> DEFINE e == q[k].to
      <4>1. k \in 1 .. size /\ q[k].from = e - 1 /\ q[k].sym = u[e].sym
        BY <1>1, <1>3, <2>2, <2>6 DEF IsLeaf
      <4>2. e \in 1 .. g - h /\ e < g /\ e - 1 < g
        BY <1>1, <1>3, <2>2, <3>1, <4>1
      <4>3. v[e] = u[e]
        BY <3>2, <4>2 DEF Reduced
      <4>4. Image(q[k], g, h) = Piece(v[e].sym, e - 1, e)
        BY <4>1, <4>2, <4>3 DEF Image, Moved
      <4> HIDE DEF e
      <4>5. e \in 1 .. (n - h) + 1
        BY <1>1, <4>2
      <4>6. Late(Piece(v[e].sym, e - 1, e), v, (n - h) + 1, (g - h) + 1)
        BY <4>5, LateLeaf
      <4> QED BY <4>4, <4>6 DEF LateAfter
    <3>4. \A k \in 1 .. size : LateAfter(q[k], v, n, g, r)
      BY <2>3, <2>5, <3>1, <3>3
    <3>5. f <= g - h /\ f < g
      BY <1>1, <1>3, <1>6, <2>2, <3>1
    <3>6. ~ Refused(p, v[Moved(f, g, h) + 1].val)
      <4>1. Moved(f, g, h) = f
        BY <3>5 DEF Moved
      <4>2. CASE i = 1
        BY <1>5, <1>6, <3>1, <4>2, RefusingRules
      <4>3. CASE i # 1
        <5>1. f + 1 \in 1 .. g - h
          BY <1>1, <1>3, <1>6, <2>2, <3>1, <4>3
        <5>2. v[f + 1] = u[f + 1]
          BY <3>2, <5>1 DEF Reduced
        <5> QED BY <4>1, <5>2
      <4> QED BY <4>2, <4>3
    <3>7. LateAfter(t, v, n, g, r)
      BY <1>10, <3>1, <3>4, <3>6
    <3>8. t.sym \in Heads /\ t.from <= g - h
      BY <1>7, <3>5 DEF Heads
    <3> QED BY <3>1, <3>7, <3>8 DEF Backward
  <2>13. i = size \/ i < size
    BY <1>1
  <2> QED BY <2>8, <2>9, <2>10, <2>11, <2>12, <2>13
<1>13. Claim(t, u, n, g, st, r, v)
  BY <1>7, <1>8, <1>11, <1>12 DEF Claim
<1> QED BY <1>13 DEF t

\* So it holds for every part that can be read.
LEMMA Viable ==
  ASSUME NEW u, NEW n, NEW g, NEW st, NEW r, NEW v, Choice(u, n, g, st, r, v),
         NEW t, Late(t, u, n, g)
  PROVE  Claim(t, u, n, g, st, r, v)
<1> DEFINE S == {x \in Pieces(u, n) : Claim(x, u, n, g, st, r, v)}
<1>1. n \in Nat
  BY DEF Choice, Frame
<1>2. \A k \in 1 .. n : Piece(u[k].sym, k - 1, k) \in S
  <2>1. \A k \in 1 .. n : k - 1 \in 0 .. n /\ k \in 0 .. n
    BY <1>1
  <2> QED BY <2>1, ClaimLeaf DEF Pieces
<1>3. ASSUME NEW p \in Rules \ {1}, NEW q \in [1 .. Size(p) -> S], Fits(p, q),
             g <= q[Size(p)].to, ~ Refused(p, u[q[1].from + 1].val)
      PROVE  Piece(Lhs(p), q[1].from, q[Size(p)].to) \in S
  <2>1. \A k \in 1 .. Size(p) : Claim(q[k], u, n, g, st, r, v) /\ q[k] \in Pieces(u, n)
    OBVIOUS
  <2> HIDE DEF S
  <2>2. Claim(Piece(Lhs(p), q[1].from, q[Size(p)].to), u, n, g, st, r, v)
    BY <1>3, <2>1, ClaimRule
  <2>3. Piece(Lhs(p), q[1].from, q[Size(p)].to) \in Pieces(u, n)
    <3>1. 1 \in 1 .. Size(p) /\ Size(p) \in 1 .. Size(p)
      <4>1. Size(p) \in 1 .. 6
        BY GrammarRules
      <4> QED BY <4>1
    <3>2. q[1].from \in 0 .. n /\ q[Size(p)].to \in 0 .. n
      BY <2>1, <3>1 DEF Pieces, Piece
    <3>3. Lhs(p) \in Heads
      BY DEF Heads
    <3> QED BY <3>2, <3>3 DEF Pieces
  <2> QED BY <2>2, <2>3 DEF S
<1> HIDE DEF S
<1>4. Built(S, u, n, g)
  BY <1>2, <1>3 DEF Built
<1>5. t \in S
  BY <1>4 DEF Late
<1> QED BY <1>5 DEF S

-----------------------------------------------------------------------------
(* Where a token can be shifted although a rule is complete.               *)

\* What may follow in a rule where another one is at its end.
LEMMA FollowsLast ==
  ASSUME NEW r \in Rules, r # 1, NEW p \in Rules, NEW k \in 1 .. Size(p) - 1,
         Sym(p, k) = Sym(r, Size(r))
  PROVE  \/ r \in {2, 3, 5} /\ Sym(p, k + 1) = "semicolon"
         \/ r \in {4, 6} /\ Sym(p, k + 1) \in {"entries", "entry"}
         \/ /\ r \in {12, 22, 24, 25}
            /\ \/ Sym(p, k + 1) = "=" /\ p = 11 /\ k = 1
               \/ Sym(p, k + 1) = ")" /\ p = 23 /\ k = 2
               \/ Sym(p, k + 1) \in {"|", "&"}
<1>1. OneByOne(r) /\ OneByOne(p)
  BY GrammarRules
<1>2. k <= Size(p) - 1 /\ (k = 1 \/ k = 2 \/ k = 3 \/ k = 4 \/ k = 5)
  <2>1. Size(p) \in 1 .. 6
    BY GrammarRules
  <2> QED BY <2>1
<1> DEFINE X == Sym(r, Size(r))
<1>3. /\ X \in {"version", "entries", "semicolon", "expr"}
            \/ X \in {"NUMBER", "entry", "access", "ALLOW", "DENY", "WILDCARD", "WORD",
                      "term", ")", "STRING"}
      /\ X = "version" => r = 2
      /\ X = "entries" => r \in {3, 5}
      /\ X = "semicolon" => r \in {4, 6}
      /\ X = "expr" => r \in {12, 22, 24, 25}
  BY ONLY <1>1, r # 1, GrammarTable DEF OneByOne
<1>4. /\ Sym(p, k) \in {"version", "entries"} => Sym(p, k + 1) = "semicolon"
      /\ Sym(p, k) = "semicolon" => Sym(p, k + 1) \in {"entries", "entry"}
      /\ Sym(p, k) = "expr" =>
            \/ Sym(p, k + 1) = "=" /\ p = 11 /\ k = 1
            \/ Sym(p, k + 1) = ")" /\ p = 23 /\ k = 2
            \/ Sym(p, k + 1) \in {"|", "&"}
      /\ Sym(p, k) \notin {"NUMBER", "entry", "access", "ALLOW", "DENY", "WILDCARD",
                           "WORD", "term", ")", "STRING"}
  BY ONLY <1>1, <1>2, GrammarTable, SMTT(60) DEF OneByOne
<1> QED BY ONLY <1>3, <1>4, Sym(p, k) = Sym(r, Size(r))

\* Nothing but the operators is really ambiguous: for the other rules what can be
\* shifted is not what may come after their left-hand side.
Conflict(r, c) ==
    \/ r \in {2, 3, 4, 5, 6} /\ c # "$end"
    \/ r = 12 /\ c \in {"=", "|", "&"}
    \/ r \in {22, 24, 25} /\ c \in {"|", "&"}

\* The end of the text is shifted only after a policy.
LEMMA EndFollows ==
  ASSUME NEW p \in Rules, NEW k \in 0 .. Size(p) - 1, Sym(p, k + 1) = "$end"
  PROVE  p = 1 /\ k = 1
<1>1. OneByOne(p)
  BY GrammarRules
<1>2. k <= Size(p) - 1 /\ (k = 0 \/ k = 1 \/ k = 2 \/ k = 3 \/ k = 4 \/ k = 5)
  <2>1. Size(p) \in 1 .. 6
    BY GrammarRules
  <2> QED BY <2>1
<1> QED BY ONLY <1>1, <1>2, Sym(p, k + 1) = "$end", GrammarTable, SMTT(60) DEF OneByOne

\* These are the conflicts of the parser.
LEMMA Conflicts ==
  ASSUME StackOK(stack), Linked(stack), NEW r \in Complete, r # 1, NEW c \in Shiftable
  PROVE  Conflict(r, c)
<1> DEFINE n == Len(stack)
<1>1. /\ n \in Nat /\ r \in Rules /\ Size(r) \in 1 .. 6 /\ n - Size(r) \in 1 .. n - 1
      /\ n \in 1 .. n /\ n \in 2 .. n /\ n - 1 \in 1 .. n - 1 /\ n - 1 \in 1 .. n
      /\ (n - 1) + 1 = n
  <2>1. n \in Nat /\ r \in Rules /\ Size(r) \in 1 .. 6 /\ n - Size(r) \in 1 .. n - 1
    BY CompleteRule DEF StackOK
  <2> QED BY <2>1
<1>2. State = Goto(stack[n - 1].state, stack[n].sym) /\ stack[n].sym \in Symbols
  BY <1>1 DEF Linked, State
<1>3. stack[n - 1].state \in SUBSET Items /\ State \in SUBSET Items
  BY <1>1 DEF StackOK, State
<1>4. stack[n].sym = Sym(r, Size(r))
  <2>1. Size(r) \in 1 .. Size(r) /\ n - Size(r) + Size(r) = n
    BY <1>1
  <2> QED BY <2>1, TopSymbols
<1>5. PICK p \in Rules : \E k \in 0 .. Size(p) - 1 : <<p, k>> \in State /\ Sym(p, k + 1) = c
  <2>1. PICK i \in State : AfterDot(i) = c /\ c \in Terminals
    BY DEF Shiftable
  <2>2. PICK p \in Rules : \E k \in 0 .. Size(p) : i = <<p, k>>
    BY <1>3 DEF Items
  <2>3. PICK k \in 0 .. Size(p) : i = <<p, k>>
    BY <2>2
  <2>4. k < Size(p) /\ Sym(p, k + 1) = c
    BY <2>1, <2>3, ItemAfterDot, NullAssumption DEF Terminals
  <2>5. k \in 0 .. Size(p) - 1
    <3>1. Size(p) \in 1 .. 6
      BY GrammarRules
    <3> QED BY <2>4, <3>1
  <2> QED BY <2>1, <2>3, <2>4, <2>5
<1>6. PICK k \in 0 .. Size(p) - 1 : <<p, k>> \in State /\ Sym(p, k + 1) = c
  BY <1>5
<1>7. c \notin Heads
  <2>1. c \notin Nonterminals
    BY DEF Shiftable, Terminals
  <2>2. Heads = Nonterminals
    BY GrammarRules DEF Heads, Nonterminals, Lhs
  <2> QED BY <2>1, <2>2
<1>8. k \in 0 .. Size(p) /\ Explained(stack, n, p, k) /\ Size(p) \in 1 .. 6
  <2>1. k \in 0 .. Size(p) /\ Size(p) \in 1 .. 6
    <3>1. Size(p) \in 1 .. 6
      BY GrammarRules
    <3> QED BY <3>1
  <2> QED BY <1>1, <1>6, <2>1 DEF StackOK, State
<1>9. c = "$end" => p = 1 /\ k = 1
  BY <1>6, EndFollows
<1>10. c # "$end"
  <2> SUFFICES ASSUME c = "$end" PROVE FALSE
    OBVIOUS
  <2>1. 1 \in 1 .. 1 /\ n - 1 + 1 = n
    BY <1>1
  <2>2. stack[n].sym = "policy"
    <3>1. Explained(stack, n, 1, 1)
      BY <1>8, <1>9
    <3>2. stack[n - 1 + 1].sym = Sym(1, 1)
      BY <2>1, <3>1 DEF Explained
    <3> QED BY <2>1, <3>2, GrammarTable
  <2>3. OneByOne(r)
    BY GrammarRules, <1>1
  <2>4. Sym(r, Size(r)) # "policy"
    BY ONLY <2>3, GrammarTable DEF OneByOne
  <2> QED BY <1>4, <2>2, <2>4
<1>11. PICK a \in Rules : \E b \in 1 .. Size(a) :
          /\ <<a, b - 1>> \in stack[n - 1].state
          /\ Sym(a, b) = stack[n].sym
          /\ \/ <<p, k>> = <<a, b>>
             \/ /\ b < Size(a)
                /\ \E q \in Rules : Lhs(q) \in Derives(Sym(a, b + 1)) /\ <<p, k>> = <<q, 0>>
  BY <1>2, <1>3, <1>6, GotoItems
<1>12. PICK b \in 1 .. Size(a) :
          /\ Sym(a, b) = stack[n].sym
          /\ \/ p = a /\ k = b
             \/ b < Size(a) /\ Lhs(p) \in Derives(Sym(a, b + 1)) /\ k = 0
  BY <1>11
<1>13. b \in 1 .. Size(a) - 1
  <2>1. Size(a) \in 1 .. 6
    BY GrammarRules
  <2> QED BY <1>8, <1>12, <2>1
<1>14. \/ r \in {2, 3, 5} /\ Sym(a, b + 1) = "semicolon"
       \/ r \in {4, 6} /\ Sym(a, b + 1) \in {"entries", "entry"}
       \/ /\ r \in {12, 22, 24, 25}
          /\ \/ Sym(a, b + 1) = "=" /\ a = 11 /\ b = 1
             \/ Sym(a, b + 1) = ")" /\ a = 23 /\ b = 2
             \/ Sym(a, b + 1) \in {"|", "&"}
  BY <1>1, <1>4, <1>12, <1>13, FollowsLast
<1>15. CASE r \in {2, 3, 4, 5, 6}
  BY <1>10, <1>15 DEF Conflict
<1>16. CASE r \in {12, 22, 24, 25}
  <2>1. /\ \/ Sym(a, b + 1) = "=" /\ a = 11 /\ b = 1
           \/ Sym(a, b + 1) = ")" /\ a = 23 /\ b = 2
           \/ Sym(a, b + 1) \in {"|", "&"}
    BY <1>14, <1>16
  <2>2. p = a /\ k = b
    <3> SUFFICES ASSUME Lhs(p) \in Derives(Sym(a, b + 1)) PROVE FALSE
      BY <1>12
    <3>1. Sym(a, b + 1) \in {"=", ")", "|", "&"}
      BY <2>1
    <3>2. Lhs(p) \in {"=", ")", "|", "&"}
      BY <3>1 DEF Derives
    <3>3. OneByOne(p)
      BY GrammarRules
    <3> QED BY ONLY <3>2, <3>3, GrammarTable DEF OneByOne
  <2>3. c = Sym(p, k + 1)
    BY <1>6
  <2>4. CASE r = 12
    <3>1. ~ (p = 23 /\ k = 2)
      <4> SUFFICES ASSUME p = 23, k = 2 PROVE FALSE
        OBVIOUS
      <4>1. Before(stack, n - 1, "entry")
        <5>1. 1 \in 1 .. Size(r) /\ Lhs(r) = "entry" /\ Size(r) = 1
          BY <2>4, GrammarTable
        <5> QED BY <5>1, TopSymbols
      <4>2. stack[n - 2 + 1].sym = "(" /\ 2 < n /\ n - 2 + 1 = n - 1
        <5>1. 1 \in 1 .. 2 /\ Sym(23, 1) = "("
          BY GrammarTable
        <5> QED BY <1>1, <1>8, <5>1 DEF Explained
      <4>3. n - 1 # 1
        BY <1>1, <4>2
      <4> QED BY <4>1, <4>2, <4>3 DEF Before
    <3> QED BY <2>1, <2>2, <2>3, <2>4, <3>1 DEF Conflict
  <2>5. CASE r \in {22, 24, 25}
    <3>1. stack[n - 1].sym \in {"!", "|", "&"} /\ n - 1 # 1
      <4>1. Size(r) > 1 /\ Sym(r, Size(r) - 1) \in {"!", "|", "&"}
        BY <2>5, GrammarTable
      <4>2. Size(r) - 1 \in 1 .. Size(r) /\ n - Size(r) + (Size(r) - 1) = n - 1 /\ n - 1 # 1
        BY <1>1, <4>1
      <4> QED BY <4>1, <4>2, TopSymbols
    <3>2. ~ (p = 23 /\ k = 2)
      <4> SUFFICES ASSUME p = 23, k = 2 PROVE FALSE
        OBVIOUS
      <4>1. stack[n - 2 + 1].sym = "(" /\ n - 2 + 1 = n - 1
        <5>1. 1 \in 1 .. 2 /\ Sym(23, 1) = "("
          BY GrammarTable
        <5> QED BY <1>1, <1>8, <5>1 DEF Explained
      <4> QED BY <3>1, <4>1
    <3>3. ~ (p = 11 /\ k = 1)
      <4> SUFFICES ASSUME p = 11, k = 1 PROVE FALSE
        OBVIOUS
      <4>1. Before(stack, n - 1, "entry")
        BY <1>8, GrammarTable DEF Explained
      <4> QED BY <3>1, <4>1 DEF Before
    <3> QED BY <2>1, <2>2, <2>3, <2>5, <3>2, <3>3 DEF Conflict
  <2> QED BY <1>16, <2>4, <2>5
<1> QED BY <1>14, <1>15, <1>16

\* An expression that begins where t does goes on to where the one after the operator
\* ends.
Extends(t, u, n, g) ==
    \A e \in Nat : g < e /\ Late(Piece("expr", g + 1, e), u, n, g + 1) =>
        Late(Piece("expr", t.from, e), u, n, g + 1)

\* What ends at the top of the stack although c comes next, and would be made by a
\* reduction.
Blocked(t, c, u, n, g) ==
    \/ t.sym = "policy" /\ c # "$end"
    \/ t.sym \in {"entry", "entries"} /\ c \notin {"semicolon", "$end"}
    \/ t.sym = "expr" /\ c \in {"|", "&"} /\ Extends(t, u, n, g)

\* The operands of an operator and what is on the left of them, which ends in an
\* expression.
LEMMA ExtendLast ==
  ASSUME NEW u, NEW n, NEW g, NEW p \in {22, 24, 25}, NEW q, Fits(p, q),
         \A k \in 1 .. Size(p) - 1 : Late(q[k], u, n, g), NEW e, g <= e,
         Late(Piece("expr", q[Size(p)].from, e), u, n, g)
  PROVE  Late(Piece("expr", q[1].from, e), u, n, g)
<1> DEFINE size == Size(p)
           x == Piece("expr", q[size].from, e)
           m == [k \in 1 .. size |-> IF k = size THEN x ELSE q[k]]
<1>1. /\ p \in Rules /\ p # 1 /\ Lhs(p) = "expr" /\ size \in 2 .. 3
      /\ Sym(p, size) = "expr"
  BY GrammarTable DEF Rules
<1>2. /\ 1 \in 1 .. size - 1 /\ 1 \in 1 .. size /\ size \in 1 .. size
      /\ \A k \in 1 .. size - 1 : k \in 1 .. size /\ k # size /\ k + 1 \in 1 .. size
      /\ \A k \in 1 .. size : k = size \/ k \in 1 .. size - 1
  BY <1>1
<1>3. x.sym = "expr" /\ x.from = q[size].from /\ x.to = e
  BY DEF Piece
<1> HIDE DEF size, x
<1>4. /\ m[size] = x /\ m[1] = q[1]
      /\ \A k \in 1 .. size - 1 : m[k] = q[k]
      /\ \A k \in 1 .. size : m[k].sym = q[k].sym \/ k = size
      /\ \A k \in 1 .. size : m[k].from = q[k].from
  BY <1>2, <1>3
<1> HIDE DEF m
<1>5. /\ \A k \in 1 .. size : q[k].sym = Sym(p, k)
      /\ \A k \in 1 .. size - 1 : q[k].to = q[k + 1].from
  BY DEF Fits, size
<1>6. Fits(p, m)
  <2>1. \A k \in 1 .. size : m[k].sym = Sym(p, k)
    BY <1>1, <1>2, <1>3, <1>4, <1>5 DEF size
  <2>2. \A k \in 1 .. size - 1 : m[k].to = m[k + 1].from
    BY <1>2, <1>4, <1>5
  <2> QED BY <2>1, <2>2 DEF Fits, size
<1>7. \A k \in 1 .. size : Late(m[k], u, n, g)
  BY <1>2, <1>4 DEF size, x
<1>8. ~ Refused(p, u[m[1].from + 1].val)
  BY DEF Refused
<1>9. Late(Piece(Lhs(p), m[1].from, m[Size(p)].to), u, n, g)
  BY <1>1, <1>3, <1>4, <1>6, <1>7, <1>8, LateRule DEF size
<1> QED BY <1>1, <1>3, <1>4, <1>9 DEF size

\* Two expressions with an operator between them are one.
LEMMA Operation ==
  ASSUME NEW u, NEW n \in Nat, NEW g \in Nat, NEW k \in 1 .. n, u[k].sym \in {"|", "&"},
         NEW i, NEW e, g <= e,
         Late(Piece("expr", i, k - 1), u, n, g), Late(Piece("expr", k, e), u, n, g)
  PROVE  Late(Piece("expr", i, e), u, n, g)
<1> DEFINE r == IF u[k].sym = "|" THEN 24 ELSE 25
           q == [j \in 1 .. 3 |-> IF j = 1 THEN Piece("expr", i, k - 1)
                                  ELSE IF j = 2 THEN Piece(u[k].sym, k - 1, k)
                                  ELSE Piece("expr", k, e)]
<1>1. /\ r \in Rules /\ r # 1 /\ Lhs(r) = "expr" /\ Size(r) = 3
      /\ Sym(r, 1) = "expr" /\ Sym(r, 2) = u[k].sym /\ Sym(r, 3) = "expr"
  BY GrammarTable DEF Rules
<1>2. /\ q[1] = Piece("expr", i, k - 1) /\ q[2] = Piece(u[k].sym, k - 1, k)
      /\ q[3] = Piece("expr", k, e)
  OBVIOUS
<1> HIDE DEF r, q
<1>3. /\ q[1].sym = "expr" /\ q[1].from = i /\ q[1].to = k - 1
      /\ q[2].sym = u[k].sym /\ q[2].from = k - 1 /\ q[2].to = k
      /\ q[3].sym = "expr" /\ q[3].from = k /\ q[3].to = e
  BY <1>2 DEF Piece
<1>4. /\ \A j \in 1 .. Size(r) : j = 1 \/ j = 2 \/ j = 3
      /\ \A j \in 1 .. Size(r) - 1 : (j = 1 /\ j + 1 = 2) \/ (j = 2 /\ j + 1 = 3)
  BY <1>1
<1>5. Fits(r, q)
  BY <1>1, <1>3, <1>4 DEF Fits
<1>6. Late(q[2], u, n, g)
  BY <1>2, LateLeaf
<1>7. \A j \in 1 .. Size(r) : Late(q[j], u, n, g)
  BY <1>2, <1>4, <1>6
<1>8. ~ Refused(r, u[q[1].from + 1].val)
  BY DEF Refused, r
<1>9. Late(Piece(Lhs(r), q[1].from, q[Size(r)].to), u, n, g)
  BY <1>1, <1>3, <1>5, <1>7, <1>8, LateRule
<1> QED BY <1>1, <1>3, <1>9

\* The next symbol can be shifted, and r is complete.
Ambiguous(u, n, g, st, r) ==
    /\ Frame(u, n, g, st)
    /\ r \in Rules
    /\ \A p \in Rules \ {1} : <<p, Size(p)>> \in st[g] => p = r
    /\ u[g + 1].sym \notin Heads
    /\ Conflict(r, u[g + 1].sym)

\* What is claimed then: whatever reaches beyond the top of the stack can be read
\* after the next symbol is shifted.
Shifted(t, u, n, g, st) ==
    /\ Shaped(t, u, n, g)
    /\ g <= t.from => Late(t, u, n, g + 1)
    /\ t.from <= g /\ g <= t.to /\ Expects(st[t.from], t.sym) =>
          \/ IsLeaf(t, u) /\ t.to = g
          \/ g < t.to /\ Late(t, u, n, g + 1)
          \/ t.to = g /\ Blocked(t, u[g + 1].sym, u, n, g)

\* It holds for the symbols of the form.
LEMMA ShiftedLeaf ==
  ASSUME NEW u, NEW n, NEW g, NEW st, Frame(u, n, g, st), NEW k \in 1 .. n
  PROVE  Shifted(Piece(u[k].sym, k - 1, k), u, n, g, st)
<1> DEFINE t == Piece(u[k].sym, k - 1, k)
<1>1. n \in Nat /\ g \in Nat /\ g < n
  BY DEF Frame
<1>2. t.sym = u[k].sym /\ t.from = k - 1 /\ t.to = k /\ t = Piece(t.sym, t.from, t.to)
  BY DEF Piece
<1> HIDE DEF t
<1>3. IsLeaf(t, u) /\ Shaped(t, u, n, g)
  BY <1>1, <1>2 DEF IsLeaf, Shaped
<1>4. Late(t, u, n, g + 1)
  BY <1>1, <1>3, LeafIsLate
<1>5. g <= t.to => t.to = g \/ g < t.to
  BY <1>1, <1>2
<1>6. Shifted(t, u, n, g, st)
  BY <1>3, <1>4, <1>5 DEF Shifted
<1> QED BY <1>6 DEF t

\* Where the symbols that may be blocked are in the rules.
LEMMA BlockedPlaces ==
  ASSUME NEW p \in Rules, p # 1, NEW i \in 1 .. Size(p)
  PROVE  /\ Sym(p, i) # "policy"
         /\ Sym(p, i) = "entry" => i = Size(p) /\ Lhs(p) = "entries"
         /\ Sym(p, i) = "entries" =>
                \/ i = Size(p) /\ Lhs(p) = "policy"
                \/ i < Size(p) /\ Sym(p, i + 1) = "semicolon"
         /\ Sym(p, i) = "expr" =>
                \/ i = Size(p) /\ (p \in {22, 24, 25} \/ Lhs(p) = "entry")
                \/ i < Size(p) /\ Sym(p, i + 1) \in {"=", ")"}
                \/ i = 1 /\ p \in {24, 25} /\ Size(p) = 3 /\ Sym(p, 2) \in {"|", "&"}
<1>1. OneByOne(p)
  BY GrammarRules
<1>2. i <= Size(p) /\ (i = 1 \/ i = 2 \/ i = 3 \/ i = 4 \/ i = 5 \/ i = 6)
  <2>1. Size(p) \in 1 .. 6
    BY GrammarRules
  <2> QED BY <2>1
<1> QED BY ONLY <1>1, <1>2, p # 1, GrammarTable, SMTT(90) DEF OneByOne

\* And for what the rules make of parts for which it holds.
LEMMA ShiftedRule ==
  ASSUME NEW u, NEW n, NEW g, NEW st, NEW r, Ambiguous(u, n, g, st, r),
         NEW p \in Rules, p # 1, NEW q, Fits(p, q),
         \A k \in 1 .. Size(p) : Shifted(q[k], u, n, g, st),
         g <= q[Size(p)].to, ~ Refused(p, u[q[1].from + 1].val)
  PROVE  Shifted(Piece(Lhs(p), q[1].from, q[Size(p)].to), u, n, g, st)
<1> DEFINE size == Size(p)
           f == q[1].from
           t == Piece(Lhs(p), f, q[size].to)
           c == u[g + 1].sym
<1>1. /\ n \in Nat /\ g \in Nat /\ g < n /\ r \in Rules /\ size \in 1 .. 6
      /\ Frame(u, n, g, st) /\ c \notin Heads /\ Conflict(r, c)
  BY GrammarRules DEF Ambiguous, Frame
<1>2. \A k \in 1 .. size : Shaped(q[k], u, n, g)
  BY DEF Shifted
<1>3. \A k \in 1 .. size : q[k].from \in Nat /\ q[k].to \in Nat /\ q[k].from < q[k].to
                           /\ q[k].to <= n
  BY <1>2 DEF Shaped
<1>4. /\ \A j, k \in 1 .. size : j < k => q[j].to <= q[k].from
      /\ f < q[size].to
  BY <1>2, PartsInOrder
<1>5. /\ \A k \in 1 .. size : q[k].sym = Sym(p, k)
      /\ \A k \in 1 .. size - 1 : q[k].to = q[k + 1].from
  BY DEF Fits
<1>6. 1 \in 1 .. size /\ size \in 1 .. size
  BY <1>1
<1>7. t.sym = Lhs(p) /\ t.from = f /\ t.to = q[size].to /\ t = Piece(t.sym, t.from, t.to)
  BY DEF Piece
<1> HIDE DEF t, c
<1>8. Shaped(t, u, n, g)
  <2>1. t.sym \in Heads
    BY <1>7 DEF Heads
  <2>2. ~ (t.to < g)
    BY <1>1, <1>3, <1>6, <1>7
  <2> QED BY <1>3, <1>4, <1>6, <1>7, <2>1, <2>2 DEF Shaped
<1>9. ASSUME \A k \in 1 .. size : Late(q[k], u, n, g + 1), g < q[size].to
      PROVE  Late(t, u, n, g + 1)
  <2>1. g + 1 <= q[size].to
    BY <1>1, <1>3, <1>6, <1>9
  <2> QED BY <1>9, <2>1, LateRule DEF t
<1>10. ASSUME g <= f
       PROVE  Late(t, u, n, g + 1)
  <2>1. \A k \in 1 .. size : g <= q[k].from
    <3>1. \A k \in 1 .. size : k = 1 \/ 1 < k
      OBVIOUS
    <3> QED BY <1>1, <1>3, <1>4, <1>6, <1>10, <3>1
  <2>2. \A k \in 1 .. size : Late(q[k], u, n, g + 1)
    BY <2>1 DEF Shifted
  <2>3. g < q[size].to
    BY <1>1, <1>3, <1>4, <1>6, <1>10
  <2> QED BY <1>9, <2>2, <2>3
<1>11. ASSUME f <= g, Expects(st[f], Lhs(p))
       PROVE  \/ g < t.to /\ Late(t, u, n, g + 1)
              \/ t.to = g /\ Blocked(t, c, u, n, g)
  <2>1. PICK i \in 1 .. size : Active(p, q, i, u, g, st)
    BY <1>1, <1>2, <1>11, Descent
  <2>2. /\ q[i].from <= g /\ g <= q[i].to
        /\ q[i].from = f + (i - 1)
        /\ <<p, i - 1>> \in st[q[i].from]
        /\ Expects(st[q[i].from], q[i].sym)
        /\ \A j \in 1 .. i - 1 : IsLeaf(q[j], u) /\ q[j].to <= q[i].from
        /\ \A j \in i + 1 .. size : q[i].to <= q[j].from
    BY <2>1 DEF Active
  <2>3. /\ \A k \in 1 .. size : k \in 1 .. i - 1 \/ k = i \/ k \in i + 1 .. size
        /\ i = size \/ i < size
    BY <1>1
  <2>4. \A k \in i + 1 .. size : k \in 1 .. size /\ g <= q[k].from
    <3>1. \A k \in i + 1 .. size : k \in 1 .. size
      OBVIOUS
    <3> QED BY <1>1, <1>3, <2>2, <3>1
  <2>5. \A k \in i + 1 .. size : Late(q[k], u, n, g + 1)
    BY <2>4 DEF Shifted
  <2>6. \A k \in 1 .. i - 1 : k \in 1 .. size /\ Late(q[k], u, n, g + 1)
    <3>1. \A k \in 1 .. i - 1 : k \in 1 .. size
      BY <1>1
    <3> QED BY <1>1, <1>2, <2>2, <3>1, LeafIsLate
  <2>7. ASSUME Late(q[i], u, n, g + 1), g < q[size].to
        PROVE  g < t.to /\ Late(t, u, n, g + 1)
    <3>1. \A k \in 1 .. size : Late(q[k], u, n, g + 1)
      BY <2>3, <2>5, <2>6, <2>7
    <3> QED BY <1>7, <1>9, <2>7, <3>1
  <2>8. \/ IsLeaf(q[i], u) /\ q[i].to = g
        \/ g < q[i].to /\ Late(q[i], u, n, g + 1)
        \/ q[i].to = g /\ Blocked(q[i], c, u, n, g)
    BY <2>2 DEF Shifted, c
  <2>9. CASE g < q[i].to /\ Late(q[i], u, n, g + 1)
    <3>1. g < q[size].to
      BY <1>1, <1>3, <1>4, <1>6, <2>3, <2>9
    <3> QED BY <2>7, <2>9, <3>1
  <2>10. ASSUME q[i].to = g, i < size
         PROVE  /\ i + 1 \in 1 .. size /\ g < q[size].to /\ q[i + 1].from = g
                /\ q[i + 1].sym = Sym(p, i + 1)
                /\ Sym(p, i + 1) \notin Heads => Sym(p, i + 1) = c /\ q[i + 1].to = g + 1
    <3>1. i \in 1 .. size - 1 /\ i + 1 \in 1 .. size
      BY <1>1, <2>10
    <3>2. q[i + 1].from = g /\ q[i + 1].sym = Sym(p, i + 1)
      BY <1>5, <2>10, <3>1
    <3>3. g < q[size].to
      <4>1. i + 1 = size \/ i + 1 < size
        BY <1>1, <2>10
      <4> QED BY <1>1, <1>3, <1>4, <1>6, <3>1, <3>2, <4>1
    <3>4. Sym(p, i + 1) \notin Heads => IsLeaf(q[i + 1], u)
      BY <1>2, <3>1, <3>2 DEF Shaped
    <3> QED BY <3>1, <3>2, <3>3, <3>4 DEF IsLeaf, c
  <2>11. CASE IsLeaf(q[i], u) /\ q[i].to = g /\ i < size
    <3>1. Late(q[i], u, n, g + 1)
      BY <1>1, <1>2, <2>11, LeafIsLate
    <3> QED BY <2>7, <2>10, <2>11, <3>1
  <2>12. ASSUME i = size, q[i].to = g, p \in {22, 24, 25}, c \in {"|", "&"},
                \A e \in Nat : g < e /\ Late(Piece("expr", g + 1, e), u, n, g + 1) =>
                    Late(Piece("expr", q[i].from, e), u, n, g + 1)
         PROVE  t.to = g /\ Blocked(t, c, u, n, g)
    <3>1. t.sym = "expr" /\ t.to = g
      BY <1>7, <2>12, GrammarTable
    <3>2. ASSUME NEW e \in Nat, g < e, Late(Piece("expr", g + 1, e), u, n, g + 1)
          PROVE  Late(Piece("expr", f, e), u, n, g + 1)
      <4>1. Late(Piece("expr", q[size].from, e), u, n, g + 1)
        BY <2>12, <3>2
      <4>2. g + 1 <= e
        BY <1>1, <3>2
      <4>3. \A k \in 1 .. size - 1 : Late(q[k], u, n, g + 1)
        BY <2>6, <2>12
      <4> QED BY <2>12, <4>1, <4>2, <4>3, ExtendLast
    <3> QED BY <1>7, <2>12, <3>1, <3>2 DEF Blocked, Extends
  <2>13. CASE IsLeaf(q[i], u) /\ q[i].to = g /\ i = size
    <3>1. g \in 1 .. g /\ q[i].from = g - 1 /\ u[g].sym = Sym(p, (i - 1) + 1)
          /\ i - 1 \in 0 .. size - 1
      <4>1. q[i].from = g - 1 /\ u[g].sym = q[i].sym /\ (i - 1) + 1 = i
        BY <1>1, <1>3, <2>13 DEF IsLeaf
      <4> QED BY <1>1, <1>3, <1>5, <2>13, <4>1
    <3>2. Advances(st[g - 1], st[g], u[g].sym)
      BY <1>1, <3>1 DEF Frame
    <3>3. <<p, (i - 1) + 1>> \in st[g]
      BY <2>2, <3>1, <3>2 DEF Advances, size
    <3>4. <<p, Size(p)>> \in st[g]
      <4>1. (i - 1) + 1 = Size(p)
        BY <2>13
      <4> QED BY <3>3, <4>1
    <3>5. p = r
      BY <3>4 DEF Ambiguous
    <3>6. CASE p \in {2, 3, 4, 5, 6}
      <4>1. t.sym = "policy" /\ c # "$end" /\ t.to = g
        BY <1>1, <1>7, <2>13, <3>5, <3>6, GrammarTable DEF Conflict
      <4> QED BY <4>1 DEF Blocked
    <3>7. CASE p = 12
      <4>1. t.sym = "entry" /\ c \notin {"semicolon", "$end"} /\ t.to = g
        BY <1>1, <1>7, <2>13, <3>5, <3>7, GrammarTable DEF Conflict
      <4> QED BY <4>1 DEF Blocked
    <3>8. CASE p \in {22, 24, 25}
      <4>1. c \in {"|", "&"}
        BY <1>1, <3>5, <3>8 DEF Conflict
      <4>2. Sym(p, size) = "expr"
        BY <3>8, GrammarTable
      <4>3. q[i] = Piece("expr", g - 1, g)
        BY <1>2, <1>5, <2>13, <3>1, <4>2 DEF Shaped
      <4>4. Late(q[i], u, n, g + 1)
        BY <1>1, <1>2, <2>13, LeafIsLate
      <4>5. Late(Piece("expr", q[i].from, g), u, n, g + 1)
        BY <3>1, <4>3, <4>4
      <4>6. g + 1 \in 1 .. n /\ (g + 1) - 1 = g /\ g + 1 \in Nat
        BY <1>1
      <4>7. ASSUME NEW e \in Nat, g < e, Late(Piece("expr", g + 1, e), u, n, g + 1)
            PROVE  Late(Piece("expr", q[i].from, e), u, n, g + 1)
        <5>1. g + 1 <= e
          BY <1>1, <4>7
        <5> QED BY <1>1, <4>1, <4>5, <4>6, <4>7, <5>1, Operation DEF c
      <4> QED BY <2>12, <2>13, <3>8, <4>1, <4>7
    <3> QED BY <1>1, <3>5, <3>6, <3>7, <3>8 DEF Conflict
  <2>14. CASE q[i].to = g /\ Blocked(q[i], c, u, n, g)
    <3>1. q[i].sym = Sym(p, i)
      BY <1>5
    <3>2. CASE Sym(p, i) = "policy"
      BY <3>2, BlockedPlaces
    <3>3. CASE Sym(p, i) = "entry" /\ c \notin {"semicolon", "$end"}
      <4>1. i = size /\ Lhs(p) = "entries"
        BY <3>3, BlockedPlaces
      <4> QED BY <1>7, <2>14, <3>3, <4>1 DEF Blocked
    <3>4. CASE Sym(p, i) = "entries" /\ c \notin {"semicolon", "$end"}
      <4>1. CASE i = size /\ Lhs(p) = "policy"
        BY <1>7, <2>14, <3>4, <4>1 DEF Blocked
      <4>2. CASE i < size /\ Sym(p, i + 1) = "semicolon"
        BY <2>10, <2>14, <3>4, <4>2, PunctuationIsTerminal
      <4> QED BY <3>4, <4>1, <4>2, BlockedPlaces
    <3>5. CASE Sym(p, i) = "expr" /\ c \in {"|", "&"} /\ Extends(q[i], u, n, g)
      <4>1. CASE i = size /\ Lhs(p) = "entry"
        BY <1>7, <2>14, <3>5, <4>1 DEF Blocked
      <4>2. CASE i = size /\ p \in {22, 24, 25}
        BY <2>12, <2>14, <3>5, <4>2 DEF Extends
      <4>3. CASE i < size /\ Sym(p, i + 1) \in {"=", ")"}
        BY <2>10, <2>14, <3>5, <4>3, PunctuationIsTerminal
      <4>4. CASE i = 1 /\ p \in {24, 25} /\ size = 3 /\ Sym(p, 2) \in {"|", "&"}
        <5>1. i < size /\ i + 1 = 2 /\ 2 \in 1 .. size - 1 /\ 2 + 1 = 3 /\ 3 \in i + 1 .. size
          BY <4>4
        <5>2. q[2].to = g + 1 /\ q[2].to = q[3].from
          BY <1>5, <2>10, <2>14, <4>4, <5>1, PunctuationIsTerminal
        <5>3. q[3].sym = "expr" /\ Lhs(p) = "expr"
          BY <1>5, <1>6, <4>4, GrammarTable
        <5> DEFINE e == q[3].to
        <5>4. e \in Nat /\ g < e /\ q[3] = Piece("expr", g + 1, e) /\ t.to = e
          <6>1. 3 \in 1 .. size
            BY <4>4
          <6>2. q[3] = Piece("expr", g + 1, e)
            BY <1>2, <5>2, <5>3, <6>1 DEF Shaped
          <6>3. e \in Nat /\ g + 1 < e
            BY <1>3, <5>2, <6>1
          <6> QED BY <1>1, <1>7, <4>4, <6>2, <6>3
        <5>5. Late(q[3], u, n, g + 1)
          BY <2>5, <5>1
        <5>6. Late(Piece("expr", q[1].from, e), u, n, g + 1)
          <6> HIDE DEF e
          <6> QED BY <3>5, <4>4, <5>4, <5>5 DEF Extends
        <5>7. t = Piece("expr", q[1].from, e)
          BY <1>7, <5>3, <5>4
        <5> QED BY <5>4, <5>6, <5>7
      <4> QED BY <3>5, <4>1, <4>2, <4>3, <4>4, BlockedPlaces
    <3> QED BY <2>14, <3>1, <3>2, <3>3, <3>4, <3>5 DEF Blocked
  <2> QED BY <2>3, <2>8, <2>9, <2>11, <2>13, <2>14
<1>12. Shifted(t, u, n, g, st)
  BY <1>7, <1>8, <1>10, <1>11 DEF Shifted, c
<1> QED BY <1>12 DEF t

\* So it holds for every part that can be read.
LEMMA Shifting ==
  ASSUME NEW u, NEW n, NEW g, NEW st, NEW r, Ambiguous(u, n, g, st, r),
         NEW t, Late(t, u, n, g)
  PROVE  Shifted(t, u, n, g, st)
<1> DEFINE S == {x \in Pieces(u, n) : Shifted(x, u, n, g, st)}
<1>1. n \in Nat /\ Frame(u, n, g, st)
  BY DEF Ambiguous, Frame
<1>2. \A k \in 1 .. n : Piece(u[k].sym, k - 1, k) \in S
  <2>1. \A k \in 1 .. n : k - 1 \in 0 .. n /\ k \in 0 .. n
    BY <1>1
  <2> QED BY <1>1, <2>1, ShiftedLeaf DEF Pieces
<1>3. ASSUME NEW p \in Rules \ {1}, NEW q \in [1 .. Size(p) -> S], Fits(p, q),
             g <= q[Size(p)].to, ~ Refused(p, u[q[1].from + 1].val)
      PROVE  Piece(Lhs(p), q[1].from, q[Size(p)].to) \in S
  <2>1. \A k \in 1 .. Size(p) : Shifted(q[k], u, n, g, st) /\ q[k] \in Pieces(u, n)
    OBVIOUS
  <2> HIDE DEF S
  <2>2. Shifted(Piece(Lhs(p), q[1].from, q[Size(p)].to), u, n, g, st)
    BY <1>3, <2>1, ShiftedRule
  <2>3. Piece(Lhs(p), q[1].from, q[Size(p)].to) \in Pieces(u, n)
    <3>1. 1 \in 1 .. Size(p) /\ Size(p) \in 1 .. Size(p)
      <4>1. Size(p) \in 1 .. 6
        BY GrammarRules
      <4> QED BY <4>1
    <3>2. q[1].from \in 0 .. n /\ q[Size(p)].to \in 0 .. n
      BY <2>1, <3>1 DEF Pieces, Piece
    <3>3. Lhs(p) \in Heads
      BY DEF Heads
    <3> QED BY <3>2, <3>3 DEF Pieces
  <2> QED BY <2>2, <2>3 DEF S
<1> HIDE DEF S
<1>4. Built(S, u, n, g)
  BY <1>2, <1>3 DEF Built
<1>5. t \in S
  BY <1>4 DEF Late
<1> QED BY <1>5 DEF S

-----------------------------------------------------------------------------
(* No text that has a reading is refused.                                  *)

\* A symbol and its value.
Symbol(x) == [sym |-> x.sym, val |-> x.val]

\* Arguments and the expressions made of them are not NULL.
LEMMA NotNull ==
  /\ \A p \in Params : p # NULL
  /\ \A a \in DOMAIN Actions : \A p \in Params \cup {NULL} :
        (Actions[a] = 1 <=> p # NULL) => Custom(a, p) # NULL
<1> DEFINE P == Lexemes \cup {Quoted[x] : x \in Strings}
<1>1. Params \subseteq P
  BY DEF Params, Names, Lexemes, Punctuation
<1>2. NULL \notin P
  BY NullAssumption
<1>3. \A a \in DOMAIN Actions : \A p \in P \cup {NULL} :
        [type |-> "custom", action |-> a, param |-> p] # NULL
  BY NullAssumption
<1> HIDE DEF P
<1> QED BY <1>1, <1>2, <1>3 DEF Custom

\* What YYERROR depends on is the first value.
LEMMA YyerrorRefused ==
  ASSUME NEW r \in Rules, NEW v, \A k \in 1 .. Size(r) : Typed(Sym(r, k), v[k])
  PROVE  Yyerror(Act(r), v) <=> Refused(r, v[1])
<1>1. OneByOne(r)
  BY GrammarRules
<1>2. CASE r = 7
  BY <1>2, ActionTable DEF Yyerror, Refused
<1>3. CASE r = 29
  <2>1. Yyerror(Act(r), v) <=> Custom(v[1], NULL) = NULL
    BY <1>3, ActionTable, ValueTable DEF Yyerror
  <2>2. v[1] \in DOMAIN Actions => (Actions[v[1]] = 0 <=> Actions[v[1]] # 1)
    BY ParserAssumption
  <2>3. Refused(r, v[1]) <=> ~ (v[1] \in DOMAIN Actions /\ Actions[v[1]] # 1)
    BY <1>3, <2>2 DEF Refused
  <2>4. Custom(v[1], NULL) # NULL => v[1] \in DOMAIN Actions /\ Actions[v[1]] # 1
    BY DEF Custom
  <2>5. v[1] \in DOMAIN Actions /\ Actions[v[1]] # 1 => Custom(v[1], NULL) # NULL
    BY NotNull
  <2> QED BY <2>1, <2>3, <2>4, <2>5
<1>4. CASE r = 30
  <2>1. Yyerror(Act(r), v) <=> Custom(v[1], v[3]) = NULL
    BY <1>4, ActionTable, ValueTable DEF Yyerror
  <2>2. v[3] \in Params /\ v[3] # NULL
    <3>1. 3 \in 1 .. Size(r) /\ Sym(r, 3) = "param"
      BY <1>4, GrammarTable
    <3>2. Typed("param", v[3])
      BY <3>1
    <3> QED BY <3>2, NotNull DEF Typed
  <2>3. Refused(r, v[1]) <=> ~ (v[1] \in DOMAIN Actions /\ Actions[v[1]] = 1)
    BY <1>4 DEF Refused
  <2>4. Custom(v[1], v[3]) # NULL => v[1] \in DOMAIN Actions /\ Actions[v[1]] = 1
    BY <2>2 DEF Custom
  <2>5. v[1] \in DOMAIN Actions /\ Actions[v[1]] = 1 => Custom(v[1], v[3]) # NULL
    BY <2>2, NotNull
  <2> QED BY <2>1, <2>3, <2>4, <2>5
<1>5. CASE r \notin {7, 29, 30}
  <2>1. Act(r) \notin {"version", "action", "action_with_argument"}
    BY ONLY <1>1, <1>5, ActionTable DEF OneByOne
  <2> QED BY <1>5, <2>1 DEF Yyerror, Refused
<1> QED BY <1>2, <1>3, <1>4, <1>5

\* Rules that may refuse begin with a number or a word.
LEMMA RefusingFirst == \A r \in {7, 29, 30} : Sym(r, 1) \in {"NUMBER", "ID"}
BY GrammarTable

\* Before anything is on the stack, all of a reading is still to be done.
LEMMA ReadingIsLate ==
  ASSUME NEW w, TokensValued(w), NEW t, Reading(t, w)
  PROVE  Late(Piece(t.sym, t.from, t.to), [k \in 1 .. Len(w) |-> Symbol(w[k])], Len(w), 0)
<1> DEFINE n == Len(w)
           u == [k \in 1 .. n |-> Symbol(w[k])]
           S == {x \in Spans(w) : /\ Late(Piece(x.sym, x.from, x.to), u, n, 0)
                                  /\ x.sym \in TokenSymbols =>
                                        x.from + 1 = x.to /\ x.val = w[x.to].val}
<1>1. n \in Nat /\ \A k \in 1 .. n : w[k].sym \in TokenSymbols
  BY DEF TokensValued
<1>2. \A k \in 1 .. n : u[k].sym = w[k].sym /\ u[k].val = w[k].val
  BY DEF Symbol
<1>3. Closed(Spans(w), w)
  BY SpansClosed
<1> HIDE DEF u, n
<1>4. ASSUME NEW k \in 1 .. n
      PROVE  Span(w[k].sym, k - 1, k, w[k].val) \in S
  <2> DEFINE x == Span(w[k].sym, k - 1, k, w[k].val)
  <2>1. x \in Spans(w)
    BY <1>3 DEF Closed, n
  <2>2. x.sym = w[k].sym /\ x.from = k - 1 /\ x.to = k /\ x.val = w[k].val
    BY DEF Span
  <2>3. Late(Piece(u[k].sym, k - 1, k), u, n, 0)
    BY LateLeaf
  <2>4. x.from + 1 = x.to
    BY <1>1, <2>2
  <2> HIDE DEF x
  <2> QED BY <1>2, <2>1, <2>2, <2>3, <2>4 DEF x
<1>5. ASSUME NEW r \in Rules \ {1}, NEW q \in [1 .. Size(r) -> S], Fits(r, q),
             ~ Yyerror(Act(r), [k \in 1 .. Size(r) |-> q[k].val])
      PROVE  Span(Lhs(r), q[1].from, q[Size(r)].to,
                  Meaning(r, [k \in 1 .. Size(r) |-> q[k].val])) \in S
  <2> DEFINE size == Size(r)
             v == [k \in 1 .. size |-> q[k].val]
             m == [k \in 1 .. size |-> Piece(q[k].sym, q[k].from, q[k].to)]
             x == Span(Lhs(r), q[1].from, q[size].to, Meaning(r, v))
  <2>1. size \in 1 .. 6 /\ r \in Rules /\ r # 1
    BY GrammarRules
  <2>2. 1 \in 1 .. size /\ size \in 1 .. size /\ v[1] = q[1].val
    BY <2>1
  <2>3. \A k \in 1 .. size : q[k] \in Spans(w) /\ Late(m[k], u, n, 0)
    OBVIOUS
  <2>4. \A k \in 1 .. size :
          q[k].sym \in TokenSymbols => q[k].from + 1 = q[k].to /\ q[k].val = w[q[k].to].val
    OBVIOUS
  <2>5. x \in Spans(w)
    <3>1. q \in [1 .. size -> Spans(w)]
      BY <2>3
    <3> QED BY <1>3, <1>5, <3>1 DEF Closed
  <2>6. x.sym = Lhs(r) /\ x.from = q[1].from /\ x.to = q[size].to
    BY DEF Span
  <2>7. \A k \in 1 .. size : m[k].sym = q[k].sym /\ m[k].from = q[k].from /\ m[k].to = q[k].to
    BY DEF Piece
  <2> HIDE DEF S, x, m
  <2>8. \A k \in 1 .. size - 1 : k \in 1 .. size /\ k + 1 \in 1 .. size
    BY <2>1
  <2>9. \A k \in 1 .. size : q[k].sym = Sym(r, k)
    BY <1>5 DEF Fits
  <2>10. Fits(r, m)
    BY <1>5, <2>7, <2>8 DEF Fits
  <2>11. \A k \in 1 .. size :
            /\ Typed(Sym(r, k), v[k]) \/ q[k].sym \in {"entries", "policy"}
            /\ q[k].from \in Nat /\ q[k].to \in Nat /\ q[k].to <= n
    BY <2>3, <2>9 DEF Spans, Valued, n
  <2>12. \A k \in 1 .. size : Typed(Sym(r, k), v[k])
    <3>1. "entries" \in Untyped /\ "policy" \in Untyped
      BY DEF Untyped
    <3> QED BY <2>9, <2>11, <3>1, UntypedSymbols
  <2>13. ~ Refused(r, v[1])
    BY <1>5, <2>12, YyerrorRefused
  <2>14. ~ Refused(r, u[m[1].from + 1].val)
    <3> SUFFICES ASSUME r \in {7, 29, 30}
                 PROVE  u[m[1].from + 1].val = v[1]
      BY <2>13 DEF Refused
    <3>1. Sym(r, 1) \in {"NUMBER", "ID"}
      BY RefusingFirst
    <3>2. q[1].sym \in TokenSymbols
      BY <2>2, <2>9, <3>1 DEF TokenSymbols
    <3>3. q[1].from + 1 = q[1].to /\ q[1].val = w[q[1].to].val
      BY <2>2, <2>4, <3>2
    <3>4. q[1].to \in 1 .. n
      BY <1>1, <2>2, <2>11, <3>3
    <3> QED BY <1>2, <2>2, <2>7, <3>3, <3>4
  <2>15. 0 <= m[size].to
    BY <2>2, <2>7, <2>11
  <2>16. Late(Piece(Lhs(r), m[1].from, m[size].to), u, n, 0)
    BY <2>1, <2>3, <2>10, <2>14, <2>15, LateRule
  <2>17. x.sym \notin TokenSymbols
    BY <2>6, TokensAreTerminals DEF Heads
  <2>18. Late(Piece(x.sym, x.from, x.to), u, n, 0)
    BY <2>2, <2>6, <2>7, <2>16
  <2> QED BY <2>5, <2>17, <2>18 DEF S, x
<1> HIDE DEF S
<1>6. Closed(S, w)
  BY <1>4, <1>5 DEF Closed, n
<1>7. t \in S
  BY <1>6 DEF Reading
<1> QED BY <1>7 DEF S, u, n

-----------------------------------------------------------------------------
(* The parser never gives up a text that has a reading.                    *)

\* The tokens w are a text that the grammar makes a policy of.
Readable(w) ==
    /\ TokensValued(w)
    /\ Len(w) # 0
    /\ w[Len(w)].sym = "$end"
    /\ \E v : Reading(Span("policy", 0, Len(w) - 1, v), w)

\* The tokens w begin with the tokens t.
StartsWith(w, t) ==
    /\ Len(t) <= Len(w)
    /\ \A k \in 1 .. Len(t) : w[k].sym = t[k].sym /\ w[k].val = t[k].val

\* The stack s and what comes after the taken ones of the tokens w.
FormSize(s, w, taken) == (Len(s) - 1) + (Len(w) - taken)

Form(s, w, taken) ==
    [k \in 1 .. FormSize(s, w, taken) |->
        IF k < Len(s) THEN Symbol(s[k + 1]) ELSE Symbol(w[(taken + (k + 1)) - Len(s)])]

\* What remains to be done makes a policy of them.
OnTrack(s, w, taken) ==
    s[Len(s)].sym # "$end" =>
        /\ taken < Len(w)
        /\ Late(Piece("policy", 0, FormSize(s, w, taken) - 1), Form(s, w, taken),
                FormSize(s, w, taken), Len(s) - 1)

RefusalInv ==
    \A w : Readable(w) /\ StartsWith(w, tokens) =>
        /\ status # "failed"
        /\ status = "deleted" => 1 \in Complete
        /\ OnTrack(stack, w, Taken)

\* What the provers need to know of the form u: its n symbols, of which g are on the
\* stack, and the states st of the stack.
Situation(w, u, n, g, st) ==
    /\ Frame(u, n, g, st)
    /\ Len(stack) = g + 1
    /\ \A k \in 1 .. g : u[k].sym = stack[k + 1].sym /\ u[k].val = stack[k + 1].val
    /\ u[n].sym = "$end"
    /\ u[g + 1].sym \in TokenSymbols
    /\ look # NULL => u[g + 1].sym = look.sym
    /\ g + 1 = n \/ Taken + 1 < Len(w)
    /\ st[g] = State
    /\ <<1, 0>> \in st[0]
    /\ Expects(st[0], "policy")

States == [i \in 0 .. Len(stack) - 1 |-> stack[i + 1].state]

\* The form while a text that has a reading is parsed.
LEMMA SituationKnown ==
  ASSUME StackOK(stack), Linked(stack), TokensInv, EndInv,
         NEW w, Readable(w), StartsWith(w, tokens), Taken < Len(w)
  PROVE  Situation(w, Form(stack, w, Taken), FormSize(stack, w, Taken), Len(stack) - 1,
                   States)
<1> DEFINE m == Len(stack)
           g == m - 1
           n == FormSize(stack, w, Taken)
           u == Form(stack, w, Taken)
           st == States
<1>1. /\ m \in Nat /\ g \in Nat /\ m = g + 1 /\ Len(w) \in Nat /\ Taken \in Nat
      /\ Len(tokens) \in Nat /\ Len(tokens) <= Len(w)
      /\ look = NULL => Taken = Len(tokens)
      /\ look # NULL => Len(tokens) # 0 /\ Taken + 1 = Len(tokens)
  BY DEF StackOK, TokensInv, EndInv, Taken, Readable, TokensValued, StartsWith
<1>2. n = g + (Len(w) - Taken) /\ n \in Nat /\ g < n
  BY <1>1 DEF FormSize
<1> HIDE DEF g, n
<1>3. \A k \in 1 .. g : u[k].sym = stack[k + 1].sym /\ u[k].val = stack[k + 1].val
  <2> SUFFICES ASSUME NEW k \in 1 .. g
               PROVE  u[k].sym = stack[k + 1].sym /\ u[k].val = stack[k + 1].val
    OBVIOUS
  <2>1. k \in 1 .. n /\ k < m
    BY <1>1, <1>2
  <2>2. u[k] = Symbol(stack[k + 1])
    BY <2>1 DEF Form, n
  <2> QED BY <2>2 DEF Symbol
<1>4. \A k \in g + 1 .. n : u[k].sym = w[(Taken + k) - g].sym
  <2> SUFFICES ASSUME NEW k \in g + 1 .. n
               PROVE  u[k].sym = w[(Taken + k) - g].sym
    OBVIOUS
  <2>1. k \in 1 .. n /\ ~ (k < m) /\ (Taken + (k + 1)) - m = (Taken + k) - g
    BY <1>1, <1>2
  <2>2. u[k] = Symbol(w[(Taken + (k + 1)) - m])
    BY <2>1 DEF Form, n
  <2> QED BY <2>1, <2>2 DEF Symbol
<1>5. /\ u[n].sym = w[Len(w)].sym
      /\ u[g + 1].sym = w[Taken + 1].sym
  <2>1. /\ n \in g + 1 .. n /\ (Taken + n) - g = Len(w)
        /\ g + 1 \in g + 1 .. n /\ (Taken + (g + 1)) - g = Taken + 1
    BY <1>1, <1>2
  <2> QED BY <1>4, <2>1
<1>6. u[n].sym = "$end" /\ u[g + 1].sym \in TokenSymbols
  <2>1. Taken + 1 \in 1 .. Len(w)
    BY <1>1
  <2> QED BY <1>5, <2>1 DEF Readable, TokensValued
<1>7. look # NULL => u[g + 1].sym = look.sym
  <2> SUFFICES ASSUME look # NULL PROVE u[g + 1].sym = look.sym
    OBVIOUS
  <2>1. Len(tokens) \in 1 .. Len(tokens) /\ Taken + 1 = Len(tokens)
    BY <1>1
  <2>2. look.sym = tokens[Len(tokens)].sym
    BY DEF EndInv, Token
  <2>3. w[Len(tokens)].sym = tokens[Len(tokens)].sym
    BY <2>1 DEF StartsWith
  <2> QED BY <1>5, <2>1, <2>2, <2>3
<1>8. \A i \in 0 .. g : st[i] = stack[i + 1].state
  BY <1>1 DEF States
<1>9. Frame(u, n, g, st)
  <2> HIDE DEF u, st
  <2>1. \A i \in 0 .. g : Begun(st[i])
    <3>1. \A i \in 0 .. g : i + 1 \in 1 .. m
      BY <1>1
    <3> QED BY <1>8, <3>1, LinkedStates
  <2>2. ASSUME NEW i \in 1 .. g
        PROVE  Advances(st[i - 1], st[i], u[i].sym)
    <3>1. i \in 1 .. m - 1 /\ i - 1 \in 0 .. g /\ i \in 0 .. g /\ (i - 1) + 1 = i
      BY <1>1
    <3>2. Advances(stack[i].state, stack[i + 1].state, stack[i + 1].sym)
      BY <3>1, LinkedStates
    <3> QED BY <1>3, <1>8, <3>1, <3>2
  <2> QED BY <1>1, <1>2, <2>1, <2>2 DEF Frame
<1>10. st[g] = State /\ <<1, 0>> \in st[0]
  <2>1. g \in 0 .. g /\ 0 \in 0 .. g /\ 0 + 1 = 1
    BY <1>1
  <2> QED BY <1>1, <1>8, <2>1, LinkedStates DEF State
<1>11. Expects(st[0], "policy")
  <2>1. 1 \in Rules /\ Size(1) = 2 /\ Sym(1, 1) = "policy"
    BY ONLY GrammarTable DEF Rules
  <2>2. 0 \in 0 .. Size(1) - 1 /\ 0 + 1 = 1
    BY ONLY <2>1
  <2> QED BY <1>10, <2>1, <2>2 DEF Expects
<1>12. g + 1 = n \/ Taken + 1 < Len(w)
  BY <1>1, <1>2
<1> HIDE DEF u, st
<1> QED
  BY <1>1, <1>3, <1>6, <1>7, <1>9, <1>10, <1>11, <1>12 DEF Situation, g, n, u, st

\* A complete rule, and no other one.
LEMMA CompleteAlone ==
  ASSUME StackOK(stack)
  PROVE  /\ Complete = {r \in Rules : <<r, Size(r)>> \in State}
         /\ \A p, r \in Complete : p = r
<1>1. Complete = {r \in Rules : <<r, Size(r)>> \in State}
  BY GrammarRules DEF Complete, Size
<1>2. ASSUME NEW p \in Complete, NEW r \in Complete, p # r
      PROVE  FALSE
  <2>1. Size(p) \in 1 .. 6 /\ Size(r) \in 1 .. 6
    BY CompleteRule
  <2>2. Size(p) <= Size(r) \/ Size(r) <= Size(p)
    BY <2>1
  <2> QED BY <1>2, <2>2, OneComplete
<1> QED BY <1>1, <1>2

\* The whole of a form, and where it is.
LEMMA WholeForm ==
  ASSUME NEW w, NEW u, NEW n, NEW g, NEW st, Situation(w, u, n, g, st)
  PROVE  LET t == Piece("policy", 0, n - 1)
         IN  /\ t.sym = "policy" /\ t.from = 0 /\ t.to = n - 1 /\ t.sym \in Heads
             /\ t.from <= g /\ g <= t.to /\ Expects(st[t.from], t.sym)
             /\ n \in Nat /\ g \in Nat /\ g < n
<1>1. "policy" \in Heads
  BY GrammarTable DEF Heads, Rules
<1>2. n \in Nat /\ g \in Nat /\ g < n /\ Expects(st[0], "policy")
  BY DEF Situation, Frame
<1> QED BY <1>1, <1>2 DEF Piece

\* A token that is shifted leaves the form as it is.
LEMMA FormShift ==
  ASSUME StackOK(stack), TokensInv, EndInv, NEW w, Readable(w), StartsWith(w, tokens), Shift
  PROVE  /\ Taken' = Taken + 1 /\ Len(stack') = Len(stack) + 1
         /\ stack'[Len(stack')].sym = look.sym
         /\ FormSize(stack', w, Taken') = FormSize(stack, w, Taken)
         /\ Form(stack', w, Taken') = Form(stack, w, Taken)
<1> DEFINE m == Len(stack)
           n == FormSize(stack, w, Taken)
<1>1. /\ look # NULL /\ look' = NULL /\ look.sym \in Symbols
      /\ stack' = Push(stack, look.sym, look.val) /\ tokens' = tokens
  BY DEF Shift, Shiftable, Terminals
<1>2. /\ m \in Nat \ {0} /\ Len(stack') = m + 1 /\ \A i \in 1 .. m : stack'[i] = stack[i]
      /\ stack'[m + 1].sym = look.sym /\ stack'[m + 1].val = look.val
  BY <1>1, StackPush DEF StackOK
<1>3. /\ Len(w) \in Nat /\ Len(tokens) \in Nat /\ Len(tokens) # 0
      /\ Taken = Len(tokens) - 1 /\ Taken' = Len(tokens)
      /\ look.sym = tokens[Len(tokens)].sym /\ look.val = tokens[Len(tokens)].val
  BY <1>1 DEF TokensInv, EndInv, Taken, Readable, TokensValued, Token
<1>4. Taken' = Taken + 1 /\ Taken \in Nat
  BY <1>3
<1>5. FormSize(stack', w, Taken') = n
  BY <1>2, <1>3, <1>4 DEF FormSize
<1>6. Symbol(stack'[m + 1]) = Symbol(w[Taken + 1])
  <2>1. Taken + 1 \in 1 .. Len(tokens) /\ Taken + 1 = Len(tokens)
    BY <1>3
  <2>2. w[Taken + 1].sym = look.sym /\ w[Taken + 1].val = look.val
    BY <1>3, <2>1 DEF StartsWith
  <2> QED BY <1>2, <2>2 DEF Symbol
<1> DEFINE old(k) == IF k < m THEN Symbol(stack[k + 1]) ELSE Symbol(w[(Taken + (k + 1)) - m])
           new(k) == IF k < Len(stack') THEN Symbol(stack'[k + 1])
                     ELSE Symbol(w[(Taken' + (k + 1)) - Len(stack')])
<1>7. ASSUME NEW k \in 1 .. n
      PROVE  new(k) = old(k)
  <2>1. CASE k < m
    <3>1. k < Len(stack') /\ k + 1 \in 1 .. m
      BY <1>2, <2>1
    <3> QED BY <1>2, <2>1, <3>1
  <2>2. CASE k = m
    <3>1. k < Len(stack') /\ ~ (k < m) /\ k + 1 = m + 1 /\ (Taken + (k + 1)) - m = Taken + 1
      BY <1>2, <1>4, <2>2
    <3> QED BY <1>6, <3>1
  <2>3. CASE k > m
    <3>1. /\ ~ (k < Len(stack')) /\ ~ (k < m)
          /\ (Taken' + (k + 1)) - Len(stack') = (Taken + (k + 1)) - m
      BY <1>2, <1>4, <2>3
    <3> QED BY <3>1
  <2> QED BY <1>2, <2>1, <2>2, <2>3
<1>8. Form(stack, w, Taken) = [k \in 1 .. n |-> old(k)]
  BY DEF Form
<1>9. Form(stack', w, Taken') = [k \in 1 .. n |-> new(k)]
  BY <1>5 DEF Form
<1> HIDE DEF old, new, n
<1>10. Form(stack', w, Taken') = Form(stack, w, Taken)
  BY <1>7, <1>8, <1>9
<1> QED BY <1>2, <1>4, <1>5, <1>10 DEF n

\* Nothing that remains to be done is lost when a token is shifted.
LEMMA ShiftLate ==
  ASSUME StackOK(stack), Linked(stack), EndInv, look # NULL, look.sym \in Shiftable,
         NEW w, NEW u, NEW n, NEW g, NEW st, Situation(w, u, n, g, st),
         Late(Piece("policy", 0, n - 1), u, n, g)
  PROVE  Late(Piece("policy", 0, n - 1), u, n, g + 1)
<1> DEFINE t == Piece("policy", 0, n - 1)
<1>1. /\ t.sym = "policy" /\ t.to = n - 1
      /\ t.from <= g /\ g <= t.to /\ Expects(st[t.from], t.sym)
      /\ n \in Nat /\ g \in Nat /\ g < n
  BY WholeForm
<1> HIDE DEF t
<1>2. /\ Frame(u, n, g, st) /\ st[g] = State
      /\ u[g + 1].sym = look.sym /\ u[n].sym = "$end" /\ u[g + 1].sym \in TokenSymbols
  BY DEF Situation
<1>3. u[g + 1].sym \notin Heads
  BY <1>2, TokensAreTerminals
<1>4. CASE Complete = {}
  <2>1. 2 \in Rules /\ <<2, Size(2)>> \notin st[g]
    BY <1>2, <1>4, CompleteAlone DEF Rules
  <2>2. \A p \in Rules : <<p, Size(p)>> \notin st[g]
    BY <1>2, <1>4, CompleteAlone
  <2>3. Choice(u, n, g, st, 2, u)
    BY <1>2, <2>1, <2>2 DEF Choice
  <2>4. Claim(t, u, n, g, st, 2, u)
    BY <2>3, Viable DEF t
  <2>5. \/ IsLeaf(t, u) /\ t.to = g
        \/ Forward(t, u, n, g, st)
    BY <1>1, <2>1, <2>4 DEF Claim, Backward
  <2>6. Shaped(t, u, n, g)
    BY <2>4 DEF Claim
  <2>7. IsLeaf(t, u) => Late(t, u, n, g + 1)
    BY <1>1, <2>6, LeafIsLate
  <2> QED BY <2>5, <2>7 DEF Forward, t
<1>5. ASSUME NEW r \in Complete
      PROVE  Late(t, u, n, g + 1)
  <2>1. r \in Rules /\ Size(r) \in 1 .. 6
    BY CompleteRule
  <2>2. r # 1
    <3> SUFFICES ASSUME r = 1 PROVE FALSE
      OBVIOUS
    <3>1. Size(1) = 2 /\ Sym(1, 2) = "$end"
      BY GrammarTable
    <3>2. stack[Len(stack) - Size(r) + 2].sym = "$end"
      BY <3>1, TopSymbols
    <3>3. Len(stack) - Size(r) + 2 = Len(stack)
      BY <3>1 DEF StackOK
    <3> QED BY <3>2, <3>3, NothingAfterEnd
  <2>3. Conflict(r, look.sym)
    BY <2>2, Conflicts
  <2>4. \A p \in Rules \ {1} : <<p, Size(p)>> \in st[g] => p = r
    BY <1>2, CompleteAlone
  <2>5. Ambiguous(u, n, g, st, r)
    BY <1>2, <1>3, <2>1, <2>3, <2>4 DEF Ambiguous
  <2>6. Shifted(t, u, n, g, st)
    BY <2>5, Shifting DEF t
  <2>7. t.to # g
    <3> SUFFICES ASSUME t.to = g PROVE FALSE
      OBVIOUS
    <3>1. g + 1 = n
      BY <1>1
    <3>2. look.sym = "$end"
      BY <1>2, <3>1
    <3> QED BY <2>3, <3>2 DEF Conflict
  <2> QED BY <1>1, <2>6, <2>7 DEF Shifted
<1> QED BY <1>4, <1>5 DEF t

\* So the parser stays on track.
LEMMA ShiftOnTrack ==
  ASSUME StackOK(stack), Linked(stack), TokensInv, EndInv,
         NEW w, Readable(w), StartsWith(w, tokens), OnTrack(stack, w, Taken), Shift
  PROVE  OnTrack(stack', w, Taken')
<1> DEFINE n == FormSize(stack, w, Taken)
           u == Form(stack, w, Taken)
           g == Len(stack) - 1
<1>1. look # NULL /\ look.sym \in Shiftable
  BY DEF Shift
<1>2. stack[Len(stack)].sym # "$end"
  BY <1>1, NothingAfterEnd
<1>3. Taken < Len(w) /\ Late(Piece("policy", 0, n - 1), u, n, g)
  BY <1>2 DEF OnTrack
<1>4. Situation(w, u, n, g, States)
  BY <1>3, SituationKnown
<1> HIDE DEF n, u, g
<1>5. Late(Piece("policy", 0, n - 1), u, n, g + 1)
  BY <1>1, <1>3, <1>4, ShiftLate
<1>6. /\ Taken' = Taken + 1 /\ Len(stack') = Len(stack) + 1
      /\ stack'[Len(stack')].sym = look.sym
      /\ FormSize(stack', w, Taken') = n
      /\ Form(stack', w, Taken') = u
  BY FormShift DEF n, u
<1>7. g + 1 = Len(stack') - 1
  BY <1>6 DEF g, StackOK
<1>8. look.sym # "$end" => Taken' < Len(w)
  <2>1. g + 1 = n \/ Taken + 1 < Len(w)
    BY <1>4 DEF Situation
  <2>2. u[n].sym = "$end" /\ u[g + 1].sym = look.sym
    BY <1>1, <1>4 DEF Situation
  <2> QED BY <1>6, <2>1, <2>2
<1> QED BY <1>5, <1>6, <1>7, <1>8 DEF OnTrack

\* What a reduction leaves of the form.
LEMMA FormReduce ==
  ASSUME StackOK(stack), NEW r \in Complete, r # 1, NEW w, NEW x, NEW s,
         s = Push(Below(r), Lhs(r), x), Taken < Len(w), Taken \in Nat, Len(w) \in Nat
  PROVE  LET n == FormSize(stack, w, Taken)
             g == Len(stack) - 1
         IN  /\ Reduced(Form(stack, w, Taken), Form(s, w, Taken), n, g, r)
             /\ FormSize(s, w, Taken) = (n - Size(r)) + 1
             /\ Len(s) - 1 = (g - Size(r)) + 1
<1> DEFINE m == Len(stack)
           h == Size(r)
           b == m - h
           g == m - 1
           n == FormSize(stack, w, Taken)
           u == Form(stack, w, Taken)
           v == Form(s, w, Taken)
<1>1. /\ r \in Rules /\ h \in 1 .. 6 /\ m \in Nat /\ b \in 1 .. m - 1 /\ b \in 1 .. m
      /\ Below(r) = SubSeq(stack, 1, b) /\ Lhs(r) \in Symbols
  <2>1. r \in Rules /\ h \in 1 .. 6 /\ b \in 1 .. m - 1 /\ Lhs(r) \in Symbols
    BY CompleteRule, LeftHandSides
  <2>2. m \in Nat
    BY DEF StackOK
  <2>3. Below(r) = SubSeq(stack, 1, b)
    BY DEF Below, Size
  <2> QED BY <2>1, <2>2, <2>3
<1>2. /\ Len(s) = b + 1 /\ \A i \in 1 .. b : s[i] = stack[i]
      /\ s[b + 1].sym = Lhs(r)
  <2> DEFINE t == SubSeq(stack, 1, b)
  <2> HIDE DEF b
  <2>1. StackOK(t) /\ Len(t) = b /\ \A i \in 1 .. b : t[i] = stack[i]
    BY <1>1, StackBelow
  <2> HIDE DEF t
  <2>2. s = Push(t, Lhs(r), x)
    BY <1>1 DEF t
  <2> QED BY <1>1, <2>1, <2>2, StackPush
<1>3. n = g + (Len(w) - Taken) /\ g + 1 = m /\ g \in Nat /\ n \in Nat /\ h <= g /\ g < n
  BY <1>1 DEF FormSize
<1>4. Len(s) - 1 = (g - h) + 1 /\ b = (g - h) + 1
  BY <1>1, <1>2
<1> HIDE DEF n, g
<1>5. FormSize(s, w, Taken) = (n - h) + 1
  <2>1. FormSize(s, w, Taken) = (Len(s) - 1) + (Len(w) - Taken)
    BY DEF FormSize
  <2> HIDE DEF b, h, m
  <2> QED BY <1>1, <1>3, <1>4, <2>1
<1> HIDE DEF b, h, m
<1>6. \A k \in 1 .. n : u[k] = IF k < m THEN Symbol(stack[k + 1])
                               ELSE Symbol(w[(Taken + (k + 1)) - m])
  BY DEF Form, n, m
<1>7. \A k \in 1 .. (n - h) + 1 : v[k] = IF k < b + 1 THEN Symbol(s[k + 1])
                               ELSE Symbol(w[(Taken + (k + 1)) - (b + 1)])
  BY <1>2, <1>5 DEF Form
<1> HIDE DEF u, v
<1>8. ASSUME NEW k \in 1 .. g - h
      PROVE  v[k] = u[k]
  <2>1. /\ k \in 1 .. n /\ k < m /\ k \in 1 .. (n - h) + 1 /\ k < b + 1
        /\ k + 1 \in 1 .. b
    BY <1>1, <1>3, <1>4
  <2> QED BY <1>2, <1>6, <1>7, <2>1
<1>9. v[(g - h) + 1].sym = Lhs(r)
  <2>1. b \in 1 .. (n - h) + 1 /\ b < b + 1
    BY <1>1, <1>3, <1>4
  <2>2. v[b] = Symbol(s[b + 1])
    BY <1>7, <2>1
  <2> QED BY <1>2, <1>4, <2>2 DEF Symbol
<1>10. ASSUME NEW k \in g + 1 .. n
       PROVE  v[(k - h) + 1] = u[k]
  <2>1. /\ k \in 1 .. n /\ ~ (k < m)
        /\ (k - h) + 1 \in 1 .. (n - h) + 1 /\ ~ ((k - h) + 1 < b + 1)
        /\ (Taken + (((k - h) + 1) + 1)) - (b + 1) = (Taken + (k + 1)) - m
    BY <1>1, <1>3, <1>4
  <2> QED BY <1>6, <1>7, <2>1
<1>11. Reduced(u, v, n, g, r)
  BY <1>3, <1>8, <1>9, <1>10 DEF Reduced, h
<1> QED BY <1>4, <1>5, <1>11 DEF n, g, h, m, u, v

\* Where the next token cannot be shifted, the complete rule is what the text needs
\* next: its action does not end in YYERROR, and all that remains is still to be done.
LEMMA ReduceLate ==
  ASSUME StackOK(stack), NEW r \in Complete, r # 1, Reducible(r),
         NEW w, NEW u, NEW n, NEW g, NEW st, Situation(w, u, n, g, st),
         NEW v, Reduced(u, v, n, g, r), Late(Piece("policy", 0, n - 1), u, n, g)
  PROVE  /\ Late(Piece("policy", 0, ((n - Size(r)) + 1) - 1), v, (n - Size(r)) + 1,
                 (g - Size(r)) + 1)
         /\ ~ Refused(r, stack[(Len(stack) - Size(r)) + 1].val)
<1> DEFINE t == Piece("policy", 0, n - 1)
           h == Size(r)
<1>1. /\ t.sym = "policy" /\ t.from = 0 /\ t.to = n - 1 /\ t.sym \in Heads
      /\ t.from <= g /\ g <= t.to /\ Expects(st[t.from], t.sym)
      /\ n \in Nat /\ g \in Nat /\ g < n
  BY WholeForm
<1>2. /\ r \in Rules /\ h \in 1 .. 6 /\ h <= g /\ Len(stack) = g + 1
  <2>1. r \in Rules /\ h \in 1 .. 6
    BY CompleteRule
  <2> QED BY <2>1 DEF Reduced, Situation
<1>3. /\ Frame(u, n, g, st) /\ st[g] = State
      /\ look # NULL => u[g + 1].sym = look.sym
      /\ u[g + 1].sym \in TokenSymbols
      /\ \A k \in 1 .. g : u[k].sym = stack[k + 1].sym /\ u[k].val = stack[k + 1].val
  BY DEF Situation
<1> HIDE DEF t, h
<1>4. Choice(u, n, g, st, r, v)
  <2>1. \A p \in Rules \ {1} : <<p, Size(p)>> \in st[g] => p = r
    BY <1>3, CompleteAlone
  <2> QED BY <1>2, <1>3, <2>1 DEF Choice
<1>5. Claim(t, u, n, g, st, r, v)
  BY <1>4, Viable DEF t
<1>6. ~ (IsLeaf(t, u) /\ t.to = g)
  <2> SUFFICES ASSUME IsLeaf(t, u), t.to = g PROVE FALSE
    OBVIOUS
  <2>1. g = 1 /\ u[1].sym = "policy" /\ h = 1
    <3>1. t.to = t.from + 1 /\ u[t.to].sym = t.sym
      BY DEF IsLeaf
    <3>2. t.to = 1
      BY <1>1, <3>1
    <3>3. g = 1
      BY <3>2
    <3> QED BY <1>1, <1>2, <3>1, <3>2, <3>3
  <2>2. stack[2].sym = "policy" /\ Len(stack) = 2
    BY <1>2, <1>3, <2>1
  <2>3. stack[Len(stack) - h + 1].sym = Sym(r, 1) /\ Len(stack) - h + 1 = 2
    <3>1. 1 \in 1 .. Size(r)
      BY <2>1 DEF h
    <3>2. Len(stack) - h + 1 = 2
      BY <2>1, <2>2
    <3> QED BY <3>1, <3>2, TopSymbols DEF h
  <2>4. Sym(r, 1) # "policy"
    <3>1. 1 \in 1 .. Size(r)
      BY <2>1 DEF h
    <3> QED BY <1>2, <3>1, BlockedPlaces
  <2> QED BY <2>2, <2>3, <2>4
<1>7. ~ Forward(t, u, n, g, st)
  <2> SUFFICES ASSUME Expects(State, u[g + 1].sym) PROVE FALSE
    BY <1>3 DEF Forward
  <2>1. u[g + 1].sym \in Shiftable
    BY <1>3, TokensAreTerminals, ShiftableExpected
  <2> QED BY <1>3, <2>1 DEF Reducible
<1>8. Backward(t, u, n, g, st, r, v)
  BY <1>1, <1>5, <1>6, <1>7 DEF Claim
<1>9. Image(t, g, h) = Piece("policy", 0, ((n - h) + 1) - 1)
  <2>1. Moved(t.from, g, h) = 0 /\ Moved(t.to, g, h) = ((n - h) + 1) - 1
    BY <1>1, <1>2 DEF Moved
  <2> QED BY <1>1, <2>1 DEF Image
<1>10. ~ Refused(r, stack[(Len(stack) - h) + 1].val)
  <2>1. (g - h) + 1 \in 1 .. g /\ ((g - h) + 1) + 1 = (Len(stack) - h) + 1
    BY <1>1, <1>2
  <2>2. u[(g - h) + 1].val = stack[((g - h) + 1) + 1].val
    BY <1>3, <2>1
  <2> QED BY <1>8, <2>1, <2>2 DEF Backward, h
<1> QED BY <1>8, <1>9, <1>10 DEF Backward, LateAfter, h

\* So the parser stays on track.
LEMMA ReduceOnTrack ==
  ASSUME StackOK(stack), Linked(stack), TokensInv, EndInv,
         NEW w, Readable(w), StartsWith(w, tokens), OnTrack(stack, w, Taken),
         NEW r \in Complete, r # 1, Reducible(r), NEW x
  PROVE  /\ OnTrack(Push(Below(r), Lhs(r), x), w, Taken)
         /\ ~ Refused(r, stack[(Len(stack) - Size(r)) + 1].val)
<1> DEFINE s == Push(Below(r), Lhs(r), x)
           n == FormSize(stack, w, Taken)
           u == Form(stack, w, Taken)
           g == Len(stack) - 1
<1>1. stack[Len(stack)].sym # "$end"
  <2> SUFFICES ASSUME stack[Len(stack)].sym = "$end" PROVE FALSE
    OBVIOUS
  <2>1. <<r, Size(r)>> \in {<<1, 2>>}
    BY CompleteAlone DEF EndInv
  <2> QED BY <2>1
<1>2. Taken < Len(w) /\ Late(Piece("policy", 0, n - 1), u, n, g)
  BY <1>1 DEF OnTrack
<1>3. Situation(w, u, n, g, States)
  BY <1>2, SituationKnown
<1>4. Taken \in Nat /\ Len(w) \in Nat
  BY DEF TokensInv, EndInv, Taken, Readable, TokensValued
<1>5. /\ Reduced(u, Form(s, w, Taken), n, g, r)
      /\ FormSize(s, w, Taken) = (n - Size(r)) + 1
      /\ Len(s) - 1 = (g - Size(r)) + 1
  BY <1>2, <1>4, FormReduce
<1> HIDE DEF s, n, u, g
<1>6. /\ Late(Piece("policy", 0, FormSize(s, w, Taken) - 1), Form(s, w, Taken),
               FormSize(s, w, Taken), Len(s) - 1)
      /\ ~ Refused(r, stack[(Len(stack) - Size(r)) + 1].val)
  BY <1>2, <1>3, <1>5, ReduceLate
<1> QED BY <1>2, <1>6 DEF OnTrack, s

\* It is not a syntax error.
LEMMA NoSyntaxError ==
  ASSUME StackOK(stack), Linked(stack), TokensInv, EndInv,
         NEW w, Readable(w), StartsWith(w, tokens), OnTrack(stack, w, Taken),
         look # NULL, look.sym \notin Shiftable
  PROVE  Complete # {}
<1> SUFFICES ASSUME Complete = {} PROVE FALSE
  OBVIOUS
<1> DEFINE n == FormSize(stack, w, Taken)
           u == Form(stack, w, Taken)
           g == Len(stack) - 1
           st == States
           t == Piece("policy", 0, n - 1)
<1>1. Taken < Len(w) /\ Late(t, u, n, g)
  BY DEF OnTrack, EndInv
<1>2. Situation(w, u, n, g, st)
  BY <1>1, SituationKnown
<1> HIDE DEF n, u, g, st
<1>3. /\ t.sym = "policy" /\ t.from = 0 /\ t.to = n - 1
      /\ t.from <= g /\ g <= t.to /\ Expects(st[t.from], t.sym)
      /\ n \in Nat /\ g \in Nat /\ g < n
  BY <1>2, WholeForm
<1> HIDE DEF t
<1>4. /\ Frame(u, n, g, st) /\ st[g] = State /\ <<1, 0>> \in st[0]
      /\ u[g + 1].sym = look.sym /\ u[n].sym = "$end" /\ u[g + 1].sym \in TokenSymbols
  BY <1>2 DEF Situation
<1>5. ~ Expects(State, u[g + 1].sym)
  BY <1>4, TokensAreTerminals, ShiftableExpected
<1>6. 2 \in Rules /\ \A p \in Rules : <<p, Size(p)>> \notin st[g]
  BY <1>4, CompleteAlone DEF Rules
<1>7. Claim(t, u, n, g, st, 2, u)
  <2>1. Choice(u, n, g, st, 2, u)
    BY <1>4, <1>6 DEF Choice
  <2> QED BY <1>1, <2>1, Viable
<1>8. IsLeaf(t, u) /\ t.to = g
  BY <1>3, <1>4, <1>5, <1>6, <1>7 DEF Claim, Forward, Backward
<1>9. g = 1 /\ n = 2 /\ u[1].sym = "policy"
  BY <1>3, <1>8 DEF IsLeaf
<1>10. Size(1) = 2 /\ Sym(1, 1) = "policy" /\ Sym(1, 2) = "$end" /\ 1 \in Rules
  BY ONLY GrammarTable DEF Rules
<1>11. <<1, 1>> \in st[1]
  <2>1. Advances(st[0], st[1], u[1].sym)
    <3>1. 1 \in 1 .. g /\ 1 - 1 = 0
      BY <1>9
    <3> QED BY <1>4, <3>1 DEF Frame
  <2>2. 0 \in 0 .. Size(1) - 1 /\ 0 + 1 = 1
    BY <1>10
  <2> QED BY <1>4, <1>9, <1>10, <2>1, <2>2 DEF Advances
<1>12. Expects(st[1], "$end")
  <2>1. 1 \in 0 .. Size(1) - 1 /\ 1 + 1 = 2
    BY <1>10
  <2> QED BY <1>10, <1>11, <2>1 DEF Expects
<1> QED BY <1>4, <1>5, <1>9, <1>12

\* Nor does an action end in YYERROR.
LEMMA NoYyerror ==
  ASSUME StackOK(stack), Linked(stack), TokensInv, EndInv, ValuesInv,
         NEW w, Readable(w), StartsWith(w, tokens), OnTrack(stack, w, Taken),
         NEW r \in Complete, Reducible(r)
  PROVE  ~ Yyerror(Act(r), Values(r))
<1> DEFINE m == Len(stack)
           h == Size(r)
<1>1. /\ r \in Rules /\ h \in 1 .. 6 /\ m \in Nat /\ m - h \in 1 .. m - 1
      /\ Values(r) = [k \in 1 .. h |-> stack[m - h + k].val]
  BY CompleteRule DEF Values, Size, StackOK
<1>2. CASE r = 1
  <2>1. Act(r) = "accept"
    BY <1>2, ActionTable
  <2> QED BY <2>1 DEF Yyerror
<1>3. CASE r # 1
  <2>1. ~ Refused(r, stack[(m - h) + 1].val)
    BY <1>3, ReduceOnTrack
  <2>2. ASSUME NEW k \in 1 .. h
        PROVE  Typed(Sym(r, k), Values(r)[k])
    <3>1. m - h + k \in 2 .. m
      BY <1>1
    <3>2. stack[m - h + k].sym = Sym(r, k)
      BY TopSymbols
    <3>3. Typed(stack[m - h + k].sym, stack[m - h + k].val)
      BY <3>1 DEF ValuesInv
    <3>4. Values(r)[k] = stack[m - h + k].val
      BY <1>1
    <3> QED BY <3>2, <3>3, <3>4
  <2>3. Values(r)[1] = stack[(m - h) + 1].val
    <3>1. 1 \in 1 .. h
      BY <1>1
    <3> QED BY <1>1, <3>1
  <2> QED BY <1>1, <2>1, <2>2, <2>3, YyerrorRefused
<1> QED BY <1>2, <1>3

\* At the start, the whole text is to be read.
LEMMA RefusalInit == Init => RefusalInv
<1> SUFFICES ASSUME Init, NEW w, Readable(w)
             PROVE  status = "parsing" /\ OnTrack(stack, w, Taken)
  BY DEF RefusalInv
<1> DEFINE n == Len(w)
<1>1. Len(stack) = 1 /\ look = NULL /\ Len(tokens) = 0 /\ status = "parsing"
  BY DEF Init
<1>2. n \in Nat /\ n # 0 /\ Taken = 0
  BY <1>1 DEF Readable, TokensValued, Taken
<1>3. FormSize(stack, w, Taken) = n /\ Len(stack) - 1 = 0
  BY <1>1, <1>2 DEF FormSize
<1>4. Form(stack, w, Taken) = [k \in 1 .. n |-> Symbol(w[k])]
  <2>1. \A k \in 1 .. n : ~ (k < Len(stack)) /\ (Taken + (k + 1)) - Len(stack) = k
    BY <1>1, <1>2
  <2>2. Form(stack, w, Taken) =
          [k \in 1 .. n |-> IF k < Len(stack) THEN Symbol(stack[k + 1])
                            ELSE Symbol(w[(Taken + (k + 1)) - Len(stack)])]
    BY <1>3 DEF Form
  <2> QED BY <2>1, <2>2
<1>5. PICK v : Reading(Span("policy", 0, n - 1, v), w)
  BY DEF Readable
<1> DEFINE t == Span("policy", 0, n - 1, v)
<1>6. t.sym = "policy" /\ t.from = 0 /\ t.to = n - 1
  BY DEF Span
<1>7. Late(Piece(t.sym, t.from, t.to), [k \in 1 .. n |-> Symbol(w[k])], n, 0)
  <2> HIDE DEF t
  <2>1. TokensValued(w) /\ Reading(t, w)
    BY <1>5 DEF Readable, t
  <2> QED BY <2>1, ReadingIsLate
<1> HIDE DEF t
<1>8. Late(Piece("policy", 0, n - 1), [k \in 1 .. n |-> Symbol(w[k])], n, 0)
  BY <1>6, <1>7
<1>9. Taken < Len(w)
  BY <1>2
<1> HIDE DEF n
<1>10. Late(Piece("policy", 0, FormSize(stack, w, Taken) - 1), Form(stack, w, Taken),
            FormSize(stack, w, Taken), Len(stack) - 1)
  BY <1>3, <1>4, <1>8
<1> QED BY <1>1, <1>9, <1>10 DEF OnTrack

\* What is read next is what comes next in the text.
LEMMA RefusalScan ==
  ASSUME TokensInv, RefusalInv, NEW x, NEW token, Scan(x, token), token # NULL
  PROVE  RefusalInv'
<1> DEFINE n == Len(tokens)
           e == [sym |-> token.sym, val |-> token.val, lexeme |-> x]
<1>1. /\ look = NULL /\ tokens' = Append(tokens, e) /\ status = "parsing"
      /\ UNCHANGED <<stack, status>>
  BY DEF Scan
<1>2. n \in Nat /\ Len(tokens') = n + 1 /\ \A k \in 1 .. n : tokens'[k] = tokens[k]
  <2> HIDE DEF e
  <2>1. n \in Nat /\ SequenceOf(tokens, n) /\ DOMAIN tokens = 1 .. n
    BY DEF TokensInv, SequenceOf
  <2> HIDE DEF n
  <2>2. SequenceOf(tokens', n + 1)
    BY <1>1, <2>1, SequenceLength
  <2>3. Len(tokens') = n + 1
    BY <2>1, <2>2, SequenceLength
  <2> QED BY <1>1, <2>1, <2>3, AppendProperties DEF n
<1> HIDE DEF e
<1>3. Taken' = Taken
  <2>1. look' # NULL
    BY DEF Scan
  <2> QED BY <1>1, <1>2, <2>1 DEF Taken
<1> SUFFICES ASSUME NEW w, Readable(w), StartsWith(w, tokens')
             PROVE  status' = "parsing" /\ OnTrack(stack', w, Taken')
  BY DEF RefusalInv
<1>4. StartsWith(w, tokens)
  <2>1. Len(w) \in Nat
    BY DEF Readable, TokensValued
  <2>2. n + 1 <= Len(w) /\ \A k \in 1 .. n + 1 : w[k].sym = tokens'[k].sym
                                              /\ w[k].val = tokens'[k].val
    BY <1>2 DEF StartsWith
  <2>3. n <= Len(w) /\ \A k \in 1 .. n : k \in 1 .. n + 1
    BY <1>2, <2>1, <2>2
  <2> QED BY <1>2, <2>2, <2>3 DEF StartsWith
<1>5. OnTrack(stack, w, Taken)
  BY <1>4 DEF RefusalInv
<1> QED BY <1>1, <1>3, <1>5

\* No step refuses a text that has a reading.
LEMMA RefusalNext ==
  StackOK(stack) /\ Linked(stack) /\ TokensInv /\ EndInv /\ ValuesInv /\ RefusalInv
    /\ [Next]_vars => RefusalInv'
<1> SUFFICES ASSUME StackOK(stack), Linked(stack), TokensInv, EndInv, ValuesInv,
                    RefusalInv, [Next]_vars
             PROVE  RefusalInv'
  OBVIOUS
<1>1. CASE Yylex
  <2>1. PICK x \in text.lexemes : Scan(x, TokenOf(condition, x))
    BY <1>1 DEF Yylex
  <2>2. x \in Lexemes /\ condition \in {"INITIAL", "BEFORE_ARGS", "ARGS"}
    BY ParserAssumption DEF TokensInv
  <2> QED BY <2>1, <2>2, NullAssumption, RefusalScan
<1>2. CASE YylexEnd
  BY <1>2, NullAssumption, RefusalScan DEF YylexEnd
<1>3. CASE Shift
  <2>1. status = "parsing" /\ UNCHANGED <<tokens, status>>
    BY <1>3 DEF Shift
  <2> SUFFICES ASSUME NEW w, Readable(w), StartsWith(w, tokens)
               PROVE  OnTrack(stack', w, Taken')
    BY <2>1 DEF RefusalInv
  <2>2. OnTrack(stack, w, Taken)
    BY DEF RefusalInv
  <2> QED BY <1>3, <2>2, ShiftOnTrack
<1>4. ASSUME NEW r \in Complete, Reduce(r) \/ ReduceList(r) \/ ReduceAdd(r)
      PROVE  RefusalInv'
  <2>1. Reducible(r) /\ UNCHANGED <<tokens, look, status>>
    BY <1>4 DEF Reduce, ReduceList, ReduceAdd
  <2>2. status = "parsing" /\ Taken' = Taken
    BY <2>1 DEF Reducible, Taken
  <2>3. r # 1
    BY <1>4, SameReduction
  <2>4. PICK x : stack' = Push(Below(r), Lhs(r), x)
    BY <1>4, SameReduction
  <2> SUFFICES ASSUME NEW w, Readable(w), StartsWith(w, tokens)
               PROVE  OnTrack(stack', w, Taken)
    BY <2>1, <2>2 DEF RefusalInv
  <2>5. OnTrack(stack, w, Taken)
    BY DEF RefusalInv
  <2> QED BY <2>1, <2>3, <2>4, <2>5, ReduceOnTrack
<1>5. CASE ParseError
  <2>1. UNCHANGED <<tokens, look, stack>> /\ status' = "failed"
    BY <1>5 DEF ParseError
  <2> SUFFICES ASSUME NEW w, Readable(w), StartsWith(w, tokens)
               PROVE  FALSE
    BY <2>1 DEF RefusalInv
  <2>2. OnTrack(stack, w, Taken)
    BY DEF RefusalInv
  <2>3. CASE look # NULL /\ look.sym \notin Shiftable /\ Complete = {}
    BY <2>2, <2>3, NoSyntaxError
  <2>4. ASSUME NEW r \in Complete, Reducible(r), Yyerror(Grammar[r].action, Values(r))
        PROVE  FALSE
    BY <2>2, <2>4, NoYyerror DEF Act
  <2> QED BY <1>5, <2>3, <2>4 DEF ParseError
<1>6. CASE Accept \/ DaPolicyNewFull
  <2>1. /\ UNCHANGED <<tokens, look, stack>> /\ status' # "failed"
        /\ 1 \in Complete
    BY <1>6 DEF Accept, DaPolicyNewFull, EndInv
  <2>2. Complete' = Complete /\ Taken' = Taken
    BY <2>1 DEF Complete, State, Taken
  <2> QED BY <2>1, <2>2 DEF RefusalInv
<1>7. CASE DaParserCompileFails
  <2>1. status = "failed" /\ UNCHANGED tokens
    BY <1>7 DEF DaParserCompileFails
  <2> QED BY <2>1 DEF RefusalInv
<1>8. CASE Done \/ UNCHANGED vars
  <2>1. UNCHANGED <<tokens, look, stack, status>>
    BY <1>8 DEF Done, vars
  <2>2. Complete' = Complete /\ Taken' = Taken
    BY <2>1 DEF Complete, State, Taken
  <2> QED BY <2>1, <2>2 DEF RefusalInv
<1> QED BY <1>1, <1>2, <1>3, <1>4, <1>5, <1>6, <1>7, <1>8 DEF Next, Step

\* It is so in every behaviour.
THEOREM ParserOnTrack == Spec => []RefusalInv
<1> QED
  BY RefusalInit, RefusalNext, ParserStack, ParserLinked, ParserTokens, ParserEnd,
     ParserValues, PTL DEF Spec

\* A text is refused only where no text has a reading that begins with the tokens
\* read so far: 1 \notin Complete says that the parser did not accept.
RefusesOnlyErrors ==
    status = "failed" \/ (status = "deleted" /\ 1 \notin Complete) =>
        \A w : Readable(w) => ~ StartsWith(w, tokens)

\* The generated parser refuses no text that the grammar makes a policy of, of any
\* length, although it looks at one token only and where the grammar is ambiguous
\* shifts what can be shifted; and it gives up only when none begins with the tokens
\* that it read.
THEOREM ParserRefusesOnlyErrors == Spec => []RefusesOnlyErrors
<1>1. RefusalInv => RefusesOnlyErrors
  BY DEF RefusalInv, RefusesOnlyErrors
<1> QED BY <1>1, ParserOnTrack, PTL

\* What was accepted has a reading.
LEMMA AcceptedIsReadable ==
  ASSUME StackOK(stack), EndInv, ReadInv, TokensValued(tokens), 1 \in Complete
  PROVE  Readable(tokens)
<1> DEFINE t == Span("policy", 0, Len(tokens) - 1, List)
<1>1. /\ Len(tokens) # 0
      /\ tokens[Len(tokens)].sym = "$end"
      /\ RightReading(t, tokens)
  BY AcceptedReading
<1>2. t.sym # "operand"
  BY DEF Span
<1> HIDE DEF t
<1>3. Reading(t, tokens)
  BY <1>1, <1>2, NoOperandToken, RightIsReading
<1> QED BY <1>1, <1>3 DEF Readable, t

\* What the parser leaves behind.
OutcomeInv ==
    /\ status = "failed" => 1 \notin Complete
    /\ status = "deleted" => policy = IF 1 \in Complete THEN List ELSE NULL

\* It does so in every behaviour.
LEMMA ParserOutcome == Spec => []OutcomeInv
<1>1. Init => OutcomeInv
  BY DEF Init, OutcomeInv
<1>2. OwnershipInv /\ StackOK(stack) /\ ListInv /\ EndInv /\ OutcomeInv /\ [Next]_vars
        => OutcomeInv'
  <2> SUFFICES ASSUME OwnershipInv, StackOK(stack), ListInv, EndInv, OutcomeInv,
                      [Next]_vars
               PROVE  OutcomeInv'
    OBVIOUS
  <2>1. CASE Yylex \/ YylexEnd \/ Shift
               \/ \E r \in Complete : Reduce(r) \/ ReduceList(r) \/ ReduceAdd(r)
    <3>1. status' = "parsing"
      BY <2>1 DEF Yylex, YylexEnd, Scan, Shift, Reduce, ReduceList, ReduceAdd, Reducible
    <3> QED BY <3>1 DEF OutcomeInv
  <2>2. CASE Accept
    BY <2>2 DEF Accept, OutcomeInv
  <2>3. ASSUME UNCHANGED stack
        PROVE  Complete' = Complete
    BY <2>3 DEF Complete, State
  <2>4. CASE ParseError
    <3>1. 1 \notin Complete
      <4>1. CASE Complete = {}
        BY <4>1
      <4>2. CASE Complete # {}
        <5>1. PICK r \in Complete : Yyerror(Grammar[r].action, Values(r))
          BY <2>4, <4>2 DEF ParseError
        <5>2. r # 1
          <6>1. Act(r) \in {"version", "action", "action_with_argument"}
            BY <5>1 DEF Yyerror, Act
          <6> QED BY <6>1, ActionTable
        <5> QED BY <5>2, CompleteAlone
      <4> QED BY <4>1, <4>2
    <3>2. UNCHANGED stack /\ status' = "failed"
      BY <2>4 DEF ParseError
    <3> QED BY <2>3, <3>1, <3>2 DEF OutcomeInv
  <2>5. CASE DaPolicyNewFull
    <3>1. UNCHANGED stack /\ status' = "deleted" /\ 1 \in Complete
      BY <2>5 DEF DaPolicyNewFull, EndInv
    <3>2. policy' = List'
      BY <2>5, ListNewPolicy DEF List
    <3> QED BY <2>3, <3>1, <3>2 DEF OutcomeInv
  <2>6. CASE DaParserCompileFails
    <3>1. UNCHANGED <<stack, policy>> /\ status = "failed" /\ status' = "deleted"
      BY <2>6 DEF DaParserCompileFails
    <3>2. policy = NULL /\ 1 \notin Complete
      BY <3>1 DEF ListInv, OutcomeInv
    <3> QED BY <2>3, <3>1, <3>2 DEF OutcomeInv
  <2>7. CASE Done \/ UNCHANGED vars
    <3>1. UNCHANGED <<stack, policy, cells, freed, status>>
      BY <2>7 DEF Done, vars
    <3>2. List' = List
      BY <3>1 DEF List, Allocated
    <3> QED BY <2>3, <3>1, <3>2 DEF OutcomeInv
  <2> QED BY <2>1, <2>2, <2>4, <2>5, <2>6, <2>7 DEF Next, Step
<1> QED BY <1>1, <1>2, ParserOwnership, ParserStack, ParserList, ParserEnd, PTL DEF Spec

\* The texts that compile are those that the grammar makes a policy of, and they compile
\* to the one policy they are read as when operators extend to the right.
CompilesExactly ==
    status = "deleted" =>
        IF Readable(tokens)
        THEN \A v : RightReading(Span("policy", 0, Len(tokens) - 1, v), tokens)
                      <=> v = policy
        ELSE policy = NULL

\* da_policy_new_full returns a policy for exactly the texts that the grammar of
\* dbusaccess_policy1.y and its actions make a policy of, and NULL for all others.  Of
\* the policies the grammar makes of a text it returns the only one in which every
\* operator extends to the right as far as it can.
THEOREM ParserCompilesExactly == Spec => []CompilesExactly
<1>1. StackOK(stack) /\ TokensInv /\ EndInv /\ ReadInv /\ TokensValued(tokens)
        /\ RefusalInv /\ OutcomeInv => CompilesExactly
  <2> SUFFICES ASSUME StackOK(stack), TokensInv, EndInv, ReadInv, TokensValued(tokens),
                      RefusalInv, OutcomeInv, status = "deleted"
               PROVE  IF Readable(tokens)
                      THEN \A v :
                             RightReading(Span("policy", 0, Len(tokens) - 1, v), tokens)
                               <=> v = policy
                      ELSE policy = NULL
    BY DEF CompilesExactly
  <2>1. StartsWith(tokens, tokens)
    BY DEF StartsWith, TokensInv
  <2>2. Readable(tokens) <=> 1 \in Complete
    BY <2>1, AcceptedIsReadable DEF RefusalInv
  <2>3. ASSUME Readable(tokens)
        PROVE  RightReading(Span("policy", 0, Len(tokens) - 1, policy), tokens)
    BY <2>2, <2>3, AcceptedReading DEF OutcomeInv
  <2>4. ASSUME Readable(tokens),
               NEW v, RightReading(Span("policy", 0, Len(tokens) - 1, v), tokens)
        PROVE  v = policy
    <3> DEFINE x == Span("policy", 0, Len(tokens) - 1, v)
               y == Span("policy", 0, Len(tokens) - 1, policy)
    <3>1. /\ x.sym = "policy" /\ x.from = 0 /\ x.to = Len(tokens) - 1 /\ x.val = v
          /\ y.sym = "policy" /\ y.from = 0 /\ y.to = Len(tokens) - 1 /\ y.val = policy
      BY DEF Span
    <3>2. RightReading(x, tokens) /\ RightReading(y, tokens)
      BY <2>3, <2>4
    <3> HIDE DEF x, y
    <3> QED BY <3>1, <3>2, OnePolicy
  <2>5. policy = NULL \/ Readable(tokens)
    BY <2>2 DEF OutcomeInv
  <2> QED BY <2>3, <2>4, <2>5
<1> QED
  BY <1>1, ParserStack, ParserTokens, ParserEnd, ParserReads, TokensAreValued,
     ParserOnTrack, ParserOutcome, PTL

=============================================================================
