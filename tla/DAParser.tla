------------------------------ MODULE DAParser ------------------------------
(***************************************************************************)
(* The compiler of policy strings: the scanner src/src/                    *)
(* dbusaccess_policy1.l, the grammar src/src/dbusaccess_policy1.y and what *)
(* its actions call in src/src/dbusaccess_parser.c.                        *)
(*                                                                         *)
(* The text is a sequence of lexemes, any of which may come next, so that  *)
(* the behaviours are the parses of all texts.  Adjacent lexemes that the  *)
(* scanner would take for one are separated by white space.                *)
(*                                                                         *)
(* The grammar is data, and the machine that interprets it is the one that *)
(* bison generates: a stack of states, each a set of rules with a dot.     *)
(* What matters of it is how it chooses where the grammar is ambiguous: a  *)
(* token that can be shifted is shifted.  "%left '!'" changes nothing      *)
(* about that, since '|' and '&' have no precedence to compare '!' with.   *)
(***************************************************************************)
EXTENDS Integers, Sequences, FiniteSets

CONSTANTS
    Words,      \* words of letters, other than the keywords
    Patterns,   \* other words that may be arguments, such as "?a"
    Numeral,    \* Numeral[x]: what strtoul makes of the digits x, or NULL
    Quoted,     \* Quoted[x]: what is between the quotes of x
    Other,      \* a character that means nothing
    Actions,    \* Actions[x]: how many arguments action x has, 0 or 1
    Uid, Gid,   \* pw_uid and gr_gid of the name x, NULL if the system has none
    IntBits,    \* width of the type int
    Texts,      \* bound: which lexemes a text is made of, and how many
    NULL        \* no value, no token, no policy

\* Characters that stand for themselves; that of ';' is spelt out.
Punctuation == {"*", "=", "semicolon", "!", "|", "&", "(", ")", ":"}
Keywords == {"user", "group", "allow", "deny"}
Numerals == DOMAIN Numeral
Strings == DOMAIN Quoted
Lexemes ==
    Punctuation \cup Keywords \cup Words \cup Patterns \cup Numerals
        \cup Strings \cup {Other}

\* The kinds of lexemes, which no two have in common.
Kinds == <<Punctuation, Keywords, Words, Patterns, Numerals, Strings, {Other}>>

ASSUME ParserAssumption ==
    /\ IntBits \in Nat \ {0}
    /\ Texts \subseteq [lexemes : SUBSET Lexemes, max : Nat]
    /\ \A i, j \in DOMAIN Kinds : i # j => Kinds[i] \cap Kinds[j] = {}
    /\ \A x \in Numerals : Numeral[x] \in Nat \cup {NULL}
    /\ DOMAIN Actions \subseteq Words
    /\ \A x \in DOMAIN Actions : Actions[x] \in {0, 1}
    /\ \A x \in Keywords \cup Words \cup Patterns :
            {Uid[x], Gid[x]} \subseteq 0 .. 2^IntBits - 1 \cup {NULL}

VARIABLES
    text,       \* what the text is made of, one of Texts
    condition,  \* start condition of the scanner
    tokens,     \* history: the tokens read so far, with their lexemes
    look,       \* the token read and not yet shifted, or NULL
    stack,      \* stack of the parser: symbols, values and states
    cells,      \* GSList cells: [data, next], next = 0 at the end of a list
    link_list,  \* parser->link_list: cells to be freed
    entries,    \* parser->entries: first cell of the result, or 0
    freed,      \* how often each cell has been freed
    status,     \* "parsing", "accepted", "failed" or "deleted"
    policy      \* the rules of the result of da_policy_new_full, or NULL

vars == <<text, condition, tokens, look, stack, cells, link_list, entries, freed,
          status, policy>>

-----------------------------------------------------------------------------
(* The scanner.                                                            *)

Token(sym, val) == [sym |-> sym, val |-> val]

DA_WILDCARD == -1
DA_INVALID == -2

\* Mutant of ToInt: the number is kept as it is.
ToIntWide(n) == n

\* What is left of n when it is stored in an int.
ToInt(n) ==
    LET low == n % 2^IntBits
    IN  IF low < 2^(IntBits - 1) THEN low ELSE low - 2^IntBits

\* number.
Number(x) ==
    IF Numeral[x] = NULL
    THEN Token("ERROR", NULL)
    ELSE Token("NUMBER", ToInt(Numeral[x]))

\* A single character; most have no meaning to the grammar.
Char(x) == Token(IF x \in Punctuation THEN x ELSE "ERROR", NULL)

KeywordToken ==
    [user |-> "USER", group |-> "GROUP", allow |-> "ALLOW", deny |-> "DENY"]

\* The token that x is under start condition c.
TokenOf(c, x) ==
    CASE x \in Numerals /\ c # "BEFORE_ARGS" -> Number(x)
      [] x \in Keywords /\ c = "INITIAL" -> Token(KeywordToken[x], NULL)
      [] x \in Words /\ c = "INITIAL" -> Token("ID", x)
      [] x = "*" /\ c = "ARGS" -> Token("WILDCARD", x)
      [] x \in Words \cup Patterns \cup Keywords /\ c = "ARGS" -> Token("WORD", x)
      [] x \in Strings /\ c = "ARGS" -> Token("STRING", Quoted[x])
      [] OTHER -> Char(x)

\* The start condition after x.
ConditionAfter(c, x) ==
    CASE c = "INITIAL" /\ x \in Words \cup {"user", "group"} -> "BEFORE_ARGS"
      [] c = "BEFORE_ARGS" /\ x = "(" -> "ARGS"
      [] c = "ARGS" /\ x = ")" -> "INITIAL"
      [] OTHER -> c

-----------------------------------------------------------------------------
(* The grammar.                                                            *)

Rule(lhs, rhs, action) == [lhs |-> lhs, rhs |-> rhs, action |-> action]

Grammar == <<
    Rule("$accept", <<"policy", "$end">>, "accept"),
    Rule("policy", <<"version">>, "first_value"),
    Rule("policy", <<"version", "semicolon", "entries">>, "add_third"),
    Rule("policy", <<"version", "semicolon", "entries", "semicolon">>, "add_third"),
    Rule("policy", <<"entries">>, "add_first"),
    Rule("policy", <<"entries", "semicolon">>, "add_first"),
    Rule("version", <<"NUMBER">>, "version"),
    Rule("entries", <<"entry">>, "new_list"),
    Rule("entries", <<"entries", "semicolon", "entry">>, "longer_list"),
    Rule("entry", <<"*", "=", "access">>, "entry_for_all"),
    Rule("entry", <<"expr", "=", "access">>, "entry"),
    Rule("entry", <<"expr">>, "entry_that_allows"),
    Rule("access", <<"ALLOW">>, "allow"),
    Rule("access", <<"DENY">>, "deny"),
    Rule("user", <<"NUMBER">>, "id"),
    Rule("user", <<"WILDCARD">>, "any_id"),
    Rule("user", <<"WORD">>, "user_name"),
    Rule("group", <<"NUMBER">>, "id"),
    Rule("group", <<"WILDCARD">>, "any_id"),
    Rule("group", <<"WORD">>, "group_name"),
    Rule("expr", <<"term">>, "first_value"),
    Rule("expr", <<"!", "expr">>, "not"),
    Rule("expr", <<"(", "expr", ")">>, "second_value"),
    Rule("expr", <<"expr", "|", "expr">>, "or"),
    Rule("expr", <<"expr", "&", "expr">>, "and"),
    Rule("term", <<"USER", "(", "user", ")">>, "user"),
    Rule("term", <<"USER", "(", "user", ":", "group", ")">>, "user_and_group"),
    Rule("term", <<"GROUP", "(", "group", ")">>, "group"),
    Rule("term", <<"ID", "(", ")">>, "action"),
    Rule("term", <<"ID", "(", "param", ")">>, "action_with_argument"),
    Rule("param", <<"WORD">>, "first_value"),
    Rule("param", <<"STRING">>, "first_value"),
    Rule("param", <<"WILDCARD">>, "first_value") >>

FORMAT_VERSION == 1

Nonterminals == {Grammar[r].lhs : r \in DOMAIN Grammar}
Symbols ==
    UNION {{Grammar[r].rhs[k] : k \in DOMAIN Grammar[r].rhs} : r \in DOMAIN Grammar}
Terminals == Symbols \ Nonterminals

ASSUME NullAssumption ==
    /\ NULL \notin Symbols
    /\ Token("$end", NULL) # NULL
    /\ \A c \in {"INITIAL", "BEFORE_ARGS", "ARGS"} : \A x \in Lexemes :
            TokenOf(c, x) # NULL
    /\ NULL \notin Lexemes \cup {Quoted[x] : x \in Strings}
    /\ \A a \in DOMAIN Actions :
       \A p \in Lexemes \cup {Quoted[x] : x \in Strings} \cup {NULL} :
            [type |-> "custom", action |-> a, param |-> p] # NULL

\* The rules with which an X may begin, after at most n others.
Begins[n \in 0 .. Len(Grammar)] ==
    LET Own(X) == {r \in DOMAIN Grammar : Grammar[r].lhs = X}
    IN  IF n = 0 THEN [X \in Symbols |-> Own(X)]
        ELSE LET before == Begins[n - 1]
             IN  [X \in Symbols |->
                    before[X] \cup UNION {Own(Grammar[r].rhs[1]) : r \in before[X]}]

Predicted == Begins[Cardinality(Nonterminals)]

\* An item <<r, k>> is rule r with a dot after k symbols.
AfterDot(i) ==
    LET rhs == Grammar[i[1]].rhs IN IF i[2] < Len(rhs) THEN rhs[i[2] + 1] ELSE NULL

\* A state of the parser, from the items that it begins with.
Closure(K) ==
    K \cup {<<r, 0>> : r \in UNION {Predicted[AfterDot(i)] : i \in
                                        {j \in K : AfterDot(j) # NULL}}}

\* The state before any symbol, and the state after symbol X.
StartState == Closure({<<1, 0>>})

Goto(I, X) == Closure({<<i[1], i[2] + 1>> : i \in {j \in I : AfterDot(j) = X}})

Push(s, sym, val) ==
    Append(s, [sym |-> sym, val |-> val, state |-> Goto(s[Len(s)].state, sym)])

Init ==
    /\ text \in Texts
    /\ condition = "INITIAL"
    /\ tokens = <<>>
    /\ look = NULL
    /\ stack = <<[sym |-> NULL, val |-> NULL, state |-> StartState]>>
    /\ cells = <<>>
    /\ link_list = <<>>
    /\ entries = 0
    /\ freed = <<>>
    /\ status = "parsing"
    /\ policy = NULL

-----------------------------------------------------------------------------
(* What the actions of the grammar make.                                   *)

\* da_parser_new_expr_identity.
Identity(uid, gid) == [type |-> "identity", uid |-> uid, gid |-> gid]

\* Mutant of Binary: every operator becomes the same one.
BinaryAnd(type, left, right) == [type |-> "and", expr |-> <<left, right>>]

\* da_parser_new_expr.
Binary(type, left, right) == [type |-> type, expr |-> <<left, right>>]

Not(x) == [type |-> "not", expr |-> <<x>>]

\* Mutant of Custom: an argument is missing whatever the action is.
CustomNeedsArg(name, param) ==
    IF name \in DOMAIN Actions /\ Actions[name] = 1 /\ param # NULL
    THEN [type |-> "custom", action |-> name, param |-> param]
    ELSE NULL

\* da_parser_new_expr_custom: the action has to exist and to have as many
\* arguments as it is given.
Custom(name, param) ==
    IF name \in DOMAIN Actions /\ (Actions[name] = 1 <=> param # NULL)
    THEN [type |-> "custom", action |-> name, param |-> param]
    ELSE NULL

\* da_parser_new_entry; a rule for everything has no expression.
Entry(x, access) == [expr |-> x, access |-> access]

\* da_system_uid and da_system_gid: an unsigned id becomes an int.
DaSystemUid(name) == IF Uid[name] = NULL THEN -1 ELSE ToInt(Uid[name])

DaSystemGid(name) == IF Gid[name] = NULL THEN -1 ELSE ToInt(Gid[name])

\* Mutant of IdOf: only -1 is taken for an unknown name.
IdOfMinusOne(id) == IF id = -1 THEN DA_INVALID ELSE id

\* The id of a name that was looked up; unknown if it is negative.
IdOf(id) == IF id < 0 THEN DA_INVALID ELSE id

\* The value of the left-hand side, from those of the right-hand side: the
\* actions that change nothing else.
Value(action, v) ==
    CASE action = "first_value" -> v[1]
      [] action = "second_value" -> v[2]
      [] action = "entry_for_all" -> Entry(NULL, v[3])
      [] action = "entry" -> Entry(v[1], v[3])
      [] action = "entry_that_allows" -> Entry(v[1], "ALLOW")
      [] action = "allow" -> "ALLOW"
      [] action = "deny" -> "DENY"
      [] action = "id" -> IF v[1] < 0 THEN DA_WILDCARD ELSE v[1]
      [] action = "any_id" -> DA_WILDCARD
      [] action = "user_name" -> IdOf(DaSystemUid(v[1]))
      [] action = "group_name" -> IdOf(DaSystemGid(v[1]))
      [] action = "not" -> Not(v[2])
      [] action = "or" -> Binary("or", v[1], v[3])
      [] action = "and" -> Binary("and", v[1], v[3])
      [] action = "user" -> Identity(v[3], DA_WILDCARD)
      [] action = "user_and_group" -> Identity(v[3], v[5])
      [] action = "group" -> Identity(DA_WILDCARD, v[3])
      [] action = "action" -> Custom(v[1], NULL)
      [] action = "action_with_argument" -> Custom(v[1], v[3])
      [] action = "version" -> v[1]

\* The action ends in YYERROR.
Yyerror(action, v) ==
    \/ action = "version" /\ v[1] # FORMAT_VERSION
    \/ action \in {"action", "action_with_argument"} /\ Value(action, v) = NULL

\* The last cell of the list that begins with cell c.
LastCell(cs, c) ==
    LET last[k \in DOMAIN cs] == IF cs[k].next = 0 THEN k ELSE last[cs[k].next]
    IN  last[c]

\* g_slist_concat.
Concat(cs, c, d) ==
    IF c = 0 THEN cs ELSE [cs EXCEPT ![LastCell(cs, c)].next = d]

\* What the cells from c on hold.
ListOf(cs, c) ==
    LET rest[k \in 0 .. Len(cs)] ==
            IF k = 0 THEN <<>> ELSE <<cs[k].data>> \o rest[cs[k].next]
    IN  rest[c]

-----------------------------------------------------------------------------
(* The parser.  It calls the scanner when its state does not settle what   *)
(* to do.                                                                  *)

State == stack[Len(stack)].state

\* The tokens that may be shifted, and the rules that are complete.
Shiftable == {AfterDot(i) : i \in State} \cap Terminals
Complete == {r \in DOMAIN Grammar : <<r, Len(Grammar[r].rhs)>> \in State}

\* The scanner gives the token of x.
Scan(x, token) ==
    /\ status = "parsing"
    /\ look = NULL
    /\ Shiftable # {}
    /\ look' = token
    /\ tokens' = Append(tokens,
                        [sym |-> token.sym, val |-> token.val, lexeme |-> x])
    /\ UNCHANGED <<text, stack, cells, link_list, entries, freed, status, policy>>

Yylex ==
    /\ Len(tokens) < text.max
    /\ \E x \in text.lexemes :
        /\ Scan(x, TokenOf(condition, x))
        /\ condition' = ConditionAfter(condition, x)

\* The text may end anywhere.  (Where the type char is signed, a byte above 127
\* is a negative token, which the parser takes for the end of the text.)
YylexEnd ==
    /\ Scan(NULL, Token("$end", NULL))
    /\ UNCHANGED condition

\* The token that was read goes onto the stack.
Shift ==
    /\ status = "parsing"
    /\ look # NULL
    /\ look.sym \in Shiftable
    /\ stack' = Push(stack, look.sym, look.val)
    /\ look' = NULL
    /\ UNCHANGED <<text, condition, tokens, cells, link_list, entries, freed,
                   status, policy>>

\* Rule r, which is complete, is reduced by, unless the token that follows can be
\* shifted.
Reducible(r) ==
    /\ status = "parsing"
    /\ Shiftable # {} => look # NULL /\ look.sym \notin Shiftable

\* The values of the right-hand side of rule r, on top of the stack, and the
\* stack without them.
Values(r) ==
    LET n == Len(Grammar[r].rhs)
    IN  [k \in 1 .. n |-> stack[Len(stack) - n + k].val]

Below(r) == SubSeq(stack, 1, Len(stack) - Len(Grammar[r].rhs))

\* A reduction whose action changes nothing but the stack.
Reduce(r) ==
    LET action == Grammar[r].action
    IN  /\ Reducible(r)
        /\ action \notin {"accept", "add_first", "add_third", "new_list",
                          "longer_list"}
        /\ ~Yyerror(action, Values(r))
        /\ stack' = Push(Below(r), Grammar[r].lhs, Value(action, Values(r)))
        /\ UNCHANGED <<text, condition, tokens, look, cells, link_list, entries,
                       freed, status, policy>>

\* da_parser_new_link, and for another entry g_slist_concat: the cells are
\* linked to each other as well as being in link_list.
ReduceList(r) ==
    LET action == Grammar[r].action
        v == Values(r)
        new == Len(cells) + 1
        longer == action = "longer_list"
    IN  /\ Reducible(r)
        /\ action \in {"new_list", "longer_list"}
        /\ cells' = Concat(Append(cells, [data |-> v[Len(v)], next |-> 0]),
                           IF longer THEN v[1] ELSE 0, new)
        /\ link_list' = <<new>> \o link_list
        /\ freed' = Append(freed, 0)
        /\ stack' = Push(Below(r), "entries", IF longer THEN v[1] ELSE new)
        /\ UNCHANGED <<text, condition, tokens, look, entries, status, policy>>

\* da_parser_add_entries.
ReduceAdd(r) ==
    LET action == Grammar[r].action
        v == Values(r)
        list == IF action = "add_first" THEN v[1] ELSE v[3]
    IN  /\ Reducible(r)
        /\ action \in {"add_first", "add_third"}
        /\ cells' = Concat(cells, entries, list)
        /\ entries' = IF entries = 0 THEN list ELSE entries
        /\ stack' = Push(Below(r), "policy", NULL)
        /\ UNCHANGED <<text, condition, tokens, look, link_list, freed, status,
                       policy>>

\* The end of the text has been shifted: YYACCEPT.
Accept ==
    /\ status = "parsing"
    /\ 1 \in Complete
    /\ status' = "accepted"
    /\ UNCHANGED <<text, condition, tokens, look, stack, cells, link_list, entries,
                   freed, policy>>

\* A syntax error, or YYERROR.  There is no error rule: the stack is abandoned.
ParseError ==
    /\ status = "parsing"
    /\ \/ look # NULL /\ look.sym \notin Shiftable /\ Complete = {}
       \/ \E r \in Complete : Reducible(r) /\ Yyerror(Grammar[r].action, Values(r))
    /\ status' = "failed"
    /\ UNCHANGED <<text, condition, tokens, look, stack, cells, link_list, entries,
                   freed, policy>>

\* Mutant of FreeLinks: g_slist_free, which frees a whole list, for each of the
\* cells.
FreeLinksWhole ==
    LET reaches[k \in 0 .. Len(cells)] ==
            IF k = 0 THEN {} ELSE {k} \cup reaches[cells[k].next]
    IN  freed' = [k \in DOMAIN freed |-> freed[k] +
            Cardinality({j \in DOMAIN link_list : k \in reaches[link_list[j]]})]

\* g_slist_free_1 for each cell of link_list.
FreeLinks ==
    freed' = [k \in DOMAIN freed |-> freed[k] +
        Cardinality({j \in DOMAIN link_list : link_list[j] = k})]

\* da_policy_new_full makes a policy of the result and deletes the parser.
DaPolicyNewFull ==
    /\ status = "accepted"
    /\ policy' = ListOf(cells, entries)
    /\ FreeLinks
    /\ status' = "deleted"
    /\ UNCHANGED <<text, condition, tokens, look, stack, cells, link_list, entries>>

\* da_parser_compile deletes the parser and returns NULL.
DaParserCompileFails ==
    /\ status = "failed"
    /\ FreeLinks
    /\ status' = "deleted"
    /\ UNCHANGED <<text, condition, tokens, look, stack, cells, link_list, entries,
                   policy>>

Step ==
    \/ Yylex
    \/ YylexEnd
    \/ Shift
    \/ \E r \in Complete : Reduce(r) \/ ReduceList(r) \/ ReduceAdd(r)
    \/ Accept
    \/ ParseError
    \/ DaPolicyNewFull
    \/ DaParserCompileFails

\* Nothing is left to do.
Done == status = "deleted" /\ UNCHANGED vars

Next == Step \/ Done

Spec == Init /\ [][Next]_vars

-----------------------------------------------------------------------------

\* Types.  Numbers are of type int, a list is one of the cells or empty, and the
\* state of the parser never leaves a choice between two rules.
TypeOK ==
    /\ text \in Texts
    /\ condition \in {"INITIAL", "BEFORE_ARGS", "ARGS"}
    /\ status \in {"parsing", "accepted", "failed", "deleted"}
    /\ \A k \in DOMAIN tokens :
        tokens[k].sym = "NUMBER" =>
            tokens[k].val \in -2^(IntBits - 1) .. 2^(IntBits - 1) - 1
    /\ entries \in 0 .. Len(cells)
    /\ \A k \in DOMAIN cells : cells[k].next \in 0 .. Len(cells)
    /\ Cardinality(Complete) <= 1

\* Cells that are linked to each other while they are also in link_list are
\* freed once each, whether the parse succeeded or was abandoned half-way.
LinksFreedOnce ==
    status = "deleted" => \A k \in DOMAIN cells : freed[k] = 1

=============================================================================
