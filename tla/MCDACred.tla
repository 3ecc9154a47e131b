------------------------------ MODULE MCDACred ------------------------------
(***************************************************************************)
(* Instances of DACred for TLC: ids of two bits, numbers of four, and all  *)
(* files of a few lines.                                                   *)
(***************************************************************************)
EXTENDS DACred

\* Decimal, octal and hexadecimal numbers.
Dec(d) == [neg |-> FALSE, hex |-> FALSE, digits |-> d]
Hex(d) == [neg |-> FALSE, hex |-> TRUE, digits |-> d]
Minus(w) == [w EXCEPT !.neg = TRUE]
Junk == Dec(<<1, NoDigit>>)

Ids(w) == <<Dec(<<0>>), w, Dec(<<0>>), Dec(<<0>>)>>
L(k, ws) == [key |-> k, words |-> ws]

MCSpellings == {"Uid", "UID", "Ui", "Gid", "Groups", "CapEff", "Name"}
MCKeyOf == [s \in MCSpellings |->
    CASE s = "UID" -> "Uid"
      [] s \in {"Ui", "Name"} -> NULL
      [] OTHER -> s]

\* The lines of a good file; the id of the user may be written in many ways.
Good == {L("Uid", Ids(Dec(<<1>>))), L("Gid", Ids(Dec(<<3>>))),
         L("Groups", <<Dec(<<1>>), Junk, Dec(<<2>>)>>), L("CapEff", <<Dec(<<0, 15>>)>>)}

\* Lines that are malformed, empty, too long, or have other keys.
Odd == {L("UID", Ids(Dec(<<4>>))), L("Ui", Ids(Dec(<<2>>))), L("Gid", <<Dec(<<1>>)>>),
        L("Groups", <<>>), L("Groups", <<Dec(<<3>>)>>), L("Name", <<Junk>>),
        L("CapEff", <<Dec(<<1>>), Dec(<<1>>)>>), L(NULL, Ids(Dec(<<1>>)))}

\* Words for the id of the user: 2^2 + 1, 2^4, octal 2 and 9, 0x3, 0xf, "", -1,
\* -15, an octal number with a wrong digit, and one that is not a number.
Numbers == {Dec(<<5>>), Dec(<<1, 6>>), Dec(<<0, 2>>), Dec(<<0, 1, 1>>), Hex(<<3>>),
            Hex(<<15>>), Dec(<<>>), Minus(Dec(<<1>>)), Minus(Dec(<<1, 5>>)),
            Dec(<<0, 9>>), Junk}

\* Every file of up to four lines, every number, and every order of the four
\* keys with a line before, between or behind them.
SeqsUpTo(S, n) == UNION {[1 .. m -> S] : m \in 0 .. n}
MCFiles ==
    SeqsUpTo(Good \cup Odd, 4)
    \cup {<<L("Uid", Ids(w)), L("Gid", Ids(Dec(<<3>>)))>> : w \in Numbers}
    \cup {f \in [1 .. 5 -> Good \cup {L("UID", Ids(Dec(<<4>>))), L("Groups", <<Dec(<<3>>)>>)}] :
            Good \subseteq {f[i] : i \in 1 .. 5}}

=============================================================================
