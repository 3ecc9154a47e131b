----------------------------- MODULE MCDAPolicy -----------------------------
(* Constants of DAPolicy for TLC. *)
EXTENDS DAPolicy, TLC

User == Identity(1, DA_WILDCARD)
Group == Identity(DA_WILDCARD, 2)
TwoAtoms == {User, Group}
NoGlobs == [p \in {} |-> {}]

Allow(x) == [expr |-> x, access |-> "ALLOW"]
Deny(x) == [expr |-> x, access |-> "DENY"]

\* No rules; "*=deny" before and after another rule; the same rule with its
\* operands swapped, and with another access.
SomeSpecs ==
    {<<>>,
     <<Deny(NULL)>>,
     <<Deny(NULL), Allow(Or(User, Group))>>,
     <<Deny(NULL), Allow(Or(Group, User))>>,
     <<Allow(And(User, Group)), Deny(Not(User))>>,
     <<Deny(NULL), Deny(Or(User, Group))>>}

\* Root; a user whose effective group is 2, and one who is in no group that
\* a rule names.
SomeCreds ==
    {[euid |-> 0, egid |-> 0, groups |-> {}],
     [euid |-> 1, egid |-> 2, groups |-> {}],
     [euid |-> 2, egid |-> 1, groups |-> {}]}

PolicySymmetry == Permutations(Threads) \cup Permutations(Policies)

=============================================================================
