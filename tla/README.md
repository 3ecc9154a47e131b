# libdbusaccess in TLA+

libdbusaccess lets a D-Bus service decide who may call what. It finds out the
credentials of the caller (the process behind a bus name) and applies an access
policy to them. This directory holds TLA+ models of the library, the TLC
configurations that check them on small instances, and proofs, checked by
TLAPS, that the safety properties hold for every instance.

Paths are relative to the root of the repository. Names of actions are the
names of the functions: `da_peer_get` is `DaPeerGet...`.

## 1. The system

### Components

| component | files | state | operations |
|---|---|---|---|
| peer cache | `src/dbusaccess_peer.c` | per bus: a connection and a table from names to peers; per peer: count, credentials, timer, name watch | `da_peer_get`, `ref`, `unref`, `flush`; callbacks `da_peer_timeout`, `da_peer_vanished` |
| process snapshots | `src/dbusaccess_proc.c` | per snapshot: count, credentials | `da_proc_new`, `ref`, `unref` |
| shared self | `src/dbusaccess_self.c` | one shared snapshot of the process itself, the id of its timeout | `da_self_new`, `da_self_new_shared`, `ref`, `unref`, `flush`; the timeout and its destroy notification |
| policy expressions | `src/dbusaccess_policy.c` | immutable trees | build, match, equal, free |
| policies | `src/dbusaccess_policy.c` | count, list of rules | `da_policy_new_full`, `ref`, `unref`, `check`, `equal` |
| policy parser | `src/dbusaccess_parser.c`, `dbusaccess_policy1.y`, `.l` | one parse: string buffer, lists of what was allocated, result | `da_parser_compile`, `get_result`, `delete`; grammar actions |
| credentials parser | `src/dbusaccess_cred.c` | one scan of `/proc/<pid>/status` | `da_cred_parse`, `da_cred_priv_cleanup` |
| system names | `src/dbusaccess_system.c` | none | `da_system_uid`, `da_system_gid` |
| dbus-creds | `tools/dbus-creds/dbus-creds.c` | one run of `main`: the peer, the exit status | get a peer, print it, look it up again in an assertion, flush it |
| logging, build, packaging, tests | | none | |

### How they interact

* The service calls the peer cache from the thread of the GLib main loop.
  `da_peer_get` makes one blocking call to the bus daemon
  (`GetConnectionUnixProcessID`), then reads `/proc/<pid>/status` and hands it to
  the credentials parser. The main loop stands still meanwhile; the machine does
  not: processes exit, pids are reused, names change hands.
* GLib calls back into the cache: a timeout 30 seconds after the last
  `da_peer_get` of a name, and a name watch when the name vanishes. Both hold a
  plain pointer to the peer.
* The shared self hands one reference to a GLib source, which drops it when it
  is destroyed: by its own callback's return value or by `da_self_flush`.
* `da_peer_ref/unref`, `da_proc_ref/unref` and `da_policy_ref/unref` use atomic
  counters and may be called by any thread.
* `da_policy_new_full` runs the parser and translates its trees into expressions;
  `da_policy_check` applies them to credentials from any of the sources above.

### What is hard, and what correctness means

| component | hard behaviour | correct means |
|---|---|---|
| peer cache | the world moves between the answer with the pid, the reading of `/proc` and the name watch; callbacks on raw pointers; five paths that drop an entry; borrowed pointers without a reference | no reference leaks or is dropped twice; callbacks never meet freed memory or another peer's entry; a unique name never gets another process's credentials; connections are open exactly while needed; everything drains; stale entries go |
| snapshots, shared self | a reference owned by an event source; failing reads; flush between timeouts; other threads' references | the same accounting; the assertions of the code; flush forces a new instance; staleness ends |
| expressions | commutative equality at each level, special ids, absent credentials | equality is what it seems and is sound for decisions; more groups and wider ids never lose a positive match |
| policies | checks, references and compilations of several threads interleave | counters exact; a check sees one policy from start to end; the last match decides |
| policy parser | precedences left to the generator's default; numbers of bounded width; abandoned stacks on errors | the tree is the one the text means; everything allocated is freed once |
| credentials parser | malformed lines, early stop, duplicate keys, widths of numbers, an array that is allocated before its use is known | agrees with a declarative reading of the file; never publishes the zero of a field that was not read, which is root; ids are exact or refused; the array is large enough and freed |
| system names | an unsigned id becomes an int | an id that does not fit is nobody's, not everybody's |
| dbus-creds | no main loop and no reference, while the world goes on | the borrowed pointer stays good; every way out leaves the library empty; it ends |

`PROJECT.json` lists each hazard at its line, with the property that watches it
or the reason why none does.

## 2. The modules

```
DBus              processes, pids, bus names (the outside world)
 +- PeerCache     what the peer cache promises
 +- DAPeer        the peer cache, implements PeerCache   MCDAPeer      DAPeerProofs
     +- DbusCreds the dbus-creds tool as its client      MCDbusCreds   DbusCredsProofs
DACred            reading /proc/<pid>/status             MCDACred      DACredProofs
DASelf            snapshots and the shared self                        DASelfProofs
DAPolicyExpr      what expressions match, equality       MCDAPolicyExpr
 |                                          DAPolicyExprProofs, MCDAPolicyExprProofs
 +- DAPolicy      policies shared by threads             MCDAPolicy    DAPolicyProofs
DAParser          the compiler of policy strings         MCDAParser    DAParserProofs
```

`MC...` modules hold the values of constants for TLC (`MCDAParser` also what the
parser is compared with), `...Proofs` modules the
theorems. An operator whose comment begins with "Mutant of" is a wrong version
of the definition that follows it. No behaviour of a specification uses it; it is
what the properties were tested against: with it in place of the original, TLC
finds the property violated.

### DBus and DAPeer

`DBus` is not code of the library. A member of `Procs` is one incarnation of a
process. Processes start and exit once; two of them may share a pid, but not
while both are alive. The daemon of each bus has an owner for each name: a
process, nobody, or, for a unique name (`:1.42`) whose connection is gone,
nobody ever again. A dead process owns its names until the daemon notices.
A process and its credentials are identified, so "the cached credentials are
those of the owner" is an equality.

In `DAPeer` a peer is its address, so that memory can be freed and reused while
something still points at it.

| variable | code |
|---|---|
| `connection[b]` | `bus->connection` and `bus->peers` are not NULL |
| `peers[b][n]` | the entry of `n` in the hash table |
| `refs[o]`, `data[o]` | `ref_count`; what is stored at the address |
| `timer[o]`, `watch[o]` | the GLib sources whose argument is `o`; they live outside the object and stay behind if the code does not remove them |
| `call` | where the blocking `da_peer_get` is, with its local variables |
| `borrowed` | peers that `da_peer_get` returned to the callback now running |
| `held[o]` | references of the application, all threads together |

`da_peer_get` is `DaPeerGetHit` (the name is cached), or `DaPeerGetMiss` (the call
to the daemon is sent), then `DaPeerGetReply` or `DaPeerGetError`, then
`DaPeerFillCred` or `DaPeerFillFail` (the status file is there and parses, or
not). Between these steps only other threads (`DaPeerRef`, `DaPeerUnref`) and the
world (`World`) take steps; callbacks and other calls of the interface wait
until `call` is idle. `da_peer_remove` and the functions it calls are one step,
as they run without interruption.

Abstractions. One name watch per peer with four states stands for the two
messages of GLib's watcher; what it reports before its first answer is
nothing, as in GLib. `da_peer_get` with a NULL name or a bus that cannot be
connected to changes nothing and is not an action. A bus daemon that dies is
left out: GLib's connections exit the process in that case. Whether parsing
fails is free: `DaPeerFillFail` may happen at any time in place of
`DaPeerFillCred`. What the status file contains is the credentials of the
process that has the pid at that moment; a read is atomic. How it is parsed is in
`DACred`.

### PeerCache

What a service may rely on, without objects, references, timers, watches and
connections: for each bus and name the credentials of a process, or none. They
enter only when a look-up that was answered with the pid of the owner finds the
process in `/proc`; they leave at any time except while a look-up is blocked; they
do not change in between. `DAPeer` implements it with the refinement mapping

    cache[b][n]  <-  data[peers[b][n]].cred, NULL if the table has no entry
    lookup       <-  the bus, the name and the pid of call

(`Cache`, `ImplementsCache`). References, timers, the answers of the name watch and
the application's calls that do not miss are stuttering steps; a flush, a timeout and
a vanished name are all `Evict`. An eviction that takes the wrong entry, memory that
is freed under the table, or a callback that runs while `da_peer_get` is blocked,
would be a step that the abstract cache does not have.

### DACred

A behaviour is the life of one object (`DAProcPriv`, or the peer that `da_peer_get`
fills): the scan of the file line by line, and then the object's publication and
finalization, or its rejection by either caller.

| variable | code |
|---|---|
| `file`, `pos` | `data`, `ptr` |
| `seen`, `ok` | `flags`: the keys that were met, and `PROC_PARSE_UID_OK`, `PROC_PARSE_GID_OK` |
| `ids`, `flags`, `groups`, `caps` | the fields of `DACred` |
| `array` | how many elements `priv->groups` has room for |
| `caller`, `pc` | who allocated the object, and what has become of it |

A line is a key (what stands before the colon, compared without regard to case) and
words; a word is a sign, a prefix `0x` and digits, from which `Strtoull` computes as
`g_ascii_strtoull` does: base 0 or 16, saturation at 2^64-1, a sign modulo 2^64. The
widths are the constants `Max32` and `Max64`.

### DASelf

`source` is the set of running timeouts with their arguments, `self_shared` and
`self_shared_timeout_id` are the static variables, `refs` and `snapshot` the
objects, `cred` the current credentials of the process (a version number),
`flushed` what they were at the last flush (only the property `FlushForcesNew`
looks at it). Reading one's own status file may fail at any time
(`DaSelfNewSharedFail`), although the assertions of the code exclude it; `disturbed`
remembers that it happened and that timeouts from then are still around, so that
the properties can say what holds before, meanwhile and afterwards. A timeout may
fire at any time after it was started, in any order: the interval is read from the
environment at each start and may be 0.

### DbusCreds

One run of `main` of `dbus-creds`, on top of `DAPeer`, whose actions it calls: `Main` is
the tool, `Elsewhere` the world of `DAPeer` (processes, names, time, and the answers of
the bus). The tool has no main loop, so `DaPeerTimeout` and `DaPeerVanished` do not occur,
and no threads. `pc` is where `main` is, `peer` the pointer that `app_run` has, `out`
whose ids and whose groups were printed, `ret` the exit status, and `debug` whether
assertions are compiled in, in which case there is a second `da_peer_get`.

### DAPolicyExpr and DAPolicy

The code dispatches `match` and `equal` through function pointers in each node.
Here they are the recursive functions `Match` and `Equal` over `Exprs`, all trees
with at most `Depth` nested operators. A glob pattern is represented by the
set of arguments it matches (`Globs`). `Match` and `Equal` are recursive functions of
one expression whose values are functions (of the call, and of the other
expression), because the prover cannot handle RECURSIVE operators.

`DAPolicy` lets the threads of an application compile, share, drop and check
policies. A thread keeps a policy alive with a reference of its own
(`held[t]`) and does one thing at a time, so it does not drop the policy that it
is checking; the other threads may. `da_policy_check` is `CheckStart`, one
`CheckRule` per rule and `CheckReturn`. `da_policy_equal` has no effect and is an
operator. Parsing is outside: `Specs` is the set of rule lists that policy strings
compile to.

### DAParser

A behaviour is one call of `da_policy_new_full`: the text comes lexeme by lexeme,
any of the set that the text is made of or its end, so that the behaviours are
the parses of all texts up to a length.

| variable | code |
|---|---|
| `condition` | start condition of the scanner; `QUOTE` and `SQUOTE` are inside a lexeme |
| `look` | `yychar`, the token read and not yet used |
| `stack` | the parser's stack of states, with the symbols and semantic values |
| `cells` | list cells: the address is the index, `next = 0` is NULL |
| `link_list`, `entries` | fields of `DAParser` |
| `freed` | how often `g_slist_free_1` was called for each cell |
| `status`, `policy` | where the call is, and its result |
| `text`, `tokens` | the bound on the text, and the text so far (only properties look at it) |

The grammar is a constant, `Grammar`, rule by rule as in the `.y` file, and the
semantic actions are named: `Value` for those that only compute, `ReduceList`
and `ReduceAdd` for those that handle lists, `Yyerror` for those that fail.
What bison generates from a grammar is modelled as a machine: a state is a set of
items, a token that can be shifted is shifted, and otherwise the rule that is
complete is reduced by, whatever the token, which is read only if the state
can shift something. That is how the generated tables behave for this grammar:
the conflicts of `!`, `|` and `&` are shift/reduce conflicts between things that have
no precedence to compare, which bison resolves as shifts, and all reductions
are default reductions. There are no reduce/reduce conflicts (the last
conjunct of `TypeOK`). A token that is read too early does no harm to the
scanner, because start conditions depend on tokens only, not on the parser.

Abstractions. Lexemes stand for runs of characters, so adjacent ones are
understood to be separated by white space wherever the scanner would take the
longer match. A quotation that is not closed is left out. Numbers are below 2^64,
stored in an int of `IntBits` bits. A word that is a number in octal with a
wrong digit is a lexeme that means `NULL`. `alloc_list` is left out, and with it the
life of strings, expressions and entries: each is prepended to it once, where it is
allocated, and linked to nothing else. The list cells are modelled, because
`g_slist_concat` links them to each other while `link_list` owns them. Bison's limit on
the depth of the stack (a syntax error for some thousand nested parentheses) is
left out, as is running out of memory. The token `;` is spelt `"semicolon"`, and the
names of actions have underscores: the prover's input has no room for a semicolon or a
space in a string. The databases of users and groups are
constant tables, `Uid` and `Gid`, of unsigned ids; `DaSystemUid` and `DaSystemGid`
turn these into ints, and `IdOf` negative ints into `DA_INVALID`.

`ParserAssumption` and `NullAssumption` say what the representation needs. No lexeme
is of two kinds (the rules of the scanner that could match the same characters are
told apart by flex: the longest match, then the first rule; a word that is a keyword
or a numeral is listed as that). A numeral has a value, or `NULL` if `strtoul` does not
take all its digits. Ids of the databases fit into an unsigned int. `NULL` is none of
the symbols and none of the tokens, names, strings and expressions: in the code it is a
null pointer, and those are none.

## 3. The runs

Every run finishes in less than two minutes. Deadlock is checked everywhere except
in `policy_expr`, which only enumerates pairs of expressions, and in `cred` and
`dbus_creds`, where the object is freed and the tool has ended.

| run | specification | states | shows |
|---|---|---|---|
| `peer_safety` | `Spec` | 419k | the safety of the cache |
| `peer_live` | `FairSpec` | 37k | it drains; stale entries of unique names go |
| `peer_stale` | `FairSpec` | | **violated**: stale entries of a well-known name may stay |
| `peer_bus` | `Spec` | | **violated**: the public field `bus` |
| `self_shared` | `FairSpec` | 93k | references, lease, flush, assertions and liveness, with failing reads |
| `self_assert` | `Spec` | | **violated**: the assertion in `da_self_new_shared`, with failing reads |
| `policy_expr` | `Spec` | 416k | equality, matching, and what may never lose a match |
| `policy_check` | `Spec` | 82k | threads that share policies |
| `parser` | `Spec` | 619k | what compiles, to what, and who frees it |
| `parser_number` | `Spec` | | **violated**: numbers that do not fit into an int |
| `cred` | `Spec` | 277k | what is taken from a status file, and the array of groups |
| `dbus_creds` | `ToolFairSpec` | 93k | the tool is a correct client of the cache, and ends |

### peer_safety

One bus with a unique and a well-known name, three processes of which two share
a pid, two addresses, one reference of the application per peer, a timeout
of one tick. The two kinds of names are enough for every rule of the daemon;
two processes with one pid are what pid reuse needs, and a third one lets a
name pass to a process with another pid meanwhile; two addresses are two entries
at once, or one in the table and an evicted one that another thread still holds.
Buses only share the addresses, so a second one would add nothing that a second
name does not (the proofs are for any number).

* `RefsAccounted`: the count of each object is the number of those who refer to it.
* `CallbacksMatchTable`: sources exist for exactly the peers that the table or the
  running `da_peer_get` refers to, and for each of these.
* `ConnectedIffUsed`: connections are open exactly while they are needed.
* `UniqueNameFresh`: the credentials cached for a unique name are those of its
  owner while the owner lives. The argument is subtle: if the pid was reused
  between the daemon's answer and the reading of `/proc`, the owner is dead, and a
  unique name is never given away again.
* `PointersUsable`: a pointer is good as long as the documentation says.
* `SnapshotsImmutable`: entries are only evicted, and published peers never change.
* `ImplementsCache`: the table behaves as `PeerCache`.

### peer_live and peer_stale

`Drains`: if from some point on the application asks for no peer, eventually
all connections are closed and, by `ConnectedIffUsed`, all tables are empty.
`StaleEvicted`: an entry whose credentials are not those of the owner of its
name does not stay. The application may ask for it again and again, which renews
its timer; so it has to be the name watch that removes it. Two unique names and
two processes with one pid contain the bad case, a peer made from the pid of
a process that died, whose pid was reused before `/proc` was read.

For a well-known name the same property fails (`peer_stale`). The trace:
`da_peer_get` is answered with the pid of p1; p2 takes the name over; the name
watch, requested after the answer, learns that the name has an owner, and
has nothing to report. p1's credentials stay in the table under a name that is
p2's; a `da_peer_get` every second keeps the timer from running down.

### self_shared and self_assert

Three addresses and three sources: a failing call leaves a source behind, so two
stray ones and a current one can run at once. (`self_assert` needs one address and two
sources only.) `InstancesAccounted`, `SharedLeased` and
`FlushForcesNew` hold whatever fails. The assertions at lines 59, 60 and 87 of
`dbusaccess_self.c` hold, and only its own timeout or a flush forgets the shared
instance, until a call fails and again when the timeouts from then are gone
(`AssertsUntilFailure`, `OnlyOwnTimeoutForgets`): the confusion does not outlast its
cause. The shared instance is forgotten even if it is asked for all the time (a hit
does not extend the lease, unlike in the peer cache: `StaleForgotten`), and everything
is given up when nobody asks (`InstancesDrain`). After a failing read the assertion at
line 87 is violated by the next call (`self_assert`).

### cred

All files of up to four lines from a set that has each key well-formed, malformed,
repeated and in other case, an unknown key and a line without a key; all files of five
lines that have the four keys and one of them again, in every order, which are those
in which the scan stops early; and the id of the user written in eleven ways: at and above
the largest id, octal, hexadecimal, with a sign, with wrong digits. Both callers. Ids
have two bits and numbers four (`Max32`, `Max64`), which keeps the words short.

* `ReadsWhole`: the loop with its flags and its early stop has the outcome of a reading
  of the whole file that takes the first line of each key. The object starts with
  zeros, and euid 0 is root, to which `da_policy_check` allows everything: nothing
  may be published that was not read.
* `GroupsFit`: `groups[ngroups++]` stays within the array.
* `IdsExact`: an id that the kernel wrote is published as the same number or refused.
* `GroupsOwned`: the array lives as long as the object. The failure path of
  `da_proc_new` (`dbusaccess_proc.c:69`) is excepted by name: it frees the object
  without `da_cred_priv_cleanup`, so a file with groups but no valid id leaks them.
  No document speaks of it, and a file of the kernel does not look like that.

### dbus_creds

One bus (the options choose one), a unique and a well-known name, three processes of
which two share a pid, two addresses: the second one is there for a second look-up
that would build another peer. `AssertionHolds` is the `GASSERT` of line 59. It holds
although the name may change hands and the timer run down between the two look-ups,
because nothing dispatches the callbacks. `PeerUsable`: the pointer has no reference,
and both halves of the output are about the same process. `LeavesNothing`: whichever way
`main` returns, no object, source, name watch or connection is left. `Terminates`.

### policy_expr and policy_check

Five atoms, among them the special ids: a user with a group, a group, `user(*)`, a
group whose name the system does not know, and an action with a pattern. Trees of two
levels of operators over two of the atoms at a time: the smallest in which
commutativity has to be applied at two levels, and operands of one pair can be equal
crosswise. `EqualCanonical` compares `Equal` with equality of trees whose operands are
sets; `EqualSound` says that equal expressions match the same calls. `MatchMonotone` is
about privilege: in an expression without `!`, a match is not lost when the caller
gets more groups or becomes known, nor when a rule gets wider. An unknown name
(`DA_INVALID`) is below every id, and the wildcard above; both are negative numbers,
and callers without credentials match one and not the other.

`policy_check` has two threads, two addresses and six policies, among them a
policy and its prefix, the same policy with operands swapped, and with another
access. `CheckedPolicyAlive` and `ChecksDecide` are about checks during which
another thread drops, frees and compiles policies at the same addresses;
`RefsCounted` about the counter; `EqualPoliciesAgree` says what
`da_policy_equal` is good for: equal policies decide alike.

### parser and parser_number

`MCDAParser` says what a text means without a machine: it looks at the text as a
whole, splits it at semicolons, and finds operators by counting parentheses.

It does not look at the parser's tokens either: what a lexeme means follows from where
it stands (`Meant`: a keyword or a name of an action is a word when it is between the
parentheses of `user`, `group` or an action), without the start conditions of the scanner.

* `AcceptsPolicies`: exactly the texts of the grammar whose actions exist and have
  the right number of arguments, and whose version is 1, compile. Among the
  texts are all short ones with a mistake anywhere. An LALR parser that settles
  its conflicts in a fixed way may reject texts of its grammar; this one does not.
  Most refusals come before the end of the text is read: a wrong version at the
  `;`, a wrong action at its `)`, a syntax error at the first token that does not
  fit. For those the property says that no text of the grammar begins with what was
  read (`BeginsPolicy`): none of the ways in which a term, an entry and the
  parentheses around them may end makes it one. Conversely, as long as the parser
  asks for more, what was read is such a beginning, or has a wrong action in it that will
  be refused.
* `CompilesText`: a name that has no id, or one that is no int, stands for nobody; a
  policy has the rules of the text in their order, and every
  operator extends as far to the right as it can: `!a&b` is `!(a&b)`, and `a&b|c`
  is `a&(b|c)`. No document gives precedences, so this is stated as what the code
  does. A reader who writes a policy with mixed operators should use parentheses.
* `UnmixedIsUsual`: as long as operators are not mixed without parentheses, the
  expression is equivalent, for all values of its terms, to the one with the usual
  precedences.
* `LinksFreedOnce`: see the proofs.

The texts: with 11 lexemes, expressions of two terms with any parentheses and
negations that fit, and three terms; with 11, three rules with a version and
a semicolon at the end; with 6, everything that may be between the parentheses of
`user`, `group` and an action, and every sequence of any lexemes. Longer texts repeat
states of the parser in these combinations.

`parser_number` has ints of four bits, and 8 as the number that does not fit.

### Fairness

`FairSpec` of `DAPeer` assumes that the daemon and GLib's watcher answer, that
`/proc` can be read (or fails), that the daemon notices the death of an owner,
that time passes (all weak fairness), and that the main loop gets to every source
that is due: strong fairness of `DaPeerTimeout` and `DaPeerVanished`, because
a `da_peer_get` that blocks disables them for a while, and GLib dispatches in one
iteration all the sources of a priority that are ready. Nothing is assumed
of the application or of processes. `FairSpec` of `DASelf` assumes weak
fairness of each timeout: it fires unless it is removed. `ToolFairSpec` of `DbusCreds`
assumes weak fairness of `Main` as a whole: the tool is scheduled, a call to the daemon
is answered or times out (GLib's default is 25 seconds), `/proc` can be read or not.
Nothing is assumed of the world.

### Bounds

`Texts` (how long a text may be, and of what lexemes), `IntBits` (the width of int),
`MaxHeld` (references of the application per object; 0 for the tool, which has none),
`MaxCred` (changes of credentials), `Files` (the lines of status files), `Depth` (nested operators) and the sizes of the sets of
addresses, sources, processes, names, threads are the only bounds. Addresses
and sources that are exhausted disable allocation, which stands for a state in
which nothing is allocated; the code does not survive out-of-memory.

## 4. The proofs

`tlapm` checks each `...Proofs` module without any step left out. The theorems
are for all values of the constants that satisfy the assumptions in the modules
(`BusAssumption`, `PeerAssumption`, `SelfAssumption`, `PolicyAssumption` and so on),
which say little more than that special values differ from ordinary ones.

* `DAPeerProofs`. None of the properties is inductive. `PeerInv` adds to
  `RefsAccounted` and `CallbacksMatchTable` what an entry of the table looks like
  (`data` records the bus and name under which it is filed, which is why removing
  by name removes the right one), when an address is free, and what
  `da_peer_get` knows while it waits. Most of the work is in `RemoveInv`, the lemma
  about `da_peer_remove` that flush, timeout and watch share. `UniqueNameFresh`
  needs a second invariant: while the pid is used, its process was the owner of
  the unique name, and either still is or the name is retired, together with the
  fact that live processes have different pids. `SnapshotsImmutable` is an
  action property proved from `PeerInv`, one lemma per action. `PeerImplementsCache` is
  the refinement: the initial states map to the initial state of `PeerCache`, and each
  action to one of its actions or to a stutter, for which `PeerInv` says that an entry
  that is removed is filed under its own name and that no other one is touched.
* `DASelfProofs`. `SelfInv` has the accounting: each address is the argument of at most
  one source, and `self_shared` is the argument of some source. The assertions
  need a second invariant: while nothing is disturbed there is at most one source, and it
  is the current one, with the shared instance as its argument.
* `DACredProofs`. `CredInv` says of the prefix of the file that was scanned what
  `ReadsWhole` says of the file: the flags are the keys that occur in it, and each field
  is that of the first line of its key. When the loop stops early all keys have
  occurred, so that the first lines of the prefix are those of the file. `GroupsFit` and
  the types need that the loop over the words of a line, a recursive function, adds
  at most one group per word, for which the array has room, and that the line is taken
  only once, or it would be added to an array made for another line.
* `DbusCredsProofs`. `ToolIsClient` shows that every step of the tool is a step of `DAPeer` or
  leaves it alone, so that the theorems about the cache hold for the tool.
  `ToolInv` adds what the tool knows at each `pc`: the entry of its name is its peer,
  nobody else refers to anything, and before and after there is no entry at all.
  `ToolTypeOK` is proved (`ToolTypeCorrect`) and is in no run.
* `DAPolicyProofs`. `RefsCounted` is about the cardinality of the set of
  threads with a reference; `CheckedPolicyAlive` follows from it. For `ChecksDecide`
  the invariant says that in the middle of a check the result is that of the
  rules seen so far, and a lemma says how `LastMatch` grows with one rule.
  `UserGroupIsConjunction` is the comment of `dbusaccess_policy.h` about
  `user(uid:gid)`.
  `EqualPoliciesAgree` follows from `ExprEqualIsSound`, rule by rule.
* `DAPolicyExprProofs`. What `Match` and `Equal` compute for expressions of any depth.
  `ExprEqualIsCanonical`: `da_policy_expr_equal` is equality of the trees in which the
  operands of `&` and `|` are sets. `ExprEqualIsSound`: equal expressions match the same
  calls. `ExprMatchIsMonotone`: without `!`, more groups and wider ids lose no match. The
  recursive functions are first shown to exist (a function that is defined by recursion is
  a CHOOSE), by building those for one more level from those for one less; the
  properties then go from the operands to an expression by `WFMin`: if one fails, it
  fails first at some depth. `MCDAPolicyExprProofs` carries the three over to the
  properties of the run, `EqualCanonical`, `EqualSound` and `MatchMonotone`.
* `DAParserProofs`, for texts of any length and any names, numbers and actions.
  1. Memory. `OwnershipInv` says that `link_list` is the sequence of all cells, last one
     first, at every step of a parse, so that wherever it ends, going through it frees
     each once (`LinksFreedOnce`). What has to be shown of `g_slist_concat` is that it
     changes links and not cells.
  2. The stack. `StackOK` says that each item of each state is explained by the stack:
     what is to the left of its dot is what lies on top, and the rule begins at a
     place where one may begin (`Before`). So when a rule is complete, its right-hand
     side is on the stack, and the state below expects its left-hand side. That two
     rules never are complete at once follows from it and from the grammar.
  3. The list. `ListInv` says that the cells form one chain, without a cycle, and that the
     only `entries` on the stack, or `parser->entries`, is its beginning. Therefore
     `LastCell` ends, each entry is appended at the end, and the policy has all of them in
     their order (`ParserPolicyComplete`).
  4. Types. `TypeOK` follows from these and `TokensInv`. `ValuesInv`: each value on the
     stack is of the type of its symbol, which in the code is the member of a union that
     nothing checks; so the rules of a policy are well formed, which
     `da_policy_check` and `da_policy_equal` take for granted (`ParserPolicyWellFormed`).
  5. Meaning. A `Reading` of a text is an element of the least set that has its tokens
     and is closed under the rules of the grammar and their actions. `ReadInv` says that
     the text up to the next token can be cut into pieces, of which each can be read as
     the symbol and value on the stack; `EndInv`, that the text ends where the parser
     says. Hence `ParserPolicyIsReading`: a policy that is returned is a
     reading of all tokens of the text. `ParserReadingsTyped` shows that this says
     something: closed sets exist, and the least one has only typed parts of the text.
  6. Operators. The grammar is ambiguous, and bison resolves its conflicts by shifting.
     A `RightReading` is a reading in which what stands to the left of `&` or `|` is a term
     or is in parentheses: all that can stand to the right of an operator, or after `!`,
     does. Where an expression with an operator is complete, another operator can be
     shifted (`OperatorsShift`), so it is not reduced when one follows. With that, `ReadInv`
     holds of right readings, and a policy that is returned is one
     (`ParserOperatorsExtendRight`). That a text has no second one is proved of the
     grammar alone: from the last token back to the first, from each place begins one
     operand, and of two expressions that begin there one goes on with an operator where
     the other one ends (`FirmEverywhere`); entries and lists are told apart by `=` and
     `;`, and the rules for the policy by how it begins and ends (`OnePolicy`).
  7. Refusals. `RefusalInv` says of every text that has a reading and begins with the
     tokens read so far: the stack, followed by the rest of the text, can still be read as
     a policy, by rules that are all still to be reduced by (`Late`). A shift keeps
     this (`ShiftLate`), and so does a reduction where the next token cannot be shifted
     (`ReduceLate`). For that, no rule that the reading has next may be lost because
     another step was taken: `Conflicts` lists what can be shifted where a rule is complete,
     and only for the operators can the text go on in both ways. So the
     parser stops with an error only where no text that has a reading goes on
     (`ParserRefusesOnlyErrors`).
  8. Both together are `ParserCompilesExactly`: `da_policy_new_full` returns `NULL` for the
     texts that have no reading, and for each of the others the one policy it is
     read as when operators extend to the right.

  The invariants are stated by symbols of the grammar, not by states of the
  generated tables, which are never enumerated: `GrammarTable` gives the 33 rules to the
  provers and `ItemAfterDot`, `Before` and the like are checked rule by rule.

Only model-checked:

* Liveness: `Drains`, `InstancesDrain`, `StaleEvicted`, `StaleForgotten`, `Terminates`. The
  prover does not handle ENABLED.
* `AcceptsPolicies`, `CompilesText` and `UnmixedIsUsual`. Their reference readings are
  RECURSIVE operators on sequences, which a module with theorems cannot reach.
  `ParserCompilesExactly` says of all texts, in terms of the rules, what the first two say
  of short ones in terms of an independent definition: which texts compile, and to what.
  The third compares this with the precedence that a reader would expect.
* That the parser is never stuck before it ends, which is a question of ENABLED: TLC's
  check for deadlocks.

## 5. Disagreements found

1. `dbusaccess_peer.c:196`: for a well-known name the name watch is requested after
   the pid was obtained; a change of owner in between is never noticed, and the
   former owner's credentials are used as long as the name is asked for at
   least every 30 seconds. README:9 says that results are cached until the peer
   disappears (run `peer_stale`).
2. `dbusaccess_peer.c:190`: the public field `bus` of a peer is never assigned
   (run `peer_bus`).
3. `dbusaccess_self.c:87`: after a failed read the assertion does not hold, and
   stray timeouts forget an instance that is not theirs (run `self_assert`).
4. `dbusaccess_policy1.l:49`: a number that does not fit into an int is compiled as
   another id or as the wildcard (run `parser_number`).

## 6. Not modelled, and what is left

Not modelled: logging, build and packaging. Of the modelled components:

* `dbus-creds` prints ids with `%d`, so that one of 2^31 or more comes out negative; what
  it prints is abstracted to whose credentials they are.
* A byte above 127 in a policy is a negative token where the type char is signed, and
  the parser takes it for the end of the text. `DAParser` lets the text end anywhere, so
  it has these behaviours, but no property tells them apart.
* Names are resolved when a policy is compiled, and the tables of names do not change.
* A process may change its credentials under the same pid, or execute another
  program. `DAPeer` identifies a process with its credentials and cannot show it.

The plan of the project was to model what decides about access from the caller to the
decision: the peer cache (`DBus`, `DAPeer`), snapshots (`DASelf`), expressions and policies
(`DAPolicyExpr`, `DAPolicy`), the compiler (`DAParser`), the credentials (`DACred`), the abstract
cache (`PeerCache`) and a client (`DbusCreds`). What is left of it:

1. `DAService`: a service that gets a peer and checks a policy, composed of `PeerCache` and
   `DAPolicy`: a decision is one that the policy gives to credentials that the caller had
   at some time during the lease.
2. Processes that change their credentials, in `DBus`, with the age of what the cache serves.
