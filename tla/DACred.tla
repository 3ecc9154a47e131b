------------------------------- MODULE DACred -------------------------------
(***************************************************************************)
(* Reading the credentials of a process from the text of                   *)
(* /proc/<pid>/status, src/src/dbusaccess_cred.c, on behalf of da_proc_new *)
(* (src/src/dbusaccess_proc.c) or of da_peer_get, which fills a peer       *)
(* (src/src/dbusaccess_peer.c).                                            *)
(*                                                                         *)
(* A behaviour is the life of one object.  The text comes as lines that    *)
(* have been split into a key and words: the key is what stands before a   *)
(* colon, NULL if white space or the end of the line comes first.  A word  *)
(* is a sign, whether it begins with "0x", and its other characters as     *)
(* digits, where a character that is not one counts as NoDigit.            *)
(***************************************************************************)
EXTENDS Integers, Sequences

CONSTANTS
    Files,      \* the texts that a status file may have
    Spellings,  \* what may stand before a colon
    KeyOf,      \* KeyOf[s]: the key that s is but for the case, or NULL
    Max32,      \* the largest guint32, uid_t and gid_t
    Max64,      \* the largest guint64
    NULL

IdKeys == {"Uid", "Gid"}
Keys == IdKeys \cup {"Groups", "CapEff"}
NoDigit == 16
Word == [neg : BOOLEAN, hex : BOOLEAN, digits : Seq(0 .. NoDigit)]
Line == [key : Spellings \cup {NULL}, words : Seq(Word)]

ASSUME CredAssumption ==
    /\ Files \subseteq Seq(Line)
    /\ KeyOf \in [Spellings -> Keys \cup {NULL}]
    /\ Max32 \in Nat /\ Max64 \in Nat /\ Max32 < Max64
    /\ NULL \notin Keys \cup Spellings \cup Int

VARIABLES
    pc,         \* "parsing", "published", "failed" or "freed"
    caller,     \* whose object it is: that of "proc" or of "peer"
    file,       \* data
    pos,        \* ptr: the line that comes next
    seen,       \* flags: the keys that were found
    ok,         \* flags: PROC_PARSE_UID_OK, PROC_PARSE_GID_OK
    ids,        \* cred->euid and cred->egid
    flags,      \* cred->flags: "Groups", "CapEff"
    groups,     \* the first cred->ngroups elements of priv->groups
    array,      \* elements that priv->groups has room for, 0 if not allocated
    caps        \* cred->caps

credVars == <<ids, flags, groups, array, caps>>
vars == <<pc, caller, file, pos, seen, ok, credVars>>

TypeOK ==
    /\ pc \in {"parsing", "published", "failed", "freed"}
    /\ caller \in {"proc", "peer"}
    /\ file \in Seq(Line)
    /\ pos \in 1 .. Len(file) + 1
    /\ seen \subseteq Keys
    /\ ok \subseteq IdKeys
    /\ ids \in [IdKeys -> 0 .. Max32]
    /\ flags \subseteq {"Groups", "CapEff"}
    /\ groups \in Seq(0 .. Max32)
    /\ array \in Nat
    /\ caps \in 0 .. Max64

\* The file has been read, and the object is allocated with zeros.  (If the file
\* cannot be read there is nothing to parse: da_proc_new makes no object, and
\* that of da_peer_get has no groups.)
Init ==
    /\ pc = "parsing" /\ caller \in {"proc", "peer"}
    /\ file \in Files /\ pos = 1
    /\ seen = {} /\ ok = {}
    /\ ids = [k \in IdKeys |-> 0]
    /\ flags = {} /\ groups = <<>> /\ array = 0 /\ caps = 0

-----------------------------------------------------------------------------
(* Numbers.                                                                *)

Value(digits, base) ==
    LET value[i \in 0 .. Len(digits)] ==
            IF i = 0 THEN 0 ELSE base * value[i - 1] + digits[i]
    IN  value[Len(digits)]

\* g_ascii_strtoull of a whole word, NULL if characters remain.  What does not
\* fit becomes the largest number, and a sign is applied modulo 2^64.
Strtoull(w, base) ==
    LET v == Value(w.digits, base)
        whole == w.digits # <<>> /\ \A i \in DOMAIN w.digits : w.digits[i] < base
    IN  CASE ~whole -> NULL
          [] whole /\ v > Max64 -> Max64
          [] whole /\ v <= Max64 -> IF w.neg THEN (-v) % (Max64 + 1) ELSE v

\* The base that strtoull makes of base 0: octal after a zero.
BaseOf(w) ==
    CASE w.hex -> 16
      [] ~w.hex /\ Len(w.digits) > 1 /\ w.digits[1] = 0 -> 8
      [] OTHER -> 10

\* Mutant of Uint32: there is no check for overflow.
Uint32Wraps(w) ==
    LET v == Strtoull(w, BaseOf(w)) IN IF v = NULL THEN NULL ELSE v % (Max32 + 1)

Uint32(w) ==
    LET v == Strtoull(w, BaseOf(w))
    IN  IF v # NULL /\ v <= Max32 THEN v ELSE NULL

Uint64(w) == Strtoull(w, 16)

-----------------------------------------------------------------------------
(* Lines.                                                                  *)

\* Real, effective, saved set and file system id: the effective one.
IdValue(words) == IF Len(words) = 4 THEN Uint32(words[2]) ELSE NULL

\* Mutant of AddGroups: g is stored whether or not it was parsed.
AddGroupsUnchecked(list, words) == list \o [i \in DOMAIN words |-> Uint32(words[i])]

\* The words that are numbers, added to the list one by one.
AddGroups(list, words) ==
    LET added[i \in 0 .. Len(words)] ==
            CASE i = 0 -> list
              [] i > 0 /\ Uint32(words[i]) = NULL -> added[i - 1]
              [] OTHER -> Append(added[i - 1], Uint32(words[i]))
    IN  added[Len(words)]

CapValue(words) == IF Len(words) = 1 THEN Uint64(words[1]) ELSE NULL

KeyAt(i) == IF file[i].key = NULL THEN NULL ELSE KeyOf[file[i].key]

\* Mutant of More: the groups and capabilities are not waited for.
MoreIds == pos <= Len(file) /\ ok # IdKeys

More == pos <= Len(file) /\ seen # Keys

\* Mutant of Reached: a key may come again.
ReachedAgain(k) == pc = "parsing" /\ More /\ KeyAt(pos) = k

\* The next line has key k, for the first time.
Reached(k) == pc = "parsing" /\ More /\ KeyAt(pos) = k /\ k \notin seen

NextLine ==
    /\ pos' = pos + 1
    /\ UNCHANGED <<pc, caller, file>>

\* The lines "Uid:" and "Gid:".
ScanId(k) ==
    LET v == IdValue(file[pos].words)
    IN  /\ Reached(k)
        /\ seen' = seen \cup {k}
        /\ IF v # NULL
           THEN ok' = ok \cup {k} /\ ids' = [ids EXCEPT ![k] = v]
           ELSE UNCHANGED <<ok, ids>>
        /\ NextLine
        /\ UNCHANGED <<flags, groups, array, caps>>

\* The line "Groups:", which sets the flag even if it lists nothing.
ScanGroups ==
    LET words == file[pos].words
    IN  /\ Reached("Groups")
        /\ seen' = seen \cup {"Groups"}
        /\ flags' = flags \cup {"Groups"}
        /\ array' = IF words # <<>> THEN Len(words) ELSE array
        /\ groups' = AddGroups(groups, words)
        /\ NextLine
        /\ UNCHANGED <<ok, ids, caps>>

ScanCapEff ==
    LET v == CapValue(file[pos].words)
    IN  /\ Reached("CapEff")
        /\ seen' = seen \cup {"CapEff"}
        /\ IF v # NULL
           THEN caps' = v /\ flags' = flags \cup {"CapEff"}
           ELSE UNCHANGED <<caps, flags>>
        /\ NextLine
        /\ UNCHANGED <<ok, ids, groups, array>>

\* Any other line, also one with a key that was found before.
ScanOther ==
    /\ pc = "parsing" /\ More
    /\ \A k \in Keys : ~Reached(k)
    /\ NextLine
    /\ UNCHANGED <<seen, ok, credVars>>

-----------------------------------------------------------------------------
(* The object that is filled.                                              *)

Publish ==
    /\ pc = "parsing" /\ ~More
    /\ ok = IdKeys
    /\ pc' = "published"
    /\ UNCHANGED <<caller, file, pos, seen, ok, credVars>>

\* The credentials are no good.  da_peer_get drops the reference of the peer,
\* which cleans up; da_proc_new only frees the object.
Reject ==
    /\ pc = "parsing" /\ ~More
    /\ ok # IdKeys
    /\ pc' = "failed"
    /\ array' = IF caller = "peer" THEN 0 ELSE array
    /\ UNCHANGED <<caller, file, pos, seen, ok, ids, flags, groups, caps>>

\* Mutant of DaCredPrivCleanup: the groups are not freed.
DaCredPrivCleanupNever == UNCHANGED array

DaCredPrivCleanup == array' = 0

\* The last reference to the object is dropped.
Finalize ==
    /\ pc = "published"
    /\ pc' = "freed"
    /\ DaCredPrivCleanup
    /\ UNCHANGED <<caller, file, pos, seen, ok, ids, flags, groups, caps>>

Next ==
    \/ \E k \in IdKeys : ScanId(k)
    \/ ScanGroups
    \/ ScanCapEff
    \/ ScanOther
    \/ Publish
    \/ Reject
    \/ Finalize

Spec == Init /\ [][Next]_vars

-----------------------------------------------------------------------------

\* Line i is the first one with key k.
First(k, i) == KeyAt(i) = k /\ \A j \in 1 .. i - 1 : KeyAt(j) # k

\* The outcome is that of a reading of the whole file which takes the first line
\* of each key, wherever it is and whatever follows it.  That the scan stops
\* early makes no difference; credentials are published only if both ids were
\* read, and never with the zero of a field that was not (root); a first line
\* that is malformed is not made up for by a second one.
ReadsWhole ==
    pc \in {"published", "failed"} =>
        LET lines == 1 .. Len(file)
        IN  /\ pc = "published" <=>
                \A k \in IdKeys : \E i \in lines :
                    First(k, i) /\ IdValue(file[i].words) # NULL
            /\ \A k \in IdKeys, i \in lines :
                First(k, i) /\ IdValue(file[i].words) # NULL =>
                    ids[k] = IdValue(file[i].words)
            /\ "Groups" \in flags <=> \E i \in lines : First("Groups", i)
            /\ \A i \in lines :
                First("Groups", i) => groups = AddGroups(<<>>, file[i].words)
            /\ "CapEff" \in flags <=>
                \E i \in lines :
                    First("CapEff", i) /\ CapValue(file[i].words) # NULL
            /\ \A i \in lines :
                First("CapEff", i) /\ CapValue(file[i].words) # NULL =>
                    caps = CapValue(file[i].words)

\* The groups fit into the array, which is allocated before it is known how many
\* of the words are numbers: nothing is written behind its end.
GroupsFit == pc \in {"parsing", "published"} => Len(groups) <= array

\* A number as the kernel writes it: decimal, no sign, no leading zero.
Plain(w) ==
    /\ ~w.neg /\ ~w.hex
    /\ w.digits # <<>> /\ (w.digits[1] = 0 => Len(w.digits) = 1)
    /\ \A i \in DOMAIN w.digits : w.digits[i] < 10

\* An id that the kernel wrote is published as the same number or not at all:
\* one that is too long for 32 bits is not cut off, so that 2^32 is not root.
IdsExact ==
    pc = "published" =>
        \A k \in IdKeys, i \in 1 .. Len(file) :
            First(k, i) /\ Plain(file[i].words[2]) =>
                ids[k] = Value(file[i].words[2].digits, 10)

\* The array of groups lives as long as its object.  The only way to lose it is
\* da_proc_new with a file that lists groups but has no valid Uid or Gid.
GroupsOwned ==
    array # 0 =>
        \/ pc \in {"parsing", "published"}
        \/ pc = "failed" /\ caller = "proc" /\ "Groups" \in flags

=============================================================================
