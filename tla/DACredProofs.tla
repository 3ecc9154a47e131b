---------------------------- MODULE DACredProofs ----------------------------
(***************************************************************************)
(* Theorems about DACred, for any set of files, of any length, and any     *)
(* width of the numbers.  What a word means (Uint32, AddGroups) is looked  *)
(* into by PlainExact and by the lemmas about numbers at the end.          *)
(***************************************************************************)
EXTENDS DACred, SequenceTheorems, WellFoundedInduction, TLAPS

Scanned == 1 .. pos - 1

\* What has been read is what the lines behind ptr say.
SoFar ==
    /\ \A k \in Keys, i \in Scanned : KeyAt(i) = k => k \in seen
    /\ \A k \in seen : \E i \in Scanned : First(k, i)
    /\ \A k \in IdKeys : k \in ok <=> \E i \in Scanned :
            First(k, i) /\ IdValue(file[i].words) # NULL
    /\ \A k \in IdKeys, i \in Scanned :
            First(k, i) /\ IdValue(file[i].words) # NULL =>
                ids[k] = IdValue(file[i].words)
    /\ "Groups" \in flags <=> "Groups" \in seen
    /\ "Groups" \notin seen => groups = <<>>
    /\ \A i \in Scanned :
            First("Groups", i) => groups = AddGroups(<<>>, file[i].words)
    /\ "CapEff" \in flags <=> \E i \in Scanned :
            First("CapEff", i) /\ CapValue(file[i].words) # NULL
    /\ \A i \in Scanned :
            First("CapEff", i) /\ CapValue(file[i].words) # NULL =>
                caps = CapValue(file[i].words)

\* The inductive invariant.
CredInv ==
    /\ pc \in {"parsing", "published", "failed", "freed"}
    /\ caller \in {"proc", "peer"}
    /\ file \in Seq(Line) /\ pos \in 1 .. Len(file) + 1
    /\ seen \subseteq Keys /\ ok \subseteq IdKeys
    /\ ids = [k \in IdKeys |-> ids[k]]
    /\ SoFar
    /\ pc # "parsing" => ~More
    /\ pc = "published" => ok = IdKeys
    /\ pc = "failed" => ok # IdKeys
    /\ GroupsOwned
    /\ array # 0 => "Groups" \in flags

\* Before the first line nothing has been read.
LEMMA InitInv == Init => CredInv
  BY CredAssumption
  DEF Init, CredInv, SoFar, Scanned, GroupsOwned, Keys, IdKeys

\* What a scan of one line does to the bounds and to the lines behind ptr.
LEMMA NextLineScanned ==
  ASSUME CredInv, NextLine, More
  PROVE  /\ pos \in 1 .. Len(file) /\ pos' = pos + 1 /\ file' = file
         /\ pos' \in 1 .. Len(file) + 1
         /\ \A i : i \in Scanned' <=> i \in Scanned \/ i = pos
         /\ pos \notin Scanned
         /\ \A i : KeyAt(i)' = KeyAt(i)
         /\ \A k, i : First(k, i)' <=> First(k, i)
         /\ \A k : First(k, pos) <=> KeyAt(pos) = k /\ ~ \E i \in Scanned : KeyAt(i) = k
<1>1. pos \in 1 .. Len(file) /\ Len(file) \in Nat
  BY DEF CredInv, More
<1>2. pos' = pos + 1 /\ file' = file
  BY DEF NextLine
<1>3. \A i : KeyAt(i)' = KeyAt(i)
  BY <1>2 DEF KeyAt
<1> QED BY <1>1, <1>2, <1>3 DEF Scanned, First

\* The lines "Uid:" and "Gid:".
LEMMA ScanIdInv ==
  ASSUME CredInv, NEW k \in IdKeys, ScanId(k)
  PROVE  CredInv'
<1>1. /\ pc = "parsing" /\ More /\ KeyAt(pos) = k /\ k \notin seen /\ k \in Keys
      /\ NextLine
  BY DEF ScanId, Reached, Keys
<1>2. First(k, pos) /\ \A j \in Keys \ {k} : ~First(j, pos)
  BY <1>1, NextLineScanned DEF CredInv, SoFar
<1>3. \A i \in Scanned : ~First(k, i)
  BY <1>1 DEF CredInv, SoFar, First
<1>4. /\ \A j \in Keys, i \in Scanned' : KeyAt(i)' = j => j \in seen'
      /\ \A j \in seen' : \E i \in Scanned' : First(j, i)'
      /\ seen' \subseteq Keys /\ seen' = seen \cup {k}
  BY <1>1, <1>2, NextLineScanned DEF ScanId, CredInv, SoFar
<1>5. /\ ok' \subseteq IdKeys /\ ids' = [j \in IdKeys |-> ids'[j]]
      /\ \A j \in IdKeys : j \in ok' <=> \E i \in Scanned' :
            First(j, i)' /\ IdValue(file'[i].words) # NULL
      /\ \A j \in IdKeys, i \in Scanned' :
            First(j, i)' /\ IdValue(file'[i].words) # NULL =>
                ids'[j] = IdValue(file'[i].words)
  <2>1. /\ \A j \in IdKeys \ {k} : (j \in ok' <=> j \in ok) /\ ids'[j] = ids[j]
        /\ k \in ok' <=> IdValue(file[pos].words) # NULL
        /\ k \in ok' => ids'[k] = IdValue(file[pos].words)
        /\ ok' \subseteq IdKeys /\ ids' = [j \in IdKeys |-> ids'[j]]
    BY <1>3 DEF ScanId, CredInv, SoFar
  <2> QED BY <1>1, <1>2, <1>3, <2>1, NextLineScanned DEF CredInv, SoFar, Keys
<1>6. SoFar'
  <2>1. k # "Groups" /\ k # "CapEff" /\ UNCHANGED <<flags, groups, array, caps>>
    BY DEF ScanId, IdKeys
  <2>2. "Groups" \in Keys \ {k} /\ "CapEff" \in Keys \ {k}
    BY <2>1 DEF Keys
  <2>3. ~First("Groups", pos) /\ ~First("CapEff", pos)
    BY <1>2, <2>2
  <2>4. /\ "Groups" \in seen' <=> "Groups" \in seen
        /\ \A i \in Scanned' : First("Groups", i)' <=> First("Groups", i)
        /\ \A i \in Scanned' : First("CapEff", i)' <=> First("CapEff", i)
        /\ file' = file
    BY <1>1, <1>4, <2>1, NextLineScanned
  <2>5. \A i : (i \in Scanned' /\ i # pos <=> i \in Scanned) /\ pos \in Scanned'
    BY <1>1, NextLineScanned
  <2>6. /\ "Groups" \in flags' <=> "Groups" \in seen'
        /\ "Groups" \notin seen' => groups' = <<>>
        /\ \A i \in Scanned' :
              First("Groups", i)' => groups' = AddGroups(<<>>, file'[i].words)
    BY <2>1, <2>3, <2>4, <2>5 DEF CredInv, SoFar
  <2>7. /\ "CapEff" \in flags' <=> \E i \in Scanned' :
              First("CapEff", i)' /\ CapValue(file'[i].words) # NULL
        /\ \A i \in Scanned' :
              First("CapEff", i)' /\ CapValue(file'[i].words) # NULL =>
                  caps' = CapValue(file'[i].words)
    BY <2>1, <2>3, <2>4, <2>5 DEF CredInv, SoFar
  <2> QED BY <1>4, <1>5, <2>6, <2>7 DEF SoFar
<1> QED BY <1>1, <1>4, <1>5, <1>6, NextLineScanned
   DEF ScanId, NextLine, CredInv, GroupsOwned

\* The line "Groups:".
LEMMA ScanGroupsInv ==
  ASSUME CredInv, ScanGroups
  PROVE  CredInv'
<1>1. /\ pc = "parsing" /\ More /\ KeyAt(pos) = "Groups" /\ "Groups" \notin seen
      /\ NextLine /\ "Groups" \in Keys /\ "Groups" \notin IdKeys
  BY DEF ScanGroups, Reached, Keys, IdKeys
<1>2. First("Groups", pos) /\ \A j \in Keys \ {"Groups"} : ~First(j, pos)
  BY <1>1, NextLineScanned DEF CredInv, SoFar
<1>3. \A i \in Scanned : ~First("Groups", i)
  BY <1>1 DEF CredInv, SoFar, First
<1>4. /\ \A j \in Keys, i \in Scanned' : KeyAt(i)' = j => j \in seen'
      /\ \A j \in seen' : \E i \in Scanned' : First(j, i)'
      /\ seen' \subseteq Keys /\ seen' = seen \cup {"Groups"}
  BY <1>1, <1>2, NextLineScanned DEF ScanGroups, CredInv, SoFar
<1>5. /\ groups' = AddGroups(<<>>, file[pos].words)
      /\ flags' = flags \cup {"Groups"} /\ UNCHANGED <<ok, ids, caps>>
  BY <1>1 DEF ScanGroups, CredInv, SoFar
<1>6. SoFar'
  BY <1>1, <1>2, <1>3, <1>4, <1>5, NextLineScanned DEF CredInv, SoFar, Keys
<1> QED BY <1>1, <1>4, <1>5, <1>6, NextLineScanned
   DEF NextLine, CredInv, GroupsOwned

\* The line "CapEff:".
LEMMA ScanCapEffInv ==
  ASSUME CredInv, ScanCapEff
  PROVE  CredInv'
<1>1. /\ pc = "parsing" /\ More /\ KeyAt(pos) = "CapEff" /\ "CapEff" \notin seen
      /\ NextLine /\ "CapEff" \in Keys /\ "CapEff" \notin IdKeys
  BY DEF ScanCapEff, Reached, Keys, IdKeys
<1>2. First("CapEff", pos) /\ \A j \in Keys \ {"CapEff"} : ~First(j, pos)
  BY <1>1, NextLineScanned DEF CredInv, SoFar
<1>3. \A i \in Scanned : ~First("CapEff", i)
  BY <1>1 DEF CredInv, SoFar, First
<1>4. /\ \A j \in Keys, i \in Scanned' : KeyAt(i)' = j => j \in seen'
      /\ \A j \in seen' : \E i \in Scanned' : First(j, i)'
      /\ seen' \subseteq Keys /\ seen' = seen \cup {"CapEff"}
  BY <1>1, <1>2, NextLineScanned DEF ScanCapEff, CredInv, SoFar
<1>5. /\ "CapEff" \in flags' <=> CapValue(file[pos].words) # NULL
      /\ "CapEff" \in flags' => caps' = CapValue(file[pos].words)
      /\ "Groups" \in flags' <=> "Groups" \in flags
      /\ UNCHANGED <<ok, ids, groups, array>>
  BY <1>3 DEF ScanCapEff, CredInv, SoFar
<1>6. SoFar'
  BY <1>1, <1>2, <1>3, <1>4, <1>5, NextLineScanned DEF CredInv, SoFar, Keys
<1> QED BY <1>1, <1>4, <1>5, <1>6, NextLineScanned
   DEF NextLine, CredInv, GroupsOwned

\* Any other line is the first one of no key.
LEMMA ScanOtherInv ==
  ASSUME CredInv, ScanOther
  PROVE  CredInv'
<1>1. /\ pc = "parsing" /\ More /\ NextLine
      /\ UNCHANGED <<seen, ok, ids, flags, groups, array, caps>>
  BY DEF ScanOther, credVars
<1>2. \A k \in Keys : KeyAt(pos) = k => k \in seen
  BY <1>1 DEF ScanOther, Reached
<1>3. \A k \in Keys : ~First(k, pos)
  <2>1. \A k \in seen : \E i \in Scanned : KeyAt(i) = k
    BY DEF CredInv, SoFar, First
  <2> QED BY <1>1, <1>2, <2>1, NextLineScanned
<1>4. /\ \A j \in Keys, i \in Scanned' : KeyAt(i)' = j => j \in seen'
      /\ \A j \in seen' : \E i \in Scanned' : First(j, i)'
  <2>1. \A j \in seen : \E i \in Scanned' : First(j, i)'
    BY <1>1, NextLineScanned DEF CredInv, SoFar
  <2>2. \A j \in Keys, i \in Scanned' : KeyAt(i)' = j => j \in seen
    BY <1>1, <1>2, NextLineScanned DEF CredInv, SoFar
  <2> QED BY <1>1, <2>1, <2>2
<1>5. IdKeys \subseteq Keys /\ "Groups" \in Keys /\ "CapEff" \in Keys
  BY DEF Keys
<1>6. SoFar'
  <2>1. \A k \in Keys : \A i : i \in Scanned' /\ First(k, i)'
                        <=> i \in Scanned /\ First(k, i)
    BY <1>1, <1>3, NextLineScanned
  <2>2. file' = file
    BY <1>1 DEF NextLine
  <2>3. /\ \A k \in IdKeys : k \in ok' <=> \E i \in Scanned' :
              First(k, i)' /\ IdValue(file'[i].words) # NULL
        /\ \A k \in IdKeys, i \in Scanned' :
              First(k, i)' /\ IdValue(file'[i].words) # NULL =>
                  ids'[k] = IdValue(file'[i].words)
    BY <1>1, <1>5, <2>1, <2>2 DEF CredInv, SoFar
  <2>4. /\ "Groups" \in flags' <=> "Groups" \in seen'
        /\ "Groups" \notin seen' => groups' = <<>>
        /\ \A i \in Scanned' :
              First("Groups", i)' => groups' = AddGroups(<<>>, file'[i].words)
    BY <1>1, <1>5, <2>1, <2>2 DEF CredInv, SoFar
  <2>5. /\ "CapEff" \in flags' <=> \E i \in Scanned' :
              First("CapEff", i)' /\ CapValue(file'[i].words) # NULL
        /\ \A i \in Scanned' :
              First("CapEff", i)' /\ CapValue(file'[i].words) # NULL =>
                  caps' = CapValue(file'[i].words)
    BY <1>1, <1>5, <2>1, <2>2 DEF CredInv, SoFar
  <2> QED BY <1>4, <2>3, <2>4, <2>5 DEF SoFar
<1> QED BY <1>1, <1>6, NextLineScanned DEF NextLine, CredInv, GroupsOwned

\* Every reachable state satisfies the inductive invariant.
THEOREM CredInvariant == Spec => []CredInv
<1>1. ASSUME CredInv, [Next]_vars
      PROVE  CredInv'
  <2>1. ASSUME UNCHANGED <<file, pos, seen, ok, ids, flags, groups, caps>>
        PROVE  SoFar' /\ (More' <=> More)
    <3>1. \A k, i : First(k, i)' <=> First(k, i)
      BY <2>1 DEF First, KeyAt
    <3>2. Scanned' = Scanned /\ \A i : KeyAt(i)' = KeyAt(i)
      BY <2>1 DEF Scanned, KeyAt
    <3> QED BY <1>1, <2>1, <3>1, <3>2 DEF CredInv, SoFar, More
  <2>2. CASE Publish
    BY <1>1, <2>1, <2>2 DEF Publish, CredInv, credVars, GroupsOwned
  <2>3. CASE Reject
    BY <1>1, <2>1, <2>3 DEF Reject, CredInv, GroupsOwned
  <2>4. CASE Finalize
    BY <1>1, <2>1, <2>4 DEF Finalize, DaCredPrivCleanup, CredInv, GroupsOwned
  <2>5. CASE UNCHANGED vars
    BY <1>1, <2>1, <2>5 DEF vars, credVars, CredInv, GroupsOwned
  <2> QED BY <1>1, <2>2, <2>3, <2>4, <2>5, ScanIdInv, ScanGroupsInv,
      ScanCapEffInv, ScanOtherInv DEF Next
<1> QED BY <1>1, InitInv, PTL DEF Spec

-----------------------------------------------------------------------------

\* The first line of a key has been scanned when the scan ends.
LEMMA FirstScanned ==
  ASSUME CredInv, ~More, NEW k \in Keys, NEW i \in 1 .. Len(file), First(k, i)
  PROVE  i \in Scanned
<1>1. Len(file) \in Nat /\ pos \in 1 .. Len(file) + 1
  BY DEF CredInv
<1>2. CASE pos = Len(file) + 1
  BY <1>1, <1>2 DEF Scanned
<1>3. CASE seen = Keys
  <2>1. PICK j \in Scanned : KeyAt(j) = k
    BY <1>3 DEF CredInv, SoFar, First
  <2>2. ~(j \in 1 .. i - 1)
    BY <2>1 DEF First
  <2> QED BY <1>1, <2>1, <2>2 DEF Scanned
<1> QED BY <1>1, <1>2, <1>3 DEF More

\* The early end of the scan and repeated keys make no difference to a reading
\* of the first line of each key, for files of any length.
THEOREM CredReadsWhole == Spec => []ReadsWhole
<1>1. CredInv => ReadsWhole
  <2> SUFFICES ASSUME CredInv, pc \in {"published", "failed"}
               PROVE  ReadsWhole
    BY DEF ReadsWhole
  <2>1. \A k \in Keys, i \in 1 .. Len(file) : First(k, i) => i \in Scanned
    BY FirstScanned DEF CredInv
  <2>2. Scanned \subseteq 1 .. Len(file)
    BY DEF CredInv, Scanned
  <2>3. IdKeys \subseteq Keys /\ "Groups" \in Keys /\ "CapEff" \in Keys
    BY DEF Keys
  <2>4. "Groups" \in seen <=> \E i \in 1 .. Len(file) : First("Groups", i)
    BY <2>1, <2>2, <2>3 DEF CredInv, SoFar, First
  <2>5. pc = "published" <=> \A k \in IdKeys : k \in ok
    BY DEF CredInv
  <2>6. \A k \in Keys : \A i : i \in 1 .. Len(file) /\ First(k, i)
                        <=> i \in Scanned /\ First(k, i)
    BY <2>1, <2>2
  <2>7. /\ \A k \in IdKeys : k \in ok <=> \E i \in 1 .. Len(file) :
              First(k, i) /\ IdValue(file[i].words) # NULL
        /\ \A k \in IdKeys, i \in 1 .. Len(file) :
              First(k, i) /\ IdValue(file[i].words) # NULL =>
                  ids[k] = IdValue(file[i].words)
    BY <2>3, <2>6 DEF CredInv, SoFar
  <2>8. /\ "Groups" \in flags <=> "Groups" \in seen
        /\ \A i \in 1 .. Len(file) :
              First("Groups", i) => groups = AddGroups(<<>>, file[i].words)
    BY <2>3, <2>6 DEF CredInv, SoFar
  <2>9. /\ "CapEff" \in flags <=> \E i \in 1 .. Len(file) :
              First("CapEff", i) /\ CapValue(file[i].words) # NULL
        /\ \A i \in 1 .. Len(file) :
              First("CapEff", i) /\ CapValue(file[i].words) # NULL =>
                  caps = CapValue(file[i].words)
    BY <2>3, <2>6 DEF CredInv, SoFar
  <2> QED BY <2>4, <2>5, <2>7, <2>8, <2>9 DEF ReadsWhole
<1> QED BY <1>1, CredInvariant, PTL

\* The array of groups is lost by da_proc_new with a file without a valid Uid or
\* Gid, and by nothing else.
THEOREM CredGroupsOwned == Spec => []GroupsOwned
<1>1. CredInv => GroupsOwned
  BY DEF CredInv
<1> QED BY <1>1, CredInvariant, PTL

-----------------------------------------------------------------------------
(* Induction and recursion over the positions of a sequence.               *)

\* A set that contains 0 and the successor of each of its elements below n
\* contains all numbers up to n: otherwise there is a least one outside.
LEMMA UpTo ==
  ASSUME NEW n \in Nat, NEW T, 0 \in T,
         \A i \in 0 .. n - 1 : i \in T => i + 1 \in T
  PROVE  0 .. n \subseteq T
<1> DEFINE Outside == {i \in 0 .. n : i \notin T}
<1> SUFFICES ASSUME Outside # {} PROVE FALSE
  OBVIOUS
<1>1. PICK m \in Outside : \A i \in Outside : ~ (<<i, m>> \in OpToRel(<, Nat))
  <2> Outside \subseteq Nat
    OBVIOUS
  <2> HIDE DEF Outside
  <2> QED BY NatLessThanWellFounded, WFMin
<1>2. \A i, j \in Nat : ~ (<<i, j>> \in OpToRel(<, Nat)) => j <= i
  BY DEF OpToRel
<1>3. m \in 0 .. n /\ m \notin T /\ m # 0 /\ m - 1 \in 0 .. n - 1
  OBVIOUS
<1>4. m - 1 \notin Outside
  <2>1. ~ (m <= m - 1) /\ m - 1 \in Nat /\ m \in Nat
    BY <1>3
  <2> HIDE DEF Outside
  <2> QED BY <1>1, <1>2, <2>1
<1>5. m - 1 \in T
  BY <1>3, <1>4
<1> QED BY <1>3, <1>5

\* The functions over 0 .. n that start with a and proceed by the given steps.
Steps(n, S) == [1 .. n -> [S -> S]]
Runs(n, S, a, step) ==
    {f \in [0 .. n -> S] : f[0] = a /\ \A i \in 1 .. n : f[i] = step[i][f[i - 1]]}

\* There is one if the steps stay in a set: what is correct up to i can be
\* continued by the value at i + 1.
LEMMA StepByStep ==
  ASSUME NEW n \in Nat, NEW S, NEW a \in S, NEW step \in Steps(n, S)
  PROVE  \E f : f \in Runs(n, S, a, step)
<1> USE DEF Steps
<1> DEFINE Correct(f, k) ==
             f[0] = a /\ \A i \in 1 .. k : f[i] = step[i][f[i - 1]]
           T == {k \in 0 .. n : \E f \in [0 .. n -> S] : Correct(f, k)}
<1>1. 0 \in T
  <2>1. Correct([i \in 0 .. n |-> a], 0) /\ [i \in 0 .. n |-> a] \in [0 .. n -> S]
    OBVIOUS
  <2>2. \E f \in [0 .. n -> S] : Correct(f, 0)
    BY <2>1
  <2> HIDE DEF Correct
  <2> QED BY <2>2
<1>2. ASSUME NEW k \in 0 .. n - 1, k \in T
      PROVE  k + 1 \in T
  <2>1. PICK f \in [0 .. n -> S] : Correct(f, k)
    BY <1>2
  <2> DEFINE v == step[k + 1][f[k]]
             g == [f EXCEPT ![k + 1] = v]
  <2>2. v \in S
    <3>1. f[k] \in S /\ k + 1 \in 1 .. n
      OBVIOUS
    <3> QED BY <3>1
  <2>3. g \in [0 .. n -> S] /\ g[k + 1] = v /\ \A i \in 0 .. k : g[i] = f[i]
    <3> HIDE DEF v
    <3>1. k + 1 \in 0 .. n /\ \A i \in 0 .. k : i \in 0 .. n /\ i # k + 1
      OBVIOUS
    <3> QED BY <2>2, <3>1
  <2>4. Correct(g, k + 1)
    <3> HIDE DEF g
    <3>1. g[0] = a
      <4>1. 0 \in 0 .. k
        OBVIOUS
      <4> QED BY <2>1, <2>3, <4>1
    <3>2. ASSUME NEW i \in 1 .. k
          PROVE  g[i] = step[i][g[i - 1]]
      <4>1. i \in 0 .. k /\ i - 1 \in 0 .. k
        OBVIOUS
      <4>2. f[i] = step[i][f[i - 1]]
        BY <2>1
      <4> QED BY <2>3, <4>1, <4>2
    <3>3. g[k + 1] = step[k + 1][g[k + 1 - 1]]
      <4>1. k + 1 - 1 = k /\ k \in 0 .. k
        OBVIOUS
      <4> QED BY <2>3, <4>1
    <3>4. ASSUME NEW i \in 1 .. k + 1
          PROVE  g[i] = step[i][g[i - 1]]
      <4>1. CASE i = k + 1
        BY <3>3, <4>1
      <4>2. CASE i \in 1 .. k
        BY <3>2, <4>2
      <4> QED BY <4>1, <4>2
    <3> QED BY <3>1, <3>4
  <2>5. k + 1 \in 0 .. n
    OBVIOUS
  <2>6. \E h \in [0 .. n -> S] : Correct(h, k + 1)
    <3> HIDE DEF g, Correct
    <3> QED BY <2>3, <2>4
  <2> HIDE DEF Correct
  <2> QED BY <2>5, <2>6
<1>3. 0 .. n \subseteq T
  <2> HIDE DEF T
  <2> QED BY <1>1, <1>2, UpTo
<1>4. \E f \in [0 .. n -> S] : Correct(f, n)
  <2> HIDE DEF Correct
  <2> QED BY <1>3
<1> QED BY <1>4 DEF Runs

-----------------------------------------------------------------------------
(* The numbers and lists that words stand for.                             *)

\* The digits of a word, read in a base, are a natural number.
LEMMA ValueType ==
  ASSUME NEW digits \in Seq(Nat), NEW base \in Nat
  PROVE  Value(digits, base) \in Nat
<1> DEFINE n == Len(digits)
           P(f) == f = [i \in 0 .. n |->
                          IF i = 0 THEN 0 ELSE base * f[i - 1] + digits[i]]
           step == [i \in 1 .. n |-> [v \in Nat |-> base * v + digits[i]]]
<1>1. n \in Nat /\ \A i \in 1 .. n : digits[i] \in Nat
  OBVIOUS
<1>2. step \in Steps(n, Nat)
  BY <1>1 DEF Steps
<1>3. PICK f : f \in Runs(n, Nat, 0, step)
  <2>1. 0 \in Nat
    OBVIOUS
  <2> HIDE DEF step, n
  <2> QED BY ONLY <1>1, <1>2, <2>1, StepByStep
<1>4. P(f)
  <2>0. f \in [0 .. n -> Nat] /\ f[0] = 0 /\ \A i \in 1 .. n : f[i] = step[i][f[i - 1]]
    BY <1>3 DEF Runs
  <2>1. \A i \in 1 .. n : f[i - 1] \in Nat
    <3>1. \A i \in 1 .. n : i - 1 \in 0 .. n
      BY <1>1
    <3> QED BY <2>0, <3>1
  <2>2. \A i \in 1 .. n : f[i] = base * f[i - 1] + digits[i]
    BY <2>0, <2>1
  <2>3. \A i \in 0 .. n : i = 0 \/ i \in 1 .. n
    BY <1>1
  <2> HIDE DEF n
  <2> QED BY <2>0, <2>2, <2>3
<1> DEFINE value == CHOOSE g : P(g)
<1>5. P(value)
  <2> HIDE DEF P
  <2> QED BY <1>4
<1>6. Value(digits, base) = value[n]
  BY DEF Value
<1> HIDE DEF value
<1> DEFINE T == {i \in 0 .. n : value[i] \in Nat}
<1>7. 0 \in T /\ \A i \in 0 .. n - 1 : i \in T => i + 1 \in T
  <2>1. value[0] \in Nat /\ 0 \in 0 .. n
    BY <1>1, <1>5
  <2>2. \A i \in 0 .. n - 1 : i + 1 # 0 /\ i + 1 - 1 = i /\ i + 1 \in 1 .. n /\ i + 1 \in 0 .. n
    BY <1>1
  <2>3. \A i \in 0 .. n - 1 : value[i + 1] = base * value[i] + digits[i + 1]
    BY <1>5, <2>2
  <2>4. \A i \in 0 .. n - 1 : value[i] \in Nat => base * value[i] + digits[i + 1] \in Nat
    <3>1. \A u, v, w \in Nat : u * v + w \in Nat
      OBVIOUS
    <3>2. \A i \in 0 .. n - 1 : digits[i + 1] \in Nat
      BY <1>1, <2>2
    <3> HIDE DEF n
    <3> QED BY <3>1, <3>2
  <2> QED BY <2>1, <2>2, <2>3, <2>4
<1>8. n \in T
  <2>1. 0 .. n \subseteq T
    <3> HIDE DEF T, n
    <3> QED BY ONLY <1>1, <1>7, UpTo
  <2> QED BY <1>1, <2>1
<1> QED BY <1>6, <1>8

\* So are the digits of a word.
LEMMA WordValue ==
  ASSUME NEW w \in Word, NEW base \in Nat
  PROVE  Value(w.digits, base) \in Nat
<1> DEFINE d == w.digits
<1>1. d \in Seq(0 .. NoDigit)
  BY DEF Word
<1>2. d \in Seq(Nat)
  <2> HIDE DEF d
  <2> QED BY <1>1 DEF NoDigit
<1> QED BY <1>2, ValueType

\* strtoull yields a number of 64 bits, whatever the sign and the digits are.
LEMMA StrtoullType ==
  ASSUME NEW w \in Word, NEW base \in Nat
  PROVE  Strtoull(w, base) \in 0 .. Max64 \cup {NULL}
<1> DEFINE v == Value(w.digits, base)
           whole == w.digits # <<>> /\ \A i \in DOMAIN w.digits : w.digits[i] < base
<1>1. v \in Nat
  BY WordValue
<1>2. Max64 \in Nat /\ Max64 + 1 \in Nat /\ Max64 + 1 > 0
  BY CredAssumption
<1>3. (-v) % (Max64 + 1) \in 0 .. Max64
  BY <1>1, <1>2
<1>4. CASE ~whole
  BY <1>4 DEF Strtoull
<1>5. CASE whole /\ v > Max64
  <2>1. Strtoull(w, base) = Max64
    BY <1>1, <1>2, <1>5 DEF Strtoull
  <2> QED BY <1>2, <2>1
<1>6. CASE whole /\ v <= Max64
  <2>1. Strtoull(w, base) = IF w.neg THEN (-v) % (Max64 + 1) ELSE v
    BY <1>1, <1>2, <1>6 DEF Strtoull
  <2>2. v \in 0 .. Max64
    BY <1>1, <1>2, <1>6
  <2> HIDE DEF v
  <2> QED BY <1>3, <2>1, <2>2
<1> QED BY <1>1, <1>2, <1>4, <1>5, <1>6

\* A user or group id is a number of 32 bits.
LEMMA Uint32Type ==
  ASSUME NEW w \in Word
  PROVE  Uint32(w) \in 0 .. Max32 \cup {NULL}
<1>1. BaseOf(w) \in Nat
  BY DEF BaseOf
<1>2. Strtoull(w, BaseOf(w)) \in 0 .. Max64 \cup {NULL}
  BY <1>1, StrtoullType
<1> QED BY <1>2, CredAssumption DEF Uint32

\* The words of a line add ids to a list, at most one for each word.
LEMMA AddGroupsType ==
  ASSUME NEW list \in Seq(0 .. Max32), NEW words \in Seq(Word)
  PROVE  /\ AddGroups(list, words) \in Seq(0 .. Max32)
         /\ Len(AddGroups(list, words)) <= Len(list) + Len(words)
<1> DEFINE n == Len(words)
           S == Seq(0 .. Max32)
           id(i) == Uint32(words[i])
           P(f) == f = [i \in 0 .. n |->
                          CASE i = 0 -> list
                            [] i > 0 /\ id(i) = NULL -> f[i - 1]
                            [] OTHER -> Append(f[i - 1], id(i))]
           step == [i \in 1 .. n |-> [l \in S |->
                       IF id(i) = NULL THEN l ELSE Append(l, id(i))]]
<1>1. n \in Nat /\ \A i \in 1 .. n : id(i) \in 0 .. Max32 \cup {NULL}
  BY Uint32Type
<1>2. \A l \in S, g \in 0 .. Max32 :
          Append(l, g) \in S /\ Len(Append(l, g)) = Len(l) + 1 /\ Len(l) \in Nat
  OBVIOUS
<1> HIDE DEF n, S, id
<1>3. step \in Steps(n, S)
  BY <1>1, <1>2 DEF Steps
<1>4. PICK f : f \in Runs(n, S, list, step)
  <2>1. list \in S
    BY DEF S
  <2> HIDE DEF step
  <2> QED BY ONLY <1>1, <1>3, <2>1, StepByStep
<1>5. P(f)
  <2>1. /\ f \in [0 .. n -> S] /\ f[0] = list
        /\ \A i \in 1 .. n : f[i] = step[i][f[i - 1]]
    BY <1>4 DEF Runs
  <2>2. \A i \in 1 .. n : i - 1 \in 0 .. n /\ i > 0 /\ i # 0 /\ f[i - 1] \in S
    BY <1>1, <2>1
  <2>3. \A i \in 1 .. n :
            f[i] = IF id(i) = NULL THEN f[i - 1] ELSE Append(f[i - 1], id(i))
    BY <2>1, <2>2
  <2>4. \A i \in 0 .. n : i = 0 \/ i \in 1 .. n
    BY <1>1
  <2>5. ASSUME NEW i \in 0 .. n
        PROVE  f[i] = CASE i = 0 -> list
                        [] i > 0 /\ id(i) = NULL -> f[i - 1]
                        [] OTHER -> Append(f[i - 1], id(i))
    <3>1. CASE i = 0
      BY <2>1, <3>1
    <3>2. CASE i \in 1 .. n
      BY <2>2, <2>3, <3>2
    <3> QED BY <2>4, <3>1, <3>2
  <2> QED BY <2>1, <2>5
<1> DEFINE added == CHOOSE g : P(g)
<1>6. P(added)
  <2> HIDE DEF P
  <2> QED BY <1>5
<1>7. AddGroups(list, words) = added[n]
  BY DEF AddGroups, n, id
<1> HIDE DEF added
<1> DEFINE T == {i \in 0 .. n : added[i] \in S /\ Len(added[i]) <= Len(list) + i}
<1>8. 0 \in T /\ \A i \in 0 .. n - 1 : i \in T => i + 1 \in T
  <2>1. added[0] = list /\ 0 \in 0 .. n /\ list \in S /\ Len(list) \in Nat
    BY <1>1, <1>6 DEF S
  <2>2. \A i \in 0 .. n - 1 : i + 1 # 0 /\ i + 1 > 0 /\ i + 1 - 1 = i
                              /\ i + 1 \in 1 .. n /\ i + 1 \in 0 .. n
    BY <1>1
  <2>3. \A i \in 0 .. n - 1 :
            added[i + 1] = IF id(i + 1) = NULL THEN added[i]
                           ELSE Append(added[i], id(i + 1))
    <3> SUFFICES ASSUME NEW i \in 0 .. n - 1
                 PROVE  added[i + 1] = IF id(i + 1) = NULL THEN added[i]
                                       ELSE Append(added[i], id(i + 1))
      OBVIOUS
    <3> DEFINE j == i + 1
    <3>1. j # 0 /\ j > 0 /\ j \in 0 .. n /\ j - 1 = i
      BY <2>2
    <3> HIDE DEF j
    <3>2. added[j] = IF id(j) = NULL THEN added[j - 1] ELSE Append(added[j - 1], id(j))
      BY <1>6, <3>1
    <3> QED BY <3>1, <3>2 DEF j
  <2>4. ASSUME NEW i \in 0 .. n - 1, i \in T
        PROVE  i + 1 \in T
    <3>1. CASE id(i + 1) = NULL
      <4>1. Len(added[i]) \in Nat
        BY <2>4 DEF S
      <4> QED BY <2>1, <2>2, <2>3, <2>4, <3>1, <4>1
    <3>2. CASE id(i + 1) # NULL
      <4>1. i + 1 \in 1 .. n /\ added[i] \in S /\ Len(added[i]) <= Len(list) + i
        BY <2>2, <2>4
      <4>2. id(i + 1) \in 0 .. Max32
        BY <1>1, <3>2, <4>1
      <4>3. added[i + 1] = Append(added[i], id(i + 1))
        BY <2>3, <3>2
      <4>4. added[i + 1] \in S /\ Len(added[i + 1]) = Len(added[i]) + 1
            /\ Len(added[i]) \in Nat
        BY <1>2, <4>1, <4>2, <4>3
      <4> QED BY <2>1, <2>2, <4>1, <4>4
    <3> QED BY <3>1, <3>2
  <2> QED BY <2>1, <2>4
<1>9. n \in T
  <2>1. 0 .. n \subseteq T
    <3> HIDE DEF T
    <3> QED BY ONLY <1>1, <1>8, UpTo
  <2> QED BY <1>1, <2>1
<1> QED BY <1>7, <1>9 DEF S, n

-----------------------------------------------------------------------------
(* The ids that are published.                                             *)

\* What the kernel writes in decimal is read in decimal, and is the number that
\* it stands for or no number.
LEMMA PlainExact ==
  ASSUME NEW w \in Word, Plain(w), Uint32(w) # NULL
  PROVE  Uint32(w) = Value(w.digits, 10)
<1> DEFINE v == Strtoull(w, BaseOf(w))
<1>1. Uint32(w) = v /\ v <= Max32
  BY DEF Uint32
<1>2. BaseOf(w) = 10
  <2>1. ~w.hex /\ (w.digits[1] = 0 => Len(w.digits) = 1) /\ ~(1 > 1)
    BY DEF Plain
  <2> QED BY <2>1 DEF BaseOf
<1>3. /\ w.digits # <<>> /\ \A i \in DOMAIN w.digits : w.digits[i] < 10
      /\ ~w.neg
  BY DEF Plain
<1>4. Value(w.digits, 10) \in Nat /\ Max64 \in Nat /\ Max32 \in Nat /\ Max32 < Max64
  BY WordValue, CredAssumption
<1>5. v = Strtoull(w, 10)
  BY <1>2
<1> HIDE DEF v
<1>6. CASE Value(w.digits, 10) > Max64
  <2>1. Strtoull(w, 10) = Max64
    BY <1>3, <1>4, <1>6 DEF Strtoull
  <2> QED BY <1>1, <1>4, <1>5, <2>1
<1>7. CASE Value(w.digits, 10) <= Max64
  <2>1. Strtoull(w, 10) = Value(w.digits, 10)
    BY <1>3, <1>4, <1>7 DEF Strtoull
  <2> QED BY <1>1, <1>5, <2>1
<1> QED BY <1>4, <1>6, <1>7

\* A published id is the one that the kernel wrote, whatever the widths are.
THEOREM CredIdsExact == Spec => []IdsExact
<1>1. CredInv /\ ReadsWhole => IdsExact
  <2> SUFFICES ASSUME CredInv, ReadsWhole, pc = "published",
                      NEW k \in IdKeys, NEW i \in 1 .. Len(file),
                      First(k, i), Plain(file[i].words[2])
               PROVE  ids[k] = Value(file[i].words[2].digits, 10)
    BY DEF IdsExact
  <2>1. PICK j \in 1 .. Len(file) :
            First(k, j) /\ IdValue(file[j].words) # NULL
    BY DEF ReadsWhole
  <2>2. ~(i \in 1 .. j - 1) /\ ~(j \in 1 .. i - 1)
    BY <2>1 DEF First
  <2>3. i = j
    BY <2>2 DEF CredInv
  <2>4. ids[k] = IdValue(file[i].words) /\ IdValue(file[i].words) # NULL
    BY <2>1, <2>3 DEF ReadsWhole
  <2>5. ids[k] = Uint32(file[i].words[2]) /\ Len(file[i].words) = 4
    BY <2>4 DEF IdValue
  <2>6. file[i] \in Line
    BY DEF CredInv
  <2>7. file[i].words[2] \in Word
    BY <2>5, <2>6 DEF Line
  <2> QED BY <2>4, <2>5, <2>7, PlainExact DEF IdValue
<1> QED BY <1>1, CredInvariant, CredReadsWhole, PTL

-----------------------------------------------------------------------------
(* Types, and the bounds of the array.                                     *)

\* The words of a line.
LEMMA WordsOfLine ==
  ASSUME TypeOK, NEW i \in 1 .. Len(file)
  PROVE  /\ file[i].words \in Seq(Word)
         /\ Len(file[i].words) \in Nat
         /\ IdValue(file[i].words) \in 0 .. Max32 \cup {NULL}
         /\ CapValue(file[i].words) \in 0 .. Max64 \cup {NULL}
<1> DEFINE words == file[i].words
<1>1. words \in Seq(Word)
  <2>1. file[i] \in Line
    BY DEF TypeOK
  <2> QED BY <2>1 DEF Line
<1>2. IdValue(words) \in 0 .. Max32 \cup {NULL}
  <2> HIDE DEF words
  <2>1. Len(words) = 4 => words[2] \in Word
    <3>1. \A j \in 1 .. Len(words) : words[j] \in Word
      BY <1>1, ElementOfSeq
    <3> QED BY <3>1
  <2> QED BY <2>1, Uint32Type DEF IdValue
<1>3. CapValue(words) \in 0 .. Max64 \cup {NULL}
  <2> HIDE DEF words
  <2>1. Len(words) = 1 => words[1] \in Word
    <3>1. \A j \in 1 .. Len(words) : words[j] \in Word
      BY <1>1, ElementOfSeq
    <3> QED BY <3>1
  <2>2. 16 \in Nat
    OBVIOUS
  <2> QED BY <2>1, <2>2, StrtoullType DEF CapValue, Uint64
<1> QED BY <1>1, <1>2, <1>3

\* Everything that is stored has its type: an id has 32 bits, the capabilities
\* have 64, and the list of groups holds ids, never the NULL of a word that is
\* not a number.
THEOREM CredTypeCorrect == Spec => []TypeOK
<1>1. Init => TypeOK
  BY CredAssumption DEF Init, TypeOK, Keys, IdKeys
<1>2. ASSUME TypeOK, [Next]_vars
      PROVE  TypeOK'
  <2>1. ASSUME NextLine, More
        PROVE  /\ pos \in 1 .. Len(file)
               /\ pc' \in {"parsing", "published", "failed", "freed"}
               /\ caller' \in {"proc", "peer"}
               /\ file' \in Seq(Line)
               /\ pos' \in 1 .. Len(file') + 1
    BY <1>2, <2>1 DEF TypeOK, NextLine, More
  <2>2. ASSUME NEW k \in IdKeys, ScanId(k)
        PROVE  TypeOK'
    <3>1. NextLine /\ More /\ k \in Keys
      BY <2>2 DEF ScanId, Reached, Keys
    <3>2. IdValue(file[pos].words) \in 0 .. Max32 \cup {NULL}
      BY <1>2, <2>1, <3>1, WordsOfLine
    <3> QED BY <1>2, <2>1, <2>2, <3>1, <3>2 DEF ScanId, TypeOK
  <2>3. CASE ScanGroups
    <3>1. NextLine /\ More /\ "Groups" \in Keys
      BY <2>3 DEF ScanGroups, Reached, Keys
    <3>2. file[pos].words \in Seq(Word) /\ Len(file[pos].words) \in Nat
      BY <1>2, <2>1, <3>1, WordsOfLine
    <3>3. AddGroups(groups, file[pos].words) \in Seq(0 .. Max32)
      BY <1>2, <3>2, AddGroupsType DEF TypeOK
    <3> QED BY <1>2, <2>1, <2>3, <3>1, <3>2, <3>3 DEF ScanGroups, TypeOK
  <2>4. CASE ScanCapEff
    <3>1. NextLine /\ More /\ "CapEff" \in Keys
      BY <2>4 DEF ScanCapEff, Reached, Keys
    <3>2. CapValue(file[pos].words) \in 0 .. Max64 \cup {NULL}
      BY <1>2, <2>1, <3>1, WordsOfLine
    <3> QED BY <1>2, <2>1, <2>4, <3>1, <3>2 DEF ScanCapEff, TypeOK
  <2>5. CASE ScanOther
    BY <1>2, <2>1, <2>5 DEF ScanOther, credVars, TypeOK
  <2>6. CASE Publish
    BY <1>2, <2>6 DEF Publish, credVars, TypeOK
  <2>7. CASE Reject
    BY <1>2, <2>7 DEF Reject, TypeOK
  <2>8. CASE Finalize
    BY <1>2, <2>8 DEF Finalize, DaCredPrivCleanup, TypeOK
  <2>9. CASE UNCHANGED vars
    BY <1>2, <2>9 DEF vars, credVars, TypeOK
  <2> QED BY <1>2, <2>2, <2>3, <2>4, <2>5, <2>6, <2>7, <2>8, <2>9 DEF Next
<1> QED BY <1>1, <1>2, PTL DEF Spec

\* No group is written behind the end of the array, for a line of any length:
\* the array has room for all words of the line, only some of which become
\* groups, and there were no groups before.
THEOREM CredGroupsFit == Spec => []GroupsFit
<1>1. Init => GroupsFit
  BY DEF Init, GroupsFit
<1>2. ASSUME TypeOK, CredInv, GroupsFit, [Next]_vars
      PROVE  GroupsFit'
  <2>1. CASE ScanGroups
    <3>1. pos \in 1 .. Len(file) /\ "Groups" \notin seen /\ groups = <<>>
      BY <1>2, <2>1 DEF ScanGroups, Reached, More, CredInv, SoFar
    <3> DEFINE words == file[pos].words
    <3>2. words \in Seq(Word) /\ Len(words) \in Nat
      BY <1>2, <3>1, WordsOfLine
    <3>3. groups \in Seq(0 .. Max32) /\ Len(groups) = 0
      BY <1>2, <3>1 DEF TypeOK
    <3>4. Len(AddGroups(groups, words)) <= Len(words)
          /\ Len(AddGroups(groups, words)) \in Nat
      <4> HIDE DEF words
      <4>1. AddGroups(groups, words) \in Seq(0 .. Max32)
            /\ Len(AddGroups(groups, words)) <= Len(groups) + Len(words)
        BY <3>2, <3>3, AddGroupsType
      <4>2. Len(AddGroups(groups, words)) \in Nat
        BY <4>1
      <4> QED BY <3>2, <3>3, <4>1, <4>2
    <3>5. array' = (IF words # <<>> THEN Len(words) ELSE array)
          /\ groups' = AddGroups(groups, words)
      BY <2>1 DEF ScanGroups
    <3>6. words = <<>> => Len(words) = 0 /\ array \in Nat
      BY <1>2 DEF TypeOK
    <3> HIDE DEF words
    <3> QED BY <3>2, <3>4, <3>5, <3>6 DEF GroupsFit
  <2>2. CASE UNCHANGED <<groups, array>> /\ (pc' = pc \/ pc = "parsing")
    BY <1>2, <2>2 DEF GroupsFit
  <2>3. CASE pc' \in {"failed", "freed"}
    BY <2>3 DEF GroupsFit
  <2> QED BY <1>2, <2>1, <2>2, <2>3 DEF Next, ScanId, ScanCapEff, ScanOther, Publish,
      Reject, Finalize, NextLine, vars, credVars
<1> QED BY <1>1, <1>2, CredTypeCorrect, CredInvariant, PTL DEF Spec

=============================================================================
