-------------------------- MODULE StorageApi_proofs --------------------------
(***************************************************************************)
(* A theorem about ServerStorage as a library: for any bound on the        *)
(* numbers and any calls, every backup reads back what was saved for it.   *)
(***************************************************************************)
EXTENDS StorageApi, FiniteSetTheorems, TLAPS

Ids == 1 .. MaxId

\* The trees, the numbers in use and the values to read back.
Typed ==
    /\ DOMAIN tree \subseteq Ids
    /\ tree \in [DOMAIN tree -> [Files -> FileState]]
    /\ made \subseteq DOMAIN tree
    /\ saved \in [Ids -> [Files -> FileState \cup {Nothing}]]

\* A directory that is no backup any more holds at most a .name.
Emptied == \A i \in DOMAIN tree \ made : \A f \in BakFiles : tree[i][f] = NoFile

Agreed == \A i \in Ids : \A f \in BakFiles : Load(tree, i, f) = saved[i][f]

IInv == Typed /\ Emptied /\ Agreed

-----------------------------------------------------------------------------
(* The numbers *)

LEMMA Least ==
    ASSUME NEW T \in SUBSET Nat, T # {}
    PROVE  \E n \in T : \A m \in T : n <= m
  <1>1. PICK n \in T : \A m \in T : ~ (<<m, n>> \in OpToRel(<, Nat))
    BY NatLessThanWellFounded, WFMin
  <1>2. ASSUME NEW m \in T PROVE n <= m
    <2>1. m \in Nat /\ n \in Nat
      OBVIOUS
    <2>2. ~ (m < n)
      BY <1>1, <2>1 DEF OpToRel
    <2>. QED BY <2>1, <2>2
  <1>. QED BY <1>2

LEMMA HighestOf ==
    ASSUME NEW N \in SUBSET Ids, N # {}
    PROVE  Highest(N) \in N
  <1> DEFINE T == {MaxId - n : n \in N}
  <1>1. T \subseteq Nat /\ T # {} /\ MaxId \in Nat
    <2>1. MaxId \in Nat /\ N \subseteq 1 .. MaxId
      BY MaxIdAssumption DEF Ids
    <2>2. ASSUME NEW n \in N PROVE MaxId - n \in Nat
      BY <2>1
    <2>. QED BY <2>1, <2>2
  <1>2. PICK d \in T : \A m \in T : d <= m
    <2> HIDE DEF T
    <2>. QED BY <1>1, Least
  <1>3. PICK n \in N : d = MaxId - n
    BY <1>2
  <1>4. \A m \in N : m <= n
    <2> SUFFICES ASSUME NEW m \in N PROVE m <= n
      OBVIOUS
    <2>1. MaxId - n <= MaxId - m
      BY <1>2, <1>3
    <2>. QED BY <1>1, <2>1 DEF Ids
  <1>. QED BY <1>4 DEF Highest

\* The next number is a positive one.
LEMMA NextPositive == ASSUME Typed PROVE NextNumber(tree) \in Nat \ {0}
  <1>1. Listed(tree) \subseteq Ids
    BY DEF Typed, Listed
  <1>2. CASE Listed(tree) = {}
    BY <1>2 DEF NextNumber
  <1>3. CASE Listed(tree) # {}
    <2>1. Highest(Listed(tree)) \in Nat
      BY <1>1, <1>3, HighestOf DEF Ids
    <2>. QED BY <1>3, <2>1 DEF NextNumber
  <1>. QED BY <1>2, <1>3

LEMMA TokenFacts ==
    /\ EmptyDir \in [Files -> FileState]
    /\ Data \subseteq FileState \ {NoFile, Torn, Nothing}
    /\ Names \subseteq FileState \ {NoFile, Torn, Nothing}
    /\ BakFiles \subseteq Files /\ "header" \in BakFiles
    /\ NoFile \in FileState
  BY TokensAssumption DEF TokensAssumption, EmptyDir, FileState, Contents, BakFiles, Files

-----------------------------------------------------------------------------
(* The operations *)

LEMMA InitStorage == Init => IInv
  <1> SUFFICES ASSUME Init PROVE IInv
    OBVIOUS
  <1>1. DOMAIN tree = {}
    BY DEF Init
  <1>2. Typed
    BY <1>1, TokenFacts DEF Init, Typed, NothingSaved, Ids
  <1>3. Agreed
    BY <1>1, TokenFacts DEF Init, Agreed, Load, NothingSaved, Ids
  <1>. QED BY <1>1, <1>2, <1>3 DEF IInv, Emptied

LEMMA CreateKeeps == IInv /\ CreateBackup => IInv'
  <1> SUFFICES ASSUME IInv, CreateBackup PROVE IInv'
    OBVIOUS
  <1> DEFINE n == NextNumber(tree)
  <1>1. n \in Ids
    BY NextPositive, MaxIdAssumption DEF IInv, CreateBackup, Ids, MaxIdAssumption
  <1>2. /\ tree' = MakeDir(tree, n) /\ made' = made \cup {n} /\ saved' = saved
    BY DEF CreateBackup
  <1> HIDE DEF n
  <1>3. /\ DOMAIN tree' = DOMAIN tree \cup {n}
        /\ \A j \in DOMAIN tree : tree'[j] = tree[j]
        /\ n \notin DOMAIN tree => tree'[n] = EmptyDir
        /\ tree' = [j \in DOMAIN tree' |-> tree'[j]]
    BY <1>2 DEF MakeDir
  <1>4. Typed'
    <2>1. \A j \in DOMAIN tree' : tree'[j] \in [Files -> FileState]
      BY <1>3, TokenFacts DEF IInv, Typed
    <2>. QED BY <1>1, <1>2, <1>3, <2>1 DEF IInv, Typed
  <1>5. Emptied'
    BY <1>2, <1>3 DEF IInv, Emptied
  <1>6. Agreed'
    <2> SUFFICES ASSUME NEW i \in Ids, NEW f \in BakFiles
                 PROVE  Load(tree', i, f) = Load(tree, i, f)
      BY <1>2 DEF IInv, Agreed
    <2>1. CASE i \in DOMAIN tree
      BY <1>3, <2>1 DEF Load
    <2>2. CASE i \notin DOMAIN tree
      BY <1>3, <2>2, TokenFacts DEF Load, EmptyDir
    <2>. QED BY <2>1, <2>2
  <1>. QED BY <1>4, <1>5, <1>6 DEF IInv

LEMMA SaveKeeps ==
    ASSUME IInv, NEW i \in made, NEW f \in Files,
           NEW v \in FileState \ {NoFile, Torn, Nothing}, Save(i, f, v)
    PROVE  IInv'
  <1>1. /\ tree' = WriteFile(tree, i, f, v) /\ saved' = [saved EXCEPT ![i][f] = v]
        /\ made' = made
    BY DEF Save
  <1>2. i \in DOMAIN tree /\ i \in Ids /\ i \in DOMAIN saved
    BY DEF IInv, Typed
  <1>3. /\ DOMAIN tree' = DOMAIN tree
        /\ tree' \in [DOMAIN tree -> [Files -> FileState]]
        /\ \A j \in DOMAIN tree, g \in Files :
               tree'[j][g] = IF j = i /\ g = f THEN v ELSE tree[j][g]
    BY <1>1, <1>2 DEF IInv, Typed, WriteFile
  <1>4. /\ saved' \in [Ids -> [Files -> FileState \cup {Nothing}]]
        /\ \A j \in Ids, g \in Files :
               saved'[j][g] = IF j = i /\ g = f THEN v ELSE saved[j][g]
    BY <1>1, <1>2 DEF IInv, Typed
  <1>5. Typed'
    BY <1>1, <1>3, <1>4 DEF IInv, Typed
  <1>6. Emptied'
    BY <1>1, <1>3, TokenFacts DEF IInv, Emptied
  <1>7. Agreed'
    BY <1>2, <1>3, <1>4, TokenFacts DEF IInv, Agreed, Load
  <1>. QED BY <1>5, <1>6, <1>7 DEF IInv

LEMMA DeleteKeeps ==
    ASSUME IInv, NEW i \in made, Delete(i)
    PROVE  IInv'
  <1>1. /\ tree' = DeleteBackup(tree, i) /\ made' = made \ {i}
        /\ saved' = [saved EXCEPT ![i] = NothingSaved]
    BY DEF Delete
  <1>2. i \in DOMAIN tree /\ i \in Ids
    BY DEF IInv, Typed
  <1>3. /\ NothingSaved \in [Files -> FileState \cup {Nothing}]
        /\ \A f \in BakFiles : NothingSaved[f] = Nothing
    BY TokenFacts DEF NothingSaved
  <1>4. /\ saved' \in [Ids -> [Files -> FileState \cup {Nothing}]]
        /\ \A j \in Ids : saved'[j] = IF j = i THEN NothingSaved ELSE saved[j]
    BY <1>1, <1>2, <1>3 DEF IInv, Typed
  <1>5. /\ Unlinked(tree[i]) \in [Files -> FileState]
        /\ \A f \in BakFiles : Unlinked(tree[i])[f] = NoFile
    BY <1>2, TokenFacts DEF Unlinked, IInv, Typed
  <1>6. /\ DOMAIN tree' \subseteq DOMAIN tree /\ DOMAIN tree \ {i} \subseteq DOMAIN tree'
        /\ tree' \in [DOMAIN tree' -> [Files -> FileState]]
        /\ \A j \in DOMAIN tree' :
               tree'[j] = IF j = i THEN Unlinked(tree[i]) ELSE tree[j]
    <2>1. CASE Unlinked(tree[i]) = EmptyDir
      BY <1>1, <1>2, <2>1 DEF DeleteBackup, IInv, Typed
    <2>2. CASE Unlinked(tree[i]) # EmptyDir
      <3> DEFINE u == Unlinked(tree[i])
      <3>1. tree' = [tree EXCEPT ![i] = u]
        BY <1>1, <1>2, <2>2 DEF DeleteBackup
      <3> HIDE DEF u
      <3>2. /\ DOMAIN tree' = DOMAIN tree
            /\ \A j \in DOMAIN tree' : tree'[j] = IF j = i THEN u ELSE tree[j]
        BY <3>1 DEF IInv, Typed
      <3>3. u \in [Files -> FileState]
        BY <1>5 DEF u
      <3>4. tree' \in [DOMAIN tree' -> [Files -> FileState]]
        BY <3>1, <3>3 DEF IInv, Typed
      <3>. QED BY <3>2, <3>4 DEF u
    <2>. QED BY <2>1, <2>2
  <1>7. Typed'
    BY <1>1, <1>4, <1>6 DEF IInv, Typed
  <1>8. Emptied'
    BY <1>1, <1>5, <1>6 DEF IInv, Emptied
  <1>9. Agreed'
    <2> SUFFICES ASSUME NEW j \in Ids, NEW f \in BakFiles
                 PROVE  Load(tree', j, f) = saved'[j][f]
      BY DEF Agreed
    <2>1. CASE j = i
      BY <1>3, <1>4, <1>5, <1>6, <2>1 DEF Load
    <2>2. CASE j # i
      BY <1>4, <1>6, <2>2 DEF Load, IInv, Agreed
    <2>. QED BY <2>1, <2>2
  <1>. QED BY <1>7, <1>8, <1>9 DEF IInv

LEMMA NextStorage == IInv /\ [Next]_vars => IInv'
  <1> SUFFICES ASSUME IInv, [Next]_vars PROVE IInv'
    OBVIOUS
  <1>1. CASE CreateBackup
    BY <1>1, CreateKeeps
  <1>2. CASE SaveFile
    <2>1. PICK i \in made, f \in BakFiles, d \in Data : Save(i, f, d)
      BY <1>2 DEF SaveFile
    <2>. QED BY <2>1, SaveKeeps, TokenFacts
  <1>3. CASE SaveBackupName
    <2>1. PICK i \in made, n \in Names : Save(i, "name", n)
      BY <1>3 DEF SaveBackupName
    <2>2. "name" \in Files
      BY DEF Files
    <2>. QED BY <2>1, <2>2, SaveKeeps, TokenFacts
  <1>4. ASSUME NEW i \in made, Delete(i) PROVE IInv'
    BY <1>4, DeleteKeeps
  <1>5. CASE UNCHANGED vars
    BY <1>5 DEF vars, IInv, Typed, Emptied, Agreed
  <1>. QED BY <1>1, <1>2, <1>3, <1>4, <1>5 DEF Next

\* Whatever the caller creates, saves and deletes, in any order, with numbers that are
\* freed and given again: every file of a backup reads back as saved last, and
\* nothing is listed that is not in use.
THEOREM SavedReadsBack == Spec => []ReadsBack
  <1>1. ASSUME IInv PROVE ReadsBack
    BY <1>1, TokenFacts DEF IInv, Typed, Emptied, Agreed, ReadsBack, Ids, Listed
  <1>. QED BY <1>1, InitStorage, NextStorage, PTL DEF Spec
=============================================================================
