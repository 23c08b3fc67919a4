------------------------------ MODULE StorageApi ------------------------------
(***************************************************************************)
(* ServerStorage as a library: one caller, one user, every writing method  *)
(* in any order (libbackup/include/network/ServerStorage.h). Sessions use  *)
(* it in one fixed order and never delete a backup; the interface allows   *)
(* more.                                                                   *)
(***************************************************************************)
EXTENDS ServerStorage

CONSTANT MaxId      \* bound: the highest number created

ASSUME MaxIdAssumption == MaxId \in Nat

VARIABLES
    tree,       \* the user's tree
    made,       \* history: the numbers createBackup returned, not deleted since
    saved       \* history: what was saved for each file since its last deletion

vars == <<tree, made, saved>>

NothingSaved == [f \in Files |-> Nothing]

Init ==
    /\ tree = [i \in {} |-> EmptyDir]
    /\ made = {}
    /\ saved = [i \in 1 .. MaxId |-> NothingSaved]

CreateBackup ==
    /\ NextNumber(tree) <= MaxId
    /\ tree' = MakeDir(tree, NextNumber(tree))
    /\ made' = made \cup {NextNumber(tree)}
    /\ UNCHANGED saved

Save(i, f, v) ==
    /\ i \in made
    /\ tree' = WriteFile(tree, i, f, v)
    /\ saved' = [saved EXCEPT ![i][f] = v]
    /\ UNCHANGED made

SaveFile == \E i \in made, f \in BakFiles, d \in Data : Save(i, f, d)

SaveBackupName == \E i \in made, n \in Names : Save(i, "name", n)

Delete(i) ==
    /\ i \in made
    /\ tree' = DeleteBackup(tree, i)
    /\ made' = made \ {i}
    /\ saved' = [saved EXCEPT ![i] = NothingSaved]

Next == CreateBackup \/ SaveFile \/ SaveBackupName \/ \E i \in made : Delete(i)

Spec == Init /\ [][Next]_vars

-----------------------------------------------------------------------------
(* Properties *)

\* Every file of the backup itself reads back as it was saved last since its
\* number was last deleted, although deletion frees numbers for reuse and a
\* number without a header.bin is handed out again. Nothing is listed that is not
\* in use.
ReadsBack ==
    /\ \A i \in 1 .. MaxId : \A f \in BakFiles : Load(tree, i, f) = saved[i][f]
    /\ Listed(tree) \subseteq made

-----------------------------------------------------------------------------
(* A claim of the header file that the code does not keep *)

\* deleteBackup deletes the backup: also its name is gone when the number is
\* used again.
NamesReadBack ==
    \A i \in made : BackupName(tree, i) = saved[i]["name"]
=============================================================================
