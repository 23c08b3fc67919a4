---------------------------- MODULE ServerStorage ----------------------------
(***************************************************************************)
(* The backup tree of one user, and what each method of ServerStorage does *)
(* to it (libbackup/src/network/ServerStorage.cpp).                        *)
(*                                                                         *)
(* A tree is a function from the numbers of the existing directories       *)
(* backup_NNNNNN to their four files. A file is NoFile when it does not    *)
(* exist, Torn when it was opened with truncation and its bytes are not    *)
(* written (yet), and its contents otherwise. Contents are tokens: Data    *)
(* names one uploaded .bak with its metadata, Archived a .bak stored       *)
(* before the run, Names the user-chosen backup names. Nothing stands for  *)
(* the empty byte vector and the empty string.                             *)
(*                                                                         *)
(* The module has no state: the machines that call these methods own the   *)
(* trees and decide which calls are separate steps.                        *)
(***************************************************************************)
EXTENDS Integers, FiniteSets

CONSTANTS
    Data,       \* uploads, each with contents of its own
    Archived,   \* the contents of the backups stored before the run
    Names,      \* user-chosen, non-empty backup names
    NoFile,     \* the file does not exist
    Torn,       \* the file exists and its contents are not written
    Nothing,    \* the empty byte vector, the empty string
    Width       \* setw in createBackup; 6 in the code

\* Definitions named Mutant_X are wrong forms of X, each a mistake the code could
\* plausibly contain. No specification uses them: they replace X to show that
\* the properties can fail.

Contents == Data \cup {Archived}

ASSUME TokensAssumption ==
    /\ (Contents \cup Names) \cap {NoFile, Torn, Nothing} = {}
    /\ Contents \cap Names = {}
    /\ Archived \notin Data
    /\ NoFile # Torn /\ NoFile # Nothing /\ Torn # Nothing

ASSUME WidthAssumption == Width \in Nat \ {0}

Files == {"header", "payload", "metadata", "name"}

FileState == Contents \cup Names \cup {NoFile, Torn}

\* The files that hold the backup itself; the fourth, .name, is a label on it.
BakFiles == Files \ {"name"}

EmptyDir == [f \in Files |-> NoFile]

IsTree(tree) ==
    /\ DOMAIN tree \subseteq Nat \ {0} /\ IsFiniteSet(DOMAIN tree)
    /\ tree \in [DOMAIN tree -> [Files -> FileState]]

-----------------------------------------------------------------------------
\* Backup IDs are compared as strings (std::sort in listBackups): decimal,
\* zero-padded to Width digits, longer beyond.

\* n without its last k digits.
Cut(n, k) ==
    LET rest[i \in 0 .. k] == IF i = 0 THEN n ELSE rest[i - 1] \div 10
    IN rest[k]

Mutant_Digits(n) ==                             \* no setw, no setfill
    CHOOSE d \in 1 .. n + 1 : Cut(n, d) = 0 /\ (d > 1 => Cut(n, d - 1) # 0)

Digits(n) == CHOOSE d \in Width .. Width + n :
                 Cut(n, d) = 0 /\ (d > Width => Cut(n, d - 1) # 0)

\* The first digits of both, as many as the shorter has, decide; or else the length.
IdBefore(m, n) ==
    LET extra == Digits(m) - Digits(n)
        a == IF extra > 0 THEN Cut(m, extra) ELSE m
        b == IF extra < 0 THEN Cut(n, -extra) ELSE n
    IN  a < b \/ (a = b /\ extra < 0)

\* listBackups: the directories that have a header.bin, complete or not.
Listed(tree) == {i \in DOMAIN tree : tree[i]["header"] # NoFile}

\* getLatestBackupId: i is the last of the sorted list.
IsLatest(tree, i) ==
    i \in Listed(tree) /\ \A j \in Listed(tree) \ {i} : IdBefore(j, i)

Highest(N) == CHOOSE m \in N : \A n \in N : n <= m

Mutant_NextNumber(tree) ==                      \* no + 1
    IF Listed(tree) = {} THEN 1 ELSE Highest(Listed(tree))

Mutant_NextNumber_AnyDir(tree) ==               \* empty directories count
    IF DOMAIN tree = {} THEN 1 ELSE Highest(DOMAIN tree) + 1

\* getNextBackupNumber: directories without a header.bin do not count.
NextNumber(tree) == IF Listed(tree) = {} THEN 1 ELSE Highest(Listed(tree)) + 1

-----------------------------------------------------------------------------
\* Reading: a missing and an empty file both give an empty result.
Load(tree, i, f) ==
    IF i \in DOMAIN tree /\ tree[i][f] \notin {NoFile, Torn}
    THEN tree[i][f] ELSE Nothing

BackupName(tree, i) == Load(tree, i, "name")

Mutant_NameExists(tree, n) ==                   \* only the latest one compared
    \E i \in Listed(tree) : IsLatest(tree, i) /\ BackupName(tree, i) = n

\* findBackupByName, of which the callers only use whether it found one.
NameExists(tree, n) == \E i \in Listed(tree) : BackupName(tree, i) = n

-----------------------------------------------------------------------------
\* Writing. mkdir of createBackup succeeds when the directory exists already.
MakeDir(tree, i) ==
    [j \in DOMAIN tree \cup {i} |-> IF j \in DOMAIN tree THEN tree[j] ELSE EmptyDir]

\* std::ofstream on the file: created, or truncated when it exists ...
OpenFile(tree, i, f) == [tree EXCEPT ![i][f] = Torn]

\* ... and its bytes written.
WriteFile(tree, i, f, v) == [tree EXCEPT ![i][f] = v]

\* deleteBackup unlinks three files by name; its rmdir then fails, and leaves
\* the directory, when a .name is still in it.
Mutant_Unlinked(dir) == [f \in Files |-> IF f = "header" THEN NoFile ELSE dir[f]]

Unlinked(dir) == [f \in Files |-> IF f \in BakFiles THEN NoFile ELSE dir[f]]

DeleteBackup(tree, i) ==
    IF i \notin DOMAIN tree THEN tree
    ELSE IF Unlinked(tree[i]) = EmptyDir
         THEN [j \in DOMAIN tree \ {i} |-> tree[j]]
         ELSE [tree EXCEPT ![i] = Unlinked(@)]
=============================================================================
