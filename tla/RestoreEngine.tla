---------------------------- MODULE RestoreEngine ----------------------------
(***************************************************************************)
(* A restore (libbackup/src/core/RestoreEngine.cpp), one system call that  *)
(* changes the disk per step, into a destination that may already hold     *)
(* files. The program may be killed between any two steps, and the restore *)
(* may be run again.                                                       *)
(*                                                                         *)
(* Files is what the metadata of the backup lists, in the order of the     *)
(* scan. The disk maps every path to what is there: a type, and the        *)
(* permissions, the content, the target, the mtime and the owner that go   *)
(* with it. Permissions are "w" and "x" of the owner and "s", the set-id   *)
(* bits. Times are those of the backup, or Now.                            *)
(***************************************************************************)
EXTENDS Integers, Sequences, FiniteSets

CONSTANTS
    Paths,          \* the paths below the destination
    Dest,           \* the destination directory, which exists
    Outside,        \* a file elsewhere, which links may aim at
    Parent,         \* Parent[p]: the directory of p
    Above,          \* Above[p]: the paths between Dest and p
    Rank,           \* the order of the paths as strings
    Backups,        \* the backups: sequences of entries
    Befores,        \* what the destination may hold before
    Me,             \* the user who restores, if not root
    MaxRuns         \* bound: runs of the restore

Nodes == Paths \cup {Dest, Outside}

Types == {"f", "d", "l", "p", "c", "s"}

Now == 0
Empty == 0          \* the content of a new file
Nowhere == Dest     \* the target of what is no link

Absent == [type |-> "none", perm |-> {}, content |-> Empty, target |-> Nowhere,
           mtime |-> Now, owner |-> 0]

ASSUME PathAssumption ==
    /\ Dest \notin Paths /\ Outside \notin Paths /\ Dest # Outside
    /\ Parent \in [Paths -> Paths \cup {Dest}]
    /\ Above \in [Paths -> SUBSET Paths]
    /\ \A p \in Paths : Above[p] = IF Parent[p] = Dest THEN {}
                                   ELSE Above[Parent[p]] \cup {Parent[p]}
    /\ Rank \in [Paths -> Nat]

\* The paths are a finite tree.
ASSUME TreeAssumption ==
    /\ IsFiniteSet(Paths)
    /\ \A p \in Paths : p \notin Above[p] /\ \A a \in Above[p] : Above[a] \subseteq Above[p]

Entry == [path : Paths, type : Types, perm : SUBSET {"w", "x", "s"}, content : Nat,
          target : Nodes, mtime : Nat \ {Now}, owner : Nat]

Node == [type : Types \cup {"none"}, perm : SUBSET {"w", "x", "s"}, content : Nat,
         target : Nodes, mtime : Nat, owner : Nat]

ASSUME BackupAssumption ==
    /\ Me \in Nat /\ MaxRuns \in Nat
    /\ \A b \in Backups : b \in Seq(Entry)
    /\ \A before \in Befores : before \in [Nodes -> Node]

\* A scan lists each path once, goes down into directories only, and finds all
\* permissions on links.
ASSUME ListAssumption ==
    \A b \in Backups : \A i, j \in DOMAIN b :
        /\ b[i].path = b[j].path => i = j
        /\ b[i].path \in Above[b[j].path] => b[i].type = "d"
        /\ b[i].type = "l" => b[i].perm = {"w", "x"}

\* What a disk holds, it holds in directories.
Consistent(disk) ==
    \A p \in Paths : disk[p].type # "none" => \A a \in Above[p] : disk[a].type = "d"

ASSUME ConsistentAssumption == \A before \in Befores : Consistent(before)

VARIABLES
    files,          \* the metadata of the backup
    packed,         \* whether the backup has been packed: tar or index
    sound,          \* whether magic and algorithms are known and it decodes
    root,           \* whether the user is root
    fs0,            \* the disk at first
    fs,             \* the disk
    phase,          \* where run is
    todo,           \* the entries this phase still has to go through
    call,           \* the next system call for the entry
    out,            \* the open file, or Dest when there is none
    runs            \* how many runs have begun

vars == <<files, packed, sound, root, fs0, fs, phase, todo, call, out, runs>>

given == <<files, packed, sound, root, fs0>>

Entries == DOMAIN files

Init ==
    /\ files \in Backups /\ fs0 \in Befores /\ fs = fs0
    /\ packed \in BOOLEAN /\ sound \in BOOLEAN /\ root \in BOOLEAN
    /\ phase = "begin" /\ todo = {} /\ call = "none" /\ out = Dest /\ runs = 0

-----------------------------------------------------------------------------
(* What the kernel allows. The destination itself may be written; other entries *)
(* are the user's. *)

Searchable(disk, d) == disk[d].type = "d" /\ (root \/ "x" \in disk[d].perm)

Reached(disk, p) == p \in Paths => \A a \in Above[p] : Searchable(disk, a)

\* A name may be made in d, or removed from it.
Writable(disk, d) ==
    \/ d = Dest
    \/ Reached(disk, d) /\ Searchable(disk, d) /\ (root \/ "w" \in disk[d].perm)

\* chmod and open follow a link, lchown and utimensat do not.
Followed(disk, p) == IF disk[p].type = "l" THEN disk[p].target ELSE p

New(type, perm, target) ==
    [type |-> type, perm |-> perm, content |-> Empty, target |-> target,
     mtime |-> Now, owner |-> IF root THEN 0 ELSE Me]

\* A name in d has been made or removed.
Stamped(disk, d) == IF d = Dest THEN disk ELSE [disk EXCEPT ![d].mtime = Now]

CanMake(disk, p) ==
    p \in Paths /\ disk[p].type = "none" /\ Writable(disk, Parent[p])

Make(disk, p, node) == Stamped([disk EXCEPT ![p] = node], Parent[p])

CanRemove(disk, p) ==
    disk[p].type \notin {"none", "d"} /\ Writable(disk, Parent[p])

Mutant_mkdirRecursive(disk, p) ==               \* makes way for a directory
    LET missing == {d \in Above[p] \cup {p} : disk[d].type # "d"}
        last == CHOOSE d \in {Parent[m] : m \in missing} : d \notin missing
        made == [q \in Nodes |-> IF q \in missing THEN New("d", {"w", "x"}, Nowhere)
                                                  ELSE disk[q]]
    IN IF missing = {} \/ ~ Writable(disk, last) THEN disk ELSE Stamped(made, last)

\* mkdirRecursive: the directories on the way that are missing, if the last one
\* that exists lets them be made.
mkdirRecursive(disk, p) ==
    LET missing == {d \in Above[p] \cup {p} : disk[d].type = "none"}
        last == CHOOSE d \in {Parent[m] : m \in missing} : d \notin missing
        made == [q \in Nodes |-> IF q \in missing THEN New("d", {"w", "x"}, Nowhere)
                                                  ELSE disk[q]]
    IN IF missing = {} \/ ~ Writable(disk, last) THEN disk ELSE Stamped(made, last)

MkdirFor(p) == IF Parent[p] = Dest THEN fs ELSE mkdirRecursive(fs, Parent[p])

-----------------------------------------------------------------------------
(* The run *)

\* A file is in the archive when it was packed, or when it has a content: the raw
\* format leaves files without one out.
InArchive(i) == packed \/ files[i].content # Empty

Phases == {"dirs", "links", "special", "files", "meta"}

Of(ph) ==
    {i \in DOMAIN files :
        \/ ph = "dirs" /\ files[i].type = "d"
        \/ ph = "links" /\ files[i].type = "l"
        \/ ph = "special" /\ files[i].type \in {"p", "c"}
        \/ ph = "files" /\ files[i].type = "f" /\ InArchive(i)
        \/ ph = "meta"}

FirstCall == [dirs |-> "mkdir", links |-> "unlink", special |-> "unlink",
              files |-> "open", meta |-> "chmod", done |-> "none"]

Mutant_Follows ==                               \* the metadata before the files
    [dirs |-> "links", links |-> "special", special |-> "meta",
     meta |-> "files", files |-> "done"]

Follows == [dirs |-> "links", links |-> "special", special |-> "files",
            files |-> "meta", meta |-> "done"]

Mutant_Enter(ph) ==                             \* counts from 0
    phase' = ph /\ todo' = Of(ph) \cup {0} /\ call' = FirstCall[ph]

Enter(ph) == phase' = ph /\ todo' = Of(ph) /\ call' = FirstCall[ph]

\* The archive is read and decoded whole before the disk is changed.
Begin ==
    /\ phase = "begin"
    /\ IF sound THEN Enter("dirs")
                ELSE phase' = "refused" /\ UNCHANGED <<todo, call>>
    /\ UNCHANGED <<given, fs, out, runs>>

NextPhase ==
    /\ phase \in Phases /\ todo = {}
    /\ Enter(Follows[phase])
    /\ UNCHANGED <<given, fs, out, runs>>

\* The directories are sorted by their path, the rest is in the order of the list.
Turn(i) ==
    /\ i \in todo
    /\ \A j \in todo : IF phase = "dirs" THEN Rank[files[i].path] <= Rank[files[j].path]
                                         ELSE i <= j

\* A call for entry i, and the one that comes after it.
Calls(i, name, next) ==
    /\ Turn(i)
    /\ call = name /\ call' = next
    /\ todo' = IF next = FirstCall[phase] THEN todo \ {i} ELSE todo
    /\ UNCHANGED <<given, phase, runs>>

Mutant_MakeDir(i) ==                            \* with the permissions it will have
    LET p == files[i].path disk == mkdirRecursive(fs, p) IN
    /\ Calls(i, "mkdir", "mkdir")
    /\ fs' = IF disk = fs THEN fs ELSE [disk EXCEPT ![p].perm = files[i].perm]
    /\ UNCHANGED out

MakeDir(i) ==
    /\ Calls(i, "mkdir", "mkdir")
    /\ fs' = mkdirRecursive(fs, files[i].path)
    /\ UNCHANGED out

\* The directories above, and whatever else was at the place of a link, a pipe or
\* a device is removed.
Unlink(i) ==
    LET p == files[i].path disk == MkdirFor(p) IN
    /\ Calls(i, "unlink", "create")
    /\ fs' = IF CanRemove(disk, p) THEN Make(disk, p, Absent) ELSE disk
    /\ UNCHANGED out

\* symlink, mkfifo, mknod; only root may make a device.
Create(i) ==
    LET e == files[i] IN
    /\ Calls(i, "create", "unlink")
    /\ fs' = IF CanMake(fs, e.path) /\ (e.type = "c" => root)
             THEN Make(fs, e.path, New(e.type, IF e.type = "l" THEN {"w", "x"}
                                               ELSE e.perm \ {"s"}, e.target))
             ELSE fs
    /\ UNCHANGED out

\* ofstream: the file is made, or opened and emptied; a link is followed to it.
Open(i) ==
    LET p == files[i].path
        disk == MkdirFor(p)
        t == Followed(disk, p)
        opens == /\ Reached(disk, p) /\ Reached(disk, t)
                 /\ disk[t].type = "f" /\ (root \/ "w" \in disk[t].perm)
        makes == Reached(disk, p) /\ CanMake(disk, t)
    IN
    /\ Calls(i, "open", "write")
    /\ fs' = IF opens THEN [disk EXCEPT ![t].content = Empty, ![t].mtime = Now]
             ELSE IF makes THEN Make(disk, t, New("f", {"w"}, Nowhere))
             ELSE disk
    /\ out' = IF opens \/ makes THEN t ELSE Dest

Write(i) ==
    /\ Calls(i, "write", "open")
    /\ fs' = IF out = Dest THEN fs ELSE [fs EXCEPT ![out].content = files[i].content]
    /\ out' = Dest

\* restoreMetadata: three calls for every entry of the list, in its order.
May(p) == Reached(fs, p) /\ fs[p].type # "none"

Chmod(i) ==
    LET p == files[i].path t == Followed(fs, p) IN
    /\ Calls(i, "chmod", "lchown")
    /\ fs' = IF May(p) /\ May(t) /\ t # Dest
             THEN [fs EXCEPT ![t].perm = files[i].perm] ELSE fs
    /\ UNCHANGED out

\* lchown takes the set-id bits of what is no directory.
Lchown(i) ==
    LET p == files[i].path owner == files[i].owner IN
    /\ Calls(i, "lchown", "utimes")
    /\ fs' = IF May(p) /\ (root \/ owner = Me)
             THEN [fs EXCEPT ![p].owner = owner,
                             ![p].perm = IF fs[p].type = "d" THEN @ ELSE @ \ {"s"}]
             ELSE fs
    /\ UNCHANGED out

Utimes(i) ==
    LET p == files[i].path IN
    /\ Calls(i, "utimes", "chmod")
    /\ fs' = IF May(p) THEN [fs EXCEPT ![p].mtime = files[i].mtime] ELSE fs
    /\ UNCHANGED out

Call(i) ==
    \/ MakeDir(i) \/ Unlink(i) \/ Create(i) \/ Open(i) \/ Write(i)
    \/ Chmod(i) \/ Lchown(i) \/ Utimes(i)

Restore == Begin \/ NextPhase \/ \E i \in DOMAIN files : Call(i)

\* The program is killed, and the user restores again, or does so after a restore.
Crash ==
    /\ phase \in Phases
    /\ phase' = "killed" /\ out' = Dest /\ call' = "none" /\ todo' = {}
    /\ UNCHANGED <<given, fs, runs>>

Again ==
    /\ phase \in {"killed", "done"} /\ runs < MaxRuns
    /\ phase' = "begin" /\ runs' = runs + 1
    /\ UNCHANGED <<given, fs, todo, call, out>>

Next == Restore \/ Crash \/ Again

Spec == Init /\ [][Next]_vars

-----------------------------------------------------------------------------
\* The types of the variables.
TypeOK ==
    /\ files \in Backups /\ fs0 \in Befores
    /\ packed \in BOOLEAN /\ sound \in BOOLEAN /\ root \in BOOLEAN
    /\ fs \in [Nodes -> Node]
    /\ phase \in Phases \cup {"begin", "refused", "done", "killed"}
    /\ todo \subseteq DOMAIN files
    /\ call \in {"none", "mkdir", "unlink", "create", "open", "write", "chmod",
                 "lchown", "utimes"}
    /\ out \in Nodes
    /\ runs \in Nat

Listed == {files[i].path : i \in DOMAIN files}

\* Links that the restore may go through: those it found at the place of an entry,
\* and those it makes.
OldAims == {fs0[p].target : p \in {q \in Listed : fs0[q].type = "l"}}

Aims == OldAims \cup {files[i].target : i \in {j \in DOMAIN files : files[j].type = "l"}}

\* The files it writes through a link: the ones it found where a file belongs.
Through ==
    {fs0[files[i].path].target :
        i \in {j \in DOMAIN files : files[j].type = "f" /\ fs0[files[j].path].type = "l"}}

\* Whatever the destination held that the backup does not list stays as it was, at
\* every moment and however often the restore is killed and run again. Only what a
\* link aims at is changed.
Untouched ==
    \A p \in Nodes : p \notin Listed \cup Aims /\ fs0[p].type \notin {"none", "d"} =>
        fs[p] = fs0[p]

\* What the destination held keeps the entry from being restored: something else is
\* at its place or above it, or it is closed to the user.
InTheWay(e) ==
    \/ \E a \in Above[e.path] : fs0[a].type \notin {"none", "d"} \/ a \in Through
    \/ \E a \in Above[e.path] : ~ root /\ fs0[a].type = "d" /\ ~ {"w", "x"} \subseteq fs0[a].perm
    \/ fs0[e.path].type \notin {"none", e.type} /\ ("d" \in {e.type, fs0[e.path].type} \/ e.type = "f")
    \/ ~ root /\ e.type = "f" /\ fs0[e.path].type = "f" /\ "w" \notin fs0[e.path].perm

\* Entries a restore makes.
Restorable(i) ==
    LET e == files[i] IN
    /\ e.type # "s" /\ (e.type = "c" => root) /\ (e.type = "f" => InArchive(i))
    /\ e.path \notin Through /\ ~ InTheWay(e)

\* A restore that ends has made every entry it can make, with its content, although
\* earlier ones may have been killed anywhere, and over what they left.
ContentRestored ==
    phase = "done" => \A i \in DOMAIN files : Restorable(i) =>
        LET e == files[i] now == fs[e.path] IN
        /\ now.type = e.type
        /\ e.type = "f" => now.content = e.content
        /\ e.type = "l" => now.target = e.target

\* The directories above stay open to the user when their permissions are restored,
\* and a link that is in the way of another entry does not pass that one's to them.
StaysOpen(e) ==
    root \/ \A a \in Above[e.path] :
               /\ a \notin OldAims
               /\ \A i \in DOMAIN files : files[i].path = a => "x" \in files[i].perm

\* And with its times, its owner when root restores, and its permissions: but for
\* set-id bits of what is no directory, and what a link aims at.
MetadataRestored ==
    phase = "done" => \A i \in DOMAIN files : Restorable(i) /\ StaysOpen(files[i]) =>
        LET e == files[i] now == fs[e.path] IN
        /\ now.mtime = e.mtime
        /\ root => now.owner = e.owner
        /\ e.type # "l" /\ e.path \notin Aims =>
               now.perm = IF e.type = "d" \/ (~ root /\ e.owner # Me) THEN e.perm
                          ELSE e.perm \ {"s"}

-----------------------------------------------------------------------------
(* What the code says of itself that it does not keep *)

\* restoreMetadata gives every entry its permissions back.
PermissionsRestored ==
    phase = "done" => \A i \in DOMAIN files : Restorable(i) /\ files[i].type # "l" =>
        fs[files[i].path].perm = files[i].perm
=============================================================================
