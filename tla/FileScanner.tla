----------------------------- MODULE FileScanner -----------------------------
(***************************************************************************)
(* The scan of a source tree (libbackup/src/core/FileScanner.cpp), one     *)
(* system call per step, while other programs write and remove files.      *)
(*                                                                         *)
(* The tree is given by Parent; what changes is which entries exist, and   *)
(* the size and version of each. A version stands for the bytes of a file  *)
(* and for the target of a link. Entries that appear during the scan are   *)
(* like entries the scan began too early for, and are left out.            *)
(***************************************************************************)
EXTENDS FileFilter, Sequences, FiniteSets

CONSTANTS
    Nodes,          \* the entries below the source directory
    Root,           \* the source directory
    Parent,         \* Parent[n]: the directory n is in
    Above,          \* Above[n]: the directories between Root and n
    Attr,           \* Attr[n]: what lstat says of n, but for its size
    Size0,          \* Size0[n]: the size of n when the scan begins
    Locked,         \* entries the program may not open
    Sizes,          \* sizes another program gives to a file
    Filters,        \* the filters to scan with, each a set of rows
    MaxTouch        \* bound: changes by other programs during a scan

Dirs == {n \in Nodes : Attr[n].type = "d"}

ASSUME TreeAssumption ==
    /\ Root \notin Nodes
    /\ Parent \in [Nodes -> Dirs \cup {Root}]
    /\ Above \in [Nodes -> SUBSET Dirs]
    /\ \A n \in Nodes : Above[n] = IF Parent[n] = Root THEN {}
                                   ELSE Above[Parent[n]] \cup {Parent[n]}
    /\ \A n \in Nodes : n \notin Above[n]
    /\ \A n \in Nodes : \A a \in Above[n] : Above[a] \subseteq Above[n]
    /\ IsFiniteSet(Nodes)

\* What lstat says of a type, a day and an id.
ASSUME AttrAssumption ==
    \A n \in Nodes :
        Attr[n].type \in Types /\ Attr[n].mtime \in Int /\ Attr[n].owner \in Nat

\* The values a user can write. An id is digits, or a name, known or not.
ASSUME FilterAssumption ==
    /\ \A id \in DOMAIN IdOf : id \notin Int /\ IdOf[id] \in Nat
    /\ \A f \in Filters : \A row \in f :
           /\ row.time.d \in Int \cup {Short} /\ row.time.d2 \in Int \cup {Short}
           /\ row.size.op \in {"+", ">", "-", "<", ">=", "<=", "=", "", ":"}
           /\ row.size.unit \in {"", "B", "K", "M", "G"}
           /\ row.size.n \in Nat /\ row.size.n2 \in Nat
           /\ row.id \in Int => row.id \in Nat

ASSUME SizeAssumption ==
    /\ Sizes \subseteq Nat /\ Size0 \in [Nodes -> Nat] /\ MaxTouch \in Nat

VARIABLES
    fs,         \* fs[n]: whether n exists, its size and its version
    rows,       \* the filter as the user wrote it
    front,      \* where: on the command line ("cli") or in the window ("gui")
    rules,      \* the filter as it was read
    pc,         \* "open", "next", "read", "done": the next system call
    stack,      \* the open directories: what readdir will still return, and
                \* whether an ancestor passed the filter (inIncludedSubtree)
    entry,      \* the entry to read or the directory to open
    result,     \* the entries found
    touched     \* history: the entries other programs changed

vars == <<fs, rows, front, rules, pc, stack, entry, result, touched>>

filter == <<rows, front, rules>>

Children(d) == {n \in Nodes : Parent[n] = d}

\* What FileInfo::fromStat records of n when its size is size.
Stat(n, size) ==
    [path |-> n, name |-> Attr[n].name, type |-> Attr[n].type,
     mtime |-> Attr[n].mtime, atime |-> Attr[n].mtime, ctime |-> Attr[n].mtime,
     size |-> IF Attr[n].type = "f" THEN size ELSE 0,
     owner |-> Attr[n].owner, group |-> Attr[n].owner]

\* Bytes of a file: of which version, how many the entry has, and how many of
\* them came from the file (the rest is zero).
NoContent == [version |-> 0, length |-> 0, read |-> 0]

Init ==
    /\ fs = [n \in Nodes |-> [there |-> TRUE, size |-> Size0[n], version |-> 1]]
    /\ rows \in Filters /\ front \in {"cli", "gui"}
    /\ \A row \in rows : front = "gui" => Short \notin {row.time.d, row.time.d2}
    /\ rules = IF front = "cli" THEN parse(rows) ELSE buildFilter(rows)
    /\ pc = "open" /\ stack = <<>> /\ result = <<>> /\ touched = {}
    /\ entry = [node |-> Root, size |-> 0, included |-> FALSE, recurse |-> TRUE]

-----------------------------------------------------------------------------
Top == stack[Len(stack)]

CanOpen(n) == n \notin Locked /\ (n # Root => fs[n].there)

Mutant_Open ==                                  \* tries again until it can
    /\ pc = "open" /\ CanOpen(entry.node)
    /\ stack' = Append(stack, [dir |-> entry.node, included |-> entry.included,
                               todo |-> {n \in Children(entry.node) : fs[n].there}])
    /\ pc' = "next"
    /\ UNCHANGED <<fs, filter, entry, result, touched>>

\* opendir on the directory of entry. The names it holds are what readdir will
\* return; a directory that cannot be opened is a warning, and is left empty.
Open ==
    /\ pc = "open"
    /\ IF CanOpen(entry.node)
       THEN /\ stack' = Append(stack,
                   [dir |-> entry.node, included |-> entry.included,
                    todo |-> {n \in Children(entry.node) : fs[n].there}])
            /\ pc' = "next"
       ELSE /\ pc' = IF stack = <<>> THEN "done" ELSE "next"
            /\ UNCHANGED stack
    /\ UNCHANGED <<fs, filter, entry, result, touched>>

Mutant_Take(n) ==                               \* the same name again
    /\ pc = "next" /\ n \in Top.todo
    /\ UNCHANGED <<fs, filter, stack, result, touched>>

\* readdir returns names in any order.
Take(n) ==
    /\ pc = "next" /\ n \in Top.todo
    /\ stack' = [stack EXCEPT ![Len(stack)].todo = @ \ {n}]
    /\ UNCHANGED <<fs, filter, result, touched>>

\* The entry was removed since: lstat fails, and a warning is all.
Vanished(n) ==
    /\ ~ fs[n].there
    /\ Take(n)
    /\ UNCHANGED <<pc, entry>>

\* What scanRecursive decides about an entry from its stat: whether it is kept,
\* whether it is entered, and whether everything in it is accepted.
Keep(info, included) ==
    IF included THEN info.type = "d" \/ ~ isExcluded(rules, info)
    ELSE matches(rules, info)

Mutant_Enter(info) == info.type = "d" /\ matches(rules, info)   \* only kept ones

Enter(info) == info.type = "d" /\ ~ isExcluded(rules, info)

Included(info, included) == included \/ matches(rules, info)

Visit(n) ==
    LET info == Stat(n, fs[n].size) inc == Top.included IN
    /\ fs[n].there
    /\ Take(n)
    /\ entry' = [node |-> n, size |-> info.size, included |-> Included(info, inc),
                 recurse |-> Enter(info)]
    /\ pc' = IF Keep(info, inc) THEN "read"
             ELSE IF Enter(info) THEN "open" ELSE "next"

Mutant_Content(n) ==                            \* one byte is left
    [version |-> fs[n].version, length |-> entry.size,
     read |-> IF entry.size = 0 THEN 0 ELSE entry.size - 1]

\* processEntry. A file has been stat'ed before and is read now: it is read up to
\* the size of its stat, and what is missing by now stays zero.
Content(n) ==
    LET len == IF Attr[n].type = "f" THEN entry.size ELSE 0 IN
    IF ~ fs[n].there \/ (Attr[n].type = "f" /\ (n \in Locked \/ len = 0))
    THEN NoContent
    ELSE [version |-> IF Attr[n].type \in {"f", "l"} THEN fs[n].version ELSE 0,
          length |-> len,
          read |-> IF fs[n].size < len THEN fs[n].size ELSE len]

Read ==
    /\ pc = "read"
    /\ result' = Append(result, [node |-> entry.node, size |-> entry.size,
                                 content |-> Content(entry.node)])
    /\ pc' = IF entry.recurse THEN "open" ELSE "next"
    /\ UNCHANGED <<fs, filter, stack, entry, touched>>

\* readdir is at its end; closedir, and back to the directory above.
Close ==
    /\ pc = "next" /\ Top.todo = {}
    /\ stack' = SubSeq(stack, 1, Len(stack) - 1)
    /\ pc' = IF Len(stack) = 1 THEN "done" ELSE "next"
    /\ UNCHANGED <<fs, filter, entry, result, touched>>

Scanner == Open \/ (\E n \in Nodes : Vanished(n) \/ Visit(n)) \/ Read \/ Close

-----------------------------------------------------------------------------
(* Other programs *)

Touch(n, now) ==
    /\ pc # "done" /\ Cardinality(touched) < MaxTouch
    /\ fs[n].there
    /\ fs' = [fs EXCEPT ![n] = now]
    /\ touched' = touched \cup {n}
    /\ UNCHANGED <<filter, pc, stack, entry, result>>

Write(n, size) ==
    /\ n \notin Dirs
    /\ Touch(n, [there |-> TRUE, size |-> size, version |-> 2])

Remove(n) ==
    /\ \A c \in Children(n) : ~ fs[c].there
    /\ Touch(n, [fs[n] EXCEPT !.there = FALSE])

Others == \E n \in Nodes : Remove(n) \/ \E size \in Sizes : Write(n, size)

Next == Scanner \/ Others

Spec == Init /\ [][Next]_vars

\* The scan is one function call in one thread.
FairSpec == Spec /\ WF_vars(Scanner)

-----------------------------------------------------------------------------
\* The types of the variables.
TypeOK ==
    /\ fs \in [Nodes -> [there : BOOLEAN, size : Nat, version : 1 .. 2]]
    /\ rows \in Filters /\ front \in {"cli", "gui"}
    /\ rules = IF front = "cli" THEN parse(rows) ELSE buildFilter(rows)
    /\ pc \in {"open", "next", "read", "done"}
    /\ stack \in Seq([dir : Dirs \cup {Root}, included : BOOLEAN, todo : SUBSET Nodes])
    /\ entry \in [node : Nodes \cup {Root}, size : Nat, included : BOOLEAN,
                  recurse : BOOLEAN]
    /\ result \in Seq([node : Nodes, size : Nat,
                       content : [version : 0 .. 2, length : Nat, read : Nat]])
    /\ touched \subseteq Nodes

-----------------------------------------------------------------------------
(* The scan as a whole, without the order of its steps *)

Stat0(n) == Stat(n, Size0[n])

\* An entry is reached unless a directory above it is excluded; below a directory
\* that passed the filter everything is kept but excluded files, elsewhere what
\* passes the filter.
Kept(n) ==
    /\ \A a \in Above[n] : ~ isExcluded(rules, Stat0(a))
    /\ IF \E a \in Above[n] : matches(rules, Stat0(a))
       THEN n \in Dirs \/ ~ isExcluded(rules, Stat0(n))
       ELSE matches(rules, Stat0(n))

Found == {result[i].node : i \in 1 .. Len(result)}

\* Nobody touched n or a directory above it, and these can be opened.
Clear(n) ==
    /\ n \notin touched
    /\ Root \notin Locked
    /\ \A a \in Above[n] : a \notin touched /\ a \notin Locked

\* A scan that ends has found every entry that nobody disturbed and that the
\* filter keeps, and no other of them, whatever happened to the rest of the tree
\* and in whatever order the directories were read.
ScanExact == pc = "done" => \A n \in Nodes : Clear(n) => (n \in Found <=> Kept(n))

\* No entry is found twice, and a directory is found before what is in it: the
\* restore goes through the list in this order.
ParentsFirst ==
    \A i, j \in 1 .. Len(result) :
        /\ result[i].node = result[j].node => i = j
        /\ result[i].node \in Above[result[j].node] => i < j

\* The bytes of an entry are those of one version of the file and all of it, or
\* none, unless the file was changed during the scan or cannot be opened.
ContentExact ==
    \A i \in 1 .. Len(result) :
        LET n == result[i].node c == result[i].content IN
        Attr[n].type = "f" /\ n \notin touched \cup Locked =>
            c.length = Size0[n] /\ c.read = c.length

\* Rows whose values are of the forms the usage text lists, for the front end they
\* are given to: the window does not take = in sizes.
Listed(row) ==
    \/ Ignored(row)
    \/ /\ row.type # "long" /\ row.time.d # Short /\ row.time.d2 # Short
       /\ front = "gui" /\ row.dim = "size" => row.size.op \notin {"=", ">=", "<="}

\* The filter accepts exactly the entries the usage text says it does, for every
\* entry of the tree: same dimension OR, across dimensions AND, exclude wins.
FilterAsDocumented ==
    (\A row \in rows : Listed(row)) =>
        \A n \in Nodes : matches(rules, Stat0(n)) <=>
                         Documented({r \in rows : ~ Ignored(r)}, Stat0(n))

\* The scan ends, although files change and vanish under it.
ScanEnds == <>(pc = "done")

-----------------------------------------------------------------------------
(* Claims of the code's own comments and texts that the code does not keep *)

\* A size of the form "=1024", which both front ends offer, is that size.
SizesAsOffered ==
    \A row \in rows : row.dim = "size" /\ row.size.op = "=" =>
        \A n \in Nodes, r \in rules : r.dim = "size" =>
            (Hit(r, Stat0(n)) <=> MeansRow(row, Stat0(n)))

\* An entry hit by an exclude rule is not kept (in an included subtree, an
\* excluded directory is).
ExcludedNotKept ==
    \A i \in 1 .. Len(result) :
        result[i].node \notin touched => ~ isExcluded(rules, Stat0(result[i].node))
=============================================================================
