------------------------ MODULE RestoreEngine_proofs ------------------------
(***************************************************************************)
(* Proofs about RestoreEngine, for all values of its constants: any tree   *)
(* of paths, any backup and anything the destination holds before.         *)
(*                                                                         *)
(* First that a restore leaves alone what is not its own (IInv), then that *)
(* it makes the entries with their content (ContentInv: what is above an   *)
(* entry stays a way to it, and what has been made is kept by every later  *)
(* call), then that it restores their metadata (MetaInv).                  *)
(***************************************************************************)
EXTENDS RestoreEngine, FiniteSetTheorems, TLAPS

\* What a restore may change: the entries of the backup, and what links aim at.
Reachable == Listed \cup Aims

\* A disk that differs from the first one only where a restore may change it, and
\* on which the links at the places of entries aim where Aims says.
Legal(disk) ==
    /\ disk \in [Nodes -> Node]
    /\ \A p \in Nodes : p \notin Reachable /\ fs0[p].type \notin {"none", "d"} =>
           disk[p] = fs0[p]
    /\ \A p \in Listed : disk[p].type = "l" => disk[p].target \in Aims

\* The inductive invariant: Untouched, and why the links do not lead elsewhere.
IInv ==
    /\ TypeOK
    /\ Legal(fs)
    /\ out \in Reachable \cup {Dest}

\* A new disk is legal in the next state when it is in this one.
Given == UNCHANGED given

-----------------------------------------------------------------------------
(* The entries, and single changes of the disk *)

LEMMA EntryType ==
  ASSUME TypeOK, NEW i \in DOMAIN files
  PROVE  /\ files[i] \in Entry
         /\ files[i].path \in Paths
         /\ files[i].path \in Listed
         /\ files[i].type = "l" => files[i].target \in Aims
<1>1. files \in Seq(Entry)
  BY BackupAssumption DEF TypeOK
<1>2. files[i] \in Entry
  BY <1>1
<1> QED
  BY <1>2 DEF Entry, Listed, Aims

LEMMA ListedPaths == ASSUME TypeOK PROVE Listed \subseteq Paths
  BY EntryType DEF Listed

LEMMA NewNode ==
  ASSUME NEW type \in Types, NEW perm \in SUBSET {"w", "x", "s"}, NEW target \in Nodes
  PROVE  /\ New(type, perm, target) \in Node
         /\ New(type, perm, target).type = type
         /\ New(type, perm, target).target = target
<1>1. Me \in Nat
  BY BackupAssumption
<1> QED
  BY <1>1 DEF New, Node, Types, Empty, Now

LEMMA AbsentNode == Absent \in Node /\ Absent.type = "none"
  BY DEF Absent, Node, Nodes, Nowhere, Empty, Now

LEMMA ChangeLegal ==
  ASSUME NEW disk, Legal(disk), TypeOK, NEW q \in Nodes, q \in Reachable,
         NEW node \in Node, q \in Listed /\ node.type = "l" => node.target \in Aims
  PROVE  Legal([disk EXCEPT ![q] = node])
<1> DEFINE new == [disk EXCEPT ![q] = node]
<1>1. new \in [Nodes -> Node] /\ \A p \in Nodes : new[p] = IF p = q THEN node ELSE disk[p]
  BY DEF Legal
<1>2. Listed \subseteq Nodes
  BY ListedPaths DEF Nodes
<1> QED
  BY <1>1, <1>2 DEF Legal

\* A directory is stamped when a name in it is made or removed.
LEMMA StampLegal ==
  ASSUME NEW disk, Legal(disk), TypeOK, NEW d,
         d = Dest \/ disk[d].type = "d" \/ d \in Reachable
  PROVE  Legal(Stamped(disk, d))
<1> DEFINE new == [disk EXCEPT ![d].mtime = Now]
<1>1. CASE d = Dest
  BY <1>1 DEF Stamped
<1>2. CASE d # Dest
  <2>1. Stamped(disk, d) = new
    BY <1>2 DEF Stamped
  <2>2. disk \in [Nodes -> Node]
    BY DEF Legal
  <2>3. \A p \in Nodes : new[p] = IF p = d THEN [disk[p] EXCEPT !.mtime = Now] ELSE disk[p]
    BY <2>2
  <2>4. \A p \in Nodes : /\ new[p] \in Node
                         /\ new[p].type = disk[p].type
                         /\ new[p].target = disk[p].target
    BY <2>2, <2>3 DEF Node, Now
  <2>5. new \in [Nodes -> Node]
    BY <2>2, <2>4
  <2>6. \A p \in Nodes : p \notin Reachable /\ fs0[p].type \notin {"none", "d"} =>
            new[p] = fs0[p]
    BY <1>2, <2>3 DEF Legal
  <2>7. \A p \in Listed : new[p].type = "l" => new[p].target \in Aims
    BY <2>4, ListedPaths DEF Legal, Nodes
  <2> QED
    BY <2>1, <2>5, <2>6, <2>7 DEF Legal
<1> QED
  BY <1>1, <1>2

\* A name in a directory that lets it be made, or removed.
LEMMA MakeLegal ==
  ASSUME NEW disk, Legal(disk), TypeOK, NEW q \in Paths, q \in Reachable,
         Writable(disk, Parent[q]),
         NEW node \in Node, q \in Listed /\ node.type = "l" => node.target \in Aims
  PROVE  Legal(Make(disk, q, node))
<1> DEFINE d == Parent[q]
           new == [disk EXCEPT ![q] = node]
<1>1. q \in Nodes
  BY DEF Nodes
<1>2. Legal(new)
  BY <1>1, ChangeLegal
<1>3. d = Dest \/ disk[d].type = "d"
  BY DEF Writable, Searchable
<1>4. d \in Nodes
  BY PathAssumption DEF Nodes
<1>5. d = Dest \/ new[d].type = "d" \/ d \in Reachable
  BY <1>1, <1>3, <1>4 DEF Legal
<1> QED
  BY <1>2, <1>5, StampLegal DEF Make

\* mkdirRecursive makes directories only where there was nothing.
LEMMA MkdirLegal ==
  ASSUME NEW disk, Legal(disk), TypeOK, NEW p \in Paths
  PROVE  Legal(mkdirRecursive(disk, p))
<1> DEFINE missing == {d \in Above[p] \cup {p} : disk[d].type = "none"}
           last == CHOOSE d \in {Parent[m] : m \in missing} : d \notin missing
           made == [q \in Nodes |-> IF q \in missing THEN New("d", {"w", "x"}, Nowhere)
                                                     ELSE disk[q]]
<1>1. CASE missing = {} \/ ~ Writable(disk, last)
  BY <1>1 DEF mkdirRecursive
<1>2. CASE ~ (missing = {} \/ ~ Writable(disk, last))
  <2>1. mkdirRecursive(disk, p) = Stamped(made, last)
    BY <1>2 DEF mkdirRecursive
  <2>2. /\ New("d", {"w", "x"}, Nowhere) \in Node
        /\ New("d", {"w", "x"}, Nowhere).type = "d"
    BY NewNode DEF Types, Nowhere, Nodes
  <2>3. made \in [Nodes -> Node]
    BY <2>2 DEF Legal
  <2>4. \A q \in missing : disk[q].type = "none"
    OBVIOUS
  <2>5. \A q \in Nodes : q \notin Reachable /\ fs0[q].type \notin {"none", "d"} =>
            made[q] = fs0[q]
    BY <2>4 DEF Legal
  <2>6. \A q \in Listed : made[q].type = "l" => made[q].target \in Aims
    BY <2>2, ListedPaths DEF Legal, Nodes
  <2>7. Legal(made)
    BY <2>3, <2>5, <2>6 DEF Legal
  <2>8. last = Dest \/ disk[last].type = "d"
    BY <1>2 DEF Writable, Searchable
  <2>9. CASE last \in Nodes
    <3>1. last = Dest \/ made[last].type = "d"
      BY <2>2, <2>8, <2>9
    <3>2. ASSUME NEW m, Legal(m), NEW d, d = Dest \/ m[d].type = "d"
          PROVE  Legal(Stamped(m, d))
      BY <3>2, StampLegal
    <3> HIDE DEF made, last
    <3> QED
      BY <2>1, <2>7, <3>1, <3>2
  <2>10. CASE last \notin Nodes
    <3>1. last # Dest
      BY <2>10 DEF Nodes
    <3>2. Stamped(made, last) = made
      BY <2>3, <2>10, <3>1 DEF Stamped
    <3> QED
      BY <2>1, <2>7, <3>2
  <2> QED
    BY <2>9, <2>10
<1> QED
  BY <1>1, <1>2

LEMMA MkdirForLegal ==
  ASSUME TypeOK, Legal(fs), NEW p \in Paths
  PROVE  Legal(MkdirFor(p))
<1>1. Parent[p] # Dest => Parent[p] \in Paths
  BY PathAssumption
<1> QED
  BY <1>1, MkdirLegal DEF MkdirFor

\* Where a call that follows links ends.
LEMMA FollowedReachable ==
  ASSUME NEW disk, Legal(disk), TypeOK, NEW p \in Listed
  PROVE  Followed(disk, p) \in Nodes \cap Reachable
<1>1. p \in Nodes
  BY ListedPaths DEF Nodes
<1>2. disk[p].target \in Nodes
  BY <1>1 DEF Legal, Node
<1> QED
  BY <1>1, <1>2 DEF Followed, Legal, Reachable

-----------------------------------------------------------------------------
(* The steps *)

\* The disk of a step becomes the disk of the next state.
LEMMA StepLegal ==
  ASSUME Given, Legal(fs'), TypeOK', out' \in Reachable \cup {Dest}
  PROVE  IInv'
<1>1. files' = files /\ fs0' = fs0
  BY DEF Given, given
<1>2. Listed' = Listed /\ Aims' = Aims
  BY <1>1 DEF Listed, Aims, OldAims
<1>3. Legal(fs)'
  BY <1>1, <1>2 DEF Legal, Reachable
<1> QED
  BY <1>2, <1>3 DEF IInv, Reachable

\* A step that keeps the run where the phases are.
LEMMA TypeStep ==
  ASSUME TypeOK, Given, UNCHANGED <<phase, runs>>, fs' \in [Nodes -> Node],
         todo' \subseteq todo,
         call' \in {"mkdir", "unlink", "create", "open", "write", "chmod", "lchown", "utimes"},
         out' \in Nodes
  PROVE  TypeOK'
  BY DEF TypeOK, Given, given

LEMMA Initially == Init => IInv
<1> SUFFICES ASSUME Init PROVE IInv
  OBVIOUS
<1>1. fs0 \in [Nodes -> Node]
  BY BackupAssumption DEF Init
<1>2. TypeOK
  BY <1>1 DEF Init, TypeOK, Phases, Nodes
<1>3. Listed \subseteq Nodes
  BY <1>2, ListedPaths DEF Nodes
<1>4. Legal(fs)
  BY <1>1, <1>3 DEF Init, Legal, Reachable, Aims, OldAims
<1> QED
  BY <1>2, <1>4 DEF IInv, Init

LEMMA EntryStep ==
  ASSUME IInv, NEW i \in DOMAIN files, Call(i)
  PROVE  IInv'
<1> DEFINE p == files[i].path
           e == files[i]
           disk == MkdirFor(p)
<1>0. /\ TypeOK /\ Legal(fs)
      /\ e \in Entry /\ p \in Paths /\ p \in Listed /\ p \in Nodes /\ p \in Reachable
      /\ e.type = "l" => e.target \in Aims
  BY EntryType DEF IInv, Nodes, Reachable
<1>1. fs \in [Nodes -> Node] /\ Dest \in Nodes /\ out \in Nodes
  BY <1>0 DEF TypeOK, Nodes
<1>2. Legal(disk)
  BY <1>0, MkdirForLegal
<1>3. ASSUME NEW name, NEW next, Calls(i, name, next),
             next \in {"mkdir", "unlink", "create", "open", "write", "chmod", "lchown",
                       "utimes"},
             Legal(fs'), out' \in Nodes, out' \in Reachable \cup {Dest}
      PROVE  IInv'
  <2>1. Given /\ UNCHANGED <<phase, runs>> /\ todo' \subseteq todo /\ call' = next
    BY <1>3 DEF Calls, Given
  <2>2. TypeOK'
    BY <1>0, <1>3, <2>1, TypeStep DEF Legal
  <2> QED
    BY <1>3, <2>1, <2>2, StepLegal
<1>4. CASE MakeDir(i)
  <2>1. Legal(fs') /\ out' = out
    BY <1>0, <1>4, MkdirLegal DEF MakeDir
  <2> QED
    BY <1>1, <1>3, <1>4, <2>1 DEF MakeDir, IInv
<1>5. CASE Unlink(i)
  <2>1. ASSUME CanRemove(disk, p) PROVE Legal(Make(disk, p, Absent))
    <3>1. Writable(disk, Parent[p])
      BY <2>1 DEF CanRemove
    <3> QED
      BY <1>0, <1>2, <3>1, AbsentNode, MakeLegal
  <2>2. Legal(fs') /\ out' = out
    BY <1>2, <1>5, <2>1 DEF Unlink
  <2> QED
    BY <1>1, <1>3, <1>5, <2>2 DEF Unlink, IInv
<1>6. CASE Create(i)
  <2> DEFINE perm == IF e.type = "l" THEN {"w", "x"} ELSE e.perm \ {"s"}
             node == New(e.type, perm, e.target)
  <2>1. e.type \in Types /\ perm \in SUBSET {"w", "x", "s"} /\ e.target \in Nodes
    BY <1>0 DEF Entry
  <2>2. node \in Node /\ node.type = e.type /\ node.target = e.target
    BY <2>1, NewNode
  <2>3. ASSUME CanMake(fs, p) PROVE Legal(Make(fs, p, node))
    <3>1. Writable(fs, Parent[p])
      BY <2>3 DEF CanMake
    <3> HIDE DEF node
    <3> QED
      BY <1>0, <2>2, <3>1, MakeLegal
  <2>4. Legal(fs') /\ out' = out
    BY <1>0, <1>6, <2>3 DEF Create
  <2> QED
    BY <1>1, <1>3, <1>6, <2>4 DEF Create, IInv
<1>7. CASE Open(i)
  <2> DEFINE t == Followed(disk, p)
             opens == /\ Reached(disk, p) /\ Reached(disk, t)
                      /\ disk[t].type = "f" /\ (root \/ "w" \in disk[t].perm)
             makes == Reached(disk, p) /\ CanMake(disk, t)
             node == New("f", {"w"}, Nowhere)
  <2>1. t \in Nodes /\ t \in Reachable
    BY <1>0, <1>2, FollowedReachable
  <2>2. ASSUME opens
        PROVE  Legal([disk EXCEPT ![t].content = Empty, ![t].mtime = Now])
    <3> DEFINE new == [disk[t] EXCEPT !.content = Empty, !.mtime = Now]
    <3>1. disk \in [Nodes -> Node]
      BY <1>2 DEF Legal
    <3>2. new \in Node /\ new.type = "f"
      <4>1. disk[t] \in Node /\ disk[t].type = "f"
        BY <2>1, <2>2, <3>1
      <4> HIDE DEF disk, t
      <4> QED
        BY <4>1 DEF Node, Empty, Now
    <3>3. [disk EXCEPT ![t].content = Empty, ![t].mtime = Now] = [disk EXCEPT ![t] = new]
      BY <2>1, <3>1
    <3> HIDE DEF new
    <3> QED
      BY <1>0, <1>2, <2>1, <3>2, <3>3, ChangeLegal
  <2>3. node \in Node /\ node.type = "f"
    BY NewNode DEF Types, Nowhere, Nodes
  <2>4. ASSUME makes PROVE Legal(Make(disk, t, node))
    <3>1. t \in Paths /\ Writable(disk, Parent[t])
      BY <2>4 DEF CanMake
    <3> HIDE DEF node
    <3> QED
      BY <1>0, <1>2, <2>1, <2>3, <3>1, MakeLegal
  <2>5. fs' = IF opens THEN [disk EXCEPT ![t].content = Empty, ![t].mtime = Now]
              ELSE IF makes THEN Make(disk, t, node) ELSE disk
    BY <1>7 DEF Open
  <2>6. Legal(fs')
    BY <1>2, <2>2, <2>4, <2>5
  <2>7. out' = t \/ out' = Dest
    BY <1>7 DEF Open
  <2>8. Calls(i, "open", "write")
    BY <1>7 DEF Open
  <2> QED
    BY <1>1, <1>3, <2>1, <2>6, <2>7, <2>8
<1>8. CASE Write(i)
  <2>1. ASSUME out # Dest PROVE Legal([fs EXCEPT ![out].content = e.content])
    <3> DEFINE new == [fs[out] EXCEPT !.content = e.content]
    <3>1. new \in Node /\ new.type = fs[out].type /\ new.target = fs[out].target
      BY <1>0, <1>1 DEF Node, Entry
    <3>2. [fs EXCEPT ![out].content = e.content] = [fs EXCEPT ![out] = new]
      BY <1>1
    <3>3. out \in Reachable
      BY <2>1 DEF IInv
    <3>4. out \in Listed /\ new.type = "l" => new.target \in Aims
      BY <1>0, <3>1 DEF Legal
    <3> HIDE DEF new
    <3> QED
      BY <1>0, <1>1, <3>1, <3>2, <3>3, <3>4, ChangeLegal
  <2>2. Legal(fs') /\ out' = Dest
    BY <1>0, <1>8, <2>1 DEF Write
  <2> QED
    BY <1>1, <1>3, <1>8, <2>2 DEF Write
<1>9. CASE Chmod(i)
  <2> DEFINE t == Followed(fs, p)
             new == [fs[t] EXCEPT !.perm = e.perm]
  <2>1. t \in Nodes /\ t \in Reachable
    BY <1>0, FollowedReachable
  <2>2. new \in Node /\ new.type = fs[t].type /\ new.target = fs[t].target
    BY <1>0, <1>1, <2>1 DEF Node, Entry
  <2>3. [fs EXCEPT ![t].perm = e.perm] = [fs EXCEPT ![t] = new]
    BY <1>1, <2>1
  <2>4. t \in Listed /\ new.type = "l" => new.target \in Aims
    BY <1>0, <2>2 DEF Legal
  <2>5. Legal([fs EXCEPT ![t] = new])
    <3> HIDE DEF new
    <3> QED
      BY <1>0, <2>1, <2>2, <2>4, ChangeLegal
  <2>6. Legal(fs') /\ out' = out
    BY <1>0, <1>9, <2>3, <2>5 DEF Chmod
  <2> QED
    BY <1>1, <1>3, <1>9, <2>6 DEF Chmod, IInv
<1>10. CASE Lchown(i)
  <2> DEFINE perm == IF fs[p].type = "d" THEN fs[p].perm ELSE fs[p].perm \ {"s"}
             new == [fs[p] EXCEPT !.owner = e.owner, !.perm = perm]
  <2>1. new \in Node /\ new.type = fs[p].type /\ new.target = fs[p].target
    <3>1. fs[p] \in Node /\ e.owner \in Nat
      BY <1>0, <1>1 DEF Entry
    <3>2. perm \in SUBSET {"w", "x", "s"}
      BY <3>1 DEF Node
    <3> HIDE DEF perm
    <3> QED
      BY <3>1, <3>2 DEF Node
  <2>2. [fs EXCEPT ![p].owner = e.owner,
                   ![p].perm = IF fs[p].type = "d" THEN @ ELSE @ \ {"s"}]
        = [fs EXCEPT ![p] = new]
    BY <1>0, <1>1
  <2>3. p \in Listed /\ new.type = "l" => new.target \in Aims
    BY <1>0, <2>1 DEF Legal
  <2>4. Legal([fs EXCEPT ![p] = new])
    <3> HIDE DEF new
    <3> QED
      BY <1>0, <2>1, <2>3, ChangeLegal
  <2>5. Legal(fs') /\ out' = out
    BY <1>0, <1>10, <2>2, <2>4 DEF Lchown
  <2> QED
    BY <1>1, <1>3, <1>10, <2>5 DEF Lchown, IInv
<1>11. CASE Utimes(i)
  <2> DEFINE new == [fs[p] EXCEPT !.mtime = e.mtime]
  <2>1. new \in Node /\ new.type = fs[p].type /\ new.target = fs[p].target
    BY <1>0, <1>1 DEF Node, Entry
  <2>2. [fs EXCEPT ![p].mtime = e.mtime] = [fs EXCEPT ![p] = new]
    BY <1>0, <1>1
  <2>3. p \in Listed /\ new.type = "l" => new.target \in Aims
    BY <1>0, <2>1 DEF Legal
  <2>4. Legal([fs EXCEPT ![p] = new])
    <3> HIDE DEF new
    <3> QED
      BY <1>0, <2>1, <2>3, ChangeLegal
  <2>5. Legal(fs') /\ out' = out
    BY <1>0, <1>11, <2>2, <2>4 DEF Utimes
  <2> QED
    BY <1>1, <1>3, <1>11, <2>5 DEF Utimes, IInv
<1> QED
  BY <1>4, <1>5, <1>6, <1>7, <1>8, <1>9, <1>10, <1>11 DEF Call

LEMMA Stays == IInv /\ [Next]_vars => IInv'
<1> SUFFICES ASSUME IInv, [Next]_vars PROVE IInv'
  OBVIOUS
<1>0. TypeOK /\ Legal(fs) /\ out \in Reachable \cup {Dest}
  BY DEF IInv
<1>1. ASSUME Given, fs' = fs, TypeOK', out' = out \/ out' = Dest PROVE IInv'
  BY <1>0, <1>1, StepLegal
<1>2. CASE UNCHANGED vars
  BY <1>0, <1>1, <1>2 DEF vars, TypeOK, Given, given
<1>3. CASE Begin
  <2>1. TypeOK'
    BY <1>0, <1>3 DEF Begin, Enter, Of, FirstCall, TypeOK, Phases, given
  <2> QED
    BY <1>1, <1>3, <2>1 DEF Begin, Given
<1>4. CASE NextPhase
  <2>1. Follows[phase] \in Phases \cup {"done"}
    BY <1>4 DEF NextPhase, Phases, Follows
  <2>2. FirstCall[Follows[phase]] \in {"none", "mkdir", "unlink", "open", "chmod"}
    BY <2>1 DEF Phases, FirstCall
  <2>3. TypeOK'
    BY <1>0, <1>4, <2>1, <2>2 DEF NextPhase, Enter, Of, TypeOK, given
  <2> QED
    BY <1>1, <1>4, <2>3 DEF NextPhase, Given
<1>5. ASSUME NEW i \in DOMAIN files, Call(i) PROVE IInv'
  BY <1>5, EntryStep
<1>6. CASE Crash
  <2>1. TypeOK'
    BY <1>0, <1>6 DEF Crash, TypeOK, given, Nodes
  <2> QED
    BY <1>1, <1>6, <2>1 DEF Crash, Given
<1>7. CASE Again
  <2>1. TypeOK'
    BY <1>0, <1>7 DEF Again, TypeOK, given
  <2> QED
    BY <1>1, <1>7, <2>1 DEF Again, Given
<1> QED
  BY <1>2, <1>3, <1>4, <1>5, <1>6, <1>7 DEF Next, Restore

\* Every variable of a restore keeps its type: RestoreEngine::run and its calls.
THEOREM TypeCorrect == Spec => []TypeOK
<1>1. IInv => TypeOK
  BY DEF IInv
<1> QED
  BY Initially, Stays, <1>1, PTL DEF Spec

\* A restore changes nothing of the destination but the entries of the backup and
\* what links aim at, whatever fails, and however often it is killed and run again.
THEOREM OthersUntouched == Spec => []Untouched
<1>1. IInv => Untouched
  BY DEF IInv, Legal, Reachable, Untouched
<1> QED
  BY Initially, Stays, <1>1, PTL DEF Spec

-----------------------------------------------------------------------------
(* The tree of the paths *)

\* The paths are a tree: what is above a path is above what is below it.
LEMMA AboveFacts ==
  ASSUME NEW p \in Paths
  PROVE  /\ Above[p] \subseteq Paths /\ p \notin Above[p]
         /\ Parent[p] \in Paths \cup {Dest} /\ Dest \notin Paths
         /\ Parent[p] = Dest => Above[p] = {}
         /\ Parent[p] # Dest => /\ Parent[p] \in Above[p]
                                /\ Above[p] = Above[Parent[p]] \cup {Parent[p]}
         /\ \A a \in Above[p] : Above[a] \subseteq Above[p]
  BY PathAssumption, TreeAssumption DEF PathAssumption, TreeAssumption

LEMMA ParentAbove ==
  ASSUME NEW p \in Paths, NEW c \in Above[p] \cup {p}
  PROVE  Parent[c] \in Above[p] \cup {Dest} /\ Parent[c] # c /\ c \in Paths
<1>1. c \in Paths /\ Above[c] \subseteq Above[p]
  BY AboveFacts
<1> QED
  BY <1>1, AboveFacts

\* A set of paths has one with the fewest above it.
LEMMA Lowest ==
  ASSUME NEW S \in SUBSET Paths, S # {}
  PROVE  \E m \in S : \A c \in S : Above[c] \subseteq Above[m] => Above[c] = Above[m]
<1> DEFINE Sets == {Above[c] : c \in S}
<1>1. Sets \subseteq FiniteSubsetsOf(Paths)
  <2> SUFFICES ASSUME NEW c \in S PROVE Above[c] \in FiniteSubsetsOf(Paths)
    OBVIOUS
  <2>1. Above[c] \in SUBSET Paths
    BY AboveFacts
  <2>2. IsFiniteSet(Above[c])
    BY <2>1, TreeAssumption, FS_Subset DEF TreeAssumption
  <2> QED
    BY <2>1, <2>2 DEF FiniteSubsetsOf
<1>2. PICK x \in Sets : \A y \in Sets : ~ (<<y, x>> \in StrictSubsetOrdering(Paths))
  <2>1. Sets # {}
    OBVIOUS
  <2> HIDE DEF Sets
  <2> QED
    BY <1>1, <2>1, FS_StrictSubsetOrderingWellFounded, WFMin
<1>3. PICK m \in S : x = Above[m]
  BY <1>2
<1>4. ASSUME NEW c \in S, Above[c] \subseteq Above[m] PROVE Above[c] = Above[m]
  <2>1. ~ (<<Above[c], Above[m]>> \in StrictSubsetOrdering(Paths))
    BY <1>2, <1>3
  <2>2. Above[c] \in SUBSET Paths /\ Above[m] \in SUBSET Paths
    BY AboveFacts
  <2> QED
    BY <1>4, <2>1, <2>2 DEF StrictSubsetOrdering
<1> QED
  BY <1>4

LEMMA Uppermost ==
  ASSUME NEW S \in SUBSET Paths, S # {}
  PROVE  \E m \in S : Parent[m] \notin S
<1>1. PICK m \in S : \A c \in S : Above[c] \subseteq Above[m] => Above[c] = Above[m]
  BY Lowest
<1>2. ASSUME Parent[m] \in S PROVE FALSE
  <2>1. Parent[m] # Dest /\ Parent[m] \in Paths
    BY <1>2, AboveFacts
  <2>2. Above[m] = Above[Parent[m]] \cup {Parent[m]} /\ Parent[m] \notin Above[Parent[m]]
    BY <2>1, AboveFacts
  <2> QED
    BY <1>1, <1>2, <2>2
<1> QED
  BY <1>2

\* Of two directories on one way, one is above the other.
LEMMA OneWay ==
  ASSUME NEW p \in Paths, NEW a \in Above[p] \cup {p}, NEW b \in Above[p] \cup {p}
  PROVE  a = b \/ a \in Above[b] \/ b \in Above[a]
<1> DEFINE Way1(q) == \A c, d \in Above[q] \cup {q} : c = d \/ c \in Above[d] \/ d \in Above[c]
           Bad == {q \in Paths : ~ Way1(q)}
<1>1. CASE Bad = {}
  BY <1>1
<1>2. CASE Bad # {}
  <2>1. PICK q \in Bad : Parent[q] \notin Bad
    <3>1. Bad \in SUBSET Paths
      OBVIOUS
    <3> HIDE DEF Bad
    <3> QED
      BY <1>2, <3>1, Uppermost
  <2>2. q \in Paths /\ ~ Way1(q)
    BY <2>1
  <2>3. CASE Parent[q] = Dest
    BY <2>2, <2>3, AboveFacts
  <2>4. CASE Parent[q] # Dest
    <3>1. Parent[q] \in Paths /\ Above[q] = Above[Parent[q]] \cup {Parent[q]}
      BY <2>2, <2>4, AboveFacts
    <3>2. Way1(Parent[q])
      BY <2>1, <3>1
    <3> QED
      BY <2>2, <3>1, <3>2
  <2> QED
    BY <2>3, <2>4
<1> QED
  BY <1>1, <1>2

-----------------------------------------------------------------------------
(* What an entry needs of the disk *)

\* The entry is there.
Right(disk, i) ==
    LET e == files[i] now == disk[e.path] IN
    /\ now.type = e.type
    /\ e.type = "f" => now.content = e.content
    /\ e.type = "l" => now.target = e.target

\* Nothing is above p but directories that can be searched.
Way(disk, p) ==
    \A a \in Above[p] : /\ disk[a].type \in {"none", "d"}
                        /\ disk[a].type = "d" => root \/ "x" \in disk[a].perm

\* If d is there, names can be made in it.
Room(disk, d) == d # Dest /\ disk[d].type = "d" => root \/ "w" \in disk[d].perm

\* The entry is not there, and nothing keeps the restore from making it.
Ready(disk, i) ==
    LET e == files[i] p == e.path IN
    /\ Way(disk, p)
    /\ \A c \in Above[p] \cup {p} : disk[c].type = "none" => Room(disk, Parent[c])
    /\ e.type = "d" => disk[p].type \in {"none", "d"}
    /\ e.type = "f" => /\ disk[p].type \in {"none", "f"}
                       /\ disk[p].type = "f" => root \/ "w" \in disk[p].perm
    /\ e.type \in {"l", "p", "c"} => disk[p].type # "d" /\ Room(disk, Parent[p])

\* Two nodes that differ in their time or owner only.
Alike(m, n) ==
    /\ m.type = n.type /\ m.perm = n.perm
    /\ m.content = n.content /\ m.target = n.target

SameBut(disk, new, q) == \A c \in Nodes \ {q} : Alike(new[c], disk[c])

\* A disk with new directories.
Grown(disk, new, S) ==
    \A c \in Nodes : IF c \in S THEN new[c].type = "d" /\ new[c].perm = {"w", "x"}
                                ELSE Alike(new[c], disk[c])

Missing(disk, p) == {d \in Above[p] \cup {p} : disk[d].type = "none"}

\* The operators look at the paths at and above an entry only.
LEMMA WayBut ==
  ASSUME NEW p \in Paths, NEW disk, NEW new, NEW q, SameBut(disk, new, q), q \notin Above[p],
         Way(disk, p)
  PROVE  Way(new, p)
<1>1. \A a \in Above[p] : Alike(new[a], disk[a])
  BY AboveFacts DEF SameBut, Nodes
<1> QED
  BY <1>1 DEF Way, Alike

LEMMA ElsewhereKeeps ==
  ASSUME TypeOK, NEW i \in DOMAIN files, NEW disk, NEW new, NEW q,
         SameBut(disk, new, q), q \notin Above[files[i].path] \cup {files[i].path}
  PROVE  (Right(disk, i) => Right(new, i)) /\ (Ready(disk, i) => Ready(new, i))
<1> DEFINE p == files[i].path
<1>1. p \in Paths
  BY EntryType
<1>2. ASSUME NEW c \in Above[p] \cup {p} PROVE Alike(new[c], disk[c])
  BY <1>1, AboveFacts DEF SameBut, Nodes
<1>3. ASSUME NEW c \in Above[p] \cup {p}, Room(disk, Parent[c]) PROVE Room(new, Parent[c])
  <2>1. Parent[c] = Dest \/ Parent[c] \in Above[p]
    BY <1>1, ParentAbove
  <2> QED
    BY <1>2, <1>3, <2>1 DEF Room, Alike
<1>4. Right(disk, i) => Right(new, i)
  BY <1>2 DEF Right, Alike
<1>5. ASSUME Ready(disk, i) PROVE Ready(new, i)
  <2>1. Way(new, p)
    BY <1>2, <1>5 DEF Ready, Way, Alike
  <2>2. \A c \in Above[p] \cup {p} : new[c].type = "none" => Room(new, Parent[c])
    BY <1>2, <1>3, <1>5 DEF Ready, Alike
  <2>3. Alike(new[p], disk[p])
    BY <1>2
  <2>4. Room(disk, Parent[p]) => Room(new, Parent[p])
    BY <1>3
  <2> QED
    BY <1>5, <2>1, <2>2, <2>3, <2>4 DEF Ready, Alike
<1> QED
  BY <1>4, <1>5

\* Directories where nothing was are in the way of no other entry.
LEMMA GrownKeeps ==
  ASSUME TypeOK, NEW i \in DOMAIN files, NEW disk, NEW new, NEW S, Grown(disk, new, S),
         \A c \in S : disk[c].type = "none",
         files[i].path \in S => files[i].type = "d"
  PROVE  /\ Right(disk, i) => Right(new, i)
         /\ Ready(disk, i) => Ready(new, i)
         /\ Way(disk, files[i].path) => Way(new, files[i].path)
<1> DEFINE e == files[i]
           p == e.path
<1>1. p \in Paths /\ e.type # "none"
  BY EntryType DEF Entry, Types
<1>2. ASSUME NEW c \in Above[p] \cup {p}
      PROVE  \/ c \in S /\ disk[c].type = "none" /\ new[c].type = "d" /\ new[c].perm = {"w", "x"}
             \/ c \notin S /\ Alike(new[c], disk[c])
  BY <1>1, AboveFacts DEF Grown, Nodes
<1>3. ASSUME NEW c \in Above[p] \cup {p}, Room(disk, Parent[c]) PROVE Room(new, Parent[c])
  <2>1. Parent[c] = Dest \/ Parent[c] \in Above[p]
    BY <1>1, ParentAbove
  <2> QED
    BY <1>2, <1>3, <2>1 DEF Room, Alike
<1>4. ASSUME Way(disk, p) PROVE Way(new, p)
  <2> SUFFICES ASSUME NEW a \in Above[p]
               PROVE  /\ new[a].type \in {"none", "d"}
                      /\ new[a].type = "d" => root \/ "x" \in new[a].perm
    BY DEF Way
  <2>1. /\ disk[a].type \in {"none", "d"}
        /\ disk[a].type = "d" => root \/ "x" \in disk[a].perm
    BY <1>4 DEF Way
  <2> QED
    BY <1>2, <2>1 DEF Alike
<1>5. ASSUME Right(disk, i) PROVE Right(new, i)
  <2>1. p \notin S
    BY <1>1, <1>5 DEF Right
  <2> QED
    BY <1>2, <1>5, <2>1 DEF Right, Alike
<1>6. ASSUME Ready(disk, i) PROVE Ready(new, i)
  <2>1. Way(new, p)
    BY <1>4, <1>6 DEF Ready
  <2>2. \A c \in Above[p] \cup {p} : new[c].type = "none" => Room(new, Parent[c])
    BY <1>2, <1>3, <1>6 DEF Ready, Alike
  <2>3. Room(disk, Parent[p]) => Room(new, Parent[p])
    BY <1>3
  <2>4. CASE p \in S
    <3>1. e.type = "d" /\ new[p].type = "d"
      BY <1>2, <2>4
    <3> QED
      BY <2>1, <2>2, <3>1 DEF Ready
  <2>5. CASE p \notin S
    <3>1. Alike(new[p], disk[p])
      BY <1>2, <2>5
    <3> QED
      BY <1>6, <2>1, <2>2, <2>3, <3>1 DEF Ready, Alike
  <2> QED
    BY <2>4, <2>5
<1> QED
  BY <1>4, <1>5, <1>6

-----------------------------------------------------------------------------
(* What the calls do to the disk *)

LEMMA AlikeSelf == ASSUME NEW disk, NEW q PROVE SameBut(disk, disk, q) /\ Grown(disk, disk, {})
  BY DEF SameBut, Grown, Alike

\* A stamp changes a time only.
LEMMA StampAlike ==
  ASSUME NEW disk \in [Nodes -> Node], NEW d \in Nodes
  PROVE  /\ Stamped(disk, d) \in [Nodes -> Node]
         /\ \A c \in Nodes : Alike(Stamped(disk, d)[c], disk[c])
         /\ \A c \in Nodes \ {d} : Stamped(disk, d)[c] = disk[c]
<1> DEFINE new == [disk EXCEPT ![d].mtime = Now]
<1>1. CASE d = Dest
  BY <1>1 DEF Stamped, Alike
<1>2. CASE d # Dest
  <2>1. Stamped(disk, d) = new
    BY <1>2 DEF Stamped
  <2>2. \A c \in Nodes : new[c] = IF c = d THEN [disk[c] EXCEPT !.mtime = Now] ELSE disk[c]
    OBVIOUS
  <2>3. ASSUME NEW c \in Nodes PROVE new[c] \in Node /\ Alike(new[c], disk[c])
    <3>1. disk[c] \in Node
      OBVIOUS
    <3> QED
      BY <2>2, <3>1 DEF Alike, Node, Now
  <2>4. new \in [Nodes -> Node]
    BY <2>3
  <2> QED
    BY <2>1, <2>2, <2>3, <2>4
<1> QED
  BY <1>1, <1>2

LEMMA MakeAlike ==
  ASSUME NEW disk \in [Nodes -> Node], NEW p \in Paths, NEW node \in Node
  PROVE  /\ Make(disk, p, node) \in [Nodes -> Node]
         /\ Make(disk, p, node)[p] = node
         /\ SameBut(disk, Make(disk, p, node), p)
<1> DEFINE new == [disk EXCEPT ![p] = node]
           d == Parent[p]
<1>1. p \in Nodes /\ d \in Nodes /\ d # p
  BY AboveFacts DEF Nodes
<1>2. new \in [Nodes -> Node] /\ new[p] = node /\ \A c \in Nodes \ {p} : new[c] = disk[c]
  BY <1>1
<1>3. Make(disk, p, node) = Stamped(new, d)
  BY DEF Make
<1> HIDE DEF new
<1>4. /\ Stamped(new, d) \in [Nodes -> Node]
      /\ \A c \in Nodes : Alike(Stamped(new, d)[c], new[c])
      /\ \A c \in Nodes \ {d} : Stamped(new, d)[c] = new[c]
  BY <1>1, <1>2, StampAlike
<1> QED
  BY <1>1, <1>2, <1>3, <1>4 DEF SameBut

\* mkdirRecursive makes all directories that are missing, when the last one that exists
\* lets it.
LEMMA MkdirShape ==
  ASSUME NEW disk \in [Nodes -> Node], NEW p \in Paths
  PROVE  \/ Missing(disk, p) = {} /\ mkdirRecursive(disk, p) = disk
         \/ \E m \in Missing(disk, p) :
                /\ Parent[m] \notin Missing(disk, p)
                /\ IF Writable(disk, Parent[m])
                   THEN Grown(disk, mkdirRecursive(disk, p), Missing(disk, p))
                   ELSE mkdirRecursive(disk, p) = disk
<1> DEFINE missing == Missing(disk, p)
           last == CHOOSE d \in {Parent[m] : m \in missing} : d \notin missing
           made == [q \in Nodes |-> IF q \in missing THEN New("d", {"w", "x"}, Nowhere)
                                                     ELSE disk[q]]
<1>1. mkdirRecursive(disk, p) = IF missing = {} \/ ~ Writable(disk, last) THEN disk
                                ELSE Stamped(made, last)
  BY DEF mkdirRecursive, Missing
<1>2. CASE missing = {}
  BY <1>1, <1>2
<1>3. CASE missing # {}
  <2>1. missing \subseteq Paths
    BY ParentAbove DEF Missing
  <2>2. \E m \in missing : Parent[m] \notin missing
    <3> HIDE DEF missing
    <3> QED
      BY <1>3, <2>1, Uppermost
  <2>3. last \in {Parent[m] : m \in missing} /\ last \notin missing
    <3> HIDE DEF missing
    <3> QED
      BY <2>2
  <2>4. PICK m \in missing : last = Parent[m]
    BY <2>3
  <2>5. last \in Nodes
    BY <2>1, <2>4, AboveFacts DEF Nodes
  <2>6. /\ New("d", {"w", "x"}, Nowhere) \in Node
        /\ New("d", {"w", "x"}, Nowhere).type = "d"
        /\ New("d", {"w", "x"}, Nowhere).perm = {"w", "x"}
    BY NewNode DEF Types, Nowhere, Nodes, New
  <2>7. made \in [Nodes -> Node]
    BY <2>6
  <2>8. \A c \in Nodes : Alike(Stamped(made, last)[c], made[c])
    <3> HIDE DEF made, last
    <3> QED
      BY <2>5, <2>7, StampAlike
  <2>9. Grown(disk, Stamped(made, last), missing)
    BY <2>6, <2>8 DEF Grown, Alike
  <2> QED
    BY <1>1, <1>3, <2>3, <2>4, <2>9
<1> QED
  BY <1>2, <1>3

\* It makes them where an entry is ready.
LEMMA MkdirWorks ==
  ASSUME NEW disk \in [Nodes -> Node], Consistent(disk), NEW p \in Paths, Way(disk, p),
         disk[p].type \in {"none", "d"},
         \A c \in Above[p] \cup {p} : disk[c].type = "none" => Room(disk, Parent[c])
  PROVE  Grown(disk, mkdirRecursive(disk, p), Missing(disk, p))
<1>1. CASE Missing(disk, p) = {} /\ mkdirRecursive(disk, p) = disk
  BY <1>1, AlikeSelf
<1>2. ASSUME NEW m \in Missing(disk, p), Parent[m] \notin Missing(disk, p)
      PROVE  Writable(disk, Parent[m])
  <2> DEFINE last == Parent[m]
  <2>1. m \in Above[p] \cup {p} /\ disk[m].type = "none"
    BY DEF Missing
  <2>2. last \in Above[p] \cup {Dest}
    BY <2>1, ParentAbove
  <2>3. CASE last = Dest
    BY <2>3 DEF Writable
  <2>4. CASE last # Dest
    <3>1. last \in Above[p] /\ last \in Paths /\ Above[last] \subseteq Above[p]
      BY <2>2, <2>4, AboveFacts
    <3>2. disk[last].type # "none"
      BY <1>2, <3>1 DEF Missing
    <3>3. disk[last].type = "d" /\ (root \/ "x" \in disk[last].perm)
      BY <3>1, <3>2 DEF Way
    <3>4. root \/ "w" \in disk[last].perm
      BY <2>1, <2>4, <3>3 DEF Room
    <3>5. \A a \in Above[last] : Searchable(disk, a)
      BY <3>1, <3>2 DEF Consistent, Way, Searchable
    <3> QED
      BY <3>3, <3>4, <3>5 DEF Writable, Reached, Searchable
  <2> QED
    BY <2>3, <2>4
<1> QED
  BY <1>1, <1>2, MkdirShape

\* What exists stays in directories.
LEMMA MkdirConsistent ==
  ASSUME NEW disk \in [Nodes -> Node], Consistent(disk), NEW p \in Paths
  PROVE  Consistent(mkdirRecursive(disk, p))
<1> DEFINE new == mkdirRecursive(disk, p)
           missing == Missing(disk, p)
<1>1. CASE new = disk
  BY <1>1
<1>2. CASE new # disk
  <2>1. PICK m \in missing : /\ Parent[m] \notin missing
                             /\ Writable(disk, Parent[m]) /\ Grown(disk, new, missing)
    BY <1>2, MkdirShape
  <2>2. m \in Above[p] \cup {p} /\ disk[m].type = "none" /\ m \in Paths
    BY ParentAbove DEF Missing
  <2>3. ASSUME NEW a \in Above[p], a \notin missing PROVE disk[a].type = "d"
    <3>1. disk[a].type # "none" /\ a \in Paths
      BY <2>3, AboveFacts DEF Missing
    <3>2. m \notin Above[a] /\ a # m
      BY <2>2, <3>1 DEF Consistent
    <3>3. a \in Above[m]
      BY <2>2, <3>2, OneWay
    <3>4. Parent[m] # Dest /\ Above[m] = Above[Parent[m]] \cup {Parent[m]}
      BY <2>2, <3>3, AboveFacts
    <3>5. Parent[m] \in Paths
      BY <2>2, <3>4, AboveFacts
    <3> QED
      BY <2>1, <3>3, <3>4, <3>5 DEF Writable, Reached, Searchable
  <2>4. ASSUME NEW q \in Paths, new[q].type # "none", NEW a \in Above[q]
        PROVE  new[a].type = "d"
    <3>1. a \in Paths /\ a \in Nodes /\ q \in Nodes
      BY AboveFacts DEF Nodes
    <3>2. a \in missing => new[a].type = "d"
      BY <2>1, <3>1 DEF Grown
    <3>3. a \notin missing => new[a].type = disk[a].type
      BY <2>1, <3>1 DEF Grown, Alike
    <3>4. CASE q \in missing
      <4>1. Above[q] \subseteq Above[p]
        BY <3>4, AboveFacts DEF Missing
      <4> QED
        BY <2>3, <3>2, <3>3, <4>1
    <3>5. CASE q \notin missing
      <4>1. disk[q].type # "none"
        BY <2>1, <2>4, <3>1, <3>5 DEF Grown, Alike
      <4> QED
        BY <3>2, <3>3, <4>1 DEF Consistent
    <3> QED
      BY <3>4, <3>5
  <2> QED
    BY <2>4 DEF Consistent
<1> QED
  BY <1>1, <1>2

LEMMA ChangeConsistent ==
  ASSUME NEW disk \in [Nodes -> Node], Consistent(disk), NEW new, NEW q \in Nodes,
         SameBut(disk, new, q),
         \/ new[q].type = disk[q].type
         \/ /\ disk[q].type # "d"
            /\ new[q].type = "none" \/ (q \in Paths /\ Writable(disk, Parent[q]))
  PROVE  Consistent(new)
<1> SUFFICES ASSUME NEW p \in Paths, new[p].type # "none", NEW a \in Above[p]
             PROVE  new[a].type = "d"
  BY DEF Consistent
<1>1. a \in Paths /\ a # p /\ a \in Nodes /\ p \in Nodes
  BY AboveFacts DEF Nodes
<1>2. \A c \in Nodes \ {q} : new[c].type = disk[c].type
  BY DEF SameBut, Alike
<1>3. CASE new[q].type = disk[q].type
  BY <1>1, <1>2, <1>3 DEF Consistent
<1>4. CASE /\ disk[q].type # "d"
           /\ new[q].type = "none" \/ (q \in Paths /\ Writable(disk, Parent[q]))
  <2>1. CASE p # q
    <3>1. disk[p].type # "none"
      BY <1>1, <1>2, <2>1
    <3>2. disk[a].type = "d"
      BY <3>1 DEF Consistent
    <3> QED
      BY <1>1, <1>2, <1>4, <3>2
  <2>2. CASE p = q
    <3>1. Parent[p] # Dest /\ Above[p] = Above[Parent[p]] \cup {Parent[p]}
      BY AboveFacts
    <3>2. Parent[p] \in Paths
      BY <3>1, AboveFacts
    <3>3. disk[a].type = "d"
      BY <1>4, <2>2, <3>1, <3>2 DEF Writable, Reached, Searchable
    <3> QED
      BY <1>1, <1>2, <2>2, <3>3
  <2> QED
    BY <2>1, <2>2
<1> QED
  BY <1>3, <1>4

-----------------------------------------------------------------------------
(* That the entries are made *)

PhaseOf == [d |-> "dirs", l |-> "links", p |-> "special", c |-> "special",
            f |-> "files", s |-> "meta"]

Later == [dirs |-> {"links", "special", "files", "meta", "done"},
          links |-> {"special", "files", "meta", "done"},
          special |-> {"files", "meta", "done"}, files |-> {"meta", "done"},
          meta |-> {"done"}]

CallsOf == [dirs |-> {"mkdir"}, links |-> {"unlink", "create"},
            special |-> {"unlink", "create"}, files |-> {"open", "write"},
            meta |-> {"chmod", "lchown", "utimes"}]

\* This run has made entry i.
Past(i) ==
    LET ph == PhaseOf[files[i].type] IN phase \in Later[ph] \/ (phase = ph /\ i \notin todo)

Stage == IF phase \in Phases THEN todo \subseteq Of(phase) /\ call \in CallsOf[phase]
                             ELSE todo = {}

\* A link at the place of an entry is that entry, or was there before.
KnownLinks(disk) ==
    \A i \in DOMAIN files : LET p == files[i].path IN
        disk[p].type = "l" =>
            \/ fs0[p].type = "l" /\ disk[p].target = fs0[p].target
            \/ files[i].type = "l" /\ disk[p].target = files[i].target

\* The open file is the entry of this turn, or what such a link aims at.
OutOK ==
    out # Dest => /\ call = "write" /\ phase = "files"
                  /\ \E i \in DOMAIN files : Turn(i) /\ out \in Through \cup {files[i].path}

\* What is known of an entry that can be restored.
Progress(i) ==
    LET p == files[i].path IN
    /\ Right(fs, i) \/ Ready(fs, i)
    /\ Past(i) => Right(fs, i)
    /\ Turn(i) /\ call = "create" =>
           Right(fs, i) \/ (fs[p].type = "none" /\ Writable(fs, Parent[p]))
    /\ Turn(i) /\ call = "write" =>
           (out = p /\ fs[p].type = "f") \/ (out = Dest /\ Right(fs, i))

ContentInv ==
    /\ IInv /\ Consistent(fs) /\ KnownLinks(fs) /\ Stage /\ OutOK
    /\ \A i \in DOMAIN files : Restorable(i) => Progress(i)

LEMMA EntryFacts ==
  ASSUME TypeOK, NEW i \in DOMAIN files
  PROVE  /\ i \in Nat /\ files[i].type \in Types
         /\ files[i].path \in Paths /\ files[i].path \in Nodes
         /\ \A j \in DOMAIN files : /\ files[i].path = files[j].path => i = j
                                    /\ files[i].path \in Above[files[j].path] => files[i].type = "d"
<1>1. files \in Seq(Entry) /\ files \in Backups
  BY BackupAssumption DEF TypeOK
<1>2. files[i] \in Entry /\ i \in Nat
  BY <1>1
<1>3. \A j \in DOMAIN files : /\ files[i].path = files[j].path => i = j
                              /\ files[i].path \in Above[files[j].path] => files[i].type = "d"
  BY <1>1, ListAssumption
<1> QED
  BY <1>2, <1>3 DEF Entry, Nodes

\* What belongs to another entry is not at an entry's place, or above it.
LEMMA OtherPlace ==
  ASSUME TypeOK, NEW i \in DOMAIN files, Restorable(i), NEW j \in DOMAIN files, i # j,
         files[j].type # "d", NEW q \in Through \cup {files[j].path}
  PROVE  q \notin Above[files[i].path] \cup {files[i].path}
<1>1. CASE q = files[j].path
  BY <1>1, EntryFacts
<1>2. CASE q \in Through
  BY <1>2 DEF Restorable, InTheWay
<1> QED
  BY <1>1, <1>2

LEMMA LinksGrown ==
  ASSUME TypeOK, NEW disk, KnownLinks(disk), NEW new, NEW S, Grown(disk, new, S)
  PROVE  KnownLinks(new)
<1> SUFFICES ASSUME NEW i \in DOMAIN files, new[files[i].path].type = "l"
             PROVE  /\ disk[files[i].path].type = "l"
                    /\ new[files[i].path].target = disk[files[i].path].target
  BY DEF KnownLinks
<1>1. files[i].path \in Nodes
  BY EntryFacts
<1> QED
  BY <1>1 DEF Grown, Alike

LEMMA LinksBut ==
  ASSUME TypeOK, NEW disk, KnownLinks(disk), NEW new, NEW q, SameBut(disk, new, q),
         \/ new[q].type # "l"
         \/ new[q].type = disk[q].type /\ new[q].target = disk[q].target
         \/ \E j \in DOMAIN files : /\ files[j].path = q /\ files[j].type = "l"
                                    /\ new[q].target = files[j].target
  PROVE  KnownLinks(new)
<1> SUFFICES ASSUME NEW i \in DOMAIN files, new[files[i].path].type = "l"
             PROVE  \/ /\ disk[files[i].path].type = "l"
                       /\ new[files[i].path].target = disk[files[i].path].target
                    \/ files[i].type = "l" /\ new[files[i].path].target = files[i].target
  BY DEF KnownLinks
<1>1. files[i].path \in Nodes
  BY EntryFacts
<1>2. files[i].path # q => Alike(new[files[i].path], disk[files[i].path])
  BY <1>1 DEF SameBut
<1>3. \A j \in DOMAIN files : files[j].path = files[i].path => j = i
  BY EntryFacts
<1> QED
  BY <1>2, <1>3 DEF Alike

\* A way of directories that can be searched.
LEMMA OpenWay ==
  ASSUME NEW disk, NEW p \in Paths, Way(disk, p), \A a \in Above[p] : disk[a].type = "d"
  PROVE  /\ Reached(disk, p)
         /\ Room(disk, Parent[p]) => Writable(disk, Parent[p])
<1>1. \A a \in Above[p] : Searchable(disk, a)
  BY DEF Way, Searchable
<1>2. Reached(disk, p)
  BY <1>1 DEF Reached
<1>3. CASE Parent[p] = Dest
  BY <1>2, <1>3 DEF Writable
<1>4. CASE Parent[p] # Dest
  <2>1. Parent[p] \in Above[p] /\ Above[Parent[p]] \subseteq Above[p]
    BY <1>4, AboveFacts
  <2> QED
    BY <1>1, <1>2, <1>4, <2>1 DEF Room, Writable, Reached, Searchable
<1> QED
  BY <1>3, <1>4

LEMMA WritableWay ==
  ASSUME NEW disk, NEW p \in Paths, Writable(disk, Parent[p])
  PROVE  Reached(disk, p) /\ Room(disk, Parent[p])
<1>1. CASE Parent[p] = Dest
  BY <1>1, AboveFacts DEF Reached, Room
<1>2. CASE Parent[p] # Dest
  <2>1. Parent[p] \in Paths /\ Above[p] = Above[Parent[p]] \cup {Parent[p]}
    BY <1>2, AboveFacts
  <2> QED
    BY <1>2, <2>1 DEF Writable, Reached, Room, Searchable
<1> QED
  BY <1>1, <1>2

LEMMA WritableBut ==
  ASSUME NEW disk, NEW new, NEW p \in Paths, SameBut(disk, new, p),
         Writable(disk, Parent[p])
  PROVE  Writable(new, Parent[p])
<1>1. CASE Parent[p] = Dest
  BY <1>1 DEF Writable
<1>2. CASE Parent[p] # Dest
  <2>1. /\ Above[p] = Above[Parent[p]] \cup {Parent[p]} /\ Above[p] \subseteq Paths
        /\ p \notin Above[p] /\ Parent[p] \in Paths
    BY <1>2, AboveFacts
  <2>2. \A c \in Above[p] : Alike(new[c], disk[c])
    BY <2>1 DEF SameBut, Nodes
  <2> QED
    BY <1>2, <2>1, <2>2 DEF Writable, Reached, Searchable, Alike
<1> QED
  BY <1>1, <1>2

LEMMA ReadyWay ==
  ASSUME NEW disk, NEW i \in DOMAIN files, TypeOK, Reached(disk, files[i].path),
         LET e == files[i] p == e.path IN
         \/ disk[p].type = "none" /\ Writable(disk, Parent[p])
         \/ e.type = "f" /\ disk[p].type = "f" /\ (root \/ "w" \in disk[p].perm)
  PROVE  Ready(disk, i)
<1> DEFINE e == files[i]
           p == e.path
<1>1. p \in Paths
  BY EntryFacts
<1>2. \A a \in Above[p] : Searchable(disk, a)
  BY <1>1 DEF Reached
<1>3. Way(disk, p) /\ \A a \in Above[p] : disk[a].type # "none"
  BY <1>2 DEF Searchable, Way
<1>4. CASE disk[p].type = "none" /\ Writable(disk, Parent[p])
  <2>1. Room(disk, Parent[p])
    BY <1>1, <1>4, WritableWay
  <2> QED
    BY <1>3, <1>4, <2>1 DEF Ready
<1>5. CASE e.type = "f" /\ disk[p].type = "f" /\ (root \/ "w" \in disk[p].perm)
  BY <1>3, <1>5 DEF Ready
<1> QED
  BY <1>4, <1>5

\* What is asked of the backup and the first disk does not change.
LEMMA GivenSame ==
  ASSUME Given
  PROVE  /\ \A i : Restorable(i)' <=> Restorable(i)
         /\ \A i : (Right(fs, i)' <=> Right(fs', i)) /\ (Ready(fs, i)' <=> Ready(fs', i))
         /\ Consistent(fs)' <=> Consistent(fs')
         /\ KnownLinks(fs)' <=> KnownLinks(fs')
         /\ Through' = Through
         /\ \A d : Writable(fs, d)' <=> Writable(fs', d)
         /\ \A ph : Of(ph)' = Of(ph)
<1>1. files' = files /\ fs0' = fs0 /\ packed' = packed /\ root' = root
  BY DEF Given, given
<1>2. Through' = Through
  BY <1>1 DEF Through
<1>3. \A i : Restorable(i)' <=> Restorable(i)
  BY <1>1, <1>2 DEF Restorable, InTheWay, InArchive
<1>4. \A i : Right(fs, i)' <=> Right(fs', i)
  BY <1>1 DEF Right
<1>5. \A i : Ready(fs, i)' <=> Ready(fs', i)
  BY <1>1 DEF Ready, Way, Room
<1>6. (Consistent(fs)' <=> Consistent(fs')) /\ (KnownLinks(fs)' <=> KnownLinks(fs'))
  BY <1>1 DEF Consistent, KnownLinks
<1>7. \A d : Writable(fs, d)' <=> Writable(fs', d)
  BY <1>1 DEF Writable, Reached, Searchable
<1>8. \A ph : Of(ph)' = Of(ph)
  BY <1>1 DEF Of, InArchive
<1> QED
  BY <1>2, <1>3, <1>4, <1>5, <1>6, <1>7, <1>8

\* Who is in a phase.
LEMMA InPhase ==
  ASSUME TypeOK, Stage, NEW i \in DOMAIN files, i \in todo
  PROVE  /\ phase \in Phases /\ call \in CallsOf[phase]
         /\ phase # "meta" => PhaseOf[files[i].type] = phase /\ ~ Past(i)
         /\ Restorable(i) /\ phase = "meta" => Past(i)
         /\ phase = "dirs" => files[i].type = "d"
         /\ phase = "links" => files[i].type = "l"
         /\ phase = "special" => files[i].type \in {"p", "c"}
         /\ phase = "files" => files[i].type = "f"
<1>1. phase \in Phases /\ call \in CallsOf[phase] /\ i \in Of(phase)
  BY DEF Stage
<1>2. files[i].type \in Types
  BY EntryFacts
<1>3. CASE phase = "dirs"
  BY <1>1, <1>3 DEF Of, PhaseOf, Past, Later
<1>4. CASE phase = "links"
  BY <1>1, <1>4 DEF Of, PhaseOf, Past, Later
<1>5. CASE phase = "special"
  BY <1>1, <1>5 DEF Of, PhaseOf, Past, Later
<1>6. CASE phase = "files"
  BY <1>1, <1>6 DEF Of, PhaseOf, Past, Later
<1>7. CASE phase = "meta"
  <2>1. Restorable(i) => files[i].type \in {"d", "l", "p", "c", "f"}
    BY <1>2 DEF Restorable, Types
  <2> QED
    BY <1>1, <1>7, <2>1 DEF PhaseOf, Past, Later
<1> QED
  BY <1>1, <1>3, <1>4, <1>5, <1>6, <1>7 DEF Phases

\* What entry i has, the step leaves it.
Keeps(i) ==
    /\ Right(fs, i) => Right(fs', i)
    /\ Ready(fs, i) => Right(fs', i) \/ Ready(fs', i)

\* The ways to the entries stay open.
WaysStay == \A i \in DOMAIN files : Restorable(i) /\ Way(fs, files[i].path) =>
                                        Way(fs', files[i].path)

\* A call for entry j: what it has to do for j, and to leave to the others.
LEMMA CallStep ==
  ASSUME ContentInv, NEW j \in DOMAIN files, Call(j), NEW name, NEW next,
         Calls(j, name, next), next \in CallsOf[phase],
         Consistent(fs'), KnownLinks(fs'),
         out' # Dest => /\ next = "write" /\ phase = "files"
                        /\ out' \in Through \cup {files[j].path},
         \A i \in DOMAIN files \ {j} : Restorable(i) => Keeps(i),
         Restorable(j) =>
             /\ Right(fs', j) \/ Ready(fs', j)
             /\ next = FirstCall[phase] \/ phase = "meta" => Right(fs', j)
             /\ next = "create" =>
                    \/ Right(fs', j)
                    \/ /\ fs'[files[j].path].type = "none"
                       /\ Writable(fs', Parent[files[j].path])
             /\ next = "write" =>
                    \/ out' = files[j].path /\ fs'[out'].type = "f"
                    \/ out' = Dest /\ Right(fs', j)
  PROVE  ContentInv'
<1>0. IInv /\ TypeOK /\ Stage
  BY DEF ContentInv, IInv
<1>1. /\ Given /\ UNCHANGED <<phase, runs>> /\ call' = next /\ Turn(j) /\ j \in todo
      /\ todo' = IF next = FirstCall[phase] THEN todo \ {j} ELSE todo
      /\ files' = files
  BY DEF Calls, Given, given, Turn
<1>2. IInv'
  BY <1>0, EntryStep
<1>3. phase \in Phases
  BY <1>0, <1>1, InPhase
<1>4. Stage'
  BY <1>0, <1>1, <1>3, GivenSame DEF Stage
<1>5. ASSUME next \in {"create", "write"}
      PROVE  todo' = todo /\ Turn(j)' /\ \A i \in DOMAIN files : Turn(i)' => i = j
  <2>1. phase \in {"links", "special", "files"} /\ next # FirstCall[phase]
    BY <1>3, <1>5 DEF Phases, CallsOf, FirstCall
  <2>2. todo' = todo
    BY <1>1, <2>1
  <2>3. Turn(j)'
    BY <1>1, <2>2 DEF Turn
  <2>4. ASSUME NEW i \in DOMAIN files, Turn(i)' PROVE i = j
    <3>1. i \in todo /\ i <= j /\ j <= i
      BY <1>1, <2>1, <2>2, <2>4 DEF Turn
    <3>2. i \in Nat /\ j \in Nat
      BY <1>0, EntryFacts
    <3> QED
      BY <3>1, <3>2
  <2> QED
    BY <2>2, <2>3, <2>4
<1>6. OutOK'
  <2> SUFFICES ASSUME out' # Dest
               PROVE  /\ call' = "write" /\ phase' = "files"
                      /\ \E i \in DOMAIN files' : Turn(i)' /\ out' \in (Through \cup {files[i].path})'
    BY DEF OutOK
  <2> QED
    BY <1>1, <1>5, GivenSame
<1>7. ASSUME NEW i \in DOMAIN files, Past(i)' PROVE Past(i) \/ (i = j /\ next = FirstCall[phase])
  BY <1>1, <1>7 DEF Past
<1>8. ASSUME NEW i \in DOMAIN files, Restorable(i) PROVE Progress(i)'
  <2>0. Progress(i)
    BY <1>8 DEF ContentInv
  <2>1. (Right(fs, i) \/ Ready(fs, i))'
    BY <1>1, <1>8, <2>0, GivenSame DEF Progress, Keeps
  <2>2. Past(i)' => Right(fs, i)'
    <3>1. CASE i # j
      BY <1>1, <1>7, <1>8, <2>0, <3>1, GivenSame DEF Progress, Keeps
    <3>2. CASE i = j
      <4>1. Past(i) => phase = "meta"
        BY <1>0, <1>1, <3>2, InPhase
      <4> QED
        BY <1>1, <1>7, <1>8, <3>2, <4>1, GivenSame
    <3> QED
      BY <3>1, <3>2
  <2>3. Turn(i)' /\ call' = "create" =>
            Right(fs, i)' \/ (fs[files[i].path].type = "none" /\ Writable(fs, Parent[files[i].path]))'
    BY <1>1, <1>5, <1>8, GivenSame
  <2>4. Turn(i)' /\ call' = "write" =>
            \/ (out = files[i].path /\ fs[files[i].path].type = "f")'
            \/ (out = Dest /\ Right(fs, i))'
    BY <1>1, <1>5, <1>8, GivenSame
  <2> QED
    BY <2>1, <2>2, <2>3, <2>4 DEF Progress
<1>9. \A i \in DOMAIN files' : Restorable(i)' => Progress(i)'
  BY <1>1, <1>8, GivenSame
<1>10. Consistent(fs)' /\ KnownLinks(fs)'
  BY <1>1, GivenSame
<1> QED
  BY <1>2, <1>4, <1>6, <1>9, <1>10 DEF ContentInv

LEMMA ContentFacts ==
  ASSUME ContentInv, NEW j \in DOMAIN files, NEW name, NEW next, Calls(j, name, next)
  PROVE  /\ IInv /\ TypeOK /\ Legal(fs) /\ Consistent(fs) /\ KnownLinks(fs) /\ Stage /\ OutOK
         /\ fs \in [Nodes -> Node]
         /\ files[j].path \in Paths /\ files[j].path \in Nodes
         /\ j \in todo /\ Turn(j) /\ call = name
         /\ Restorable(j) => Progress(j) /\ (Right(fs, j) \/ Ready(fs, j))
<1>1. IInv /\ TypeOK
  BY DEF ContentInv, IInv
<1> QED
  BY <1>1, EntryFacts DEF ContentInv, IInv, Calls, Turn, Legal, Progress

LEMMA MakeDirContent ==
  ASSUME ContentInv, NEW j \in DOMAIN files, MakeDir(j)
  PROVE  ContentInv' /\ WaysStay
<1> DEFINE p == files[j].path
           S == Missing(fs, p)
<1>0. Calls(j, "mkdir", "mkdir") /\ fs' = mkdirRecursive(fs, p) /\ out' = out
  BY DEF MakeDir
<1>1. /\ TypeOK /\ Consistent(fs) /\ KnownLinks(fs) /\ Stage /\ OutOK
      /\ fs \in [Nodes -> Node] /\ p \in Paths /\ j \in todo /\ call = "mkdir"
      /\ Restorable(j) => Right(fs, j) \/ Ready(fs, j)
  BY <1>0, ContentFacts
<1>2. phase = "dirs" /\ files[j].type = "d"
  BY <1>1, InPhase DEF Phases, CallsOf
<1>3. fs' = fs \/ Grown(fs, fs', S)
  BY <1>0, <1>1, MkdirShape
<1>4. ASSUME NEW i \in DOMAIN files
      PROVE  Keeps(i) /\ (Way(fs, files[i].path) => Way(fs', files[i].path))
  <2>1. files[i].path \in S => files[i].type = "d"
    BY <1>1, <1>2, EntryFacts DEF Missing
  <2>2. \A c \in S : fs[c].type = "none"
    BY DEF Missing
  <2>3. CASE fs' = fs
    BY <2>3 DEF Keeps
  <2>4. CASE Grown(fs, fs', S)
    <3> HIDE DEF S
    <3> QED
      BY <1>1, <2>1, <2>2, <2>4, GrownKeeps DEF Keeps
  <2> QED
    BY <1>3, <2>3, <2>4
<1>5. ASSUME Ready(fs, j) PROVE Right(fs', j)
  <2>1. /\ Way(fs, p) /\ fs[p].type \in {"none", "d"}
        /\ \A c \in Above[p] \cup {p} : fs[c].type = "none" => Room(fs, Parent[c])
    BY <1>2, <1>5 DEF Ready
  <2>2. Grown(fs, fs', S)
    BY <1>0, <1>1, <2>1, MkdirWorks
  <2>3. p \in Nodes
    BY <1>1 DEF Nodes
  <2>4. fs'[p].type = "d"
    BY <2>1, <2>2, <2>3 DEF Grown, Alike, Missing
  <2> QED
    BY <1>2, <2>4 DEF Right
<1>6. Consistent(fs') /\ KnownLinks(fs')
  BY <1>0, <1>1, <1>3, MkdirConsistent, LinksGrown
<1>7. out' = Dest
  BY <1>0, <1>1 DEF OutOK
<1>8. "mkdir" \in CallsOf[phase] /\ FirstCall[phase] = "mkdir"
  BY <1>2 DEF CallsOf, FirstCall
<1>9. Call(j)
  BY DEF Call
<1> QED
  BY <1>0, <1>1, <1>4, <1>5, <1>6, <1>7, <1>8, <1>9, CallStep DEF Keeps, WaysStay

\* The directories above an entry that is none: the others keep what they have.
LEMMA MkdirForGrows ==
  ASSUME ContentInv, NEW j \in DOMAIN files, files[j].type # "d"
  PROVE  LET p == files[j].path disk == MkdirFor(p) IN
         /\ disk \in [Nodes -> Node] /\ Consistent(disk) /\ KnownLinks(disk)
         /\ \A i \in DOMAIN files : /\ Right(fs, i) => Right(disk, i)
                                    /\ Ready(fs, i) => Ready(disk, i)
                                    /\ Way(fs, files[i].path) => Way(disk, files[i].path)
         /\ Ready(fs, j) => \A a \in Above[p] : disk[a].type = "d"
<1> DEFINE p == files[j].path
           q == Parent[p]
           disk == MkdirFor(p)
<1>0. /\ TypeOK /\ Legal(fs) /\ Consistent(fs) /\ KnownLinks(fs) /\ fs \in [Nodes -> Node]
      /\ p \in Paths /\ p \in Nodes
  BY EntryFacts DEF ContentInv, IInv, Legal
<1>1. disk \in [Nodes -> Node]
  BY <1>0, MkdirForLegal DEF Legal
<1>2. CASE q = Dest
  <2>1. disk = fs /\ Above[p] = {}
    BY <1>0, <1>2, AboveFacts DEF MkdirFor
  <2> QED
    BY <1>0, <2>1
<1>3. CASE q # Dest
  <2> DEFINE S == Missing(fs, q)
  <2>1. disk = mkdirRecursive(fs, q)
    BY <1>3 DEF MkdirFor
  <2>2. q \in Paths /\ Above[p] = Above[q] \cup {q}
    BY <1>0, <1>3, AboveFacts
  <2>3. S \subseteq Above[p] /\ \A c \in S : fs[c].type = "none"
    BY <2>2 DEF Missing
  <2>4. disk = fs \/ Grown(fs, disk, S)
    BY <1>0, <2>1, <2>2, MkdirShape
  <2>5. Consistent(disk)
    BY <1>0, <2>1, <2>2, MkdirConsistent
  <2>6. KnownLinks(disk)
    <3> HIDE DEF disk, S
    <3> QED
      BY <1>0, <2>4, LinksGrown
  <2>7. ASSUME NEW i \in DOMAIN files
        PROVE  /\ Right(fs, i) => Right(disk, i)
               /\ Ready(fs, i) => Ready(disk, i)
               /\ Way(fs, files[i].path) => Way(disk, files[i].path)
    <3>1. files[i].path \in S => files[i].type = "d"
      BY <1>0, <2>3, EntryFacts
    <3> HIDE DEF disk, S
    <3> QED
      BY <1>0, <2>3, <2>4, <3>1, GrownKeeps
  <2>8. ASSUME Ready(fs, j), NEW a \in Above[p] PROVE disk[a].type = "d"
    <3>1. /\ Way(fs, q) /\ fs[q].type \in {"none", "d"}
          /\ \A c \in Above[q] \cup {q} : fs[c].type = "none" => Room(fs, Parent[c])
      BY <2>2, <2>8 DEF Ready, Way
    <3>2. Grown(fs, disk, S)
      BY <1>0, <2>1, <2>2, <3>1, MkdirWorks
    <3>3. a \in Nodes /\ fs[a].type \in {"none", "d"}
      BY <1>0, <2>8, AboveFacts DEF Ready, Way, Nodes
    <3>4. a \notin S => fs[a].type = "d"
      BY <2>2, <3>3 DEF Missing
    <3> QED
      BY <3>2, <3>3, <3>4 DEF Grown, Alike
  <2> QED
    BY <1>1, <2>5, <2>6, <2>7, <2>8
<1> QED
  BY <1>2, <1>3

\* Other entries keep what they have when this one's place, or what it leads to, changes.
LEMMA OthersKeep ==
  ASSUME TypeOK, NEW j \in DOMAIN files, files[j].type # "d", NEW disk, NEW new,
         NEW q \in Through \cup {files[j].path}, SameBut(disk, new, q),
         NEW i \in DOMAIN files \ {j}, Restorable(i)
  PROVE  (Right(disk, i) => Right(new, i)) /\ (Ready(disk, i) => Ready(new, i))
<1>1. q \notin Above[files[i].path] \cup {files[i].path}
  BY OtherPlace
<1> QED
  BY <1>1, ElsewhereKeeps

LEMMA WaysBut ==
  ASSUME TypeOK, NEW j \in DOMAIN files, files[j].type # "d", NEW disk, NEW new,
         NEW q \in Through \cup {files[j].path}, SameBut(disk, new, q),
         NEW i \in DOMAIN files, Restorable(i), Way(disk, files[i].path)
  PROVE  Way(new, files[i].path)
<1>1. q \notin Above[files[i].path]
  <2>1. CASE i = j
    BY <2>1, EntryFacts, AboveFacts DEF Restorable, InTheWay
  <2>2. CASE i # j
    BY <2>2, OtherPlace
  <2> QED
    BY <2>1, <2>2
<1>2. files[i].path \in Paths
  BY EntryFacts
<1> QED
  BY <1>1, <1>2, WayBut

LEMMA UnlinkContent ==
  ASSUME ContentInv, NEW j \in DOMAIN files, Unlink(j)
  PROVE  ContentInv' /\ WaysStay
<1> DEFINE e == files[j]
           p == e.path
           disk == MkdirFor(p)
<1>0. /\ Calls(j, "unlink", "create") /\ out' = out
      /\ fs' = IF CanRemove(disk, p) THEN Make(disk, p, Absent) ELSE disk
  BY DEF Unlink
<1>1. /\ TypeOK /\ Stage /\ OutOK /\ p \in Paths /\ p \in Nodes
      /\ j \in todo /\ call = "unlink"
      /\ Restorable(j) => Right(fs, j) \/ Ready(fs, j)
  BY <1>0, ContentFacts
<1>2. phase \in {"links", "special"} /\ e.type \in {"l", "p", "c"}
  BY <1>1, InPhase DEF Phases, CallsOf
<1>3. /\ disk \in [Nodes -> Node] /\ Consistent(disk) /\ KnownLinks(disk)
      /\ \A i \in DOMAIN files : /\ Right(fs, i) => Right(disk, i)
                                 /\ Ready(fs, i) => Ready(disk, i)
                                 /\ Way(fs, files[i].path) => Way(disk, files[i].path)
      /\ Ready(fs, j) => \A a \in Above[p] : disk[a].type = "d"
  BY <1>2, MkdirForGrows
<1>4. out' = Dest /\ "create" \in CallsOf[phase] /\ FirstCall[phase] # "create" /\ phase # "meta"
  BY <1>0, <1>1, <1>2 DEF OutOK, CallsOf, FirstCall
<1>5. Call(j)
  BY DEF Call
<1>6. ASSUME Consistent(fs'), KnownLinks(fs'),
             \A i \in DOMAIN files \ {j} : Restorable(i) => Keeps(i),
             Restorable(j) =>
                 \/ Right(fs', j)
                 \/ Ready(fs', j) /\ fs'[p].type = "none" /\ Writable(fs', Parent[p])
      PROVE  ContentInv'
  BY <1>0, <1>4, <1>5, <1>6, CallStep
<1>7. CASE ~ CanRemove(disk, p)
  <2>1. fs' = disk
    BY <1>0, <1>7
  <2>2. ASSUME Ready(fs, j) PROVE disk[p].type = "none" /\ Writable(disk, Parent[p])
    <3>1. /\ Way(disk, p) /\ disk[p].type # "d" /\ Room(disk, Parent[p])
          /\ \A a \in Above[p] : disk[a].type = "d"
      BY <1>2, <1>3, <2>2 DEF Ready
    <3>2. Writable(disk, Parent[p])
      BY <1>1, <3>1, OpenWay
    <3> QED
      BY <1>7, <3>1, <3>2 DEF CanRemove
  <2> QED
    BY <1>1, <1>3, <1>6, <2>1, <2>2 DEF Keeps, WaysStay
<1>8. CASE CanRemove(disk, p)
  <2>1. fs' = Make(disk, p, Absent) /\ disk[p].type # "d" /\ Writable(disk, Parent[p])
    BY <1>0, <1>8 DEF CanRemove
  <2>2. SameBut(disk, fs', p) /\ fs'[p].type = "none"
    <3> HIDE DEF disk
    <3> QED
      BY <1>1, <1>3, <2>1, MakeAlike, AbsentNode
  <2>3. Consistent(fs')
    <3> HIDE DEF disk
    <3> QED
      BY <1>1, <1>3, <2>1, <2>2, ChangeConsistent
  <2>4. KnownLinks(fs')
    <3> HIDE DEF disk
    <3> QED
      BY <1>1, <1>3, <2>2, LinksBut
  <2>5. ASSUME NEW i \in DOMAIN files \ {j}, Restorable(i) PROVE Keeps(i)
    <3>1. (Right(disk, i) => Right(fs', i)) /\ (Ready(disk, i) => Ready(fs', i))
      <4> HIDE DEF disk
      <4> QED
        BY <1>1, <1>2, <2>2, <2>5, OthersKeep
    <3> QED
      BY <1>3, <3>1 DEF Keeps
  <2>6. Writable(fs', Parent[p])
    <3> HIDE DEF disk
    <3> QED
      BY <1>1, <2>1, <2>2, WritableBut
  <2>7. Ready(fs', j)
    BY <1>1, <2>2, <2>6, WritableWay, ReadyWay
  <2>8. WaysStay
    <3>1. \A i \in DOMAIN files : Restorable(i) /\ Way(disk, files[i].path) =>
                                      Way(fs', files[i].path)
      <4> HIDE DEF disk
      <4> QED
        BY <1>1, <1>2, <2>2, WaysBut
    <3> QED
      BY <1>3, <3>1 DEF WaysStay
  <2> QED
    BY <1>6, <2>2, <2>3, <2>4, <2>5, <2>6, <2>7, <2>8
<1> QED
  BY <1>7, <1>8

LEMMA CreateContent ==
  ASSUME ContentInv, NEW j \in DOMAIN files, Create(j)
  PROVE  ContentInv' /\ WaysStay
<1> DEFINE e == files[j]
           p == e.path
           perm == IF e.type = "l" THEN {"w", "x"} ELSE e.perm \ {"s"}
           node == New(e.type, perm, e.target)
           makes == CanMake(fs, p) /\ (e.type = "c" => root)
<1>0. /\ Calls(j, "create", "unlink") /\ out' = out
      /\ fs' = IF makes THEN Make(fs, p, node) ELSE fs
  BY DEF Create
<1>1. /\ TypeOK /\ Consistent(fs) /\ KnownLinks(fs) /\ Stage /\ OutOK
      /\ fs \in [Nodes -> Node] /\ p \in Paths /\ p \in Nodes
      /\ j \in todo /\ Turn(j) /\ call = "create"
      /\ Restorable(j) => Progress(j)
  BY <1>0, ContentFacts
<1>2. phase \in {"links", "special"} /\ e.type \in {"l", "p", "c"}
  BY <1>1, InPhase DEF Phases, CallsOf
<1>3. node \in Node /\ node.type = e.type /\ node.target = e.target
  <2>1. e \in Entry
    BY <1>1, EntryType
  <2>2. e.type \in Types /\ perm \in SUBSET {"w", "x", "s"} /\ e.target \in Nodes
    BY <2>1 DEF Entry
  <2> QED
    BY <2>2, NewNode
<1>4. out' = Dest /\ "unlink" \in CallsOf[phase] /\ FirstCall[phase] = "unlink"
  BY <1>0, <1>1, <1>2 DEF OutOK, CallsOf, FirstCall
<1>5. Call(j)
  BY DEF Call
<1>6. ASSUME Consistent(fs'), KnownLinks(fs'),
             \A i \in DOMAIN files \ {j} : Restorable(i) => Keeps(i),
             Restorable(j) => Right(fs', j)
      PROVE  ContentInv'
  BY <1>0, <1>4, <1>5, <1>6, CallStep
<1>7. CASE ~ makes
  <2>1. fs' = fs
    BY <1>0, <1>7
  <2>2. Restorable(j) => Right(fs, j)
    BY <1>1, <1>7 DEF Progress, CanMake, Restorable
  <2> QED
    BY <1>1, <1>6, <2>1, <2>2 DEF Keeps, WaysStay
<1>8. CASE makes
  <2>1. fs' = Make(fs, p, node) /\ fs[p].type = "none" /\ Writable(fs, Parent[p])
    BY <1>0, <1>8 DEF CanMake
  <2>2. SameBut(fs, fs', p) /\ fs'[p] = node
    <3> HIDE DEF node
    <3> QED
      BY <1>1, <1>3, <2>1, MakeAlike
  <2>3. Consistent(fs')
    BY <1>1, <2>1, <2>2, ChangeConsistent
  <2>4. KnownLinks(fs')
    <3>1. fs'[p].type = "l" => e.type = "l" /\ fs'[p].target = e.target
      BY <1>3, <2>2
    <3> QED
      BY <1>1, <2>2, <3>1, LinksBut
  <2>5. ASSUME NEW i \in DOMAIN files \ {j}, Restorable(i) PROVE Keeps(i)
    BY <1>1, <1>2, <2>2, <2>5, OthersKeep DEF Keeps
  <2>6. Right(fs', j)
    <3> HIDE DEF node
    <3> QED
      BY <1>2, <1>3, <2>2 DEF Right
  <2>7. WaysStay
    BY <1>1, <1>2, <2>2, WaysBut DEF WaysStay
  <2> QED
    BY <1>6, <2>3, <2>4, <2>5, <2>6, <2>7
<1> QED
  BY <1>7, <1>8

LEMMA OpenContent ==
  ASSUME ContentInv, NEW j \in DOMAIN files, Open(j)
  PROVE  ContentInv' /\ WaysStay
<1> DEFINE e == files[j]
           p == e.path
           disk == MkdirFor(p)
           t == Followed(disk, p)
           opens == /\ Reached(disk, p) /\ Reached(disk, t)
                    /\ disk[t].type = "f" /\ (root \/ "w" \in disk[t].perm)
           makes == Reached(disk, p) /\ CanMake(disk, t)
           node == New("f", {"w"}, Nowhere)
<1>0. /\ Calls(j, "open", "write")
      /\ fs' = IF opens THEN [disk EXCEPT ![t].content = Empty, ![t].mtime = Now]
               ELSE IF makes THEN Make(disk, t, node)
               ELSE disk
      /\ out' = IF opens \/ makes THEN t ELSE Dest
  BY DEF Open
<1>1. /\ TypeOK /\ Legal(fs) /\ Stage /\ p \in Paths /\ p \in Nodes
      /\ j \in todo /\ call = "open"
      /\ Restorable(j) => Right(fs, j) \/ Ready(fs, j)
  BY <1>0, ContentFacts
<1>2. phase = "files" /\ e.type = "f"
  BY <1>1, InPhase DEF Phases, CallsOf
<1>3. /\ disk \in [Nodes -> Node] /\ Consistent(disk) /\ KnownLinks(disk)
      /\ \A i \in DOMAIN files : /\ Right(fs, i) => Right(disk, i)
                                 /\ Ready(fs, i) => Ready(disk, i)
                                 /\ Way(fs, files[i].path) => Way(disk, files[i].path)
      /\ Ready(fs, j) => \A a \in Above[p] : disk[a].type = "d"
  BY <1>2, MkdirForGrows
<1>4. t \in Through \cup {p} /\ t \in Nodes
  <2>1. disk[p].type = "l" => fs0[p].type = "l" /\ disk[p].target = fs0[p].target
    BY <1>2, <1>3 DEF KnownLinks
  <2>2. disk[p] \in Node
    BY <1>1, <1>3
  <2>3. disk[p].target \in Nodes
    <3> HIDE DEF disk
    <3> QED
      BY <2>2 DEF Node
  <2> QED
    BY <1>1, <1>2, <2>1, <2>3 DEF Followed, Through
<1>5. Restorable(j) => t = p
  <2>1. Restorable(j) => fs0[p].type # "l"
    BY <1>2 DEF Restorable, InTheWay
  <2> QED
    BY <1>2, <1>3, <2>1 DEF KnownLinks, Followed
<1>6. "write" \in CallsOf[phase] /\ FirstCall[phase] # "write" /\ phase # "meta"
  BY <1>2 DEF CallsOf, FirstCall
<1>7. Call(j)
  BY DEF Call
<1>8. \/ fs' = disk /\ ~ opens /\ ~ makes
      \/ /\ SameBut(disk, fs', t)
         /\ \/ opens /\ fs'[t].type = "f" /\ fs'[t].perm = disk[t].perm
            \/ makes /\ fs'[t].type = "f" /\ fs'[t].perm = {"w"}
  <2>1. CASE opens
    <3> DEFINE new == [disk EXCEPT ![t].content = Empty, ![t].mtime = Now]
    <3>1. fs' = new
      BY <1>0, <2>1
    <3>2. disk[t] \in Node
      BY <1>3, <1>4
    <3>3. /\ \A c \in Nodes \ {t} : new[c] = disk[c]
          /\ new[t] = [disk[t] EXCEPT !.content = Empty, !.mtime = Now]
      <4> HIDE DEF disk, t
      <4> QED
        BY <1>3, <1>4
    <3>4. new[t].type = disk[t].type /\ new[t].perm = disk[t].perm
      <4> HIDE DEF disk, t, new
      <4> QED
        BY <3>2, <3>3 DEF Node
    <3> QED
      BY <2>1, <3>1, <3>3, <3>4 DEF SameBut, Alike
  <2>2. CASE ~ opens /\ makes
    <3>1. fs' = Make(disk, t, node) /\ t \in Paths
      BY <1>0, <2>2 DEF CanMake
    <3>2. node \in Node /\ node.type = "f" /\ node.perm = {"w"}
      BY NewNode DEF Types, Nowhere, Nodes, New
    <3>3. SameBut(disk, fs', t) /\ fs'[t] = node
      <4> HIDE DEF disk, t, node
      <4> QED
        BY <1>3, <3>1, <3>2, MakeAlike
    <3> QED
      BY <2>2, <3>2, <3>3
  <2>3. CASE ~ opens /\ ~ makes
    BY <1>0, <2>3
  <2> QED
    BY <2>1, <2>2, <2>3
<1>9. SameBut(disk, fs', t)
  BY <1>8, AlikeSelf
<1>10. Consistent(fs')
  <2>1. \/ fs'[t].type = disk[t].type
        \/ disk[t].type # "d" /\ t \in Paths /\ Writable(disk, Parent[t])
    BY <1>8 DEF CanMake
  <2> HIDE DEF disk, t
  <2> QED
    BY <1>3, <1>4, <1>9, <2>1, ChangeConsistent
<1>11. KnownLinks(fs')
  <2>1. fs'[t].type # "l" \/ fs' = disk
    BY <1>8
  <2> HIDE DEF disk, t
  <2> QED
    BY <1>1, <1>3, <1>9, <2>1, LinksBut
<1>12. ASSUME NEW i \in DOMAIN files \ {j}, Restorable(i) PROVE Keeps(i)
  <2>1. (Right(disk, i) => Right(fs', i)) /\ (Ready(disk, i) => Ready(fs', i))
    <3> HIDE DEF disk, t
    <3> QED
      BY <1>1, <1>2, <1>4, <1>9, <1>12, OthersKeep
  <2> QED
    BY <1>3, <2>1 DEF Keeps
<1>13. ASSUME Restorable(j)
       PROVE  /\ Right(fs', j) \/ Ready(fs', j)
              /\ \/ out' = p /\ fs'[p].type = "f"
                 \/ out' = Dest /\ Right(fs', j)
  <2>1. t = p
    BY <1>5, <1>13
  <2>2. CASE opens \/ makes
    <3>1. out' = p /\ fs'[p].type = "f" /\ (root \/ "w" \in fs'[p].perm) /\ Reached(disk, p)
      BY <1>0, <1>8, <2>1, <2>2 DEF CanMake
    <3>2. Reached(fs', p)
      <4>1. \A a \in Above[p] : Alike(fs'[a], disk[a])
        BY <1>1, <1>9, <2>1, AboveFacts DEF SameBut, Nodes
      <4> HIDE DEF disk
      <4> QED
        BY <1>1, <3>1, <4>1 DEF Reached, Searchable, Alike
    <3>3. Ready(fs', j)
      BY <1>1, <1>2, <3>1, <3>2, ReadyWay
    <3> QED
      BY <3>1, <3>3
  <2>3. CASE ~ opens /\ ~ makes
    <3>1. fs' = disk /\ out' = Dest
      BY <1>0, <2>3
    <3>2. ASSUME Ready(fs, j) PROVE FALSE
      <4>1. /\ Way(disk, p) /\ \A a \in Above[p] : disk[a].type = "d"
            /\ disk[p].type \in {"none", "f"}
            /\ disk[p].type = "f" => root \/ "w" \in disk[p].perm
            /\ disk[p].type = "none" => Room(disk, Parent[p])
        BY <1>2, <1>3, <3>2 DEF Ready
      <4>2. Reached(disk, p) /\ (Room(disk, Parent[p]) => Writable(disk, Parent[p]))
        <5> HIDE DEF disk
        <5> QED
          BY <1>1, <4>1, OpenWay
      <4> QED
        BY <1>1, <2>1, <2>3, <4>1, <4>2 DEF CanMake
    <3> QED
      BY <1>1, <1>3, <1>13, <3>1, <3>2
  <2> QED
    BY <2>2, <2>3
<1>14. out' # Dest => out' \in Through \cup {p}
  BY <1>0, <1>4
<1>15. WaysStay
  <2>1. \A i \in DOMAIN files : Restorable(i) /\ Way(disk, files[i].path) =>
                                    Way(fs', files[i].path)
    <3> HIDE DEF disk, t
    <3> QED
      BY <1>1, <1>2, <1>4, <1>9, WaysBut
  <2> QED
    BY <1>3, <2>1 DEF WaysStay
<1> HIDE DEF disk, t, opens, makes
<1> QED
  BY <1>0, <1>2, <1>15, <1>6, <1>7, <1>10, <1>11, <1>12, <1>13, <1>14, CallStep

LEMMA WriteContent ==
  ASSUME ContentInv, NEW j \in DOMAIN files, Write(j)
  PROVE  ContentInv' /\ WaysStay
<1> DEFINE e == files[j]
           p == e.path
           new == [fs EXCEPT ![out].content = e.content]
<1>0. /\ Calls(j, "write", "open") /\ out' = Dest
      /\ fs' = IF out = Dest THEN fs ELSE new
  BY DEF Write
<1>1. /\ TypeOK /\ Consistent(fs) /\ KnownLinks(fs) /\ Stage /\ OutOK
      /\ fs \in [Nodes -> Node] /\ p \in Paths /\ p \in Nodes
      /\ j \in todo /\ Turn(j) /\ call = "write"
      /\ Restorable(j) => Progress(j)
  BY <1>0, ContentFacts
<1>2. phase = "files" /\ e.type = "f" /\ e.content \in Nat
  <2>1. e \in Entry
    BY <1>1, EntryType
  <2> QED
    BY <1>1, <2>1, InPhase DEF Phases, CallsOf, Entry
<1>3. "open" \in CallsOf[phase] /\ FirstCall[phase] = "open"
  BY <1>2 DEF CallsOf, FirstCall
<1>4. Call(j)
  BY DEF Call
<1>5. ASSUME Consistent(fs'), KnownLinks(fs'),
             \A i \in DOMAIN files \ {j} : Restorable(i) => Keeps(i),
             Restorable(j) => Right(fs', j)
      PROVE  ContentInv'
  BY <1>0, <1>3, <1>4, <1>5, CallStep
<1>6. CASE out = Dest
  <2>1. fs' = fs
    BY <1>0, <1>6
  <2>2. Restorable(j) => Right(fs, j)
    BY <1>1, <1>6, PathAssumption DEF Progress
  <2> QED
    BY <1>1, <1>5, <2>1, <2>2 DEF Keeps, WaysStay
<1>7. CASE out # Dest
  <2>1. out \in Through \cup {p} /\ out \in Nodes
    <3>1. PICK i \in DOMAIN files : Turn(i) /\ out \in Through \cup {files[i].path}
      BY <1>1, <1>7 DEF OutOK
    <3>2. i <= j /\ j <= i /\ i \in Nat /\ j \in Nat
      BY <1>1, <1>2, <3>1, EntryFacts DEF Turn
    <3> QED
      BY <1>1, <3>1, <3>2 DEF TypeOK
  <2>2. fs' = new
    BY <1>0, <1>7
  <2>3. fs[out] \in Node
    BY <1>1, <2>1
  <2>4. new[out] = [fs[out] EXCEPT !.content = e.content] /\ SameBut(fs, new, out)
    BY <1>1, <2>1 DEF SameBut, Alike
  <2>5. /\ fs'[out].type = fs[out].type /\ fs'[out].target = fs[out].target
        /\ fs'[out].content = e.content
        /\ SameBut(fs, fs', out)
    <3> HIDE DEF new
    <3> QED
      BY <2>2, <2>3, <2>4 DEF Node
  <2>6. Consistent(fs') /\ KnownLinks(fs')
    BY <1>1, <2>1, <2>5, ChangeConsistent, LinksBut
  <2>7. ASSUME NEW i \in DOMAIN files \ {j}, Restorable(i) PROVE Keeps(i)
    <3>1. files[j].type # "d"
      BY <1>2
    <3> QED
      BY <1>1, <2>1, <2>5, <2>7, <3>1, OthersKeep DEF Keeps
  <2>8. Restorable(j) => Right(fs', j)
    <3>1. Restorable(j) => out = p /\ fs[p].type = "f"
      BY <1>1, <1>7 DEF Progress
    <3> QED
      BY <1>2, <2>5, <3>1 DEF Right
  <2>9. WaysStay
    <3>1. files[j].type # "d"
      BY <1>2
    <3> QED
      BY <1>1, <2>1, <2>5, <3>1, WaysBut DEF WaysStay
  <2> QED
    BY <1>5, <2>6, <2>7, <2>8, <2>9
<1> QED
  BY <1>6, <1>7

\* One node is changed, and not in what it is and holds.
OneChanged(q) ==
    /\ q \in Nodes /\ \A c \in Nodes \ {q} : fs'[c] = fs[c]
    /\ fs'[q].type = fs[q].type /\ fs'[q].content = fs[q].content
    /\ fs'[q].target = fs[q].target

LEMMA ChmodShape ==
  ASSUME IInv, NEW j \in DOMAIN files, Chmod(j)
  PROVE  LET e == files[j] t == Followed(fs, e.path) IN
         /\ OneChanged(t)
         /\ fs'[t].mtime = fs[t].mtime /\ fs'[t].owner = fs[t].owner
         /\ fs'[t].perm = IF May(e.path) /\ May(t) /\ t # Dest THEN e.perm ELSE fs[t].perm
<1> DEFINE e == files[j]
           t == Followed(fs, e.path)
           m == [fs[t] EXCEPT !.perm = e.perm]
           new == [fs EXCEPT ![t].perm = e.perm]
<1>1. t \in Nodes /\ fs \in [Nodes -> Node]
  BY EntryType, FollowedReachable DEF IInv, Legal
<1>2. fs[t] \in Node
  BY <1>1
<1>3. new[t] = m /\ \A c \in Nodes \ {t} : new[c] = fs[c]
  BY <1>1
<1>4. /\ m.type = fs[t].type /\ m.content = fs[t].content /\ m.target = fs[t].target
      /\ m.mtime = fs[t].mtime /\ m.owner = fs[t].owner /\ m.perm = e.perm
  <2> HIDE DEF t
  <2> QED
    BY <1>2 DEF Node
<1>5. fs' = IF May(e.path) /\ May(t) /\ t # Dest THEN new ELSE fs
  BY DEF Chmod
<1> HIDE DEF m, new
<1> QED
  BY <1>1, <1>3, <1>4, <1>5 DEF OneChanged

LEMMA LchownShape ==
  ASSUME IInv, NEW j \in DOMAIN files, Lchown(j)
  PROVE  LET e == files[j] p == e.path done == May(p) /\ (root \/ e.owner = Me) IN
         /\ OneChanged(p)
         /\ fs'[p].mtime = fs[p].mtime
         /\ fs'[p].owner = IF done THEN e.owner ELSE fs[p].owner
         /\ fs'[p].perm = IF done /\ fs[p].type # "d" THEN fs[p].perm \ {"s"} ELSE fs[p].perm
<1> DEFINE e == files[j]
           p == e.path
           done == May(p) /\ (root \/ e.owner = Me)
           perm == IF fs[p].type = "d" THEN fs[p].perm ELSE fs[p].perm \ {"s"}
           m == [fs[p] EXCEPT !.owner = e.owner, !.perm = perm]
           new == [fs EXCEPT ![p].owner = e.owner,
                             ![p].perm = IF fs[p].type = "d" THEN @ ELSE @ \ {"s"}]
<1>1. p \in Nodes /\ fs \in [Nodes -> Node]
  BY EntryFacts DEF IInv, Legal
<1>2. fs[p] \in Node
  BY <1>1
<1>3. new[p] = m /\ \A c \in Nodes \ {p} : new[c] = fs[c]
  BY <1>1
<1>4. /\ m.type = fs[p].type /\ m.content = fs[p].content /\ m.target = fs[p].target
      /\ m.mtime = fs[p].mtime /\ m.owner = e.owner /\ m.perm = perm
  <2> HIDE DEF p, perm
  <2> QED
    BY <1>2 DEF Node
<1>5. fs' = IF done THEN new ELSE fs
  BY DEF Lchown
<1> HIDE DEF m, new
<1> QED
  BY <1>1, <1>3, <1>4, <1>5 DEF OneChanged

LEMMA UtimesShape ==
  ASSUME IInv, NEW j \in DOMAIN files, Utimes(j)
  PROVE  LET e == files[j] p == e.path IN
         /\ OneChanged(p)
         /\ fs'[p].mtime = IF May(p) THEN e.mtime ELSE fs[p].mtime
         /\ fs'[p].owner = fs[p].owner /\ fs'[p].perm = fs[p].perm
<1> DEFINE e == files[j]
           p == e.path
           m == [fs[p] EXCEPT !.mtime = e.mtime]
           new == [fs EXCEPT ![p].mtime = e.mtime]
<1>1. p \in Nodes /\ fs \in [Nodes -> Node]
  BY EntryFacts DEF IInv, Legal
<1>2. fs[p] \in Node
  BY <1>1
<1>3. new[p] = m /\ \A c \in Nodes \ {p} : new[c] = fs[c]
  BY <1>1
<1>4. /\ m.type = fs[p].type /\ m.content = fs[p].content /\ m.target = fs[p].target
      /\ m.mtime = e.mtime /\ m.owner = fs[p].owner /\ m.perm = fs[p].perm
  <2> HIDE DEF p
  <2> QED
    BY <1>2 DEF Node
<1>5. fs' = IF May(p) THEN new ELSE fs
  BY DEF Utimes
<1> HIDE DEF m, new
<1> QED
  BY <1>1, <1>3, <1>4, <1>5 DEF OneChanged

\* The metadata change neither what is where, nor what it holds.
LEMMA MetaContent ==
  ASSUME ContentInv, NEW j \in DOMAIN files, Chmod(j) \/ Lchown(j) \/ Utimes(j)
  PROVE  ContentInv'
<1> DEFINE e == files[j]
           p == e.path
<1>1. PICK name \in {"chmod", "lchown", "utimes"}, next \in {"chmod", "lchown", "utimes"} :
          Calls(j, name, next)
  BY DEF Chmod, Lchown, Utimes
<1>2. /\ IInv /\ TypeOK /\ Consistent(fs) /\ KnownLinks(fs) /\ Stage /\ OutOK
      /\ fs \in [Nodes -> Node] /\ p \in Paths /\ p \in Nodes /\ p \in Listed
      /\ j \in todo /\ call = name
  BY <1>1, ContentFacts, EntryType
<1>3. phase = "meta"
  BY <1>1, <1>2, InPhase DEF Phases, CallsOf
<1>4. out' = Dest
  BY <1>1, <1>2 DEF OutOK, Chmod, Lchown, Utimes
<1>5. \A c \in Nodes : /\ fs'[c].type = fs[c].type
                       /\ fs'[c].content = fs[c].content
                       /\ fs'[c].target = fs[c].target
  BY <1>2, ChmodShape, LchownShape, UtimesShape DEF OneChanged
<1>6. Consistent(fs')
  <2>1. \A q \in Paths : q \in Nodes /\ Above[q] \subseteq Nodes
    BY AboveFacts DEF Nodes
  <2> QED
    BY <1>2, <1>5, <2>1 DEF Consistent
<1>7. KnownLinks(fs')
  BY <1>2, <1>5, EntryFacts DEF KnownLinks
<1>8. \A i \in DOMAIN files : Restorable(i) => Right(fs, i) /\ Right(fs', i)
  <2> SUFFICES ASSUME NEW i \in DOMAIN files, Restorable(i)
               PROVE  Right(fs, i) /\ Right(fs', i)
    OBVIOUS
  <2>1. files[i].type \in {"d", "l", "p", "c", "f"} /\ files[i].path \in Nodes
    BY <1>2, EntryFacts DEF Restorable, Types
  <2>2. Past(i)
    BY <1>3, <2>1 DEF Past, PhaseOf, Later
  <2>3. Right(fs, i)
    BY <2>2 DEF ContentInv, Progress
  <2> QED
    BY <1>5, <2>1, <2>3 DEF Right
<1>9. next \in CallsOf[phase]
  BY <1>3 DEF CallsOf
<1>10. Call(j)
  BY DEF Call
<1>11. next # "create" /\ next # "write"
  OBVIOUS
<1> QED
  BY <1>1, <1>3, <1>4, <1>6, <1>7, <1>8, <1>9, <1>10, <1>11, CallStep DEF Keeps

LEMMA ContentInit == Init => ContentInv
<1> SUFFICES ASSUME Init PROVE ContentInv
  OBVIOUS
<1>1. IInv /\ TypeOK /\ fs = fs0 /\ fs \in [Nodes -> Node]
  BY Initially DEF IInv, Legal, Init
<1>2. Consistent(fs)
  BY ConsistentAssumption DEF Init
<1>3. KnownLinks(fs) /\ Stage /\ OutOK
  BY <1>1 DEF Init, KnownLinks, Stage, OutOK, Phases
<1>4. ASSUME NEW i \in DOMAIN files, Restorable(i) PROVE Progress(i)
  <2> DEFINE e == files[i]
             p == e.path
  <2>1. p \in Paths /\ p \in Nodes /\ e.type \in Types
    BY <1>1, EntryFacts
  <2>2. fs[p] \in Node
    BY <1>1, <2>1
  <2>3. /\ \A a \in Above[p] : /\ fs[a].type \in {"none", "d"}
                               /\ ~ root /\ fs[a].type = "d" => {"w", "x"} \subseteq fs[a].perm
        /\ fs[p].type \notin {"none", e.type} => "d" \notin {e.type, fs[p].type} /\ e.type # "f"
        /\ e.type = "f" /\ fs[p].type = "f" => root \/ "w" \in fs[p].perm
    BY <1>1, <1>4 DEF Restorable, InTheWay
  <2>4. ASSUME NEW c \in Above[p] \cup {p} PROVE Room(fs, Parent[c])
    <3>1. Parent[c] \in Above[p] \cup {Dest}
      BY <2>1, ParentAbove
    <3> QED
      BY <2>3, <3>1 DEF Room
  <2>5. Way(fs, p)
    BY <2>3 DEF Way
  <2>6. Ready(fs, i)
    BY <2>3, <2>4, <2>5 DEF Ready
  <2>7. ~ Past(i)
    BY <2>1 DEF Init, Past, Later, PhaseOf, Types
  <2>8. ~ Turn(i)
    BY DEF Init, Turn
  <2> QED
    BY <2>6, <2>7, <2>8 DEF Progress
<1> QED
  BY <1>1, <1>2, <1>3, <1>4 DEF ContentInv

\* A step between the calls: what the run has made is the same.
LEMMA BetweenCalls ==
  ASSUME ContentInv, IInv', Given, fs' = fs, out' = Dest, Stage',
         phase' \in Phases => call' \notin {"create", "write"},
         \A i \in DOMAIN files : Restorable(i) /\ Past(i)' => Past(i)
  PROVE  ContentInv'
<1>1. files' = files
  BY DEF Given, given
<1>2. (Consistent(fs) /\ KnownLinks(fs))'
  BY GivenSame DEF ContentInv
<1>3. OutOK'
  BY DEF OutOK
<1>4. ASSUME NEW i \in DOMAIN files, Restorable(i) PROVE Progress(i)'
  <2>1. Progress(i)
    BY <1>4 DEF ContentInv
  <2>2. (Right(fs, i)' <=> Right(fs, i)) /\ (Ready(fs, i)' <=> Ready(fs, i))
    BY GivenSame
  <2>3. Turn(i)' => call' \notin {"create", "write"}
    BY DEF Turn, Stage
  <2> QED
    BY <1>4, <2>1, <2>2, <2>3 DEF Progress
<1>5. \A i \in DOMAIN files' : Restorable(i)' => Progress(i)'
  BY <1>1, <1>4, GivenSame
<1> QED
  BY <1>2, <1>3, <1>5 DEF ContentInv

LEMMA ContentNext == ContentInv /\ [Next]_vars => ContentInv'
<1> SUFFICES ASSUME ContentInv, [Next]_vars PROVE ContentInv'
  OBVIOUS
<1>0. IInv /\ TypeOK /\ Stage /\ OutOK
  BY DEF ContentInv, IInv
<1>1. IInv'
  BY <1>0, Stays
<1>2. ASSUME UNCHANGED <<files, todo, phase>>, NEW i \in DOMAIN files
      PROVE  Past(i)' <=> Past(i)
  BY <1>2 DEF Past
<1>3. CASE UNCHANGED vars
  <2>1. Given /\ files' = files
    BY <1>3 DEF vars, Given, given
  <2>2. \A i : (Turn(i)' <=> Turn(i)) /\ (Past(i)' <=> Past(i))
    BY <1>3 DEF vars, Turn, Past
  <2>3. (Consistent(fs) /\ KnownLinks(fs))' /\ Stage' /\ OutOK'
    BY <1>0, <1>3, <2>1, <2>2, GivenSame DEF ContentInv, vars, Stage, OutOK
  <2>4. \A i \in DOMAIN files : Progress(i) => Progress(i)'
    BY <1>3, <2>1, <2>2, GivenSame DEF vars, Progress
  <2>5. \A i \in DOMAIN files' : Restorable(i)' => Progress(i)'
    BY <2>1, <2>4, GivenSame DEF ContentInv
  <2> QED
    BY <1>1, <2>3, <2>5 DEF ContentInv
<1>4. CASE Begin
  <2>1. /\ phase = "begin" /\ Given /\ fs' = fs /\ out' = out
        /\ \/ phase' = "dirs" /\ todo' = Of("dirs") /\ call' = "mkdir"
           \/ phase' = "refused" /\ UNCHANGED <<todo, call>>
    BY <1>4 DEF Begin, Enter, FirstCall, Given
  <2>2. out' = Dest
    BY <1>0, <2>1 DEF OutOK
  <2>3. Stage'
    BY <1>0, <2>1, GivenSame DEF Stage, Phases, CallsOf
  <2>4. ASSUME NEW i \in DOMAIN files, Restorable(i) PROVE ~ Past(i)'
    <3>1. files[i].type \in Types /\ files' = files
      BY <1>0, <2>1, EntryFacts DEF Given, given
    <3>2. CASE phase' = "dirs" /\ todo' = Of("dirs")
      BY <3>1, <3>2 DEF Past, Later, PhaseOf, Types, Of
    <3>3. CASE phase' = "refused"
      BY <3>1, <3>3 DEF Past, Later, PhaseOf, Types
    <3> QED
      BY <2>1, <3>2, <3>3
  <2> QED
    BY <1>1, <2>1, <2>2, <2>3, <2>4, BetweenCalls DEF Phases
<1>5. CASE NextPhase
  <2>1. /\ phase \in Phases /\ todo = {} /\ Given /\ fs' = fs /\ out' = out
        /\ phase' = Follows[phase] /\ todo' = Of(phase') /\ call' = FirstCall[phase']
    BY <1>5 DEF NextPhase, Enter, Given
  <2>2. out' = Dest
    BY <1>0, <2>1 DEF OutOK, Turn
  <2>3. phase' \in {"links", "special", "files", "meta", "done"}
    BY <2>1 DEF Phases, Follows
  <2>4. /\ phase' \in Phases => call' \in CallsOf[phase'] /\ call' \notin {"create", "write"}
        /\ phase' \notin Phases => todo' = {}
    BY <2>1, <2>3 DEF Phases, FirstCall, CallsOf, Of
  <2>5. Stage'
    BY <2>1, <2>4, GivenSame DEF Stage
  <2>6. ASSUME NEW i \in DOMAIN files, Restorable(i), Past(i)' PROVE Past(i)
    <3>1. files[i].type \in {"d", "l", "p", "c", "f"} /\ files' = files
      BY <1>0, <2>1, <2>6, EntryFacts DEF Given, given, Restorable, Types
    <3>2. files[i].type = "f" => InArchive(i)
      BY <2>6 DEF Restorable
    <3>3. phase' = PhaseOf[files[i].type] => i \in todo'
      BY <2>1, <3>1, <3>2 DEF PhaseOf, Of
    <3>4. phase' \in Later[PhaseOf[files[i].type]]
      BY <2>6, <3>1, <3>3 DEF Past
    <3> QED
      BY <2>1, <3>1, <3>4 DEF Past, PhaseOf, Later, Phases, Follows
  <2> QED
    BY <1>1, <2>1, <2>2, <2>4, <2>5, <2>6, BetweenCalls
<1>6. ASSUME NEW i \in DOMAIN files, Call(i) PROVE ContentInv'
  BY <1>6, MakeDirContent, UnlinkContent, CreateContent, OpenContent, WriteContent,
     MetaContent DEF Call
<1>7. CASE Crash
  <2>1. /\ phase' = "killed" /\ todo' = {} /\ Given /\ fs' = fs /\ out' = Dest
        /\ files' = files
    BY <1>7 DEF Crash, Given, given
  <2>2. Stage'
    BY <2>1 DEF Stage, Phases
  <2>3. ASSUME NEW i \in DOMAIN files PROVE ~ Past(i)'
    <3>1. files[i].type \in Types
      BY <1>0, EntryFacts
    <3> QED
      BY <2>1, <3>1 DEF Past, Later, PhaseOf, Types
  <2> QED
    BY <1>1, <2>1, <2>2, <2>3, BetweenCalls DEF Phases
<1>8. CASE Again
  <2>1. /\ phase \in {"killed", "done"} /\ phase' = "begin" /\ todo' = todo
        /\ Given /\ fs' = fs /\ out' = out /\ files' = files
    BY <1>8 DEF Again, Given, given
  <2>2. out' = Dest /\ Stage'
    BY <1>0, <2>1 DEF OutOK, Stage, Phases
  <2>3. ASSUME NEW i \in DOMAIN files PROVE ~ Past(i)'
    <3>1. files[i].type \in Types
      BY <1>0, EntryFacts
    <3> QED
      BY <2>1, <3>1 DEF Past, Later, PhaseOf, Types
  <2> QED
    BY <1>1, <2>1, <2>2, <2>3, BetweenCalls DEF Phases
<1> QED
  BY <1>3, <1>4, <1>5, <1>6, <1>7, <1>8 DEF Next, Restore

\* A restore that ends has made every entry that nothing in the destination keeps from
\* being made, with its content, however often it was killed before.
THEOREM EntriesMade == Spec => []ContentRestored
<1>1. ContentInv => ContentRestored
  <2> SUFFICES ASSUME ContentInv, phase = "done", NEW i \in DOMAIN files, Restorable(i)
               PROVE  Right(fs, i)
    BY DEF ContentRestored, Right
  <2>1. files[i].type \in {"d", "l", "p", "c", "f"}
    BY EntryFacts DEF ContentInv, IInv, Restorable, Types
  <2>2. Past(i)
    BY <2>1 DEF Past, PhaseOf, Later
  <2> QED
    BY <2>2 DEF ContentInv, Progress
<1> QED
  BY ContentInit, ContentNext, <1>1, PTL DEF Spec

-----------------------------------------------------------------------------
(* That the metadata are restored *)

PermIs(i, disk, perm) ==
    LET e == files[i] IN e.type # "l" /\ e.path \notin Aims => disk[e.path].perm = perm

\* The permissions that lchown leaves.
LastPerm(i) ==
    LET e == files[i] IN
    IF e.type = "d" \/ (~ root /\ e.owner # Me) THEN e.perm ELSE e.perm \ {"s"}

OwnerIs(i, disk) == root => disk[files[i].path].owner = files[i].owner

\* How far the metadata of entry i are.
MetaProgress(i) ==
    /\ Way(fs, files[i].path)
    /\ phase = "meta" /\ Turn(i) /\ call = "lchown" => PermIs(i, fs, files[i].perm)
    /\ phase = "meta" /\ Turn(i) /\ call = "utimes" =>
           PermIs(i, fs, LastPerm(i)) /\ OwnerIs(i, fs)
    /\ phase = "done" \/ (phase = "meta" /\ i \notin todo) =>
           /\ PermIs(i, fs, LastPerm(i)) /\ OwnerIs(i, fs)
           /\ fs[files[i].path].mtime = files[i].mtime

MetaInv ==
    /\ ContentInv
    /\ \A i \in DOMAIN files : Restorable(i) /\ StaysOpen(files[i]) => MetaProgress(i)

LEMMA GivenMeta ==
  ASSUME Given
  PROVE  \A i : StaysOpen(files[i])' <=> StaysOpen(files[i])
<1>1. files' = files /\ fs0' = fs0 /\ root' = root
  BY DEF Given, given
<1>2. OldAims' = OldAims
  BY <1>1 DEF OldAims, Listed
<1> QED
  BY <1>1, <1>2 DEF StaysOpen

LEMMA MetaProgressNext ==
  ASSUME Given, NEW i \in DOMAIN files, Way(fs', files[i].path),
         phase' = "meta" /\ Turn(i)' /\ call' = "lchown" => PermIs(i, fs', files[i].perm),
         phase' = "meta" /\ Turn(i)' /\ call' = "utimes" =>
             PermIs(i, fs', LastPerm(i)) /\ OwnerIs(i, fs'),
         phase' = "done" \/ (phase' = "meta" /\ i \notin todo') =>
             /\ PermIs(i, fs', LastPerm(i)) /\ OwnerIs(i, fs')
             /\ fs'[files[i].path].mtime = files[i].mtime
  PROVE  MetaProgress(i)'
<1>1. files' = files /\ fs0' = fs0 /\ root' = root
  BY DEF Given, given
<1>2. OldAims' = OldAims /\ Aims' = Aims
  BY <1>1 DEF OldAims, Aims, Listed
<1>3. (Way(fs, files[i].path))'
  BY <1>1 DEF Way
<1>4. PermIs(i, fs', files[i].perm) => PermIs(i, fs, files[i].perm)'
  BY <1>1, <1>2 DEF PermIs
<1>5. PermIs(i, fs', LastPerm(i)) => PermIs(i, fs, LastPerm(i))'
  BY <1>1, <1>2 DEF PermIs, LastPerm
<1>6. OwnerIs(i, fs') => OwnerIs(i, fs)'
  BY <1>1 DEF OwnerIs
<1>7. phase' = "meta" /\ Turn(i)' /\ call' = "lchown" => PermIs(i, fs, files[i].perm)'
  BY <1>4
<1>8. phase' = "meta" /\ Turn(i)' /\ call' = "utimes" =>
        PermIs(i, fs, LastPerm(i))' /\ OwnerIs(i, fs)'
  BY <1>5, <1>6
<1>9. phase' = "done" \/ (phase' = "meta" /\ i \notin todo') =>
        /\ PermIs(i, fs, LastPerm(i))' /\ OwnerIs(i, fs)'
        /\ fs'[files'[i].path].mtime = files'[i].mtime
  BY <1>1, <1>5, <1>6
<1> QED
  BY <1>3, <1>7, <1>8, <1>9 DEF MetaProgress

\* In the phase of the metadata an entry that is made can be reached.
LEMMA MayReach ==
  ASSUME ContentInv, phase = "meta", NEW i \in DOMAIN files, Restorable(i),
         Way(fs, files[i].path)
  PROVE  /\ May(files[i].path) /\ Right(fs, i)
         /\ files[i].path # Dest /\ files[i].path \in Paths /\ files[i].path \in Nodes
         /\ files[i].type \in {"d", "l", "p", "c", "f"}
<1> DEFINE p == files[i].path
<1>1. /\ files[i].type \in {"d", "l", "p", "c", "f"} /\ p \in Paths /\ p \in Nodes
      /\ Consistent(fs)
  BY EntryFacts DEF ContentInv, IInv, Restorable, Types
<1>2. Past(i)
  BY <1>1 DEF Past, PhaseOf, Later
<1>3. Right(fs, i)
  BY <1>2 DEF ContentInv, Progress
<1>4. fs[p].type # "none"
  BY <1>1, <1>3 DEF Right
<1>5. \A a \in Above[p] : fs[a].type = "d"
  BY <1>1, <1>4 DEF Consistent
<1>6. Reached(fs, p)
  BY <1>1, <1>5, OpenWay
<1> QED
  BY <1>1, <1>3, <1>4, <1>6, PathAssumption DEF May

\* The entries have the metadata phase one after the other.
LEMMA MetaTurn ==
  ASSUME TypeOK, phase = "meta", NEW j \in DOMAIN files, NEW name, NEW next,
         Calls(j, name, next), next # "chmod"
  PROVE  /\ todo' = todo /\ phase' = "meta"
         /\ \A i \in DOMAIN files : Turn(i)' => i = j
<1>1. /\ todo' = todo /\ phase' = phase /\ files' = files /\ Turn(j)
  BY DEF Calls, FirstCall, given
<1> SUFFICES ASSUME NEW i \in DOMAIN files, Turn(i)' PROVE i = j
  BY <1>1
<1>2. i <= j /\ j <= i
  BY <1>1 DEF Turn
<1>3. i \in Nat /\ j \in Nat
  BY EntryFacts
<1> QED
  BY <1>2, <1>3

LEMMA ChmodMeta ==
  ASSUME MetaInv, NEW j \in DOMAIN files, Chmod(j), phase = "meta",
         NEW i \in DOMAIN files, Restorable(i), StaysOpen(files[i])
  PROVE  MetaProgress(i)'
<1> DEFINE e == files[j]
           p == files[i].path
           t == Followed(fs, e.path)
<1>0. /\ ContentInv /\ IInv /\ TypeOK /\ KnownLinks(fs) /\ MetaProgress(i)
      /\ Calls(j, "chmod", "lchown")
  BY DEF MetaInv, ContentInv, IInv, Chmod
<1>1. /\ Given /\ files' = files /\ call' = "lchown"
      /\ todo' = todo /\ phase' = "meta" /\ \A k \in DOMAIN files : Turn(k)' => k = j
  <2>1. todo' = todo /\ phase' = "meta" /\ \A k \in DOMAIN files : Turn(k)' => k = j
    BY <1>0, MetaTurn
  <2> QED
    BY <1>0, <2>1 DEF Calls, Given, given
<1>2. /\ OneChanged(t)
      /\ fs'[t].mtime = fs[t].mtime /\ fs'[t].owner = fs[t].owner
      /\ fs'[t].perm = IF May(e.path) /\ May(t) /\ t # Dest THEN e.perm ELSE fs[t].perm
  BY <1>0, ChmodShape
<1>3. Way(fs, p) /\ May(p) /\ Right(fs, i) /\ p # Dest /\ p \in Nodes /\ p \in Paths
  BY <1>0, MayReach DEF MetaProgress
<1>4. \/ t = e.path
      \/ t \in OldAims /\ t \in Aims
      \/ t \in Aims /\ e.perm = {"w", "x"}
  <2>1. CASE fs[e.path].type # "l"
    BY <2>1 DEF Followed
  <2>2. CASE fs[e.path].type = "l"
    <3>1. t = fs[e.path].target /\ e.path \in Listed
      BY <2>2 DEF Followed, Listed
    <3>2. CASE fs0[e.path].type = "l" /\ fs[e.path].target = fs0[e.path].target
      BY <3>1, <3>2 DEF OldAims, Aims
    <3>3. CASE e.type = "l" /\ fs[e.path].target = e.target
      <4>1. e.perm = {"w", "x"}
        BY <1>0, <3>3, ListAssumption DEF TypeOK
      <4> QED
        BY <3>1, <3>3, <4>1 DEF Aims
    <3> QED
      BY <1>0, <2>2, <3>2, <3>3 DEF KnownLinks
  <2> QED
    BY <2>1, <2>2
<1>5. Way(fs', p)
  <2> SUFFICES ASSUME NEW a \in Above[p]
               PROVE  /\ fs'[a].type \in {"none", "d"}
                      /\ fs'[a].type = "d" => root \/ "x" \in fs'[a].perm
    BY DEF Way
  <2>1. a \in Nodes
    BY <1>3, AboveFacts DEF Nodes
  <2>2. /\ fs[a].type \in {"none", "d"} /\ fs'[a].type = fs[a].type
        /\ fs[a].type = "d" => root \/ "x" \in fs[a].perm
    BY <1>2, <1>3, <2>1 DEF Way, OneChanged
  <2>3. CASE a = t /\ ~ root
    <3>1. "x" \in e.perm
      BY <1>4, <2>3 DEF StaysOpen
    <3> QED
      BY <1>2, <2>2, <2>3, <3>1
  <2>4. CASE a # t
    BY <1>2, <2>1, <2>2, <2>4 DEF OneChanged
  <2> QED
    BY <2>2, <2>3, <2>4
<1>6. i = j => PermIs(i, fs', files[i].perm)
  <2> SUFFICES ASSUME i = j, e.type # "l" PROVE fs'[p].perm = e.perm
    BY DEF PermIs
  <2>1. fs[p].type # "l"
    BY <1>3 DEF Right
  <2>2. t = p
    BY <2>1 DEF Followed
  <2> QED
    BY <1>2, <1>3, <2>2
<1>7. ASSUME i # j
      PROVE  /\ fs'[p].owner = fs[p].owner /\ fs'[p].mtime = fs[p].mtime
             /\ \A perm : PermIs(i, fs, perm) => PermIs(i, fs', perm)
  <2>1. e.path # p
    BY <1>0, <1>7, EntryFacts
  <2>2. t = p => p \in Aims
    BY <1>4, <2>1
  <2>3. t # p => fs'[p] = fs[p]
    BY <1>2, <1>3 DEF OneChanged
  <2> QED
    BY <1>2, <2>2, <2>3 DEF PermIs
<1>8. i = j => i \in todo'
  BY <1>0, <1>1 DEF Calls, Turn
<1>9. Turn(i)' => PermIs(i, fs', files[i].perm)
  BY <1>1, <1>6
<1>10. ASSUME i \notin todo'
       PROVE  /\ PermIs(i, fs', LastPerm(i)) /\ OwnerIs(i, fs')
              /\ fs'[p].mtime = files[i].mtime
  <2>1. i # j /\ i \notin todo
    BY <1>1, <1>8, <1>10
  <2>2. PermIs(i, fs, LastPerm(i)) /\ OwnerIs(i, fs) /\ fs[p].mtime = files[i].mtime
    BY <1>0, <2>1 DEF MetaProgress
  <2> QED
    BY <1>7, <2>1, <2>2 DEF OwnerIs
<1> QED
  BY <1>1, <1>5, <1>9, <1>10, MetaProgressNext

LEMMA LchownMeta ==
  ASSUME MetaInv, NEW j \in DOMAIN files, Lchown(j), phase = "meta",
         NEW i \in DOMAIN files, Restorable(i), StaysOpen(files[i])
  PROVE  MetaProgress(i)'
<1> DEFINE e == files[j]
           p == files[i].path
           done == May(e.path) /\ (root \/ e.owner = Me)
<1>0. /\ ContentInv /\ IInv /\ TypeOK /\ MetaProgress(i)
      /\ Calls(j, "lchown", "utimes")
  BY DEF MetaInv, ContentInv, IInv, Lchown
<1>1. /\ Given /\ files' = files /\ call' = "utimes" /\ call = "lchown" /\ Turn(j)
      /\ todo' = todo /\ phase' = "meta" /\ \A k \in DOMAIN files : Turn(k)' => k = j
  <2>1. todo' = todo /\ phase' = "meta" /\ \A k \in DOMAIN files : Turn(k)' => k = j
    BY <1>0, MetaTurn
  <2> QED
    BY <1>0, <2>1 DEF Calls, Given, given
<1>2. /\ OneChanged(e.path)
      /\ fs'[e.path].mtime = fs[e.path].mtime
      /\ fs'[e.path].owner = IF done THEN e.owner ELSE fs[e.path].owner
      /\ fs'[e.path].perm = IF done /\ fs[e.path].type # "d" THEN fs[e.path].perm \ {"s"}
                            ELSE fs[e.path].perm
  BY <1>0, LchownShape
<1>3. Way(fs, p) /\ May(p) /\ Right(fs, i) /\ p # Dest /\ p \in Nodes /\ p \in Paths
  BY <1>0, MayReach DEF MetaProgress
<1>4. Way(fs', p)
  <2> SUFFICES ASSUME NEW a \in Above[p]
               PROVE  /\ fs'[a].type \in {"none", "d"}
                      /\ fs'[a].type = "d" => root \/ "x" \in fs'[a].perm
    BY DEF Way
  <2>1. a \in Nodes
    BY <1>3, AboveFacts DEF Nodes
  <2> QED
    BY <1>2, <1>3, <2>1 DEF Way, OneChanged
<1>5. ASSUME i = j PROVE PermIs(i, fs', LastPerm(i)) /\ OwnerIs(i, fs')
  <2>1. PermIs(i, fs, e.perm)
    BY <1>0, <1>1, <1>5 DEF MetaProgress
  <2>2. done <=> (root \/ e.owner = Me)
    BY <1>3, <1>5
  <2>3. fs[p].type = e.type
    BY <1>3, <1>5 DEF Right
  <2> HIDE DEF done
  <2>4. PermIs(i, fs', LastPerm(i))
    BY <1>2, <1>5, <2>1, <2>2, <2>3 DEF PermIs, LastPerm
  <2>5. OwnerIs(i, fs')
    BY <1>2, <1>5, <2>2 DEF OwnerIs
  <2> QED
    BY <2>4, <2>5
<1>6. ASSUME i # j PROVE fs'[p] = fs[p]
  BY <1>0, <1>2, <1>3, <1>6, EntryFacts DEF OneChanged
<1>7. i = j => i \in todo'
  BY <1>0, <1>1 DEF Calls, Turn
<1>8. Turn(i)' => PermIs(i, fs', LastPerm(i)) /\ OwnerIs(i, fs')
  BY <1>1, <1>5
<1>9. ASSUME i \notin todo'
      PROVE  /\ PermIs(i, fs', LastPerm(i)) /\ OwnerIs(i, fs')
             /\ fs'[p].mtime = files[i].mtime
  <2>1. i # j /\ i \notin todo
    BY <1>1, <1>7, <1>9
  <2>2. PermIs(i, fs, LastPerm(i)) /\ OwnerIs(i, fs) /\ fs[p].mtime = files[i].mtime
    BY <1>0, <2>1 DEF MetaProgress
  <2> QED
    BY <1>6, <2>1, <2>2 DEF OwnerIs, PermIs
<1> QED
  BY <1>1, <1>4, <1>8, <1>9, MetaProgressNext

LEMMA UtimesMeta ==
  ASSUME MetaInv, NEW j \in DOMAIN files, Utimes(j), phase = "meta",
         NEW i \in DOMAIN files, Restorable(i), StaysOpen(files[i])
  PROVE  MetaProgress(i)'
<1> DEFINE e == files[j]
           p == files[i].path
<1>0. /\ ContentInv /\ IInv /\ TypeOK /\ MetaProgress(i)
      /\ Calls(j, "utimes", "chmod")
  BY DEF MetaInv, ContentInv, IInv, Utimes
<1>1. /\ Given /\ files' = files /\ call' = "chmod" /\ call = "utimes" /\ Turn(j)
      /\ todo' = todo \ {j} /\ phase' = "meta"
  BY <1>0 DEF Calls, FirstCall, Given, given
<1>2. /\ OneChanged(e.path)
      /\ fs'[e.path].mtime = IF May(e.path) THEN e.mtime ELSE fs[e.path].mtime
      /\ fs'[e.path].owner = fs[e.path].owner /\ fs'[e.path].perm = fs[e.path].perm
  BY <1>0, UtimesShape
<1>3. Way(fs, p) /\ May(p) /\ Right(fs, i) /\ p # Dest /\ p \in Nodes /\ p \in Paths
  BY <1>0, MayReach DEF MetaProgress
<1>4. \A a \in Above[p] \cup {p} : /\ fs'[a].type = fs[a].type
                                   /\ fs'[a].owner = fs[a].owner /\ fs'[a].perm = fs[a].perm
  <2>1. Above[p] \cup {p} \subseteq Nodes
    BY <1>3, AboveFacts DEF Nodes
  <2> QED
    BY <1>2, <2>1 DEF OneChanged
<1>5. Way(fs', p)
  BY <1>3, <1>4 DEF Way
<1>6. i = j => fs'[p].mtime = files[i].mtime
  BY <1>2, <1>3
<1>7. i # j => fs'[p] = fs[p]
  BY <1>0, <1>2, <1>3, EntryFacts DEF OneChanged
<1>8. ASSUME i \notin todo'
      PROVE  /\ PermIs(i, fs', LastPerm(i)) /\ OwnerIs(i, fs')
             /\ fs'[p].mtime = files[i].mtime
  <2>1. PermIs(i, fs, LastPerm(i)) /\ OwnerIs(i, fs)
    BY <1>0, <1>1, <1>8 DEF MetaProgress
  <2>2. fs'[p].mtime = files[i].mtime
    BY <1>0, <1>1, <1>6, <1>7, <1>8 DEF MetaProgress
  <2> QED
    BY <1>4, <2>1, <2>2 DEF PermIs, OwnerIs
<1> QED
  BY <1>1, <1>5, <1>8, MetaProgressNext

LEMMA MetaInit == Init => MetaInv
<1> SUFFICES ASSUME Init PROVE MetaInv
  OBVIOUS
<1>1. ContentInv /\ phase = "begin" /\ fs = fs0
  BY ContentInit DEF Init
<1>2. ASSUME NEW i \in DOMAIN files, Restorable(i) PROVE MetaProgress(i)
  <2>1. Way(fs, files[i].path)
    BY <1>1, <1>2 DEF Way, Restorable, InTheWay
  <2> QED
    BY <1>1, <2>1 DEF MetaProgress
<1> QED
  BY <1>1, <1>2 DEF MetaInv

\* A call before the phase of the metadata leaves the ways open.
LEMMA EarlyMeta ==
  ASSUME MetaInv, NEW j \in DOMAIN files,
         MakeDir(j) \/ Unlink(j) \/ Create(j) \/ Open(j) \/ Write(j),
         NEW i \in DOMAIN files, Restorable(i), StaysOpen(files[i])
  PROVE  MetaProgress(i)'
<1>1. PICK name, next : Calls(j, name, next) /\ name \notin {"chmod", "lchown", "utimes"}
  BY DEF MakeDir, Unlink, Create, Open, Write
<1>2. ContentInv /\ TypeOK /\ Stage /\ j \in todo /\ call = name
  BY <1>1, ContentFacts DEF MetaInv
<1>3. phase \in {"dirs", "links", "special", "files"}
  BY <1>1, <1>2, InPhase DEF Phases, CallsOf
<1>4. Given /\ phase' = phase
  BY <1>1 DEF Calls, Given
<1>5. WaysStay
  BY <1>2, MakeDirContent, UnlinkContent, CreateContent, OpenContent, WriteContent
<1>6. Way(fs', files[i].path)
  BY <1>5 DEF WaysStay, MetaInv, MetaProgress
<1> QED
  BY <1>3, <1>4, <1>6, MetaProgressNext

LEMMA MetaNext == MetaInv /\ [Next]_vars => MetaInv'
<1> SUFFICES ASSUME MetaInv, [Next]_vars PROVE MetaInv'
  OBVIOUS
<1>0. ContentInv /\ IInv /\ TypeOK /\ Stage /\ ContentInv'
  BY ContentNext DEF MetaInv, ContentInv, IInv
<1>1. Given
  <2>1. \A i \in DOMAIN files : Call(i) => Given
    BY DEF Call, MakeDir, Unlink, Create, Open, Write, Chmod, Lchown, Utimes, Calls, Given
  <2> QED
    BY <2>1 DEF Next, Restore, Begin, NextPhase, Crash, Again, Enter, Given, given, vars
<1> SUFFICES ASSUME NEW i \in DOMAIN files, Restorable(i), StaysOpen(files[i])
             PROVE  MetaProgress(i)'
  <2>1. files' = files
    BY <1>1 DEF Given, given
  <2> QED
    BY <1>0, <1>1, <2>1, GivenSame, GivenMeta DEF MetaInv
<1>2. MetaProgress(i)
  BY DEF MetaInv
<1>3. CASE UNCHANGED vars
  <2>1. fs' = fs /\ phase' = phase /\ todo' = todo /\ call' = call /\ files' = files
    BY <1>3 DEF vars
  <2>2. Turn(i)' <=> Turn(i)
    BY <2>1 DEF Turn
  <2> QED
    BY <1>1, <1>2, <2>1, <2>2, MetaProgressNext DEF MetaProgress
<1>4. CASE Begin
  <2>1. fs' = fs /\ phase' \in {"dirs", "refused"}
    BY <1>4 DEF Begin, Enter
  <2> QED
    BY <1>1, <1>2, <2>1, MetaProgressNext DEF MetaProgress
<1>5. CASE NextPhase
  <2>1. /\ phase \in Phases /\ todo = {} /\ fs' = fs
        /\ phase' = Follows[phase] /\ todo' = Of(phase') /\ call' = FirstCall[phase']
    BY <1>5 DEF NextPhase, Enter
  <2>2. CASE phase = "meta"
    <3>1. phase' = "done" /\ i \notin todo
      BY <2>1, <2>2 DEF Follows
    <3> QED
      BY <1>1, <1>2, <2>1, <2>2, <3>1, MetaProgressNext DEF MetaProgress
  <2>3. CASE phase = "files"
    <3>1. phase' = "meta" /\ call' = "chmod" /\ i \in todo'
      BY <2>1, <2>3 DEF Follows, FirstCall, Of
    <3> QED
      BY <1>1, <1>2, <2>1, <3>1, MetaProgressNext DEF MetaProgress
  <2>4. CASE phase \in {"dirs", "links", "special"}
    <3>1. phase' \notin {"meta", "done"}
      BY <2>1, <2>4 DEF Follows
    <3> QED
      BY <1>1, <1>2, <2>1, <3>1, MetaProgressNext DEF MetaProgress
  <2> QED
    BY <2>1, <2>2, <2>3, <2>4 DEF Phases
<1>6. ASSUME NEW j \in DOMAIN files, Call(j) PROVE MetaProgress(i)'
  <2>1. CASE MakeDir(j) \/ Unlink(j) \/ Create(j) \/ Open(j) \/ Write(j)
    BY <2>1, EarlyMeta
  <2>2. CASE Chmod(j) \/ Lchown(j) \/ Utimes(j)
    <3>1. \/ Calls(j, "chmod", "lchown") \/ Calls(j, "lchown", "utimes")
          \/ Calls(j, "utimes", "chmod")
      BY <2>2 DEF Chmod, Lchown, Utimes
    <3>2. j \in todo /\ call \in {"chmod", "lchown", "utimes"}
      BY <3>1 DEF Calls, Turn
    <3>3. phase = "meta"
      BY <1>0, <3>2, InPhase DEF Phases, CallsOf
    <3> QED
      BY <2>2, <3>3, ChmodMeta, LchownMeta, UtimesMeta
  <2> QED
    BY <1>6, <2>1, <2>2 DEF Call
<1>7. CASE Crash \/ Again
  <2>1. fs' = fs /\ phase' \in {"killed", "begin"}
    BY <1>7 DEF Crash, Again
  <2> QED
    BY <1>1, <1>2, <2>1, MetaProgressNext DEF MetaProgress
<1> QED
  BY <1>3, <1>4, <1>5, <1>6, <1>7 DEF Next, Restore

\* A restore that ends has given every entry it can make its times, its owner when
\* root restores, and its permissions, as far as the directories above stay open.
THEOREM MetadataKept == Spec => []MetadataRestored
<1>1. MetaInv => MetadataRestored
  <2> SUFFICES ASSUME MetaInv, phase = "done", NEW i \in DOMAIN files, Restorable(i),
                      StaysOpen(files[i])
               PROVE  /\ fs[files[i].path].mtime = files[i].mtime
                      /\ OwnerIs(i, fs) /\ PermIs(i, fs, LastPerm(i))
    BY DEF MetadataRestored, OwnerIs, PermIs, LastPerm
  <2> QED
    BY DEF MetaInv, MetaProgress
<1> QED
  BY MetaInit, MetaNext, <1>1, PTL DEF Spec
=============================================================================
