-------------------------- MODULE FileScanner_proofs --------------------------
(***************************************************************************)
(* Theorems about FileScanner: types, the order in which entries are       *)
(* found, the contents that are read, and which entries a scan finds, for  *)
(* any tree, any filter and any number of changes by other programs; and   *)
(* about FileFilter: that the rows of a filter mean what their text says.  *)
(***************************************************************************)
EXTENDS FileScanner, SequenceTheorems, FiniteSetTheorems, TLAPS

Frame == [dir : Dirs \cup {Root}, included : BOOLEAN, todo : SUBSET Nodes]

Item == [node : Nodes, size : Nat,
         content : [version : 0 .. 2, length : Nat, read : Nat]]

File == [there : BOOLEAN, size : Nat, version : 1 .. 2]

\* Where the scan is: only the first opendir and the end have no open directory.
Placed ==
    /\ pc \in {"next", "read"} => stack # <<>>
    /\ pc = "read" => entry.node \in Nodes /\ (entry.recurse => entry.node \in Dirs)
    /\ pc = "open" => entry.node \in Dirs \cup {Root}
    /\ pc = "open" => (stack = <<>> <=> entry.node = Root)

TypeInv == TypeOK /\ Placed

-----------------------------------------------------------------------------
(* Types *)

LEMMA InitTypes == Init => TypeInv
  <1> SUFFICES ASSUME Init PROVE TypeInv OBVIOUS
  <1>1. fs \in [Nodes -> File]
    BY SizeAssumption DEF Init, File, SizeAssumption
  <1>2. stack \in Seq(Frame) /\ result \in Seq(Item)
    BY DEF Init
  <1>3. Placed
    BY DEF Init, Placed
  <1>. QED BY <1>1, <1>2, <1>3 DEF Init, TypeInv, TypeOK, File, Frame, Item

LEMMA DirsAreNodes == Dirs \subseteq Nodes
  BY DEF Dirs

\* The frame at the top, and what a Take leaves of the stack.
LEMMA TopFrame ==
    ASSUME TypeInv, pc = "next"
    PROVE  /\ Len(stack) \in Nat /\ Len(stack) >= 1
           /\ Len(stack) \in 1 .. Len(stack)
           /\ Top \in Frame
  <1>1. stack \in Seq(Frame) /\ stack # <<>>
    BY DEF TypeInv, TypeOK, Placed, Frame
  <1>. QED BY <1>1 DEF Top

LEMMA TakeTypes ==
    ASSUME TypeInv, NEW n \in Nodes, Take(n)
    PROVE  /\ stack' \in Seq(Frame) /\ Len(stack') = Len(stack) /\ stack' # <<>>
           /\ \A k \in 1 .. Len(stack) :
                 /\ stack'[k].dir = stack[k].dir
                 /\ stack'[k].included = stack[k].included
                 /\ stack'[k].todo = IF k = Len(stack) THEN stack[k].todo \ {n}
                                     ELSE stack[k].todo
  <1> DEFINE last == Len(stack)
             frame == [stack[last] EXCEPT !.todo = @ \ {n}]
  <1>1. pc = "next" /\ stack' = [stack EXCEPT ![last].todo = @ \ {n}]
    BY DEF Take
  <1>2. stack \in Seq(Frame) /\ last \in 1 .. last /\ stack[last] \in Frame
    BY <1>1, TopFrame DEF TypeInv, TypeOK, Frame, Top
  <1>3. stack' = [stack EXCEPT ![last] = frame]
    BY <1>1
  <1>4. frame \in Frame /\ frame.dir = stack[last].dir
        /\ frame.included = stack[last].included
        /\ frame.todo = stack[last].todo \ {n}
    BY <1>2 DEF Frame
  <1> HIDE DEF frame
  <1>5. stack' \in Seq(Frame) /\ Len(stack') = last
    BY <1>2, <1>3, <1>4
  <1>6. stack' # <<>>
    BY <1>2, <1>5
  <1>7. \A k \in 1 .. last :
           /\ stack'[k].dir = stack[k].dir
           /\ stack'[k].included = stack[k].included
           /\ stack'[k].todo = IF k = last THEN stack[k].todo \ {n} ELSE stack[k].todo
    <2> SUFFICES ASSUME NEW k \in 1 .. last
                 PROVE  /\ stack'[k].dir = stack[k].dir
                        /\ stack'[k].included = stack[k].included
                        /\ stack'[k].todo = IF k = last THEN stack[k].todo \ {n}
                                            ELSE stack[k].todo
      OBVIOUS
    <2>1. stack'[k] = IF k = last THEN frame ELSE stack[k]
      BY <1>2, <1>3
    <2>. QED BY <2>1, <1>4
  <1>. QED BY <1>5, <1>6, <1>7

\* What a Close leaves of the stack.
LEMMA CloseTypes ==
    ASSUME TypeInv, Close
    PROVE  /\ stack' \in Seq(Frame) /\ Len(stack') = Len(stack) - 1
           /\ Len(stack) \in Nat /\ Len(stack) >= 1
           /\ \A k \in 1 .. Len(stack') : k \in 1 .. Len(stack) /\ stack'[k] = stack[k]
           /\ pc' \in {"next", "done"} /\ (pc' = "next" => stack' # <<>>)
  <1> DEFINE m == Len(stack) - 1
  <1>1. m \in Nat /\ Len(stack) \in Nat /\ Len(stack) >= 1
    BY TopFrame DEF Close
  <1>2. stack \in Seq(Frame)
    BY DEF TypeInv, TypeOK, Frame
  <1>3. stack' = SubSeq(stack, 1, m)
    BY DEF Close
  <1>4. \A i \in 1 .. m : i \in 1 .. Len(stack) /\ stack[i] \in Frame
    BY <1>1, <1>2
  <1>5. m = Len(stack) - 1
    OBVIOUS
  <1> HIDE DEF m
  <1>6. /\ SubSeq(stack, 1, m) \in Seq(Frame)
        /\ Len(SubSeq(stack, 1, m)) = IF 1 <= m THEN m - 1 + 1 ELSE 0
        /\ \A i \in 1 .. m - 1 + 1 : SubSeq(stack, 1, m)[i] = stack[1 + i - 1]
    <2>1. 1 \in Int /\ m \in Int /\ \A i \in 1 .. m : stack[i] \in Frame
      BY <1>1, <1>4
    <2>. QED BY <2>1, SubSeqProperties
  <1>7. stack' \in Seq(Frame) /\ Len(stack') = m
    BY <1>1, <1>3, <1>6
  <1>8. \A k \in 1 .. m : stack'[k] = stack[k]
    <2> SUFFICES ASSUME NEW k \in 1 .. m PROVE stack'[k] = stack[k]
      OBVIOUS
    <2>1. k \in 1 .. m - 1 + 1 /\ 1 + k - 1 = k
      BY <1>1
    <2>. QED BY <2>1, <1>3, <1>6
  <1>9. pc' \in {"next", "done"} /\ (pc' = "next" => Len(stack) # 1)
    BY DEF Close
  <1>10. Len(stack) # 1 => stack' # <<>>
    BY <1>1, <1>5, <1>7
  <1>. QED BY <1>1, <1>4, <1>5, <1>7, <1>8, <1>9, <1>10

\* One step per action: types, and where the scan is.
LEMMA StepTypes == TypeInv /\ [Next]_vars => TypeInv'
  <1> SUFFICES ASSUME TypeInv, [Next]_vars PROVE TypeInv'
    OBVIOUS
  <1>t. /\ fs \in [Nodes -> File] /\ stack \in Seq(Frame) /\ result \in Seq(Item)
        /\ entry \in [node : Nodes \cup {Root}, size : Nat, included : BOOLEAN,
                      recurse : BOOLEAN]
        /\ touched \subseteq Nodes /\ pc \in {"open", "next", "read", "done"}
    BY DEF TypeInv, TypeOK, File, Frame, Item
  <1>f. ASSUME UNCHANGED filter
        PROVE  /\ rows' \in Filters /\ front' \in {"cli", "gui"}
               /\ rules' = IF front' = "cli" THEN parse(rows') ELSE buildFilter(rows')
    BY <1>f DEF TypeInv, TypeOK, filter
  <1> DEFINE Typed == /\ fs \in [Nodes -> File] /\ stack \in Seq(Frame)
                      /\ result \in Seq(Item) /\ touched \subseteq Nodes
                      /\ entry \in [node : Nodes \cup {Root}, size : Nat,
                                    included : BOOLEAN, recurse : BOOLEAN]
                      /\ pc \in {"open", "next", "read", "done"}
  <1>q. ASSUME UNCHANGED filter, Typed', Placed' PROVE TypeInv'
    BY <1>q, <1>f DEF TypeInv, TypeOK, File, Frame, Item
  <1>0. CASE UNCHANGED vars
    <2>1. UNCHANGED filter /\ Typed' /\ Placed'
      BY <1>0, <1>t DEF vars, filter, TypeInv, Placed
    <2>. QED BY <2>1, <1>q
  <1>1. CASE Open
    <2> DEFINE new == [dir |-> entry.node, included |-> entry.included,
                       todo |-> {n \in Children(entry.node) : fs[n].there}]
    <2>1. CASE CanOpen(entry.node)
      <3>1. new \in Frame
        BY <1>1, <1>t DEF Open, TypeInv, Placed, Frame, Children
      <3>2. stack' = Append(stack, new) /\ pc' = "next"
        BY <1>1, <2>1 DEF Open
      <3> HIDE DEF new
      <3>3. stack' \in Seq(Frame) /\ stack' # <<>>
        BY <3>1, <3>2, <1>t
      <3>4. Typed' /\ Placed' /\ UNCHANGED filter
        BY <3>2, <3>3, <1>1, <1>t DEF Open, Placed
      <3>. QED BY <3>4, <1>q
    <2>2. CASE ~ CanOpen(entry.node)
      <3>1. Typed' /\ Placed' /\ UNCHANGED filter
        BY <2>2, <1>1, <1>t DEF Open, Placed
      <3>. QED BY <3>1, <1>q
    <2>. QED BY <2>1, <2>2
  <1>2. ASSUME NEW n \in Nodes, Vanished(n) PROVE TypeInv'
    <2>1. Take(n) /\ UNCHANGED <<pc, entry>>
      BY <1>2 DEF Vanished
    <2>2. stack' \in Seq(Frame) /\ stack' # <<>>
      BY <2>1, TakeTypes
    <2>3. Typed' /\ Placed' /\ UNCHANGED filter
      BY <2>1, <2>2, <1>t DEF Take, Placed
    <2>. QED BY <2>3, <1>q
  <1>3. ASSUME NEW n \in Nodes, Visit(n) PROVE TypeInv'
    <2> DEFINE info == Stat(n, fs[n].size)
    <2>1. Take(n) /\ pc = "next"
      BY <1>3 DEF Visit, Take
    <2>2. stack' \in Seq(Frame) /\ stack' # <<>>
      BY <2>1, TakeTypes
    <2>3. info.size \in Nat /\ info.type = Attr[n].type
      BY <1>t DEF Stat, File
    <2>4. /\ entry' = [node |-> n, size |-> info.size,
                       included |-> Included(info, Top.included), recurse |-> Enter(info)]
          /\ pc' = IF Keep(info, Top.included) THEN "read"
                   ELSE IF Enter(info) THEN "open" ELSE "next"
      BY <1>3 DEF Visit
    <2> HIDE DEF info
    <2>5. Enter(info) \in BOOLEAN /\ (Enter(info) => n \in Dirs)
      BY <2>3 DEF Enter, Dirs
    <2>6. Included(info, Top.included) \in BOOLEAN
      BY DEF Included
    <2>7. entry' \in [node : Nodes \cup {Root}, size : Nat, included : BOOLEAN,
                      recurse : BOOLEAN]
      BY <2>3, <2>4, <2>5, <2>6
    <2>8. pc' \in {"open", "next", "read"} /\ (pc' = "open" => n \in Dirs)
      BY <2>4, <2>5
    <2>9. Placed'
      BY <2>2, <2>4, <2>5, <2>8, TreeAssumption DEF Placed, TreeAssumption
    <2>10. Typed' /\ UNCHANGED filter
      BY <2>1, <2>2, <2>7, <2>8, <1>t DEF Take
    <2>. QED BY <2>9, <2>10, <1>q
  <1>4. CASE Read
    <2> DEFINE item == [node |-> entry.node, size |-> entry.size,
                        content |-> Content(entry.node)]
    <2>1. entry.node \in Nodes /\ (entry.recurse => entry.node \in Dirs) /\ stack # <<>>
      BY <1>4 DEF Read, TypeInv, Placed
    <2>2. Content(entry.node) \in [version : 0 .. 2, length : Nat, read : Nat]
      <3>1. fs[entry.node] \in File /\ entry.size \in Nat
        BY <2>1, <1>t
      <3>. QED BY <3>1 DEF Content, NoContent, File
    <2>3. item \in Item
      BY <2>1, <2>2, <1>t DEF Item
    <2>4. /\ result' = Append(result, item)
          /\ pc' = IF entry.recurse THEN "open" ELSE "next"
          /\ UNCHANGED <<fs, filter, stack, entry, touched>>
      BY <1>4 DEF Read
    <2> HIDE DEF item
    <2>5. Typed' /\ UNCHANGED filter
      BY <2>3, <2>4, <1>t
    <2>6. Placed'
      BY <2>1, <2>4, TreeAssumption, DirsAreNodes DEF Placed, TreeAssumption
    <2>. QED BY <2>5, <2>6, <1>q
  <1>5. CASE Close
    <2>1. stack' \in Seq(Frame)
      BY <1>5, CloseTypes
    <2>4. Typed' /\ UNCHANGED filter
      BY <2>1, <1>5, <1>t DEF Close
    <2>5. pc' \in {"next", "done"} /\ (pc' = "next" => stack' # <<>>)
      BY <1>5, CloseTypes
    <2>6. Placed'
      BY <2>5 DEF Placed
    <2>. QED BY <2>4, <2>6, <1>q
  <1>6. ASSUME NEW n \in Nodes, NEW now \in File, Touch(n, now) PROVE TypeInv'
    <2>1. Typed' /\ Placed' /\ UNCHANGED filter
      BY <1>6, <1>t DEF Touch, TypeInv, Placed
    <2>. QED BY <2>1, <1>q
  <1>7. CASE Others
    <2>1. PICK n \in Nodes : Remove(n) \/ \E size \in Sizes : Write(n, size)
      BY <1>7 DEF Others
    <2>2. ASSUME Remove(n) PROVE TypeInv'
      <3>1. [fs[n] EXCEPT !.there = FALSE] \in File
        BY <1>t DEF File
      <3>. QED BY <3>1, <2>2, <1>6 DEF Remove
    <2>3. ASSUME NEW size \in Sizes, Write(n, size) PROVE TypeInv'
      <3>1. [there |-> TRUE, size |-> size, version |-> 2] \in File
        BY SizeAssumption DEF File, SizeAssumption
      <3>. QED BY <3>1, <2>3, <1>6 DEF Write
    <2>. QED BY <2>1, <2>2, <2>3
  <1>. QED BY <1>0, <1>1, <1>2, <1>3, <1>4, <1>5, <1>7 DEF Next, Scanner

\* Every variable of the scan keeps its type, and the stack is empty only before the
\* first opendir and after the end.
THEOREM TypeCorrect == Spec => []TypeOK
  <1>1. TypeInv => TypeOK
    BY DEF TypeInv
  <1>. QED BY <1>1, InitTypes, StepTypes, PTL DEF Spec

-----------------------------------------------------------------------------
(* The order of the entries *)

\* A directory and those above it, below Root.
Up(d) == IF d = Root THEN {} ELSE Above[d] \cup {d}

\* Neither n nor anything in it has been found.
Fresh(n) == \A f \in Found : f # n /\ n \notin Above[f]

\* What readdir will still return: not found, and not above where the scan is.
Waiting ==
    \A k \in 1 .. Len(stack) : \A n \in stack[k].todo :
        /\ Parent[n] = stack[k].dir /\ Fresh(n)
        /\ \A j \in 1 .. Len(stack) : n \notin Up(stack[j].dir)

Distinct ==
    \A j, k \in 1 .. Len(stack) : stack[j].dir = stack[k].dir => j = k

\* The entry to read or open is new to the stack, and nothing waits above it.
Current ==
    pc \in {"open", "read"} =>
        /\ \A j \in 1 .. Len(stack) : entry.node \notin Up(stack[j].dir)
        /\ \A k \in 1 .. Len(stack) : \A n \in stack[k].todo : n \notin Up(entry.node)

\* Nothing in it has been found, and before it is read, not even itself.
Ahead ==
    /\ pc = "read" => Fresh(entry.node)
    /\ pc = "open" => /\ entry.node = Root => Found = {}
                      /\ \A f \in Found : entry.node \notin Above[f]

OrderInv == Waiting /\ Distinct /\ Current /\ Ahead /\ ParentsFirst

Inv == TypeInv /\ OrderInv

\* What a tree is, as the steps need it.
LEMMA AboveParent ==
    ASSUME NEW n \in Nodes
    PROVE  /\ n # Root /\ n \notin Above[n] /\ Above[n] = Up(Parent[n])
           /\ Above[n] \subseteq Nodes
           /\ \A a \in Above[n] : Above[a] \subseteq Above[n]
  BY TreeAssumption, DirsAreNodes DEF TreeAssumption, Up

\* Whatever is at or above a directory, its own parent is above too.
LEMMA ParentIsUp ==
    ASSUME NEW d \in Dirs \cup {Root}, NEW c \in Up(d), Parent[c] # Root
    PROVE  Parent[c] \in Above[d]
  <1>1. d \in Nodes /\ d # Root /\ (c = d \/ c \in Above[d])
    BY DirsAreNodes DEF Up
  <1>2. c \in Nodes
    BY <1>1, AboveParent
  <1>3. Parent[c] \in Above[c]
    BY <1>2, AboveParent DEF Up
  <1>4. Above[c] \subseteq Above[d]
    BY <1>1, AboveParent
  <1>. QED BY <1>3, <1>4

LEMMA InitOrder == Init => OrderInv
  BY DEF Init, OrderInv, Waiting, Distinct, Current, Ahead, ParentsFirst, Found

\* A step that opens and finds nothing and leaves the entry.
LEMMA Shrinks ==
    ASSUME Inv, UNCHANGED result, stack' \in Seq(Frame), Len(stack') <= Len(stack),
           Len(stack) \in Nat,
           \A k \in 1 .. Len(stack') : /\ stack'[k].dir = stack[k].dir
                                      /\ stack'[k].todo \subseteq stack[k].todo
    PROVE  Waiting' /\ Distinct' /\ ParentsFirst' /\ Found' = Found
  <1>1. 1 .. Len(stack') \subseteq 1 .. Len(stack)
    OBVIOUS
  <1>2. Found' = Found
    BY DEF Found
  <1>3. Waiting'
    <2> SUFFICES ASSUME NEW k \in 1 .. Len(stack'), NEW n \in stack'[k].todo
                 PROVE  /\ Parent[n] = stack'[k].dir /\ Fresh(n)'
                        /\ \A j \in 1 .. Len(stack') : n \notin Up(stack'[j].dir)
      BY DEF Waiting, Up
    <2>1. Parent[n] = stack[k].dir /\ Fresh(n)
      BY <1>1 DEF Inv, OrderInv, Waiting
    <2>2. \A j \in 1 .. Len(stack) : n \notin Up(stack[j].dir)
      BY <1>1 DEF Inv, OrderInv, Waiting
    <2>. QED BY <1>1, <1>2, <2>1, <2>2 DEF Fresh
  <1>4. Distinct'
    BY <1>1 DEF Inv, OrderInv, Distinct
  <1>5. ParentsFirst'
    BY DEF Inv, OrderInv, ParentsFirst
  <1>. QED BY <1>2, <1>3, <1>4, <1>5

LEMMA FoundNodes == TypeInv => Found \subseteq Nodes
  <1> SUFFICES ASSUME TypeInv, NEW f \in Found PROVE f \in Nodes
    OBVIOUS
  <1>1. result \in Seq(Item)
    BY DEF TypeInv, TypeOK, Item
  <1>2. PICK i \in 1 .. Len(result) : f = result[i].node
    BY DEF Found
  <1>3. result[i] \in Item
    BY <1>1, <1>2
  <1>. QED BY <1>2, <1>3 DEF Item

LEMMA OpenOrder ==
    ASSUME Inv, Open, CanOpen(entry.node)
    PROVE  OrderInv'
  <1> DEFINE d == entry.node
             new == [dir |-> d, included |-> entry.included,
                     todo |-> {n \in Children(d) : fs[n].there}]
             old == 1 .. Len(stack)
             last == Len(stack) + 1
  <1>1. /\ pc = "open" /\ pc' = "next" /\ stack' = Append(stack, new)
        /\ UNCHANGED <<result, entry>>
    BY DEF Open
  <1>2. stack \in Seq(Frame) /\ d \in Dirs \cup {Root} /\ (stack = <<>> <=> d = Root)
    BY <1>1 DEF Inv, TypeInv, TypeOK, Placed, Frame
  <1>3. new.dir = d /\ new.todo \subseteq {n \in Nodes : Parent[n] = d}
    BY DEF Children
  <1> HIDE DEF new
  <1>4. /\ Len(stack) \in Nat /\ last \notin old /\ 1 .. Len(stack') = old \cup {last}
        /\ stack'[last] = new /\ \A k \in old : stack'[k] = stack[k]
    BY <1>1, <1>2
  <1>5. Found' = Found
    BY <1>1 DEF Found
  <1>6. ASSUME NEW c \in Nodes, Parent[c] = d
        PROVE  Fresh(c) /\ c \notin Up(d) /\ \A k \in old : c \notin Up(stack[k].dir)
    <2>1. CASE d = Root
      <3>1. Found = {} /\ old = {}
        BY <1>1, <1>2, <2>1 DEF Inv, OrderInv, Ahead
      <3>. QED BY <2>1, <3>1 DEF Fresh, Up
    <2>2. CASE d # Root
      <3>1. d \in Nodes /\ d \in Above[c]
        BY <1>2, <1>6, <2>2, AboveParent, DirsAreNodes DEF Up
      <3>2. c \notin Up(d)
        BY <1>2, <1>6, <2>2, <3>1, ParentIsUp, AboveParent
      <3>3. \A k \in old : c \notin Up(stack[k].dir)
        <4> SUFFICES ASSUME NEW k \in old, c \in Up(stack[k].dir) PROVE FALSE
          OBVIOUS
        <4>1. stack[k].dir \in Dirs \cup {Root}
          <5>1. stack[k] \in Frame
            BY <1>2
          <5>. QED BY <5>1 DEF Frame
        <4>2. d \in Above[stack[k].dir]
          BY <1>6, <2>2, <4>1, ParentIsUp
        <4>3. d \in Up(stack[k].dir)
          BY <4>2 DEF Up
        <4>. QED BY <1>1, <4>3 DEF Inv, OrderInv, Current
      <3>4. Fresh(c)
        <4> SUFFICES ASSUME NEW f \in Found, f = c \/ c \in Above[f] PROVE FALSE
          BY DEF Fresh
        <4>1. f \in Nodes
          BY FoundNodes DEF Inv
        <4>2. d \in Above[f]
          BY <3>1, <4>1, AboveParent
        <4>. QED BY <1>1, <4>2 DEF Inv, OrderInv, Ahead
      <3>. QED BY <3>2, <3>3, <3>4
    <2>. QED BY <2>1, <2>2
  <1>7. \A k \in old : d # stack[k].dir
    <2> SUFFICES ASSUME NEW k \in old, d = stack[k].dir PROVE FALSE
      OBVIOUS
    <2>1. d # Root
      BY <1>2, <1>4
    <2>. QED BY <1>1, <2>1 DEF Inv, OrderInv, Current, Up
  <1>8. Waiting'
    <2> SUFFICES ASSUME NEW k \in old \cup {last}, NEW n \in stack'[k].todo
                 PROVE  /\ Parent[n] = stack'[k].dir /\ Fresh(n)'
                        /\ \A j \in old \cup {last} : n \notin Up(stack'[j].dir)
      BY <1>4 DEF Waiting, Up
    <2>1. CASE k = last
      BY <2>1, <1>3, <1>4, <1>5, <1>6 DEF Fresh
    <2>2. CASE k \in old
      <3>1. /\ Parent[n] = stack[k].dir /\ Fresh(n)
            /\ \A j \in old : n \notin Up(stack[j].dir)
        BY <2>2, <1>4 DEF Inv, OrderInv, Waiting
      <3>2. n \notin Up(d)
        BY <2>2, <1>1, <1>4 DEF Inv, OrderInv, Current
      <3>. QED BY <2>2, <3>1, <3>2, <1>3, <1>4, <1>5 DEF Fresh
    <2>. QED BY <2>1, <2>2
  <1>9. Distinct'
    BY <1>3, <1>4, <1>7 DEF Inv, OrderInv, Distinct
  <1>10. Current' /\ Ahead' /\ ParentsFirst'
    BY <1>1 DEF Inv, OrderInv, Current, Ahead, ParentsFirst
  <1>. QED BY <1>8, <1>9, <1>10 DEF OrderInv

LEMMA VisitOrder ==
    ASSUME Inv, NEW n \in Nodes, Visit(n)
    PROVE  OrderInv'
  <1> DEFINE last == Len(stack)
  <1>1. Take(n) /\ pc = "next" /\ n \in stack[last].todo /\ entry'.node = n
        /\ UNCHANGED result
    BY DEF Visit, Take, Top
  <1>2. /\ last \in 1 .. last /\ stack' \in Seq(Frame) /\ Len(stack') = last
        /\ \A k \in 1 .. last :
              /\ stack'[k].dir = stack[k].dir
              /\ stack'[k].todo = IF k = last THEN stack[k].todo \ {n} ELSE stack[k].todo
    BY <1>1, TopFrame, TakeTypes DEF Inv
  <1>3. Waiting' /\ Distinct' /\ ParentsFirst' /\ Found' = Found
    <2>1. \A k \in 1 .. Len(stack') : /\ stack'[k].dir = stack[k].dir
                                      /\ stack'[k].todo \subseteq stack[k].todo
      BY <1>2
    <2>2. last \in Nat /\ Len(stack') <= last
      BY <1>2, <1>1, TopFrame DEF Inv
    <2>. QED BY <1>1, <1>2, <2>1, <2>2, Shrinks
  <1>4. /\ Parent[n] = stack[last].dir /\ Fresh(n)
        /\ \A j \in 1 .. last : n \notin Up(stack[j].dir)
    BY <1>1, <1>2 DEF Inv, OrderInv, Waiting
  <1>5. Up(n) = Up(stack[last].dir) \cup {n}
    BY <1>4, AboveParent DEF Up
  <1>6. ASSUME NEW k \in 1 .. last, NEW m \in stack'[k].todo PROVE m \notin Up(n)
    <2>1. m \in stack[k].todo /\ (k = last => m # n)
      BY <1>2
    <2>2. m \notin Up(stack[last].dir) /\ Parent[m] = stack[k].dir
      BY <1>2, <2>1 DEF Inv, OrderInv, Waiting
    <2>3. m # n
      BY <1>2, <1>4, <2>1, <2>2 DEF Inv, OrderInv, Distinct
    <2>. QED BY <1>5, <2>2, <2>3
  <1>7. Current'
    BY <1>1, <1>2, <1>4, <1>6 DEF Current, Up
  <1>8. Ahead'
    BY <1>1, <1>3, <1>4, AboveParent DEF Ahead, Fresh
  <1>. QED BY <1>3, <1>7, <1>8 DEF OrderInv

\* A Read finds the entry and nothing else.
LEMMA ReadFinds ==
    ASSUME TypeInv, Read
    PROVE  Found' = Found \cup {entry.node}
  <1> DEFINE n == entry.node
             len == Len(result)
             item == [node |-> n, size |-> entry.size, content |-> Content(n)]
  <1>1. result' = Append(result, item) /\ result \in Seq(Item)
    BY DEF Read, TypeInv, TypeOK, Item
  <1>2. item.node = n
    OBVIOUS
  <1> HIDE DEF item
  <1>3. /\ len \in Nat /\ Len(result') = len + 1
        /\ \A i \in 1 .. len + 1 : result'[i] = IF i = len + 1 THEN item ELSE result[i]
    BY <1>1
  <1>4. \A i \in 1 .. len : i \in 1 .. len + 1 /\ result'[i] = result[i]
    BY <1>3
  <1>5. result'[len + 1].node = n /\ len + 1 \in 1 .. len + 1
    BY <1>2, <1>3
  <1>6. \A i \in 1 .. len + 1 : i = len + 1 \/ i \in 1 .. len
    BY <1>3
  <1>7. Found' = {result'[i].node : i \in 1 .. len + 1}
    BY <1>3 DEF Found
  <1>. QED BY <1>4, <1>5, <1>6, <1>7 DEF Found

LEMMA ReadOrder ==
    ASSUME Inv, Read
    PROVE  OrderInv'
  <1> DEFINE n == entry.node
             len == Len(result)
             item == [node |-> n, size |-> entry.size, content |-> Content(n)]
  <1>1. /\ pc = "read" /\ result' = Append(result, item)
        /\ pc' = IF entry.recurse THEN "open" ELSE "next"
        /\ UNCHANGED <<stack, entry>>
    BY DEF Read
  <1>2. n \in Nodes /\ Fresh(n) /\ result \in Seq(Item)
    BY <1>1 DEF Inv, TypeInv, TypeOK, Placed, OrderInv, Ahead, Item
  <1>3. item.node = n
    OBVIOUS
  <1> HIDE DEF item
  <1>4. /\ len \in Nat /\ Len(result') = len + 1
        /\ \A i \in 1 .. len + 1 : result'[i] = IF i = len + 1 THEN item ELSE result[i]
    BY <1>1, <1>2
  <1>5. \A i \in 1 .. len : result[i].node \in Found
    BY DEF Found
  <1>6. Found' = Found \cup {n}
    BY ReadFinds DEF Inv
  <1>7. Above[n] = Up(Parent[n]) /\ n \notin Above[n] /\ n # Root
    BY <1>2, AboveParent
  <1>8. Waiting'
    <2> SUFFICES ASSUME NEW k \in 1 .. Len(stack), NEW m \in stack[k].todo
                 PROVE  /\ Parent[m] = stack[k].dir /\ Fresh(m)'
                        /\ \A j \in 1 .. Len(stack) : m \notin Up(stack[j].dir)
      BY <1>1 DEF Waiting, Up
    <2>1. /\ Parent[m] = stack[k].dir /\ Fresh(m)
          /\ \A j \in 1 .. Len(stack) : m \notin Up(stack[j].dir)
      BY DEF Inv, OrderInv, Waiting
    <2>2. m \notin Up(n)
      BY <1>1 DEF Inv, OrderInv, Current
    <2>3. n # m /\ m \notin Above[n]
      BY <1>7, <2>2 DEF Up
    <2>. QED BY <1>6, <2>1, <2>3 DEF Fresh
  <1>9. Distinct' /\ Current'
    BY <1>1 DEF Inv, OrderInv, Distinct, Current, Up
  <1>10. Ahead'
    BY <1>1, <1>2, <1>6, <1>7 DEF Ahead, Fresh
  <1>11. ParentsFirst'
    <2> SUFFICES ASSUME NEW i \in 1 .. len + 1, NEW j \in 1 .. len + 1
                 PROVE  /\ result'[i].node = result'[j].node => i = j
                        /\ result'[i].node \in Above[result'[j].node] => i < j
      BY <1>4 DEF ParentsFirst
    <2>1. CASE i \in 1 .. len /\ j \in 1 .. len
      BY <2>1, <1>4 DEF Inv, OrderInv, ParentsFirst
    <2>2. CASE i = len + 1 /\ j \in 1 .. len
      BY <2>2, <1>2, <1>3, <1>4, <1>5 DEF Fresh
    <2>3. CASE i \in 1 .. len /\ j = len + 1
      BY <2>3, <1>2, <1>3, <1>4, <1>5 DEF Fresh
    <2>4. CASE i = len + 1 /\ j = len + 1
      BY <2>4, <1>3, <1>4, <1>7
    <2>. QED BY <1>4, <2>1, <2>2, <2>3, <2>4
  <1>. QED BY <1>8, <1>9, <1>10, <1>11 DEF OrderInv

LEMMA StepOrder == Inv /\ [Next]_vars => OrderInv'
  <1> SUFFICES ASSUME Inv, [Next]_vars PROVE OrderInv'
    OBVIOUS
  <1>s. stack \in Seq(Frame) /\ Len(stack) \in Nat
    BY DEF Inv, TypeInv, TypeOK, Frame
  <1>0. ASSUME UNCHANGED <<pc, stack, entry, result>> PROVE OrderInv'
    <2>1. UNCHANGED stack /\ UNCHANGED result /\ UNCHANGED pc /\ UNCHANGED entry
      BY <1>0
    <2>2. Found' = Found
      BY <2>1 DEF Found
    <2>3. Waiting' /\ Distinct' /\ ParentsFirst'
      BY <2>1, <2>2 DEF Inv, OrderInv, Waiting, Distinct, ParentsFirst, Fresh, Up
    <2>4. Current' /\ Ahead'
      BY <2>1, <2>2 DEF Inv, OrderInv, Current, Ahead, Fresh, Up
    <2>. QED BY <2>3, <2>4 DEF OrderInv
  <1>1. CASE Open
    <2>1. CASE CanOpen(entry.node)
      BY <1>1, <2>1, OpenOrder
    <2>2. CASE ~ CanOpen(entry.node)
      <3>1. UNCHANGED <<stack, entry, result>> /\ pc' \in {"next", "done"}
        BY <1>1, <2>2 DEF Open
      <3>2. /\ stack' \in Seq(Frame) /\ Len(stack') <= Len(stack)
            /\ \A k \in 1 .. Len(stack') : /\ stack'[k].dir = stack[k].dir
                                           /\ stack'[k].todo \subseteq stack[k].todo
        BY <3>1, <1>s
      <3>3. Waiting' /\ Distinct' /\ ParentsFirst'
        BY <3>1, <3>2, <1>s, Shrinks
      <3>4. Current' /\ Ahead'
        BY <3>1 DEF Current, Ahead
      <3>. QED BY <3>3, <3>4 DEF OrderInv
    <2>. QED BY <2>1, <2>2
  <1>2. ASSUME NEW n \in Nodes, Vanished(n) PROVE OrderInv'
    <2>1. Take(n) /\ UNCHANGED <<pc, entry, result>> /\ pc = "next"
      BY <1>2 DEF Vanished, Take
    <2>2. /\ stack' \in Seq(Frame) /\ Len(stack') <= Len(stack)
          /\ \A k \in 1 .. Len(stack') : /\ stack'[k].dir = stack[k].dir
                                         /\ stack'[k].todo \subseteq stack[k].todo
      <3>1. /\ stack' \in Seq(Frame) /\ Len(stack') = Len(stack)
            /\ \A k \in 1 .. Len(stack) :
                  /\ stack'[k].dir = stack[k].dir
                  /\ stack'[k].todo = IF k = Len(stack) THEN stack[k].todo \ {n}
                                      ELSE stack[k].todo
        BY <2>1, TakeTypes DEF Inv
      <3>2. Len(stack') <= Len(stack)
        BY <3>1, <1>s
      <3>3. \A k \in 1 .. Len(stack) : stack'[k].todo \subseteq stack[k].todo
        BY <3>1
      <3>. QED BY <3>1, <3>2, <3>3
    <2>3. Waiting' /\ Distinct' /\ ParentsFirst'
      BY <2>1, <2>2, <1>s, Shrinks
    <2>4. Current' /\ Ahead'
      BY <2>1 DEF Current, Ahead
    <2>. QED BY <2>3, <2>4 DEF OrderInv
  <1>3. ASSUME NEW n \in Nodes, Visit(n) PROVE OrderInv'
    BY <1>3, VisitOrder
  <1>4. CASE Read
    BY <1>4, ReadOrder
  <1>5. CASE Close
    <2>1. /\ stack' \in Seq(Frame) /\ Len(stack') <= Len(stack)
          /\ \A k \in 1 .. Len(stack') : /\ stack'[k].dir = stack[k].dir
                                         /\ stack'[k].todo \subseteq stack[k].todo
      BY <1>5, <1>s, CloseTypes DEF Inv
    <2>2. UNCHANGED result /\ pc' \in {"next", "done"}
      BY <1>5 DEF Close
    <2>3. Waiting' /\ Distinct' /\ ParentsFirst'
      BY <2>1, <2>2, <1>s, Shrinks
    <2>4. Current' /\ Ahead'
      BY <2>2 DEF Current, Ahead
    <2>. QED BY <2>3, <2>4 DEF OrderInv
  <1>6. CASE Others
    BY <1>0, <1>6 DEF Others, Remove, Write, Touch
  <1>7. CASE UNCHANGED vars
    BY <1>0, <1>7 DEF vars
  <1>. QED BY <1>1, <1>2, <1>3, <1>4, <1>5, <1>6, <1>7 DEF Next, Scanner

\* No entry is found twice, and every directory is found before what is in it, for
\* any tree and whatever vanishes: the restore makes directories in this order.
THEOREM InOrder == Spec => []ParentsFirst
  <1>1. Init => Inv
    BY InitTypes, InitOrder DEF Inv
  <1>2. Inv /\ [Next]_vars => Inv'
    BY StepTypes, StepOrder DEF Inv
  <1>3. Inv => ParentsFirst
    BY DEF Inv, OrderInv
  <1>. QED BY <1>1, <1>2, <1>3, PTL DEF Spec

-----------------------------------------------------------------------------
(* The contents *)

\* What nobody touched is as it was, and so is the size the entry has of it.
Untouched ==
    /\ \A n \in Nodes \ touched : fs[n].there /\ fs[n].size = Size0[n]
    /\ pc = "read" /\ entry.node \notin touched /\ Attr[entry.node].type = "f" =>
           entry.size = Size0[entry.node]

WholeInv == TypeInv /\ Untouched /\ ContentExact

\* What is read of a file that nobody touched is all of it.
LEMMA ContentWhole ==
    ASSUME TypeInv, Untouched, pc = "read", Attr[entry.node].type = "f",
           entry.node \notin touched \cup Locked
    PROVE  /\ Content(entry.node).length = Size0[entry.node]
           /\ Content(entry.node).read = Size0[entry.node]
  <1>1. entry.node \in Nodes
    BY DEF TypeInv, Placed
  <1>2. /\ fs[entry.node].there /\ fs[entry.node].size = Size0[entry.node]
        /\ entry.size = Size0[entry.node] /\ Size0[entry.node] \in Nat
    BY <1>1, SizeAssumption DEF Untouched, SizeAssumption
  <1>. QED BY <1>1, <1>2 DEF Content, NoContent

\* The items found so far are exact as long as only more is touched.
LEMMA ItemsKeep ==
    ASSUME ContentExact, UNCHANGED result, touched \subseteq touched'
    PROVE  ContentExact'
  BY DEF ContentExact

LEMMA ReadWhole ==
    ASSUME WholeInv, Read
    PROVE  Untouched' /\ ContentExact'
  <1> DEFINE len == Len(result)
             item == [node |-> entry.node, size |-> entry.size,
                      content |-> Content(entry.node)]
  <1>1. /\ pc = "read" /\ pc' \in {"open", "next"} /\ result' = Append(result, item)
        /\ UNCHANGED <<fs, touched>>
    BY DEF Read
  <1>2. Untouched'
    BY <1>1 DEF WholeInv, Untouched
  <1>3. result \in Seq(Item)
    BY DEF WholeInv, TypeInv, TypeOK, Item
  <1>4. Attr[item.node].type = "f" /\ item.node \notin touched \cup Locked =>
            item.content.length = Size0[item.node] /\ item.content.read = item.content.length
    BY <1>1, ContentWhole DEF WholeInv
  <1> HIDE DEF item
  <1>5. /\ Len(result') = len + 1
        /\ \A i \in 1 .. len + 1 : IF i = len + 1 THEN result'[i] = item
                                   ELSE i \in 1 .. len /\ result'[i] = result[i]
    BY <1>1, <1>3
  <1>6. ContentExact'
    <2> SUFFICES ASSUME NEW i \in 1 .. len + 1,
                        Attr[result'[i].node].type = "f",
                        result'[i].node \notin touched \cup Locked
                 PROVE  /\ result'[i].content.length = Size0[result'[i].node]
                        /\ result'[i].content.read = result'[i].content.length
      BY <1>1, <1>5 DEF ContentExact
    <2>1. CASE i = len + 1
      BY <2>1, <1>4, <1>5
    <2>2. CASE i # len + 1
      BY <2>2, <1>5 DEF WholeInv, ContentExact
    <2>. QED BY <2>1, <2>2
  <1>. QED BY <1>2, <1>6

LEMMA TouchWhole ==
    ASSUME WholeInv, NEW n \in Nodes, NEW now, Touch(n, now)
    PROVE  Untouched' /\ ContentExact'
  <1>1. /\ fs' = [fs EXCEPT ![n] = now] /\ touched' = touched \cup {n}
        /\ UNCHANGED <<pc, entry, result>>
    BY DEF Touch
  <1>2. fs \in [Nodes -> File]
    BY DEF WholeInv, TypeInv, TypeOK, File
  <1>3. Untouched'
    BY <1>1, <1>2 DEF WholeInv, Untouched
  <1>. QED BY <1>1, <1>3, ItemsKeep DEF WholeInv

LEMMA StepWhole == WholeInv /\ [Next]_vars => WholeInv'
  <1> SUFFICES ASSUME WholeInv, [Next]_vars PROVE Untouched' /\ ContentExact'
    BY StepTypes DEF WholeInv
  <1>0. ASSUME UNCHANGED <<fs, touched, result>>, pc' # "read" PROVE Untouched' /\ ContentExact'
    BY <1>0, ItemsKeep DEF WholeInv, Untouched
  <1>1. CASE Open
    BY <1>0, <1>1 DEF Open
  <1>2. ASSUME NEW n \in Nodes, Vanished(n) PROVE Untouched' /\ ContentExact'
    <2>1. UNCHANGED <<fs, touched, result>> /\ pc' = "next"
      BY <1>2 DEF Vanished, Take
    <2>. QED BY <2>1, <1>0
  <1>3. ASSUME NEW n \in Nodes, Visit(n) PROVE Untouched' /\ ContentExact'
    <2>1. UNCHANGED <<fs, touched, result>>
      BY <1>3 DEF Visit, Take
    <2>2. entry'.node = n /\ (Attr[n].type = "f" => entry'.size = fs[n].size)
      BY <1>3 DEF Visit, Stat
    <2>3. Untouched'
      BY <2>1, <2>2 DEF WholeInv, Untouched
    <2>. QED BY <2>1, <2>3, ItemsKeep DEF WholeInv
  <1>4. CASE Read
    BY <1>4, ReadWhole
  <1>5. CASE Close
    <2>1. UNCHANGED <<fs, touched, result>> /\ pc' \in {"next", "done"}
      BY <1>5 DEF Close
    <2>. QED BY <2>1, <1>0
  <1>6. CASE Others
    BY <1>6, TouchWhole DEF Others, Remove, Write
  <1>7. CASE UNCHANGED vars
    BY <1>7, ItemsKeep DEF vars, WholeInv, Untouched
  <1>. QED BY <1>1, <1>2, <1>3, <1>4, <1>5, <1>6, <1>7 DEF Next, Scanner

\* A file that nobody writes or removes during the scan is in the backup whole, for
\* any tree, any filter and whatever else changes: the buffer of its first stat has
\* its size, and the read that follows fills it.
THEOREM ContentsWhole == Spec => []ContentExact
  <1>1. Init => WholeInv
    <2>1. Init => Untouched /\ ContentExact
      BY DEF Init, Untouched, ContentExact
    <2>. QED BY <2>1, InitTypes DEF WholeInv
  <1>2. WholeInv => ContentExact
    BY DEF WholeInv
  <1>. QED BY <1>1, <1>2, StepWhole, PTL DEF Spec

-----------------------------------------------------------------------------
(* What the scan has found when it ends *)

\* The directories above an entry are a way down to it: below each of them, and
\* below Root, one of the others or the entry itself is the next.
LEMMA WayDown ==
    ASSUME NEW n \in Nodes, NEW a \in Above[n] \cup {Root}
    PROVE  \E c \in Above[n] \cup {n} : Parent[c] = a
  <1> DEFINE Way == {c \in Above[n] \cup {n} : a = Root \/ a \in Above[c]}
             Sets == {Above[c] : c \in Way}
  <1>1. Way \subseteq Nodes /\ Way # {}
    BY AboveParent
  <1>2. Sets \subseteq FiniteSubsetsOf(Nodes)
    <2> SUFFICES ASSUME NEW c \in Way PROVE Above[c] \in FiniteSubsetsOf(Nodes)
      OBVIOUS
    <2>1. Above[c] \in SUBSET Nodes
      BY <1>1, AboveParent
    <2>2. IsFiniteSet(Above[c])
      BY <2>1, TreeAssumption, FS_Subset DEF TreeAssumption
    <2>. QED BY <2>1, <2>2 DEF FiniteSubsetsOf
  <1>3. PICK x \in Sets : \A y \in Sets : ~ (<<y, x>> \in StrictSubsetOrdering(Nodes))
    <2>1. Sets # {}
      BY <1>1
    <2> HIDE DEF Sets
    <2>. QED BY <1>2, <2>1, FS_StrictSubsetOrderingWellFounded, WFMin
  <1>4. PICK c \in Way : x = Above[c]
    BY <1>3
  <1>5. ASSUME Parent[c] # a PROVE FALSE
    <2>1. c \in Nodes /\ Parent[c] # Root /\ a \in Above[c] \cup {Root}
      BY <1>1, <1>5, AboveParent DEF Up
    <2>2. Above[c] = Above[Parent[c]] \cup {Parent[c]} /\ Parent[c] \in Nodes
      BY <2>1, AboveParent DEF Up
    <2>3. Parent[c] \in Above[n] /\ Parent[c] \notin Above[Parent[c]]
      BY <1>4, <2>2, AboveParent
    <2>4. Parent[c] \in Way
      BY <1>4, <1>5, <2>1, <2>2, <2>3
    <2>5. <<Above[Parent[c]], x>> \in StrictSubsetOrdering(Nodes)
      BY <1>4, <2>1, <2>2, <2>3, AboveParent DEF StrictSubsetOrdering
    <2>. QED BY <1>3, <2>4, <2>5
  <1>. QED BY <1>4, <1>5

\* A directory has no size, so its stat is always the same; that of what nobody
\* touched is too.
LEMMA SameStat ==
    ASSUME Untouched, NEW n \in Nodes, n \in Dirs \/ n \notin touched
    PROVE  Stat(n, fs[n].size) = Stat0(n)
  <1>1. CASE n \in Dirs
    BY <1>1 DEF Stat, Stat0, Dirs
  <1>2. CASE n \notin touched
    BY <1>2 DEF Untouched, Stat0
  <1>. QED BY <1>1, <1>2

LEMMA StatType == \A n \in Nodes : \A size : Stat(n, size).type = "d" <=> n \in Dirs
  BY DEF Stat, Dirs

\* No directory at or above d is excluded; one of them passed the filter.
Good(d) == \A a \in Up(d) : ~ isExcluded(rules, Stat0(a))
Passed(d) == \E a \in Up(d) : matches(rules, Stat0(a))

\* inIncludedSubtree says the truth of every open directory, and none was to be
\* left out.
FramesOK ==
    \A k \in 1 .. Len(stack) :
        Good(stack[k].dir) /\ (stack[k].included <=> Passed(stack[k].dir))

\* The same of a directory to open, and of an entry to read that is one; an entry
\* is read because it is to be kept.
EntryOK ==
    /\ pc = "open" => Good(entry.node) /\ (entry.included <=> Passed(entry.node))
    /\ pc = "read" =>
           /\ Good(Parent[entry.node])
           /\ entry.recurse <=>
                  (entry.node \in Dirs /\ ~ isExcluded(rules, Stat0(entry.node)))
           /\ entry.recurse => (entry.included <=> Passed(entry.node))
           /\ entry.node \notin touched => Kept(entry.node)

EndOK == pc = "done" => stack = <<>>

\* The scan has still to come to n: n or a directory above it is in an open
\* directory, or is read or opened now.
Pending(n) ==
    \/ \E a \in Above[n] \cup {n} : \E k \in 1 .. Len(stack) : a \in stack[k].todo
    \/ pc = "read" /\ entry.node \in Above[n] \cup {n}
    \/ pc = "open" /\ entry.node \in Above[n] \cup {Root}

\* What nobody disturbed is found if it is to be kept, or still to come.
Settled == \A n \in Nodes : Clear(n) => (n \in Found <=> Kept(n)) \/ Pending(n)

ScanInv == WholeInv /\ OrderInv /\ FramesOK /\ EntryOK /\ EndOK /\ Settled

LEMMA InitScan == Init => ScanInv
  <1> SUFFICES ASSUME Init PROVE ScanInv
    OBVIOUS
  <1>1. Untouched /\ ContentExact /\ FramesOK /\ EndOK
    BY DEF Init, Untouched, ContentExact, FramesOK, EndOK
  <1>2. EntryOK
    BY DEF Init, EntryOK, Good, Passed, Up
  <1>3. Settled
    BY DEF Init, Settled, Pending
  <1>. QED BY <1>1, <1>2, <1>3, InitTypes, InitOrder DEF ScanInv, WholeInv

LEMMA FilterStays == [Next]_vars => UNCHANGED filter /\ touched \subseteq touched'
  BY DEF Next, vars, filter, Scanner, Open, Vanished, Visit, Take, Read, Close, Others,
         Remove, Write, Touch

\* The filter accepts what it accepted.
LEMMA SameRules ==
    ASSUME UNCHANGED rules
    PROVE  /\ \A d : (Good(d)' <=> Good(d)) /\ (Passed(d)' <=> Passed(d))
           /\ \A n : Kept(n)' <=> Kept(n)
  BY DEF Good, Passed, Kept, Up

\* The open directories keep what is known of them.
LEMMA FramesKeep ==
    ASSUME FramesOK, UNCHANGED rules, Len(stack) \in Nat, Len(stack') \in Nat,
           Len(stack') <= Len(stack),
           \A k \in 1 .. Len(stack') : /\ stack'[k].dir = stack[k].dir
                                       /\ stack'[k].included = stack[k].included
    PROVE  FramesOK'
  <1>1. 1 .. Len(stack') \subseteq 1 .. Len(stack)
    OBVIOUS
  <1>. QED BY <1>1 DEF FramesOK, Good, Passed, Up

\* A step that finds nothing settles what it was to come to, or leaves it to come.
LEMMA SettledKeeps ==
    ASSUME Settled, UNCHANGED rules, Found' = Found, touched \subseteq touched',
           \A n \in Nodes : Clear(n) /\ Clear(n)' /\ Pending(n) =>
               Pending(n)' \/ (n \in Found <=> Kept(n))
    PROVE  Settled'
  <1> SUFFICES ASSUME NEW n \in Nodes, Clear(n)'
               PROVE  (n \in Found' <=> Kept(n)') \/ Pending(n)'
    BY DEF Settled
  <1>1. Clear(n)
    BY DEF Clear
  <1>2. Kept(n)' <=> Kept(n)
    BY SameRules
  <1>. QED BY <1>1, <1>2 DEF Settled

\* The facts a step of a scan starts from.
LEMMA ScanFacts ==
    ASSUME ScanInv
    PROVE  /\ TypeInv /\ Untouched /\ OrderInv /\ FramesOK /\ EntryOK /\ EndOK /\ Settled
           /\ stack \in Seq(Frame) /\ Len(stack) \in Nat
           /\ \A k \in 1 .. Len(stack) : stack[k].dir \in Dirs \cup {Root}
  <1>1. stack \in Seq(Frame)
    BY DEF ScanInv, WholeInv, TypeInv, TypeOK, Frame
  <1>2. \A k \in 1 .. Len(stack) : stack[k].dir \in Dirs \cup {Root}
    <2> SUFFICES ASSUME NEW k \in 1 .. Len(stack) PROVE stack[k].dir \in Dirs \cup {Root}
      OBVIOUS
    <2>1. stack[k] \in Frame
      BY <1>1
    <2>. QED BY <2>1 DEF Frame
  <1>. QED BY <1>1, <1>2 DEF ScanInv, WholeInv

LEMMA OpenScan ==
    ASSUME ScanInv, Open, UNCHANGED rules
    PROVE  FramesOK' /\ EntryOK' /\ EndOK' /\ Settled'
  <1> DEFINE d == entry.node
             old == 1 .. Len(stack)
             last == Len(stack) + 1
             new == [dir |-> d, included |-> entry.included,
                     todo |-> {n \in Children(d) : fs[n].there}]
  <1>0. /\ TypeInv /\ Untouched /\ OrderInv /\ FramesOK /\ EntryOK /\ EndOK /\ Settled
        /\ stack \in Seq(Frame) /\ Len(stack) \in Nat
    BY ScanFacts
  <1>1. /\ pc = "open" /\ UNCHANGED <<fs, touched, entry, result>> /\ pc' \in {"next", "done"}
        /\ EntryOK' /\ Found' = Found
    BY DEF Open, EntryOK, Found
  <1>2. CASE CanOpen(d)
    <2>1. pc' = "next" /\ stack' = Append(stack, new)
      BY <1>2 DEF Open
    <2>2. /\ new.dir = d /\ new.included = entry.included
          /\ \A c \in Nodes : Parent[c] = d /\ fs[c].there => c \in new.todo
      BY DEF Children
    <2> HIDE DEF new
    <2>3. /\ Len(stack') = last /\ stack'[last] = new /\ last \in 1 .. Len(stack')
          /\ 1 .. Len(stack') = old \cup {last}
          /\ \A k \in old : stack'[k] = stack[k]
      BY <1>0, <2>1
    <2>4. FramesOK'
      <3>1. Good(d) /\ (entry.included <=> Passed(d))
        BY <1>0, <1>1 DEF EntryOK
      <3>. QED BY <1>0, <2>2, <2>3, <3>1 DEF FramesOK, Good, Passed, Up
    <2>5. ASSUME NEW n \in Nodes, Clear(n), Pending(n) PROVE Pending(n)'
      <3>1. CASE d \in Above[n] \cup {Root}
        <4>1. PICK c \in Above[n] \cup {n} : Parent[c] = d
          BY <3>1, WayDown
        <4>2. c \in Nodes /\ fs[c].there
          BY <1>0, <2>5, <4>1, AboveParent DEF Clear, Untouched
        <4>3. c \in stack'[last].todo
          BY <2>2, <2>3, <4>1, <4>2
        <4>. QED BY <2>3, <4>1, <4>3 DEF Pending
      <3>2. CASE d \notin Above[n] \cup {Root}
        <4>1. PICK a \in Above[n] \cup {n}, k \in old : a \in stack[k].todo
          BY <1>1, <2>5, <3>2 DEF Pending
        <4>. QED BY <2>3, <4>1 DEF Pending
      <3>. QED BY <3>1, <3>2
    <2>. QED BY <1>0, <1>1, <2>1, <2>4, <2>5, SettledKeeps DEF EndOK
  <1>3. CASE ~ CanOpen(d)
    <2>1. stack' = stack /\ (pc' = "done" => stack = <<>>)
      BY <1>3 DEF Open
    <2>2. FramesOK'
      BY <1>0, <2>1, FramesKeep
    <2>3. ASSUME NEW n \in Nodes, Clear(n), Pending(n) PROVE Pending(n)'
      <3>1. d \notin Above[n] \cup {Root}
        BY <1>0, <1>3, <2>3, AboveParent DEF CanOpen, Clear, Untouched
      <3>2. PICK a \in Above[n] \cup {n}, k \in old : a \in stack[k].todo
        BY <1>1, <2>3, <3>1 DEF Pending
      <3>. QED BY <2>1, <3>2 DEF Pending
    <2>. QED BY <1>0, <1>1, <2>1, <2>2, <2>3, SettledKeeps DEF EndOK
  <1>. QED BY <1>2, <1>3

\* What readdir returned is gone from the frame; all else is as it was.
LEMMA TakeScan ==
    ASSUME ScanInv, NEW m \in Nodes, Take(m), UNCHANGED rules
    PROVE  /\ FramesOK' /\ UNCHANGED <<fs, touched, result>> /\ Found' = Found
           /\ pc = "next" /\ m \in Top.todo
           /\ Len(stack) \in 1 .. Len(stack) /\ Top = stack[Len(stack)]
           /\ \A a, n : (\E k \in 1 .. Len(stack) : a \in stack[k].todo) /\ a # m =>
                  \E k \in 1 .. Len(stack') : a \in stack'[k].todo
  <1>0. TypeInv /\ FramesOK /\ Len(stack) \in Nat
    BY ScanFacts
  <1>1. /\ UNCHANGED <<fs, touched, result>> /\ Found' = Found
        /\ pc = "next" /\ m \in Top.todo /\ Top = stack[Len(stack)]
    BY DEF Take, Found, Top
  <1>2. /\ Len(stack) \in 1 .. Len(stack) /\ Len(stack') = Len(stack)
        /\ \A k \in 1 .. Len(stack) :
              /\ stack'[k].dir = stack[k].dir
              /\ stack'[k].included = stack[k].included
              /\ stack'[k].todo = IF k = Len(stack) THEN stack[k].todo \ {m}
                                  ELSE stack[k].todo
    BY <1>0, <1>1, TopFrame, TakeTypes
  <1>3. FramesOK'
    <2>1. Len(stack') \in Nat /\ Len(stack') <= Len(stack)
      BY <1>0, <1>2
    <2>2. \A k \in 1 .. Len(stack') : /\ stack'[k].dir = stack[k].dir
                                      /\ stack'[k].included = stack[k].included
      BY <1>2
    <2>. QED BY <1>0, <2>1, <2>2, FramesKeep
  <1>. QED BY <1>1, <1>2, <1>3

LEMMA VanishedScan ==
    ASSUME ScanInv, NEW m \in Nodes, Vanished(m), UNCHANGED rules
    PROVE  FramesOK' /\ EntryOK' /\ EndOK' /\ Settled'
  <1>0. Take(m) /\ pc' = pc /\ ~ fs[m].there
    BY DEF Vanished
  <1>1. /\ FramesOK' /\ UNCHANGED <<fs, touched, result>> /\ Found' = Found /\ pc = "next"
        /\ \A a, n : (\E k \in 1 .. Len(stack) : a \in stack[k].todo) /\ a # m =>
                  \E k \in 1 .. Len(stack') : a \in stack'[k].todo
    BY <1>0, TakeScan
  <1>2. ASSUME NEW n \in Nodes, Clear(n), Pending(n) PROVE Pending(n)'
    <2>1. PICK a \in Above[n] \cup {n} : \E k \in 1 .. Len(stack) : a \in stack[k].todo
      BY <1>1, <1>2 DEF Pending
    <2>2. a # m
      BY <1>0, <1>2, <2>1, ScanFacts, AboveParent DEF Clear, Untouched
    <2>. QED BY <1>1, <2>1, <2>2 DEF Pending
  <1>. QED BY <1>0, <1>1, <1>2, ScanFacts, SettledKeeps DEF EntryOK, EndOK

\* What a Visit decides of an entry nobody touched is what Kept says of it.
LEMMA VisitKept ==
    ASSUME ScanInv, NEW m \in Nodes, Take(m), m \in Dirs \/ m \notin touched
    PROVE  Kept(m) <=> Keep(Stat(m, fs[m].size), Top.included)
  <1>1. /\ pc = "next" /\ m \in Top.todo
        /\ Len(stack) \in 1 .. Len(stack) /\ Top = stack[Len(stack)]
    BY TopFrame, ScanFacts DEF Take, Top
  <1>2. Parent[m] = Top.dir /\ Good(Top.dir) /\ (Top.included <=> Passed(Top.dir))
    BY <1>1, ScanFacts DEF OrderInv, Waiting, FramesOK
  <1>3. Above[m] = Up(Top.dir)
    BY <1>2, AboveParent
  <1>4. Stat(m, fs[m].size) = Stat0(m) /\ (Stat0(m).type = "d" <=> m \in Dirs)
    BY SameStat, StatType, ScanFacts DEF Stat0
  <1>. QED BY <1>2, <1>3, <1>4 DEF Kept, Keep, Good, Passed

LEMMA VisitScan ==
    ASSUME ScanInv, NEW m \in Nodes, Visit(m), UNCHANGED rules
    PROVE  FramesOK' /\ EntryOK' /\ EndOK' /\ Settled'
  <1> DEFINE info == Stat(m, fs[m].size)
             inc == Top.included
  <1>0. Take(m)
    BY DEF Visit
  <1>1. /\ entry'.node = m /\ (entry'.included <=> Included(info, inc))
        /\ (entry'.recurse <=> Enter(info))
        /\ pc' = IF Keep(info, inc) THEN "read" ELSE IF Enter(info) THEN "open" ELSE "next"
    BY DEF Visit
  <1>2. /\ FramesOK' /\ UNCHANGED <<fs, touched, result>> /\ Found' = Found
        /\ pc = "next" /\ m \in Top.todo
        /\ Len(stack) \in 1 .. Len(stack) /\ Top = stack[Len(stack)]
        /\ \A a, n : (\E k \in 1 .. Len(stack) : a \in stack[k].todo) /\ a # m =>
                  \E k \in 1 .. Len(stack') : a \in stack'[k].todo
    BY <1>0, TakeScan
  <1>3. /\ Parent[m] = Top.dir /\ Fresh(m)
        /\ Good(Top.dir) /\ (inc <=> Passed(Top.dir))
    BY <1>2, ScanFacts DEF OrderInv, Waiting, FramesOK
  <1>4. /\ m # Root /\ m \notin Above[m] /\ Above[m] = Up(Top.dir)
        /\ Up(m) = Up(Top.dir) \cup {m}
    BY <1>3, AboveParent DEF Up
  <1>5. m \in Dirs \/ m \notin touched => info = Stat0(m) /\ (Kept(m) <=> Keep(info, inc))
    BY <1>0, SameStat, VisitKept, ScanFacts
  <1>6. Enter(info) <=> m \in Dirs /\ ~ isExcluded(rules, Stat0(m))
    BY <1>5, StatType DEF Enter
  <1>7. ASSUME Enter(info) PROVE Good(m) /\ (entry'.included <=> Passed(m))
    <2>1. info = Stat0(m)
      BY <1>5, <1>6, <1>7
    <2> HIDE DEF info
    <2>2. Good(m)
      BY <1>3, <1>4, <1>6, <1>7 DEF Good
    <2>3. Passed(m) <=> Passed(Top.dir) \/ matches(rules, Stat0(m))
      BY <1>4 DEF Passed
    <2>. QED BY <1>1, <1>3, <2>1, <2>2, <2>3 DEF Included
  <1> HIDE DEF info
  <1>8. EntryOK'
    <2>1. pc' = "open" => Good(m) /\ (entry'.included <=> Passed(m))
      BY <1>1, <1>7
    <2>2. pc' = "read" =>
             /\ Good(Parent[m])
             /\ entry'.recurse <=> (m \in Dirs /\ ~ isExcluded(rules, Stat0(m)))
             /\ entry'.recurse => (entry'.included <=> Passed(m))
             /\ m \notin touched => Kept(m)
      BY <1>1, <1>3, <1>5, <1>6, <1>7
    <2>3. \A d : (Good(d)' <=> Good(d)) /\ (Passed(d)' <=> Passed(d)) /\ (Kept(d)' <=> Kept(d))
      BY SameRules
    <2>. QED BY <1>1, <1>2, <2>1, <2>2, <2>3 DEF EntryOK, Good, Passed, Kept, Up
  <1>9. ASSUME NEW n \in Nodes, Clear(n), Pending(n)
        PROVE  Pending(n)' \/ (n \in Found <=> Kept(n))
    <2>1. PICK a \in Above[n] \cup {n} : \E k \in 1 .. Len(stack) : a \in stack[k].todo
      BY <1>2, <1>9 DEF Pending
    <2>2. CASE a # m
      BY <1>2, <2>1, <2>2 DEF Pending
    <2>3. CASE m \in Above[n] \cup {n} /\ pc' = "read"
      BY <1>1, <2>3 DEF Pending
    <2>4. CASE m = n /\ pc' # "read"
      <3>1. ~ Kept(n)
        BY <1>1, <1>5, <1>9, <2>4 DEF Clear
      <3>. QED BY <1>3, <2>4, <3>1 DEF Fresh
    <2>5. CASE m \in Above[n] /\ pc' = "open"
      BY <1>1, <2>5 DEF Pending
    <2>6. CASE m \in Above[n] /\ pc' = "next"
      <3>1. m \in Dirs /\ isExcluded(rules, Stat0(m))
        BY <1>1, <1>6, <2>6, TreeAssumption DEF TreeAssumption
      <3>2. ~ Kept(n)
        BY <2>6, <3>1 DEF Kept
      <3>. QED BY <1>3, <2>6, <3>2 DEF Fresh
    <2>. QED BY <1>1, <2>1, <2>2, <2>3, <2>4, <2>5, <2>6
  <1>10. Settled'
    BY <1>2, <1>9, ScanFacts, SettledKeeps
  <1>. QED BY <1>1, <1>2, <1>8, <1>10 DEF EndOK

LEMMA ReadScan ==
    ASSUME ScanInv, Read, UNCHANGED rules
    PROVE  FramesOK' /\ EntryOK' /\ EndOK' /\ Settled'
  <1> DEFINE m == entry.node
  <1>1. /\ pc = "read" /\ pc' = (IF entry.recurse THEN "open" ELSE "next")
        /\ UNCHANGED <<fs, stack, entry, touched>>
    BY DEF Read
  <1>2. /\ m \in Nodes /\ Fresh(m) /\ Good(Parent[m])
        /\ entry.recurse <=> (m \in Dirs /\ ~ isExcluded(rules, Stat0(m)))
        /\ entry.recurse => (entry.included <=> Passed(m))
        /\ m \notin touched => Kept(m)
    BY <1>1, ScanFacts DEF TypeInv, Placed, OrderInv, Ahead, EntryOK
  <1>3. m # Root /\ m \notin Above[m] /\ Up(m) = Up(Parent[m]) \cup {m}
    BY <1>2, AboveParent DEF Up
  <1>4. Found' = Found \cup {m}
    BY ReadFinds, ScanFacts
  <1>5. FramesOK' /\ EndOK'
    BY <1>1, ScanFacts, FramesKeep DEF EndOK
  <1>6. EntryOK'
    <2>1. entry.recurse => Good(m)
      BY <1>2, <1>3 DEF Good
    <2>2. \A d : (Good(d)' <=> Good(d)) /\ (Passed(d)' <=> Passed(d))
      BY SameRules
    <2>. QED BY <1>1, <1>2, <2>1, <2>2 DEF EntryOK, Good, Passed, Up
  <1>7. ASSUME NEW n \in Nodes, Clear(n)'
        PROVE  (n \in Found' <=> Kept(n)) \/ Pending(n)'
    <2>1. Clear(n) /\ ((n \in Found <=> Kept(n)) \/ Pending(n))
      BY <1>1, <1>7, ScanFacts DEF Clear, Settled
    <2>2. CASE n = m
      BY <1>2, <1>4, <2>1, <2>2 DEF Clear
    <2>3. CASE n # m /\ (n \in Found <=> Kept(n))
      BY <1>4, <2>3
    <2>4. CASE m \in Above[n] /\ entry.recurse
      BY <1>1, <2>4 DEF Pending
    <2>5. CASE n # m /\ m \in Above[n] /\ ~ entry.recurse
      <3>1. ~ Kept(n)
        BY <1>2, <2>5, TreeAssumption DEF Kept, TreeAssumption
      <3>. QED BY <1>2, <1>4, <2>5, <3>1 DEF Fresh
    <2>6. CASE Pending(n) /\ m \notin Above[n] \cup {n}
      <3>1. PICK a \in Above[n] \cup {n}, k \in 1 .. Len(stack) : a \in stack[k].todo
        BY <1>1, <2>6 DEF Pending
      <3>. QED BY <1>1, <3>1 DEF Pending
    <2>. QED BY <2>1, <2>2, <2>3, <2>4, <2>5, <2>6
  <1>8. Settled'
    BY <1>7, SameRules DEF Settled
  <1>. QED BY <1>5, <1>6, <1>8

LEMMA CloseScan ==
    ASSUME ScanInv, Close, UNCHANGED rules
    PROVE  FramesOK' /\ EntryOK' /\ EndOK' /\ Settled'
  <1>1. /\ pc = "next" /\ Top.todo = {} /\ UNCHANGED <<fs, entry, result, touched>>
        /\ Found' = Found /\ Top = stack[Len(stack)]
    BY DEF Close, Found, Top
  <1>2. /\ stack' \in Seq(Frame) /\ Len(stack') = Len(stack) - 1
        /\ Len(stack) \in Nat /\ Len(stack) >= 1
        /\ \A k \in 1 .. Len(stack') : k \in 1 .. Len(stack) /\ stack'[k] = stack[k]
        /\ pc' \in {"next", "done"}
    BY CloseTypes, ScanFacts
  <1>3. FramesOK'
    BY <1>2, ScanFacts, FramesKeep
  <1>4. EntryOK'
    BY <1>2 DEF EntryOK
  <1>5. EndOK'
    <2>1. pc' = "done" => Len(stack) = 1
      BY DEF Close
    <2>2. pc' = "done" => Len(stack') = 0
      <3>1. Len(stack') = Len(stack) - 1
        BY <1>2
      <3>. QED BY <2>1, <3>1
    <2>3. Len(stack') = 0 => stack' = <<>>
      BY <1>2
    <2>. QED BY <2>2, <2>3 DEF EndOK
  <1>6. ASSUME NEW n \in Nodes, Pending(n) PROVE Pending(n)'
    <2>1. PICK a \in Above[n] \cup {n}, k \in 1 .. Len(stack) : a \in stack[k].todo
      BY <1>1, <1>6 DEF Pending
    <2>2. k # Len(stack)
      BY <1>1, <2>1
    <2>3. k \in 1 .. Len(stack')
      BY <1>2, <2>2
    <2>. QED BY <1>2, <2>1, <2>3 DEF Pending
  <1>7. Settled'
    BY <1>1, <1>6, ScanFacts, SettledKeeps
  <1>. QED BY <1>3, <1>4, <1>5, <1>7

LEMMA StepScan == ScanInv /\ [Next]_vars => ScanInv'
  <1> SUFFICES ASSUME ScanInv, [Next]_vars PROVE FramesOK' /\ EntryOK' /\ EndOK' /\ Settled'
    BY StepWhole, StepOrder DEF ScanInv, WholeInv, Inv
  <1>1. UNCHANGED rules /\ touched \subseteq touched'
    BY FilterStays DEF filter
  <1>2. CASE Others \/ UNCHANGED vars
    <2>1. UNCHANGED <<pc, stack, entry, result>>
      BY <1>2 DEF Others, Remove, Write, Touch, vars
    <2>2. FramesOK' /\ EndOK'
      BY <1>1, <2>1, ScanFacts, FramesKeep DEF EndOK
    <2>3. EntryOK'
      BY <1>1, <2>1, SameRules, ScanFacts DEF EntryOK, Good, Passed, Up
    <2>4. Found' = Found /\ \A n \in Nodes : Pending(n) => Pending(n)'
      BY <2>1 DEF Found, Pending
    <2>5. Settled'
      BY <1>1, <2>4, ScanFacts, SettledKeeps
    <2>. QED BY <2>2, <2>3, <2>5
  <1>3. CASE Scanner
    BY <1>1, <1>3, OpenScan, VanishedScan, VisitScan, ReadScan, CloseScan DEF Scanner
  <1>. QED BY <1>2, <1>3 DEF Next

\* A scan that ends has found exactly what the filter keeps of all that nobody
\* disturbed, for any tree, any filter, any order readdir returns the names in, and
\* whatever other programs write and remove meanwhile.
THEOREM ScanFindsAll == Spec => []ScanExact
  <1>1. ScanInv => ScanExact
    BY DEF ScanInv, EndOK, Settled, Pending, ScanExact
  <1>. QED BY <1>1, InitScan, StepScan, PTL DEF Spec

-----------------------------------------------------------------------------
(* What the filter accepts *)

\* A rule for every row and a row for every rule, of the same meaning: then the
\* rules accept what the rows are documented to.
LEMMA SameMeaning ==
    ASSUME NEW live, NEW rs, NEW info,
           \A row \in live :
               /\ row.dim \in Dimensions
               /\ \E r \in rs : /\ r.action = row.action /\ r.dim = row.dim
                                /\ Hit(r, info) <=> MeansRow(row, info),
           \A r \in rs : \E row \in live :
               /\ r.action = row.action /\ r.dim = row.dim
               /\ Hit(r, info) <=> MeansRow(row, info)
    PROVE  matches(rs, info) <=> Documented(live, info)
  <1>1. ASSUME matches(rs, info) PROVE Documented(live, info)
    BY <1>1 DEF matches, isExcluded, Includes, Documented
  <1>2. ASSUME Documented(live, info) PROVE matches(rs, info)
    <2>1. ~ isExcluded(rs, info)
      BY <1>2 DEF isExcluded, Documented
    <2>2. ASSUME NEW q \in Includes(rs)
          PROVE  \E r \in Includes(rs) : r.dim = q.dim /\ Hit(r, info)
      <3>1. PICK row \in live : row.action = "include" /\ row.dim = q.dim
        BY <2>2 DEF Includes
      <3>2. PICK s \in live : s.action = "include" /\ s.dim = q.dim /\ MeansRow(s, info)
        BY <1>2, <3>1 DEF Documented
      <3>. QED BY <3>2 DEF Includes
    <2>. QED BY <2>1, <2>2 DEF matches
  <1>. QED BY <1>1, <1>2

\* A size as the assumption on Filters has it.
IsSize(t) ==
    /\ t.op \in {"+", ">", "-", "<", ">=", "<=", "=", "", ":"}
    /\ t.unit \in {"", "B", "K", "M", "G"}
    /\ t.n \in Nat /\ t.n2 \in Nat

\* strtoll and the unit give the number that was meant.
LEMMA ParsedSize ==
    ASSUME NEW t, IsSize(t), NEW sz \in Nat
    PROVE  matchSize(parseSizeValue(t), sz) <=> MeansSize(t, sz)
  <1> DEFINE v == t.n * Multiplier(t.unit)
  <1>1. Multiplier(t.unit) =
            (CASE t.unit = "M" -> Kilo * Kilo [] t.unit = "K" -> Kilo
               [] t.unit = "G" -> Kilo * Kilo * Kilo [] OTHER -> 1)
    BY DEF IsSize, Multiplier
  <1>2. t.op \in {"+", ">", "-", "<", ">=", "<=", "=", "", ":"} /\ t.n \in Nat /\ t.n2 \in Nat
    BY DEF IsSize
  <1> DEFINE w == t.n * (CASE t.unit = "M" -> Kilo * Kilo [] t.unit = "K" -> Kilo
                           [] t.unit = "G" -> Kilo * Kilo * Kilo [] OTHER -> 1)
  <1>3. w = v
    BY <1>1
  <1>4. MeansSize(t, sz) <=>
            CASE t.op \in {"+", ">"} -> sz > w
              [] t.op \in {"-", "<"} -> sz < w
              [] t.op = ">=" -> sz >= w
              [] t.op = "<=" -> sz <= w
              [] t.op \in {"=", ""} -> sz = w
              [] t.op = ":" -> sz \in t.n .. t.n2
    BY DEF MeansSize
  <1>5. parseSizeValue(t) =
            IF t.op = ":" THEN Size("RANGE", t.n, t.n2)
            ELSE Size(CASE t.op \in {"+", ">"} -> "GT"
                        [] t.op \in {"-", "<"} -> "LT"
                        [] t.op = ">="         -> "GE"
                        [] t.op = "<="         -> "LE"
                        [] t.op \in {"=", ""}  -> "EQ", v, 0)
    BY DEF parseSizeValue
  <1> HIDE DEF v, w
  <1>6. CASE t.op = ":"
    BY <1>2, <1>4, <1>5, <1>6 DEF matchSize, Size
  <1>7. CASE t.op = "+"
    BY <1>3, <1>4, <1>5, <1>7 DEF matchSize, Size
  <1>8. CASE t.op = ">"
    BY <1>3, <1>4, <1>5, <1>8 DEF matchSize, Size
  <1>9. CASE t.op = "-"
    BY <1>3, <1>4, <1>5, <1>9 DEF matchSize, Size
  <1>10. CASE t.op = "<"
    BY <1>3, <1>4, <1>5, <1>10 DEF matchSize, Size
  <1>11. CASE t.op = ">="
    BY <1>3, <1>4, <1>5, <1>11 DEF matchSize, Size
  <1>12. CASE t.op = "<="
    BY <1>3, <1>4, <1>5, <1>12 DEF matchSize, Size
  <1>13. CASE t.op = "="
    BY <1>3, <1>4, <1>5, <1>13 DEF matchSize, Size
  <1>14. CASE t.op = ""
    <2>1. MeansSize(t, sz) <=> sz = w
      BY <1>4, <1>14
    <2>2. parseSizeValue(t) = Size("EQ", v, 0)
      BY <1>5, <1>14
    <2>. QED BY <1>3, <2>1, <2>2 DEF matchSize, Size
  <1>. QED BY <1>2, <1>6, <1>7, <1>8, <1>9, <1>10, <1>11, <1>12, <1>13, <1>14

\* The window reads every size but those with a = as the command line does.
LEMMA GuiReadsSame ==
    ASSUME NEW t, IsSize(t), t.op \notin {"=", ">=", "<="}
    PROVE  GuiSize(t) = parseSizeValue(t)
  <1>1. GuiNumber(t) = t.n * Multiplier(t.unit)
    BY DEF GuiNumber
  <1> DEFINE v == t.n * Multiplier(t.unit)
  <1>2. GuiSize(t) = IF t.op = ":" THEN Size("RANGE", t.n, t.n2)
                     ELSE Size(CASE t.op \in {"+", ">", ">="} -> "GT"
                                 [] t.op \in {"-", "<", "<="} -> "LT"
                                 [] t.op \in {"=", ""}        -> "EQ", v, 0)
    BY <1>1 DEF GuiSize
  <1>3. parseSizeValue(t) = IF t.op = ":" THEN Size("RANGE", t.n, t.n2)
                            ELSE Size(CASE t.op \in {"+", ">"} -> "GT"
                                        [] t.op \in {"-", "<"} -> "LT"
                                        [] t.op = ">="         -> "GE"
                                        [] t.op = "<="         -> "LE"
                                        [] t.op \in {"=", ""}  -> "EQ", v, 0)
    BY DEF parseSizeValue
  <1> HIDE DEF v
  <1>4. CASE t.op = ":"
    BY <1>2, <1>3, <1>4
  <1>5. CASE t.op = "+"
    BY <1>2, <1>3, <1>5
  <1>6. CASE t.op = ">"
    BY <1>2, <1>3, <1>6
  <1>7. CASE t.op = "-"
    BY <1>2, <1>3, <1>7
  <1>8. CASE t.op = "<"
    BY <1>2, <1>3, <1>8
  <1>9. CASE t.op = ""
    BY <1>2, <1>3, <1>9
  <1>. QED BY <1>4, <1>5, <1>6, <1>7, <1>8, <1>9 DEF IsSize

\* What a rule must have of its row.
Reads(r, row) ==
    /\ r.action = row.action /\ r.dim = row.dim /\ r.glob = row.glob
    /\ r.type = parseType(row.type) /\ r.time = parseTimeValue(row.time)
    /\ r.id = parseId(row.id)
    /\ row.dim = "size" => r.size = parseSizeValue(row.size)

\* Such a rule hits what the row is documented to mean, in each dimension.
LEMMA RuleMeans ==
    ASSUME NEW f \in Filters, NEW row \in f, ~ Ignored(row), Listed(row),
           NEW r, Reads(r, row), NEW n \in Nodes
    PROVE  Hit(r, Stat0(n)) <=> MeansRow(row, Stat0(n))
  <1> DEFINE info == Stat0(n)
  <1>1. /\ row.dim \in {"path", "name", "type", "size", "owner", "group",
                        "mtime", "atime", "ctime"}
        /\ row.time.d # Short /\ row.time.d2 # Short
        /\ row.dim \in Times => row.time.op \in {"before", "after", "between"}
    BY DEF Ignored, Listed, Dimensions, Times
  <1>2. /\ row.time.d \in Int /\ row.time.d2 \in Int /\ IsSize(row.size)
        /\ row.id \in Int => row.id \in Nat
    BY <1>1, FilterAssumption DEF FilterAssumption, IsSize
  <1>3. /\ info.type \in Types /\ info.size \in Nat
        /\ info.owner \in Nat /\ info.group \in Nat
        /\ info.mtime \in Int /\ info.atime \in Int /\ info.ctime \in Int
    BY AttrAssumption, SizeAssumption DEF AttrAssumption, SizeAssumption, Stat0, Stat
  <1> HIDE DEF info
  <1>4. CASE row.dim \in {"path", "name"}
    BY <1>4 DEF Reads, Hit, MeansRow, Times
  <1>5. CASE row.dim = "type"
    <2>1. info.type = parseType(row.type) <=> info.type = row.type
      BY <1>3 DEF parseType, NoType, Types
    <2>2. Hit(r, info) <=> info.type = r.type
      BY <1>5 DEF Reads, Hit, Times
    <2>3. MeansRow(row, info) <=> info.type = row.type
      BY <1>5 DEF MeansRow, Times
    <2>. QED BY <2>1, <2>2, <2>3 DEF Reads, info
  <1>6. CASE row.dim = "size"
    <2>1. Hit(r, info) <=> matchSize(r.size, info.size)
      BY <1>6 DEF Reads, Hit, Times
    <2>2. MeansRow(row, info) <=> MeansSize(row.size, info.size)
      BY <1>6 DEF MeansRow, Times
    <2>3. r.size = parseSizeValue(row.size)
      BY <1>6 DEF Reads
    <2>. QED BY <1>2, <1>3, <2>1, <2>2, <2>3, ParsedSize DEF info
  <1>7. CASE row.dim \in {"owner", "group"}
    <2> DEFINE x == info[row.dim]
    <2>1. x \in Nat
      BY <1>3, <1>7
    <2>2. Hit(r, info) <=> x = r.id
      BY <1>7 DEF Reads, Hit, Times
    <2>3. MeansRow(row, info) <=> x = row.id \/ (row.id \in DOMAIN IdOf /\ IdOf[row.id] = x)
      BY <1>7 DEF MeansRow, Times
    <2> HIDE DEF x
    <2>4. x = parseId(row.id) <=>
              x = row.id \/ (row.id \in DOMAIN IdOf /\ IdOf[row.id] = x)
      <3>0. \A id \in DOMAIN IdOf : id \notin Int
        BY FilterAssumption DEF FilterAssumption
      <3>1. CASE row.id \in Int
        BY <3>0, <3>1 DEF parseId
      <3>2. CASE row.id \in DOMAIN IdOf
        <4>1. parseId(row.id) = IdOf[row.id] /\ row.id \notin Int
          BY <3>0, <3>2 DEF parseId
        <4>. QED BY <2>1, <3>2, <4>1
      <3>3. CASE row.id \notin Int /\ row.id \notin DOMAIN IdOf
        <4>1. parseId(row.id) = -1
          BY <3>3 DEF parseId, NoId
        <4>. QED BY <2>1, <3>3, <4>1
      <3>. QED BY <3>1, <3>2, <3>3
    <2>. QED BY <2>2, <2>3, <2>4 DEF Reads, info
  <1>8. CASE row.dim \in Times
    <2> DEFINE x == info[row.dim]
    <2>1. x \in Int
      BY <1>3, <1>8 DEF Times
    <2>2. Hit(r, info) <=> matchTime(r.time, x)
      BY <1>8 DEF Reads, Hit, Times
    <2>3. MeansRow(row, info) <=> MeansTime(row.time, x)
      BY <1>8 DEF MeansRow, Times
    <2> HIDE DEF x
    <2>4. /\ r.time.op = row.time.op /\ r.time.v1 = row.time.d
          /\ row.time.op = "between" => r.time.v2 = row.time.d2
      BY <1>1 DEF Reads, parseTimeValue, parseDate
    <2>5. matchTime(r.time, x) <=> MeansTime(row.time, x)
      <3>1. CASE row.time.op = "before"
        BY <2>4, <3>1 DEF matchTime, MeansTime
      <3>2. CASE row.time.op = "after"
        BY <2>4, <3>2 DEF matchTime, MeansTime
      <3>3. CASE row.time.op = "between"
        <4>1. MeansTime(row.time, x) <=> x \in row.time.d .. row.time.d2
          BY <3>3 DEF MeansTime
        <4>2. matchTime(r.time, x) <=> row.time.d <= x /\ x <= row.time.d2
          BY <2>4, <3>3 DEF matchTime
        <4>. QED BY <1>2, <2>1, <4>1, <4>2
      <3>. QED BY <1>1, <1>8, <3>1, <3>2, <3>3
    <2>. QED BY <2>2, <2>3, <2>5 DEF info
  <1>. QED BY <1>1, <1>4, <1>5, <1>6, <1>7, <1>8 DEF Times

\* The filter as either front end reads it accepts what the usage text says, for
\* every filter whose values have the listed forms and every entry.
LEMMA FilterMeans == TypeOK => FilterAsDocumented
  <1> SUFFICES ASSUME TypeOK, \A row \in rows : Listed(row), NEW n \in Nodes
               PROVE  matches(rules, Stat0(n)) <=>
                      Documented({r \in rows : ~ Ignored(r)}, Stat0(n))
    BY DEF FilterAsDocumented
  <1> DEFINE live == {r \in rows : ~ Ignored(r)}
             Rule(row) == IF front = "cli" THEN parseOne(row)
                          ELSE [parseOne(row) EXCEPT !.size = GuiSize(row.size)]
  <1>1. rows \in Filters /\ front \in {"cli", "gui"} /\ rules = {Rule(row) : row \in live}
    BY DEF TypeOK, parse, buildFilter
  <1>2. ASSUME NEW row \in live
        PROVE  /\ row.dim \in Dimensions
               /\ Rule(row).action = row.action /\ Rule(row).dim = row.dim
               /\ Hit(Rule(row), Stat0(n)) <=> MeansRow(row, Stat0(n))
    <2>1. row \in rows /\ ~ Ignored(row) /\ Listed(row) /\ row.dim \in Dimensions
      BY DEF Ignored
    <2>2. front # "cli" /\ row.dim = "size" => GuiSize(row.size) = parseSizeValue(row.size)
      <3>1. IsSize(row.size)
        BY <1>1, <2>1, FilterAssumption DEF FilterAssumption, IsSize
      <3>. QED BY <1>1, <2>1, <3>1, GuiReadsSame DEF Listed
    <2>3. Reads(Rule(row), row)
      <3>1. CASE front = "cli"
        BY <3>1 DEF Reads, parseOne
      <3>2. CASE front # "cli"
        BY <2>2, <3>2 DEF Reads, parseOne
      <3>. QED BY <3>1, <3>2
    <2> HIDE DEF Rule
    <2>. QED BY <1>1, <2>1, <2>3, RuleMeans DEF Reads
  <1> HIDE DEF Rule
  <1>3. \A row \in live :
            /\ row.dim \in Dimensions
            /\ \E r \in rules : /\ r.action = row.action /\ r.dim = row.dim
                                /\ Hit(r, Stat0(n)) <=> MeansRow(row, Stat0(n))
    BY <1>1, <1>2
  <1>4. \A r \in rules : \E row \in live :
            /\ r.action = row.action /\ r.dim = row.dim
            /\ Hit(r, Stat0(n)) <=> MeansRow(row, Stat0(n))
    BY <1>1, <1>2
  <1> HIDE DEF live
  <1>5. matches(rules, Stat0(n)) <=> Documented(live, Stat0(n))
    BY <1>3, <1>4, SameMeaning
  <1>. QED BY <1>5 DEF live

\* Scanning with any filter that either front end offers accepts what its usage text
\* says: FilterParser, the window's reader and CompositeFilter agree.
THEOREM FiltersMeanTheirText == Spec => []FilterAsDocumented
  BY TypeCorrect, FilterMeans, PTL
=============================================================================
