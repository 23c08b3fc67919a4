------------------------ MODULE ServerSession_proofs ------------------------
(***************************************************************************)
(* Theorems about ServerSession, for any number of users, sessions and     *)
(* uploads, killed anywhere, on a disk that may refuse any write: types    *)
(* and numbers; then durability, that the settled uploads are a            *)
(* BackupCatalog, restores, names and lists; then the order of the IDs.    *)
(***************************************************************************)
EXTENDS ServerSession, FiniteSetTheorems, NaturalsInduction, WellFoundedInduction, TLAPS

-----------------------------------------------------------------------------
(* Trees *)

\* The listed numbers are 1 .. n for some n.
Dense(tree) == \E n \in Nat : Listed(tree) = 1 .. n

LEMMA HighestOfInterval == ASSUME NEW n \in Nat \ {0} PROVE Highest(1 .. n) = n
  BY DEF Highest

\* createBackup counts one on from the last listed number.
LEMMA NextOfDense ==
  ASSUME NEW tree, NEW n \in Nat, Listed(tree) = 1 .. n
  PROVE  NextNumber(tree) = n + 1
<1>1. CASE n = 0
  BY <1>1 DEF NextNumber
<1>2. CASE n # 0
  <2>1. Listed(tree) # {} /\ Highest(Listed(tree)) = n
    BY <1>2, HighestOfInterval
  <2> QED
    BY <2>1 DEF NextNumber
<1> QED
  BY <1>1, <1>2

LEMMA MakeDirTree ==
  ASSUME NEW tree, IsTree(tree), NEW i \in Nat \ {0}
  PROVE  /\ IsTree(MakeDir(tree, i))
         /\ DOMAIN MakeDir(tree, i) = DOMAIN tree \cup {i}
         /\ \A j \in DOMAIN tree : MakeDir(tree, i)[j] = tree[j]
         /\ i \notin DOMAIN tree => MakeDir(tree, i)[i] = EmptyDir
         /\ Listed(MakeDir(tree, i)) = Listed(tree)
<1> DEFINE new == MakeDir(tree, i)
<1>1. /\ DOMAIN new = DOMAIN tree \cup {i}
      /\ \A j \in DOMAIN new : new[j] = IF j \in DOMAIN tree THEN tree[j] ELSE EmptyDir
  BY DEF MakeDir
<1>2. IsFiniteSet(DOMAIN new)
  BY <1>1, FS_AddElement DEF IsTree
<1>3. new \in [DOMAIN new -> [Files -> FileState]]
  <2>1. EmptyDir \in [Files -> FileState]
    BY DEF EmptyDir, FileState
  <2> QED
    BY <1>1, <2>1 DEF MakeDir, IsTree
<1>4. Listed(new) = Listed(tree)
  <2>1. EmptyDir["header"] = NoFile
    BY DEF EmptyDir, Files
  <2> QED
    BY <1>1, <2>1 DEF Listed
<1> QED
  BY <1>1, <1>2, <1>3, <1>4 DEF IsTree

LEMMA WriteTree ==
  ASSUME NEW tree, IsTree(tree), NEW i \in DOMAIN tree, NEW f \in Files, NEW v \in FileState
  PROVE  /\ IsTree(WriteFile(tree, i, f, v))
         /\ DOMAIN WriteFile(tree, i, f, v) = DOMAIN tree
         /\ \A j \in DOMAIN tree, g \in Files :
                WriteFile(tree, i, f, v)[j][g] = IF j = i /\ g = f THEN v ELSE tree[j][g]
<1> DEFINE new == WriteFile(tree, i, f, v)
<1>1. tree \in [DOMAIN tree -> [Files -> FileState]]
  BY DEF IsTree
<1>2. new = [tree EXCEPT ![i] = [tree[i] EXCEPT ![f] = v]]
  BY DEF WriteFile
<1>3. tree[i] \in [Files -> FileState]
  BY <1>1
<1>4. DOMAIN new = DOMAIN tree /\ new \in [DOMAIN tree -> [Files -> FileState]]
  BY <1>1, <1>2, <1>3
<1>5. \A j \in DOMAIN tree, g \in Files :
          new[j][g] = IF j = i /\ g = f THEN v ELSE tree[j][g]
  BY <1>1, <1>2, <1>3
<1> QED
  BY <1>4, <1>5 DEF IsTree

-----------------------------------------------------------------------------
(* Types *)

UploadMessages == {"BACKUP_START", "PAYLOAD", "METADATA", "BACKUP_COMPLETE"}

\* An upload that has a number, and one that has begun.
NumberedPc == {"mkdir", "receive", "save", "ack"}
UploadPc == NumberedPc \cup {"named"}

\* What the locals of a session are, by the place the session is at.
LocalOK(l) ==
    /\ l \in SessionState
    /\ l.pc # "free" => l.user \in Users
    /\ l.pc \in NumberedPc \cup {"load"} => l.id \in Nat \ {0}
    /\ l.pc \in UploadPc \/ l.next \in UploadMessages => l.data \in Data
    /\ l.next = "BACKUP_START" => l.name \in Names
    /\ l.pc \in {"save", "ack"} => l.next = "EOF"
    /\ l.pc = "save" => l.file \in Files
    /\ l.pc = "load" => l.file \in BakFiles
    /\ l.pc \in {"ready", "names"} => l.buf = EmptyBuffers
    /\ l.pc \in UploadPc => l.buf["name"] \in Names \cup {Nothing}
    /\ l.pc = "names" => l.reply \in [kind : {"ids"}, ids : SUBSET Nat]

\* What a buffer holds is never the state of a missing or torn file, and a file is
\* open only while there is something to write to it.
BufferOK(l) ==
    /\ l.buf \in [Files -> Contents \cup Names \cup {Nothing}]
    /\ l.opened => l.pc = "save" /\ l.buf[l.file] # Nothing

\* The numbers below that of an upload are listed, and its directory exists once
\* it receives.
NumberOK(s) ==
    /\ session[s].pc \in NumberedPc => 1 .. (session[s].id - 1) \subseteq Listed(Tree(s))
    /\ session[s].pc \in NumberedPc \ {"mkdir"} => session[s].id \in DOMAIN Tree(s)

TypeInv ==
    /\ DOMAIN store = Users
    /\ \A u \in Users : IsTree(store[u]) /\ Dense(store[u])
    /\ session \in [Sessions -> SessionState]
    /\ \A s \in Sessions : LocalOK(session[s]) /\ BufferOK(session[s]) /\ NumberOK(s)
    /\ used \subseteq Data
    /\ acked \subseteq Acks
    /\ excused \subseteq Data

LEMMA FollowingType ==
  /\ \A m \in Messages : Following[m] \in Messages
  /\ Following["BACKUP_START"] = "PAYLOAD" /\ Following["PAYLOAD"] = "METADATA"
  /\ Following["METADATA"] = "BACKUP_COMPLETE" /\ Following["BACKUP_COMPLETE"] = "EOF"
  /\ Following["RESTORE_REQUEST"] = "EOF" /\ Following["BACKUP_LIST_REQUEST"] = "EOF"
  BY DEF Following, Messages

LEMMA FileAfterType ==
  /\ FileAfter["header"] = "payload" /\ FileAfter["payload"] = "metadata"
  /\ FileAfter["metadata"] = "name" /\ FileAfter["name"] = "end"
  BY DEF FileAfter

LEMMA EmptyBuffersType ==
  EmptyBuffers \in [Files -> FileState \cup {Nothing}] /\ EmptyBuffers["name"] = Nothing
  BY DEF EmptyBuffers, Files

LEMMA FreeType ==
  /\ LocalOK(Free) /\ Free \in SessionState
  /\ Free.pc = "free" /\ Free.next = "EOF" /\ Free.buf = EmptyBuffers
<1>1. NoReply \in Replies
  BY DEF Replies
<1> QED
  BY <1>1, EmptyBuffersType
  DEF LocalOK, Free, SessionState, Messages, NumberedPc, UploadPc, UploadMessages

LEMMA TreeType ==
  ASSUME TypeInv, NEW s \in Sessions, session[s].pc # "free"
  PROVE  /\ session[s].user \in Users
         /\ IsTree(Tree(s)) /\ Dense(Tree(s))
         /\ Listed(Tree(s)) \subseteq DOMAIN Tree(s)
         /\ DOMAIN Tree(s) \subseteq Nat \ {0}
         /\ NextNumber(Tree(s)) \in Nat \ {0}
<1>1. session[s].user \in Users
  BY DEF TypeInv, LocalOK
<1>2. IsTree(Tree(s)) /\ Dense(Tree(s))
  BY <1>1 DEF TypeInv, Tree
<1>3. NextNumber(Tree(s)) \in Nat \ {0}
  <2>1. PICK n \in Nat : Listed(Tree(s)) = 1 .. n
    BY <1>2 DEF Dense
  <2>2. NextNumber(Tree(s)) = n + 1
    BY <2>1, NextOfDense
  <2> QED
    BY <2>2
<1> QED
  BY <1>1, <1>2, <1>3 DEF IsTree, Listed

LEMMA LoadType ==
  ASSUME NEW tree, IsTree(tree), NEW i, NEW f \in Files
  PROVE  Load(tree, i, f) \in FileState \cup {Nothing}
<1>1. CASE i \in DOMAIN tree
  <2>1. tree[i][f] \in FileState
    BY <1>1 DEF IsTree
  <2> QED
    BY <2>1 DEF Load
<1>2. CASE i \notin DOMAIN tree
  BY <1>2 DEF Load
<1> QED
  BY <1>1, <1>2

\* A step of s changes the locals of s only.
LEMMA UpdateType ==
  ASSUME session \in [Sessions -> SessionState], NEW s \in Sessions, NEW l,
         Update(s, l), LocalOK(l)
  PROVE  /\ session' \in [Sessions -> SessionState]
         /\ session'[s] = l
         /\ \A t \in Sessions \ {s} : session'[t] = session[t]
  BY DEF Update, LocalOK

\* Wherever a step takes a session, its locals fit.
LEMMA LocalStep ==
  ASSUME TypeInv, NEW s \in Sessions, NEW l, Update(s, l),
         Connect(s) \/ Handle(s) \/ Disconnect(s) \/ Kill(s)
  PROVE  LocalOK(l)
<1> DEFINE old == session[s]
<1>0. LocalOK(old)
  BY DEF TypeInv
<1>buf. old \in SessionState /\ old.buf \in [Files -> FileState \cup {Nothing}]
  BY <1>0 DEF LocalOK, SessionState
<1>dom. DOMAIN session = Sessions
  BY DEF TypeInv
<1>1. CASE ConnectToBackup(s)
  <2>1. PICK u \in Users, d \in Data \ used, n \in Names \cup {Nothing} :
          l = [Arrive(u, IF n = Nothing THEN "PAYLOAD" ELSE "BACKUP_START")
                 EXCEPT !.data = d, !.name = n]
    BY <1>1, <1>dom DEF ConnectToBackup, Update
  <2>2. PICK m \in {"PAYLOAD", "BACKUP_START"} :
          /\ m = "BACKUP_START" => n \in Names
          /\ l = [Free EXCEPT !.pc = "ready", !.user = u, !.next = m, !.data = d, !.name = n]
    BY <2>1, FreeType DEF Arrive
  <2> QED
    BY FreeType, <2>2
    DEF LocalOK, SessionState, NumberedPc, UploadPc, UploadMessages, Messages
<1>2. CASE ConnectToRestore(s)
  <2>1. PICK u \in Users, i \in AskIds \cup {Nothing} :
          l = [Arrive(u, "RESTORE_REQUEST") EXCEPT !.id = i]
    BY <1>2, <1>dom DEF ConnectToRestore, Update
  <2> QED
    BY FreeType, <2>1, SessionAssumption
    DEF LocalOK, SessionState, NumberedPc, UploadPc, UploadMessages, Messages, Arrive, SessionAssumption
<1>3. CASE ConnectToList(s)
  <2>1. PICK u \in Users : l = Arrive(u, "BACKUP_LIST_REQUEST")
    BY <1>3, <1>dom DEF ConnectToList, Update
  <2> QED
    BY FreeType, <2>1
    DEF LocalOK, SessionState, NumberedPc, UploadPc, UploadMessages, Messages, Arrive
<1>4. CASE Disconnect(s) \/ Kill(s) \/ CrashOnTornMetadata(s)
  BY <1>4, <1>dom, FreeType DEF Disconnect, Kill, CrashOnTornMetadata, Update
<1>5. CASE RejectName(s)
  <2>1. l = [old EXCEPT !.next = Following[@],
                        !.reply = [kind |-> "error", code |-> "NAME_EXISTS"]]
    BY <1>5, <1>dom DEF RejectName, Update
  <2>2. l.reply \in Replies
    BY <2>1 DEF Replies
  <2> QED
    BY <1>0, FollowingType, <1>5, <2>1, <2>2
    DEF LocalOK, SessionState, NumberedPc, UploadPc, UploadMessages, Messages, RejectName
<1>6. CASE AcceptName(s)
  <2>1. l = [old EXCEPT !.pc = "named", !.next = Following[@], !.buf["name"] = old.name]
    BY <1>6, <1>dom DEF AcceptName, Update
  <2>2. l.buf \in [Files -> FileState \cup {Nothing}] /\ l.buf["name"] = old.name
    <3>1. old.name \in Names
      BY <1>0, <1>6 DEF LocalOK, AcceptName
    <3>2. l.buf = [old.buf EXCEPT !["name"] = old.name]
      BY <2>1, <1>buf DEF SessionState
    <3> QED
      BY <3>1, <3>2, <1>buf DEF FileState, Files
  <2> QED
    BY <1>0, FollowingType, <1>6, <2>1, <2>2
    DEF LocalOK, SessionState, NumberedPc, UploadPc, UploadMessages, Messages, AcceptName
<1>7. CASE ChooseNumber(s)
  <2>1. l = [old EXCEPT !.pc = "mkdir", !.id = NextNumber(Tree(s))]
    BY <1>7, <1>dom DEF ChooseNumber, Update
  <2>2. NextNumber(Tree(s)) \in Nat \ {0}
    BY <1>7, TreeType DEF ChooseNumber
  <2> QED
    BY <1>0, EmptyBuffersType, <1>7, <2>1, <2>2
    DEF LocalOK, SessionState, NumberedPc, UploadPc, UploadMessages, Messages, ChooseNumber
<1>8. CASE MakeBackupDir(s)
  <2>1. l = [old EXCEPT !.pc = "receive"]
    BY <1>8, <1>dom DEF MakeBackupDir, Update
  <2> QED
    BY <1>0, FollowingType, <1>8, <2>1
    DEF LocalOK, SessionState, NumberedPc, UploadPc, UploadMessages, Messages, MakeBackupDir
<1>9. CASE ReceiveFileData(s)
  <2>1. l = [old EXCEPT !.buf = Received(s), !.next = Following[@]]
    BY <1>9, <1>dom DEF ReceiveFileData, Update
  <2>2. Received(s) \in [Files -> FileState \cup {Nothing}]
        /\ Received(s)["name"] = old.buf["name"]
    <3>1. old.data \in FileState
      BY <1>0, <1>9 DEF LocalOK, ReceiveFileData, UploadPc, NumberedPc, FileState, Contents
    <3> QED
      BY <3>1, <1>buf DEF Received, Files
  <2> QED
    BY <1>0, FollowingType, <1>9, <2>1, <2>2
    DEF LocalOK, SessionState, NumberedPc, UploadPc, UploadMessages, Messages, ReceiveFileData
<1>10. CASE ReceiveComplete(s)
  <2>1. l = [old EXCEPT !.pc = "save", !.file = "header", !.next = Following[@]]
    BY <1>10, <1>dom DEF ReceiveComplete, Update
  <2> QED
    BY <1>0, FollowingType, <1>10, <2>1
    DEF LocalOK, SessionState, NumberedPc, UploadPc, UploadMessages, Messages, ReceiveComplete, Files
<1>11. CASE SkipFile(s) \/ WriteAndClose(s) \/ SaveFails(s)
  <2>1. l = NextFile(old) /\ old.pc = "save"
    BY <1>11, <1>dom DEF SkipFile, WriteAndClose, SaveFails, Update
  <2>2. /\ FileAfter[old.file] \in Files \cup {"end"}
        /\ FileAfter[old.file] # "end" => FileAfter[old.file] \in Files
    BY <1>0, <2>1, FileAfterType DEF LocalOK, Files
  <2>3. l = [old EXCEPT !.file = FileAfter[old.file], !.opened = FALSE,
                        !.pc = IF FileAfter[old.file] = "end" THEN "ack" ELSE "save"]
    BY <2>1, <1>buf DEF NextFile, SessionState
  <2> QED
    BY <1>0, <2>1, <2>2, <2>3
    DEF LocalOK, SessionState, NumberedPc, UploadPc, UploadMessages, Messages
<1>12. CASE OpenForSave(s)
  <2>1. l = [old EXCEPT !.opened = TRUE]
    BY <1>12, <1>dom DEF OpenForSave, Update
  <2> QED
    BY <1>0, FollowingType, <1>12, <2>1
    DEF LocalOK, SessionState, NumberedPc, UploadPc, UploadMessages, Messages, OpenForSave
<1>13. CASE Acknowledge(s)
  <2>1. l = [Free EXCEPT !.pc = "ready", !.user = old.user, !.next = old.next,
                         !.data = old.data, !.reply = [kind |-> "ack", id |-> old.id]]
    BY <1>13, <1>dom DEF Acknowledge, Update
  <2>2. l.reply \in Replies
    <3>1. old.id \in Nat \ {0}
      BY <1>0, <1>13 DEF LocalOK, Acknowledge, NumberedPc
    <3>2. l.reply = [kind |-> "ack", id |-> old.id]
      BY <2>1, FreeType DEF SessionState
    <3> QED
      BY <3>1, <3>2 DEF Replies
  <2> QED
    BY <1>0, FreeType, <1>13, <2>1, <2>2
    DEF LocalOK, SessionState, NumberedPc, UploadPc, UploadMessages, Messages, Acknowledge
<1>14. CASE RestoreNothing(s)
  <2>1. l = [old EXCEPT !.next = Following[@], !.reply = NotFound]
    BY <1>14, <1>dom DEF RestoreNothing, Update
  <2>2. l.reply \in Replies
    BY <2>1 DEF Replies, NotFound
  <2> QED
    BY <1>0, FollowingType, <1>14, <2>1, <2>2
    DEF LocalOK, SessionState, NumberedPc, UploadPc, UploadMessages, Messages, RestoreNothing
<1>15. CASE BeginRestore(s)
  <2>1. PICK i \in AskIds \cup Listed(Tree(s)) :
          l = [old EXCEPT !.pc = "load", !.next = Following[@], !.id = i,
                          !.file = "header",
                          !.want = {a \in SettledOf(old.user) : a.id = i}]
    BY <1>15, <1>dom DEF BeginRestore, Update
  <2>2. i \in Nat \ {0}
    BY <1>15, SessionAssumption, TreeType DEF SessionAssumption, BeginRestore
  <2>3. l.want \in SUBSET Acks
    BY <2>1 DEF TypeInv, SettledOf, Settled
  <2> QED
    BY <1>0, FollowingType, <1>15, <2>1, <2>2, <2>3
    DEF LocalOK, SessionState, NumberedPc, UploadPc, UploadMessages, Messages, BeginRestore, Files, BakFiles
<1>16. CASE LoadNext(s)
  <2>1. l = [old EXCEPT !.buf[old.file] = Load(Tree(s), old.id, old.file),
                        !.file = FileAfter[@],
                        !.pc = IF FileAfter[old.file] = "name" THEN "send" ELSE "load"]
    BY <1>16, <1>dom DEF LoadNext, Update
  <2>2. Load(Tree(s), old.id, old.file) \in FileState \cup {Nothing}
    BY <1>0, <1>16, TreeType, LoadType DEF LoadNext, LocalOK, BakFiles
  <2>3. l.buf \in [Files -> FileState \cup {Nothing}]
    <3>1. l.buf = [old.buf EXCEPT ![old.file] = Load(Tree(s), old.id, old.file)]
      BY <2>1, <1>buf DEF SessionState
    <3> QED
      BY <3>1, <2>2, <1>buf
  <2> QED
    <3>1. /\ FileAfter[old.file] \in Files
          /\ FileAfter[old.file] # "name" => FileAfter[old.file] \in BakFiles
      BY <1>0, <1>16, FileAfterType DEF LocalOK, LoadNext, Files, BakFiles
    <3> QED
      BY <1>0, <1>16, <2>1, <2>3, <3>1
     
    DEF LocalOK, SessionState, NumberedPc, UploadPc, UploadMessages, Messages, LoadNext
<1>17. CASE SendRestored(s)
  <2>1. l = [Free EXCEPT !.pc = "ready", !.user = old.user, !.id = old.id,
                         !.want = old.want, !.reply = Loaded(s)]
    BY <1>17, <1>dom DEF SendRestored, Update
  <2>2. Loaded(s) \in Replies
    BY <1>buf DEF Loaded, NotFound, Replies, BakFiles
  <2> QED
    BY <1>0, FreeType, <1>17, <2>1, <2>2
    DEF LocalOK, SessionState, NumberedPc, UploadPc, UploadMessages, Messages, SendRestored
<1>18. CASE BeginList(s)
  <2>1. l = [old EXCEPT !.pc = "names", !.next = Following[@],
                        !.want = SettledOf(old.user),
                        !.reply = [kind |-> "ids", ids |-> Listed(Tree(s))]]
    BY <1>18, <1>dom DEF BeginList, Update
  <2>2. Listed(Tree(s)) \in SUBSET Nat
    BY <1>18, TreeType DEF BeginList
  <2>3. l.reply \in Replies /\ l.reply \in [kind : {"ids"}, ids : SUBSET Nat]
    BY <2>1, <2>2 DEF Replies
  <2>4. l.want \in SUBSET Acks
    BY <2>1 DEF TypeInv, SettledOf, Settled
  <2> QED
    BY <1>0, FollowingType, <1>18, <2>1, <2>3, <2>4
    DEF LocalOK, SessionState, NumberedPc, UploadPc, UploadMessages, Messages, BeginList
<1>19. CASE SendList(s)
  <2> DEFINE names == {[id |-> i, name |-> BackupName(Tree(s), i)] : i \in old.reply.ids}
  <2>1. l = [old EXCEPT !.pc = "ready", !.reply = [kind |-> "list", names |-> names]]
    BY <1>19, <1>dom DEF SendList, Update
  <2>2. names \in SUBSET [id : Nat, name : FileState \cup {Nothing}]
    <3>1. old.reply.ids \in SUBSET Nat
      BY <1>0, <1>19 DEF LocalOK, SendList
    <3>2. \A i : BackupName(Tree(s), i) \in FileState \cup {Nothing}
      BY <1>19, TreeType, LoadType DEF SendList, BackupName, Files
    <3> QED
      BY <3>1, <3>2
  <2>3. l.reply \in Replies
    BY <2>1, <2>2, <1>buf DEF Replies, SessionState
  <2> QED
    BY <1>0, <1>19, <2>1, <2>3
   
    DEF LocalOK, SessionState, NumberedPc, UploadPc, UploadMessages, Messages, SendList
<1> QED
  BY <1>1, <1>2, <1>3, <1>4, <1>5, <1>6, <1>7, <1>8, <1>9, <1>10, <1>11, <1>12, <1>13,
     <1>14, <1>15, <1>16, <1>17, <1>18, <1>19 DEF Connect, Handle

\* No step puts a file state into a buffer, or opens a file with nothing to write.
LEMMA BufferStep ==
  ASSUME TypeInv, NEW s \in Sessions, NEW l, Update(s, l),
         Connect(s) \/ Handle(s) \/ Disconnect(s) \/ Kill(s)
  PROVE  BufferOK(l)
<1> DEFINE old == session[s]
<1>0. LocalOK(old) /\ BufferOK(old) /\ old \in SessionState
  BY DEF TypeInv, LocalOK
<1>dom. DOMAIN session = Sessions
  BY DEF TypeInv
<1>same. ASSUME l.buf = old.buf, l.opened = old.opened, old.pc # "save"
         PROVE  BufferOK(l)
  BY <1>0, <1>same DEF BufferOK
<1>empty. ASSUME l.buf = EmptyBuffers, l.opened = FALSE PROVE BufferOK(l)
  BY <1>empty DEF BufferOK, EmptyBuffers
<1>1. CASE \/ Connect(s) \/ Disconnect(s) \/ Kill(s) \/ CrashOnTornMetadata(s)
           \/ Acknowledge(s) \/ SendRestored(s)
  <2>1. l.buf = EmptyBuffers /\ l.opened = FALSE
    <3>2. CASE Connect(s)
      BY <3>2, <1>dom DEF Connect, ConnectToBackup, ConnectToRestore, ConnectToList, Update,
         Arrive, Free
    <3>3. CASE Disconnect(s) \/ Kill(s) \/ CrashOnTornMetadata(s)
      BY <3>3, <1>dom DEF Disconnect, Kill, CrashOnTornMetadata, Update, Free
    <3>4. CASE Acknowledge(s)
      <4>1. l = [Free EXCEPT !.pc = "ready", !.user = old.user, !.next = old.next,
                             !.data = old.data, !.reply = [kind |-> "ack", id |-> old.id]]
        BY <3>4, <1>dom DEF Acknowledge, Update
      <4> QED
        BY <4>1 DEF Free
    <3>5. CASE SendRestored(s)
      <4>1. l = [Free EXCEPT !.pc = "ready", !.user = old.user, !.id = old.id,
                             !.want = old.want, !.reply = Loaded(s)]
        BY <3>5, <1>dom DEF SendRestored, Update
      <4> QED
        BY <4>1 DEF Free
    <3> QED
      BY <1>1, <3>2, <3>3, <3>4, <3>5
  <2> QED
    BY <2>1, <1>empty
<1>2. CASE \/ RejectName(s) \/ ChooseNumber(s) \/ MakeBackupDir(s) \/ ReceiveComplete(s)
           \/ RestoreNothing(s) \/ BeginRestore(s) \/ BeginList(s) \/ SendList(s)
  <2>1. old.pc # "save"
    BY <1>2 DEF RejectName, ChooseNumber, MakeBackupDir, ReceiveComplete, RestoreNothing,
       BeginRestore, BeginList, SendList
  <2>2. CASE RejectName(s)
    <3>1. l = [old EXCEPT !.next = Following[@],
                          !.reply = [kind |-> "error", code |-> "NAME_EXISTS"]]
      BY <2>2, <1>dom DEF RejectName, Update
    <3> QED
      BY <3>1, <2>1, <1>0, <1>same DEF SessionState
  <2>3. CASE RestoreNothing(s)
    <3>1. l = [old EXCEPT !.next = Following[@], !.reply = NotFound]
      BY <2>3, <1>dom DEF RestoreNothing, Update
    <3> QED
      BY <3>1, <2>1, <1>0, <1>same DEF SessionState
  <2>4. CASE BeginList(s)
    <3>1. l = [old EXCEPT !.pc = "names", !.next = Following[@],
                          !.want = SettledOf(old.user),
                          !.reply = [kind |-> "ids", ids |-> Listed(Tree(s))]]
      BY <2>4, <1>dom DEF BeginList, Update
    <3> QED
      BY <3>1, <2>1, <1>0, <1>same DEF SessionState
  <2>5. CASE SendList(s)
    <3>1. l = [old EXCEPT !.pc = "ready",
                          !.reply = [kind |-> "list",
                                     names |-> {[id |-> i, name |-> BackupName(Tree(s), i)] :
                                                   i \in old.reply.ids}]]
      BY <2>5, <1>dom DEF SendList, Update
    <3> QED
      BY <3>1, <2>1, <1>0, <1>same DEF SessionState
  <2>6. CASE ChooseNumber(s)
    <3>1. l = [old EXCEPT !.pc = "mkdir", !.id = NextNumber(Tree(s))]
      BY <2>6, <1>dom DEF ChooseNumber, Update
    <3> QED
      BY <3>1, <2>1, <1>0, <1>same DEF SessionState
  <2>7. CASE MakeBackupDir(s)
    <3>1. l = [old EXCEPT !.pc = "receive"]
      BY <2>7, <1>dom DEF MakeBackupDir, Update
    <3> QED
      BY <3>1, <2>1, <1>0, <1>same DEF SessionState
  <2>8. CASE ReceiveComplete(s)
    <3>1. l = [old EXCEPT !.pc = "save", !.file = "header", !.next = Following[@]]
      BY <2>8, <1>dom DEF ReceiveComplete, Update
    <3> QED
      BY <3>1, <2>1, <1>0, <1>same DEF SessionState
  <2>9. CASE BeginRestore(s)
    <3>1. PICK i : l = [old EXCEPT !.pc = "load", !.next = Following[@], !.id = i,
                                   !.file = "header",
                                   !.want = {a \in SettledOf(old.user) : a.id = i}]
      BY <2>9, <1>dom DEF BeginRestore, Update
    <3> QED
      BY <3>1, <2>1, <1>0, <1>same DEF SessionState
  <2> QED
    BY <1>2, <2>2, <2>3, <2>4, <2>5, <2>6, <2>7, <2>8, <2>9
<1>3. CASE AcceptName(s)
  <2>1. l = [old EXCEPT !.pc = "named", !.next = Following[@], !.buf["name"] = old.name]
    BY <1>3, <1>dom DEF AcceptName, Update
  <2>2. l.buf = [old.buf EXCEPT !["name"] = old.name] /\ l.opened = old.opened
    BY <2>1, <1>0 DEF SessionState
  <2>3. old.name \in Names /\ old.pc # "save"
    BY <1>0, <1>3 DEF AcceptName, LocalOK
  <2> QED
    BY <1>0, <2>2, <2>3 DEF BufferOK
<1>4. CASE ReceiveFileData(s)
  <2>0. l = [old EXCEPT !.buf = Received(s), !.next = Following[@]]
    BY <1>4, <1>dom DEF ReceiveFileData, Update
  <2>1. l.buf = Received(s) /\ l.opened = old.opened
    BY <2>0, <1>0 DEF SessionState
  <2>2. old.data \in Contents /\ old.pc # "save"
    BY <1>0, <1>4 DEF LocalOK, ReceiveFileData, UploadPc, NumberedPc, Contents
  <2>3. Received(s) \in [Files -> Contents \cup Names \cup {Nothing}]
    BY <1>0, <2>2 DEF Received, BufferOK
  <2> QED
    BY <1>0, <2>1, <2>2, <2>3 DEF BufferOK
<1>5. CASE SkipFile(s) \/ WriteAndClose(s) \/ SaveFails(s)
  <2>1. l.buf = old.buf /\ l.opened = FALSE
    BY <1>5, <1>dom, <1>0 DEF SkipFile, WriteAndClose, SaveFails, Update, NextFile, SessionState
  <2> QED
    BY <1>0, <2>1 DEF BufferOK
<1>6. CASE OpenForSave(s)
  <2>1. l.buf = old.buf /\ l.file = old.file /\ l.pc = "save" /\ old.buf[old.file] # Nothing
    BY <1>6, <1>dom, <1>0 DEF OpenForSave, Update, SessionState
  <2> QED
    BY <1>0, <2>1 DEF BufferOK
<1>7. CASE LoadNext(s)
  <2>1. /\ l.buf = [old.buf EXCEPT ![old.file] = Load(Tree(s), old.id, old.file)]
        /\ l.opened = old.opened
    <3>1. l = [old EXCEPT !.buf[old.file] = Load(Tree(s), old.id, old.file),
                          !.file = FileAfter[@],
                          !.pc = IF FileAfter[old.file] = "name" THEN "send" ELSE "load"]
      BY <1>7, <1>dom DEF LoadNext, Update
    <3> QED
      BY <3>1, <1>0 DEF SessionState
  <2>2. Load(Tree(s), old.id, old.file) \in Contents \cup Names \cup {Nothing}
    <3>1. Load(Tree(s), old.id, old.file) \in FileState \cup {Nothing}
      BY <1>0, <1>7, TreeType, LoadType DEF LoadNext, LocalOK, BakFiles
    <3>2. Load(Tree(s), old.id, old.file) \notin {NoFile, Torn}
      BY TokensAssumption DEF Load, TokensAssumption
    <3> QED
      BY <3>1, <3>2 DEF FileState
  <2>3. old.pc # "save"
    BY <1>7 DEF LoadNext
  <2> QED
    BY <1>0, <2>1, <2>2, <2>3 DEF BufferOK
<1> QED
  BY <1>1, <1>2, <1>3, <1>4, <1>5, <1>6, <1>7 DEF Handle

-----------------------------------------------------------------------------
(* What a step does to the storage *)

OpenOf(s) == OpenFile(Tree(s), session[s].id, session[s].file)
WriteOf(s) == WriteFile(Tree(s), session[s].id, session[s].file, session[s].buf[session[s].file])

\* A step leaves the storage alone, or makes the directory of an upload, or opens
\* or writes one file in it.
LEMMA StoreSteps ==
  ASSUME TypeInv, NEW s \in Sessions, Connect(s) \/ Handle(s) \/ Disconnect(s) \/ Kill(s)
  PROVE  \/ UNCHANGED store
         \/ MakeBackupDir(s) /\ store' = [store EXCEPT ![session[s].user] =
                                              MakeDir(Tree(s), session[s].id)]
         \/ OpenForSave(s) /\ store' = [store EXCEPT ![session[s].user] = OpenOf(s)]
         \/ WriteAndClose(s) /\ store' = [store EXCEPT ![session[s].user] = WriteOf(s)]
<1>1. CASE MakeBackupDir(s)
  BY <1>1 DEF MakeBackupDir, Tree
<1>2. CASE OpenForSave(s)
  BY <1>2 DEF OpenForSave, Tree, OpenOf
<1>3. CASE WriteAndClose(s)
  BY <1>3 DEF WriteAndClose, Tree, WriteOf
<1> QED
  BY <1>1, <1>2, <1>3
  DEF Connect, ConnectToBackup, ConnectToRestore, ConnectToList, Disconnect, Kill, Handle,
      RejectName, AcceptName, ChooseNumber, ReceiveFileData, ReceiveComplete, SkipFile,
      SaveFails, Acknowledge, RestoreNothing, BeginRestore, LoadNext, CrashOnTornMetadata,
      SendRestored,
      BeginList, SendList

\* What a tree may become: directories and listed numbers only come, at most one
\* number is listed, and it follows the listed ones.
Grows(old, new) ==
    /\ IsTree(new) /\ Dense(new)
    /\ DOMAIN old \subseteq DOMAIN new
    /\ Listed(old) \subseteq Listed(new)

\* Opening or writing the file of an upload that has its directory.
LEMMA PutGrows ==
  ASSUME TypeInv, NEW s \in Sessions, session[s].pc = "save",
         NEW v \in FileState \ {NoFile}
  PROVE  Grows(Tree(s), WriteFile(Tree(s), session[s].id, session[s].file, v))
<1> DEFINE i == session[s].id
           f == session[s].file
           new == WriteFile(Tree(s), i, f, v)
<1>1. i \in DOMAIN Tree(s) /\ f \in Files /\ i \in Nat \ {0}
      /\ 1 .. (i - 1) \subseteq Listed(Tree(s))
  BY DEF TypeInv, LocalOK, NumberOK, NumberedPc
<1>2. IsTree(Tree(s)) /\ Dense(Tree(s))
  BY TreeType
<1>3. /\ IsTree(new) /\ DOMAIN new = DOMAIN Tree(s)
      /\ \A j \in DOMAIN new, g \in Files :
             new[j][g] = IF j = i /\ g = f THEN v ELSE Tree(s)[j][g]
  BY <1>1, <1>2, WriteTree
<1>4. Listed(new) = Listed(Tree(s)) \/ Listed(new) = Listed(Tree(s)) \cup {i}
  BY <1>3 DEF Listed, Files
<1>5. Dense(new)
  <2>1. PICK n \in Nat : Listed(Tree(s)) = 1 .. n
    BY <1>2 DEF Dense
  <2>2. i <= n + 1
    <3>1. CASE i = 1
      BY <3>1
    <3>2. CASE i # 1
      <4>1. i - 1 \in 1 .. (i - 1)
        BY <1>1, <3>2
      <4>2. i - 1 \in 1 .. n
        BY <4>1, <1>1, <2>1
      <4> QED
        BY <4>2, <1>1
    <3> QED
      BY <3>1, <3>2
  <2>3. (1 .. n) \cup {i} = 1 .. n \/ (1 .. n) \cup {i} = 1 .. (n + 1)
    <3>1. CASE i <= n
      BY <3>1, <1>1
    <3>2. CASE i = n + 1
      BY <3>2, <1>1
    <3> QED
      BY <3>1, <3>2, <2>2, <1>1
  <2>4. PICK m \in {n, n + 1} : Listed(new) = 1 .. m
    BY <2>1, <2>3, <1>4
  <2> QED
    BY <2>4 DEF Dense
<1> HIDE DEF new
<1> QED
  BY <1>3, <1>4, <1>5 DEF Grows, new

\* Every step grows every tree.
LEMMA StoreGrows ==
  ASSUME TypeInv, NEW s \in Sessions, Connect(s) \/ Handle(s) \/ Disconnect(s) \/ Kill(s)
  PROVE  DOMAIN store' = Users /\ \A u \in Users : Grows(store[u], store'[u])
<1>1. \A u \in Users : Grows(store[u], store[u])
  BY DEF TypeInv, Grows
<1>2. ASSUME NEW new, session[s].pc # "free", Grows(Tree(s), new),
             store' = [store EXCEPT ![session[s].user] = new]
      PROVE  DOMAIN store' = Users /\ \A u \in Users : Grows(store[u], store'[u])
  <2>1. session[s].user \in Users /\ DOMAIN store = Users
    BY <1>2, TreeType DEF TypeInv
  <2> QED
    BY <1>1, <1>2, <2>1 DEF Tree
<1>3. CASE UNCHANGED store
  BY <1>1, <1>3 DEF TypeInv
<1>4. CASE MakeBackupDir(s) /\ store' = [store EXCEPT ![session[s].user] =
                                            MakeDir(Tree(s), session[s].id)]
  <2>1. session[s].pc # "free" /\ session[s].id \in Nat \ {0}
    BY <1>4 DEF MakeBackupDir, TypeInv, LocalOK, NumberedPc
  <2>2. Grows(Tree(s), MakeDir(Tree(s), session[s].id))
    <3>1. IsTree(Tree(s)) /\ Dense(Tree(s))
      BY <2>1, TreeType
    <3>2. /\ IsTree(MakeDir(Tree(s), session[s].id))
          /\ DOMAIN MakeDir(Tree(s), session[s].id) = DOMAIN Tree(s) \cup {session[s].id}
          /\ Listed(MakeDir(Tree(s), session[s].id)) = Listed(Tree(s))
      BY ONLY <2>1, <3>1, MakeDirTree
    <3> QED
      BY <3>1, <3>2 DEF Grows, Dense
  <2> QED
    BY <1>2, <1>4, <2>1, <2>2
<1>5. CASE OpenForSave(s) /\ store' = [store EXCEPT ![session[s].user] = OpenOf(s)]
  <2>1. session[s].pc = "save"
    BY <1>5 DEF OpenForSave
  <2>2. Torn \in FileState \ {NoFile}
    BY TokensAssumption DEF TokensAssumption, FileState
  <2>3. Grows(Tree(s), OpenOf(s))
    BY <2>1, <2>2, PutGrows DEF OpenOf, OpenFile, WriteFile
  <2> QED
    BY <1>2, <1>5, <2>1, <2>3
<1>6. CASE WriteAndClose(s) /\ store' = [store EXCEPT ![session[s].user] = WriteOf(s)]
  <2>1. session[s].pc = "save"
    BY <1>6 DEF WriteAndClose
  <2>2. session[s].buf[session[s].file] \in FileState \ {NoFile}
    <3>1. session[s].buf[session[s].file] \in Contents \cup Names
      BY <1>6 DEF WriteAndClose, TypeInv, BufferOK, LocalOK
    <3> QED
      BY <3>1, TokensAssumption DEF TokensAssumption, FileState
  <2>3. Grows(Tree(s), WriteOf(s))
    BY <2>1, <2>2, PutGrows DEF WriteOf
  <2> QED
    BY <1>2, <1>6, <2>1, <2>3
<1> QED
  BY <1>3, <1>4, <1>5, <1>6, StoreSteps

-----------------------------------------------------------------------------
(* The inductive invariant, and what follows from it *)

\* What a step leaves of the number an upload has chosen.
LEMMA NumberStep ==
  ASSUME TypeInv, NEW s \in Sessions, NEW l, Update(s, l), LocalOK(l),
         Connect(s) \/ Handle(s) \/ Disconnect(s) \/ Kill(s)
  PROVE  \A t \in Sessions : NumberOK(t)'
<1> DEFINE old == session[s]
<1>0. LocalOK(old) /\ old \in SessionState /\ NumberOK(s)
  BY DEF TypeInv, LocalOK
<1>1. /\ \A u \in Users : Grows(store[u], store'[u])
      /\ session'[s] = l
      /\ \A t \in Sessions \ {s} : session'[t] = session[t]
      /\ DOMAIN session = Sessions
  BY StoreGrows, UpdateType DEF TypeInv
<1>2. ASSUME NEW t \in Sessions, session[t].pc \in NumberedPc,
             session'[t].pc \in NumberedPc, session[t].pc = "mkdir" => session'[t].pc = "mkdir",
             session'[t].id = session[t].id, session'[t].user = session[t].user
      PROVE  NumberOK(t)'
  <2>1. session[t].user \in Users /\ NumberOK(t)
    BY <1>2 DEF TypeInv, LocalOK, NumberedPc
  <2>2. Grows(Tree(t), Tree(t)')
    BY <1>1, <1>2, <2>1 DEF Tree
  <2> QED
    BY <1>2, <2>1, <2>2 DEF NumberOK, Grows
<1>3. ASSUME NEW t \in Sessions \ {s} PROVE NumberOK(t)'
  <2>1. CASE session[t].pc \in NumberedPc
    BY <1>1, <1>2, <1>3, <2>1
  <2>2. CASE session[t].pc \notin NumberedPc
    BY <1>1, <1>3, <2>2 DEF NumberOK
  <2> QED
    BY <2>1, <2>2
<1>4. NumberOK(s)'
  <2>1. CASE l.pc \notin NumberedPc
    BY <1>1, <2>1 DEF NumberOK
  <2>2. CASE ChooseNumber(s)
    <3>1. l = [old EXCEPT !.pc = "mkdir", !.id = NextNumber(Tree(s))] /\ UNCHANGED store
      BY <2>2, <1>1 DEF ChooseNumber, Update
    <3>2. PICK n \in Nat : Listed(Tree(s)) = 1 .. n
      BY <2>2, TreeType DEF ChooseNumber, Dense
    <3>3. l.pc = "mkdir" /\ l.id = n + 1 /\ l.user = old.user
      BY <3>1, <3>2, NextOfDense, <1>0 DEF SessionState
    <3>4. Listed(Tree(s)') = 1 .. n
      BY <3>1, <3>2, <3>3, <1>1 DEF Tree
    <3>5. 1 .. (l.id - 1) \subseteq Listed(Tree(s)')
      BY <3>3, <3>4
    <3> QED
      BY <3>3, <3>5, <1>1 DEF NumberOK
  <2>3. CASE MakeBackupDir(s)
    <3>1. /\ l = [old EXCEPT !.pc = "receive"] /\ old.pc = "mkdir"
          /\ store' = [store EXCEPT ![old.user] = MakeDir(Tree(s), old.id)]
      BY <2>3, <1>1 DEF MakeBackupDir, Update, Tree
    <3>2. l.id = old.id /\ l.user = old.user /\ l.pc = "receive"
      BY <3>1, <1>0 DEF SessionState
    <3>3. old.user \in Users /\ old.id \in Nat \ {0} /\ DOMAIN store = Users
      BY <1>0, <3>1 DEF LocalOK, NumberedPc, TypeInv
    <3>4. Tree(s)' = MakeDir(Tree(s), old.id)
      BY <1>1, <3>1, <3>2, <3>3 DEF Tree
    <3>5. old.id \in DOMAIN Tree(s)'
      BY <3>4 DEF MakeDir
    <3>6. 1 .. (old.id - 1) \subseteq Listed(Tree(s)')
      <4>1. Grows(Tree(s), Tree(s)')
        BY <1>1, <3>2, <3>3 DEF Tree
      <4> QED
        BY <4>1, <1>0, <3>1 DEF NumberOK, NumberedPc, Grows
    <3> QED
      BY <1>1, <3>2, <3>5, <3>6 DEF NumberOK
  <2>4. CASE \/ ReceiveFileData(s) \/ ReceiveComplete(s) \/ SkipFile(s) \/ OpenForSave(s)
             \/ WriteAndClose(s) \/ SaveFails(s)
    <3>1. old.pc \in {"receive", "save"} /\ l.id = old.id /\ l.user = old.user
          /\ l.pc \in {"receive", "save", "ack"}
      <4>1. CASE ReceiveFileData(s)
        <5>1. l = [old EXCEPT !.buf = Received(s), !.next = Following[@]]
          BY <4>1, <1>1 DEF ReceiveFileData, Update
        <5> QED
          BY <4>1, <5>1, <1>0 DEF SessionState, ReceiveFileData
      <4>2. CASE ReceiveComplete(s)
        <5>1. l = [old EXCEPT !.pc = "save", !.file = "header", !.next = Following[@]]
          BY <4>2, <1>1 DEF ReceiveComplete, Update
        <5> QED
          BY <4>2, <5>1, <1>0 DEF SessionState, ReceiveComplete
      <4>3. CASE SkipFile(s) \/ WriteAndClose(s) \/ SaveFails(s)
        <5>1. l = NextFile(old) /\ old.pc = "save"
          BY <4>3, <1>1 DEF SkipFile, WriteAndClose, SaveFails, Update
        <5> QED
          BY <5>1, <1>0 DEF SessionState, NextFile
      <4>4. CASE OpenForSave(s)
        <5>1. l = [old EXCEPT !.opened = TRUE] /\ old.pc = "save"
          BY <4>4, <1>1 DEF OpenForSave, Update
        <5> QED
          BY <5>1, <1>0 DEF SessionState
      <4> QED
        BY <2>4, <4>1, <4>2, <4>3, <4>4
    <3> QED
      BY <1>1, <1>2, <3>1 DEF NumberedPc
  <2>5. CASE \/ Connect(s) \/ Disconnect(s) \/ Kill(s) \/ CrashOnTornMetadata(s)
             \/ Acknowledge(s) \/ SendRestored(s) \/ RejectName(s) \/ RestoreNothing(s) \/ SendList(s)
             \/ AcceptName(s) \/ BeginRestore(s) \/ BeginList(s) \/ LoadNext(s)
    <3>1. l.pc \in {"ready", "free", "named", "load", "names", "send"}
      <4>1. CASE Connect(s)
        BY <4>1, <1>1 DEF Connect, ConnectToBackup, ConnectToRestore, ConnectToList, Update,
           Arrive, Free
      <4>2. CASE Disconnect(s) \/ Kill(s) \/ CrashOnTornMetadata(s)
        BY <4>2, <1>1 DEF Disconnect, Kill, CrashOnTornMetadata, Update, Free
      <4>3. CASE Acknowledge(s)
        <5>1. l = [Free EXCEPT !.pc = "ready", !.user = old.user, !.next = old.next,
                               !.data = old.data, !.reply = [kind |-> "ack", id |-> old.id]]
          BY <4>3, <1>1 DEF Acknowledge, Update
        <5> QED
          BY <5>1 DEF Free
      <4>4. CASE SendRestored(s)
        <5>1. l = [Free EXCEPT !.pc = "ready", !.user = old.user, !.id = old.id,
                               !.want = old.want, !.reply = Loaded(s)]
          BY <4>4, <1>1 DEF SendRestored, Update
        <5> QED
          BY <5>1 DEF Free
      <4>5. CASE RejectName(s) \/ RestoreNothing(s)
        <5>1. \E r : l = [old EXCEPT !.next = Following[@], !.reply = r]
          BY <4>5, <1>1 DEF RejectName, RestoreNothing, Update
        <5> QED
          BY <4>5, <5>1, <1>0 DEF SessionState, RejectName, RestoreNothing
      <4>6. CASE SendList(s)
        <5>1. \E r : l = [old EXCEPT !.pc = "ready", !.reply = r]
          BY <4>6, <1>1 DEF SendList, Update
        <5> QED
          BY <5>1, <1>0 DEF SessionState
      <4>7. CASE AcceptName(s)
        <5>1. l = [old EXCEPT !.pc = "named", !.next = Following[@], !.buf["name"] = old.name]
          BY <4>7, <1>1 DEF AcceptName, Update
        <5> QED
          BY <5>1, <1>0 DEF SessionState
      <4>8. CASE BeginRestore(s)
        <5>0. DOMAIN session = Sessions
          BY <1>1
        <5>1. PICK i \in AskIds \cup Listed(Tree(s)) :
                 l = [old EXCEPT !.pc = "load", !.next = Following[@], !.id = i,
                                 !.file = "header",
                                 !.want = {a \in SettledOf(old.user) : a.id = i}]
          BY <4>8, <5>0 DEF BeginRestore, Update
        <5> QED
          BY <5>1, <1>0 DEF SessionState
      <4>9. CASE BeginList(s)
        <5>1. l = [old EXCEPT !.pc = "names", !.next = Following[@],
                              !.want = SettledOf(old.user),
                              !.reply = [kind |-> "ids", ids |-> Listed(Tree(s))]]
          BY <4>9, <1>1 DEF BeginList, Update
        <5> QED
          BY <5>1, <1>0 DEF SessionState
      <4>10. CASE LoadNext(s)
        <5>1. \E v : \E p \in {"send", "load"} :
                 l = [old EXCEPT !.buf[old.file] = v, !.file = FileAfter[@], !.pc = p]
          BY <4>10, <1>1 DEF LoadNext, Update
        <5> QED
          BY <5>1, <1>0 DEF SessionState
      <4> QED
        BY <2>5, <4>1, <4>2, <4>3, <4>4, <4>5, <4>6, <4>7, <4>8, <4>9, <4>10
    <3> QED
      BY <3>1, <2>1 DEF NumberedPc
  <2> QED
    BY <2>2, <2>3, <2>4, <2>5 DEF Handle
<1> QED
  BY <1>3, <1>4

\* The histories keep their types.
LEMMA HistoryStep ==
  ASSUME TypeInv, NEW s \in Sessions, Connect(s) \/ Handle(s) \/ Disconnect(s) \/ Kill(s)
  PROVE  used' \subseteq Data /\ acked' \subseteq Acks /\ excused' \subseteq Data
<1> DEFINE old == session[s]
<1>0. /\ used \subseteq Data /\ acked \subseteq Acks /\ excused \subseteq Data
      /\ \A t \in Sessions : LocalOK(session[t])
  BY DEF TypeInv
<1>1. CASE ConnectToBackup(s)
  BY <1>1, <1>0 DEF ConnectToBackup
<1>2. CASE AcceptName(s) \/ ChooseNumber(s)
  <2>1. old.data \in Data
    BY <1>0, <1>2 DEF LocalOK, AcceptName, ChooseNumber, UploadMessages
  <2>2. \A t \in Rivals(s) : session[t].data \in Data
    BY <1>0 DEF Rivals, Uploading, LocalOK, UploadPc, NumberedPc
  <2>3. {session[t].data : t \in Rivals(s) \cup {s}} \subseteq Data
    BY <2>1, <2>2
  <2> QED
    BY <1>0, <1>2, <2>3 DEF AcceptName, ChooseNumber, ExcuseOverlap
<1>3. CASE SaveFails(s)
  <2>1. old.data \in Data
    BY <1>0, <1>3 DEF LocalOK, SaveFails, UploadPc, NumberedPc
  <2> QED
    BY <1>0, <1>3, <2>1 DEF SaveFails
<1>4. CASE Acknowledge(s)
  <2>1. /\ old.user \in Users /\ old.id \in Nat \ {0} /\ old.data \in Data
        /\ old.buf["name"] \in Names \cup {Nothing} /\ old.name \in Names \cup {Nothing}
    BY <1>0, <1>4 DEF LocalOK, Acknowledge, UploadPc, NumberedPc, SessionState
  <2>2. [user |-> old.user, id |-> old.id, data |-> old.data,
         name |-> old.buf["name"], asked |-> old.name] \in Acks
    BY <2>1 DEF Acks
  <2> QED
    BY <1>0, <1>4, <2>2 DEF Acknowledge
<1> QED
  BY <1>0, <1>1, <1>2, <1>3, <1>4
  DEF Connect, ConnectToRestore, ConnectToList, Disconnect, Kill, Handle,
      RejectName, MakeBackupDir, ReceiveFileData, ReceiveComplete, SkipFile, OpenForSave,
      WriteAndClose, RestoreNothing, BeginRestore, LoadNext, CrashOnTornMetadata,
      SendRestored, BeginList, SendList

\* Each step is the step of one session, which changes its locals.
LEMMA StepUpdates ==
  ASSUME TypeInv, NEW s \in Sessions, Connect(s) \/ Handle(s) \/ Disconnect(s) \/ Kill(s)
  PROVE  \E l : Update(s, l)
  BY DEF Connect, ConnectToBackup, ConnectToRestore, ConnectToList, Disconnect, Kill, Handle,
      RejectName, AcceptName, ChooseNumber, MakeBackupDir, ReceiveFileData, ReceiveComplete,
      SkipFile, OpenForSave, WriteAndClose, SaveFails, Acknowledge, RestoreNothing,
      BeginRestore, LoadNext, CrashOnTornMetadata,
      SendRestored, BeginList, SendList

LEMMA InitTypeInv == Init => TypeInv
<1> SUFFICES ASSUME Init PROVE TypeInv
  OBVIOUS
<1> DEFINE tree == [i \in 1 .. Archive |->
                       [f \in Files |-> IF f \in BakFiles THEN Archived ELSE NoFile]]
<1>1. IsTree(tree) /\ Listed(tree) = 1 .. Archive
  <2>1. IsFiniteSet(1 .. Archive) /\ 1 .. Archive \subseteq Nat \ {0}
    BY FS_Interval, SessionAssumption DEF SessionAssumption
  <2>2. \A i \in 1 .. Archive : tree[i] \in [Files -> FileState]
    BY DEF FileState, Contents
  <2>3. Archived # NoFile
    BY TokensAssumption DEF TokensAssumption, Contents
  <2>4. \A i \in 1 .. Archive : tree[i]["header"] # NoFile
    BY <2>3 DEF Files, BakFiles
  <2> QED
    BY <2>1, <2>2, <2>4 DEF IsTree, Listed
<1>2. DOMAIN store = Users /\ \A u \in Users : store[u] = tree
  BY DEF Init
<1>3. \A u \in Users : IsTree(store[u]) /\ Dense(store[u])
  BY <1>1, <1>2, SessionAssumption DEF Dense, SessionAssumption
<1>4. session \in [Sessions -> SessionState]
      /\ \A s \in Sessions : LocalOK(session[s]) /\ session[s] = Free
  BY FreeType DEF Init
<1>5. \A s \in Sessions : BufferOK(session[s]) /\ NumberOK(s)
  BY <1>4 DEF BufferOK, NumberOK, NumberedPc, Free, EmptyBuffers
<1> QED
  BY <1>2, <1>3, <1>4, <1>5 DEF TypeInv, Init

LEMMA NextTypeInv == TypeInv /\ [Next]_vars => TypeInv'
<1> SUFFICES ASSUME TypeInv, [Next]_vars PROVE TypeInv'
  OBVIOUS
<1>1. CASE Next
  <2>1. PICK s \in Sessions : Connect(s) \/ Handle(s) \/ Disconnect(s) \/ Kill(s)
    BY <1>1 DEF Next
  <2>2. PICK l : Update(s, l)
    BY <2>1, StepUpdates
  <2>3. LocalOK(l) /\ BufferOK(l)
    BY <2>1, <2>2, LocalStep, BufferStep
  <2>4. /\ session' \in [Sessions -> SessionState]
        /\ \A t \in Sessions : LocalOK(session'[t]) /\ BufferOK(session'[t])
    BY <2>2, <2>3, UpdateType DEF TypeInv
  <2>5. \A t \in Sessions : NumberOK(t)'
    BY <2>1, <2>2, <2>3, NumberStep
  <2>6. DOMAIN store' = Users /\ \A u \in Users : IsTree(store'[u]) /\ Dense(store'[u])
    BY <2>1, StoreGrows DEF Grows
  <2>7. used' \subseteq Data /\ acked' \subseteq Acks /\ excused' \subseteq Data
    BY <2>1, HistoryStep
  <2> QED
    BY <2>4, <2>5, <2>6, <2>7 DEF TypeInv
<1>2. CASE UNCHANGED vars
  BY <1>2 DEF vars, TypeInv, NumberOK, Tree
<1> QED
  BY <1>1, <1>2

\* Every variable keeps its type, in every instance of the specification.
THEOREM TypeCorrect == Spec => []TypeOK
<1>1. TypeInv => TypeOK
  BY DEF TypeInv, TypeOK
<1> QED
  BY <1>1, InitTypeInv, NextTypeInv, PTL DEF Spec

\* createBackup leaves no gap in the listed numbers, for any number of sessions
\* that choose a number at once and die anywhere.
THEOREM NumbersDense == Spec => []ListedDense
<1>1. TypeInv => ListedDense
  <2> SUFFICES ASSUME TypeInv, NEW u \in Users, NEW i \in Listed(store[u])
               PROVE  1 .. i \subseteq Listed(store[u])
    BY DEF ListedDense
  <2>1. PICK n \in Nat : Listed(store[u]) = 1 .. n
    BY DEF TypeInv, Dense
  <2> QED
    BY <2>1
<1> QED
  BY <1>1, InitTypeInv, NextTypeInv, PTL DEF Spec

\* No step of any session takes a backup off a user's list.
THEOREM BackupsStayListed == Spec => ListedStays
<1>1. TypeInv /\ [Next]_vars => [\A u \in Users : Listed(store[u]) \subseteq Listed(store'[u])]_vars
  <2> SUFFICES ASSUME TypeInv, Next
               PROVE  \A u \in Users : Listed(store[u]) \subseteq Listed(store'[u])
    OBVIOUS
  <2>1. PICK s \in Sessions : Connect(s) \/ Handle(s) \/ Disconnect(s) \/ Kill(s)
    BY DEF Next
  <2> QED
    BY <2>1, StoreGrows DEF Grows
<1> QED
  BY <1>1, InitTypeInv, NextTypeInv, PTL DEF Spec, ListedStays

-----------------------------------------------------------------------------
(* Durability *)

StepOf(s) == Connect(s) \/ Handle(s) \/ Disconnect(s) \/ Kill(s)

\* Where the stream of a session can be, and what has come of its upload.
StreamOK(l) ==
    /\ l.pc \notin {"ready", "named", "mkdir", "receive"} => l.next = "EOF"
    /\ l.pc # "receive" => l.next \notin {"METADATA", "BACKUP_COMPLETE"}
    /\ l.pc \in {"named", "mkdir", "receive"} =>
           l.next \in {"PAYLOAD", "METADATA", "BACKUP_COMPLETE"}
    /\ l.pc = "receive" /\ l.next # "PAYLOAD" =>
           l.buf["header"] = l.data /\ l.buf["payload"] = l.data
    /\ l.pc = "receive" /\ l.next = "BACKUP_COMPLETE" => l.buf["metadata"] = l.data
    /\ l.pc \in {"save", "ack"} => \A f \in BakFiles : l.buf[f] = l.data
    /\ l.pc = "ack" => l.file = "end"

\* An upload is under way, or will come.
Carries(s) == Uploading(s) \/ session[s].next \in UploadMessages

-----------------------------------------------------------------------------
(* What a step of s does, when it takes its locals to l *)

Keeps(s, l) ==
    l.user = session[s].user /\ l.data = session[s].data /\ l.id = session[s].id

Arrives(s, l) ==
    /\ l.pc = "ready" /\ l.next \in {"BACKUP_START", "PAYLOAD"}
    /\ l.data \in Data \ used /\ used' = used \cup {l.data}
    /\ UNCHANGED <<store, acked, excused>>

Idles(s, l) ==
    /\ UNCHANGED <<store, used, acked, excused>>
    /\ l.pc \notin UploadPc /\ (l.pc # "ready" => l.next = "EOF")
    /\ \/ l.next \notin UploadMessages
       \/ l.next = "PAYLOAD" /\ session[s].next = "BACKUP_START" /\ l.data = session[s].data

Accepts(s, l) ==
    /\ session[s].pc = "ready" /\ session[s].next = "BACKUP_START"
    /\ ~ NameExists(Tree(s), session[s].name) /\ session[s].name \in Names
    /\ Keeps(s, l) /\ l.pc = "named" /\ l.next = "PAYLOAD" /\ l.buf["name"] = session[s].name
    /\ ExcuseOverlap(s) /\ UNCHANGED <<store, used, acked>>

Chooses(s, l) ==
    /\ session[s].pc \in {"ready", "named"} /\ session[s].next = "PAYLOAD"
    /\ session[s].pc = "ready" => l.buf["name"] = Nothing
    /\ l.user = session[s].user /\ l.data = session[s].data /\ l.buf = session[s].buf
    /\ l.id = NextNumber(Tree(s)) /\ l.pc = "mkdir" /\ l.next = "PAYLOAD"
    /\ ExcuseOverlap(s) /\ UNCHANGED <<store, used, acked>>

Makes(s, l) ==
    /\ session[s].pc = "mkdir" /\ l.pc = "receive"
    /\ Keeps(s, l) /\ l.buf = session[s].buf /\ l.next = session[s].next
    /\ store' = [store EXCEPT ![session[s].user] = MakeDir(Tree(s), session[s].id)]
    /\ UNCHANGED <<used, acked, excused>>

Receives(s, l) ==
    /\ session[s].pc = "receive" /\ l.pc = "receive"
    /\ Keeps(s, l) /\ l.buf["name"] = session[s].buf["name"]
    /\ \/ /\ session[s].next = "PAYLOAD" /\ l.next = "METADATA"
          /\ l.buf["header"] = l.data /\ l.buf["payload"] = l.data
       \/ /\ session[s].next = "METADATA" /\ l.next = "BACKUP_COMPLETE"
          /\ l.buf["header"] = session[s].buf["header"]
          /\ l.buf["payload"] = session[s].buf["payload"] /\ l.buf["metadata"] = l.data
    /\ UNCHANGED <<store, used, acked, excused>>

Completes(s, l) ==
    /\ session[s].pc = "receive" /\ session[s].next = "BACKUP_COMPLETE"
    /\ l.pc = "save" /\ l.file = "header" /\ l.next = "EOF"
    /\ Keeps(s, l) /\ l.buf = session[s].buf
    /\ UNCHANGED <<store, used, acked, excused>>

\* The next file, or the answer.
Turns(s, l) ==
    /\ session[s].pc = "save" /\ l.next = "EOF"
    /\ Keeps(s, l) /\ l.buf = session[s].buf /\ l.file = FileAfter[session[s].file]
    /\ l.pc = IF l.file = "end" THEN "ack" ELSE "save"
    /\ UNCHANGED <<used, acked>>

Skips(s, l) ==
    Turns(s, l) /\ session[s].buf[session[s].file] = Nothing /\ UNCHANGED <<store, excused>>

Opens(s, l) ==
    /\ session[s].pc = "save" /\ l.pc = "save" /\ l.next = "EOF"
    /\ Keeps(s, l) /\ l.buf = session[s].buf /\ l.file = session[s].file
    /\ session[s].buf[session[s].file] # Nothing
    /\ store' = [store EXCEPT ![session[s].user] = OpenOf(s)]
    /\ UNCHANGED <<used, acked, excused>>

Writes(s, l) ==
    /\ Turns(s, l) /\ session[s].buf[session[s].file] # Nothing
    /\ store' = [store EXCEPT ![session[s].user] = WriteOf(s)]
    /\ UNCHANGED excused

Fails(s, l) ==
    Turns(s, l) /\ excused' = excused \cup {session[s].data} /\ UNCHANGED store

AckOf(s) == [user |-> session[s].user, id |-> session[s].id, data |-> session[s].data,
             name |-> session[s].buf["name"], asked |-> session[s].name]

Acks1(s, l) ==
    /\ session[s].pc = "ack" /\ l.pc = "ready" /\ l.next = "EOF"
    /\ acked' = acked \cup {AckOf(s)} /\ UNCHANGED <<store, used, excused>>

Does(s, l) ==
    \/ Arrives(s, l) \/ Idles(s, l) \/ Accepts(s, l) \/ Chooses(s, l) \/ Makes(s, l)
    \/ Receives(s, l) \/ Completes(s, l) \/ Skips(s, l) \/ Opens(s, l) \/ Writes(s, l)
    \/ Fails(s, l) \/ Acks1(s, l)

LEMMA StepDoes ==
    ASSUME TypeInv, NEW s \in Sessions, StreamOK(session[s]), NEW l, Update(s, l), StepOf(s)
    PROVE  Does(s, l)
  <1> DEFINE old == session[s]
  <1>0. LocalOK(old) /\ old \in SessionState /\ DOMAIN session = Sessions
    BY DEF TypeInv, LocalOK
  <1>1. /\ old.buf \in [Files -> FileState \cup {Nothing}]
        /\ Tree(s) = store[old.user]
    BY <1>0 DEF SessionState, Tree
  <1>2. CASE ConnectToBackup(s)
    <2>1. PICK u \in Users, d \in Data \ used, n \in Names \cup {Nothing} :
            /\ l = [Arrive(u, IF n = Nothing THEN "PAYLOAD" ELSE "BACKUP_START")
                      EXCEPT !.data = d, !.name = n]
            /\ used' = used \cup {d}
      BY <1>0, <1>2 DEF ConnectToBackup, Update
    <2>2. PICK m \in {"PAYLOAD", "BACKUP_START"} :
            l = [Free EXCEPT !.pc = "ready", !.user = u, !.next = m, !.data = d, !.name = n]
      BY <2>1 DEF Arrive, Free
    <2>3. l.pc = "ready" /\ l.next = m /\ l.data = d
      BY <2>2 DEF Free
    <2>. QED BY <1>2, <2>1, <2>3 DEF Does, Arrives, ConnectToBackup
  <1>3. CASE ConnectToRestore(s)
    <2>1. PICK u \in Users, i \in AskIds \cup {Nothing} :
            l = [Arrive(u, "RESTORE_REQUEST") EXCEPT !.id = i]
      BY <1>0, <1>3 DEF ConnectToRestore, Update
    <2>2. l.pc = "ready" /\ l.next = "RESTORE_REQUEST"
      BY <2>1 DEF Arrive, Free
    <2>. QED BY <1>3, <2>2 DEF Does, Idles, ConnectToRestore, UploadPc, NumberedPc,
                               UploadMessages
  <1>4. CASE ConnectToList(s)
    <2>1. PICK u \in Users : l = Arrive(u, "BACKUP_LIST_REQUEST")
      BY <1>0, <1>4 DEF ConnectToList, Update
    <2>2. l.pc = "ready" /\ l.next = "BACKUP_LIST_REQUEST"
      BY <2>1 DEF Arrive, Free
    <2>. QED BY <1>4, <2>2 DEF Does, Idles, ConnectToList, UploadPc, NumberedPc,
                               UploadMessages
  <1>5. CASE Disconnect(s) \/ Kill(s) \/ CrashOnTornMetadata(s)
    <2>1. l.pc = "free" /\ l.next = "EOF" /\ UNCHANGED <<store, used, acked, excused>>
      BY <1>0, <1>5, FreeType DEF Disconnect, Kill, CrashOnTornMetadata, Update
    <2>. QED BY <2>1 DEF Does, Idles, UploadPc, NumberedPc, UploadMessages
  <1>6. CASE RejectName(s)
    <2>1. l = [old EXCEPT !.next = Following[@],
                          !.reply = [kind |-> "error", code |-> "NAME_EXISTS"]]
      BY <1>0, <1>6 DEF RejectName, Update
    <2>2. l.pc = "ready" /\ l.next = "PAYLOAD" /\ l.data = old.data
      BY <1>0, <1>6, <2>1, FollowingType DEF RejectName, SessionState
    <2>. QED BY <1>6, <2>2 DEF Does, Idles, RejectName, UploadPc, NumberedPc
  <1>7. CASE AcceptName(s)
    <2>1. l = [old EXCEPT !.pc = "named", !.next = Following[@], !.buf["name"] = old.name]
      BY <1>0, <1>7 DEF AcceptName, Update
    <2>2. /\ l.pc = "named" /\ l.next = "PAYLOAD" /\ Keeps(s, l)
          /\ l.buf = [old.buf EXCEPT !["name"] = old.name]
      BY <1>0, <1>7, <2>1, FollowingType DEF AcceptName, SessionState, Keeps
    <2>3. l.buf["name"] = old.name /\ old.name \in Names
      BY <1>0, <1>1, <1>7, <2>2 DEF AcceptName, LocalOK, Files
    <2>. QED BY <1>7, <2>2, <2>3 DEF Does, Accepts, AcceptName
  <1>8. CASE ChooseNumber(s)
    <2>1. l = [old EXCEPT !.pc = "mkdir", !.id = NextNumber(Tree(s))]
      BY <1>0, <1>8 DEF ChooseNumber, Update
    <2>2. /\ l.pc = "mkdir" /\ l.id = NextNumber(Tree(s)) /\ l.next = old.next
          /\ l.user = old.user /\ l.data = old.data /\ l.buf = old.buf
      BY <1>0, <2>1 DEF SessionState
    <2>3. old.next = "PAYLOAD" /\ old.pc \in {"ready", "named"}
      BY <1>8 DEF ChooseNumber, StreamOK
    <2>4. old.pc = "ready" => l.buf["name"] = Nothing
      BY <1>0, <2>2, EmptyBuffersType DEF LocalOK
    <2>. QED BY <1>8, <2>2, <2>3, <2>4 DEF Does, Chooses, ChooseNumber
  <1>9. CASE MakeBackupDir(s)
    <2>1. l = [old EXCEPT !.pc = "receive"]
      BY <1>0, <1>9 DEF MakeBackupDir, Update
    <2>2. l.pc = "receive" /\ Keeps(s, l) /\ l.buf = old.buf /\ l.next = old.next
      BY <1>0, <2>1 DEF SessionState, Keeps
    <2>. QED BY <1>9, <2>2 DEF Does, Makes, MakeBackupDir, Tree
  <1>10. CASE ReceiveFileData(s)
    <2>1. l = [old EXCEPT !.buf = Received(s), !.next = Following[@]]
      BY <1>0, <1>10 DEF ReceiveFileData, Update
    <2>2. /\ l.pc = "receive" /\ old.pc = "receive" /\ Keeps(s, l) /\ l.buf = Received(s)
          /\ l.next = Following[old.next] /\ old.next \in {"PAYLOAD", "METADATA"}
      BY <1>0, <1>10, <2>1 DEF ReceiveFileData, SessionState, Keeps
    <2>3. CASE old.next = "PAYLOAD"
      <3>1. l.buf = [old.buf EXCEPT !["header"] = old.data, !["payload"] = old.data]
        BY <2>2, <2>3 DEF Received
      <3>2. /\ l.buf["header"] = old.data /\ l.buf["payload"] = old.data
            /\ l.buf["name"] = old.buf["name"]
        BY <1>1, <3>1 DEF Files
      <3>. QED BY <1>10, <2>2, <2>3, <3>2, FollowingType
               DEF Does, Receives, ReceiveFileData, Keeps
    <2>4. CASE old.next = "METADATA"
      <3>1. l.buf = [old.buf EXCEPT !["metadata"] = old.data]
        BY <2>2, <2>4 DEF Received
      <3>2. /\ l.buf["header"] = old.buf["header"] /\ l.buf["payload"] = old.buf["payload"]
            /\ l.buf["metadata"] = old.data /\ l.buf["name"] = old.buf["name"]
        BY <1>1, <3>1 DEF Files
      <3>. QED BY <1>10, <2>2, <2>4, <3>2, FollowingType
               DEF Does, Receives, ReceiveFileData, Keeps
    <2>. QED BY <2>2, <2>3, <2>4
  <1>11. CASE ReceiveComplete(s)
    <2>1. l = [old EXCEPT !.pc = "save", !.file = "header", !.next = Following[@]]
      BY <1>0, <1>11 DEF ReceiveComplete, Update
    <2>2. /\ l.pc = "save" /\ l.file = "header" /\ l.next = "EOF" /\ Keeps(s, l)
          /\ l.buf = old.buf
      BY <1>0, <1>11, <2>1, FollowingType DEF ReceiveComplete, SessionState, Keeps
    <2>. QED BY <1>11, <2>2 DEF Does, Completes, ReceiveComplete
  <1>turn. ASSUME Update(s, NextFile(old)), old.pc = "save", UNCHANGED <<used, acked>>
           PROVE  Turns(s, l)
    <2>1. l = NextFile(old)
      BY <1>0, <1>turn DEF Update
    <2>2. /\ l.file = FileAfter[old.file] /\ l.next = old.next /\ Keeps(s, l)
          /\ l.buf = old.buf /\ l.pc = IF FileAfter[old.file] = "end" THEN "ack" ELSE "save"
      BY <1>0, <2>1 DEF NextFile, SessionState, Keeps
    <2>3. old.next = "EOF"
      BY <1>turn DEF StreamOK
    <2>. QED BY <1>turn, <2>2, <2>3 DEF Turns
  <1>12. CASE SkipFile(s)
    BY <1>12, <1>turn DEF SkipFile, Does, Skips
  <1>13. CASE OpenForSave(s)
    <2>1. l = [old EXCEPT !.opened = TRUE]
      BY <1>0, <1>13 DEF OpenForSave, Update
    <2>2. /\ l.pc = "save" /\ Keeps(s, l) /\ l.buf = old.buf /\ l.file = old.file
          /\ l.next = old.next /\ old.pc = "save"
      BY <1>0, <1>13, <2>1 DEF OpenForSave, SessionState, Keeps
    <2>3. old.next = "EOF"
      BY <2>2 DEF StreamOK
    <2>. QED BY <1>13, <2>2, <2>3 DEF Does, Opens, OpenForSave, OpenOf, Tree
  <1>14. CASE WriteAndClose(s)
    <2>1. old.buf[old.file] # Nothing
      BY <1>14 DEF WriteAndClose, TypeInv, BufferOK
    <2>. QED BY <1>14, <1>turn, <2>1 DEF WriteAndClose, Does, Writes, WriteOf, Tree
  <1>15. CASE SaveFails(s)
    BY <1>15, <1>turn DEF SaveFails, Does, Fails
  <1>16. CASE Acknowledge(s)
    <2>1. l = [Free EXCEPT !.pc = "ready", !.user = old.user, !.next = old.next,
                           !.data = old.data, !.reply = [kind |-> "ack", id |-> old.id]]
      BY <1>0, <1>16 DEF Acknowledge, Update
    <2>2. l.pc = "ready" /\ l.next = old.next /\ old.pc = "ack"
      BY <1>16, <2>1 DEF Acknowledge, Free
    <2>3. old.next = "EOF"
      BY <2>2 DEF StreamOK
    <2>. QED BY <1>16, <2>2, <2>3 DEF Acknowledge, Does, Acks1, AckOf
  <1>17. CASE RestoreNothing(s) \/ BeginRestore(s) \/ BeginList(s)
    <2>1. /\ l.pc \in {"ready", "load", "names"} /\ l.next = "EOF"
          /\ UNCHANGED <<store, used, acked, excused>>
      <3>1. CASE RestoreNothing(s)
        <4>1. l = [old EXCEPT !.next = Following[@], !.reply = NotFound]
          BY <1>0, <3>1 DEF RestoreNothing, Update
        <4>. QED BY <1>0, <3>1, <4>1, FollowingType DEF RestoreNothing, SessionState
      <3>2. CASE BeginRestore(s)
        <4>1. PICK i \in AskIds \cup Listed(Tree(s)) :
                l = [old EXCEPT !.pc = "load", !.next = Following[@], !.id = i,
                         !.file = "header", !.want = {a \in SettledOf(old.user) : a.id = i}]
          BY <1>0, <3>2 DEF BeginRestore, Update
        <4>. QED BY <1>0, <3>2, <4>1, FollowingType DEF BeginRestore, SessionState
      <3>3. CASE BeginList(s)
        <4>1. l = [old EXCEPT !.pc = "names", !.next = Following[@],
                       !.want = SettledOf(old.user),
                       !.reply = [kind |-> "ids", ids |-> Listed(Tree(s))]]
          BY <1>0, <3>3 DEF BeginList, Update
        <4>. QED BY <1>0, <3>3, <4>1, FollowingType DEF BeginList, SessionState
      <3>. QED BY <1>17, <3>1, <3>2, <3>3
    <2>. QED BY <2>1 DEF Does, Idles, UploadPc, NumberedPc, UploadMessages
  <1>18. CASE LoadNext(s) \/ SendRestored(s) \/ SendList(s)
    <2>1. /\ l.pc \in {"ready", "load", "send"} /\ l.next = "EOF"
          /\ UNCHANGED <<store, used, acked, excused>>
      <3>1. CASE LoadNext(s)
        <4>1. l = [old EXCEPT !.buf[old.file] = Load(Tree(s), old.id, old.file),
                       !.file = FileAfter[@],
                       !.pc = IF FileAfter[old.file] = "name" THEN "send" ELSE "load"]
          BY <1>0, <3>1 DEF LoadNext, Update
        <4>2. old.next = "EOF" /\ l.next = old.next /\ l.pc \in {"load", "send"}
          BY <1>0, <3>1, <4>1 DEF LoadNext, StreamOK, SessionState
        <4>. QED BY <3>1, <4>2 DEF LoadNext
      <3>2. CASE SendRestored(s)
        <4>1. l = [Free EXCEPT !.pc = "ready", !.user = old.user, !.id = old.id,
                       !.want = old.want, !.reply = Loaded(s)]
          BY <1>0, <3>2 DEF SendRestored, Update
        <4>. QED BY <3>2, <4>1 DEF SendRestored, Free
      <3>3. CASE SendList(s)
        <4>1. l = [old EXCEPT !.pc = "ready",
                     !.reply = [kind |-> "list",
                                names |-> {[id |-> i, name |-> BackupName(Tree(s), i)] :
                                              i \in old.reply.ids}]]
          BY <1>0, <3>3 DEF SendList, Update
        <4>2. old.next = "EOF" /\ l.next = old.next /\ l.pc = "ready"
          BY <1>0, <3>3, <4>1 DEF SendList, StreamOK, SessionState
        <4>. QED BY <3>3, <4>2 DEF SendList
      <3>. QED BY <1>18, <3>1, <3>2, <3>3
    <2>. QED BY <2>1 DEF Does, Idles, UploadPc, NumberedPc, UploadMessages
  <1>. QED
    BY <1>2, <1>3, <1>4, <1>5, <1>6, <1>7, <1>8, <1>9, <1>10, <1>11, <1>12, <1>13, <1>14,
       <1>15, <1>16, <1>17, <1>18 DEF StepOf, Connect, Handle
-----------------------------------------------------------------------------
(* The inductive invariant *)

\* Uploads are told apart by their data.
DataInv ==
    /\ \A s \in Sessions : Carries(s) => session[s].data \in used
    /\ \A s, t \in Sessions : s # t /\ Carries(s) /\ Carries(t) =>
           session[s].data # session[t].data
    /\ \A a \in acked : a.data \in used
    /\ \A a \in acked, s \in Sessions : Carries(s) => session[s].data # a.data

\* An upload that is not excused runs alone.
LoneInv ==
    \A s \in Sessions : Uploading(s) /\ session[s].data \notin excused => Rivals(s) = {}

\* The files handleBackup is done with.
Before == [header |-> {}, payload |-> {"header"}, metadata |-> {"header", "payload"},
           name |-> BakFiles, end |-> Files]

\* What an upload that is not excused has saved is in the tree.
SavedInv ==
    \A s \in Sessions : session[s].pc \in {"save", "ack"} /\ session[s].data \notin excused =>
        \A f \in Before[session[s].file] :
            session[s].buf[f] # Nothing => Tree(s)[session[s].id][f] = session[s].buf[f]

\* An upload has a number and a name no settled upload of its user has.
NewInv ==
    \A s \in Sessions : Uploading(s) => \A a \in SettledOf(session[s].user) :
        /\ session[s].pc \in NumberedPc => session[s].id # a.id
        /\ session[s].buf["name"] # Nothing => a.name # session[s].buf["name"]

DurableInv ==
    /\ TypeInv
    /\ \A s \in Sessions : StreamOK(session[s])
    /\ DataInv /\ LoneInv /\ SavedInv /\ NewInv /\ AckedIntact

-----------------------------------------------------------------------------
(* What every step of s leaves alone *)

LEMMA StreamStep ==
    ASSUME NEW s \in Sessions, NEW l, StreamOK(session[s]), Does(s, l)
    PROVE  StreamOK(l)
  <1> DEFINE old == session[s]
  <1>1. CASE Arrives(s, l) \/ Idles(s, l) \/ Accepts(s, l) \/ Chooses(s, l)
    <2>1. /\ l.pc \notin {"receive", "save", "ack"}
          /\ l.next \notin {"METADATA", "BACKUP_COMPLETE"}
          /\ l.pc \in {"named", "mkdir"} => l.next = "PAYLOAD"
          /\ l.pc \notin {"ready", "named", "mkdir"} => l.next = "EOF"
      <3>1. CASE Arrives(s, l)
        BY <3>1 DEF Arrives
      <3>2. CASE Idles(s, l)
        BY <3>2 DEF Idles, UploadPc, NumberedPc, UploadMessages
      <3>3. CASE Accepts(s, l) \/ Chooses(s, l)
        BY <3>3 DEF Accepts, Chooses
      <3>. QED BY <1>1, <3>1, <3>2, <3>3
    <2>. QED BY <2>1 DEF StreamOK
  <1>2. CASE Makes(s, l)
    <2>1. old.next = "PAYLOAD"
      BY <1>2 DEF Makes, StreamOK
    <2>. QED BY <1>2, <2>1 DEF Makes, StreamOK
  <1>3. CASE Receives(s, l)
    <2>1. l.pc = "receive" /\ l.data = old.data /\ old.pc = "receive"
      BY <1>3 DEF Receives, Keeps
    <2>2. CASE l.next = "METADATA" /\ l.buf["header"] = l.data /\ l.buf["payload"] = l.data
      BY <2>1, <2>2 DEF StreamOK
    <2>3. CASE /\ old.next = "METADATA" /\ l.next = "BACKUP_COMPLETE"
               /\ l.buf["header"] = old.buf["header"]
               /\ l.buf["payload"] = old.buf["payload"] /\ l.buf["metadata"] = l.data
      <3>1. old.buf["header"] = old.data /\ old.buf["payload"] = old.data
        BY <2>1, <2>3 DEF StreamOK
      <3>. QED BY <2>1, <2>3, <3>1 DEF StreamOK
    <2>. QED BY <1>3, <2>2, <2>3 DEF Receives
  <1>4. CASE Completes(s, l)
    <2>1. \A f \in BakFiles : old.buf[f] = old.data
      BY <1>4 DEF Completes, StreamOK, BakFiles, Files
    <2>. QED BY <1>4, <2>1 DEF Completes, Keeps, StreamOK
  <1>5. CASE Turns(s, l) \/ Opens(s, l)
    <2>1. /\ l.pc \in {"save", "ack"} /\ l.next = "EOF" /\ l.buf = old.buf /\ l.data = old.data
          /\ l.pc = "ack" => l.file = "end"
      BY <1>5 DEF Turns, Opens, Keeps
    <2>2. \A f \in BakFiles : old.buf[f] = old.data
      BY <1>5 DEF Turns, Opens, StreamOK
    <2>. QED BY <2>1, <2>2 DEF StreamOK
  <1>6. CASE Acks1(s, l)
    BY <1>6 DEF Acks1, StreamOK
  <1>. QED BY <1>1, <1>2, <1>3, <1>4, <1>5, <1>6 DEF Does, Skips, Writes, Fails

\* An upload begins, or goes on with the number, the name and the data it has.
LEMMA Continues ==
    ASSUME NEW s \in Sessions, NEW l, Does(s, l), l.pc \in UploadPc
    PROVE  \/ Accepts(s, l) \/ Chooses(s, l)
           \/ /\ session[s].pc \in NumberedPc /\ l.pc \in NumberedPc
              /\ Keeps(s, l) /\ l.buf["name"] = session[s].buf["name"]
              /\ used' = used /\ acked' = acked
  <1>1. ~ Arrives(s, l) /\ ~ Idles(s, l) /\ ~ Acks1(s, l)
    BY DEF Arrives, Idles, Acks1, UploadPc, NumberedPc
  <1>2. ASSUME Makes(s, l) \/ Receives(s, l) \/ Completes(s, l) \/ Turns(s, l) \/ Opens(s, l)
        PROVE  /\ session[s].pc \in NumberedPc /\ l.pc \in NumberedPc
               /\ Keeps(s, l) /\ l.buf["name"] = session[s].buf["name"]
               /\ used' = used /\ acked' = acked
    BY <1>2 DEF Makes, Receives, Completes, Turns, Opens, NumberedPc
  <1>. QED BY <1>1, <1>2 DEF Does, Skips, Writes, Fails

\* The histories grow, and by an acknowledgement only at an acknowledgement.
LEMMA HistoriesGrow ==
    ASSUME NEW s \in Sessions, NEW l, Does(s, l)
    PROVE  /\ used \subseteq used' /\ excused \subseteq excused'
           /\ acked' = acked \/ Acks1(s, l)
           /\ used' = used \/ Arrives(s, l)
  <1>1. ExcuseOverlap(s) => excused \subseteq excused'
    BY DEF ExcuseOverlap
  <1>. QED BY <1>1 DEF Does, Arrives, Idles, Accepts, Chooses, Makes, Receives, Completes,
                       Turns, Skips, Opens, Writes, Fails, Acks1

\* A step changes an existing backup only by saving it.
LEMMA Harmless ==
    ASSUME TypeInv, NEW s \in Sessions, NEW l, Does(s, l),
           NEW u \in Users, NEW i \in DOMAIN store[u]
    PROVE  /\ i \in DOMAIN store'[u]
           /\ \/ store'[u][i] = store[u][i]
              \/ session[s].pc = "save" /\ session[s].user = u /\ session[s].id = i
  <1> DEFINE old == session[s]
  <1>1. DOMAIN store = Users /\ IsTree(store[u])
    BY DEF TypeInv
  <1>2. CASE UNCHANGED store
    BY <1>2
  <1>3. CASE Makes(s, l)
    <2>1. store' = [store EXCEPT ![old.user] = MakeDir(Tree(s), old.id)]
      BY <1>3 DEF Makes
    <2>2. CASE old.user = u
      <3>1. store'[u] = MakeDir(store[u], old.id)
        BY <1>1, <2>1, <2>2 DEF Tree
      <3>. QED BY <3>1 DEF MakeDir
    <2>. QED BY <1>1, <2>1, <2>2
  <1>4. ASSUME NEW v, old.pc = "save",
               store' = [store EXCEPT ![old.user] = [Tree(s) EXCEPT ![old.id][old.file] = v]]
        PROVE  /\ i \in DOMAIN store'[u]
               /\ store'[u][i] = store[u][i] \/ (old.user = u /\ old.id = i)
    <2>1. CASE old.user = u
      <3>1. store'[u] = [store[u] EXCEPT ![old.id][old.file] = v]
        BY <1>1, <1>4, <2>1 DEF Tree
      <3>. QED BY <2>1, <3>1
    <2>. QED BY <1>1, <1>4, <2>1
  <1>5. CASE Opens(s, l)
    BY <1>4, <1>5 DEF Opens, OpenOf, OpenFile
  <1>6. CASE Writes(s, l)
    BY <1>4, <1>6 DEF Writes, Turns, WriteOf, WriteFile
  <1>. QED BY <1>2, <1>3, <1>5, <1>6 DEF Does, Arrives, Idles, Accepts, Chooses, Receives,
                                        Completes, Skips, Fails, Acks1

-----------------------------------------------------------------------------
(* The invariant is kept, part by part *)

LEMMA DataStep ==
    ASSUME DataInv, TypeInv, NEW s \in Sessions, NEW l, Does(s, l),
           session'[s] = l, \A t \in Sessions \ {s} : session'[t] = session[t]
    PROVE  DataInv'
  <1> DEFINE old == session[s]
  <1>1. \A t \in Sessions \ {s} : Carries(t)' <=> Carries(t)
    BY DEF Carries, Uploading
  <1>2. CASE Arrives(s, l)
    <2>1. l.data \notin used /\ used' = used \cup {l.data} /\ acked' = acked
      BY <1>2 DEF Arrives
    <2>. QED BY <1>1, <2>1 DEF DataInv
  <1>3. CASE ~ Arrives(s, l)
    <2>1. used' = used
      BY <1>3, HistoriesGrow
    <2>2. ASSUME Carries(s)' PROVE Carries(s) /\ l.data = old.data /\ ~ Acks1(s, l)
      <3>1. CASE l.pc \in UploadPc
        <4>1. CASE Accepts(s, l) \/ Chooses(s, l)
          BY <4>1, <3>1 DEF Accepts, Chooses, Keeps, Carries, UploadMessages, Acks1, UploadPc,
                            NumberedPc
        <4>2. CASE old.pc \in NumberedPc /\ Keeps(s, l)
          BY <4>2, <3>1 DEF Keeps, Carries, Uploading, Acks1, UploadPc, NumberedPc
        <4>. QED BY <3>1, <4>1, <4>2, Continues
      <3>2. CASE l.pc \notin UploadPc
        <4>1. l.next \in UploadMessages
          BY <2>2, <3>2 DEF Carries, Uploading, UploadPc, NumberedPc
        <4>2. Idles(s, l)
          <5>1. l.pc # "save" /\ l.pc # "ack"
            BY <3>2 DEF UploadPc, NumberedPc
          <5>. QED BY <1>3, <3>2, <4>1, <5>1
                   DEF Does, Accepts, Chooses, Makes, Receives, Completes, Turns, Skips, Opens,
                       Writes, Fails, Acks1, UploadPc, NumberedPc, UploadMessages
        <4>. QED BY <4>1, <4>2 DEF Idles, Carries, UploadMessages, Acks1
      <3>. QED BY <3>1, <3>2
    <2>3. CASE acked' = acked
      BY <1>1, <2>1, <2>2, <2>3 DEF DataInv
    <2>4. CASE Acks1(s, l)
      <3>1. /\ acked' = acked \cup {AckOf(s)} /\ AckOf(s).data = old.data /\ Carries(s)
        BY <2>4 DEF Acks1, AckOf, Carries, Uploading
      <3>2. ~ Carries(s)'
        BY <2>2, <2>4
      <3>3. \A t \in Sessions \ {s} : Carries(t) => session'[t].data # old.data
        BY <3>1 DEF DataInv
      <3>. QED BY <1>1, <2>1, <3>1, <3>2, <3>3 DEF DataInv
    <2>. QED BY <2>3, <2>4, HistoriesGrow
  <1>. QED BY <1>2, <1>3

LEMMA LoneStep ==
    ASSUME LoneInv, NEW s \in Sessions, NEW l, Does(s, l),
           session'[s] = l, \A t \in Sessions \ {s} : session'[t] = session[t]
    PROVE  LoneInv'
  <1> SUFFICES ASSUME NEW t \in Sessions, Uploading(t)', session'[t].data \notin excused',
                      NEW r \in Sessions \ {t}, Uploading(r)', session'[r].user = session'[t].user
               PROVE  FALSE
    BY DEF LoneInv, Rivals
  <1>1. excused \subseteq excused'
    BY HistoriesGrow
  <1>2. CASE t # s /\ r # s
    <2>1. r \in Rivals(t) /\ Uploading(t) /\ session[t].data \notin excused
      BY <1>1, <1>2 DEF Rivals, Uploading
    <2>. QED BY <2>1 DEF LoneInv
  <1>3. CASE t = s \/ r = s
    <2>1. PICK o \in Sessions \ {s} : {o, s} = {r, t}
      BY <1>3
    <2>2. l.pc \in UploadPc /\ Uploading(o) /\ session[o].user = l.user
      BY <2>1 DEF Uploading, UploadPc, NumberedPc
    <2>3. CASE Accepts(s, l) \/ Chooses(s, l)
      <3>1. ExcuseOverlap(s) /\ l.user = session[s].user /\ l.data = session[s].data
        BY <2>3 DEF Accepts, Chooses, Keeps
      <3>2. o \in Rivals(s)
        BY <2>2, <3>1 DEF Rivals
      <3>3. session[o].data \in excused' /\ l.data \in excused'
        BY <3>1, <3>2 DEF ExcuseOverlap
      <3>. QED BY <2>1, <3>3
    <2>4. CASE session[s].pc \in NumberedPc /\ Keeps(s, l)
      <3>1. /\ Uploading(s) /\ session[s].user = l.user /\ session[s].data = l.data
        BY <2>4 DEF Uploading, Keeps, NumberedPc
      <3>2. o \in Rivals(s) /\ s \in Rivals(o)
        BY <2>2, <3>1 DEF Rivals
      <3>3. Rivals(s) = {} \/ Rivals(o) = {}
        BY <1>1, <2>1, <2>2, <3>1 DEF LoneInv
      <3>. QED BY <3>2, <3>3
    <2>. QED BY <2>2, <2>3, <2>4, Continues
  <1>. QED BY <1>2, <1>3

LEMMA SettledGrows ==
    ASSUME NEW s \in Sessions, NEW l, Does(s, l), NEW a \in Settled'
    PROVE  a \in Settled \/ (Acks1(s, l) /\ a = AckOf(s) /\ session[s].data \notin excused)
  <1>1. a \in acked' /\ a.data \notin excused' /\ excused \subseteq excused'
    BY HistoriesGrow DEF Settled
  <1>2. CASE a \in acked
    BY <1>1, <1>2 DEF Settled
  <1>3. CASE a \notin acked
    <2>1. Acks1(s, l) /\ a = AckOf(s)
      BY <1>1, <1>3, HistoriesGrow DEF Acks1
    <2>. QED BY <1>1, <2>1 DEF AckOf
  <1>. QED BY <1>2, <1>3

LEMMA NewStep ==
    ASSUME TypeInv, AckedIntact, LoneInv, NewInv, NEW s \in Sessions, NEW l, Does(s, l),
           session'[s] = l, \A t \in Sessions \ {s} : session'[t] = session[t]
    PROVE  NewInv'
  <1> DEFINE old == session[s]
  <1> SUFFICES ASSUME NEW t \in Sessions, Uploading(t)', NEW a \in Settled',
                      a.user = session'[t].user
               PROVE  /\ session'[t].pc \in NumberedPc => session'[t].id # a.id
                      /\ session'[t].buf["name"] # Nothing => a.name # session'[t].buf["name"]
    BY DEF NewInv, SettledOf
  <1>1. CASE t # s
    <2>1. Uploading(t) /\ session'[t] = session[t]
      BY <1>1 DEF Uploading
    <2>2. CASE a \in Settled
      BY <2>1, <2>2 DEF NewInv, SettledOf
    <2>3. CASE a \notin Settled
      <3>1. Acks1(s, l) /\ a = AckOf(s) /\ old.data \notin excused
        BY <2>3, SettledGrows
      <3>2. Uploading(s) /\ a.user = old.user
        BY <3>1 DEF Uploading, Acks1, AckOf
      <3>3. t \in Rivals(s)
        BY <1>1, <2>1, <3>2 DEF Rivals
      <3>. QED BY <3>1, <3>2, <3>3 DEF LoneInv
    <2>. QED BY <2>2, <2>3
  <1>2. CASE t = s
    <2>1. l.pc \in UploadPc /\ ~ Acks1(s, l)
      BY <1>2 DEF Uploading, UploadPc, NumberedPc, Acks1
    <2>2. a \in Settled /\ a.user = l.user
      BY <1>2, <2>1, SettledGrows
    <2>3. CASE Accepts(s, l) \/ Chooses(s, l)
      <3>1. a.user = old.user /\ old.pc # "free" /\ l.user = old.user
        BY <2>2, <2>3 DEF Accepts, Chooses, Keeps
      <3>2. Holds(Tree(s), a.id, a.data) /\ (a.name # Nothing => BackupName(Tree(s), a.id) = a.name)
        BY <2>2, <3>1 DEF AckedIntact, Tree
      <3>3. a.data \in Data /\ a.id \in Nat \ {0}
        BY <2>2 DEF Settled, TypeInv, Acks
      <3>4. a.data # NoFile
        BY <3>3, TokensAssumption DEF TokensAssumption, Contents
      <3>5. a.id \in Listed(Tree(s))
        BY <3>2, <3>4 DEF Holds, Listed, BakFiles, Files
      <3>6. CASE Accepts(s, l)
        <4>1. /\ l.pc = "named" /\ l.buf["name"] = old.name /\ old.name \in Names
              /\ ~ NameExists(Tree(s), old.name)
          BY <3>6 DEF Accepts
        <4>2. BackupName(Tree(s), a.id) # old.name
          BY <3>5, <4>1 DEF NameExists
        <4>3. Nothing \notin Names
          BY TokensAssumption DEF TokensAssumption
        <4>. QED BY <1>2, <3>2, <4>1, <4>2, <4>3 DEF NumberedPc
      <3>7. CASE Chooses(s, l)
        <4>1. PICK n \in Nat : Listed(Tree(s)) = 1 .. n
          BY <3>1, TreeType DEF Dense
        <4>2. l.id = n + 1
          BY <3>7, <4>1, NextOfDense DEF Chooses
        <4>3. l.id # a.id
          BY <3>3, <3>5, <4>1, <4>2
        <4>4. CASE old.pc = "ready"
          BY <1>2, <3>7, <4>3, <4>4 DEF Chooses
        <4>5. CASE old.pc = "named"
          <5>1. old.buf["name"] # Nothing => a.name # old.buf["name"]
            BY <2>2, <3>1, <4>5 DEF NewInv, SettledOf, Uploading
          <5>. QED BY <1>2, <3>7, <4>3, <5>1 DEF Chooses
        <4>. QED BY <3>7, <4>4, <4>5 DEF Chooses
      <3>. QED BY <2>3, <3>6, <3>7
    <2>4. CASE old.pc \in NumberedPc /\ Keeps(s, l) /\ l.buf["name"] = old.buf["name"]
      <3>1. Uploading(s) /\ a \in SettledOf(old.user)
        BY <2>2, <2>4 DEF Uploading, NumberedPc, Keeps, SettledOf
      <3>. QED BY <1>2, <2>4, <3>1 DEF NewInv, Keeps
    <2>. QED BY <2>1, <2>3, <2>4, Continues
  <1>. QED BY <1>1, <1>2
\* What a session has saved is not touched by the others.
LEMMA SavedStep ==
    ASSUME TypeInv, LoneInv, SavedInv, NEW s \in Sessions, NEW l, Does(s, l),
           session'[s] = l, \A t \in Sessions \ {s} : session'[t] = session[t]
    PROVE  SavedInv'
  <1> DEFINE old == session[s]
  <1>0. LocalOK(old) /\ NumberOK(s) /\ DOMAIN store = Users
    BY DEF TypeInv
  <1>1. excused \subseteq excused'
    BY HistoriesGrow
  <1>2. ASSUME NEW t \in Sessions \ {s}, session'[t].pc \in {"save", "ack"},
               session'[t].data \notin excused', NEW f \in Before[session'[t].file],
               session'[t].buf[f] # Nothing
        PROVE  Tree(t)'[session'[t].id][f] = session'[t].buf[f]
    <2>1. session'[t] = session[t] /\ Uploading(t) /\ session[t].data \notin excused
      BY <1>1, <1>2 DEF Uploading
    <2>2. Tree(t)[session[t].id][f] = session[t].buf[f]
      BY <1>2, <2>1 DEF SavedInv
    <2>3. session[t].user \in Users /\ session[t].id \in DOMAIN Tree(t)
      BY <1>2, <2>1 DEF TypeInv, LocalOK, NumberOK, NumberedPc
    <2>4. ~ (old.pc = "save" /\ old.user = session[t].user)
      <3>1. Rivals(t) = {}
        BY <2>1 DEF LoneInv
      <3>. QED BY <3>1 DEF Rivals, Uploading
    <2>5. store'[session[t].user][session[t].id] = store[session[t].user][session[t].id]
      BY <2>3, <2>4, Harmless DEF Tree
    <2>. QED BY <2>1, <2>2, <2>5 DEF Tree
  <1>3. ASSUME l.pc \in {"save", "ack"}, l.data \notin excused',
               NEW f \in Before[l.file], l.buf[f] # Nothing
        PROVE  Tree(s)'[l.id][f] = l.buf[f]
    <2>1. CASE Completes(s, l)
      BY <1>3, <2>1 DEF Completes, Before
    <2>2. ASSUME old.pc = "save", Keeps(s, l), l.buf = old.buf
          PROVE  /\ old.user \in Users /\ old.id \in DOMAIN Tree(s) /\ old.file \in Files
                 /\ f \in Before[old.file] => Tree(s)[old.id][f] = l.buf[f]
                 /\ Tree(s)' = store'[old.user] /\ l.id = old.id
                 /\ IsTree(Tree(s))
      <3>1. old.data \notin excused
        BY <1>1, <1>3, <2>2 DEF Keeps
      <3>2. old.user \in Users /\ old.id \in DOMAIN Tree(s) /\ old.file \in Files
        BY <1>0, <2>2 DEF LocalOK, NumberOK, NumberedPc
      <3>3. f \in Before[old.file] => Tree(s)[old.id][f] = l.buf[f]
        BY <1>3, <2>2, <3>1 DEF SavedInv
      <3>4. Tree(s)' = store'[old.user] /\ l.id = old.id
        BY <2>2 DEF Tree, Keeps
      <3>5. IsTree(Tree(s))
        BY <3>2 DEF TypeInv, Tree
      <3>. QED BY <3>2, <3>3, <3>4, <3>5
    <2>3. ASSUME Turns(s, l) PROVE f = old.file \/ f \in Before[old.file]
      <3>1. l.file = FileAfter[old.file] /\ old.file \in Files
        BY <1>0, <2>3 DEF Turns, LocalOK
      <3>. QED BY <1>3, <3>1, FileAfterType DEF Before, Files, BakFiles
    <2>4. CASE Skips(s, l)
      <3>1. f \in Before[old.file] /\ store' = store
        BY <1>3, <2>3, <2>4 DEF Skips, Turns
      <3>. QED BY <2>2, <2>4, <3>1 DEF Skips, Turns, Tree
    <2>5. CASE Opens(s, l)
      <3>1. store' = [store EXCEPT ![old.user] = [Tree(s) EXCEPT ![old.id][old.file] = Torn]]
        BY <2>5 DEF Opens, OpenOf, OpenFile
      <3>2. Keeps(s, l) /\ l.buf = old.buf /\ old.pc = "save" /\ l.file = old.file
        BY <2>5 DEF Opens
      <3>3. f \in Before[old.file] /\ f # old.file
        BY <1>3, <2>2, <3>2 DEF Before, Files, BakFiles
      <3>4. Tree(s)' = [Tree(s) EXCEPT ![old.id][old.file] = Torn]
        BY <1>0, <2>2, <3>1, <3>2
      <3>. QED BY <2>2, <3>2, <3>3, <3>4
    <2>6. CASE Writes(s, l)
      <3>1. store' = [store EXCEPT ![old.user] = WriteOf(s)]
        BY <2>6 DEF Writes
      <3>2. Keeps(s, l) /\ l.buf = old.buf /\ old.pc = "save" /\ Turns(s, l)
        BY <2>6 DEF Writes, Turns
      <3>3. Tree(s)' = [Tree(s) EXCEPT ![old.id][old.file] = old.buf[old.file]]
        BY <1>0, <2>2, <3>1, <3>2 DEF WriteOf, WriteFile
      <3>4. Tree(s)[old.id] \in [Files -> FileState]
        BY <2>2, <3>2 DEF IsTree
      <3>. QED BY <2>2, <2>3, <3>2, <3>3, <3>4
    <2>7. CASE Fails(s, l)
      BY <1>3, <2>7 DEF Fails, Turns, Keeps
    <2>. QED BY <1>3, <2>1, <2>4, <2>5, <2>6, <2>7
             DEF Does, Arrives, Idles, Accepts, Chooses, Makes, Receives, Acks1, UploadPc, NumberedPc
  <1>. QED BY <1>2, <1>3 DEF SavedInv

\* What is settled stays; what is newly settled is in the tree.
LEMMA IntactStep ==
    ASSUME TypeInv, SavedInv, NewInv, AckedIntact, NEW s \in Sessions, StreamOK(session[s]),
           NEW l, Does(s, l)
    PROVE  AckedIntact'
  <1> DEFINE old == session[s]
  <1> SUFFICES ASSUME NEW a \in Settled'
               PROVE  /\ Holds(store'[a.user], a.id, a.data)
                      /\ a.name # Nothing => BackupName(store'[a.user], a.id) = a.name
    BY DEF AckedIntact
  <1>1. CASE a \in Settled
    <2>1. /\ Holds(store[a.user], a.id, a.data)
          /\ a.name # Nothing => BackupName(store[a.user], a.id) = a.name
      BY <1>1 DEF AckedIntact
    <2>2. a.user \in Users /\ a.id \in DOMAIN store[a.user]
      BY <1>1, <2>1 DEF Settled, TypeInv, Acks, Holds
    <2>3. ~ (old.pc = "save" /\ old.user = a.user /\ old.id = a.id)
      BY <1>1 DEF NewInv, SettledOf, Uploading, NumberedPc
    <2>4. a.id \in DOMAIN store'[a.user] /\ store'[a.user][a.id] = store[a.user][a.id]
      BY <2>2, <2>3, Harmless
    <2>. QED BY <2>1, <2>2, <2>4 DEF Holds, BackupName, Load
  <1>2. CASE a \notin Settled
    <2>1. Acks1(s, l) /\ a = AckOf(s) /\ old.data \notin excused
      BY <1>2, SettledGrows
    <2>2. /\ old.pc = "ack" /\ store' = store
          /\ a.user = old.user /\ a.id = old.id /\ a.data = old.data /\ a.name = old.buf["name"]
      BY <2>1 DEF Acks1, AckOf
    <2>3. old.file = "end" /\ \A f \in BakFiles : old.buf[f] = old.data
      BY <2>2 DEF StreamOK
    <2>4. \A f \in Files : old.buf[f] # Nothing => Tree(s)[old.id][f] = old.buf[f]
      BY <2>1, <2>2, <2>3 DEF SavedInv, Before
    <2>5. old.id \in DOMAIN Tree(s) /\ old.data \in Data /\ old.buf["name"] \in Names \cup {Nothing}
      BY <2>2 DEF TypeInv, NumberOK, LocalOK, NumberedPc, UploadPc
    <2>6. old.data # Nothing /\ Names \cap {NoFile, Torn} = {}
      BY <2>5, TokensAssumption DEF TokensAssumption, Contents
    <2>7. \A f \in BakFiles : Tree(s)[old.id][f] = old.data
      BY <2>3, <2>4, <2>6 DEF BakFiles
    <2>8. old.buf["name"] # Nothing =>
              Tree(s)[old.id]["name"] = old.buf["name"] /\ old.buf["name"] \notin {NoFile, Torn}
      BY <2>4, <2>5, <2>6 DEF Files
    <2>. QED BY <2>2, <2>5, <2>7, <2>8 DEF Holds, BackupName, Load, Tree
  <1>. QED BY <1>1, <1>2

-----------------------------------------------------------------------------
(* The theorems *)

LEMMA InitDurable == Init => DurableInv
  <1> SUFFICES ASSUME Init PROVE DurableInv
    OBVIOUS
  <1>1. \A s \in Sessions : session[s] = Free /\ ~ Uploading(s) /\ ~ Carries(s)
    BY FreeType DEF Init, Uploading, Carries, UploadMessages
  <1>2. \A s \in Sessions : StreamOK(session[s]) /\ session[s].pc = "free"
    BY <1>1, FreeType DEF StreamOK
  <1>3. acked = {} /\ Settled = {}
    BY DEF Init, Settled
  <1>. QED BY <1>1, <1>2, <1>3, InitTypeInv
           DEF DurableInv, DataInv, LoneInv, SavedInv, NewInv, AckedIntact, SettledOf

LEMMA NextDurable == DurableInv /\ [Next]_vars => DurableInv'
  <1> SUFFICES ASSUME DurableInv, [Next]_vars PROVE DurableInv'
    OBVIOUS
  <1>0. TypeInv' /\ TypeInv
    BY NextTypeInv DEF DurableInv
  <1>1. CASE Next
    <2>1. PICK s \in Sessions : StepOf(s)
      BY <1>1 DEF Next, StepOf
    <2>2. PICK l : Update(s, l)
      BY <1>0, <2>1, StepUpdates DEF StepOf
    <2>3. /\ session'[s] = l
          /\ \A t \in Sessions \ {s} : session'[t] = session[t]
      BY <1>0, <2>1, <2>2, LocalStep, UpdateType DEF StepOf, TypeInv
    <2>4. StreamOK(session[s])
      BY DEF DurableInv
    <2>5. Does(s, l)
      BY <1>0, <2>1, <2>2, <2>4, StepDoes
    <2>6. \A t \in Sessions : StreamOK(session[t])'
      BY <2>3, <2>4, <2>5, StreamStep DEF DurableInv, StreamOK
    <2>7. DataInv'
      BY <1>0, <2>3, <2>5, DataStep DEF DurableInv
    <2>8. LoneInv'
      BY <2>3, <2>5, LoneStep DEF DurableInv
    <2>9. NewInv'
      BY <1>0, <2>3, <2>5, NewStep DEF DurableInv
    <2>10. SavedInv'
      BY <1>0, <2>3, <2>5, SavedStep DEF DurableInv
    <2>11. AckedIntact'
      BY <1>0, <2>4, <2>5, IntactStep DEF DurableInv
    <2>. QED BY <1>0, <2>6, <2>7, <2>8, <2>9, <2>10, <2>11 DEF DurableInv
  <1>2. CASE UNCHANGED vars
    BY <1>0, <1>2
    DEF DurableInv, vars, StreamOK, DataInv, LoneInv, SavedInv, NewInv, AckedIntact,
        Carries, Uploading, Rivals, Settled, SettledOf, Tree, Holds
  <1>. QED BY <1>1, <1>2

\* An acknowledged upload stays in the storage, whole, under its ID and name, for
\* any number of users, sessions and uploads, wherever processes are killed and
\* whichever writes the disk refuses, unless the upload overlapped another one
\* of its user or the disk refused one of its own writes.
THEOREM UploadsKept == Spec => []AckedIntact
  <1>1. DurableInv => AckedIntact
    BY DEF DurableInv
  <1>. QED BY <1>1, InitDurable, NextDurable, PTL DEF Spec
\* An acknowledgement is settled for ever or never.
LEMMA SettledStays ==
    ASSUME DataInv, NEW s \in Sessions, NEW l, Does(s, l)
    PROVE  Settled \subseteq Settled'
  <1> SUFFICES ASSUME NEW a \in Settled PROVE a.data \notin excused'
    <2>1. acked \subseteq acked'
      BY HistoriesGrow DEF Acks1
    <2>. QED BY <2>1 DEF Settled
  <1>1. a \in acked /\ a.data \notin excused
    BY DEF Settled
  <1>2. \A t \in Sessions : Carries(t) => session[t].data # a.data
    BY <1>1 DEF DataInv
  <1>3. ASSUME ExcuseOverlap(s), Carries(s) PROVE a.data \notin excused'
    <2>1. \A t \in Rivals(s) \cup {s} : session[t].data # a.data
      BY <1>2, <1>3 DEF Rivals, Carries
    <2>. QED BY <1>1, <1>3, <2>1 DEF ExcuseOverlap
  <1>4. CASE Accepts(s, l) \/ Chooses(s, l)
    <2>1. Carries(s) /\ ExcuseOverlap(s)
      BY <1>4 DEF Accepts, Chooses, Carries, UploadMessages
    <2>. QED BY <1>3, <2>1
  <1>5. CASE Fails(s, l)
    <2>1. session[s].data # a.data /\ excused' = excused \cup {session[s].data}
      BY <1>2, <1>5 DEF Fails, Turns, Carries, Uploading
    <2>. QED BY <1>1, <2>1
  <1>. QED BY <1>1, <1>4, <1>5
           DEF Does, Arrives, Idles, Makes, Receives, Completes, Turns, Skips, Opens, Writes, Acks1

Entry(a) == [user |-> a.user, id |-> a.id, name |-> a.name, data |-> a.data]

Entered == {Entry(a) : a \in Settled}

\* The settled uploads of the server are a catalog that only grows, by entries
\* with a new ID, new contents and a new name: ServerSession implements
\* BackupCatalog.
THEOREM RefinesCatalog == Spec => ImplementsCatalog
  <1>1. Init => Catalog!Init
    BY DEF Init, Catalog!Init, Settled
  <1>2. DurableInv /\ DurableInv' /\ [Next]_vars => [Catalog!Next]_Entered
    <2> SUFFICES ASSUME DurableInv, DurableInv', Next, Entered' # Entered
                 PROVE  Catalog!Enter
      <3>1. CASE UNCHANGED vars
        BY <3>1 DEF vars, Entered, Settled, Entry
      <3>. QED BY <3>1 DEF Catalog!Next
    <2>0. TypeInv /\ TypeInv' /\ DataInv /\ NewInv
      BY DEF DurableInv
    <2>1. PICK s \in Sessions : StepOf(s)
      BY DEF Next, StepOf
    <2>2. PICK l : Update(s, l)
      BY <2>0, <2>1, StepUpdates DEF StepOf
    <2>3. Does(s, l)
      BY <2>0, <2>1, <2>2, StepDoes DEF DurableInv
    <2>4. Settled \subseteq Settled'
      BY <2>0, <2>3, SettledStays
    <2>5. PICK new \in Settled' : new \notin Settled
      BY <2>4 DEF Entered, Entry
    <2>6. /\ Acks1(s, l) /\ new = AckOf(s) /\ session[s].data \notin excused
          /\ Settled' = Settled \cup {new}
      BY <2>3, <2>4, <2>5, SettledGrows
    <2>7. Entered' = Entered \cup {Entry(new)}
      BY <2>6 DEF Entered, Entry
    <2>8. Entry(new) \in Catalog!Entries
      <3>1. new \in Acks
        BY <2>0, <2>5 DEF Settled, TypeInv
      <3>. QED BY <3>1 DEF Acks, Entry, Catalog!Entries
    <2>9. ASSUME NEW a \in Settled
          PROVE  /\ a.data # new.data
                 /\ a.user = new.user => a.id # new.id
                 /\ a.user = new.user /\ new.name # Nothing => a.name # new.name
      <3>1. /\ session[s].pc = "ack" /\ new.user = session[s].user /\ new.id = session[s].id
            /\ new.data = session[s].data /\ new.name = session[s].buf["name"]
        BY <2>6 DEF Acks1, AckOf
      <3>2. Uploading(s) /\ Carries(s) /\ session[s].pc \in NumberedPc
        BY <3>1 DEF Uploading, Carries, NumberedPc
      <3>3. a.data # new.data
        BY <2>0, <3>1, <3>2 DEF DataInv, Settled
      <3>4. CASE a.user = new.user
        BY <2>0, <3>1, <3>2, <3>3, <3>4 DEF NewInv, SettledOf
      <3>. QED BY <3>3, <3>4
    <2>10. \A e \in Entered :
              /\ e.data # Entry(new).data
              /\ e.user = Entry(new).user => e.id # Entry(new).id
              /\ e.user = Entry(new).user /\ Entry(new).name # Nothing => e.name # Entry(new).name
      BY <2>9 DEF Entered, Entry
    <2>11. Catalog!New(Entry(new))
      BY <2>10 DEF Catalog!New, Entered, Entry
    <2>12. Entry(new) \in Entered'
      BY <2>7
    <2>. QED BY <2>7, <2>8, <2>11, <2>12 DEF Catalog!Enter, Entered, Entry
  <1>3. [Catalog!Next]_Entered =>
          [Catalog!Next]_({[user |-> a.user, id |-> a.id, name |-> a.name, data |-> a.data] :
                              a \in Settled})
    BY DEF Entered, Entry
  <1>. QED BY <1>1, <1>2, <1>3, InitDurable, NextDurable, PTL
           DEF Spec, ImplementsCatalog, Catalog!Spec
-----------------------------------------------------------------------------
(* What a restore sends *)

\* Until the answer is sent, what is loaded so far belongs to the wanted backup.
RestoreOK(l) ==
    /\ l.next \in {"RESTORE_REQUEST", "BACKUP_LIST_REQUEST"} => l.want = {} /\ l.reply = NoReply
    /\ l.pc \in UploadPc \/ l.next \in UploadMessages => l.want = {}
    /\ \A a \in l.want :
         /\ l.pc = "load" =>
                a.user = l.user /\ a.id = l.id /\ \A f \in Before[l.file] : l.buf[f] = a.data
         /\ l.pc = "send" => \A f \in BakFiles : l.buf[f] = a.data
         /\ IF l.pc \in {"load", "send"} THEN l.reply = NoReply
            ELSE l.reply.kind \in {"bak", "error"} =>
                     l.reply = [kind |-> "bak", files |-> [f \in BakFiles |-> a.data]]

RestoreInv == \A s \in Sessions : RestoreOK(session[s]) /\ session[s].want \subseteq Settled

LEMMA RestoreStep ==
    ASSUME TypeInv, AckedIntact, NEW s \in Sessions, StreamOK(session[s]),
           RestoreOK(session[s]), session[s].want \subseteq Settled,
           NEW l, Update(s, l), StepOf(s)
    PROVE  RestoreOK(l) /\ l.want \subseteq Settled
  <1> DEFINE old == session[s]
  <1>0. LocalOK(old) /\ old \in SessionState /\ DOMAIN session = Sessions
    BY DEF TypeInv, LocalOK
  <1>1. ASSUME l.want = {}, l.next \in {"RESTORE_REQUEST", "BACKUP_LIST_REQUEST"} => l.reply = NoReply
        PROVE  RestoreOK(l) /\ l.want \subseteq Settled
    BY <1>1 DEF RestoreOK
  <1>2. CASE Connect(s)
    <2>1. CASE ConnectToBackup(s)
      <3>1. PICK u \in Users, d \in Data \ used, n \in Names \cup {Nothing} :
              l = [Arrive(u, IF n = Nothing THEN "PAYLOAD" ELSE "BACKUP_START")
                     EXCEPT !.data = d, !.name = n]
        BY <1>0, <2>1 DEF ConnectToBackup, Update
      <3>2. PICK m \in {"PAYLOAD", "BACKUP_START"} :
              l = [Free EXCEPT !.pc = "ready", !.user = u, !.next = m, !.data = d, !.name = n]
        BY <3>1 DEF Arrive, Free
      <3>3. l.want = {} /\ l.next = m
        BY <3>2 DEF Free
      <3>. QED BY <1>1, <3>3
    <2>2. CASE ConnectToRestore(s)
      <3>1. PICK u \in Users, i \in AskIds \cup {Nothing} :
              l = [Arrive(u, "RESTORE_REQUEST") EXCEPT !.id = i]
        BY <1>0, <2>2 DEF ConnectToRestore, Update
      <3>2. l.want = {} /\ l.reply = NoReply
        BY <3>1 DEF Arrive, Free
      <3>. QED BY <1>1, <3>2
    <2>3. CASE ConnectToList(s)
      <3>1. PICK u \in Users : l = Arrive(u, "BACKUP_LIST_REQUEST")
        BY <1>0, <2>3 DEF ConnectToList, Update
      <3>2. l.want = {} /\ l.reply = NoReply
        BY <3>1 DEF Arrive, Free
      <3>. QED BY <1>1, <3>2
    <2>. QED BY <1>2, <2>1, <2>2, <2>3 DEF Connect
  <1>3. CASE Disconnect(s) \/ Kill(s) \/ CrashOnTornMetadata(s)
    <2>1. l = Free
      BY <1>0, <1>3 DEF Disconnect, Kill, CrashOnTornMetadata, Update
    <2>2. l.want = {} /\ l.reply = NoReply
      BY <2>1 DEF Free
    <2>. QED BY <1>1, <2>2
  <1>4. CASE Acknowledge(s)
    <2>1. l = [Free EXCEPT !.pc = "ready", !.user = old.user, !.next = old.next,
                           !.data = old.data, !.reply = [kind |-> "ack", id |-> old.id]]
      BY <1>0, <1>4 DEF Acknowledge, Update
    <2>2. l.want = {} /\ l.next = old.next /\ old.next = "EOF"
      BY <1>4, <2>1 DEF Free, Acknowledge, StreamOK
    <2>. QED BY <1>1, <2>2
  <1>5. CASE RejectName(s) \/ AcceptName(s) \/ ChooseNumber(s) \/ MakeBackupDir(s)
             \/ ReceiveFileData(s) \/ ReceiveComplete(s) \/ SkipFile(s) \/ OpenForSave(s)
             \/ WriteAndClose(s) \/ SaveFails(s)
    <2>1. old.want = {}
      BY <1>5 DEF RestoreOK, UploadPc, NumberedPc, UploadMessages, RejectName, AcceptName,
           ChooseNumber, MakeBackupDir, ReceiveFileData, ReceiveComplete, SkipFile,
           OpenForSave, WriteAndClose, SaveFails
    <2>2. old.next \in {"BACKUP_START", "PAYLOAD", "METADATA", "BACKUP_COMPLETE", "EOF"}
      BY <1>5 DEF StreamOK, RejectName, AcceptName,
           ChooseNumber, MakeBackupDir, ReceiveFileData, ReceiveComplete, SkipFile,
           OpenForSave, WriteAndClose, SaveFails
    <2>3. l.want = old.want /\ l.next \in {old.next, Following[old.next]}
      <3>1. CASE RejectName(s)
        <4>1. l = [old EXCEPT !.next = Following[@],
                              !.reply = [kind |-> "error", code |-> "NAME_EXISTS"]]
          BY <1>0, <3>1 DEF RejectName, Update
        <4>. QED BY <1>0, <4>1 DEF SessionState
      <3>2. CASE AcceptName(s)
        <4>1. l = [old EXCEPT !.pc = "named", !.next = Following[@], !.buf["name"] = old.name]
          BY <1>0, <3>2 DEF AcceptName, Update
        <4>. QED BY <1>0, <4>1 DEF SessionState
      <3>3. CASE ChooseNumber(s)
        <4>1. l = [old EXCEPT !.pc = "mkdir", !.id = NextNumber(Tree(s))]
          BY <1>0, <3>3 DEF ChooseNumber, Update
        <4>. QED BY <1>0, <4>1 DEF SessionState
      <3>4. CASE MakeBackupDir(s)
        <4>1. l = [old EXCEPT !.pc = "receive"]
          BY <1>0, <3>4 DEF MakeBackupDir, Update
        <4>. QED BY <1>0, <4>1 DEF SessionState
      <3>5. CASE ReceiveFileData(s)
        <4>1. l = [old EXCEPT !.buf = Received(s), !.next = Following[@]]
          BY <1>0, <3>5 DEF ReceiveFileData, Update
        <4>. QED BY <1>0, <4>1 DEF SessionState
      <3>6. CASE ReceiveComplete(s)
        <4>1. l = [old EXCEPT !.pc = "save", !.file = "header", !.next = Following[@]]
          BY <1>0, <3>6 DEF ReceiveComplete, Update
        <4>. QED BY <1>0, <4>1 DEF SessionState
      <3>7. CASE SkipFile(s) \/ WriteAndClose(s) \/ SaveFails(s)
        <4>1. l = NextFile(old)
          BY <1>0, <3>7 DEF SkipFile, WriteAndClose, SaveFails, Update
        <4>. QED BY <1>0, <4>1 DEF SessionState, NextFile
      <3>8. CASE OpenForSave(s)
        <4>1. l = [old EXCEPT !.opened = TRUE]
          BY <1>0, <3>8 DEF OpenForSave, Update
        <4>. QED BY <1>0, <4>1 DEF SessionState
      <3>. QED BY <1>5, <3>1, <3>2, <3>3, <3>4, <3>5, <3>6, <3>7, <3>8
    <2>4. l.next \notin {"RESTORE_REQUEST", "BACKUP_LIST_REQUEST"}
      BY <2>2, <2>3 DEF Following
    <2>. QED BY <1>1, <2>1, <2>3, <2>4
  <1>6. CASE RestoreNothing(s)
    <2>1. l = [old EXCEPT !.next = Following[@], !.reply = NotFound]
      BY <1>0, <1>6 DEF RestoreNothing, Update
    <2>2. l.want = old.want /\ old.want = {} /\ l.next = "EOF"
      BY <1>0, <1>6, <2>1, FollowingType DEF RestoreNothing, SessionState, RestoreOK
    <2>. QED BY <1>1, <2>2
  <1>7. CASE BeginRestore(s)
    <2>1. PICK i \in AskIds \cup Listed(Tree(s)) :
            l = [old EXCEPT !.pc = "load", !.next = Following[@], !.id = i, !.file = "header",
                            !.want = {a \in SettledOf(old.user) : a.id = i}]
      BY <1>0, <1>7 DEF BeginRestore, Update
    <2>2. /\ l.pc = "load" /\ l.next = "EOF" /\ l.id = i /\ l.file = "header"
          /\ l.want = {a \in SettledOf(old.user) : a.id = i}
          /\ l.user = old.user /\ l.reply = old.reply /\ old.reply = NoReply
      BY <1>0, <1>7, <2>1, FollowingType DEF BeginRestore, SessionState, RestoreOK
    <2>3. Before["header"] = {}
      BY DEF Before
    <2>. QED BY <2>2, <2>3 DEF RestoreOK, SettledOf, UploadPc, NumberedPc, UploadMessages
  <1>8. CASE LoadNext(s)
    <2> DEFINE v == Load(Tree(s), old.id, old.file)
               p == IF FileAfter[old.file] = "name" THEN "send" ELSE "load"
    <2>1. l = [old EXCEPT !.buf[old.file] = v, !.file = FileAfter[@], !.pc = p]
      BY <1>0, <1>8 DEF LoadNext, Update
    <2>2. old.pc = "load" /\ old.file \in BakFiles /\ old.user \in Users /\ old.next = "EOF"
      BY <1>0, <1>8 DEF LoadNext, LocalOK, StreamOK
    <2> HIDE DEF v, p
    <2>3. /\ l.buf = [old.buf EXCEPT ![old.file] = v] /\ l.file = FileAfter[old.file]
          /\ l.pc = p /\ l.want = old.want /\ l.id = old.id /\ l.user = old.user
          /\ l.reply = old.reply /\ l.next = old.next
      BY <1>0, <2>1 DEF SessionState
    <2>4. old.buf \in [Files -> FileState \cup {Nothing}]
      BY <1>0 DEF SessionState
    <2>5. ASSUME NEW a \in old.want
          PROVE  /\ a.user = old.user /\ a.id = old.id /\ old.reply = NoReply
                 /\ \A f \in Before[old.file] : old.buf[f] = a.data
                 /\ v = a.data
      <3>1. /\ a.user = old.user /\ a.id = old.id /\ old.reply = NoReply
            /\ \A f \in Before[old.file] : old.buf[f] = a.data
        BY <2>2, <2>5 DEF RestoreOK
      <3>2. a \in Settled /\ a.data \in Data
        BY <2>5 DEF Settled, TypeInv, Acks
      <3>3. Holds(Tree(s), a.id, a.data)
        BY <3>1, <3>2 DEF AckedIntact, Tree
      <3>4. a.data \notin {NoFile, Torn}
        BY <3>2, TokensAssumption DEF TokensAssumption, Contents
      <3>5. v = a.data
        BY <2>2, <3>1, <3>3, <3>4 DEF v, Load, Holds
      <3>. QED BY <3>1, <3>5
    <2>6. ASSUME NEW a \in old.want
          PROVE  /\ p = "load" => \A f \in Before[l.file] : l.buf[f] = a.data
                 /\ p = "send" => \A f \in BakFiles : l.buf[f] = a.data
      <3>1. \A f \in Before[old.file] \cup {old.file} : l.buf[f] = a.data
        BY <2>2, <2>3, <2>4, <2>5 DEF Before, BakFiles, Files
      <3>2. CASE old.file = "metadata"
        BY <3>1, <3>2, FileAfterType DEF p, Before, BakFiles, Files
      <3>3. CASE old.file \in {"header", "payload"}
        BY <2>3, <3>1, <3>3, FileAfterType DEF p, Before, BakFiles, Files
      <3>. QED BY <2>2, <3>2, <3>3 DEF BakFiles, Files
    <2>7. p \in {"load", "send"}
      BY DEF p
    <2>. QED BY <2>2, <2>3, <2>5, <2>6, <2>7 DEF RestoreOK, UploadPc, NumberedPc, UploadMessages
  <1>9. CASE SendRestored(s)
    <2>1. l = [Free EXCEPT !.pc = "ready", !.user = old.user, !.id = old.id,
                           !.want = old.want, !.reply = Loaded(s)]
      BY <1>0, <1>9 DEF SendRestored, Update
    <2>2. l.pc = "ready" /\ l.next = "EOF" /\ l.want = old.want /\ l.reply = Loaded(s)
      BY <2>1 DEF Free
    <2>3. ASSUME NEW a \in old.want
          PROVE  Loaded(s) = [kind |-> "bak", files |-> [f \in BakFiles |-> a.data]]
      <3>1. \A f \in BakFiles : old.buf[f] = a.data
        BY <1>9, <2>3 DEF SendRestored, RestoreOK
      <3>2. a.data \in Data
        BY <2>3 DEF Settled, TypeInv, Acks
      <3>3. a.data # Nothing
        BY <3>2, TokensAssumption DEF TokensAssumption, Contents
      <3>4. old.buf["header"] # Nothing
        BY <3>1, <3>3 DEF BakFiles, Files
      <3>. QED BY <3>1, <3>4 DEF Loaded
    <2>. QED BY <2>2, <2>3 DEF RestoreOK, UploadPc, NumberedPc, UploadMessages
  <1>10. CASE BeginList(s)
    <2>1. l = [old EXCEPT !.pc = "names", !.next = Following[@], !.want = SettledOf(old.user),
                          !.reply = [kind |-> "ids", ids |-> Listed(Tree(s))]]
      BY <1>0, <1>10 DEF BeginList, Update
    <2>2. l.pc = "names" /\ l.next = "EOF" /\ l.want = SettledOf(old.user) /\ l.reply.kind = "ids"
      BY <1>0, <1>10, <2>1, FollowingType DEF BeginList, SessionState
    <2>. QED BY <2>2 DEF RestoreOK, SettledOf, UploadPc, NumberedPc, UploadMessages
  <1>11. CASE SendList(s)
    <2>1. l = [old EXCEPT !.pc = "ready",
                     !.reply = [kind |-> "list",
                                names |-> {[id |-> i, name |-> BackupName(Tree(s), i)] :
                                              i \in old.reply.ids}]]
      BY <1>0, <1>11 DEF SendList, Update
    <2>2. l.pc = "ready" /\ l.next = "EOF" /\ l.want = old.want /\ l.reply.kind = "list"
      BY <1>0, <1>11, <2>1 DEF SendList, SessionState, StreamOK
    <2>. QED BY <2>2 DEF RestoreOK, UploadPc, NumberedPc, UploadMessages
  <1>. QED BY <1>2, <1>3, <1>4, <1>5, <1>6, <1>7, <1>8, <1>9, <1>10, <1>11 DEF StepOf, Handle

LEMMA InitRestore == Init => RestoreInv
  <1> SUFFICES ASSUME Init, NEW s \in Sessions
               PROVE  RestoreOK(session[s]) /\ session[s].want \subseteq Settled
    BY DEF RestoreInv
  <1>1. session[s].want = {} /\ session[s].reply = NoReply
    BY DEF Init, Free
  <1>. QED BY <1>1 DEF RestoreOK

LEMMA NextRestore == DurableInv /\ RestoreInv /\ [Next]_vars => RestoreInv'
  <1> SUFFICES ASSUME DurableInv, RestoreInv, [Next]_vars PROVE RestoreInv'
    OBVIOUS
  <1>1. CASE Next
    <2>0. TypeInv /\ DataInv /\ AckedIntact
      BY DEF DurableInv
    <2>1. PICK s \in Sessions : StepOf(s)
      BY <1>1 DEF Next, StepOf
    <2>2. PICK l : Update(s, l)
      BY <2>0, <2>1, StepUpdates DEF StepOf
    <2>3. /\ session'[s] = l
          /\ \A t \in Sessions \ {s} : session'[t] = session[t]
      BY <2>0, <2>1, <2>2, LocalStep, UpdateType DEF StepOf, TypeInv
    <2>4. StreamOK(session[s])
      BY DEF DurableInv
    <2>5. Settled \subseteq Settled'
      <3>1. Does(s, l)
        BY <2>0, <2>1, <2>2, <2>4, StepDoes
      <3>. QED BY <2>0, <3>1, SettledStays
    <2>6. RestoreOK(l) /\ l.want \subseteq Settled
      BY <2>0, <2>1, <2>2, <2>4, RestoreStep DEF RestoreInv
    <2>. QED BY <2>3, <2>5, <2>6 DEF RestoreInv, RestoreOK
  <1>2. CASE UNCHANGED vars
    BY <1>2 DEF vars, RestoreInv, RestoreOK, Settled
  <1>. QED BY <1>1, <1>2

\* What a restore sends for a backup that was settled when it began is that
\* backup, read in three steps between the steps of any number of uploads.
THEOREM RestoresExact == Spec => []RestoreExact
  <1>1. RestoreInv => RestoreExact
    <2> SUFFICES ASSUME RestoreInv, NEW s \in Sessions, NEW a \in session[s].want,
                        session[s].reply.kind \in {"bak", "error"}
                 PROVE  session[s].reply = [kind |-> "bak", files |-> [f \in BakFiles |-> a.data]]
      BY DEF RestoreExact
    <2>1. RestoreOK(session[s])
      BY DEF RestoreInv
    <2>2. NoReply.kind = "none"
      BY DEF NoReply
    <2>3. session[s].pc \notin {"load", "send"}
      BY <2>1, <2>2 DEF RestoreOK
    <2>. QED BY <2>1, <2>3 DEF RestoreOK
  <1>. QED BY <1>1, InitDurable, NextDurable, InitRestore, NextRestore, PTL DEF Spec

-----------------------------------------------------------------------------
(* Names, on a disk that refuses no open: an open of header.bin that fails leaves *)
(* a directory that is not listed, in which later files may be saved              *)

\* A directory without a header has no name either, and header.bin is the first file
\* an upload has in its directory.
HeaderFirst ==
    /\ \A u \in Users : \A i \in DOMAIN store[u] :
           store[u][i]["header"] = NoFile => store[u][i]["name"] = NoFile
    /\ \A s \in Sessions : session[s].pc = "save" =>
           /\ session[s].opened => Tree(s)[session[s].id][session[s].file] # NoFile
           /\ session[s].file # "header" => Tree(s)[session[s].id]["header"] # NoFile

\* A file that is there stays, and only a save or a mkdir of s changes a tree.
LEMMA FilesStay ==
    ASSUME TypeInv, NEW s \in Sessions, NEW l, Does(s, l), NEW u \in Users
    PROVE  /\ ~ (Uploading(s) /\ session[s].user = u) => store'[u] = store[u]
           /\ \A i \in DOMAIN store[u] : i \in DOMAIN store'[u] /\ \A f \in Files :
                  store[u][i][f] # NoFile => store'[u][i][f] # NoFile
           /\ \A i \in DOMAIN store'[u] \ DOMAIN store[u] : store'[u][i] = EmptyDir
  <1> DEFINE old == session[s]
  <1>1. DOMAIN store = Users /\ IsTree(store[u]) /\ LocalOK(old) /\ BufferOK(old) /\ NumberOK(s)
    BY DEF TypeInv
  <1>2. CASE UNCHANGED store
    BY <1>2
  <1>3. CASE Makes(s, l)
    <2>1. store' = [store EXCEPT ![old.user] = MakeDir(Tree(s), old.id)] /\ Uploading(s)
      BY <1>3 DEF Makes, Uploading
    <2>2. CASE old.user = u
      <3>1. store'[u] = MakeDir(store[u], old.id)
        BY <1>1, <2>1, <2>2 DEF Tree
      <3>. QED BY <2>1, <2>2, <3>1 DEF MakeDir
    <2>. QED BY <1>1, <2>1, <2>2
  <1>4. ASSUME NEW v \in FileState \ {NoFile}, old.pc = "save",
               store' = [store EXCEPT ![old.user] = WriteFile(Tree(s), old.id, old.file, v)]
        PROVE  /\ ~ (Uploading(s) /\ session[s].user = u) => store'[u] = store[u]
               /\ DOMAIN store'[u] = DOMAIN store[u]
               /\ \A i \in DOMAIN store[u], f \in Files :
                      store[u][i][f] # NoFile => store'[u][i][f] # NoFile
    <2>1. CASE old.user = u
      <3>1. store'[u] = WriteFile(store[u], old.id, old.file, v) /\ Uploading(s)
        BY <1>1, <1>4, <2>1 DEF Tree, Uploading
      <3>2. old.id \in DOMAIN store[u] /\ old.file \in Files
        BY <1>1, <1>4, <2>1 DEF NumberOK, NumberedPc, LocalOK, Tree
      <3>. QED BY <1>1, <2>1, <3>1, <3>2, WriteTree
    <2>2. CASE old.user # u
      BY <1>1, <1>4, <2>2
    <2>. QED BY <2>1, <2>2
  <1>5. CASE Opens(s, l)
    <2>1. Torn \in FileState \ {NoFile}
      BY TokensAssumption DEF TokensAssumption, FileState
    <2>. QED BY <1>4, <1>5, <2>1 DEF Opens, OpenOf, OpenFile, WriteFile
  <1>6. CASE Writes(s, l)
    <2>1. old.buf[old.file] \in Contents \cup Names
      BY <1>1, <1>6 DEF Writes, Turns, BufferOK, LocalOK
    <2>2. old.buf[old.file] \in FileState \ {NoFile}
      BY <2>1, TokensAssumption DEF TokensAssumption, FileState
    <2>. QED BY <1>4, <1>6, <2>2 DEF Writes, Turns, WriteOf
  <1>. QED BY <1>2, <1>3, <1>5, <1>6 DEF Does, Arrives, Idles, Accepts, Chooses, Receives,
                                        Completes, Skips, Fails, Acks1

\* What a save leaves of its directory.
LEMMA SavedFile ==
    ASSUME TypeInv, NEW s \in Sessions, session[s].pc = "save",
           NEW v \in FileState \ {NoFile},
           store' = [store EXCEPT ![session[s].user] =
                         WriteFile(Tree(s), session[s].id, session[s].file, v)]
    PROVE  /\ \A u \in Users : DOMAIN store'[u] = DOMAIN store[u]
           /\ \A u \in Users : \A i \in DOMAIN store[u], f \in Files :
                  store'[u][i][f] = IF u = session[s].user /\ i = session[s].id /\ f = session[s].file
                                    THEN v ELSE store[u][i][f]
  <1> DEFINE old == session[s]
  <1>1. DOMAIN store = Users /\ LocalOK(old) /\ NumberOK(s) /\ old.user \in Users
    BY DEF TypeInv, LocalOK
  <1>2. old.id \in DOMAIN store[old.user] /\ old.file \in Files /\ IsTree(store[old.user])
    BY <1>1 DEF NumberOK, NumberedPc, LocalOK, Tree, TypeInv
  <1>3. store'[old.user] = WriteFile(store[old.user], old.id, old.file, v)
    BY <1>1 DEF Tree
  <1>4. \A u \in Users \ {old.user} : store'[u] = store[u]
    BY <1>1
  <1>. QED BY <1>2, <1>3, <1>4, WriteTree

LEMMA HeaderStep ==
    ASSUME "open" \notin Faults, TypeInv, HeaderFirst, NEW s \in Sessions,
           StreamOK(session[s]), StepOf(s), NEW l, Update(s, l), Does(s, l),
           session'[s] = l, \A t \in Sessions \ {s} : session'[t] = session[t]
    PROVE  HeaderFirst'
  <1> DEFINE old == session[s]
  <1>0. /\ LocalOK(old) /\ BufferOK(old) /\ NumberOK(s) /\ DOMAIN store = Users
        /\ old \in SessionState /\ DOMAIN session = Sessions
    BY DEF TypeInv, LocalOK
  <1>h. "header" \in Files /\ "name" \in Files
    BY DEF Files
  <1>d. ASSUME old.pc = "save"
        PROVE  /\ old.user \in Users /\ old.id \in DOMAIN store[old.user] /\ old.file \in Files
               /\ old.buf["header"] \in Data /\ Tree(s) = store[old.user]
    <2>1. old.data \in Data /\ old.buf["header"] = old.data
      BY <1>0, <1>d DEF LocalOK, StreamOK, UploadPc, NumberedPc, BakFiles, Files
    <2>. QED BY <1>0, <1>d, <2>1 DEF LocalOK, NumberOK, NumberedPc, Tree
  <1>n. Nothing \notin Data /\ NoFile \notin Data /\ Torn # NoFile
    BY TokensAssumption DEF TokensAssumption, Contents
  <1>v. /\ OpenForSave(s) => store' = [store EXCEPT ![old.user] = WriteFile(Tree(s), old.id, old.file, Torn)]
        /\ WriteAndClose(s) => store' = [store EXCEPT ![old.user] =
                                             WriteFile(Tree(s), old.id, old.file, old.buf[old.file])]
        /\ Torn \in FileState \ {NoFile}
        /\ WriteAndClose(s) => old.buf[old.file] \in FileState \ {NoFile}
    <2>1. Torn \in FileState \ {NoFile}
      BY TokensAssumption DEF TokensAssumption, FileState
    <2>2. ASSUME WriteAndClose(s) PROVE old.buf[old.file] \in FileState \ {NoFile}
      <3>1. old.buf[old.file] \in Contents \cup Names
        BY <1>0, <2>2 DEF WriteAndClose, BufferOK, LocalOK
      <3>. QED BY <3>1, TokensAssumption DEF TokensAssumption, FileState
    <2>. QED BY <2>1, <2>2 DEF OpenForSave, WriteAndClose, OpenFile, WriteFile, Tree
  <1>1. ASSUME NEW u \in Users, NEW i \in DOMAIN store'[u], store'[u][i]["header"] = NoFile
        PROVE  store'[u][i]["name"] = NoFile
    <2>1. CASE i \notin DOMAIN store[u]
      <3>1. store'[u][i] = EmptyDir
        BY <2>1, FilesStay
      <3>. QED BY <3>1, <1>h DEF EmptyDir
    <2>2. CASE i \in DOMAIN store[u]
      <3>1. store[u][i]["header"] = NoFile
        BY <1>1, <1>h, <2>2, FilesStay
      <3>2. store[u][i]["name"] = NoFile
        BY <2>2, <3>1 DEF HeaderFirst
      <3>3. CASE store'[u][i] = store[u][i]
        BY <3>2, <3>3
      <3>4. ASSUME store'[u][i] # store[u][i] PROVE FALSE
        <4>1. old.pc = "save" /\ old.user = u /\ old.id = i
          BY <2>2, <3>4, Harmless
        <4>2. OpenForSave(s) \/ WriteAndClose(s)
          BY <3>4, <4>1, StoreSteps DEF StepOf, MakeBackupDir
        <4>3. old.file = "header"
          BY <1>d, <3>1, <4>1 DEF HeaderFirst
        <4>4. store'[u][i]["header"] # NoFile
          BY <1>h, <1>v, <1>d, <2>2, <4>1, <4>2, <4>3, SavedFile
        <4>. QED BY <1>1, <4>4
      <3>. QED BY <3>3, <3>4
    <2>. QED BY <2>1, <2>2
  <1>2. ASSUME NEW t \in Sessions \ {s}, session'[t].pc = "save"
        PROVE  /\ session'[t].opened => Tree(t)'[session'[t].id][session'[t].file] # NoFile
               /\ session'[t].file # "header" => Tree(t)'[session'[t].id]["header"] # NoFile
    <2>1. session'[t] = session[t] /\ session[t].pc = "save"
      BY <1>2
    <2>2. /\ session[t].user \in Users /\ session[t].id \in DOMAIN store[session[t].user]
          /\ session[t].file \in Files
      BY <2>1 DEF TypeInv, LocalOK, NumberOK, NumberedPc, Tree
    <2>3. /\ session[t].opened => Tree(t)[session[t].id][session[t].file] # NoFile
          /\ session[t].file # "header" => Tree(t)[session[t].id]["header"] # NoFile
      BY <2>1 DEF HeaderFirst
    <2>. QED BY <1>h, <2>1, <2>2, <2>3, FilesStay DEF Tree
  <1>3. ASSUME l.pc = "save"
        PROVE  /\ l.opened => Tree(s)'[l.id][l.file] # NoFile
               /\ l.file # "header" => Tree(s)'[l.id]["header"] # NoFile
    <2>1. CASE ReceiveComplete(s)
      <3>1. l = [old EXCEPT !.pc = "save", !.file = "header", !.next = Following[@]]
        BY <1>0, <2>1 DEF ReceiveComplete, Update
      <3>2. ~ old.opened
        BY <1>0, <2>1 DEF ReceiveComplete, BufferOK
      <3>. QED BY <1>0, <3>1, <3>2 DEF SessionState
    <2>2. CASE OpenForSave(s)
      <3>1. l = [old EXCEPT !.opened = TRUE] /\ old.pc = "save"
        BY <1>0, <2>2 DEF OpenForSave, Update
      <3>2. l.id = old.id /\ l.file = old.file /\ l.user = old.user
        BY <1>0, <3>1 DEF SessionState
      <3>3. Tree(s)'[old.id][old.file] = Torn
        BY <1>d, <1>v, <2>2, <3>1, <3>2, SavedFile DEF Tree
      <3>4. old.file # "header" => Tree(s)'[old.id]["header"] # NoFile
        <4>1. old.file # "header" => store[old.user][old.id]["header"] # NoFile
          BY <1>d, <3>1 DEF HeaderFirst
        <4>. QED BY <1>d, <1>h, <3>1, <3>2, <4>1, FilesStay DEF Tree
      <3>. QED BY <1>n, <3>2, <3>3, <3>4
    <2>3. ASSUME SkipFile(s) \/ WriteAndClose(s) \/ SaveFails(s)
          PROVE  ~ l.opened /\ Tree(s)'[l.id]["header"] # NoFile
      <3>1. l = NextFile(old) /\ old.pc = "save"
        BY <1>0, <2>3 DEF SkipFile, WriteAndClose, SaveFails, Update
      <3>2. l.id = old.id /\ l.user = old.user /\ l.opened = FALSE
        BY <1>0, <3>1 DEF NextFile, SessionState
      <3>3. Tree(s)' = store'[old.user]
        BY <3>2 DEF Tree
      <3>4. CASE store[old.user][old.id]["header"] # NoFile
        BY <1>d, <1>h, <3>1, <3>2, <3>3, <3>4, FilesStay
      <3>5. CASE store[old.user][old.id]["header"] = NoFile
        <4>1. old.file = "header" /\ ~ old.opened
          BY <1>d, <3>1, <3>5 DEF HeaderFirst
        <4>2. old.buf[old.file] # Nothing
          BY <1>d, <1>n, <3>1, <4>1
        <4>. QED BY <2>3, <4>1, <4>2 DEF SkipFile, WriteAndClose, SaveFails
      <3>. QED BY <3>2, <3>4, <3>5
    <2>4. ReceiveComplete(s) \/ OpenForSave(s) \/ SkipFile(s) \/ WriteAndClose(s) \/ SaveFails(s)
      <3>1. Completes(s, l) \/ Opens(s, l) \/ Turns(s, l)
        BY <1>3 DEF Does, Arrives, Idles, Accepts, Chooses, Makes, Receives, Skips, Writes, Fails,
           Acks1, UploadPc, NumberedPc
      <3>2. CASE Completes(s, l)
        <4>1. old.pc = "receive" /\ old.next = "BACKUP_COMPLETE" /\ l.pc = "save"
          BY <3>2 DEF Completes
        <4>2. l # Free
          BY <4>1 DEF Free
        <4>. QED BY <1>0, <4>1, <4>2
             DEF StepOf, Connect, ConnectToBackup, ConnectToRestore, ConnectToList, Handle,
                 Disconnect, Kill, CrashOnTornMetadata, RejectName, AcceptName, ChooseNumber,
                 MakeBackupDir, ReceiveFileData, Acknowledge, RestoreNothing, BeginRestore,
                 LoadNext, SendRestored, BeginList, SendList, Update
      <3>3. CASE Opens(s, l) \/ Turns(s, l)
        <4>1. old.pc = "save" /\ l.pc = "save"
          BY <1>3, <3>3 DEF Opens, Turns
        <4>2. l # Free
          BY <4>1 DEF Free
        <4>. QED BY <1>0, <4>1, <4>2
             DEF StepOf, Connect, ConnectToBackup, ConnectToRestore, ConnectToList, Handle,
                 Disconnect, Kill, CrashOnTornMetadata, RejectName, AcceptName, ChooseNumber,
                 MakeBackupDir, ReceiveFileData, ReceiveComplete, Acknowledge, RestoreNothing,
                 BeginRestore, LoadNext, SendRestored, BeginList, SendList, Update
      <3>. QED BY <3>1, <3>2, <3>3
    <2>. QED BY <2>1, <2>2, <2>3, <2>4
  <1>. QED BY <1>1, <1>2, <1>3 DEF HeaderFirst

\* An upload without a name that is not excused has no name in its directory.
UnnamedInv ==
    \A s \in Sessions :
        /\ session[s].pc \in NumberedPc /\ session[s].data \notin excused
        /\ session[s].buf["name"] = Nothing /\ session[s].id \in DOMAIN Tree(s)
        => Tree(s)[session[s].id]["name"] = NoFile

LEMMA UnnamedStep ==
    ASSUME TypeInv, LoneInv, HeaderFirst, UnnamedInv, NEW s \in Sessions, NEW l, Does(s, l),
           session'[s] = l, \A t \in Sessions \ {s} : session'[t] = session[t],
           LocalOK(l)
    PROVE  UnnamedInv'
  <1> DEFINE old == session[s]
  <1>0. LocalOK(old) /\ NumberOK(s) /\ DOMAIN store = Users
    BY DEF TypeInv
  <1>1. excused \subseteq excused'
    BY HistoriesGrow
  <1>2. ASSUME NEW t \in Sessions \ {s}, session'[t].pc \in NumberedPc,
               session'[t].data \notin excused', session'[t].buf["name"] = Nothing,
               session'[t].id \in DOMAIN Tree(t)'
        PROVE  Tree(t)'[session'[t].id]["name"] = NoFile
    <2>1. session'[t] = session[t] /\ Uploading(t) /\ session[t].data \notin excused
      BY <1>1, <1>2 DEF Uploading, NumberedPc
    <2>2. session[t].user \in Users
      BY <1>2, <2>1 DEF TypeInv, LocalOK, NumberedPc
    <2>3. ~ (Uploading(s) /\ old.user = session[t].user)
      <3>1. Rivals(t) = {}
        BY <2>1 DEF LoneInv
      <3>. QED BY <3>1 DEF Rivals
    <2>4. Tree(t)' = Tree(t)
      BY <2>1, <2>2, <2>3, FilesStay DEF Tree
    <2>. QED BY <1>2, <2>1, <2>4 DEF UnnamedInv
  <1>3. ASSUME l.pc \in NumberedPc, l.data \notin excused', l.buf["name"] = Nothing,
               l.id \in DOMAIN Tree(s)'
        PROVE  Tree(s)'[l.id]["name"] = NoFile
    <2>1. ~ Accepts(s, l)
      BY <1>3 DEF Accepts, NumberedPc
    <2>2. CASE Chooses(s, l)
      <3>1. l.user = old.user /\ l.id = NextNumber(Tree(s)) /\ store' = store /\ old.pc # "free"
        BY <2>2 DEF Chooses
      <3>2. Tree(s)' = Tree(s) /\ old.user \in Users /\ Tree(s) = store[old.user]
        BY <1>0, <3>1 DEF Tree, LocalOK
      <3>3. PICK n \in Nat : Listed(Tree(s)) = 1 .. n
        BY <3>1, TreeType DEF Dense
      <3>4. l.id \notin Listed(Tree(s))
        BY <3>1, <3>3, NextOfDense
      <3>5. Tree(s)[l.id]["header"] = NoFile
        BY <1>3, <3>2, <3>4 DEF Listed
      <3>. QED BY <1>3, <3>2, <3>5 DEF HeaderFirst
    <2>3. CASE old.pc \in NumberedPc /\ Keeps(s, l) /\ l.buf["name"] = old.buf["name"]
      <3>1. /\ old.data \notin excused /\ old.buf["name"] = Nothing /\ old.user \in Users
            /\ l.id = old.id /\ Tree(s) = store[old.user] /\ Tree(s)' = store'[old.user]
        BY <1>0, <1>1, <1>3, <2>3 DEF Keeps, LocalOK, NumberedPc, Tree
      <3>2. CASE old.id \notin DOMAIN Tree(s)
        <4>1. Tree(s)'[l.id] = EmptyDir
          BY <1>3, <3>1, <3>2, FilesStay
        <4>. QED BY <4>1 DEF EmptyDir, Files
      <3>3. CASE old.id \in DOMAIN Tree(s)
        <4>1. Tree(s)[old.id]["name"] = NoFile
          BY <2>3, <3>1, <3>3 DEF UnnamedInv
        <4>2. ASSUME NEW v \in FileState \ {NoFile}, old.pc = "save", old.buf[old.file] # Nothing,
                     store' = [store EXCEPT ![old.user] = WriteFile(Tree(s), old.id, old.file, v)]
              PROVE  store'[old.user][old.id]["name"] = NoFile
          <5>1. old.file # "name" /\ "name" \in Files
            BY <3>1, <4>2 DEF Files
          <5>2. old.id \in DOMAIN store[old.user]
            BY <3>1, <3>3
          <5>3. \A u \in Users : \A i \in DOMAIN store[u], f \in Files :
                   store'[u][i][f] = IF u = old.user /\ i = old.id /\ f = old.file
                                     THEN v ELSE store[u][i][f]
            BY <4>2, SavedFile
          <5>4. store'[old.user][old.id]["name"] = store[old.user][old.id]["name"]
            BY <3>1, <5>1, <5>2, <5>3
          <5>. QED BY <3>1, <4>1, <5>4
        <4>3. CASE Opens(s, l)
          <5>1. Torn \in FileState \ {NoFile}
            BY TokensAssumption DEF TokensAssumption, FileState
          <5>. QED BY <3>1, <4>2, <4>3, <5>1 DEF Opens, OpenOf, OpenFile, WriteFile
        <4>4. CASE Writes(s, l)
          <5>1. old.buf[old.file] \in Contents \cup Names
            BY <1>0, <4>4 DEF Writes, Turns, TypeInv, BufferOK, LocalOK
          <5>2. old.buf[old.file] \in FileState \ {NoFile}
            BY <5>1, TokensAssumption DEF TokensAssumption, FileState
          <5>. QED BY <3>1, <4>2, <4>4, <5>2 DEF Writes, Turns, WriteOf
        <4>5. CASE ~ Opens(s, l) /\ ~ Writes(s, l)
          <5>1. Makes(s, l) \/ store' = store
            BY <4>5 DEF Does, Arrives, Idles, Accepts, Chooses, Receives, Completes, Skips, Fails, Acks1
          <5>2. store'[old.user][old.id] = store[old.user][old.id]
            BY <3>1, <3>3, <5>1, Harmless DEF Makes
          <5>. QED BY <3>1, <4>1, <5>2
        <4>. QED BY <4>3, <4>4, <4>5
      <3>. QED BY <3>2, <3>3
    <2>. QED BY <1>3, <2>1, <2>2, <2>3, Continues DEF UploadPc
  <1>. QED BY <1>2, <1>3 DEF UnnamedInv

LEMMA UninheritedStep ==
    ASSUME DurableInv, UnnamedInv, NoInheritedName, NEW s \in Sessions, NEW l, Does(s, l)
    PROVE  NoInheritedName'
  <1> DEFINE old == session[s]
  <1> SUFFICES ASSUME NEW a \in Settled', a.name = Nothing
               PROVE  BackupName(store'[a.user], a.id) = Nothing
    BY DEF NoInheritedName
  <1> USE DEF DurableInv
  <1>1. CASE a \in Settled
    <2>1. BackupName(store[a.user], a.id) = Nothing /\ Holds(store[a.user], a.id, a.data)
      BY <1>1 DEF NoInheritedName, AckedIntact
    <2>2. a.user \in Users /\ a.id \in DOMAIN store[a.user]
      BY <1>1, <2>1 DEF Settled, TypeInv, Acks, Holds
    <2>3. ~ (old.pc = "save" /\ old.user = a.user /\ old.id = a.id)
      BY <1>1 DEF NewInv, SettledOf, Uploading, NumberedPc
    <2>4. a.id \in DOMAIN store'[a.user] /\ store'[a.user][a.id] = store[a.user][a.id]
      BY <2>2, <2>3, Harmless
    <2>. QED BY <2>1, <2>2, <2>4 DEF BackupName, Load
  <1>2. CASE a \notin Settled
    <2>1. Acks1(s, l) /\ a = AckOf(s) /\ old.data \notin excused
      BY <1>2, SettledGrows
    <2>2. /\ old.pc = "ack" /\ store' = store
          /\ a.user = old.user /\ a.id = old.id /\ a.name = old.buf["name"]
      BY <2>1 DEF Acks1, AckOf
    <2>3. old.id \in DOMAIN Tree(s)
      BY <2>2 DEF TypeInv, NumberOK, NumberedPc
    <2>4. Tree(s)[old.id]["name"] = NoFile
      BY <2>1, <2>2, <2>3 DEF UnnamedInv, NumberedPc
    <2>. QED BY <2>2, <2>3, <2>4 DEF BackupName, Load, Tree
  <1>. QED BY <1>1, <1>2

NamesInv == DurableInv /\ HeaderFirst /\ UnnamedInv /\ NoInheritedName

LEMMA InitNames == Init => NamesInv
  <1> SUFFICES ASSUME Init PROVE NamesInv
    OBVIOUS
  <1>1. \A s \in Sessions : session[s].pc = "free"
    BY FreeType DEF Init
  <1>2. \A u \in Users : \A i \in DOMAIN store[u] : store[u][i]["name"] = NoFile
    BY DEF Init, Files, BakFiles
  <1>3. Settled = {}
    BY DEF Init, Settled
  <1>. QED BY <1>1, <1>2, <1>3, InitDurable
           DEF NamesInv, HeaderFirst, UnnamedInv, NoInheritedName, NumberedPc

LEMMA NextNames ==
    ASSUME "open" \notin Faults
    PROVE  NamesInv /\ [Next]_vars => NamesInv'
  <1> SUFFICES ASSUME NamesInv, [Next]_vars PROVE NamesInv'
    OBVIOUS
  <1>0. DurableInv' /\ TypeInv /\ LoneInv /\ TypeInv'
    BY NextDurable DEF NamesInv, DurableInv
  <1>1. CASE Next
    <2>1. PICK s \in Sessions : StepOf(s)
      BY <1>1 DEF Next, StepOf
    <2>2. PICK l : Update(s, l)
      BY <1>0, <2>1, StepUpdates DEF StepOf
    <2>3. /\ session'[s] = l /\ LocalOK(l)
          /\ \A t \in Sessions \ {s} : session'[t] = session[t]
      BY <1>0, <2>1, <2>2, LocalStep, UpdateType DEF StepOf, TypeInv
    <2>4. StreamOK(session[s])
      BY DEF NamesInv, DurableInv
    <2>5. Does(s, l)
      BY <1>0, <2>1, <2>2, <2>4, StepDoes
    <2>6. HeaderFirst'
      BY <1>0, <2>1, <2>2, <2>3, <2>4, <2>5, HeaderStep DEF NamesInv
    <2>7. UnnamedInv'
      BY <1>0, <2>3, <2>5, UnnamedStep DEF NamesInv
    <2>8. NoInheritedName'
      BY <2>5, UninheritedStep DEF NamesInv
    <2>. QED BY <1>0, <2>6, <2>7, <2>8 DEF NamesInv
  <1>2. CASE UNCHANGED vars
    BY <1>0, <1>2 DEF NamesInv, vars, HeaderFirst, UnnamedInv, NoInheritedName, Tree, Settled
  <1>. QED BY <1>1, <1>2

\* The acknowledged backup of an unnamed upload has no name, also when it is in a
\* directory that a killed process has left, on a disk that refuses no open.
THEOREM UnnamedStaysUnnamed ==
    ASSUME "open" \notin Faults
    PROVE  Spec => []NoInheritedName
  <1>1. NamesInv => NoInheritedName
    BY DEF NamesInv
  <1>. QED BY <1>1, InitNames, NextNames, PTL DEF Spec

-----------------------------------------------------------------------------
(* What a list shows *)

\* What is wanted is among the IDs read first, and in the list with its name.
ListOK(l) ==
    /\ l.pc = "names" => \A a \in l.want : a.user = l.user /\ a.id \in l.reply.ids
    /\ l.reply.kind = "list" => \A a \in l.want : [id |-> a.id, name |-> a.name] \in l.reply.names

ListInv == \A s \in Sessions : ListOK(session[s])

LEMMA ListStep ==
    ASSUME NamesInv, NEW s \in Sessions, RestoreOK(session[s]), ListOK(session[s]),
           session[s].want \subseteq Settled, NEW l, Update(s, l), StepOf(s)
    PROVE  ListOK(l)
  <1> DEFINE old == session[s]
  <1> USE DEF NamesInv, DurableInv
  <1>0. old \in SessionState /\ DOMAIN session = Sessions /\ LocalOK(old) /\ StreamOK(old)
    BY DEF TypeInv, LocalOK
  <1>1. ASSUME l.pc # "names", l.reply.kind # "list" \/ l.want = {} PROVE ListOK(l)
    BY <1>1 DEF ListOK
  <1>2. ASSUME l.pc # "names", l.reply = old.reply, l.want = old.want PROVE ListOK(l)
    BY <1>2 DEF ListOK
  <1>3. CASE Connect(s) \/ Disconnect(s) \/ Kill(s) \/ CrashOnTornMetadata(s)
    <2>1. l.pc \in {"ready", "free"} /\ l.want = {}
      <3>1. CASE ConnectToBackup(s)
        <4>1. PICK u \in Users, d \in Data \ used, n \in Names \cup {Nothing} :
                l = [Arrive(u, IF n = Nothing THEN "PAYLOAD" ELSE "BACKUP_START")
                       EXCEPT !.data = d, !.name = n]
          BY <1>0, <3>1 DEF ConnectToBackup, Update
        <4>2. PICK m \in {"PAYLOAD", "BACKUP_START"} :
                l = [Free EXCEPT !.pc = "ready", !.user = u, !.next = m, !.data = d, !.name = n]
          BY <4>1 DEF Arrive, Free
        <4>. QED BY <4>2 DEF Free
      <3>2. CASE ConnectToRestore(s)
        <4>1. PICK u \in Users, i \in AskIds \cup {Nothing} :
                l = [Arrive(u, "RESTORE_REQUEST") EXCEPT !.id = i]
          BY <1>0, <3>2 DEF ConnectToRestore, Update
        <4>. QED BY <4>1 DEF Arrive, Free
      <3>3. CASE ConnectToList(s)
        <4>1. PICK u \in Users : l = Arrive(u, "BACKUP_LIST_REQUEST")
          BY <1>0, <3>3 DEF ConnectToList, Update
        <4>. QED BY <4>1 DEF Arrive, Free
      <3>4. CASE Disconnect(s) \/ Kill(s) \/ CrashOnTornMetadata(s)
        <4>1. l = Free
          BY <1>0, <3>4 DEF Disconnect, Kill, CrashOnTornMetadata, Update
        <4>. QED BY <4>1 DEF Free
      <3>. QED BY <1>3, <3>1, <3>2, <3>3, <3>4 DEF Connect
    <2>. QED BY <1>1, <2>1
  <1>4. CASE RejectName(s) \/ RestoreNothing(s)
    <2> DEFINE r == IF RejectName(s) THEN [kind |-> "error", code |-> "NAME_EXISTS"] ELSE NotFound
    <2>1. old.pc = "ready" /\ r.kind = "error"
      BY <1>4 DEF RejectName, RestoreNothing, NotFound
    <2>2. l = [old EXCEPT !.next = Following[old.next], !.reply = r]
      BY <1>0, <1>4 DEF RejectName, RestoreNothing, Update
    <2> HIDE DEF r
    <2>3. l.pc = old.pc /\ l.reply = r
      BY <1>0, <2>2 DEF SessionState
    <2>. QED BY <1>1, <2>1, <2>3
  <1>5. CASE Acknowledge(s)
    <2>1. l = [Free EXCEPT !.pc = "ready", !.user = old.user, !.next = old.next,
                           !.data = old.data, !.reply = [kind |-> "ack", id |-> old.id]]
      BY <1>0, <1>5 DEF Acknowledge, Update
    <2>2. l.pc = "ready" /\ l.want = {}
      BY <2>1 DEF Free
    <2>. QED BY <1>1, <2>2
  <1>6. CASE SendRestored(s)
    <2>1. Loaded(s).kind \in {"error", "bak"}
      BY DEF Loaded, NotFound
    <2>2. l = [Free EXCEPT !.pc = "ready", !.user = old.user, !.id = old.id,
                           !.want = old.want, !.reply = Loaded(s)]
      BY <1>0, <1>6 DEF SendRestored, Update
    <2>3. l.pc = "ready" /\ l.reply = Loaded(s)
      BY <2>2 DEF Free
    <2>. QED BY <1>1, <2>1, <2>3
  <1>7. CASE BeginRestore(s)
    <2>1. PICK i \in AskIds \cup Listed(Tree(s)) :
            l = [old EXCEPT !.pc = "load", !.next = Following[@], !.id = i, !.file = "header",
                            !.want = {a \in SettledOf(old.user) : a.id = i}]
      BY <1>0, <1>7 DEF BeginRestore, Update
    <2>2. l.pc = "load" /\ l.reply = old.reply
      BY <1>0, <2>1 DEF SessionState
    <2>3. old.reply = NoReply
      BY <1>7 DEF BeginRestore, RestoreOK
    <2>. QED BY <1>1, <2>2, <2>3 DEF NoReply
  <1>8. CASE AcceptName(s) \/ ChooseNumber(s) \/ MakeBackupDir(s) \/ ReceiveFileData(s)
             \/ ReceiveComplete(s) \/ OpenForSave(s) \/ SkipFile(s) \/ WriteAndClose(s)
             \/ SaveFails(s)
    <2>1. l.pc # "names" /\ l.reply = old.reply /\ l.want = old.want
      <3>1. CASE AcceptName(s)
        <4>1. l = [old EXCEPT !.pc = "named", !.next = Following[@], !.buf["name"] = old.name]
          BY <1>0, <3>1 DEF AcceptName, Update
        <4>. QED BY <1>0, <4>1 DEF SessionState
      <3>2. CASE ChooseNumber(s)
        <4>1. l = [old EXCEPT !.pc = "mkdir", !.id = NextNumber(Tree(s))]
          BY <1>0, <3>2 DEF ChooseNumber, Update
        <4>. QED BY <1>0, <4>1 DEF SessionState
      <3>3. CASE MakeBackupDir(s)
        <4>1. l = [old EXCEPT !.pc = "receive"]
          BY <1>0, <3>3 DEF MakeBackupDir, Update
        <4>. QED BY <1>0, <4>1 DEF SessionState
      <3>4. CASE ReceiveFileData(s)
        <4>1. l = [old EXCEPT !.buf = Received(s), !.next = Following[@]] /\ old.pc = "receive"
          BY <1>0, <3>4 DEF ReceiveFileData, Update
        <4>. QED BY <1>0, <4>1 DEF SessionState
      <3>5. CASE ReceiveComplete(s)
        <4>1. l = [old EXCEPT !.pc = "save", !.file = "header", !.next = Following[@]]
          BY <1>0, <3>5 DEF ReceiveComplete, Update
        <4>. QED BY <1>0, <4>1 DEF SessionState
      <3>6. CASE OpenForSave(s)
        <4>1. l = [old EXCEPT !.opened = TRUE] /\ old.pc = "save"
          BY <1>0, <3>6 DEF OpenForSave, Update
        <4>. QED BY <1>0, <4>1 DEF SessionState
      <3>7. CASE SkipFile(s) \/ WriteAndClose(s) \/ SaveFails(s)
        <4>1. l = NextFile(old)
          BY <1>0, <3>7 DEF SkipFile, WriteAndClose, SaveFails, Update
        <4>. QED BY <1>0, <4>1 DEF NextFile, SessionState
      <3>. QED BY <1>8, <3>1, <3>2, <3>3, <3>4, <3>5, <3>6, <3>7
    <2>. QED BY <1>2, <2>1
  <1>9. CASE LoadNext(s)
    <2> DEFINE v == Load(Tree(s), old.id, old.file)
               q == IF FileAfter[old.file] = "name" THEN "send" ELSE "load"
    <2>1. l = [old EXCEPT !.buf[old.file] = v, !.file = FileAfter[@], !.pc = q]
      BY <1>0, <1>9 DEF LoadNext, Update
    <2>2. q # "names"
      OBVIOUS
    <2> HIDE DEF v, q
    <2>3. l.pc = q /\ l.reply = old.reply /\ l.want = old.want
      BY <1>0, <2>1 DEF SessionState
    <2>. QED BY <1>2, <2>2, <2>3
  <1>10. CASE BeginList(s)
    <2>1. l = [old EXCEPT !.pc = "names", !.next = Following[@], !.want = SettledOf(old.user),
                          !.reply = [kind |-> "ids", ids |-> Listed(Tree(s))]]
      BY <1>0, <1>10 DEF BeginList, Update
    <2>2. l.want = SettledOf(old.user) /\ l.reply = [kind |-> "ids", ids |-> Listed(Tree(s))]
          /\ l.user = old.user
      BY <1>0, <2>1 DEF SessionState
    <2>3. ASSUME NEW a \in l.want PROVE a.user = l.user /\ a.id \in l.reply.ids
      <3>1. a \in Settled /\ a.user = old.user
        BY <2>2 DEF SettledOf
      <3>2. Holds(Tree(s), a.id, a.data) /\ a.data \in Data
        BY <3>1 DEF AckedIntact, Tree, Settled, TypeInv, Acks
      <3>3. a.data # NoFile
        BY <3>2, TokensAssumption DEF TokensAssumption, Contents
      <3>. QED BY <2>2, <3>1, <3>2, <3>3 DEF Holds, Listed, BakFiles, Files
    <2>. QED BY <2>2, <2>3 DEF ListOK
  <1>11. CASE SendList(s)
    <2>1. l = [old EXCEPT !.pc = "ready",
                     !.reply = [kind |-> "list",
                                names |-> {[id |-> i, name |-> BackupName(Tree(s), i)] :
                                              i \in old.reply.ids}]]
      BY <1>0, <1>11 DEF SendList, Update
    <2>2. /\ l.pc = "ready" /\ l.want = old.want /\ old.pc = "names"
          /\ l.reply.names = {[id |-> i, name |-> BackupName(Tree(s), i)] : i \in old.reply.ids}
      BY <1>0, <1>11, <2>1 DEF SendList, SessionState
    <2>3. ASSUME NEW a \in l.want PROVE [id |-> a.id, name |-> a.name] \in l.reply.names
      <3>1. a \in Settled /\ a.user = old.user /\ a.id \in old.reply.ids
        BY <2>2 DEF ListOK
      <3>2. BackupName(Tree(s), a.id) = a.name
        BY <3>1 DEF AckedIntact, NoInheritedName, Tree
      <3>. QED BY <2>2, <3>1, <3>2
    <2>. QED BY <2>2, <2>3 DEF ListOK
  <1>. QED BY <1>3, <1>4, <1>5, <1>6, <1>7, <1>8, <1>9, <1>10, <1>11 DEF StepOf, Handle

\* A list shows every backup that was settled when it began, with its name, although
\* the names are read after the IDs, on a disk that refuses no open.
THEOREM ListsComplete ==
    ASSUME "open" \notin Faults
    PROVE  Spec => []ListComplete
  <1> DEFINE Inv == NamesInv /\ RestoreInv /\ ListInv
  <1>1. Init => Inv
    <2>1. Init => ListInv
      BY DEF Init, Free, NoReply, ListInv, ListOK
    <2>. QED BY <2>1, InitNames, InitRestore
  <1>2. Inv /\ [Next]_vars => Inv'
    <2> SUFFICES ASSUME NamesInv, RestoreInv, ListInv, [Next]_vars PROVE Inv'
      OBVIOUS
    <2>0. NamesInv' /\ RestoreInv'
      BY NextNames, NextRestore DEF NamesInv
    <2>1. CASE Next
      <3>0. TypeInv
        BY DEF NamesInv, DurableInv
      <3>1. PICK s \in Sessions : StepOf(s)
        BY <2>1 DEF Next, StepOf
      <3>2. PICK l : Update(s, l)
        BY <3>0, <3>1, StepUpdates DEF StepOf
      <3>3. /\ session'[s] = l
            /\ \A t \in Sessions \ {s} : session'[t] = session[t]
        BY <3>0, <3>1, <3>2, LocalStep, UpdateType DEF StepOf, TypeInv
      <3>4. ListOK(l)
        BY <3>1, <3>2, ListStep DEF RestoreInv, ListInv
      <3>. QED BY <2>0, <3>3, <3>4 DEF ListInv, ListOK
    <2>2. CASE UNCHANGED vars
      BY <2>0, <2>2 DEF vars, ListInv, ListOK
    <2>. QED BY <2>1, <2>2
  <1>3. Inv => ListComplete
    BY DEF ListInv, ListOK, ListComplete
  <1>. QED BY <1>1, <1>2, <1>3, PTL DEF Spec


-----------------------------------------------------------------------------
(* The order of the IDs *)

\* The steps of Cut.
Tenths(f, n, k) ==
    f \in [0 .. k -> Nat] /\ f[0] = n /\ \A i \in 1 .. k : f[i] = f[i - 1] \div 10

\* A set of numbers that has 0, and with n also n + 1, has all.
LEMMA Induction ==
    ASSUME NEW T, 0 \in T, \A n \in Nat : n \in T => n + 1 \in T
    PROVE  Nat \subseteq T
  <1> DEFINE Bad == {n \in Nat : n \notin T}
  <1> SUFFICES ASSUME Bad # {} PROVE FALSE
    OBVIOUS
  <1>1. PICK n \in Bad : \A m \in Bad : ~ (<<m, n>> \in OpToRel(<, Nat))
    <2>1. Bad \subseteq Nat
      OBVIOUS
    <2> HIDE DEF Bad
    <2>. QED BY <2>1, NatLessThanWellFounded, WFMin
  <1>2. n \in Nat /\ n # 0
    BY <1>1
  <1>3. n - 1 \in Nat /\ n - 1 < n /\ (n - 1) + 1 = n
    BY <1>2
  <1>4. n - 1 \notin Bad
    BY <1>1, <1>2, <1>3 DEF OpToRel
  <1>. QED BY <1>1, <1>2, <1>3, <1>4

LEMMA TenthsExist ==
    ASSUME NEW n \in Nat PROVE \A k \in Nat : \E f : Tenths(f, n, k)
  <1> DEFINE T == {k \in Nat : \E f : Tenths(f, n, k)}
  <1>1. 0 \in T
    <2>1. Tenths([i \in 0 .. 0 |-> n], n, 0)
      BY DEF Tenths
    <2>. QED BY <2>1
  <1>2. ASSUME NEW k \in Nat, k \in T PROVE k + 1 \in T
    <2>1. PICK f : Tenths(f, n, k)
      BY <1>2
    <2> DEFINE g == [i \in 0 .. k + 1 |-> IF i = k + 1 THEN f[k] \div 10 ELSE f[i]]
    <2>2. /\ f \in [0 .. k -> Nat] /\ f[0] = n
          /\ \A i \in 1 .. k : f[i] = f[i - 1] \div 10
      BY <2>1 DEF Tenths
    <2>3. f[k] \in Nat /\ f[k] \div 10 \in Nat
      BY <2>2
    <2>4. g \in [0 .. k + 1 -> Nat] /\ g[0] = n
      BY <2>2, <2>3
    <2>5. ASSUME NEW i \in 1 .. k + 1 PROVE g[i] = g[i - 1] \div 10
      <3>1. i - 1 \in 0 .. k /\ g[i - 1] = f[i - 1]
        OBVIOUS
      <3>. QED BY <2>2, <3>1
    <2> HIDE DEF g
    <2>6. Tenths(g, n, k + 1)
      BY <2>4, <2>5 DEF Tenths
    <2>. QED BY <2>6
  <1> HIDE DEF T
  <1>3. Nat \subseteq T
    BY <1>1, <1>2, Induction
  <1>. QED BY <1>3 DEF T

\* Cut follows these steps, whatever their number.
LEMMA CutIs ==
    ASSUME NEW n \in Nat, NEW k \in Nat, NEW f, Tenths(f, n, k)
    PROVE  \A i \in 0 .. k : Cut(n, i) = f[i]
  <1> SUFFICES ASSUME NEW j \in 0 .. k PROVE Cut(n, j) = f[j]
    OBVIOUS
  <1>0. f \in [0 .. k -> Nat] /\ f[0] = n /\ \A i \in 1 .. k : f[i] = f[i - 1] \div 10
    BY DEF Tenths
  <1> DEFINE Body(g) == [i \in 0 .. j |-> IF i = 0 THEN n ELSE g[i - 1] \div 10]
             rest == CHOOSE g : g = Body(g)
             h == [i \in 0 .. j |-> f[i]]
  <1>1. h = Body(h)
    <2>1. \A i \in 0 .. j : h[i] = IF i = 0 THEN n ELSE h[i - 1] \div 10
      BY <1>0
    <2>. QED BY <2>1
  <1>2. rest = Body(rest)
    BY <1>1
  <1>3. Cut(n, j) = rest[j]
    BY DEF Cut
  <1> HIDE DEF rest
  <1> DEFINE T == {i \in Nat : i <= j => rest[i] = f[i]}
  <1>4. rest[0] = n /\ \A i \in 1 .. j : rest[i] = rest[i - 1] \div 10
    <2>1. 0 \in 0 .. j /\ \A i \in 1 .. j : i \in 0 .. j /\ i # 0
      OBVIOUS
    <2>. QED BY <1>2, <2>1
  <1>5. 0 \in T
    BY <1>0, <1>4
  <1>6. ASSUME NEW i \in Nat, i \in T PROVE i + 1 \in T
    <2> SUFFICES ASSUME i + 1 <= j PROVE rest[i + 1] = f[i + 1]
      OBVIOUS
    <2>1. i + 1 \in 1 .. j /\ i + 1 \in 1 .. k /\ (i + 1) - 1 = i /\ rest[i] = f[i]
      BY <1>6
    <2>. QED BY <1>0, <1>4, <2>1
  <1> HIDE DEF T
  <1>7. j \in T
    BY <1>5, <1>6, Induction
  <1>. QED BY <1>3, <1>7 DEF T

\* One digit after the other.
LEMMA CutStep ==
    ASSUME NEW n \in Nat
    PROVE  /\ Cut(n, 0) = n
           /\ \A k \in Nat : Cut(n, k) \in Nat /\ Cut(n, k + 1) = Cut(n, k) \div 10
  <1> SUFFICES ASSUME NEW k \in Nat
               PROVE  /\ Cut(n, 0) = n /\ Cut(n, k) \in Nat
                      /\ Cut(n, k + 1) = Cut(n, k) \div 10
    OBVIOUS
  <1>1. PICK f : Tenths(f, n, k + 1)
    BY TenthsExist
  <1>2. \A i \in 0 .. k + 1 : Cut(n, i) = f[i]
    BY <1>1, CutIs
  <1>3. f \in [0 .. k + 1 -> Nat] /\ f[0] = n /\ f[k + 1] = f[(k + 1) - 1] \div 10
    BY <1>1 DEF Tenths
  <1>4. 0 \in 0 .. k + 1 /\ k \in 0 .. k + 1 /\ k + 1 \in 0 .. k + 1 /\ (k + 1) - 1 = k
    OBVIOUS
  <1>. QED BY <1>2, <1>3, <1>4

\* A smaller number has no more digits.
LEMMA CutSmaller ==
    ASSUME NEW m \in Nat, NEW n \in Nat, m <= n
    PROVE  \A k \in Nat : Cut(m, k) <= Cut(n, k)
  <1> DEFINE T == {k \in Nat : Cut(m, k) <= Cut(n, k)}
  <1>1. 0 \in T
    BY CutStep
  <1>2. ASSUME NEW k \in Nat, k \in T PROVE k + 1 \in T
    <2>1. /\ Cut(m, k) \in Nat /\ Cut(n, k) \in Nat /\ Cut(m, k) <= Cut(n, k)
          /\ Cut(m, k + 1) = Cut(m, k) \div 10 /\ Cut(n, k + 1) = Cut(n, k) \div 10
      BY <1>2, CutStep
    <2>. QED BY <2>1
  <1> HIDE DEF T
  <1>3. Nat \subseteq T
    BY <1>1, <1>2, Induction
  <1>. QED BY <1>3 DEF T

\* A number of at most Width digits: its ID is padded to just as many.
Fits(n) == Cut(n, Width) = 0

LEMMA DigitsOfFit ==
    ASSUME NEW n \in Nat, Fits(n)
    PROVE  Digits(n) = Width
  <1>0. Width \in Nat \ {0}
    BY WidthAssumption DEF WidthAssumption
  <1> DEFINE T == {i \in Nat : Cut(n, Width + i) = 0}
  <1>1. 0 \in T
    BY <1>0 DEF Fits
  <1>2. ASSUME NEW i \in Nat, i \in T PROVE i + 1 \in T
    <2>1. Width + i \in Nat /\ Cut(n, Width + i) = 0 /\ Width + (i + 1) = (Width + i) + 1
      BY <1>0, <1>2
    <2>2. Cut(n, (Width + i) + 1) = 0 \div 10
      BY <2>1, CutStep
    <2>. QED BY <2>1, <2>2
  <1> HIDE DEF T
  <1>3. Nat \subseteq T
    BY <1>1, <1>2, Induction
  <1>4. ASSUME NEW d \in Width .. Width + n, d > Width PROVE Cut(n, d - 1) = 0
    <2>1. d - 1 - Width \in Nat /\ Width + (d - 1 - Width) = d - 1
      BY <1>0, <1>4
    <2>. QED BY <1>3, <2>1 DEF T
  <1>5. Width \in Width .. Width + n /\ Cut(n, Width) = 0
    BY <1>0 DEF Fits
  <1>. QED BY <1>0, <1>4, <1>5 DEF Digits

\* The IDs of such numbers are ordered as the numbers are.
LEMMA OrderOfFit ==
    ASSUME NEW m \in Nat, NEW n \in Nat, Fits(n), m < n
    PROVE  IdBefore(m, n)
  <1>0. Width \in Nat \ {0}
    BY WidthAssumption DEF WidthAssumption
  <1>1. Fits(m)
    <2>1. Cut(m, Width) \in Nat /\ Cut(m, Width) <= Cut(n, Width)
      <3>1. Width \in Nat /\ m <= n
        BY <1>0
      <3>. QED BY <3>1, CutStep, CutSmaller
    <2>. QED BY <2>1 DEF Fits
  <1>2. Digits(m) - Digits(n) = 0
    BY <1>0, <1>1, DigitsOfFit
  <1>. QED BY <1>2 DEF IdBefore

-----------------------------------------------------------------------------
(* How many backups there are *)

\* s has an upload that has not listed a number yet.
Waits(s) ==
    Carries(s) /\ (session[s].pc \in NumberedPc => session[s].id \notin Listed(Tree(s)))

\* The uploads that have done so, or never will.
Spent == used \ {session[s].data : s \in {t \in Sessions : Waits(t)}}

\* Each listed number was listed by an upload of its own.
CountInv ==
    \A u \in Users, n \in Nat : Listed(store[u]) = 1 .. n => n <= Archive + Cardinality(Spent)

\* A session that waits has waited before, with the same upload, unless it is a new one.
LEMMA WaitsStep ==
    ASSUME TypeInv, NEW s \in Sessions, StreamOK(session[s]),
           NEW l, Does(s, l), StepOf(s), session'[s] = l,
           NEW t \in Sessions, \A r \in Sessions \ {s} : session'[r] = session[r], Waits(t)'
    PROVE  \/ Waits(t) /\ session[t].data = session'[t].data
           \/ session'[t].data \notin used
  <1>0. \A u \in Users : Listed(store[u]) \subseteq Listed(store'[u])
    BY StoreGrows DEF StepOf, Grows
  <1>1. CASE t # s
    <2>1. session'[t] = session[t] /\ Carries(t)
      BY <1>1 DEF Waits, Carries, Uploading
    <2>2. session[t].pc \in NumberedPc => session[t].user \in Users
      BY DEF TypeInv, LocalOK, NumberedPc
    <2>3. session[t].pc \in NumberedPc => session[t].id \notin Listed(store'[session[t].user])
      BY <2>1 DEF Waits, Tree
    <2>. QED BY <1>0, <2>1, <2>2, <2>3 DEF Waits, Tree
  <1>2. CASE t = s
    <2>1. CASE Arrives(s, l)
      BY <1>2, <2>1 DEF Arrives
    <2>2. CASE Idles(s, l)
      <3>1. l.next \in UploadMessages
        BY <1>2, <2>2 DEF Idles, Waits, Carries, Uploading, UploadPc, NumberedPc
      <3>2. session[s].next = "BACKUP_START" /\ l.data = session[s].data
        BY <2>2, <3>1 DEF Idles
      <3>3. session[s].pc \notin NumberedPc
        BY <3>2 DEF StreamOK, NumberedPc
      <3>. QED BY <1>2, <3>2, <3>3 DEF Waits, Carries, UploadMessages
    <2>3. CASE Accepts(s, l) \/ Chooses(s, l)
      BY <1>2, <2>3 DEF Accepts, Chooses, Keeps, Waits, Carries, UploadMessages, NumberedPc
    <2>4. CASE Acks1(s, l)
      BY <1>2, <2>4 DEF Acks1, Waits, Carries, Uploading, UploadMessages
    <2>5. CASE session[s].pc \in NumberedPc /\ l.pc \in NumberedPc /\ Keeps(s, l)
      <3>1. session[s].user \in Users /\ Carries(s)
        BY <2>5 DEF TypeInv, LocalOK, Carries, Uploading, NumberedPc
      <3>2. session[s].id \notin Listed(store'[session[s].user])
        BY <1>2, <2>5 DEF Waits, Tree, Keeps
      <3>. QED BY <1>0, <1>2, <2>5, <3>1, <3>2 DEF Waits, Tree, Keeps
    <2>6. l.pc \in UploadPc => Accepts(s, l) \/ Chooses(s, l)
                               \/ (session[s].pc \in NumberedPc /\ l.pc \in NumberedPc /\ Keeps(s, l))
      BY Continues
    <2>7. l.pc \notin UploadPc => Arrives(s, l) \/ Idles(s, l) \/ Acks1(s, l)
      BY DEF Does, Accepts, Chooses, Makes, Receives, Completes, Turns, Skips, Opens,
             Writes, Fails, UploadPc, NumberedPc
    <2>. QED BY <2>1, <2>2, <2>3, <2>4, <2>5, <2>6, <2>7
  <1>. QED BY <1>1, <1>2

\* A step lists the number of the upload of s, which has waited for it.
LEMMA ListsOwn ==
    ASSUME TypeInv, NEW s \in Sessions, NEW l, Does(s, l), StepOf(s), session'[s] = l,
           NEW u \in Users, NEW i \in Listed(store'[u]), i \notin Listed(store[u])
    PROVE  /\ session[s].pc = "save" /\ session[s].user = u /\ session[s].id = i
           /\ Waits(s) /\ ~ Waits(s)'
  <1> DEFINE old == session[s]
  <1>1. DOMAIN store = Users /\ IsTree(store[u])
    BY DEF TypeInv
  <1>2. CASE UNCHANGED store
    BY <1>2
  <1>3. CASE Makes(s, l)
    <2>1. /\ store' = [store EXCEPT ![old.user] = MakeDir(Tree(s), old.id)]
          /\ old.pc = "mkdir"
      BY <1>3 DEF Makes
    <2>2. CASE old.user = u
      <3>1. store'[u] = MakeDir(store[u], old.id) /\ old.id \in Nat \ {0}
        BY <1>1, <2>1, <2>2 DEF Tree, TypeInv, LocalOK, NumberedPc
      <3>2. Listed(MakeDir(store[u], old.id)) = Listed(store[u])
        BY ONLY <1>1, <3>1, MakeDirTree
      <3>. QED BY <3>1, <3>2
    <2>. QED BY <1>1, <2>1, <2>2
  <1>4. ASSUME NEW v, old.pc = "save", Keeps(s, l), l.pc \in NumberedPc,
               store' = [store EXCEPT ![old.user] = [Tree(s) EXCEPT ![old.id][old.file] = v]]
        PROVE  /\ old.user = u /\ old.id = i /\ Waits(s) /\ ~ Waits(s)'
    <2>1. old.user = u
      BY <1>1, <1>4
    <2>2. store'[u] = [store[u] EXCEPT ![old.id][old.file] = v]
      BY <1>1, <1>4, <2>1 DEF Tree
    <2>3. old.id = i
      BY <2>2 DEF Listed
    <2>4. Waits(s)
      BY <1>4, <2>1, <2>3 DEF Waits, Carries, Uploading, Tree
    <2>5. ~ Waits(s)'
      BY <1>4, <2>1, <2>3 DEF Waits, Keeps, Tree
    <2>. QED BY <2>1, <2>3, <2>4, <2>5
  <1>5. CASE Opens(s, l)
    <2>1. old.pc = "save" /\ Keeps(s, l) /\ l.pc \in NumberedPc
      BY <1>5 DEF Opens, NumberedPc
    <2>. QED BY <1>4, <1>5, <2>1 DEF Opens, OpenOf, OpenFile
  <1>6. CASE Writes(s, l)
    <2>1. old.pc = "save" /\ Keeps(s, l) /\ l.pc \in NumberedPc
      BY <1>6 DEF Writes, Turns, NumberedPc
    <2>. QED BY <1>4, <1>6, <2>1 DEF Writes, WriteOf, WriteFile
  <1>. QED BY <1>2, <1>3, <1>5, <1>6 DEF Does, Arrives, Idles, Accepts, Chooses, Receives,
                                        Completes, Skips, Fails, Acks1

LEMMA CountStep ==
    ASSUME IsFiniteSet(Data), TypeInv, DataInv, CountInv, TypeInv',
           NEW s \in Sessions, StreamOK(session[s]), NEW l, Does(s, l), StepOf(s),
           session'[s] = l, \A t \in Sessions \ {s} : session'[t] = session[t]
    PROVE  CountInv'
  <1>1. used' \subseteq Data /\ used \subseteq used'
    BY HistoriesGrow DEF TypeInv
  <1>2. Spent \subseteq Spent'
    <2> SUFFICES ASSUME NEW d \in Spent, NEW t \in Sessions, Waits(t)', session'[t].data = d
                 PROVE  FALSE
      BY <1>1 DEF Spent
    <2>1. d \in used /\ \A r \in Sessions : Waits(r) => session[r].data # d
      BY DEF Spent
    <2>. QED BY <2>1, WaitsStep
  <1>3. IsFiniteSet(Spent') /\ Cardinality(Spent') \in Nat /\ Cardinality(Spent) \in Nat
        /\ Cardinality(Spent) <= Cardinality(Spent') /\ IsFiniteSet(Spent)
    <2>1. Spent' \subseteq Data
      BY <1>1 DEF Spent
    <2>2. IsFiniteSet(Spent')
      BY <2>1, FS_Subset
    <2> HIDE DEF Spent
    <2>. QED BY <1>2, <2>2, FS_Subset, FS_CardinalityType
  <1> SUFFICES ASSUME NEW u \in Users, NEW n \in Nat, Listed(store'[u]) = 1 .. n
               PROVE  n <= Archive + Cardinality(Spent')
    BY DEF CountInv
  <1>4. PICK m \in Nat : Listed(store[u]) = 1 .. m
    BY DEF TypeInv, Dense
  <1>5. m <= Archive + Cardinality(Spent) /\ Archive \in Nat
    BY <1>4, SessionAssumption DEF CountInv, SessionAssumption
  <1>6. CASE n <= m
    BY <1>3, <1>5, <1>6
  <1>7. CASE n > m
    <2>1. n \in Listed(store'[u]) /\ n \notin Listed(store[u])
      BY <1>4, <1>7
    <2>2. session[s].id = n /\ Waits(s) /\ ~ Waits(s)' /\ session[s].pc = "save"
      BY <2>1, ListsOwn
    <2>3. n = m + 1
      <3> SUFFICES ASSUME n # m + 1 PROVE FALSE
        OBVIOUS
      <3>1. m + 1 \in Listed(store'[u]) /\ m + 1 \notin Listed(store[u])
        BY <1>4, <1>7
      <3>2. session[s].id = m + 1
        BY <3>1, ListsOwn
      <3>. QED BY <2>2, <3>2
    <2> DEFINE d == session[s].data
    <2>4. d \in used /\ d \notin Spent
      BY <2>2 DEF DataInv, Waits, Spent
    <2>5. d \in Spent'
      <3> SUFFICES ASSUME NEW t \in Sessions, Waits(t)', session'[t].data = d PROVE FALSE
        BY <1>1, <2>4 DEF Spent
      <3>1. Waits(t) /\ session[t].data = d
        BY <2>4, WaitsStep
      <3>2. t = s
        BY <2>2, <3>1 DEF DataInv, Waits
      <3>. QED BY <2>2, <3>2
    <2>6. Cardinality(Spent \cup {d}) = Cardinality(Spent) + 1
      BY <1>3, <2>4, FS_AddElement
    <2>7. Cardinality(Spent \cup {d}) <= Cardinality(Spent')
      <3>1. Spent \cup {d} \subseteq Spent'
        BY <1>2, <2>5
      <3>. QED BY <1>3, <3>1, FS_Subset
    <2>. QED BY <1>3, <1>5, <2>3, <2>6, <2>7
  <1>. QED BY <1>6, <1>7, <1>4

LEMMA InitCount == ASSUME Init PROVE CountInv
  <1> SUFFICES ASSUME NEW u \in Users, NEW n \in Nat, Listed(store[u]) = 1 .. n
               PROVE  n <= Archive + Cardinality(Spent)
    BY DEF CountInv
  <1>1. Archive \in Nat /\ DOMAIN store[u] = 1 .. Archive
    BY SessionAssumption DEF SessionAssumption, Init
  <1>2. Spent = {} /\ Cardinality(Spent) = 0
    BY FS_EmptySet DEF Init, Spent
  <1>3. n <= Archive
    <2>1. 1 .. n \subseteq 1 .. Archive
      BY <1>1 DEF Listed
    <2>2. n = 0 \/ n \in 1 .. n
      OBVIOUS
    <2>. QED BY <1>1, <2>1, <2>2
  <1>. QED BY <1>1, <1>2, <1>3

\* The backup with the highest number is the last of the sorted list, as long as the
\* storage at the beginning and the uploads are so few that their numbers have no more
\* digits than createBackup pads them to.
THEOREM LatestIsLast ==
    ASSUME IsFiniteSet(Data), Fits(Archive + Cardinality(Data))
    PROVE  Spec => []LatestIsNewest
  <1> DEFINE Inv == DurableInv /\ CountInv
  <1>1. Init => Inv
    BY InitDurable, InitCount
  <1>2. Inv /\ [Next]_vars => Inv'
    <2> SUFFICES ASSUME DurableInv, CountInv, [Next]_vars PROVE DurableInv' /\ CountInv'
      OBVIOUS
    <2>0. DurableInv' /\ TypeInv /\ TypeInv' /\ DataInv
      BY NextDurable DEF DurableInv
    <2>1. CASE Next
      <3>1. PICK s \in Sessions : StepOf(s)
        BY <2>1 DEF Next, StepOf
      <3>2. PICK l : Update(s, l)
        BY <2>0, <3>1, StepUpdates DEF StepOf
      <3>3. session'[s] = l /\ \A t \in Sessions \ {s} : session'[t] = session[t]
        BY <2>0, <3>1, <3>2, LocalStep, UpdateType DEF StepOf, TypeInv
      <3>4. Does(s, l)
        BY <2>0, <3>1, <3>2, StepDoes DEF DurableInv
      <3>5. StreamOK(session[s])
        BY DEF DurableInv
      <3>. QED BY <2>0, <3>1, <3>3, <3>4, <3>5, CountStep
    <2>2. CASE UNCHANGED vars
      BY <2>0, <2>2 DEF vars, CountInv, Spent, Waits, Carries, Uploading, Tree
    <2>. QED BY <2>1, <2>2
  <1>3. Inv => LatestIsNewest
    <2> SUFFICES ASSUME DurableInv, CountInv, NEW u \in Users, Listed(store[u]) # {}
                 PROVE  IsLatest(store[u], Highest(Listed(store[u])))
      BY DEF LatestIsNewest
    <2>1. PICK n \in Nat : Listed(store[u]) = 1 .. n
      BY DEF DurableInv, TypeInv, Dense
    <2>2. n # 0 /\ Highest(Listed(store[u])) = n
      <3>1. n # 0
        BY <2>1
      <3>. QED BY <2>1, <3>1, HighestOfInterval
    <2>3. /\ Cardinality(Spent) \in Nat /\ Cardinality(Data) \in Nat
          /\ Cardinality(Spent) <= Cardinality(Data)
      <3>1. Spent \subseteq Data
        BY DEF Spent, DurableInv, TypeInv
      <3> HIDE DEF Spent
      <3>. QED BY <3>1, FS_Subset, FS_CardinalityType
    <2>4. /\ Archive \in Nat /\ n <= Archive + Cardinality(Data)
          /\ Archive + Cardinality(Data) \in Nat
      BY <2>1, <2>3, SessionAssumption DEF CountInv, SessionAssumption
    <2>5. Fits(n)
      <3>0. Width \in Nat
        BY WidthAssumption DEF WidthAssumption
      <3>1. /\ Cut(n, Width) \in Nat
            /\ Cut(n, Width) <= Cut(Archive + Cardinality(Data), Width)
        BY <2>4, <3>0, CutStep, CutSmaller
      <3>. QED BY <3>1 DEF Fits
    <2>6. \A j \in (1 .. n) \ {n} : IdBefore(j, n)
      BY <2>5, OrderOfFit
    <2>7. n \in 1 .. n
      BY <2>2
    <2>. QED BY <2>1, <2>2, <2>6, <2>7 DEF IsLatest
  <1>. QED BY <1>1, <1>2, <1>3, PTL DEF Spec
=============================================================================
