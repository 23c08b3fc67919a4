---------------------------- MODULE ServerSession ----------------------------
(***************************************************************************)
(* The READY state of concurrent server sessions over one backup storage   *)
(* (libbackup/src/network/ServerSession.cpp: run from its second loop on,  *)
(* handleBackup, handleRestore, handleListBackups).                        *)
(*                                                                         *)
(* Every connection is served by a process of its own (BackupServer forks  *)
(* one per accept), so the sessions share the storage and nothing else and *)
(* nothing orders their file operations: each read, mkdir, open and write  *)
(* is a step. A process can be killed between any two of them, because the *)
(* server sends SIGTERM to its children when it stops.                     *)
(*                                                                         *)
(* The clients are the ones of this repository. A run of one sends a whole *)
(* request without waiting for answers:                                    *)
(*     [BACKUP_START] PAYLOAD METADATA BACKUP_COMPLETE | RESTORE_REQUEST   *)
(*     | BACKUP_LIST_REQUEST                                               *)
(* and then nothing more. PAYLOAD and METADATA are the two FILE_DATA       *)
(* messages, told apart by their path. session[s].next is the first        *)
(* message the session has not read.                                       *)
(***************************************************************************)
EXTENDS ServerStorage

CONSTANTS
    Users,
    Sessions,       \* slots for session processes
    Archive,        \* each user has the backups 1 .. Archive before the run
    AskIds,         \* the backup numbers a restore client may ask for
    Requests,       \* what clients come for: "backup", "restore", "list"
    Faults          \* what may fail on the disk: a subset of {"open", "write"}

ASSUME SessionAssumption ==
    /\ Archive \in Nat
    /\ AskIds \subseteq Nat \ {0}
    /\ Nothing \notin Nat
    /\ Requests \subseteq {"backup", "restore", "list"}
    /\ Faults \subseteq {"open", "write"}

VARIABLES
    store,          \* store[u]: the tree of user u
    session,        \* session[s]: the locals of the process in slot s
    used,           \* the uploads some client has begun
    acked,          \* history: the acknowledgements sent
    excused         \* history: uploads that overlapped another upload of the
                    \* same user, or whose write the disk refused

vars == <<store, session, used, acked, excused>>

-----------------------------------------------------------------------------
Messages == {"BACKUP_START", "PAYLOAD", "METADATA", "BACKUP_COMPLETE",
             "RESTORE_REQUEST", "BACKUP_LIST_REQUEST", "EOF"}

\* The message a client sends after each message.
Following == [BACKUP_START        |-> "PAYLOAD",
              PAYLOAD             |-> "METADATA",
              METADATA            |-> "BACKUP_COMPLETE",
              BACKUP_COMPLETE     |-> "EOF",
              RESTORE_REQUEST     |-> "EOF",
              BACKUP_LIST_REQUEST |-> "EOF",
              EOF                 |-> "EOF"]

\* The order in which handleBackup saves and handleRestore loads.
FileAfter == [header |-> "payload", payload |-> "metadata",
              metadata |-> "name", name |-> "end"]

EmptyBuffers == [f \in Files |-> Nothing]

NoReply == [kind |-> "none"]

\* A slot no process runs in.
Free == [pc |-> "free", user |-> Nothing, next |-> "EOF", name |-> Nothing,
         data |-> Nothing, id |-> Nothing, buf |-> EmptyBuffers,
         file |-> "end", opened |-> FALSE, reply |-> NoReply, want |-> {}]

Init ==
    /\ store = [u \in Users |->
                    [i \in 1 .. Archive |->
                        [f \in Files |-> IF f \in BakFiles THEN Archived ELSE NoFile]]]
    /\ session = [s \in Sessions |-> Free]
    /\ used = {}
    /\ acked = {}
    /\ excused = {}

-----------------------------------------------------------------------------
Tree(s) == store[session[s].user]

\* handleBackup is running in s: from its first message to its answer.
Uploading(s) == session[s].pc \in {"named", "mkdir", "receive", "save", "ack"}

\* The sessions in which the user of s is uploading at the same time.
Rivals(s) == {t \in Sessions \ {s} :
                  Uploading(t) /\ session[t].user = session[s].user}

\* History: when s begins an upload, it and its rivals are excused.
ExcuseOverlap(s) ==
    excused' = IF Rivals(s) = {} THEN excused
               ELSE excused \cup {session[t].data : t \in Rivals(s) \cup {s}}

\* The acknowledged uploads about which something is claimed.
Settled == {a \in acked : a.data \notin excused}

SettledOf(u) == {a \in Settled : a.user = u}

Update(s, new) == session' = [session EXCEPT ![s] = new]

-----------------------------------------------------------------------------
(* Connections *)

\* A client connects and authenticates; its process reaches READY.
Arrive(u, first) == [Free EXCEPT !.pc = "ready", !.user = u, !.next = first]

ConnectToBackup(s) ==
    /\ session[s].pc = "free" /\ "backup" \in Requests
    /\ \E u \in Users, d \in Data \ used, n \in Names \cup {Nothing} :
         /\ Update(s, [Arrive(u, IF n = Nothing THEN "PAYLOAD" ELSE "BACKUP_START")
                          EXCEPT !.data = d, !.name = n])
         /\ used' = used \cup {d}
    /\ UNCHANGED <<store, acked, excused>>

ConnectToRestore(s) ==
    /\ session[s].pc = "free" /\ "restore" \in Requests
    /\ \E u \in Users, i \in AskIds \cup {Nothing} :
         Update(s, [Arrive(u, "RESTORE_REQUEST") EXCEPT !.id = i])
    /\ UNCHANGED <<store, used, acked, excused>>

ConnectToList(s) ==
    /\ session[s].pc = "free" /\ "list" \in Requests
    /\ \E u \in Users : Update(s, Arrive(u, "BACKUP_LIST_REQUEST"))
    /\ UNCHANGED <<store, used, acked, excused>>

\* The directory of a broken upload is removed.
Mutant_Disconnect(s) ==
    /\ session[s].pc \in {"ready", "named", "receive", "ack", "send", "names"}
    /\ store' = IF session[s].pc = "receive"
                THEN [store EXCEPT ![session[s].user] = DeleteBackup(@, session[s].id)]
                ELSE store
    /\ Update(s, Free)
    /\ UNCHANGED <<used, acked, excused>>

\* The READY loop does not look at type 0.
Mutant_Disconnect_NotReady(s) ==
    /\ session[s].pc \in {"named", "receive", "ack", "send", "names"}
    /\ Update(s, Free)
    /\ UNCHANGED <<store, used, acked, excused>>

\* receiveMessage returns type 0 (end of stream, reset, or 30 seconds of
\* silence), or a send fails: the handler gives up and the process exits.
Disconnect(s) ==
    /\ session[s].pc \in {"ready", "named", "receive", "ack", "send", "names"}
    /\ Update(s, Free)
    /\ UNCHANGED <<store, used, acked, excused>>

\* A signal ends the process wherever it is.
Kill(s) ==
    /\ session[s].pc # "free"
    /\ Update(s, Free)
    /\ UNCHANGED <<store, used, acked, excused>>

-----------------------------------------------------------------------------
(* handleBackup *)

\* BACKUP_START with a name in use: NAME_EXISTS, and back to the READY loop,
\* where the rest of the stream is still to be read.
RejectName(s) ==
    /\ session[s].pc = "ready"
    /\ session[s].next = "BACKUP_START"
    /\ NameExists(Tree(s), session[s].name)
    /\ Update(s, [session[s] EXCEPT !.next = Following[@],
                      !.reply = [kind |-> "error", code |-> "NAME_EXISTS"]])
    /\ UNCHANGED <<store, used, acked, excused>>

AcceptName(s) ==
    /\ session[s].pc = "ready"
    /\ session[s].next = "BACKUP_START"
    /\ ~ NameExists(Tree(s), session[s].name)
    /\ Update(s, [session[s] EXCEPT !.pc = "named", !.next = Following[@],
                      !.buf["name"] = session[s].name])
    /\ ExcuseOverlap(s)
    /\ UNCHANGED <<store, used, acked>>

\* createBackup, first half: choose the number. The message that led here (the
\* one after BACKUP_START, or the first of an unnamed backup) is still unread.
ChooseNumber(s) ==
    /\ session[s].pc \in {"ready", "named"}
    /\ session[s].next \in {"PAYLOAD", "METADATA", "BACKUP_COMPLETE"}
    /\ Update(s, [session[s] EXCEPT !.pc = "mkdir", !.id = NextNumber(Tree(s))])
    /\ ExcuseOverlap(s)
    /\ UNCHANGED <<store, used, acked>>

\* The name saved as soon as there is a directory.
Mutant_MakeBackupDir(s) ==
    /\ session[s].pc = "mkdir"
    /\ store' = [store EXCEPT ![session[s].user] =
                    LET tree == MakeDir(@, session[s].id)
                    IN  IF session[s].buf["name"] = Nothing THEN tree
                        ELSE WriteFile(tree, session[s].id, "name", session[s].buf["name"])]
    /\ Update(s, [session[s] EXCEPT !.pc = "receive"])
    /\ UNCHANGED <<used, acked, excused>>

\* createBackup, second half.
MakeBackupDir(s) ==
    /\ session[s].pc = "mkdir"
    /\ store' = [store EXCEPT ![session[s].user] = MakeDir(@, session[s].id)]
    /\ Update(s, [session[s] EXCEPT !.pc = "receive"])
    /\ UNCHANGED <<used, acked, excused>>

\* FILE_DATA messages are kept in memory. The .bak is cut into header and
\* payload only when the stream is complete.
Received(s) ==
    LET b == session[s].buf
        d == session[s].data
    IN  IF session[s].next = "PAYLOAD"
        THEN [b EXCEPT !["header"] = d, !["payload"] = d]
        ELSE [b EXCEPT !["metadata"] = d]

ReceiveFileData(s) ==
    /\ session[s].pc = "receive"
    /\ session[s].next \in {"PAYLOAD", "METADATA"}
    /\ Update(s, [session[s] EXCEPT !.buf = Received(s), !.next = Following[@]])
    /\ UNCHANGED <<store, used, acked, excused>>

ReceiveComplete(s) ==
    /\ session[s].pc = "receive"
    /\ session[s].next = "BACKUP_COMPLETE"
    /\ Update(s, [session[s] EXCEPT !.pc = "save", !.file = "header", !.next = Following[@]])
    /\ UNCHANGED <<store, used, acked, excused>>

\* Move on to the next file, or to the acknowledgement after the last one.
NextFile(l) == [l EXCEPT !.file = FileAfter[@], !.opened = FALSE,
                    !.pc = IF FileAfter[l.file] = "end" THEN "ack" ELSE "save"]

\* An empty buffer is not saved: a backup without a name has no .name.
SkipFile(s) ==
    /\ session[s].pc = "save"
    /\ session[s].buf[session[s].file] = Nothing
    /\ Update(s, NextFile(session[s]))
    /\ UNCHANGED <<store, used, acked, excused>>

OpenForSave(s) ==
    /\ session[s].pc = "save" /\ ~ session[s].opened
    /\ session[s].buf[session[s].file] # Nothing
    /\ store' = [store EXCEPT ![session[s].user] =
                    OpenFile(@, session[s].id, session[s].file)]
    /\ Update(s, [session[s] EXCEPT !.opened = TRUE])
    /\ UNCHANGED <<used, acked, excused>>

WriteAndClose(s) ==
    /\ session[s].pc = "save" /\ session[s].opened
    /\ store' = [store EXCEPT ![session[s].user] =
                    WriteFile(@, session[s].id, session[s].file,
                              session[s].buf[session[s].file])]
    /\ Update(s, NextFile(session[s]))
    /\ UNCHANGED <<used, acked, excused>>

\* The disk refuses the open or the write. saveHeader, savePayload,
\* saveMetadata and saveBackupName return false, and handleBackup goes on.
SaveFails(s) ==
    /\ session[s].pc = "save"
    /\ session[s].buf[session[s].file] # Nothing
    /\ (IF session[s].opened THEN "write" ELSE "open") \in Faults
    /\ Update(s, NextFile(session[s]))
    /\ excused' = excused \cup {session[s].data}
    /\ UNCHANGED <<store, used, acked>>

Acknowledge(s) ==
    /\ session[s].pc = "ack"
    /\ acked' = acked \cup
                 {[user |-> session[s].user, id |-> session[s].id, data |-> session[s].data,
                   name |-> session[s].buf["name"], asked |-> session[s].name]}
    /\ Update(s, [Free EXCEPT !.pc = "ready", !.user = session[s].user,
                      !.next = session[s].next, !.data = session[s].data,
                      !.reply = [kind |-> "ack", id |-> session[s].id]])
    /\ UNCHANGED <<store, used, excused>>

-----------------------------------------------------------------------------
(* handleRestore *)

NotFound == [kind |-> "error", code |-> "BACKUP_NOT_FOUND"]

\* An empty request, and no backup.
RestoreNothing(s) ==
    /\ session[s].pc = "ready"
    /\ session[s].next = "RESTORE_REQUEST"
    /\ session[s].id = Nothing /\ Listed(Tree(s)) = {}
    /\ Update(s, [session[s] EXCEPT !.next = Following[@], !.reply = NotFound])
    /\ UNCHANGED <<store, used, acked, excused>>

\* The request names backup i, or is empty and i is the latest one.
BeginRestore(s) ==
    /\ session[s].pc = "ready"
    /\ session[s].next = "RESTORE_REQUEST"
    /\ \E i \in AskIds \cup Listed(Tree(s)) :
         /\ \/ session[s].id = i
            \/ session[s].id = Nothing /\ IsLatest(Tree(s), i)
         /\ Update(s, [session[s] EXCEPT
                           !.pc = "load", !.next = Following[@], !.id = i,
                           !.file = "header",
                           !.want = {a \in SettledOf(session[s].user) : a.id = i}])
    /\ UNCHANGED <<store, used, acked, excused>>

\* Each file is taken from what is the latest backup by then.
Mutant_LoadNext(s) ==
    /\ session[s].pc = "load"
    /\ \E i \in Listed(Tree(s)) :
         /\ IsLatest(Tree(s), i)
         /\ Update(s, [session[s] EXCEPT
                           !.buf[session[s].file] = Load(Tree(s), i, session[s].file),
                           !.file = FileAfter[@],
                           !.pc = IF FileAfter[session[s].file] = "name" THEN "send" ELSE "load"])
    /\ UNCHANGED <<store, used, acked, excused>>

LoadNext(s) ==
    /\ session[s].pc = "load"
    /\ Update(s, [session[s] EXCEPT
                      !.buf[session[s].file] = Load(Tree(s), session[s].id, session[s].file),
                      !.file = FileAfter[@],
                      !.pc = IF FileAfter[session[s].file] = "name" THEN "send" ELSE "load"])
    /\ UNCHANGED <<store, used, acked, excused>>

\* loadMetadata gives an empty or cut off metadata.bin to deserialize, which
\* reads the number of entries without looking at the size: an invalid read,
\* which ends the process (always, when the file is empty).
CrashOnTornMetadata(s) ==
    /\ session[s].pc = "load" /\ session[s].file = "metadata"
    /\ session[s].id \in DOMAIN Tree(s) /\ Tree(s)[session[s].id]["metadata"] = Torn
    /\ Update(s, Free)
    /\ UNCHANGED <<store, used, acked, excused>>

Loaded(s) ==
    IF session[s].buf["header"] = Nothing /\ session[s].buf["payload"] = Nothing
    THEN NotFound
    ELSE [kind |-> "bak", files |-> [f \in BakFiles |-> session[s].buf[f]]]

SendRestored(s) ==
    /\ session[s].pc = "send"
    /\ Update(s, [Free EXCEPT !.pc = "ready", !.user = session[s].user, !.id = session[s].id,
                      !.want = session[s].want, !.reply = Loaded(s)])
    /\ UNCHANGED <<store, used, acked, excused>>

-----------------------------------------------------------------------------
(* handleListBackups: the IDs first, then the name of each *)

BeginList(s) ==
    /\ session[s].pc = "ready"
    /\ session[s].next = "BACKUP_LIST_REQUEST"
    /\ Update(s, [session[s] EXCEPT
                      !.pc = "names", !.next = Following[@],
                      !.want = SettledOf(session[s].user),
                      !.reply = [kind |-> "ids", ids |-> Listed(Tree(s))]])
    /\ UNCHANGED <<store, used, acked, excused>>

SendList(s) ==
    /\ session[s].pc = "names"
    /\ Update(s, [session[s] EXCEPT
                      !.pc = "ready",
                      !.reply = [kind |-> "list",
                                 names |-> {[id |-> i, name |-> BackupName(Tree(s), i)] :
                                               i \in session[s].reply.ids}]])
    /\ UNCHANGED <<store, used, acked, excused>>

-----------------------------------------------------------------------------
Handle(s) ==
    \/ RejectName(s) \/ AcceptName(s) \/ ChooseNumber(s) \/ MakeBackupDir(s)
    \/ ReceiveFileData(s) \/ ReceiveComplete(s)
    \/ SkipFile(s) \/ OpenForSave(s) \/ WriteAndClose(s) \/ SaveFails(s)
    \/ Acknowledge(s)
    \/ RestoreNothing(s) \/ BeginRestore(s) \/ LoadNext(s) \/ CrashOnTornMetadata(s)
    \/ SendRestored(s)
    \/ BeginList(s) \/ SendList(s)

Connect(s) == ConnectToBackup(s) \/ ConnectToRestore(s) \/ ConnectToList(s)

Next == \E s \in Sessions : Connect(s) \/ Handle(s) \/ Disconnect(s) \/ Kill(s)

Spec == Init /\ [][Next]_vars

\* The scheduler runs every process, and a read returns after 30 seconds at
\* the latest. Nothing makes a client connect or a signal arrive.
FairSpec == Spec /\ \A s \in Sessions : WF_vars(Handle(s) \/ Disconnect(s))

-----------------------------------------------------------------------------
(* Properties *)

Acks == [user : Users, id : Nat \ {0}, data : Data, name : Names \cup {Nothing},
         asked : Names \cup {Nothing}]

Replies ==
    {NoReply}
    \cup [kind : {"error"}, code : {"NAME_EXISTS", "BACKUP_NOT_FOUND"}]
    \cup [kind : {"ack"}, id : Nat \ {0}]
    \cup [kind : {"bak"}, files : [BakFiles -> FileState \cup {Nothing}]]
    \cup [kind : {"ids"}, ids : SUBSET Nat]
    \cup [kind : {"list"}, names : SUBSET [id : Nat, name : FileState \cup {Nothing}]]

SessionState ==
    [pc : {"free", "ready", "named", "mkdir", "receive", "save", "ack",
           "load", "send", "names"},
     user : Users \cup {Nothing}, next : Messages, name : Names \cup {Nothing},
     data : Data \cup {Nothing}, id : (Nat \ {0}) \cup {Nothing},
     buf : [Files -> FileState \cup {Nothing}], file : Files \cup {"end"},
     opened : BOOLEAN, reply : Replies, want : SUBSET Acks]

\* The types of the variables.
TypeOK ==
    /\ DOMAIN store = Users /\ \A u \in Users : IsTree(store[u])
    /\ session \in [Sessions -> SessionState]
    /\ used \subseteq Data
    /\ acked \subseteq Acks
    /\ excused \subseteq Data

Holds(tree, i, d) == i \in DOMAIN tree /\ \A f \in BakFiles : tree[i][f] = d

\* Durability. An acknowledged upload stays in the storage, whole, under the
\* acknowledged ID and name, whatever other sessions, kills and later uploads
\* do, unless it overlapped an upload of its own user or the disk refused one
\* of its writes.
AckedIntact ==
    \A a \in Settled :
        /\ Holds(store[a.user], a.id, a.data)
        /\ a.name # Nothing => BackupName(store[a.user], a.id) = a.name

\* A backup directory is reused when its number was chosen by a process that
\* died before header.bin; nothing of the earlier process shows in it: the
\* acknowledged backup of an unnamed upload has no name.
NoInheritedName ==
    \A a \in Settled : a.name = Nothing => BackupName(store[a.user], a.id) = Nothing

\* The listed numbers are 1 .. n without a gap, however many sessions choose
\* numbers at once and wherever they die.
ListedDense ==
    \A u \in Users : \A i \in Listed(store[u]) : 1 .. i \subseteq Listed(store[u])

\* What a restore sends for a backup that was settled when it began is that
\* backup, although it reads the three files in three steps.
RestoreExact ==
    \A s \in Sessions : \A a \in session[s].want :
        session[s].reply.kind \in {"bak", "error"} =>
            session[s].reply = [kind |-> "bak", files |-> [f \in BakFiles |-> a.data]]

\* A list shows every backup that was settled when it began, with its name.
ListComplete ==
    \A s \in Sessions : \A a \in session[s].want :
        session[s].reply.kind = "list" =>
            [id |-> a.id, name |-> a.name] \in session[s].reply.names

\* "Latest" (the ID an empty RESTORE_REQUEST means) is the backup with the
\* highest number: the one created last.
LatestIsNewest ==
    \A u \in Users : Listed(store[u]) # {} =>
        IsLatest(store[u], Highest(Listed(store[u])))

\* A step never makes a listed backup disappear from the list.
ListedStays == [][\A u \in Users : Listed(store[u]) \subseteq Listed(store'[u])]_vars

\* Every session process ends: no handler waits for ever.
SessionsEnd == \A s \in Sessions : session[s].pc # "free" ~> session[s].pc = "free"

\* The settled uploads are a catalog that only grows, by entries with a new ID
\* and a new name.
Catalog == INSTANCE BackupCatalog WITH
    catalog <- {[user |-> a.user, id |-> a.id, name |-> a.name, data |-> a.data] :
                    a \in Settled}

ImplementsCatalog == Catalog!Spec

-----------------------------------------------------------------------------
(* Claims of the code's own comments that the code does not keep *)

\* createBackup creates a new backup: two sessions never write one directory.
DirectoriesNotShared ==
    \A s, t \in Sessions :
        /\ s # t /\ session[s].user = session[t].user
        /\ session[s].pc \in {"receive", "save"} /\ session[t].pc \in {"receive", "save"}
        => session[s].id # session[t].id

\* The name check makes names unique, also between concurrent uploads.
NamesUnique ==
    \A a, b \in acked : a.user = b.user /\ a.name = b.name /\ a.name # Nothing => a = b

\* An upload whose name is rejected is not stored.
RejectedNotStored == \A a \in acked : a.name = a.asked

\* An acknowledged backup was saved, also when the disk was full.
AckMeansSaved == \A a \in acked : Holds(store[a.user], a.id, a.data)

\* A restore sends a whole .bak, header and payload of one upload.
RestoreSendsWholeBak ==
    \A s \in Sessions : session[s].reply.kind = "bak" =>
        /\ session[s].reply.files["header"] # Nothing
        /\ session[s].reply.files["payload"] = session[s].reply.files["header"]
=============================================================================
