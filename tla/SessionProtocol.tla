---------------------------- MODULE SessionProtocol ----------------------------
(***************************************************************************)
(* One run of a client program against one server session: the messages of *)
(* handshake, authentication and one request, over a TCP connection that   *)
(* can break (libbackup/src/network: NetworkBackupClient.cpp,              *)
(* NetworkRestoreClient.cpp, ServerSession.cpp; gui workers RegisterWorker *)
(* and RemoteListWorker; the user command of client/src/main.cpp).         *)
(*                                                                         *)
(* Both ends switch to encrypted payloads by themselves: initSession sets  *)
(* active, and from then on each sent and each received message takes the  *)
(* next number of a counter of its direction, from which the key stream of *)
(* that one message is derived. A message is readable only when its        *)
(* receiver decrypts exactly the messages that were encrypted, with the    *)
(* number they were encrypted with.                                        *)
(*                                                                         *)
(* Definitions named Mutant_X are wrong forms of X that no specification   *)
(* uses: they replace X to show that the properties can fail.              *)
(***************************************************************************)
EXTENDS Naturals, Sequences

VARIABLES
    client,     \* the locals of the client program
    server,     \* the locals of the session process
    toServer,   \* messages on their way to the server, FIFO
    toClient,   \* messages on their way to the client, FIFO
    world       \* what the server finds in its files; chosen once

vars == <<client, server, toServer, toClient, world>>

\* Response messages are named with their status byte: _0 success, _1 failure.
Requests == {"BACKUP_START", "PAYLOAD", "METADATA", "BACKUP_COMPLETE",
             "RESTORE_REQUEST", "BACKUP_LIST_REQUEST", "none"}

Message == [type : STRING, encrypted : BOOLEAN, seq : Nat]

\* The programs: backup (login, else register), restore and list (login only), and
\* the two that only authenticate: register and login.
Programs == {"backup", "restore", "list", "register", "login"}

AuthOnly == {"register", "login"}

World == [userKnown : BOOLEAN, passwordRight : BOOLEAN,
          nameTaken : BOOLEAN, hasBackup : BOOLEAN]

ClientPc == {"hello", "awaitHello", "login", "awaitSalt", "proof", "awaitLogin",
             "register", "awaitRegister", "request", "awaitReply", "done"}

ServerPc == {"hello", "auth", "proof", "ready", "named", "receive", "closed"}

Init ==
    /\ \E p \in Programs, n \in BOOLEAN :
         client = [program |-> p, named |-> n, pc |-> "hello", next |-> "none",
                   active |-> FALSE, sendSeq |-> 0, recvSeq |-> 0,
                   result |-> "none", confirmed |-> FALSE]
    /\ server = [pc |-> "hello", active |-> FALSE, sendSeq |-> 0, recvSeq |-> 0,
                 authenticated |-> FALSE, named |-> FALSE, got |-> {},
                 stored |-> 0, storedNamed |-> FALSE,
                 gaveUpOnProof |-> FALSE, surprised |-> FALSE]
    /\ toServer = <<>> /\ toClient = <<>>
    /\ world \in World

-----------------------------------------------------------------------------
\* sendEncrypted: encrypted, and numbered, once the sender's encryptor is on.
Seal(end, type) == [type |-> type, encrypted |-> end.active,
                    seq |-> IF end.active THEN end.sendSeq ELSE 0]

CountSent(end) == [end EXCEPT !.sendSeq = IF end.active THEN @ + 1 ELSE @]

\* receiveEncrypted
CountReceived(end) == [end EXCEPT !.recvSeq = IF end.active THEN @ + 1 ELSE @]

\* What follows each message of a request.
Following(m) == CASE m = "BACKUP_START" -> "PAYLOAD"
                  [] m = "PAYLOAD"      -> "METADATA"
                  [] m = "METADATA"     -> "BACKUP_COMPLETE"
                  [] OTHER              -> "none"

FirstRequest == CASE client.program = "restore" -> "RESTORE_REQUEST"
                  [] client.program = "list"    -> "BACKUP_LIST_REQUEST"
                  [] client.program = "backup"  ->
                       IF client.named THEN "BACKUP_START" ELSE "PAYLOAD"
                  [] client.program \in AuthOnly -> "none"

-----------------------------------------------------------------------------
(* The client *)

Return(c, value) == [c EXCEPT !.pc = "done", !.result = value]

ClientSend(pc, type, next) ==
    /\ client.pc = pc
    /\ toServer' = Append(toServer, Seal(client, type))
    /\ client' = [CountSent(client) EXCEPT !.pc = next]
    /\ UNCHANGED <<server, toClient, world>>

\* The receive loop of a restore does not look at type 0.
Mutant_ClientCutOff ==
    /\ client.pc # "done" /\ ~ (client.pc = "awaitReply" /\ client.program = "restore")
    /\ server.pc = "closed" /\ (toClient = <<>> \/ toServer # <<>>)
    /\ client' = Return(client, "false")
    /\ UNCHANGED <<server, toServer, toClient, world>>

\* A send or a receive fails: the server has closed the connection, or the
\* network has. Only the last receive of a backup ignores that.
ClientCutOff ==
    /\ client.pc # "done"
    /\ server.pc = "closed" /\ (toClient = <<>> \/ toServer # <<>>)
    /\ client' = CASE client.pc = "awaitReply" /\ client.program = "backup" ->
                          Return(client, "true")
                   [] client.program = "backup"
                      /\ client.pc \in {"login", "awaitSalt", "proof", "awaitLogin"} ->
                          [client EXCEPT !.pc = "register"]
                   [] OTHER -> Return(client, "false")
    /\ UNCHANGED <<server, toServer, toClient, world>>

\* The first message for the client is of this type; c is the client after it.
ClientReceive(pc, types, c) ==
    /\ client.pc = pc
    /\ toClient # <<>> /\ Head(toClient).type \in types
    /\ toClient' = Tail(toClient)
    /\ client' = c
    /\ UNCHANGED <<server, toServer, world>>

\* initSession after a successful login or registration. The programs that only
\* authenticate are at their end, and close the connection.
Authenticated(c) ==
    LET on == [c EXCEPT !.active = TRUE, !.pc = "request", !.next = FirstRequest]
    IN  IF c.program \in AuthOnly THEN Return(c, "true") ELSE on

\* run() does not look at the result of doLogin.
Mutant_LoginFailed(c) ==
    IF c.program = "backup" THEN [c EXCEPT !.pc = "request", !.next = FirstRequest]
                            ELSE Return(c, "false")

\* run() goes on to doRegister; the other programs give up.
LoginFailed(c) ==
    IF c.program = "backup" THEN [c EXCEPT !.pc = "register"] ELSE Return(c, "false")

Hello == ClientSend("hello", "CLIENT_HELLO", "awaitHello")

GotHello == ClientReceive("awaitHello", {"SERVER_HELLO"},
    [client EXCEPT !.pc = IF client.program = "register" THEN "register" ELSE "login"])

Login == ClientSend("login", "LOGIN_REQUEST", "awaitSalt")

GotSalt == ClientReceive("awaitSalt", {"LOGIN_SALT"}, [client EXCEPT !.pc = "proof"])

NoSalt == ClientReceive("awaitSalt", {"LOGIN_RESPONSE_1"}, LoginFailed(client))

Proof == ClientSend("proof", "LOGIN_PROOF", "awaitLogin")

LoggedIn == ClientReceive("awaitLogin", {"LOGIN_RESPONSE_0"}, Authenticated(client))

NotLoggedIn == ClientReceive("awaitLogin", {"LOGIN_RESPONSE_1", "ERROR"}, LoginFailed(client))

Register == ClientSend("register", "REGISTER_REQUEST", "awaitRegister")

Registered ==
    ClientReceive("awaitRegister", {"REGISTER_RESPONSE_0"}, Authenticated(client))

NotRegistered ==
    ClientReceive("awaitRegister", {"REGISTER_RESPONSE_1", "ERROR"}, Return(client, "false"))

\* The messages of the request, one after the other without an answer between.
SendRequest ==
    /\ client.pc = "request"
    /\ toServer' = Append(toServer, Seal(client, client.next))
    /\ client' = [CountSent(client) EXCEPT
                      !.next = Following(@),
                      !.pc = IF Following(client.next) = "none" THEN "awaitReply" ELSE @]
    /\ UNCHANGED <<server, toClient, world>>

\* The backup cannot be built: the source cannot be packed, or the temporary file
\* cannot be written or read.
BuildFails ==
    /\ client.pc = "request" /\ client.next = "PAYLOAD"
    /\ client' = Return(client, "false")
    /\ UNCHANGED <<server, toServer, toClient, world>>

\* What the programs make of a reply. A backup returns true whatever it is.
AfterReply(type) ==
    LET c == CountReceived(client)
    IN  CASE client.program = "backup" ->
                 Return([c EXCEPT !.confirmed = type = "BACKUP_ACK"], "true")
          [] client.program = "restore" /\ type = "FILE_DATA" -> c
          [] client.program = "restore" /\ type = "RESTORE_COMPLETE" -> Return(c, "true")
          [] client.program = "list" /\ type = "BACKUP_LIST_RESPONSE" -> Return(c, "true")
          [] OTHER -> Return(c, "false")

GotReply ==
    /\ client.pc = "awaitReply" /\ toClient # <<>>
    /\ client' = AfterReply(Head(toClient).type)
    /\ toClient' = Tail(toClient)
    /\ UNCHANGED <<server, toServer, world>>

\* The program is ended by its user, or the machine it runs on fails.
ClientDies ==
    /\ client.pc # "done"
    /\ client' = Return(client, "died")
    /\ UNCHANGED <<server, toServer, toClient, world>>

Client ==
    \/ Hello \/ GotHello \/ Login \/ GotSalt \/ NoSalt \/ Proof \/ LoggedIn
    \/ NotLoggedIn \/ Register \/ Registered \/ NotRegistered
    \/ SendRequest \/ BuildFails \/ GotReply \/ ClientCutOff

-----------------------------------------------------------------------------
(* The server session *)

\* sendResponse and the salt are never encrypted, also once the session is.
Plain(type) == [type |-> type, encrypted |-> FALSE, seq |-> 0]

\* The session reads a message of one of these types in this state, sends the
\* answers and goes on as s.
ServerHandles(pc, types, answers, s) ==
    /\ server.pc = pc
    /\ toServer # <<>> /\ Head(toServer).type \in types
    /\ toServer' = Tail(toServer)
    /\ toClient' = toClient \o answers
    /\ server' = s
    /\ UNCHANGED <<client, world>>

\* The session after the message it is reading.
Read == CountReceived(server)

\* sendEncrypted of several messages, and the session after them.
SealAll(end, types) ==
    [i \in DOMAIN types |-> [type |-> types[i], encrypted |-> end.active,
                             seq |-> IF end.active THEN end.sendSeq + i - 1 ELSE 0]]

Sent(end, n) == [end EXCEPT !.sendSeq = IF end.active THEN @ + n ELSE @]

Greet == ServerHandles("hello", {"CLIENT_HELLO"}, <<Plain("SERVER_HELLO")>>,
                       [server EXCEPT !.pc = "auth"])

\* initSession of the server.
Admit(s) == [s EXCEPT !.pc = "ready", !.active = TRUE, !.authenticated = TRUE]

HandleLogin ==
    IF world.userKnown
    THEN ServerHandles("auth", {"LOGIN_REQUEST"}, <<Plain("LOGIN_SALT")>>,
                       [Read EXCEPT !.pc = "proof"])
    ELSE ServerHandles("auth", {"LOGIN_REQUEST"}, <<Plain("LOGIN_RESPONSE_1")>>, Read)

\* The answer to a right proof is already encrypted.
Mutant_CheckProof ==
    IF world.passwordRight
    THEN ServerHandles("proof", {"LOGIN_PROOF"},
                       SealAll(Admit(Read), <<"LOGIN_RESPONSE_0">>), Sent(Admit(Read), 1))
    ELSE ServerHandles("proof", {"LOGIN_PROOF"}, <<Plain("LOGIN_RESPONSE_1")>>,
                       [Read EXCEPT !.pc = "auth"])

CheckProof ==
    IF world.passwordRight
    THEN ServerHandles("proof", {"LOGIN_PROOF"}, <<Plain("LOGIN_RESPONSE_0")>>, Admit(Read))
    ELSE ServerHandles("proof", {"LOGIN_PROOF"}, <<Plain("LOGIN_RESPONSE_1")>>,
                       [Read EXCEPT !.pc = "auth"])

HandleRegister ==
    IF world.userKnown
    THEN ServerHandles("auth", {"REGISTER_REQUEST"}, <<Plain("REGISTER_RESPONSE_1")>>, Read)
    ELSE ServerHandles("auth", {"REGISTER_REQUEST"}, <<Plain("REGISTER_RESPONSE_0")>>,
                       Admit(Read))

\* NOT_LOGGED_IN for anything else in the AUTH state.
NotNow ==
    /\ server.pc = "auth"
    /\ toServer # <<>> /\ Head(toServer).type \notin {"LOGIN_REQUEST", "REGISTER_REQUEST"}
    /\ ServerHandles("auth", {Head(toServer).type}, SealAll(Read, <<"ERROR">>),
                     [Sent(Read, 1) EXCEPT !.surprised = TRUE])

\* handleBackup: NAME_EXISTS goes back to the READY loop with the rest of the
\* request still unread.
HandleBackupStart ==
    IF world.nameTaken
    THEN ServerHandles("ready", {"BACKUP_START"}, SealAll(Read, <<"ERROR">>), Sent(Read, 1))
    ELSE ServerHandles("ready", {"BACKUP_START"}, <<>>,
                       [Read EXCEPT !.pc = "named", !.named = TRUE])

\* createBackup: the message that leads to it is read later.
CreateBackup ==
    /\ server.pc \in {"ready", "named"}
    /\ toServer # <<>>
    /\ Head(toServer).type \in {"PAYLOAD", "METADATA", "BACKUP_COMPLETE"}
    /\ server' = [server EXCEPT !.pc = "receive", !.got = {}]
    /\ UNCHANGED <<client, toServer, toClient, world>>

ReceiveFileData ==
    /\ toServer # <<>>
    /\ ServerHandles("receive", {"PAYLOAD", "METADATA"}, <<>>,
                     [Read EXCEPT !.got = @ \cup {Head(toServer).type}])

SaveAndAcknowledge ==
    ServerHandles("receive", {"BACKUP_COMPLETE"}, SealAll(Read, <<"BACKUP_ACK">>),
                  [Sent(Read, 1) EXCEPT
                       !.pc = "ready", !.named = FALSE, !.got = {},
                       !.stored = IF "PAYLOAD" \in server.got THEN @ + 1 ELSE @,
                       !.storedNamed = server.named])

Restored == <<"FILE_DATA", "FILE_DATA", "RESTORE_COMPLETE">>

HandleRestore ==
    IF world.hasBackup
    THEN ServerHandles("ready", {"RESTORE_REQUEST"}, SealAll(Read, Restored), Sent(Read, 3))
    ELSE ServerHandles("ready", {"RESTORE_REQUEST"}, SealAll(Read, <<"ERROR">>), Sent(Read, 1))

HandleListBackups ==
    ServerHandles("ready", {"BACKUP_LIST_REQUEST"},
                  SealAll(Read, <<"BACKUP_LIST_RESPONSE">>), Sent(Read, 1))

\* receiveMessage returns type 0: 30 seconds without a message, or the client
\* is gone, which can also lose messages the session has not read. Only the
\* wait for a proof does not end the session.
Silence == toServer = <<>> \/ client.pc = "done"

HelloMissing ==
    /\ server.pc = "hello" /\ Silence
    /\ server' = [server EXCEPT !.pc = "closed"]
    /\ toClient' = Append(toClient, Plain("ERROR"))
    /\ UNCHANGED <<client, toServer, world>>

ProofMissing ==
    /\ server.pc = "proof" /\ Silence
    /\ server' = [Sent(server, 1) EXCEPT !.pc = "auth", !.gaveUpOnProof = TRUE]
    /\ toClient' = toClient \o SealAll(server, <<"ERROR">>)
    /\ UNCHANGED <<client, toServer, world>>

\* A broken stream ends the receive loop, and what has come is saved.
Mutant_GiveUp ==
    /\ server.pc \in {"auth", "ready", "named", "receive"} /\ Silence
    /\ server' = [server EXCEPT !.pc = "closed",
                      !.stored = IF "PAYLOAD" \in server.got THEN @ + 1 ELSE @]
    /\ UNCHANGED <<client, toServer, toClient, world>>

GiveUp ==
    /\ server.pc \in {"auth", "ready", "named", "receive"} /\ Silence
    /\ server' = [server EXCEPT !.pc = "closed"]
    /\ UNCHANGED <<client, toServer, toClient, world>>

ServerDies ==
    /\ server.pc # "closed"
    /\ server' = [server EXCEPT !.pc = "closed"]
    /\ UNCHANGED <<client, toServer, toClient, world>>

Server ==
    \/ Greet \/ HandleLogin \/ CheckProof \/ HandleRegister \/ NotNow
    \/ HandleBackupStart \/ CreateBackup \/ ReceiveFileData \/ SaveAndAcknowledge
    \/ HandleRestore \/ HandleListBackups
    \/ HelloMissing \/ ProofMissing \/ GiveUp

-----------------------------------------------------------------------------
Next == Client \/ Server \/ ClientDies \/ ServerDies

Spec == Init /\ [][Next]_vars

\* Both programs run; the server's receive ends after 30 seconds at the latest.
\* The client's receive has no timeout.
FairSpec == Spec /\ WF_vars(Client) /\ WF_vars(Server)

-----------------------------------------------------------------------------
(* Properties *)

\* The end that reads the head of this channel can decrypt it.
Readable(channel, reader) ==
    channel # <<>> =>
        /\ Head(channel).encrypted = reader.active
        /\ reader.active => Head(channel).seq = reader.recvSeq

\* The two ends never disagree about which messages are encrypted or about
\* their numbers, although each switches on its own and some answers after the
\* switch are sent in the clear; and a client that believes to be logged in is.
EndsAgree ==
    /\ client.pc # "done" => Readable(toClient, client)
    /\ server.pc # "closed" => Readable(toServer, server)
    /\ client.active => server.authenticated

\* No program sends a request the server does not expect where it is, except
\* when the server has given up waiting for a proof that was still coming.
NeverSurprised == server.surprised => server.gaveUpOnProof

\* Nothing is stored of a request the client has not sent to its end, and nothing
\* twice; and "Backup complete! ID" is printed only when the server has stored
\* this upload under the name the client asked for.
StoredOnce ==
    /\ server.stored > 0 =>
           /\ server.stored = 1
           /\ client.pc \in {"awaitReply", "done"} /\ client.next = "none"
    /\ client.confirmed => server.stored = 1 /\ server.storedNamed = client.named

\* Neither end waits for ever, whatever the other does: the client, which has no
\* timeout, depends on the server's.
BothEnd == <>(client.pc = "done" /\ server.pc = "closed")

-----------------------------------------------------------------------------
(* A claim of the repository that the code does not keep *)

\* A remote backup that run() reports as done has been acknowledged.
TrueMeansConfirmed ==
    client.program = "backup" /\ client.result = "true" => client.confirmed
=============================================================================
