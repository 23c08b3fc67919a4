----------------------------- MODULE BackupServer -----------------------------
(***************************************************************************)
(* The parent process of the server: BackupServer::start, its signal       *)
(* handlers and the processes it forks                                     *)
(* (libbackup/src/network/BackupServer.cpp).                               *)
(*                                                                         *)
(* One process serves one client, so a client stands for its process and   *)
(* for its PID; PIDs are not reused. What a session does is in the modules *)
(* ServerSession and UserManager: here it runs until it ends by itself or  *)
(* a signal ends it.                                                       *)
(*                                                                         *)
(* Definitions named Mutant_X are wrong forms of X that no specification   *)
(* uses: they replace X to show that the properties can fail.              *)
(***************************************************************************)
EXTENDS Integers, FiniteSets

CONSTANTS
    Clients,
    NoClient,
    MaxConnections,     \* config.maxConnections(): the backlog given to listen
    MaxWaits,           \* the seconds of the wait at shutdown; 10 in the code
    MaxSignals          \* bound: stop signals in a behaviour

ASSUME ServerAssumption ==
    /\ MaxConnections \in Nat /\ MaxWaits \in Nat /\ MaxSignals \in Nat
    /\ IsFiniteSet(Clients) /\ NoClient \notin Clients

VARIABLES
    pc,         \* where the parent is in start()
    running,    \* running_
    pending,    \* connections in the kernel's accept queue
    conn,       \* the client whose connection was accepted last
    child,      \* child[c]: the state of the process that serves c
    childPids,  \* childPids_
    todo,       \* what is left of childPids_ in the loop the parent is in
    waited,     \* the local of the wait loop
    signals,    \* history: stop signals delivered since start()
    heard       \* history: one of them came where it could be noticed

vars == <<pc, running, pending, conn, child, childPids, todo, waited, signals, heard>>

ServerPc == {"setup", "test", "calling", "accept", "reap", "fork", "record",
             "closing", "drain", "count", "terminate", "wait", "sleep",
             "drainAgain", "force", "waitAll", "stopped", "failed"}

\* "starting": forked, with the parent's handlers still installed.
ChildState == {"none", "starting", "running", "dying", "zombie", "reaped"}

Init ==
    /\ pc = "setup" /\ running = FALSE
    /\ pending = {} /\ conn = NoClient
    /\ child = [c \in Clients |-> "none"]
    /\ childPids = {} /\ todo = {} /\ waited = 0
    /\ signals = 0 /\ heard = FALSE

parentLocals == <<running, conn, childPids, todo, waited>>
history == <<signals, heard>>

-----------------------------------------------------------------------------
Alive(c) == child[c] \in {"starting", "running"}

\* kill(pid, 0) succeeds until the process has been waited for.
Exists(c) == child[c] \in {"starting", "running", "dying", "zombie"}

Zombies == {c \in Clients : child[c] = "zombie"}

Listening == pc \in {"test", "calling", "accept", "reap", "fork", "record"}

\* SIGTERM ends a process that has reset its handlers, and only reaches the
\* copy of running_ in one that has not.
Terminated(c) == IF child[c] = "running" THEN "dying" ELSE child[c]

-----------------------------------------------------------------------------
(* Clients and children *)

Connect(c) ==
    /\ Listening
    /\ child[c] = "none" /\ c \notin pending /\ c # conn
    /\ Cardinality(pending) <= MaxConnections
    /\ pending' = pending \cup {c}
    /\ UNCHANGED <<pc, parentLocals, child, history>>

ResetHandlers(c) ==
    /\ child[c] = "starting"
    /\ child' = [child EXCEPT ![c] = "running"]
    /\ UNCHANGED <<pc, parentLocals, pending, history>>

EndSession(c) ==
    /\ child[c] = "running"
    /\ child' = [child EXCEPT ![c] = "zombie"]
    /\ UNCHANGED <<pc, parentLocals, pending, history>>

Die(c) ==
    /\ child[c] = "dying"
    /\ child' = [child EXCEPT ![c] = "zombie"]
    /\ UNCHANGED <<pc, parentLocals, pending, history>>

-----------------------------------------------------------------------------
(* Stop signals: sigtermHandler runs in the parent. A group signal (Ctrl+C, *)
(* or a service manager that signals the whole control group) also reaches  *)
(* the children.                                                            *)

\* SA_RESTART: accept goes on.
Mutant_AfterSignal ==
    IF pc = "sleep" THEN "wait" ELSE IF pc = "waitAll" THEN "stopped" ELSE pc

\* accept, sleep and the last waitpid return when the handler has run.
Interrupted == [accept |-> "test", sleep |-> "wait", waitAll |-> "stopped"]

AfterSignal == IF pc \in DOMAIN Interrupted THEN Interrupted[pc] ELSE pc

StopSignal ==
    /\ pc \notin {"stopped", "failed"}
    /\ signals < MaxSignals
    /\ running' = FALSE
    /\ pc' = AfterSignal
    /\ waited' = IF pc = "sleep" THEN waited + 1 ELSE waited
    /\ signals' = signals + 1
    /\ heard' = (heard \/ pc \notin {"setup", "calling"})
    /\ \/ UNCHANGED child
       \/ child' = [c \in Clients |-> Terminated(c)]
    /\ UNCHANGED <<pending, conn, childPids, todo>>

-----------------------------------------------------------------------------
(* start(): the accept loop *)

Goto(l) == pc' = l

\* socket, bind and listen; then running_ = true.
Listen ==
    /\ pc = "setup"
    /\ Goto("test") /\ running' = TRUE
    /\ UNCHANGED <<pending, conn, child, childPids, todo, waited, history>>

ListenFails ==
    /\ pc = "setup"
    /\ Goto("failed")
    /\ UNCHANGED <<parentLocals, pending, child, history>>

TestRunning ==
    /\ pc = "test"
    /\ Goto(IF running THEN "calling" ELSE "closing")
    /\ UNCHANGED <<parentLocals, pending, child, history>>

CallAccept ==
    /\ pc = "calling"
    /\ Goto("accept")
    /\ UNCHANGED <<parentLocals, pending, child, history>>

Accept ==
    /\ pc = "accept"
    /\ \E c \in pending : conn' = c /\ pending' = pending \ {c}
    /\ Goto("reap")
    /\ UNCHANGED <<running, child, childPids, todo, waited, history>>

\* Some PID is erased, whichever child was reaped.
Mutant_ReapOne ==
    /\ pc = "reap"
    /\ \E c \in Zombies, d \in childPids :
         /\ child' = [child EXCEPT ![c] = "reaped"]
         /\ childPids' = childPids \ {d}
    /\ UNCHANGED <<pc, running, conn, todo, waited, pending, history>>

\* One waitpid(-1, WNOHANG) that returns a child; reapChildren forgets its PID.
ReapOne ==
    /\ pc = "reap"
    /\ \E c \in Zombies :
         /\ child' = [child EXCEPT ![c] = "reaped"]
         /\ childPids' = childPids \ {c}
    /\ UNCHANGED <<pc, running, conn, todo, waited, pending, history>>

ReapDone ==
    /\ pc = "reap" /\ Zombies = {}
    /\ Goto("fork")
    /\ UNCHANGED <<parentLocals, pending, child, history>>

Fork ==
    /\ pc = "fork"
    /\ child' = [child EXCEPT ![conn] = "starting"]
    /\ Goto("record")
    /\ UNCHANGED <<parentLocals, pending, history>>

\* The connection is closed.
ForkFails ==
    /\ pc = "fork"
    /\ Goto("test")
    /\ UNCHANGED <<parentLocals, pending, child, history>>

RecordPid ==
    /\ pc = "record"
    /\ childPids' = childPids \cup {conn}
    /\ Goto("test")
    /\ UNCHANGED <<running, conn, todo, waited, pending, child, history>>

-----------------------------------------------------------------------------
(* start(): shutdown *)

\* The listening socket is closed; what is still queued is reset.
StopListening ==
    /\ pc = "closing"
    /\ pending' = {}
    /\ Goto(IF childPids = {} THEN "stopped" ELSE "drain")
    /\ UNCHANGED <<parentLocals, child, history>>

\* The shutdown waits for children in three places and forgets no PID.
Drain ==
    /\ pc \in {"drain", "drainAgain", "waitAll"}
    /\ \E c \in Zombies : child' = [child EXCEPT ![c] = "reaped"]
    /\ UNCHANGED <<pc, parentLocals, pending, history>>

NothingToReap(next) ==
    /\ Zombies = {}
    /\ Goto(next)

DrainDone ==
    /\ pc = "drain" /\ NothingToReap("count")
    /\ UNCHANGED <<parentLocals, pending, child, history>>

\* countRunning
Running == Cardinality({c \in childPids : Exists(c)})

\* SIGTERM and the wait are skipped.
Mutant_Count ==
    /\ pc = "count"
    /\ Goto("drainAgain")
    /\ UNCHANGED <<parentLocals, pending, child, history>>

Count ==
    /\ pc = "count"
    /\ IF Running > 0 THEN Goto("terminate") /\ todo' = childPids
                      ELSE Goto("drainAgain") /\ UNCHANGED todo
    /\ UNCHANGED <<running, conn, childPids, waited, pending, child, history>>

TerminateOne ==
    /\ pc = "terminate"
    /\ \E c \in todo :
         /\ child' = [child EXCEPT ![c] = Terminated(c)]
         /\ todo' = todo \ {c}
    /\ UNCHANGED <<pc, running, conn, childPids, waited, pending, history>>

TerminateDone ==
    /\ pc = "terminate" /\ todo = {}
    /\ Goto("wait") /\ waited' = 0
    /\ UNCHANGED <<running, conn, childPids, todo, pending, child, history>>

WaitTest ==
    /\ pc = "wait"
    /\ Goto(IF Running > 0 /\ waited < MaxWaits THEN "sleep" ELSE "drainAgain")
    /\ UNCHANGED <<parentLocals, pending, child, history>>

\* sleep(1) is over, or SIGCHLD has cut it short.
Slept ==
    /\ pc = "sleep"
    /\ Goto("wait") /\ waited' = waited + 1
    /\ UNCHANGED <<running, conn, childPids, todo, pending, child, history>>

DrainAgainDone ==
    /\ pc = "drainAgain" /\ NothingToReap("force") /\ todo' = childPids
    /\ UNCHANGED <<running, conn, childPids, waited, pending, child, history>>

\* SIGTERM once more instead of SIGKILL.
Mutant_ForceOne ==
    /\ pc = "force"
    /\ \E c \in todo :
         /\ child' = [child EXCEPT ![c] = Terminated(c)]
         /\ todo' = todo \ {c}
    /\ UNCHANGED <<pc, running, conn, childPids, waited, pending, history>>

ForceOne ==
    /\ pc = "force"
    /\ \E c \in todo :
         /\ child' = [child EXCEPT ![c] = IF Alive(c) THEN "dying" ELSE @]
         /\ todo' = todo \ {c}
    /\ UNCHANGED <<pc, running, conn, childPids, waited, pending, history>>

\* The last waitpid does not block.
Mutant_ForceDone ==
    /\ pc = "force" /\ todo = {}
    /\ Goto("stopped")
    /\ UNCHANGED <<parentLocals, pending, child, history>>

ForceDone ==
    /\ pc = "force" /\ todo = {}
    /\ Goto("waitAll")
    /\ UNCHANGED <<parentLocals, pending, child, history>>

\* waitpid(-1, 0) has no child left to wait for.
WaitAllDone ==
    /\ pc = "waitAll" /\ \A c \in Clients : ~ Exists(c)
    /\ Goto("stopped")
    /\ UNCHANGED <<parentLocals, pending, child, history>>

-----------------------------------------------------------------------------
Parent ==
    \/ Listen \/ ListenFails \/ TestRunning \/ CallAccept \/ Accept
    \/ ReapOne \/ ReapDone \/ Fork \/ ForkFails \/ RecordPid
    \/ StopListening \/ Drain \/ DrainDone \/ Count
    \/ TerminateOne \/ TerminateDone \/ WaitTest \/ Slept
    \/ DrainAgainDone \/ ForceOne \/ ForceDone \/ WaitAllDone

Child(c) == ResetHandlers(c) \/ EndSession(c) \/ Die(c)

Next == Parent \/ StopSignal \/ \E c \in Clients : Connect(c) \/ Child(c)

Spec == Init /\ [][Next]_vars

\* The scheduler runs the parent and the children. No session has to end by
\* itself, no client has to connect and no signal has to come.
FairSpec ==
    /\ Spec
    /\ WF_vars(Parent)
    /\ \A c \in Clients : WF_vars(ResetHandlers(c)) /\ WF_vars(Die(c))

-----------------------------------------------------------------------------
(* Properties *)

\* The types of the variables.
TypeOK ==
    /\ pc \in ServerPc
    /\ running \in BOOLEAN
    /\ pending \subseteq Clients
    /\ conn \in Clients \cup {NoClient}
    /\ child \in [Clients -> ChildState]
    /\ childPids \subseteq Clients /\ todo \subseteq Clients
    /\ waited \in 0 .. MaxWaits
    /\ signals \in 0 .. MaxSignals /\ heard \in BOOLEAN

\* childPids_ misses no process: a child that has not been waited for is in it,
\* but for the moment between fork and push_back. sigchldHandler reaps nothing,
\* so no exit can fall into that moment and be forgotten.
ChildrenTracked ==
    \A c \in Clients : Exists(c) => c \in childPids \/ (pc = "record" /\ conn = c)

\* When start() has returned no session is being served any more: each one has
\* ended or has been sent a signal it cannot survive.
NothingServing == pc = "stopped" => \A c \in Clients : ~ Alive(c)

\* After one stop signal nothing at all is left: every child has been waited
\* for. (A second signal can interrupt the last waitpid.)
AllReaped == pc = "stopped" /\ signals = 1 => \A c \in Clients : ~ Exists(c)

\* SIGKILL ends a session only after the whole wait.
ForceAfterWait ==
    pc = "force" /\ (\E c \in todo : Alive(c)) => waited = MaxWaits

\* A process is waited for at most once and never served again.
ChildOrder ==
    [][\A c \in Clients :
         /\ child[c] = "reaped" => child'[c] = "reaped"
         /\ child'[c] = "reaped" => child[c] \in {"zombie", "reaped"}]_vars

\* A stop signal ends start(), wherever the accept loop is when it arrives,
\* except between the test of running_ and the accept, and before the loop.
HeardStops == heard ~> pc = "stopped"

-----------------------------------------------------------------------------
(* Claims of the repository that the code does not keep *)

\* start() blocks until SIGTERM or SIGINT arrives, and then returns.
StopReturns == signals > 0 ~> pc \in {"stopped", "failed"}

\* max_connections is the largest number of concurrent connections.
WithinMaxConnections == Cardinality({c \in Clients : Alive(c)}) <= MaxConnections

\* The parent sleeps only while a child process is really running.
SleepsOnlyForRunning ==
    pc = "sleep" => \E c \in Clients : child[c] \in {"starting", "running", "dying"}

\* Shutdown waits up to ten seconds for active sessions before it ends one.
SessionsGetTheWait ==
    [][\A c \in Clients :
         pc \in {"terminate", "force"} /\ child[c] = "running" /\ child'[c] = "dying"
             => waited = MaxWaits]_vars
=============================================================================
