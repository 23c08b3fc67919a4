------------------------- MODULE BackupServer_proofs -------------------------
(***************************************************************************)
(* Proofs about BackupServer, for every finite set of clients and every    *)
(* value of the bounds: its type invariant, its safety invariants and      *)
(* ChildOrder.                                                             *)
(***************************************************************************)
EXTENDS BackupServer, FiniteSetTheorems, TLAPS

-----------------------------------------------------------------------------
(* Types *)

LEMMA AfterSignalCases ==
    AfterSignal = IF pc = "accept" THEN "test"
                  ELSE IF pc = "sleep" THEN "wait"
                  ELSE IF pc = "waitAll" THEN "stopped" ELSE pc
  BY DEF AfterSignal, Interrupted

\* TypeOK made inductive: RecordPid puts a client into childPids, and a sleep
\* leaves room for its second in waited.
TypeInv ==
    /\ TypeOK
    /\ pc \in {"reap", "fork", "record"} => conn \in Clients
    /\ pc = "sleep" => waited < MaxWaits

LEMMA TypeInvInit == Init => TypeInv
<1> SUFFICES ASSUME Init PROVE TypeInv
  OBVIOUS
<1>1. running \in BOOLEAN /\ heard \in BOOLEAN
  BY DEF Init
<1>2. child \in [Clients -> ChildState]
  BY DEF Init, ChildState
<1>3. waited \in 0 .. MaxWaits /\ signals \in 0 .. MaxSignals
  BY ServerAssumption DEF ServerAssumption, Init
<1> QED
  BY <1>1, <1>2, <1>3 DEF Init, TypeInv, TypeOK, ServerPc

LEMMA TypeInvNext == TypeInv /\ [Next]_vars => TypeInv'
<1> SUFFICES ASSUME TypeInv, [Next]_vars PROVE TypeInv'
  OBVIOUS
<1> USE ServerAssumption DEF ServerAssumption, TypeInv, TypeOK, ServerPc, ChildState, Goto, parentLocals, history
<1>1. CASE Listen \/ ListenFails \/ TestRunning \/ CallAccept
  BY <1>1 DEF Listen, ListenFails, TestRunning, CallAccept
<1>2. CASE Accept
  BY <1>2 DEF Accept
<1>3. CASE ReapOne
  BY <1>3 DEF ReapOne, Zombies
<1>4. CASE ReapDone \/ ForkFails \/ DrainDone
  BY <1>4 DEF ReapDone, ForkFails, DrainDone, NothingToReap
<1>5. CASE Fork
  BY <1>5 DEF Fork
<1>6. CASE RecordPid
  BY <1>6 DEF RecordPid
<1>7. CASE StopListening \/ Count \/ WaitTest \/ WaitAllDone
  BY <1>7 DEF StopListening, Count, WaitTest, WaitAllDone
<1>8. CASE Drain
  BY <1>8 DEF Drain, Zombies
<1>9. CASE TerminateOne \/ ForceOne
  BY <1>9 DEF TerminateOne, ForceOne, Terminated
<1>10. CASE TerminateDone \/ Slept \/ DrainAgainDone \/ ForceDone
  BY <1>10 DEF TerminateDone, Slept, DrainAgainDone, NothingToReap, ForceDone
<1>11. CASE StopSignal
  <2>1. pc' \in ServerPc /\ (pc' \in {"reap", "fork", "record", "sleep"} => pc' = pc)
    BY <1>11, AfterSignalCases DEF StopSignal
  <2>2. child' \in [Clients -> ChildState]
    BY <1>11 DEF StopSignal, Terminated
  <2>3. heard' \in BOOLEAN /\ running' \in BOOLEAN
    BY <1>11 DEF StopSignal
  <2>4. waited' \in 0 .. MaxWaits /\ signals' \in 0 .. MaxSignals
    BY <1>11 DEF StopSignal
  <2>5. pc' = "sleep" => waited' < MaxWaits
    BY <1>11, AfterSignalCases DEF StopSignal
  <2> QED
    BY <1>11, <2>1, <2>2, <2>3, <2>4, <2>5 DEF StopSignal
<1>12. ASSUME NEW c \in Clients, Connect(c) \/ Child(c) PROVE TypeInv'
  BY <1>12 DEF Connect, Child, ResetHandlers, EndSession, Die
<1>13. CASE UNCHANGED vars
  BY <1>13 DEF vars
<1> QED
  BY <1>1, <1>2, <1>3, <1>4, <1>5, <1>6, <1>7, <1>8, <1>9, <1>10, <1>11, <1>12, <1>13
  DEF Next, Parent

\* The variables keep their types.
THEOREM TypeCorrect == Spec => []TypeOK
<1>1. Init /\ [][Next]_vars => []TypeInv
  BY TypeInvInit, TypeInvNext, PTL
<1> QED
  BY <1>1, PTL DEF Spec, TypeInv

-----------------------------------------------------------------------------
(* No child is forgotten *)

LEMMA TrackedNext == TypeInv /\ ChildrenTracked /\ [Next]_vars => ChildrenTracked'
<1> SUFFICES ASSUME TypeInv, ChildrenTracked, [Next]_vars PROVE ChildrenTracked'
  OBVIOUS
<1> USE DEF TypeInv, TypeOK, ChildrenTracked, Exists, Goto, parentLocals
\* The two halves of taking up a child.
<1>1. CASE Fork
  BY <1>1 DEF Fork
<1>2. CASE RecordPid
  BY <1>2 DEF RecordPid
\* Whatever is erased from childPids_ has been waited for.
<1>3. CASE ReapOne
  BY <1>3 DEF ReapOne, Zombies
\* No other step brings a process into being, or leaves "record".
<1>4. CASE Listen \/ ListenFails \/ TestRunning \/ CallAccept
  BY <1>4 DEF Listen, ListenFails, TestRunning, CallAccept
<1>5. CASE Accept \/ ReapDone \/ ForkFails \/ StopListening
  BY <1>5 DEF Accept, ReapDone, ForkFails, StopListening
<1>6. CASE Drain
  BY <1>6 DEF Drain, Zombies
<1>7. CASE DrainDone \/ Count \/ TerminateDone \/ WaitTest \/ Slept
  BY <1>7 DEF DrainDone, NothingToReap, Count, TerminateDone, WaitTest, Slept
<1>8. CASE TerminateOne \/ ForceOne
  BY <1>8 DEF TerminateOne, ForceOne, Terminated, Alive
<1>9. CASE DrainAgainDone \/ ForceDone \/ WaitAllDone
  BY <1>9 DEF DrainAgainDone, NothingToReap, ForceDone, WaitAllDone
<1>10. CASE StopSignal
  <2>1. \A c \in Clients : Exists(c)' => Exists(c)
    BY <1>10 DEF StopSignal, Terminated
  <2>2. (pc = "record" <=> pc' = "record") /\ UNCHANGED <<conn, childPids>>
    BY <1>10, AfterSignalCases DEF StopSignal
  <2> QED
    BY <2>1, <2>2
<1>11. ASSUME NEW c \in Clients, Connect(c) \/ Child(c) PROVE ChildrenTracked'
  BY <1>11 DEF Connect, Child, ResetHandlers, EndSession, Die
<1>12. CASE UNCHANGED vars
  BY <1>12 DEF vars
<1> QED
  BY <1>1, <1>2, <1>3, <1>4, <1>5, <1>6, <1>7, <1>8, <1>9, <1>10, <1>11, <1>12
  DEF Next, Parent

\* childPids_ misses no child.
THEOREM ChildrenAreTracked == Spec => []ChildrenTracked
<1>1. Init => ChildrenTracked
  BY DEF Init, ChildrenTracked, Exists
<1>2. Spec => []TypeInv
  BY TypeInvInit, TypeInvNext, PTL DEF Spec
<1> QED
  BY <1>1, <1>2, TrackedNext, PTL DEF Spec

-----------------------------------------------------------------------------
(* Shutdown leaves nobody served *)

\* Whom SIGKILL has still to be sent to.
ForceInv ==
    /\ pc = "force" => \A c \in Clients : Alive(c) => c \in todo
    /\ pc \in {"waitAll", "stopped"} => \A c \in Clients : ~ Alive(c)

LEMMA ForceInvNext ==
    TypeInv /\ ChildrenTracked /\ ForceInv /\ [Next]_vars => ForceInv'
<1> SUFFICES ASSUME TypeInv, ChildrenTracked, ForceInv, [Next]_vars PROVE ForceInv'
  OBVIOUS
<1> USE DEF TypeInv, TypeOK, ForceInv, Alive, Goto, parentLocals
\* Into the states it speaks of: every process is in childPids_ by then.
<1>1. CASE StopListening
  BY <1>1 DEF StopListening, ChildrenTracked, Exists
<1>2. CASE DrainAgainDone
  BY <1>2 DEF DrainAgainDone, NothingToReap, ChildrenTracked, Exists
<1>3. CASE ForceOne
  BY <1>3 DEF ForceOne
<1>4. CASE ForceDone \/ WaitAllDone
  BY <1>4 DEF ForceDone, WaitAllDone
<1>5. CASE StopSignal
  <2>1. pc' \in {"force", "waitAll", "stopped"} =>
            pc' = pc \/ (pc = "waitAll" /\ pc' = "stopped")
    BY <1>5, AfterSignalCases DEF StopSignal
  <2>2. \A c \in Clients : Alive(c)' => Alive(c)
    BY <1>5 DEF StopSignal, Terminated
  <2> QED
    BY <1>5, <2>1, <2>2 DEF StopSignal
<1>6. CASE Drain
  BY <1>6 DEF Drain, Zombies
\* Outside them, or without a process that comes alive.
<1>7. CASE Listen \/ ListenFails \/ TestRunning \/ CallAccept \/ Accept
  BY <1>7 DEF Listen, ListenFails, TestRunning, CallAccept, Accept
<1>8. CASE ReapOne \/ ReapDone \/ Fork \/ ForkFails \/ RecordPid
  BY <1>8 DEF ReapOne, ReapDone, Fork, ForkFails, RecordPid
<1>9. CASE DrainDone \/ Count \/ TerminateDone \/ WaitTest \/ Slept
  BY <1>9 DEF DrainDone, NothingToReap, Count, TerminateDone, WaitTest, Slept
<1>10. CASE TerminateOne
  BY <1>10 DEF TerminateOne
<1>11. ASSUME NEW c \in Clients, Connect(c) \/ Child(c) PROVE ForceInv'
  BY <1>11 DEF Connect, Listening, Child, ResetHandlers, EndSession, Die
<1>12. CASE UNCHANGED vars
  BY <1>12 DEF vars
<1> QED
  BY <1>1, <1>2, <1>3, <1>4, <1>5, <1>6, <1>7, <1>8, <1>9, <1>10, <1>11, <1>12
  DEF Next, Parent

\* When start() has returned no session is served any more.
THEOREM NobodyServed == Spec => []NothingServing
<1>1. Init => ForceInv
  BY DEF Init, ForceInv
<1>2. Spec => []TypeInv
  BY TypeInvInit, TypeInvNext, PTL DEF Spec
<1>3. ForceInv => NothingServing
  BY DEF ForceInv, NothingServing
<1> QED
  BY <1>1, <1>2, <1>3, ChildrenAreTracked, ForceInvNext, PTL DEF Spec

-----------------------------------------------------------------------------
(* One stop signal leaves no process behind *)

Stopping == {"closing", "drain", "count", "terminate", "wait", "sleep",
             "drainAgain", "force", "waitAll", "stopped"}

\* The accept loop is only left for a signal; and only a second one can leave the
\* last wait before it is over.
SignalInv ==
    /\ pc \in {"setup", "failed"} \/ running \/ signals >= 1
    /\ pc \in Stopping => signals >= 1
    /\ AllReaped

LEMMA SignalInvNext ==
    TypeInv /\ ChildrenTracked /\ SignalInv /\ [Next]_vars => SignalInv'
<1> SUFFICES ASSUME TypeInv, ChildrenTracked, SignalInv, [Next]_vars PROVE SignalInv'
  OBVIOUS
<1> USE DEF TypeInv, TypeOK, SignalInv, AllReaped, Stopping, Goto, parentLocals, history
<1>1. CASE Listen \/ ListenFails \/ TestRunning \/ CallAccept \/ Accept
  BY <1>1 DEF Listen, ListenFails, TestRunning, CallAccept, Accept
<1>2. CASE ReapOne \/ ReapDone \/ Fork \/ ForkFails \/ RecordPid
  BY <1>2 DEF ReapOne, ReapDone, Fork, ForkFails, RecordPid
\* Nothing was forked that is not in childPids_, so nothing is left.
<1>3. CASE StopListening
  BY <1>3 DEF StopListening, ChildrenTracked, Exists
<1>4. CASE WaitAllDone
  BY <1>4 DEF WaitAllDone, Exists
<1>5. CASE StopSignal
  <2>1. signals' = signals + 1 /\ signals \in Nat
    BY <1>5 DEF StopSignal
  <2>2. pc' \in {"setup", "failed", "stopped"} => pc' = pc \/ (pc = "waitAll" /\ pc' = "stopped")
    BY <1>5, AfterSignalCases DEF StopSignal
  <2>3. pc # "stopped"
    BY <1>5 DEF StopSignal
  <2> QED
    BY <2>1, <2>2, <2>3
<1>6. CASE Drain \/ DrainDone \/ Count \/ TerminateOne \/ TerminateDone
  BY <1>6 DEF Drain, DrainDone, NothingToReap, Count, TerminateOne, TerminateDone
<1>7. CASE WaitTest \/ Slept \/ DrainAgainDone \/ ForceOne \/ ForceDone
  BY <1>7 DEF WaitTest, Slept, DrainAgainDone, NothingToReap, ForceOne, ForceDone
<1>8. ASSUME NEW c \in Clients, Connect(c) \/ Child(c) PROVE SignalInv'
  <2>1. UNCHANGED <<pc, running, signals>>
    BY <1>8 DEF Connect, Child, ResetHandlers, EndSession, Die
  <2>2. \A d \in Clients : Exists(d)' => Exists(d)
    BY <1>8 DEF Connect, Child, ResetHandlers, EndSession, Die, Exists
  <2> QED
    BY <2>1, <2>2
<1>9. CASE UNCHANGED vars
  <2>1. UNCHANGED <<pc, running, signals>> /\ \A d \in Clients : Exists(d)' => Exists(d)
    BY <1>9 DEF vars, Exists
  <2> QED
    BY <2>1
<1> QED
  BY <1>1, <1>2, <1>3, <1>4, <1>5, <1>6, <1>7, <1>8, <1>9 DEF Next, Parent

\* After one stop signal, every child of a server that has stopped was waited for.
THEOREM OneSignalReapsAll == Spec => []AllReaped
<1>1. Init => SignalInv
  BY DEF Init, SignalInv, AllReaped, Stopping
<1>2. Spec => []TypeInv
  BY TypeInvInit, TypeInvNext, PTL DEF Spec
<1>3. SignalInv => AllReaped
  BY DEF SignalInv
<1> QED
  BY <1>1, <1>2, <1>3, ChildrenAreTracked, SignalInvNext, PTL DEF Spec

-----------------------------------------------------------------------------
(* SIGKILL comes after the whole wait *)

\* What the tests of countRunning leave behind: nobody lives, or time is up.
WaitInv ==
    pc \in {"drainAgain", "force"} =>
        waited = MaxWaits \/ \A c \in Clients : ~ Alive(c)

LEMMA NoneRunning ==
  ASSUME TypeInv, ChildrenTracked, pc # "record", ~ (Running > 0)
  PROVE  \A c \in Clients : ~ Alive(c)
<1> DEFINE S == {c \in childPids : Exists(c)}
<1>1. IsFiniteSet(S)
  <2>1. IsFiniteSet(Clients) /\ S \subseteq Clients
    BY ServerAssumption DEF ServerAssumption, TypeInv, TypeOK
  <2> QED
    BY <2>1, FS_Subset
<1>2. Cardinality(S) \in Nat /\ (Cardinality(S) = 0 <=> S = {})
  BY <1>1, FS_CardinalityType, FS_EmptySet
<1>3. S = {}
  BY <1>2 DEF Running
<1> QED
  BY <1>3 DEF ChildrenTracked, Alive, Exists

LEMMA WaitInvNext ==
    TypeInv /\ ChildrenTracked /\ WaitInv /\ [Next]_vars => WaitInv'
<1> SUFFICES ASSUME TypeInv, ChildrenTracked, WaitInv, [Next]_vars PROVE WaitInv'
  OBVIOUS
<1> USE DEF WaitInv, Alive, Goto, parentLocals
<1> TypeOK
  BY DEF TypeInv
\* Into "drainAgain".
<1>1. CASE Count
  BY <1>1, NoneRunning DEF Count
<1>2. CASE WaitTest
  <2>1. ~ (waited < MaxWaits) => waited = MaxWaits
    BY ServerAssumption DEF ServerAssumption, TypeOK
  <2> QED
    BY <1>2, <2>1, NoneRunning DEF WaitTest
<1> USE DEF TypeOK
\* Inside.
<1>3. CASE Drain
  BY <1>3 DEF Drain, Zombies
<1>4. CASE DrainAgainDone \/ ForceOne
  BY <1>4 DEF DrainAgainDone, NothingToReap, ForceOne
<1>5. CASE StopSignal
  <2>1. pc' \in {"drainAgain", "force"} => pc' = pc /\ waited' = waited
    BY <1>5, AfterSignalCases DEF StopSignal
  <2>2. \A c \in Clients : Alive(c)' => Alive(c)
    BY <1>5 DEF StopSignal, Terminated
  <2> QED
    BY <2>1, <2>2
<1>6. ASSUME NEW c \in Clients, Connect(c) \/ Child(c) PROVE WaitInv'
  BY <1>6 DEF Connect, Child, ResetHandlers, EndSession, Die
\* Elsewhere.
<1>7. CASE Listen \/ ListenFails \/ TestRunning \/ CallAccept \/ Accept
  BY <1>7 DEF Listen, ListenFails, TestRunning, CallAccept, Accept
<1>8. CASE ReapOne \/ ReapDone \/ Fork \/ ForkFails \/ RecordPid \/ StopListening
  BY <1>8 DEF ReapOne, ReapDone, Fork, ForkFails, RecordPid, StopListening
<1>9. CASE DrainDone \/ TerminateOne \/ TerminateDone \/ Slept \/ ForceDone \/ WaitAllDone
  BY <1>9 DEF DrainDone, NothingToReap, TerminateOne, TerminateDone, Slept,
              ForceDone, WaitAllDone
<1>10. CASE UNCHANGED vars
  BY <1>10 DEF vars
<1> QED
  BY <1>1, <1>2, <1>3, <1>4, <1>5, <1>6, <1>7, <1>8, <1>9, <1>10 DEF Next, Parent

\* SIGKILL ends a session only after the whole wait.
THEOREM KilledAfterTheWait == Spec => []ForceAfterWait
<1>1. Init => WaitInv
  BY DEF Init, WaitInv
<1>2. Spec => []TypeInv
  BY TypeInvInit, TypeInvNext, PTL DEF Spec
<1>3. TypeInv /\ WaitInv => ForceAfterWait
  BY DEF TypeInv, TypeOK, WaitInv, ForceAfterWait
<1> QED
  BY <1>1, <1>2, <1>3, ChildrenAreTracked, WaitInvNext, PTL DEF Spec

-----------------------------------------------------------------------------
(* A process is waited for once *)

\* The client for which a process is about to be forked has none yet.
FreshInv ==
    /\ conn \notin pending
    /\ \A c \in pending : child[c] = "none"
    /\ pc \in {"reap", "fork"} => child[conn] = "none"

LEMMA FreshInvNext == TypeInv /\ FreshInv /\ [Next]_vars => FreshInv'
<1> SUFFICES ASSUME TypeInv, FreshInv, [Next]_vars PROVE FreshInv'
  OBVIOUS
<1> USE DEF TypeInv, TypeOK, FreshInv, Goto, parentLocals
<1>1. CASE Accept
  BY <1>1 DEF Accept
<1>2. CASE Listen \/ ListenFails \/ TestRunning \/ CallAccept
  BY <1>2 DEF Listen, ListenFails, TestRunning, CallAccept
<1>3. CASE ReapOne \/ Drain
  BY <1>3 DEF ReapOne, Drain, Zombies
<1>4. CASE ReapDone \/ Fork \/ ForkFails \/ RecordPid \/ StopListening
  BY <1>4 DEF ReapDone, Fork, ForkFails, RecordPid, StopListening
<1>5. CASE DrainDone \/ Count \/ TerminateDone \/ WaitTest \/ Slept
  BY <1>5 DEF DrainDone, NothingToReap, Count, TerminateDone, WaitTest, Slept
<1>6. CASE TerminateOne \/ ForceOne
  BY <1>6 DEF TerminateOne, ForceOne, Terminated, Alive
<1>7. CASE DrainAgainDone \/ ForceDone \/ WaitAllDone
  BY <1>7 DEF DrainAgainDone, NothingToReap, ForceDone, WaitAllDone
<1>8. CASE StopSignal
  <2>1. pc' \in {"reap", "fork"} => pc' = pc
    BY <1>8, AfterSignalCases DEF StopSignal
  <2>2. \A c \in Clients : child[c] = "none" => child'[c] = "none"
    BY <1>8 DEF StopSignal, Terminated
  <2>3. UNCHANGED <<pending, conn>>
    BY <1>8 DEF StopSignal
  <2> QED
    BY <2>1, <2>2, <2>3
<1>9. ASSUME NEW c \in Clients, Connect(c) \/ Child(c) PROVE FreshInv'
  BY <1>9 DEF Connect, Child, ResetHandlers, EndSession, Die
<1>10. CASE UNCHANGED vars
  BY <1>10 DEF vars
<1> QED
  BY <1>1, <1>2, <1>3, <1>4, <1>5, <1>6, <1>7, <1>8, <1>9, <1>10 DEF Next, Parent

WaitedForOnce ==
    \A c \in Clients :
        /\ child[c] = "reaped" => child'[c] = "reaped"
        /\ child'[c] = "reaped" => child[c] \in {"zombie", "reaped"}

LEMMA StepWaitsOnce == TypeInv /\ FreshInv /\ [Next]_vars => [WaitedForOnce]_vars
<1> SUFFICES ASSUME TypeInv, FreshInv, [Next]_vars PROVE WaitedForOnce
  OBVIOUS
<1> USE DEF TypeInv, TypeOK, WaitedForOnce
<1>1. CASE ReapOne \/ Drain
  BY <1>1 DEF ReapOne, Drain, Zombies
<1>2. CASE Fork
  BY <1>2 DEF Fork, FreshInv
<1>3. CASE TerminateOne \/ ForceOne
  BY <1>3 DEF TerminateOne, ForceOne, Terminated, Alive
<1>4. CASE StopSignal
  BY <1>4 DEF StopSignal, Terminated
<1>5. ASSUME NEW c \in Clients, Connect(c) \/ Child(c) PROVE WaitedForOnce
  BY <1>5 DEF Connect, Child, ResetHandlers, EndSession, Die
<1>6. CASE UNCHANGED child
  BY <1>6
<1> QED
  BY <1>1, <1>2, <1>3, <1>4, <1>5, <1>6
  DEF Next, Parent, vars, Listen, ListenFails, TestRunning, CallAccept, Accept, ReapDone,
      ForkFails, RecordPid, StopListening, DrainDone, Count, TerminateDone, WaitTest,
      Slept, DrainAgainDone, ForceDone, WaitAllDone

\* Each process is waited for at most once, and never served again.
THEOREM EachWaitedForOnce == Spec => ChildOrder
<1>1. Init => FreshInv
  BY ServerAssumption DEF ServerAssumption, Init, FreshInv
<1>2. Spec => []TypeInv
  BY TypeInvInit, TypeInvNext, PTL DEF Spec
<1>3. Spec => []FreshInv
  BY <1>1, <1>2, FreshInvNext, PTL DEF Spec
<1> QED
  BY <1>2, <1>3, StepWaitsOnce, PTL DEF Spec, ChildOrder, WaitedForOnce
=============================================================================
