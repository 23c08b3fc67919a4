-------------------------------- MODULE Window --------------------------------
(***************************************************************************)
(* The jobs of BackupJobs as programs run them (gui/src, client/src). The  *)
(* command-line client is one program for one job. The window runs a job   *)
(* of each kind from the tab of that kind: pressing the button disables    *)
(* the form of the tab and starts a thread with a worker that runs the     *)
(* job; what the worker emits is queued to the event loop of the window,   *)
(* which enables the form, stops the thread and, when the thread has       *)
(* ended, deletes it. When the window ends, all its jobs end with it.      *)
(***************************************************************************)
EXTENDS BackupJobs, Sequences

VARIABLES
    shown,          \* the window is there
    form,           \* form[kind]: the form of that tab is enabled
    thread,         \* thread[j]: the life of the QThread of job j
    ui              \* the events queued to the event loop of the window

windowVars == <<shown, form, thread, ui>>

vars == <<jobVars, windowVars>>

Kinds == {"backup", "restore", "local"}

InWindow(j) == plan[j].place = "window"

Init ==
    /\ InitJobs
    /\ shown = TRUE /\ form = [k \in Kinds |-> TRUE]
    /\ thread = [j \in Jobs |-> "none"] /\ ui = <<>>

-----------------------------------------------------------------------------
(* The window *)

Start(j) ==
    /\ shown /\ InWindow(j) /\ thread[j] = "none"
    /\ form' = [form EXCEPT ![Kind(j)] = FALSE]
    /\ thread' = [thread EXCEPT ![j] = "working"]
    /\ UNCHANGED <<jobVars, shown, ui>>

Mutant_Press(j) ==                              \* the form stays enabled
    /\ Kind(j) = "local" => name[Path(j)] = NoJob
    /\ Start(j)

Mutant_Press_NoCheck(j) == form[Kind(j)] /\ Start(j)

\* onStartBackup, onStartRestore. The output of a local backup must not exist yet.
Press(j) ==
    /\ form[Kind(j)]
    /\ Kind(j) = "local" => name[Path(j)] = NoJob
    /\ Start(j)

\* The worker runs the job.
Work(j) == thread[j] = "working" /\ Job(j) /\ UNCHANGED windowVars

Mutant_Emit(j) ==                               \* finished is not connected to quit
    /\ thread[j] = "working" /\ pc[j] \in Ended
    /\ thread' = [thread EXCEPT ![j] = "emitted"]
    /\ ui' = Append(ui, <<j, "finished">>)
    /\ UNCHANGED <<jobVars, shown, form>>

\* finished is connected to the tab and to the thread, in this order; both live in
\* the thread of the window.
Emit(j) ==
    /\ thread[j] = "working" /\ pc[j] \in Ended
    /\ thread' = [thread EXCEPT ![j] = "emitted"]
    /\ ui' = ui \o <<<<j, "finished">>, <<j, "quit">>>>
    /\ UNCHANGED <<jobVars, shown, form>>

\* The event loop of the window: onWorkerFinished, QThread::quit, and deleteLater of
\* the thread.
Handle ==
    /\ shown /\ ui # <<>> /\ ui' = Tail(ui)
    /\ LET j == Head(ui)[1]
           event == Head(ui)[2] IN
       /\ form' = IF event = "finished" THEN [form EXCEPT ![Kind(j)] = TRUE] ELSE form
       /\ thread' = CASE event = "quit"  -> [thread EXCEPT ![j] = "quitting"]
                      [] event = "ended" -> [thread EXCEPT ![j] = "deleted"]
                      [] OTHER           -> thread
    /\ UNCHANGED <<jobVars, shown>>

\* The event loop of the worker's thread ends.
Leave(j) ==
    /\ thread[j] = "quitting"
    /\ thread' = [thread EXCEPT ![j] = "ended"]
    /\ ui' = Append(ui, <<j, "ended">>)
    /\ UNCHANGED <<jobVars, shown, form>>

\* A QThread that is destroyed while it runs aborts the program, and main would end
\* the other threads as well.
WindowEnds ==
    /\ shown /\ shown' = FALSE
    /\ Kill({j \in Jobs : thread[j] = "working" /\ pc[j] \notin Ended})
    /\ form' = [k \in Kinds |-> TRUE] /\ ui' = <<>>
    /\ thread' = [j \in Jobs |-> IF thread[j] = "none" THEN "none" ELSE "deleted"]

\* The user closes it. No tab asks about its job.
Close == WindowEnds

\* The engine throws on a .bak that is not one. RemoteRestoreWorker::run does not
\* catch, and an exception that leaves a thread ends the program.
Throw(j) ==
    /\ thread[j] = "working" /\ Kind(j) = "restore" /\ pc[j] = "read"
    /\ got[j] \notin {Nothing, Whole(j)}
    /\ WindowEnds

Open == ~shown /\ shown' = TRUE /\ UNCHANGED <<jobVars, form, thread, ui>>

-----------------------------------------------------------------------------
(* Programs of their own, and the world *)

Begin(j) == ~InWindow(j) /\ pc[j] = "start" /\ Job(j) /\ UNCHANGED windowVars

Run(j) == ~InWindow(j) /\ pc[j] # "start" /\ Job(j) /\ UNCHANGED windowVars

Interrupt(j) == ~InWindow(j) /\ pc[j] # "start" /\ Kill({j}) /\ UNCHANGED windowVars

Change == Edit /\ UNCHANGED windowVars

Next ==
    \/ \E j \in Jobs : \/ Press(j) \/ Work(j) \/ Emit(j) \/ Leave(j) \/ Throw(j)
                       \/ Begin(j) \/ Run(j) \/ Interrupt(j)
    \/ Handle \/ Close \/ Open \/ Change

Spec == Init /\ [][Next]_vars

\* Threads and programs are scheduled, and the event loop handles what is queued.
\* That an upload or a download comes to an end is SessionProtocol's BothEnd.
FairSpec ==
    /\ Spec /\ WF_vars(Handle)
    /\ \A j \in Jobs : WF_vars(Work(j)) /\ WF_vars(Run(j))
                       /\ WF_vars(Emit(j)) /\ WF_vars(Leave(j))

-----------------------------------------------------------------------------
(* Properties *)

\* A local backup that has succeeded is not overwritten by anything the window does:
\* between the look at the output and the open of it no other tab or press can make
\* it. Only a program of its own that was given the same output can.
LocalKept ==
    \A j \in Jobs : Kind(j) = "local" /\ pc[j] = "done" =>
        \/ name[Path(j)] = j /\ data[j] = Whole(j)
        \/ \E k \in Jobs : ~InWindow(k) /\ Path(k) = Path(j) /\ pc[k] # "start"

\* Jobs of the window do not disturb each other, whatever the user presses, closes
\* and opens again, although they share the file names.
OnlyProgramsDisturb ==
    \A j \in disturbed : \E k \in disturbed \ {j} :
        Path(k) = Path(j) /\ ~(InWindow(j) /\ InWindow(k))

\* Every job of the window comes to an end and its thread is deleted, and a disabled
\* form is enabled again: no tab is left waiting for a job that is no more.
Recovers ==
    /\ \A j \in Jobs : thread[j] = "working" ~> thread[j] = "deleted"
    /\ \A k \in Kinds : ~form[k] ~> form[k]
=============================================================================
