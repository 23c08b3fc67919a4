---------------------------- MODULE Window_proofs ----------------------------
(***************************************************************************)
(* Proofs about BackupJobs and Window, for any jobs, plans and changes of  *)
(* the source: what a job that had its file to itself sends or restores,   *)
(* what is left under /tmp, and that the window keeps its jobs apart.      *)
(***************************************************************************)
EXTENDS Window, TLAPS

State == {"start", "scanned", "ready"} \cup Using \cup Ended

SomeJob == Jobs \cup {NoJob}

Halves == [head : SomeJob, body : SomeJob]

Version == [meta : Nat, bak : Nat]

ThreadState == {"none", "working", "emitted", "quitting", "ended", "deleted"}

Event == Jobs \X {"finished", "quit", "ended"}

JobTypes ==
    /\ plan \in [Jobs -> Plan] /\ source \in Nat
    /\ pc \in [Jobs -> State]
    /\ scan \in [Jobs -> Version]
    /\ name \in [Files -> SomeJob]
    /\ data \in [Jobs -> Halves]
    /\ open \in [Jobs -> SomeJob]
    /\ got \in [Jobs -> Halves]
    /\ uploads \subseteq Version
    /\ restored \in [Jobs -> [entries : Nat, contents : Nat]]
    /\ disturbed \subseteq Jobs
    /\ \A j \in Jobs : pc[j] \in {"opened", "headed"} => open[j] \in Jobs

WindowTypes ==
    /\ shown \in BOOLEAN
    /\ form \in [Kinds -> BOOLEAN]
    /\ thread \in [Jobs -> ThreadState]
    /\ ui \in Seq(Event)

TypeInv == JobTypes /\ WindowTypes

-----------------------------------------------------------------------------
(* Types *)

LEMMA PathOf ==
    ASSUME JobTypes, NEW j \in Jobs
    PROVE  Path(j) \in Files /\ Kind(j) \in Kinds
  BY DEF JobTypes, Files, Kind, Plan, Kinds

LEMMA InitTypes == Init => TypeInv
  <1> SUFFICES ASSUME Init PROVE TypeInv OBVIOUS
  <1>1. plan \in [Jobs -> Plan]
    BY JobAssumption DEF Init, InitJobs, JobAssumption
  <1>2. JobTypes
    BY <1>1 DEF Init, InitJobs, JobTypes, State, Using, Ended, SomeJob, Halves, Version, Nothing
  <1>3. WindowTypes
    BY DEF Init, WindowTypes, Kinds, ThreadState
  <1> QED BY <1>2, <1>3 DEF TypeInv

\* The types of one job's step, action by action.
LEMMA JobKeepsTypes ==
    ASSUME JobTypes, NEW j \in Jobs, Job(j)
    PROVE  JobTypes'
  <1> USE DEF State, Using, Ended, Version, Step
  <1>p. Path(j) \in Files BY PathOf
  <1>f. plan' = plan => Files' = Files
    BY DEF Files, Path, Kind
  <1>n. Nothing \in Halves /\ NoJob \in SomeJob /\ Jobs \subseteq SomeJob
    BY DEF Nothing, Halves, SomeJob
  <1>1. CASE Scan(j)
    BY <1>1, <1>f DEF Scan, JobTypes
  <1>2. CASE ScanAgain(j)
    BY <1>2, <1>f DEF ScanAgain, JobTypes
  <1>3. ASSUME NEW up \in uploads, Download(j, up) PROVE JobTypes'
    BY <1>3, <1>f DEF Download, JobTypes
  <1>4. CASE Create(j)
    <2> DEFINE file == IF name[Path(j)] = NoJob THEN j ELSE name[Path(j)]
    <2>1. file \in Jobs
      BY <1>p DEF JobTypes, SomeJob
    <2>2. /\ pc' = [pc EXCEPT ![j] = "opened"] /\ name' = [name EXCEPT ![Path(j)] = file]
          /\ open' = [open EXCEPT ![j] = file] /\ data' = [data EXCEPT ![file] = Nothing]
          /\ disturbed' \subseteq disturbed \cup Rivals(j) \cup {j}
          /\ UNCHANGED <<plan, source, scan, got, uploads, restored>>
      BY <1>4 DEF Create
    <2>3. disturbed' \subseteq Jobs
      BY <2>2 DEF JobTypes, Rivals
    <2>4. name' \in [Files' -> SomeJob]
      BY <2>1, <2>2, <1>f, <1>n DEF JobTypes
    <2> HIDE DEF file
    <2> QED BY <2>1, <2>2, <2>3, <2>4, <1>n DEF JobTypes
  <1>5. CASE NotCreated(j)
    BY <1>5, <1>f DEF NotCreated, JobTypes
  <1>6. CASE WriteHead(j)
    <2>1. open[j] \in Jobs BY <1>6 DEF WriteHead, JobTypes
    <2>2. data' \in [Jobs -> Halves]
      BY <1>6, <2>1, <1>n DEF WriteHead, JobTypes, Halves
    <2> QED BY <1>6, <2>2, <1>f DEF WriteHead, JobTypes
  <1>7. CASE WriteBody(j)
    <2>1. open[j] \in Jobs BY <1>7 DEF WriteBody, JobTypes
    <2>2. data' \in [Jobs -> Halves]
      BY <1>7, <2>1, <1>n DEF WriteBody, JobTypes, Halves
    <2> QED BY <1>7, <2>2, <1>f, <1>n DEF WriteBody, JobTypes
  <1>8. CASE ReadBack(j)
    <2>1. name[Path(j)] # NoJob => name[Path(j)] \in Jobs
      BY <1>p DEF JobTypes, SomeJob
    <2>2. got' \in [Jobs -> Halves]
      BY <1>8, <2>1 DEF ReadBack, JobTypes
    <2> QED BY <1>8, <2>2, <1>f DEF ReadBack, JobTypes
  <1>9. CASE Finish(j)
    <2>1. uploads' \subseteq Version
      BY <1>9 DEF Finish, JobTypes
    <2> QED BY <1>9, <2>1, <1>f, <1>n, <1>p DEF Finish, JobTypes
  <1>10. CASE GiveUp(j)
    BY <1>10, <1>f DEF GiveUp, JobTypes
  <1>11. CASE Apply(j)
    <2>1. restored' \in [Jobs -> [entries : Nat, contents : Nat]]
      BY <1>11 DEF Apply, JobTypes
    <2> QED BY <1>11, <2>1, <1>f, <1>n, <1>p DEF Apply, JobTypes
  <1> QED
    BY <1>1, <1>2, <1>3, <1>4, <1>5, <1>6, <1>7, <1>8, <1>9, <1>10, <1>11 DEF Job

LEMMA KillKeepsTypes ==
    ASSUME JobTypes, NEW js, Kill(js)
    PROVE  JobTypes'
  BY DEF JobTypes, Kill, State, Using, Ended, SomeJob, Files, Path, Kind

\* The steps of the window next to those of the jobs.
LEMMA StepTypes == TypeInv /\ [Next]_vars => TypeInv'
  <1> SUFFICES ASSUME TypeInv, [Next]_vars PROVE TypeInv'
    OBVIOUS
  <1> USE DEF TypeInv
  <1>k. \A j \in Jobs : Kind(j) \in Kinds
    BY PathOf
  <1>j. UNCHANGED jobVars => JobTypes'
    BY DEF jobVars, JobTypes, Files, Path, Kind
  <1>w. UNCHANGED windowVars => WindowTypes'
    BY DEF windowVars, WindowTypes
  <1>1. ASSUME NEW j \in Jobs, Press(j) PROVE TypeInv'
    BY <1>1, <1>j, <1>k DEF Press, Start, WindowTypes, ThreadState
  <1>2. ASSUME NEW j \in Jobs, Work(j) \/ Begin(j) \/ Run(j) PROVE TypeInv'
    BY <1>2, <1>w, JobKeepsTypes DEF Work, Begin, Run
  <1>3. ASSUME NEW j \in Jobs, Emit(j) PROVE TypeInv'
    BY <1>3, <1>j DEF Emit, WindowTypes, ThreadState, Event
  <1>4. ASSUME NEW j \in Jobs, Leave(j) PROVE TypeInv'
    BY <1>4, <1>j DEF Leave, WindowTypes, ThreadState, Event
  <1>5. ASSUME WindowEnds PROVE TypeInv'
    <2>1. JobTypes' BY <1>5, KillKeepsTypes DEF WindowEnds
    <2>2. form' \in [Kinds -> BOOLEAN] /\ thread' \in [Jobs -> ThreadState]
      BY <1>5 DEF WindowEnds, WindowTypes, ThreadState
    <2>3. shown' \in BOOLEAN BY <1>5 DEF WindowEnds
    <2>4. <<>> \in Seq(Event) OBVIOUS
    <2>5. ui' \in Seq(Event) BY <1>5, <2>4 DEF WindowEnds
    <2>6. WindowTypes' BY <2>2, <2>3, <2>5 DEF WindowTypes
    <2> QED BY <2>1, <2>6
  <1>6. ASSUME NEW j \in Jobs, Interrupt(j) PROVE TypeInv'
    BY <1>6, <1>w, KillKeepsTypes DEF Interrupt
  <1>7. CASE Handle
    <2>1. ui # <<>> /\ Head(ui) \in Event /\ Tail(ui) \in Seq(Event)
      BY <1>7 DEF Handle, WindowTypes
    <2>2. Head(ui)[1] \in Jobs BY <2>1 DEF Event
    <2>3. Kind(Head(ui)[1]) \in Kinds BY <2>2, <1>k
    <2>4. form' \in [Kinds -> BOOLEAN]
      BY <1>7, <2>3 DEF Handle, WindowTypes
    <2>5. thread' \in [Jobs -> ThreadState]
      BY <1>7, <2>2 DEF Handle, WindowTypes, ThreadState
    <2> QED BY <1>7, <1>j, <2>1, <2>4, <2>5 DEF Handle, WindowTypes
  <1>8. CASE Open
    BY <1>8, <1>j DEF Open, WindowTypes
  <1>9. CASE Change
    BY <1>9, <1>w DEF Change, Edit, JobTypes, Files, Path, Kind
  <1>10. CASE UNCHANGED vars
    BY <1>10, <1>j, <1>w DEF vars
  <1> QED
    BY <1>1, <1>2, <1>3, <1>4, <1>5, <1>6, <1>7, <1>8, <1>9, <1>10 DEF Next, Throw, Close

-----------------------------------------------------------------------------
(* What a step of one job leaves alone *)

Touches(k) ==
    /\ UNCHANGED plan
    /\ pc[k] \notin Ended /\ pc'[k] \notin {"start", "killed"}
    /\ \A j \in Jobs \ {k} : pc'[j] = pc[j] /\ open'[j] = open[j] /\ got'[j] = got[j]
    /\ \A j \in Jobs : Path(j) # Path(k) => name'[Path(j)] = name[Path(j)]
    /\ \A f \in Jobs : Path(f) # Path(k) => data'[f] = data[f]
    /\ pc[k] \notin Using /\ pc'[k] \notin Using => UNCHANGED <<name, data>>
    /\ disturbed \subseteq disturbed'
    /\ pc[k] \notin Using /\ pc'[k] \in Using /\ Rivals(k) # {} =>
           Rivals(k) \cup {k} \subseteq disturbed'

\* A file belongs to one path: that of the job that made it.
FilesOfPaths ==
    /\ \A j \in Jobs : name[Path(j)] # NoJob => Path(name[Path(j)]) = Path(j)
    /\ \A j \in Jobs : open[j] # NoJob => Path(open[j]) = Path(j)

LEMMA JobTouches ==
    ASSUME JobTypes, FilesOfPaths, NEW k \in Jobs, Job(k)
    PROVE  Touches(k)
  <1> USE DEF Touches, Step, Using, Ended
  <1>n. NoJob \notin Jobs BY JobAssumption DEF JobAssumption
  <1>p. \A j \in Jobs : Path(j) \in Files BY PathOf
  <1>1. CASE Scan(k) BY <1>1 DEF Scan, JobTypes
  <1>2. CASE ScanAgain(k) BY <1>2 DEF ScanAgain, JobTypes
  <1>3. ASSUME NEW up \in uploads, Download(k, up) PROVE Touches(k)
    BY <1>3 DEF Download, JobTypes
  <1>4. CASE Create(k)
    <2> DEFINE file == IF name[Path(k)] = NoJob THEN k ELSE name[Path(k)]
    <2>1. file \in Jobs /\ Path(file) = Path(k)
      BY <1>p DEF JobTypes, SomeJob, FilesOfPaths
    <2>2. /\ pc[k] = "ready" /\ pc' = [pc EXCEPT ![k] = "opened"]
          /\ name' = [name EXCEPT ![Path(k)] = file]
          /\ open' = [open EXCEPT ![k] = file] /\ data' = [data EXCEPT ![file] = Nothing]
          /\ disturbed' = IF Rivals(k) = {} THEN disturbed
                          ELSE disturbed \cup Rivals(k) \cup {k}
          /\ UNCHANGED <<plan, source, scan, got, uploads, restored>>
      BY <1>4 DEF Create
    <2> HIDE DEF file
    <2>3. \A f \in Jobs : Path(f) # Path(k) => data'[f] = data[f]
      BY <2>1, <2>2 DEF JobTypes
    <2>4. \A j \in Jobs : Path(j) # Path(k) => name'[Path(j)] = name[Path(j)]
      BY <2>2, <1>p DEF JobTypes
    <2>5. pc'[k] = "opened" BY <2>2 DEF JobTypes
    <2>6. \A j \in Jobs \ {k} : pc'[j] = pc[j] /\ open'[j] = open[j] /\ got'[j] = got[j]
      BY <2>2 DEF JobTypes
    <2> QED BY <2>2, <2>3, <2>4, <2>5, <2>6
  <1>5. CASE NotCreated(k) BY <1>5 DEF NotCreated, JobTypes
  <1>6. CASE WriteHead(k)
    <2>1. open[k] \in Jobs /\ Path(open[k]) = Path(k)
      BY <1>6, <1>n DEF WriteHead, JobTypes, FilesOfPaths
    <2> QED BY <1>6, <2>1 DEF WriteHead, JobTypes
  <1>7. CASE WriteBody(k)
    <2>1. open[k] \in Jobs /\ Path(open[k]) = Path(k)
      BY <1>7, <1>n DEF WriteBody, JobTypes, FilesOfPaths
    <2> QED BY <1>7, <2>1 DEF WriteBody, JobTypes
  <1>8. CASE ReadBack(k) BY <1>8 DEF ReadBack, JobTypes
  <1>9. CASE Finish(k) BY <1>9, <1>p DEF Finish, JobTypes
  <1>10. CASE GiveUp(k) BY <1>10 DEF GiveUp, JobTypes
  <1>11. CASE Apply(k) BY <1>11, <1>p DEF Apply, JobTypes
  <1> QED
    BY <1>1, <1>2, <1>3, <1>4, <1>5, <1>6, <1>7, <1>8, <1>9, <1>10, <1>11 DEF Job

LEMMA PathsStay ==
    ASSUME UNCHANGED plan, NEW j \in Jobs
    PROVE  Path(j)' = Path(j) /\ Kind(j)' = Kind(j) /\ InWindow(j)' = InWindow(j) /\ Files' = Files
  BY DEF Path, Kind, InWindow, Files

LEMMA FilesStep ==
    ASSUME JobTypes, FilesOfPaths, NEW k \in Jobs, Job(k)
    PROVE  FilesOfPaths'
  <1>n. NoJob \notin Jobs BY JobAssumption DEF JobAssumption
  <1>p. \A j \in Jobs : Path(j) \in Files BY PathOf
  <1>t. UNCHANGED plan BY JobTouches DEF Touches
  <1>u. \A j \in Jobs : Path(j)' = Path(j) BY <1>t, PathsStay
  <1>q. UNCHANGED <<name, open>> => FilesOfPaths'
    <2>1. ASSUME NEW j \in Jobs, name[Path(j)] # NoJob PROVE name[Path(j)] \in Jobs
      BY <2>1, <1>p DEF JobTypes, SomeJob
    <2>2. ASSUME NEW j \in Jobs, open[j] # NoJob PROVE open[j] \in Jobs
      BY <2>2 DEF JobTypes, SomeJob
    <2> QED BY <1>u, <2>1, <2>2 DEF FilesOfPaths
  <1>1. CASE Create(k)
    <2> DEFINE file == IF name[Path(k)] = NoJob THEN k ELSE name[Path(k)]
    <2>1. file \in Jobs /\ Path(file) = Path(k)
      BY <1>p DEF JobTypes, SomeJob, FilesOfPaths
    <2>2. name' = [name EXCEPT ![Path(k)] = file] /\ open' = [open EXCEPT ![k] = file]
      BY <1>1 DEF Create
    <2> HIDE DEF file
    <2>3. ASSUME NEW j \in Jobs, name'[Path(j)] # NoJob
          PROVE  name'[Path(j)] \in Jobs /\ Path(name'[Path(j)]) = Path(j)
      <3>1. CASE Path(j) = Path(k) BY <2>1, <2>2, <3>1, <1>p DEF JobTypes
      <3>2. CASE Path(j) # Path(k)
        BY <2>2, <2>3, <3>2, <1>p DEF JobTypes, FilesOfPaths, SomeJob
      <3> QED BY <3>1, <3>2
    <2>4. ASSUME NEW j \in Jobs, open'[j] # NoJob
          PROVE  open'[j] \in Jobs /\ Path(open'[j]) = Path(j)
      BY <2>1, <2>2, <2>4 DEF JobTypes, FilesOfPaths, SomeJob
    <2> QED BY <2>3, <2>4, <1>u DEF FilesOfPaths
  <1>2. CASE Finish(k) \/ Apply(k)
    <2>1. name' = [name EXCEPT ![Path(k)] = NoJob] /\ UNCHANGED open
      BY <1>2 DEF Finish, Apply
    <2>3. ASSUME NEW j \in Jobs, name'[Path(j)] # NoJob
          PROVE  name'[Path(j)] \in Jobs /\ Path(name'[Path(j)]) = Path(j)
      BY <2>1, <2>3, <1>p DEF JobTypes, FilesOfPaths, SomeJob
    <2>4. ASSUME NEW j \in Jobs, open'[j] # NoJob
          PROVE  open'[j] \in Jobs /\ Path(open'[j]) = Path(j)
      BY <2>1, <2>4 DEF JobTypes, FilesOfPaths, SomeJob
    <2> QED BY <2>3, <2>4, <1>u DEF FilesOfPaths
  <1>3. CASE WriteBody(k)
    <2>1. UNCHANGED name /\ open' = [open EXCEPT ![k] = NoJob]
      BY <1>3 DEF WriteBody
    <2>3. ASSUME NEW j \in Jobs, name'[Path(j)] # NoJob
          PROVE  name'[Path(j)] \in Jobs /\ Path(name'[Path(j)]) = Path(j)
      BY <2>1, <2>3, <1>p DEF JobTypes, FilesOfPaths, SomeJob
    <2>4. ASSUME NEW j \in Jobs, open'[j] # NoJob
          PROVE  open'[j] \in Jobs /\ Path(open'[j]) = Path(j)
      BY <2>1, <2>4 DEF JobTypes, FilesOfPaths, SomeJob
    <2> QED BY <2>3, <2>4, <1>u DEF FilesOfPaths
  <1>4. ASSUME ~ (Create(k) \/ Finish(k) \/ Apply(k) \/ WriteBody(k)) PROVE UNCHANGED <<name, open>>
    BY <1>4 DEF Job, Scan, ScanAgain, Download, NotCreated, WriteHead, ReadBack, GiveUp
  <1> QED BY <1>q, <1>1, <1>2, <1>3, <1>4

-----------------------------------------------------------------------------
(* A job that has its file to itself *)

\* As long as it uses the file nobody else does, and what it has written is there.
Alone(j) ==
    pc[j] \in Using =>
        /\ Rivals(j) = {}
        /\ name[Path(j)] # NoJob
        /\ pc[j] \in {"opened", "headed"} => open[j] = name[Path(j)]
        /\ pc[j] \in {"headed", "written"} => data[name[Path(j)]].head = j
        /\ pc[j] = "written" => data[name[Path(j)]].body = j

\* OwnData of one job.
Own(j) ==
    /\ pc[j] = "failed" => got[j] # Nothing
    /\ Kind(j) # "local" /\ pc[j] \in {"read", "done", "refused"} => got[j] = Whole(j)

OwnInv == \A j \in Jobs \ disturbed : Alone(j) /\ Own(j)

LEMMA OwnOther ==
    ASSUME JobTypes, FilesOfPaths, OwnInv, NEW k \in Jobs, Job(k),
           NEW j \in Jobs \ disturbed', j # k
    PROVE  Alone(j)' /\ Own(j)'
  <1>n. NoJob \notin Jobs BY JobAssumption DEF JobAssumption
  <1>p. \A i \in Jobs : Path(i) \in Files BY PathOf
  <1>t. Touches(k) BY JobTouches
  <1>u. \A i \in Jobs : Path(i)' = Path(i) /\ Kind(i)' = Kind(i)
    BY <1>t, PathsStay DEF Touches
  <1>1. j \notin disturbed /\ Alone(j) /\ Own(j)
    BY <1>t DEF OwnInv, Touches
  <1>2. Own(j)'
    BY <1>1, <1>t, <1>u DEF Own, Touches, Nothing, Whole
  <1>3. SUFFICES ASSUME pc'[j] \in Using PROVE Alone(j)'
    BY <1>2 DEF Alone
  <1>4. pc[j] \in Using /\ pc'[j] = pc[j] /\ open'[j] = open[j]
    BY <1>3, <1>t DEF Touches
  <1>5. name[Path(j)] \in Jobs /\ Path(name[Path(j)]) = Path(j) /\ Rivals(j) = {}
    BY <1>1, <1>4, <1>p DEF Alone, JobTypes, SomeJob, FilesOfPaths
  <1>6. CASE Path(k) = Path(j)
    <2>1. pc[k] \notin Using
      BY <1>5, <1>6 DEF Rivals
    <2>2. ASSUME pc'[k] \in Using PROVE FALSE
      <3>1. j \in Rivals(k) BY <1>4, <1>6 DEF Rivals
      <3> QED BY <2>1, <2>2, <3>1, <1>t DEF Touches
    <2>3. UNCHANGED <<name, data>>
      BY <2>1, <2>2, <1>t DEF Touches
    <2>4. Rivals(j)' = {}
      BY <2>1, <2>2, <1>5, <1>t, <1>u DEF Rivals, Touches
    <2> QED BY <1>1, <1>4, <1>u, <2>3, <2>4 DEF Alone
  <1>7. CASE Path(k) # Path(j)
    <2>1. name'[Path(j)] = name[Path(j)] /\ data'[name[Path(j)]] = data[name[Path(j)]]
      BY <1>5, <1>7, <1>t DEF Touches
    <2>2. Rivals(j)' = {}
      BY <1>5, <1>7, <1>t, <1>u DEF Rivals, Touches
    <2> QED BY <1>1, <1>4, <1>u, <2>1, <2>2 DEF Alone
  <1> QED BY <1>6, <1>7

LEMMA OwnSelf ==
    ASSUME JobTypes, FilesOfPaths, OwnInv, NEW j \in Jobs \ disturbed', Job(j)
    PROVE  Alone(j)' /\ Own(j)'
  <1>n. NoJob \notin Jobs BY JobAssumption DEF JobAssumption
  <1>p. Path(j) \in Files BY PathOf
  <1>t. Touches(j) BY JobTouches
  <1>u. Path(j)' = Path(j) /\ Kind(j)' = Kind(j) /\ Kind(j) \in Kinds
    BY <1>t, PathsStay, PathOf DEF Touches
  <1>r. Rivals(j)' = Rivals(j)
    <2>1. \A i \in Jobs : Path(i)' = Path(i) BY <1>t, PathsStay DEF Touches
    <2> QED BY <1>t, <2>1 DEF Rivals, Touches
  <1>1. j \notin disturbed /\ Alone(j) /\ Own(j)
    BY <1>t DEF OwnInv, Touches
  <1>w. Nothing.head # j /\ Whole(j) # Nothing
    BY <1>n DEF Nothing, Whole
  <1>h. ASSUME pc[j] \in Using PROVE name[Path(j)] \in Jobs /\ Rivals(j) = {}
    BY <1>1, <1>h, <1>p DEF Alone, JobTypes, SomeJob
  <1> USE DEF Step, Using
  <1>2. CASE Scan(j) \/ ScanAgain(j) \/ (\E up \in uploads : Download(j, up)) \/ NotCreated(j)
    BY <1>2 DEF Scan, ScanAgain, Download, NotCreated, JobTypes, Alone, Own
  <1>3. CASE Create(j)
    <2> DEFINE file == IF name[Path(j)] = NoJob THEN j ELSE name[Path(j)]
    <2>1. file \in Jobs BY <1>p DEF JobTypes, SomeJob
    <2>2. /\ pc' = [pc EXCEPT ![j] = "opened"]
          /\ name' = [name EXCEPT ![Path(j)] = file] /\ open' = [open EXCEPT ![j] = file]
          /\ disturbed' = IF Rivals(j) = {} THEN disturbed
                          ELSE disturbed \cup Rivals(j) \cup {j}
      BY <1>3 DEF Create
    <2> HIDE DEF file
    <2>3. pc'[j] = "opened" /\ name'[Path(j)] = file /\ open'[j] = file
      BY <2>2, <1>p DEF JobTypes
    <2>4. Rivals(j) = {} BY <2>2
    <2> QED BY <2>1, <2>3, <2>4, <1>r, <1>u, <1>n DEF Alone, Own
  <1>4. CASE WriteHead(j)
    <2>1. open[j] = name[Path(j)] /\ name[Path(j)] \in Jobs
      BY <1>4, <1>1, <1>h DEF WriteHead, Alone
    <2>2. pc'[j] = "headed" /\ data'[open[j]].head = j /\ UNCHANGED <<name, open>>
      BY <1>4, <2>1 DEF WriteHead, JobTypes, Halves
    <2> QED BY <2>1, <2>2, <1>1, <1>4, <1>h, <1>r, <1>u, <1>n DEF Alone, Own, WriteHead
  <1>5. CASE WriteBody(j)
    <2>1. open[j] = name[Path(j)] /\ name[Path(j)] \in Jobs /\ data[open[j]].head = j
      BY <1>5, <1>1, <1>h DEF WriteBody, Alone
    <2>2. data'[open[j]].head = j /\ data'[open[j]].body = j /\ UNCHANGED name
      BY <1>5, <2>1 DEF WriteBody, JobTypes, Halves
    <2>3. IF Kind(j) = "local" THEN pc'[j] = "done" ELSE pc'[j] = "written"
      BY <1>5 DEF WriteBody, JobTypes
    <2> QED BY <2>1, <2>2, <2>3, <1>1, <1>5, <1>h, <1>r, <1>u, <1>n DEF Alone, Own, WriteBody
  <1>6. CASE ReadBack(j)
    <2>1. /\ name[Path(j)] \in Jobs /\ name[Path(j)] # NoJob
          /\ data[name[Path(j)]].head = j /\ data[name[Path(j)]].body = j
      BY <1>6, <1>1, <1>h, <1>n DEF ReadBack, Alone
    <2>2. data[name[Path(j)]] = Whole(j)
      BY <2>1 DEF JobTypes, Halves, Whole
    <2>3. pc'[j] = "read" /\ got'[j] = Whole(j) /\ UNCHANGED name
      BY <1>6, <2>1, <2>2 DEF ReadBack, JobTypes
    <2> QED BY <2>1, <2>3, <1>6, <1>h, <1>r, <1>u DEF Alone, Own, ReadBack
  <1>7. CASE Finish(j) \/ GiveUp(j) \/ Apply(j)
    <2>1. pc[j] = "read" /\ Kind(j) # "local" /\ got'[j] = got[j]
      BY <1>7 DEF Finish, GiveUp, Apply
    <2>2. pc'[j] \in {"done", "failed", "refused"}
      BY <1>7 DEF Finish, GiveUp, Apply, JobTypes
    <2>3. got[j] = Whole(j) BY <1>1, <2>1 DEF Own
    <2>4. Nothing' = Nothing /\ Whole(j)' = Whole(j) BY DEF Nothing, Whole
    <2> QED BY <2>1, <2>2, <2>3, <2>4, <1>u, <1>w DEF Alone, Own
  <1> QED BY <1>2, <1>3, <1>4, <1>5, <1>6, <1>7 DEF Job

LEMMA OwnStep ==
    ASSUME JobTypes, FilesOfPaths, OwnInv, NEW k \in Jobs, Job(k)
    PROVE  OwnInv'
  <1> SUFFICES ASSUME NEW j \in Jobs \ disturbed' PROVE Alone(j)' /\ Own(j)'
    BY DEF OwnInv
  <1>1. CASE j = k BY <1>1, OwnSelf
  <1>2. CASE j # k BY <1>2, OwnOther
  <1> QED BY <1>1, <1>2

\* Jobs that are killed, and steps of the window alone.
LEMMA KillTouches ==
    ASSUME JobTypes, FilesOfPaths, OwnInv, NEW js, Kill(js)
    PROVE  FilesOfPaths' /\ OwnInv'
  <1>n. NoJob \notin Jobs BY JobAssumption DEF JobAssumption
  <1>u. \A i \in Jobs : Path(i)' = Path(i) /\ Kind(i)' = Kind(i)
    BY PathsStay DEF Kill
  <1>p. \A i \in Jobs : Path(i) \in Files BY PathOf
  <1>1. FilesOfPaths'
    <2>1. ASSUME NEW j \in Jobs, name'[Path(j)] # NoJob
          PROVE  name'[Path(j)] \in Jobs /\ Path(name'[Path(j)]) = Path(j)
      BY <2>1, <1>p DEF JobTypes, FilesOfPaths, SomeJob, Kill
    <2>2. ASSUME NEW j \in Jobs, open'[j] # NoJob
          PROVE  open'[j] \in Jobs /\ Path(open'[j]) = Path(j)
      BY <2>2, <1>n DEF JobTypes, FilesOfPaths, SomeJob, Kill
    <2> QED BY <2>1, <2>2, <1>u DEF FilesOfPaths
  <1>2. ASSUME NEW j \in Jobs \ disturbed' PROVE Alone(j)' /\ Own(j)'
    <2>1. Alone(j) /\ Own(j) BY <1>2 DEF OwnInv, Kill
    <2>2. CASE j \in js
      <3>1. pc'[j] = "killed" BY <2>2 DEF Kill
      <3> QED BY <3>1 DEF Alone, Own, Using
    <2>3. CASE j \notin js
      <3>1. pc'[j] = pc[j] /\ open'[j] = open[j] BY <2>3 DEF Kill, JobTypes
      <3>2. Rivals(j)' \subseteq Rivals(j)
        BY <1>u DEF Rivals, Kill, Using
      <3>3. Nothing' = Nothing /\ Whole(j)' = Whole(j) BY DEF Nothing, Whole
      <3>4. Own(j)' BY <2>1, <3>1, <3>3, <1>u DEF Own, Kill
      <3>5. Alone(j)'
        BY <2>1, <3>1, <3>2, <1>u DEF Alone, Kill
      <3> QED BY <3>4, <3>5
    <2> QED BY <2>2, <2>3
  <1> QED BY <1>1, <1>2 DEF OwnInv

LEMMA StillTouches ==
    ASSUME FilesOfPaths, OwnInv,
           UNCHANGED <<plan, pc, name, data, open, got, disturbed>>
    PROVE  FilesOfPaths' /\ OwnInv'
  BY DEF FilesOfPaths, OwnInv, Alone, Own, Rivals, Path, Kind, Nothing, Whole

FilesInv == TypeInv /\ FilesOfPaths /\ OwnInv

LEMMA FilesInvInit == Init => FilesInv
  <1> SUFFICES ASSUME Init PROVE FilesInv OBVIOUS
  <1>1. TypeInv BY InitTypes
  <1>2. \A j \in Jobs : Path(j) \in Files BY <1>1, PathOf DEF TypeInv
  <1>3. FilesOfPaths
    BY <1>2 DEF Init, InitJobs, FilesOfPaths
  <1>4. OwnInv
    BY DEF Init, InitJobs, OwnInv, Alone, Own, Using
  <1> QED BY <1>1, <1>3, <1>4 DEF FilesInv

\* What a step of Next is for the jobs.
LEMMA NextJobs ==
    ASSUME [Next]_vars
    PROVE  \/ \E j \in Jobs : Job(j)
           \/ \E js : Kill(js)
           \/ UNCHANGED <<plan, pc, name, data, open, got, restored, disturbed>>
  <1>1. CASE \E j \in Jobs : Work(j) \/ Begin(j) \/ Run(j)
    BY <1>1 DEF Work, Begin, Run
  <1>2. CASE (\E j \in Jobs : Throw(j) \/ Interrupt(j)) \/ Close
    BY <1>2 DEF Throw, Interrupt, Close, WindowEnds
  <1>3. CASE (\E j \in Jobs : Press(j) \/ Emit(j) \/ Leave(j)) \/ Handle \/ Open
              \/ Change \/ UNCHANGED vars
    BY <1>3 DEF Press, Start, Emit, Leave, Handle, Open, Change, Edit, vars, jobVars
  <1> QED BY <1>1, <1>2, <1>3 DEF Next

LEMMA FilesInvNext == FilesInv /\ [Next]_vars => FilesInv'
  <1> SUFFICES ASSUME FilesInv, [Next]_vars PROVE FilesInv' OBVIOUS
  <1> USE DEF FilesInv
  <1>1. TypeInv' BY StepTypes
  <1>2. FilesOfPaths' /\ OwnInv'
    BY NextJobs, FilesStep, OwnStep, KillTouches, StillTouches DEF TypeInv
  <1> QED BY <1>1, <1>2

LEMMA FilesInvHolds == Spec => []FilesInv
  BY FilesInvInit, FilesInvNext, PTL DEF Spec

\* A remote job that had its file to itself sends, or restores, its own .bak and all
\* of it (NetworkBackupClient::run, NetworkRestoreClient::run).
THEOREM OwnDataKept == Spec => []OwnData
  <1>1. FilesInv => OwnData
    BY DEF FilesInv, OwnInv, Own, OwnData
  <1> QED BY <1>1, FilesInvHolds, PTL

-----------------------------------------------------------------------------
(* What is left under /tmp, and what is restored *)

LEMMA TidyInit == Init => Tidy
  <1> SUFFICES ASSUME Init PROVE Tidy OBVIOUS
  <1>1. \A j \in Jobs : Path(j) \in Files BY InitTypes, PathOf DEF TypeInv
  <1> QED BY <1>1 DEF Init, InitJobs, Tidy

LEMMA TidyJob ==
    ASSUME JobTypes, FilesOfPaths, Tidy, NEW k \in Jobs, Job(k)
    PROVE  Tidy'
  <1> SUFFICES ASSUME NEW j \in Jobs, Kind(j) # "local", name'[Path(j)] # NoJob
               PROVE  \E i \in Jobs : Path(i) = Path(j) /\ pc'[i] \in Using \cup {"killed", "failed"}
    <2>1. UNCHANGED plan BY JobTouches DEF Touches
    <2> QED BY <2>1, PathsStay DEF Tidy, Using
  <1>t. Touches(k) BY JobTouches
  <1>p. \A i \in Jobs : Path(i) \in Files BY PathOf
  <1>1. CASE name[Path(j)] = NoJob
    <2>1. Path(k) = Path(j) BY <1>1, <1>t DEF Touches
    <2>2. Create(k)
      BY <1>1, <1>p DEF Job, Scan, ScanAgain, Download, NotCreated, WriteHead, WriteBody,
         ReadBack, Finish, GiveUp, Apply, JobTypes
    <2>3. pc'[k] = "opened" BY <2>2 DEF Create, Step, JobTypes
    <2> QED BY <2>1, <2>3 DEF Using
  <1>2. CASE name[Path(j)] # NoJob
    <2>1. PICK i \in Jobs : Path(i) = Path(j) /\ pc[i] \in Using \cup {"killed", "failed"}
      BY <1>2 DEF Tidy
    <2>2. CASE i # k
      BY <2>1, <2>2, <1>t DEF Touches
    <2>3. CASE i = k
      <3>1. Kind(k) # "local" BY <2>1, <2>3 DEF Path
      <3>2. pc[k] \in Using BY <2>1, <2>3, <1>t DEF Touches, Ended
      <3>3. ~ (Finish(k) \/ Apply(k))
        <4>1. ASSUME Finish(k) \/ Apply(k) PROVE name'[Path(k)] = NoJob
          BY <4>1, <1>p DEF Finish, Apply, JobTypes
        <4> QED BY <4>1, <2>1, <2>3
      <3>4. WriteHead(k) \/ WriteBody(k) \/ ReadBack(k) \/ GiveUp(k)
        BY <3>2, <3>3 DEF Job, Scan, ScanAgain, Download, Create, NotCreated, Step, Using
      <3>5. pc'[k] \in Using \cup {"failed"}
        BY <3>1, <3>4 DEF WriteHead, WriteBody, ReadBack, GiveUp, Step, Using, JobTypes
      <3> QED BY <2>1, <2>3, <3>5
    <2> QED BY <2>2, <2>3
  <1> QED BY <1>1, <1>2

LEMMA TidyStep == FilesInv /\ Tidy /\ [Next]_vars => Tidy'
  <1> SUFFICES ASSUME FilesInv, Tidy, [Next]_vars PROVE Tidy' OBVIOUS
  <1>1. ASSUME NEW js, Kill(js) PROVE Tidy'
    <2>1. \A i \in Jobs : Path(i)' = Path(i) /\ Kind(i)' = Kind(i)
      BY <1>1, PathsStay DEF Kill
    <2>2. \A i \in Jobs : pc'[i] = pc[i] \/ pc'[i] = "killed"
      BY <1>1 DEF Kill
    <2> QED BY <1>1, <2>1, <2>2 DEF Tidy, Kill
  <1>2. CASE UNCHANGED <<plan, pc, name, data, open, got, restored, disturbed>>
    BY <1>2 DEF Tidy, Path, Kind
  <1> QED BY <1>1, <1>2, NextJobs, TidyJob DEF FilesInv, TypeInv

\* A file is left under /tmp only by a job that was killed or gave up, or while a job
\* uses it (the unlink of NetworkBackupClient::run and NetworkRestoreClient::run).
THEOREM TmpTidy == Spec => []Tidy
  BY TidyInit, TidyStep, FilesInvHolds, PTL DEF Spec

\* A restore never gives the contents of one scan the entries of another
\* (NetworkRestoreClient::run, which leaves the metadata it received unused).
THEOREM RestoresOneScan == Spec => []OneScan
  <1>1. Init => OneScan BY DEF Init, InitJobs, OneScan
  <1>2. FilesInv /\ OneScan /\ [Next]_vars => OneScan'
    <2> SUFFICES ASSUME FilesInv, OneScan, [Next]_vars PROVE OneScan' OBVIOUS
    <2>1. ASSUME NEW k \in Jobs, Job(k), ~ Apply(k) PROVE UNCHANGED restored
      BY <2>1 DEF Job, Scan, ScanAgain, Download, Create, NotCreated, WriteHead, WriteBody,
         ReadBack, Finish, GiveUp
    <2>2. ASSUME NEW k \in Jobs, Apply(k) PROVE OneScan'
      BY <2>2 DEF Apply, OneScan, FilesInv, TypeInv, JobTypes
    <2>3. ASSUME UNCHANGED restored PROVE OneScan' BY <2>3 DEF OneScan
    <2> QED BY <2>1, <2>2, <2>3, NextJobs DEF Kill
  <1> QED BY <1>1, <1>2, FilesInvHolds, PTL DEF Spec

-----------------------------------------------------------------------------
(* The window keeps its jobs apart *)

\* The life of a thread, next to that of its job.
Threads ==
    \A j \in Jobs :
        /\ ~InWindow(j) => thread[j] = "none"
        /\ InWindow(j) /\ thread[j] = "none" => pc[j] = "start"
        /\ thread[j] \notin {"none", "working"} => pc[j] \in Ended

\* The form of a tab is disabled from the press to the handling of "finished", so a
\* kind of job has one worker, or one "finished" on its way, or neither.
Forms ==
    /\ \A j \in Jobs : thread[j] = "working" => ~form[Kind(j)]
    /\ \A j, k \in Jobs : thread[j] = "working" /\ thread[k] = "working" /\ Kind(j) = Kind(k)
                              => j = k
    /\ \A i \in 1 .. Len(ui) : thread[ui[i][1]] \notin {"none", "working"}
    /\ \A i \in 1 .. Len(ui) : ui[i][2] = "finished" =>
           /\ ~form[Kind(ui[i][1])]
           /\ \A k \in Jobs : thread[k] = "working" => Kind(k) # Kind(ui[i][1])
    /\ \A i, n \in 1 .. Len(ui) :
           /\ ui[i][2] = "finished" /\ ui[n][2] = "finished"
           /\ Kind(ui[i][1]) = Kind(ui[n][1])
           => i = n

\* A program of its own that was given the output of j has begun.
Outside(j) == \E k \in Jobs : ~InWindow(k) /\ Path(k) = Path(j) /\ pc[k] # "start"

LocalStates == {"start", "ready", "opened", "headed", "done", "unbuilt", "killed"}

\* From the look at the output to the end of the backup.
Local(j) ==
    /\ pc[j] \in LocalStates
    /\ ~Outside(j) =>
           /\ thread[j] = "working" /\ pc[j] \in {"start", "ready"} => name[Path(j)] = NoJob
           /\ pc[j] \in {"opened", "headed"} => name[Path(j)] = j /\ open[j] = j
           /\ pc[j] = "headed" => data[j].head = j
           /\ pc[j] = "done" => name[Path(j)] = j /\ data[j] = Whole(j)

LocalInv == \A j \in Jobs : Kind(j) = "local" => Local(j)


WindowInv == FilesInv /\ Threads /\ Forms /\ LocalInv

LEMMA WindowInit == Init => WindowInv
  <1> SUFFICES ASSUME Init PROVE WindowInv OBVIOUS
  <1>1. FilesInv BY FilesInvInit
  <1>p. \A j \in Jobs : Path(j) \in Files BY <1>1, PathOf DEF FilesInv, TypeInv
  <1>2. Threads /\ Forms BY DEF Init, InitJobs, Threads, Forms
  <1>3. LocalInv BY <1>p DEF Init, InitJobs, LocalInv, Local, LocalStates
  <1> QED BY <1>1, <1>2, <1>3 DEF WindowInv

\* What the event loop takes from its queue, and what it does to the thread.
LEMMA HandleHead ==
    ASSUME WindowTypes, Forms, Handle
    PROVE  /\ Head(ui) = ui[1] /\ Head(ui)[1] \in Jobs
           /\ thread[Head(ui)[1]] \notin {"none", "working"}
           /\ thread'[Head(ui)[1]] \notin {"none", "working"}
           /\ \A j \in Jobs : j # Head(ui)[1] => thread'[j] = thread[j]
           /\ 1 \in 1 .. Len(ui) /\ Len(ui') = Len(ui) - 1
           /\ \A i \in 1 .. Len(ui') : ui'[i] = ui[i + 1] /\ i + 1 \in 1 .. Len(ui)
           /\ UNCHANGED jobVars
  <1>1. ui \in Seq(Event) /\ ui # <<>> /\ ui' = Tail(ui)
    BY DEF Handle, WindowTypes
  <1>2. Head(ui) = ui[1] /\ Head(ui) \in Event /\ 1 \in 1 .. Len(ui)
    BY <1>1
  <1>3. Head(ui)[1] \in Jobs BY <1>2 DEF Event
  <1>4. thread[Head(ui)[1]] \notin {"none", "working"}
    BY <1>2 DEF Forms
  <1>5. thread' \in {thread, [thread EXCEPT ![Head(ui)[1]] = "quitting"],
                     [thread EXCEPT ![Head(ui)[1]] = "deleted"]}
    BY DEF Handle
  <1>6. /\ thread'[Head(ui)[1]] \notin {"none", "working"}
        /\ \A j \in Jobs : j # Head(ui)[1] => thread'[j] = thread[j]
    BY <1>3, <1>4, <1>5 DEF WindowTypes
  <1>7. Len(ui') = Len(ui) - 1
    BY <1>1
  <1>8. \A i \in 1 .. Len(ui') : ui'[i] = ui[i + 1] /\ i + 1 \in 1 .. Len(ui)
    BY <1>1
  <1> QED BY <1>2, <1>3, <1>4, <1>6, <1>7, <1>8 DEF Handle

LEMMA PlanStays ==
    ASSUME FilesInv, [Next]_vars
    PROVE  /\ UNCHANGED plan
           /\ \A j \in Jobs : Kind(j)' = Kind(j) /\ Path(j)' = Path(j)
                              /\ InWindow(j)' = InWindow(j)
  <1>1. UNCHANGED plan
    <2>1. ASSUME NEW j \in Jobs, Job(j) PROVE UNCHANGED plan
      BY <2>1, JobTouches DEF Touches, FilesInv, TypeInv
    <2> QED BY <2>1, NextJobs DEF Kill
  <1> QED BY <1>1, PathsStay

\* A job of the window runs in its thread.
LEMMA ThreadsStep == FilesInv /\ Threads /\ Forms /\ [Next]_vars => Threads'
  <1> SUFFICES ASSUME FilesInv, Threads, Forms, [Next]_vars PROVE Threads' OBVIOUS
  <1> USE DEF FilesInv, TypeInv
  <1>n. UNCHANGED plan /\ \A j \in Jobs : InWindow(j)' = InWindow(j)
    BY PlanStays
  <1>1. ASSUME NEW k \in Jobs, Press(k) PROVE Threads'
    BY <1>1, <1>n DEF Press, Start, Threads, WindowTypes, jobVars
  <1>2. ASSUME NEW k \in Jobs, Work(k) \/ Begin(k) \/ Run(k) PROVE Threads'
    <2>1. Touches(k) /\ UNCHANGED thread
      BY <1>2, JobTouches DEF Work, Begin, Run, windowVars
    <2> QED BY <1>2, <2>1, <1>n DEF Threads, Touches, Work, Begin, Run
  <1>3. ASSUME NEW k \in Jobs, Emit(k) PROVE Threads'
    BY <1>3, <1>n DEF Emit, Threads, WindowTypes, jobVars
  <1>4. ASSUME NEW k \in Jobs, Leave(k) PROVE Threads'
    BY <1>4, <1>n DEF Leave, Threads, WindowTypes, jobVars
  <1>5. ASSUME WindowEnds PROVE Threads'
    <2>1. \A j \in Jobs : thread'[j] = IF thread[j] = "none" THEN "none" ELSE "deleted"
      BY <1>5 DEF WindowEnds
    <2>2. \A j \in Jobs : pc'[j] = IF thread[j] = "working" /\ pc[j] \notin Ended
                                   THEN "killed" ELSE pc[j]
      BY <1>5 DEF WindowEnds, Kill
    <2> QED BY <2>1, <2>2, <1>n DEF Threads, Ended
  <1>6. ASSUME NEW k \in Jobs, Interrupt(k) PROVE Threads'
    BY <1>6, <1>n DEF Interrupt, Kill, Threads, Ended, windowVars
  <1>7. CASE Handle
    BY <1>7, <1>n, HandleHead DEF Threads, jobVars
  <1>8. CASE Open \/ Change \/ UNCHANGED vars
    BY <1>8, <1>n DEF Open, Change, Edit, Threads, vars, jobVars, windowVars
  <1> QED
    BY <1>1, <1>2, <1>3, <1>4, <1>5, <1>6, <1>7, <1>8 DEF Next, Throw, Close

LEMMA FormsStep == FilesInv /\ Threads /\ Forms /\ [Next]_vars => Forms'
  <1> SUFFICES ASSUME FilesInv, Threads, Forms, [Next]_vars PROVE Forms' OBVIOUS
  <1> USE DEF FilesInv, TypeInv
  <1>n. UNCHANGED plan /\ \A j \in Jobs : Kind(j) \in Kinds
    BY PlanStays, PathOf
  <1>e. \A i \in 1 .. Len(ui) : ui[i][1] \in Jobs
    BY DEF WindowTypes, Event
  <1>u. UNCHANGED <<form, thread, ui>> => Forms'
    BY <1>n DEF Forms, Kind
  <1>1. ASSUME NEW k \in Jobs, Press(k) PROVE Forms'
    <2>1. /\ form[Kind(k)] /\ thread[k] = "none" /\ UNCHANGED ui
          /\ form' = [form EXCEPT ![Kind(k)] = FALSE]
          /\ thread' = [thread EXCEPT ![k] = "working"]
      BY <1>1 DEF Press, Start
    <2>2. \A i \in 1 .. Len(ui) : ui[i][1] # k
      BY <2>1 DEF Forms
    <2>3. \A j \in Jobs : thread'[j] = "working" => j = k \/ (thread[j] = "working" /\ Kind(j) # Kind(k))
      BY <2>1 DEF Forms, WindowTypes
    <2>4. \A c \in Kinds : ~form'[c] <=> c = Kind(k) \/ ~form[c]
      BY <2>1 DEF WindowTypes
    <2>5. \A i \in 1 .. Len(ui) : ui[i][2] = "finished" => Kind(ui[i][1]) # Kind(k)
      BY <2>1 DEF Forms
    <2>6. \A j, l \in Jobs : thread'[j] = "working" /\ thread'[l] = "working" /\ Kind(j) = Kind(l) => j = l
      BY <2>3 DEF Forms
    <2>7. \A j \in Jobs : thread'[j] = "working" => ~form'[Kind(j)]
      BY <2>3, <2>4, <1>n DEF Forms
    <2>8. \A i \in 1 .. Len(ui) : thread'[ui[i][1]] \notin {"none", "working"}
      BY <2>1, <2>2, <1>e DEF Forms, WindowTypes
    <2>9. \A i \in 1 .. Len(ui) : ui[i][2] = "finished" =>
              /\ ~form'[Kind(ui[i][1])]
              /\ \A l \in Jobs : thread'[l] = "working" => Kind(l) # Kind(ui[i][1])
      BY <2>3, <2>4, <2>5, <1>n, <1>e DEF Forms
    <2> QED BY <2>1, <2>2, <2>6, <2>7, <2>8, <2>9, <1>n DEF Forms, Kind
  <1>2. ASSUME NEW k \in Jobs, Work(k) \/ Begin(k) \/ Run(k) \/ Interrupt(k) PROVE Forms'
    BY <1>2, <1>u DEF Work, Begin, Run, Interrupt, windowVars
  <1>3. ASSUME NEW k \in Jobs, Emit(k) PROVE Forms'
    <2>1. /\ thread[k] = "working" /\ UNCHANGED form
          /\ ui' = ui \o <<<<k, "finished">>, <<k, "quit">>>>
          /\ thread' = [thread EXCEPT ![k] = "emitted"]
      BY <1>3 DEF Emit
    <2>2. /\ Len(ui') = Len(ui) + 2 /\ Len(ui) \in Nat
          /\ ui'[Len(ui) + 1] = <<k, "finished">> /\ ui'[Len(ui) + 2] = <<k, "quit">>
          /\ \A i \in 1 .. Len(ui) : ui'[i] = ui[i]
      BY <2>1 DEF WindowTypes
    <2> DEFINE z == Len(ui)
    <2>3. \A i \in 1 .. Len(ui') : \/ i \in 1 .. z /\ ui'[i] = ui[i]
                                   \/ i = z + 1 /\ ui'[i][1] = k /\ ui'[i][2] = "finished"
                                   \/ i = z + 2 /\ ui'[i][1] = k /\ ui'[i][2] = "quit"
      BY <2>2
    <2> HIDE DEF z
    <2>4. \A i \in 1 .. Len(ui') : ui'[i][1] \in Jobs
      BY <2>3, <1>n, <1>e DEF z
    <2>5. \A j \in Jobs : thread'[j] = "working" => thread[j] = "working" /\ Kind(j) # Kind(k)
      BY <2>1 DEF Forms, WindowTypes
    <2>6. \A i \in 1 .. Len(ui') : thread'[ui'[i][1]] \notin {"none", "working"}
      BY <2>1, <2>3, <2>4 DEF Forms, WindowTypes, z
    <2>7. \A i \in 1 .. Len(ui') : ui'[i][2] = "finished" =>
              \/ i \in 1 .. z /\ ui'[i] = ui[i] /\ Kind(ui[i][1]) # Kind(k)
              \/ i = z + 1 /\ ui'[i][1] = k
      BY <2>1, <2>3 DEF Forms, z
    <2>8. \A i \in 1 .. Len(ui') : ui'[i][2] = "finished" =>
              /\ ~form'[Kind(ui'[i][1])]
              /\ \A l \in Jobs : thread'[l] = "working" => Kind(l) # Kind(ui'[i][1])
      BY <2>1, <2>5, <2>7 DEF Forms, z
    <2>9. \A i, m \in 1 .. Len(ui') :
              /\ ui'[i][2] = "finished" /\ ui'[m][2] = "finished"
              /\ Kind(ui'[i][1]) = Kind(ui'[m][1])
              => i = m
      BY <2>7 DEF Forms, z
    <2>10. \A j \in Jobs : thread'[j] = "working" => ~form'[Kind(j)]
      BY <2>1, <2>5 DEF Forms
    <2>11. \A j, l \in Jobs : thread'[j] = "working" /\ thread'[l] = "working" /\ Kind(j) = Kind(l) => j = l
      BY <2>5 DEF Forms
    <2> QED BY <2>4, <2>6, <2>8, <2>9, <2>10, <2>11, <1>n DEF Forms, Kind
  <1>4. ASSUME NEW k \in Jobs, Leave(k) PROVE Forms'
    <2>1. /\ thread[k] = "quitting" /\ UNCHANGED form
          /\ ui' = Append(ui, <<k, "ended">>)
          /\ thread' = [thread EXCEPT ![k] = "ended"]
      BY <1>4 DEF Leave
    <2>2. \A i \in 1 .. Len(ui') : \/ i \in 1 .. Len(ui) /\ ui'[i] = ui[i]
                                   \/ ui'[i][1] = k /\ ui'[i][2] = "ended"
      BY <2>1 DEF WindowTypes
    <2>3. \A i \in 1 .. Len(ui') : ui'[i][1] \in Jobs
      BY <2>2, <1>n, <1>e
    <2>4. \A j \in Jobs : thread'[j] = "working" => thread[j] = "working"
      BY <2>1 DEF WindowTypes
    <2>5. \A i \in 1 .. Len(ui') : thread'[ui'[i][1]] \notin {"none", "working"}
      BY <2>1, <2>2, <2>3 DEF Forms, WindowTypes
    <2>6. \A i \in 1 .. Len(ui') : ui'[i][2] = "finished" => i \in 1 .. Len(ui) /\ ui'[i] = ui[i]
      BY <2>2
    <2>7. \A i \in 1 .. Len(ui') : ui'[i][2] = "finished" =>
              /\ ~form'[Kind(ui'[i][1])]
              /\ \A l \in Jobs : thread'[l] = "working" => Kind(l) # Kind(ui'[i][1])
      BY <2>1, <2>4, <2>6 DEF Forms
    <2>8. \A i, m \in 1 .. Len(ui') :
              /\ ui'[i][2] = "finished" /\ ui'[m][2] = "finished"
              /\ Kind(ui'[i][1]) = Kind(ui'[m][1])
              => i = m
      BY <2>6 DEF Forms
    <2> QED BY <2>1, <2>3, <2>4, <2>5, <2>7, <2>8, <1>n DEF Forms, Kind
  <1>5. ASSUME WindowEnds PROVE Forms'
    <2>1. /\ \A j \in Jobs : thread'[j] # "working"
          /\ ui' = <<>>
      BY <1>5 DEF WindowEnds
    <2>2. Len(ui') = 0 BY <2>1
    <2> QED BY <2>1, <2>2 DEF Forms
  <1>6. CASE Handle
    <2> DEFINE h == Head(ui)[1]
    <2>1. /\ Head(ui) = ui[1] /\ h \in Jobs
          /\ thread[h] \notin {"none", "working"} /\ thread'[h] \notin {"none", "working"}
          /\ \A j \in Jobs : j # h => thread'[j] = thread[j]
          /\ 1 \in 1 .. Len(ui) /\ Len(ui') = Len(ui) - 1
          /\ \A i \in 1 .. Len(ui') : ui'[i] = ui[i + 1] /\ i + 1 \in 1 .. Len(ui)
      BY <1>6, HandleHead
    <2>2. \/ UNCHANGED form
          \/ ui[1][2] = "finished" /\ form' = [form EXCEPT ![Kind(h)] = TRUE]
      BY <1>6, <2>1 DEF Handle
    <2> HIDE DEF h
    <2>3. h = ui[1][1] BY <2>1 DEF h
    <2>4. \A j \in Jobs : thread'[j] = "working" => thread[j] = "working"
      BY <2>1
    <2>5. \A i \in 1 .. Len(ui') : ui'[i][1] \in Jobs
      BY <2>1, <1>n, <1>e
    <2>6. \A i \in 1 .. Len(ui') : thread'[ui'[i][1]] \notin {"none", "working"}
      <3> TAKE i \in 1 .. Len(ui')
      <3>1. thread[ui[i + 1][1]] \notin {"none", "working"} BY <2>1 DEF Forms
      <3> QED BY <2>1, <2>5, <3>1
    <2>7. \A c \in Kinds : form'[c] => form[c] \/ (ui[1][2] = "finished" /\ c = Kind(ui[1][1]))
      BY <2>2, <2>3 DEF WindowTypes
    <2>8. \A j \in Jobs : thread'[j] = "working" => ~form'[Kind(j)]
      BY <2>1, <2>4, <2>7, <1>n DEF Forms
    <2>9. ASSUME NEW i \in 1 .. Len(ui'), ui'[i][2] = "finished"
          PROVE  /\ ~form'[Kind(ui'[i][1])]
                 /\ \A l \in Jobs : thread'[l] = "working" => Kind(l) # Kind(ui'[i][1])
      <3>1. ui'[i] = ui[i + 1] /\ i + 1 \in 1 .. Len(ui) /\ i + 1 # 1 BY <2>1
      <3>2. /\ ~form[Kind(ui[i + 1][1])]
            /\ \A l \in Jobs : thread[l] = "working" => Kind(l) # Kind(ui[i + 1][1])
        BY <2>9, <3>1 DEF Forms
      <3>3. ~ (ui[1][2] = "finished" /\ Kind(ui[i + 1][1]) = Kind(ui[1][1]))
        BY <2>1, <2>9, <3>1 DEF Forms
      <3>4. Kind(ui[i + 1][1]) \in Kinds BY <3>1, <1>e, <1>n
      <3> QED BY <3>1, <3>2, <3>3, <3>4, <2>4, <2>7
    <2>10. ASSUME NEW i \in 1 .. Len(ui'), NEW m \in 1 .. Len(ui'),
                  ui'[i][2] = "finished", ui'[m][2] = "finished",
                  Kind(ui'[i][1]) = Kind(ui'[m][1])
           PROVE  i = m
      <3>1. i + 1 = m + 1 BY <2>1, <2>10 DEF Forms
      <3> QED BY <3>1
    <2>11. \A j, l \in Jobs : thread'[j] = "working" /\ thread'[l] = "working" /\ Kind(j) = Kind(l) => j = l
      BY <2>4 DEF Forms
    <2> QED BY <2>5, <2>6, <2>8, <2>9, <2>10, <2>11, <1>n DEF Forms, Kind
  <1>7. CASE Open \/ Change \/ UNCHANGED vars
    BY <1>7, <1>u DEF Open, Change, vars, windowVars
  <1> QED
    BY <1>1, <1>2, <1>3, <1>4, <1>5, <1>6, <1>7 DEF Next, Throw, Close

LEMMA OutsideStays ==
    ASSUME FilesInv, [Next]_vars, NEW j \in Jobs, Outside(j)
    PROVE  Outside(j)'
  <1>1. PICK k \in Jobs : ~InWindow(k) /\ Path(k) = Path(j) /\ pc[k] # "start"
    BY DEF Outside
  <1>2. pc'[k] # "start"
    <2>1. ASSUME NEW i \in Jobs, Job(i) PROVE pc'[k] # "start"
      BY <2>1, <1>1, JobTouches DEF Touches, FilesInv, TypeInv
    <2>2. ASSUME NEW js, Kill(js) PROVE pc'[k] # "start"
      BY <2>2, <1>1 DEF Kill
    <2> QED BY <2>1, <2>2, <1>1, NextJobs
  <1> QED BY <1>1, <1>2, PlanStays DEF Outside

\* The step of job k, for a local backup j.
LEMMA LocalOther ==
    ASSUME FilesInv, Threads, Forms, LocalInv, NEW k \in Jobs, Job(k),
           UNCHANGED windowVars, InWindow(k) => thread[k] = "working",
           NEW j \in Jobs, j # k, Kind(j) = "local"
    PROVE  Local(j)'
  <1> USE DEF FilesInv, TypeInv
  <1>t. Touches(k) BY JobTouches
  <1>u. /\ UNCHANGED thread
        /\ \A i \in Jobs : Path(i)' = Path(i) /\ Kind(i)' = Kind(i) /\ InWindow(i)' = InWindow(i)
    BY <1>t, PathsStay DEF Touches, windowVars
  <1>1. Local(j) BY DEF LocalInv
  <1>2. pc'[j] = pc[j] /\ open'[j] = open[j] BY <1>t DEF Touches
  <1>o. ~Outside(j)' => ~Outside(j)
    BY <1>t, <1>u DEF Outside, Touches
  <1>3. SUFFICES ASSUME ~Outside(j)'
        PROVE  /\ thread[j] = "working" /\ pc[j] \in {"start", "ready"} => name'[Path(j)] = NoJob
               /\ pc[j] \in {"opened", "headed"} => name'[Path(j)] = j /\ open[j] = j
               /\ pc[j] = "headed" => data'[j].head = j
               /\ pc[j] = "done" => name'[Path(j)] = j /\ data'[j] = Whole(j)
    BY <1>1, <1>2, <1>u DEF Local, Whole
  <1>4. /\ thread[j] = "working" /\ pc[j] \in {"start", "ready"} => name[Path(j)] = NoJob
        /\ pc[j] \in {"opened", "headed"} => name[Path(j)] = j /\ open[j] = j
        /\ pc[j] = "headed" => data[j].head = j
        /\ pc[j] = "done" => name[Path(j)] = j /\ data[j] = Whole(j)
    BY <1>1, <1>3, <1>o DEF Local
  <1>5. CASE Path(k) # Path(j)
    BY <1>4, <1>5, <1>t DEF Touches
  <1>6. CASE Path(k) = Path(j)
    <2>1. InWindow(k) /\ thread[k] = "working"
      <3>1. pc'[k] # "start" BY <1>t DEF Touches
      <3>2. InWindow(k)' BY <1>3, <1>6, <1>u, <3>1 DEF Outside
      <3> QED BY <3>2, <1>u
    <2>2. InWindow(j) \/ pc[j] = "start"
      BY <1>3, <1>2, <1>u DEF Outside
    <2>3. Kind(k) = "local" BY <1>6 DEF Path
    <2>4. thread[j] # "working" BY <2>1, <2>3 DEF Forms
    <2>5. pc[j] \notin {"opened", "headed"}
      BY <2>2, <2>4 DEF Threads, Ended
    <2>6. ASSUME pc[j] = "done" PROVE FALSE
      <3>1. name[Path(k)] = j BY <2>6, <1>4, <1>6
      <3>n. j # NoJob BY JobAssumption DEF JobAssumption
      <3>2. ~Outside(k) BY <1>3, <1>o, <1>6 DEF Outside
      <3>3. Local(k) BY <2>3 DEF LocalInv
      <3>4. pc[k] \notin {"start", "ready", "opened", "headed", "done"}
        BY <3>1, <3>2, <3>3, <2>1, <3>n DEF Local
      <3>5. pc[k] \in {"unbuilt", "killed"}
        BY <3>3, <3>4 DEF Local, LocalStates
      <3> QED BY <3>5, <1>t DEF Touches, Ended
    <2> QED BY <2>4, <2>5, <2>6
  <1> QED BY <1>5, <1>6

LEMMA LocalSelf ==
    ASSUME FilesInv, Threads, Forms, LocalInv, NEW j \in Jobs, Job(j),
           UNCHANGED windowVars, InWindow(j) => thread[j] = "working", Kind(j) = "local"
    PROVE  Local(j)'
  <1> USE DEF FilesInv, TypeInv, Step
  <1>t. Touches(j) BY JobTouches
  <1>p. Path(j) \in Files /\ Path(j)' = Path(j) BY <1>t, PathOf, PathsStay DEF Touches
  <1>u. UNCHANGED thread BY DEF windowVars
  <1>1. Local(j) BY DEF LocalInv
  <1>o. ASSUME ~Outside(j)' PROVE ~Outside(j) /\ thread[j] = "working"
    <2>1. UNCHANGED plan /\ pc'[j] # "start" /\ \A i \in Jobs : pc[i] # "start" => pc'[i] # "start"
      BY <1>t DEF Touches
    <2>2. ~Outside(j) BY <1>o, <2>1, PathsStay DEF Outside
    <2>3. InWindow(j)' BY <1>o, <2>1 DEF Outside
    <2> QED BY <2>1, <2>2, <2>3, PathsStay
  <1>2. CASE ScanAgain(j)
    <2>1. pc[j] = "start" /\ pc'[j] = "ready" /\ UNCHANGED name
      BY <1>2 DEF ScanAgain, JobTypes
    <2> QED BY <1>1, <1>o, <1>p, <2>1 DEF Local, LocalStates
  <1>3. CASE Create(j)
    <2> DEFINE file == IF name[Path(j)] = NoJob THEN j ELSE name[Path(j)]
    <2>1. /\ pc[j] = "ready" /\ pc'[j] = "opened"
          /\ name'[Path(j)] = file /\ open'[j] = file
      BY <1>3, <1>p DEF Create, JobTypes
    <2>2. ~Outside(j)' => file = j
      BY <1>1, <1>o, <2>1 DEF Local
    <2> HIDE DEF file
    <2> QED BY <2>1, <2>2, <1>p DEF Local, LocalStates
  <1>4. CASE NotCreated(j)
    <2>1. pc'[j] = "unbuilt" BY <1>4 DEF NotCreated, JobTypes
    <2> QED BY <2>1 DEF Local, LocalStates
  <1>5. CASE WriteHead(j)
    <2>1. /\ pc[j] = "opened" /\ pc'[j] = "headed" /\ UNCHANGED <<name, open>>
          /\ open[j] = j => data'[j].head = j
      BY <1>5 DEF WriteHead, JobTypes, Halves
    <2> QED BY <1>1, <1>o, <1>p, <2>1 DEF Local, LocalStates
  <1>6. CASE WriteBody(j)
    <2>1. /\ pc[j] = "headed" /\ pc'[j] = "done" /\ UNCHANGED name
          /\ open[j] = j => data'[j].body = j /\ data'[j].head = data[j].head
          /\ data' \in [Jobs -> Halves]
      BY <1>6, JobKeepsTypes DEF WriteBody, JobTypes, Halves
    <2>2. ~Outside(j)' => name'[Path(j)] = j /\ data'[j].head = j /\ data'[j].body = j
      BY <1>1, <1>o, <2>1 DEF Local
    <2>3. ~Outside(j)' => data'[j] = Whole(j)
      BY <2>1, <2>2 DEF Halves, Whole
    <2> QED BY <1>p, <2>1, <2>2, <2>3 DEF Local, LocalStates, Whole
  <1>7. CASE Scan(j) \/ (\E up \in uploads : Download(j, up)) \/ Finish(j) \/ GiveUp(j) \/ Apply(j)
    BY <1>7 DEF Scan, Download, Finish, GiveUp, Apply
  <1>8. CASE ReadBack(j)
    BY <1>8, <1>1 DEF ReadBack, Local, LocalStates
  <1> QED BY <1>2, <1>3, <1>4, <1>5, <1>6, <1>7, <1>8 DEF Job

LEMMA LocalStep == WindowInv /\ [Next]_vars => LocalInv'
  <1> SUFFICES ASSUME WindowInv, [Next]_vars, NEW j \in Jobs, Kind(j) = "local"
               PROVE  Local(j)'
    BY PlanStays DEF LocalInv, WindowInv
  <1> USE DEF WindowInv
  <1>u. /\ \A i \in Jobs : Path(i)' = Path(i) /\ Kind(i)' = Kind(i) /\ InWindow(i)' = InWindow(i)
        /\ Whole(j)' = Whole(j)
    BY PlanStays DEF Whole
  <1>1. Local(j) BY DEF LocalInv
  <1>o. ~Outside(j)' => ~Outside(j) BY OutsideStays
  <1>2. ASSUME NEW k \in Jobs, Work(k) \/ Begin(k) \/ Run(k) PROVE Local(j)'
    <2>1. Job(k) /\ UNCHANGED windowVars /\ (InWindow(k) => thread[k] = "working")
      BY <1>2 DEF Work, Begin, Run
    <2> QED BY <2>1, LocalOther, LocalSelf
  <1>3. ASSUME NEW k \in Jobs, Press(k) PROVE Local(j)'
    <2>1. /\ UNCHANGED <<pc, name, data, open>> /\ thread' = [thread EXCEPT ![k] = "working"]
          /\ Kind(k) = "local" => name[Path(k)] = NoJob
      BY <1>3 DEF Press, Start, jobVars
    <2>2. thread'[j] = "working" => thread[j] = "working" \/ name[Path(j)] = NoJob
      BY <2>1 DEF FilesInv, TypeInv, WindowTypes
    <2> QED BY <1>1, <1>o, <1>u, <2>1, <2>2 DEF Local
  <1>4. ASSUME NEW js, Kill(js), \A i \in Jobs : thread'[i] = "working" => thread[i] = "working"
        PROVE  Local(j)'
    <2>1. UNCHANGED <<name, data>> BY <1>4 DEF Kill
    <2>2. CASE j \in js
      <3>1. pc'[j] = "killed" BY <2>2, <1>4 DEF Kill
      <3> QED BY <3>1 DEF Local, LocalStates
    <2>3. CASE j \notin js
      <3>1. pc'[j] = pc[j] /\ open'[j] = open[j] BY <2>3, <1>4 DEF Kill
      <3> QED BY <1>1, <1>4, <1>o, <1>u, <2>1, <3>1 DEF Local
    <2> QED BY <2>2, <2>3
  <1>5. ASSUME UNCHANGED <<pc, name, data, open>>,
               \A i \in Jobs : thread'[i] = "working" => thread[i] = "working"
        PROVE  Local(j)'
    BY <1>1, <1>5, <1>o, <1>u DEF Local
  <1>6. WindowEnds => \A i \in Jobs : thread'[i] # "working"
    BY DEF WindowEnds
  <1>7. CASE (\E k \in Jobs : Throw(k)) \/ Close
    BY <1>4, <1>6, <1>7 DEF Throw, Close, WindowEnds
  <1>8. ASSUME NEW k \in Jobs, Interrupt(k) PROVE Local(j)'
    BY <1>4, <1>8 DEF Interrupt, windowVars
  <1>9. ASSUME NEW k \in Jobs, Emit(k) \/ Leave(k) PROVE Local(j)'
    BY <1>5, <1>9 DEF Emit, Leave, jobVars, FilesInv, TypeInv, WindowTypes
  <1>10. CASE Handle
    BY <1>5, <1>10, HandleHead DEF jobVars, FilesInv, TypeInv
  <1>11. CASE Open \/ Change \/ UNCHANGED vars
    BY <1>5, <1>11 DEF Open, Change, Edit, vars, jobVars, windowVars
  <1> QED
    BY <1>2, <1>3, <1>7, <1>8, <1>9, <1>10, <1>11 DEF Next

LEMMA WindowInvHolds == Spec => []WindowInv
  <1>1. WindowInv /\ [Next]_vars => WindowInv'
    BY FilesInvNext, ThreadsStep, FormsStep, LocalStep DEF WindowInv
  <1> QED BY <1>1, WindowInit, PTL DEF Spec

\* A local backup that has succeeded is not overwritten by what the window does
\* (LocalBackupTab::onStartBackup, which looks at the output before the worker runs).
THEOREM LocalBackupKept == Spec => []LocalKept
  <1>1. WindowInv => LocalKept
    BY DEF WindowInv, LocalInv, Local, Outside, LocalKept
  <1> QED BY <1>1, WindowInvHolds, PTL

\* Jobs of the window do not disturb each other (the forms that are disabled while a
\* worker of their kind runs).
THEOREM WindowKeepsApart == Spec => []OnlyProgramsDisturb
  <1>1. Init => OnlyProgramsDisturb
    BY DEF Init, InitJobs, OnlyProgramsDisturb
  <1>2. WindowInv /\ OnlyProgramsDisturb /\ [Next]_vars => OnlyProgramsDisturb'
    <2> SUFFICES ASSUME WindowInv, OnlyProgramsDisturb, [Next]_vars
                 PROVE  OnlyProgramsDisturb'
      OBVIOUS
    <2> USE DEF WindowInv
    <2>t. disturbed \subseteq Jobs BY DEF FilesInv, TypeInv, JobTypes
    <2>u. \A i \in Jobs : Path(i)' = Path(i) /\ InWindow(i)' = InWindow(i)
      BY PlanStays
    <2>1. ASSUME UNCHANGED disturbed PROVE OnlyProgramsDisturb'
      BY <2>1, <2>t, <2>u DEF OnlyProgramsDisturb
    <2>2. ASSUME NEW k \in Jobs, Create(k), Rivals(k) # {},
                 InWindow(k) => thread[k] = "working"
          PROVE  OnlyProgramsDisturb'
      <3>1. disturbed' = disturbed \cup Rivals(k) \cup {k} /\ pc[k] = "ready"
        BY <2>2 DEF Create, Step
      <3>2. ASSUME NEW i \in Rivals(k)
            PROVE  i \in Jobs /\ i # k /\ Path(i) = Path(k) /\ ~(InWindow(i) /\ InWindow(k))
        <4>1. i \in Jobs /\ i # k /\ Path(i) = Path(k) /\ pc[i] \in Using
          BY DEF Rivals
        <4>2. ASSUME InWindow(i), InWindow(k) PROVE FALSE
          <5>1. thread[i] = "working"
            BY <4>1, <4>2 DEF Threads, Using, Ended
          <5>2. Kind(i) = Kind(k) BY <4>1 DEF Path
          <5> QED BY <4>1, <5>1, <5>2, <4>2, <2>2 DEF Forms
        <4> QED BY <4>1, <4>2
      <3>3. ASSUME NEW i \in disturbed'
            PROVE  \E l \in disturbed' \ {i} : Path(l)' = Path(i)' /\ ~(InWindow(i)' /\ InWindow(l)')
        <4>1. CASE i \in disturbed
          <5>1. PICK l \in disturbed \ {i} : Path(l) = Path(i) /\ ~(InWindow(i) /\ InWindow(l))
            BY <4>1 DEF OnlyProgramsDisturb
          <5> QED BY <4>1, <5>1, <3>1, <2>t, <2>u
        <4>2. CASE i \in Rivals(k)
          <5>1. k \in disturbed' \ {i} BY <4>2, <3>1, <3>2
          <5> QED BY <4>2, <5>1, <3>2, <2>u
        <4>3. CASE i = k
          <5>1. PICK l \in Rivals(k) : TRUE BY <2>2
          <5>2. l \in disturbed' \ {i} BY <4>3, <5>1, <3>1, <3>2
          <5> QED BY <4>3, <5>1, <5>2, <3>2, <2>u
        <4> QED BY <3>1, <4>1, <4>2, <4>3
      <3> QED BY <3>3 DEF OnlyProgramsDisturb
    <2>3. ASSUME NEW k \in Jobs, Job(k), InWindow(k) => thread[k] = "working"
          PROVE  OnlyProgramsDisturb'
      <3>1. Create(k) /\ Rivals(k) = {} => UNCHANGED disturbed BY DEF Create
      <3>2. ~Create(k) => UNCHANGED disturbed
        BY <2>3 DEF Job, Scan, ScanAgain, Download, NotCreated, WriteHead, WriteBody,
           ReadBack, Finish, GiveUp, Apply
      <3> QED BY <3>1, <3>2, <2>1, <2>2, <2>3
    <2>4. CASE \E k \in Jobs : Work(k) \/ Begin(k) \/ Run(k)
      BY <2>3, <2>4 DEF Work, Begin, Run
    <2>5. CASE ~ \E k \in Jobs : Work(k) \/ Begin(k) \/ Run(k)
      BY <2>1, <2>5 DEF Next, Press, Start, Emit, Leave, Throw, Interrupt, WindowEnds, Kill,
         Handle, Close, Open, Change, Edit, vars, jobVars
    <2> QED BY <2>4, <2>5
  <1> QED BY <1>1, <1>2, WindowInvHolds, PTL DEF Spec
=============================================================================
