------------------------------ MODULE BackupJobs ------------------------------
(***************************************************************************)
(* Backups and restores on one machine, seen from the disk: remote ones,   *)
(* NetworkBackupClient::run and NetworkRestoreClient::run                  *)
(* (libbackup/src/network), and local backups, BackupEngine::run. A remote *)
(* job builds or keeps its .bak in a file under /tmp that is named after   *)
(* the user of the server, so jobs of one user use the same file. A local  *)
(* backup writes the file it was given. The conversation with the server   *)
(* is SessionProtocol's; here an upload or a download is one step that may *)
(* fail.                                                                   *)
(*                                                                         *)
(* A .bak is two halves, the header with the metadata and the payload,     *)
(* written one after the other. A file that is removed while it is open    *)
(* stays what it is for those who have it open: a file is known by the job *)
(* that made it.                                                           *)
(***************************************************************************)
EXTENDS Integers, FiniteSets

CONSTANTS
    Jobs,           \* the jobs; each runs once
    NoJob,          \* no job
    Plans,          \* what the jobs may be, see Plan
    MaxEdits        \* bound: changes of the source directory

\* A job has a kind, the name its file is named after (a user of the server, or an
\* output file), and a place: the window, or a program of its own.
Plan == [kind : {"backup", "restore", "local"}, name : STRING,
         place : {"window", "own"}]

ASSUME JobAssumption ==
    /\ Plans \subseteq [Jobs -> Plan] /\ NoJob \notin Jobs
    /\ IsFiniteSet(Jobs) /\ MaxEdits \in Nat

VARIABLES
    plan,           \* plan[j]: what job j is; chosen once
    source,         \* the version of the source directory
    pc,             \* pc[j]: the last step of j
    scan,           \* scan[j]: the version of its metadata, and of its .bak
    name,           \* name[path]: the file of that name
    data,           \* data[f]: who wrote the halves of file f
    open,           \* open[j]: the file j writes
    got,            \* got[j]: what j has read back
    uploads,        \* what the server has: metadata and .bak, by version
    restored,       \* restored[j]: the versions of the entries and of the contents
    disturbed       \* history: jobs that used their file while another did

jobVars == <<plan, source, pc, scan, name, data, open, got, uploads, restored, disturbed>>

Kind(j) == plan[j].kind

\* "/tmp/remote_backup_" or "/tmp/remote_restore_", and the user; or the output file.
Path(j) == <<Kind(j), plan[j].name>>

Files == {Path(j) : j \in Jobs}

Nothing == [head |-> NoJob, body |-> NoJob]

Whole(j) == [head |-> j, body |-> j]

InitJobs ==
    /\ plan \in Plans
    /\ source = 1 /\ uploads = {}
    /\ pc = [j \in Jobs |-> "start"]
    /\ scan = [j \in Jobs |-> [meta |-> 0, bak |-> 0]]
    /\ name = [p \in Files |-> NoJob]
    /\ data = [j \in Jobs |-> Nothing]
    /\ open = [j \in Jobs |-> NoJob]
    /\ got = [j \in Jobs |-> Nothing]
    /\ restored = [j \in Jobs |-> [entries |-> 0, contents |-> 0]]
    /\ disturbed = {}

\* From the open of the file to its removal.
Using == {"opened", "headed", "written", "read"}

Rivals(j) == {k \in Jobs \ {j} : Path(k) = Path(j) /\ pc[k] \in Using}

Ended == {"done", "refused", "unbuilt", "failed", "killed"}

Step(j, from, to) == pc[j] = from /\ pc' = [pc EXCEPT ![j] = to]

-----------------------------------------------------------------------------
(* A backup: two scans, the file, the upload *)

\* The scan the metadata message is made of.
Scan(j) ==
    /\ Kind(j) = "backup" /\ Step(j, "start", "scanned")
    /\ scan' = [scan EXCEPT ![j].meta = source]
    /\ UNCHANGED <<plan, source, name, data, open, got, uploads, restored, disturbed>>

\* BackupEngine::run scans, in a remote backup for the second time.
ScanAgain(j) ==
    /\ IF Kind(j) = "local" THEN Step(j, "start", "ready") ELSE Step(j, "scanned", "ready")
    /\ scan' = [scan EXCEPT ![j].bak = source]
    /\ UNCHANGED <<plan, source, name, data, open, got, uploads, restored, disturbed>>

\* A restore has received both, and keeps the .bak.
Download(j, up) ==
    /\ Kind(j) = "restore" /\ Step(j, "start", "ready")
    /\ scan' = [scan EXCEPT ![j] = up]
    /\ UNCHANGED <<plan, source, name, data, open, got, uploads, restored, disturbed>>

Mutant_Create(j) ==                             \* a file left behind is not opened
    /\ pc[j] = "ready"
    /\ IF name[Path(j)] = NoJob
       THEN /\ Step(j, "ready", "opened")
            /\ name' = [name EXCEPT ![Path(j)] = j]
            /\ open' = [open EXCEPT ![j] = j]
            /\ data' = [data EXCEPT ![j] = Nothing]
            /\ disturbed' = IF Rivals(j) = {} THEN disturbed
                            ELSE disturbed \cup Rivals(j) \cup {j}
       ELSE Step(j, "ready", "failed") /\ UNCHANGED <<plan, name, data, open, disturbed>>
    /\ UNCHANGED <<plan, source, scan, got, uploads, restored>>

\* ofstream: the file of that name is emptied, whoever made it, or a new one made.
Create(j) ==
    LET file == IF name[Path(j)] = NoJob THEN j ELSE name[Path(j)] IN
    /\ Step(j, "ready", "opened")
    /\ name' = [name EXCEPT ![Path(j)] = file]
    /\ open' = [open EXCEPT ![j] = file]
    /\ data' = [data EXCEPT ![file] = Nothing]
    /\ disturbed' = IF Rivals(j) = {} THEN disturbed
                    ELSE disturbed \cup Rivals(j) \cup {j}
    /\ UNCHANGED <<plan, source, scan, got, uploads, restored>>

\* No connection or no login, nothing to restore, or a file that cannot be opened:
\* run returns before there is a file.
NotCreated(j) ==
    /\ \/ Kind(j) # "local" /\ Step(j, "start", "unbuilt")
       \/ Step(j, "ready", "unbuilt")
    /\ UNCHANGED <<plan, source, scan, name, data, open, got, uploads, restored, disturbed>>

WriteHead(j) ==
    /\ Step(j, "opened", "headed")
    /\ data' = [data EXCEPT ![open[j]].head = j]
    /\ UNCHANGED <<plan, source, scan, name, open, got, uploads, restored, disturbed>>

\* A local backup is done; the others go on with what they have written.
WriteBody(j) ==
    /\ Step(j, "headed", IF Kind(j) = "local" THEN "done" ELSE "written")
    /\ data' = [data EXCEPT ![open[j]].body = j]
    /\ open' = [open EXCEPT ![j] = NoJob]
    /\ UNCHANGED <<plan, source, scan, name, got, uploads, restored, disturbed>>

\* The file is opened again by its name and read: by the backup, or by the
\* RestoreEngine. A backup that finds none ends.
ReadBack(j) ==
    LET gone == name[Path(j)] = NoJob IN
    /\ Step(j, "written", IF gone /\ Kind(j) = "backup" THEN "failed" ELSE "read")
    /\ got' = IF gone THEN got ELSE [got EXCEPT ![j] = data[name[Path(j)]]]
    /\ UNCHANGED <<plan, source, scan, name, data, open, uploads, restored, disturbed>>

\* The upload, and the unlink of whatever has the name by now.
Finish(j) ==
    /\ Kind(j) = "backup" /\ Step(j, "read", "done")
    /\ uploads' = IF got[j] = Whole(j) THEN uploads \cup {scan[j]} ELSE uploads
    /\ name' = [name EXCEPT ![Path(j)] = NoJob]
    /\ UNCHANGED <<plan, source, scan, data, open, got, restored, disturbed>>

\* A failed send, or no answer: run returns, and the file stays.
GiveUp(j) ==
    /\ Kind(j) = "backup" /\ Step(j, "read", "failed")
    /\ UNCHANGED <<plan, source, scan, name, data, open, got, uploads, restored, disturbed>>

Mutant_Apply(j) ==                              \* with the metadata that was sent
    /\ Kind(j) = "restore"
    /\ Step(j, "read", IF got[j] = Whole(j) THEN "done" ELSE "failed")
    /\ restored' = IF got[j] = Whole(j)
                   THEN [restored EXCEPT ![j] = [entries |-> scan[j].meta,
                                                 contents |-> scan[j].bak]]
                   ELSE restored
    /\ name' = [name EXCEPT ![Path(j)] = NoJob]
    /\ UNCHANGED <<plan, source, scan, data, open, got, uploads, disturbed>>

Mutant_Apply_Unlink(j) ==                       \* no unlink after a failure
    /\ Kind(j) = "restore"
    /\ \/ /\ Step(j, "read", "done")
          /\ name' = [name EXCEPT ![Path(j)] = NoJob]
       \/ Step(j, "read", "refused") /\ UNCHANGED name
    /\ UNCHANGED <<plan, source, scan, data, open, got, uploads, restored, disturbed>>

\* The engine takes entries and contents from the .bak; the metadata message is
\* received and not used. The file is removed also when the engine refuses what it
\* has read, or has found no file.
Apply(j) ==
    /\ Kind(j) = "restore"
    /\ \/ /\ got[j] # Nothing /\ Step(j, "read", "done")
          /\ restored' = IF got[j] = Whole(j)
                         THEN [restored EXCEPT ![j] = [entries |-> scan[j].bak,
                                                       contents |-> scan[j].bak]]
                         ELSE restored
       \/ Step(j, "read", "refused") /\ UNCHANGED restored
    /\ name' = [name EXCEPT ![Path(j)] = NoJob]
    /\ UNCHANGED <<plan, source, scan, data, open, got, uploads, disturbed>>

Job(j) ==
    \/ Scan(j) \/ ScanAgain(j) \/ (\E up \in uploads : Download(j, up))
    \/ Create(j) \/ NotCreated(j) \/ WriteHead(j) \/ WriteBody(j) \/ ReadBack(j)
    \/ Finish(j) \/ GiveUp(j) \/ Apply(j)

\* Programs end with these jobs running: files are closed, and stay.
Kill(js) ==
    /\ \A j \in js : pc[j] \notin Ended
    /\ pc' = [j \in Jobs |-> IF j \in js THEN "killed" ELSE pc[j]]
    /\ open' = [j \in Jobs |-> IF j \in js THEN NoJob ELSE open[j]]
    /\ UNCHANGED <<plan, source, scan, name, data, got, uploads, restored, disturbed>>

Edit ==
    /\ source <= MaxEdits /\ source' = source + 1
    /\ UNCHANGED <<plan, pc, scan, name, data, open, got, uploads, restored, disturbed>>

-----------------------------------------------------------------------------
(* Properties *)

\* A remote job that had its file to itself sends, or restores, its own .bak and all
\* of it, whatever jobs that were killed or that gave up have left under the name;
\* and the file is there when it wants to read it.
OwnData ==
    \A j \in Jobs \ disturbed :
        /\ pc[j] = "failed" => got[j] # Nothing
        /\ Kind(j) # "local" /\ pc[j] \in {"read", "done", "refused"} => got[j] = Whole(j)

\* A file is left under /tmp only by a job that was killed, or gave up, or while a
\* job uses it.
Tidy ==
    \A j \in Jobs : Kind(j) # "local" /\ name[Path(j)] # NoJob =>
        \E k \in Jobs : Path(k) = Path(j) /\ pc[k] \in Using \cup {"killed", "failed"}

\* A restore never gives the contents of one scan the entries of another, although
\* the source may change between the two scans of a backup.
OneScan == \A j \in Jobs : restored[j].entries = restored[j].contents
=============================================================================
