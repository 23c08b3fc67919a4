# Verification of the backup program

TLA+ models of the backup program in `src/`, the TLC runs that check them, and proofs of
their most important invariants in the TLA+ proof system. `PROJECT.json` is the index:
which definition stands for which lines, which run checks what, which mutant shows that a
property can fail, which hazards of the code the properties are for, and which theorems
are proved.

The program makes backups of a directory (scan, pack, compress, encrypt) and keeps them
in a local file or on a server. The server forks a process for each client; the
processes share a directory tree of backups and a user file, without any lock.

## 1. The system

| Component | State | Operations | Interacts with |
|---|---|---|---|
| `BackupServer` (libbackup/src/network) | `running_`, `childPids_`, the listening socket, the forked children | `start` (accept loop, fork, shutdown), `stop`, signal handlers, `reapChildren` | the kernel (accept, fork, signals, waitpid); starts one `ServerSession` per connection |
| `ServerSession` | its state HANDSHAKE/AUTH/READY, `currentUser_`, the buffers of the request in progress | `handleHandshake`, `handleLogin`, `handleRegister`, `handleBackup`, `handleRestore`, `handleListBackups` | one client by messages; `ServerStorage` and `UserManager` by calls, and through their files every other session process |
| `ServerStorage` | files only: `<user>/backup_NNNNNN/{header.bin, payload.bin, metadata.bin, .name}` | `createBackup`, `save*`, `load*`, `listBackups`, `getLatestBackupId`, `findBackupByName`, `deleteBackup` | called by sessions, each in its own process |
| `UserManager` | `users.db`, and the copy of it each process loaded at its start | `loadUsers`, `saveUsers`, `registerUserRaw`, `userExists`, `getSalt`, `getPasswordHash` | called by sessions |
| `NetworkBackupClient`, `NetworkRestoreClient`, GUI workers | the socket, the encryptor, a temporary file `/tmp/remote_*_<user>.bak` | handshake, login, registration, one request | one session by messages; `BackupEngine`, `RestoreEngine` by calls |
| `TransportEncryptor`, `NetworkProtocol`, `NetworkSocket` | two counters and a key per end | seal, open, framing, timeouts | both ends of a connection |
| `BackupEngine`, `RestoreEngine` (core) | none between calls | the pipeline and its inverse; the restore in phases: directories, links, special files, files, metadata | scanner, strategies, the file system |
| `FileScanner`, filters | none | recursive scan; include and exclude rules | `BackupEngine` |
| Pack, compress, encrypt strategies, metadata | none | pure conversions and their inverses | engines |
| GUI tabs and workers, command-line commands | a form per tab, a thread and a worker per job, queued signals | press, run, finish, close the window | the jobs they run; `/tmp/remote_*_<user>.bak` and the output file, shared with every other program |
| Command-line options, configuration, logger | options | parsing, text output | the components above |

What is hard in it, and what must be true:

* **Concurrent sessions over a file tree without locks.** Numbers are chosen by reading
  the tree, names are looked up before an upload and written after it, a restore reads
  three files in three steps. What was acknowledged must stay intact, listed, and
  restorable; numbers must stay dense; no upload may appear under another's name.
* **Death at any point.** The shutdown signals the sessions, so a process can die between
  any two file operations. What it leaves must not damage or show through later backups.
* **A user file rewritten whole** from a copy that other processes may have made stale.
* **A signal-driven shutdown**: signals before, between and inside system calls, children
  that exit before or after their PID is recorded, zombies that look alive. `start` must
  return, and leave nobody serving.
* **Two ends that switch to encryption separately** and count messages separately, over a
  connection that breaks anywhere, with a timeout at one end only. They must agree, a
  confirmed backup must be stored, and both must end.
* **A tree that changes while it is scanned.** Entries vanish between `readdir`, `lstat`
  and `open`; a file shrinks after its size was taken. What nobody touched must be found
  once, whole, and after its directory. **Filters** are parsed by two pieces of code and must
  mean what the usage text says.
* **A restore into a place that is not empty**, in phases whose order decides whether the
  contents, the permissions and the times survive, killed at any system call and run
  again. What the backup does not list must stay as it was.
* **Conversions** with their limits (runs of 128 bytes, names of 100 bytes, inputs of one
  distinct byte, counters of 32 bits) must be inverted exactly.
* **Temporary files with fixed names**, used by jobs in the threads of one window and by other
  programs, any of which may end at any point. A job that had its file to itself must
  send its own data; no tab may stay disabled.

`PROJECT.json` lists these as hazards, each at its line.

## 2. The modules

| Module | What it models |
|---|---|
| `ServerStorage` | the tree of one user as a value, and every method of the class as an operator on it; no state |
| `StorageApi` | those methods called by one caller in any order, including `deleteBackup`, which no session calls |
| `ServerSession` | the READY state of many session processes over one storage, one file operation per step |
| `BackupCatalog` | what the server promises about uploads, abstractly; `ServerSession` implements it, which is proved |
| `MCServerSession` | symmetry sets for TLC |
| `UserManager` | `users.db` and the AUTH state of many session processes |
| `MCUserManager` | symmetry sets for TLC |
| `BackupServer` | the parent process: `start`, its signal handlers, its children |
| `SessionProtocol` | one client program against one session, message by message |
| `FileFilter` | filter rows, the two parsers (`FilterParser` and the filter window), the rules of nine dimensions, `CompositeFilter`; no state |
| `FileScanner` | a recursive scan next to programs that change the tree, one system call per step |
| `RestoreEngine` | a restore into a destination, one system call per step, with kills and repeats |
| `Bytes`, `Ciphers`, `Compression`, `Packing` | the conversions: numbers in bytes, XOR and Vigenère, RLE and Huffman, tar and index archives; no state |
| `BackupFile` | a backup from the list of entries to the file and back, one stage per step |
| `BackupJobs` | remote backups and restores and local backups of one machine, by the files they share |
| `Window` | the programs that run these jobs: the command-line client, and the window with its tabs, threads and queued events |
| `MCFileScanner`, `MCRestoreEngine`, `MCBackupFile`, `MCWindow` | the instances TLC checks |
| `ServerSession_proofs`, `UserManager_proofs`, `BackupServer_proofs`, `FileScanner_proofs`, `RestoreEngine_proofs`, `StorageApi_proofs`, `BackupFile_proofs`, `Window_proofs` | theorems and proofs; `Window_proofs` also those about `BackupJobs` |

`ServerSession` and `StorageApi` extend `ServerStorage`; `ServerSession` instantiates
`BackupCatalog`. `BackupServer`, `UserManager`, `ServerSession` and `SessionProtocol`
look at one session from four sides: as a process, in AUTH against the database, in READY
against the storage, and as the partner of a client. They meet in a few interface facts:
a session process can be killed at any step (`BackupServer.TerminateOne`, `ForceOne`;
`Kill` and `ServerDies` in the others), a read ends after 30 seconds (`Disconnect`,
`GiveUp`), and a client sends a whole request before it reads (`Following`).

On the client's side `FileScanner` extends `FileFilter`; `BackupFile` extends `Ciphers`,
`Compression` and `Packing`, all over `Bytes`; `Window` extends `BackupJobs`. They meet in the
list of entries: `FileScanner` makes it (parents before children, each entry once),
`BackupFile` takes it through a file and gives it back, `RestoreEngine` starts from it.
An upload or a download of `BackupJobs` is the whole conversation of `SessionProtocol`,
which says that it comes to an end and when it is confirmed.

Definitions named `Mutant_X` are wrong forms of `X`, each a mistake the code could
plausibly contain. No specification uses them; replacing `X` by `Mutant_X` makes the
property named in `PROJECT.json` fail.

### ServerStorage and StorageApi

A tree is a function from the numbers of existing directories to four files. A file is
`NoFile`, `Torn` (opened with truncation, its bytes not there: `std::ofstream` truncates
at once and writes at the latest when it is closed), or its contents. Contents are tokens:
one element of `Data` stands for one uploaded .bak and its metadata. Directory listing,
number choice and the string order of IDs (`std::sort` on `backup_` and the padded number)
are translated: `Digits` is `setw`, `IdBefore` compares two decimal strings. `deleteBackup`
unlinks three files by name and not the fourth, as the code does. Reading a torn file gives
what the code makes of an empty or cut file; `Torn` stands for both.

`StorageApi` calls the methods in any order with `MaxId` numbers.

### ServerSession

`store[u]` is the tree of user `u`; `session[s]` holds the locals of the process in slot
`s`: where it is (`pc`), whose it is, the next message in its stream (`next`), the number,
the buffers, the file it is at. The actions of a backup are, in the order of
`handleBackup`: `AcceptName` or `RejectName`; `ChooseNumber` and `MakeBackupDir` (the two
halves of `createBackup`: another process can act between them); `ReceiveFileData`,
`ReceiveComplete`; `OpenForSave`, `WriteAndClose`, `SkipFile`, `SaveFails` for each of the
four files; `Acknowledge`. A restore is `BeginRestore`, three times `LoadNext`,
`SendRestored`; a list is `BeginList`, `SendList`. `Disconnect` is what every handler does
when a read returns type 0 or a send fails; `Kill` is a signal at any step;
`CrashOnTornMetadata` is the invalid read of `MetadataSerializer::deserialize` on an empty
or cut `metadata.bin`.

History variables: `acked` records the acknowledgements, `excused` the uploads about which
nothing is claimed because they overlapped another upload **of the same user** or the disk
refused one of their writes. That exception is necessary (section 5 shows what happens
without it) and no wider than that: uploads of other users, restores, lists, kills and
later uploads do not excuse anything.

### UserManager

`db` is the content of the file, `session[s].users` the list a process loaded in its
constructor. `BeginRegister` is the open that truncates the file, `FinishRegister` the
write; between them another process may load an empty list or open the file too. `version`
and `disturbed` record whether one of four events happened that the code cannot survive: a
registration from a list loaded before another registration began, a load or a death while
the file is truncated, a refused write. Salt and hash are taken to identify the password
(no two passwords with one hash).

### BackupServer

`pc` follows `start()` statement by statement wherever a signal or a child can come in
between; in particular the test of `running_` (`test`), the moment after it (`calling`) and
the blocked `accept` are three places. A client stands for its process and its PID; PIDs
are not reused. A child is `starting` (the parent's handlers still installed, so SIGTERM
only clears its copy of `running_`), `running`, `dying` (a signal is on its way to end it),
`zombie`, `reaped`. `StopSignal` is SIGTERM or SIGINT to the parent alone or to the whole
process group; it interrupts `accept`, `sleep` and the last `waitpid`, because the handlers
are installed without `SA_RESTART`.

### SessionProtocol

Two FIFO channels of whole messages. Each end has its own `active` and its own counters,
and a message carries whether it was encrypted and with which number; a message is readable
only if the receiver's state matches. All client programs are covered: backup (login, then
registration if that fails), restore, list, and the registration page of the GUI. `world` is
what the server finds in its files, chosen once. The connection breaks when either side
closes or dies; what was in flight may then be lost.

### FileFilter and FileScanner

A row of a filter is what the user wrote: include or exclude, a dimension, and a value that
keeps of its text what the parsers look at (operator, number, unit, glob, date). `parse` is
`FilterParser`, `buildFilter` the filter window, which reads the same rows with other code;
each gives a set of rules, or drops the row. `matches` and `isExcluded` are `CompositeFilter`'s.
`Documented` is written from the usage text (same dimension OR, across dimensions AND,
exclude wins) and not from the code; `FilterAsDocumented` compares them.

`FileScanner` keeps one frame per open directory: what `readdir` will still return, in any
order, and whether a directory above passed the filter. `Open` is `opendir`; `Take` is `readdir`
and the `lstat` that follows; `Vanished` and `Visit` are its two outcomes; `Read` opens and
reads a file whose size was taken before; `Close` returns to the directory above. Between
any two of them another program may `Write` or `Remove` an entry. `Kept` says which entries
a scan should find, without its steps. Entries that appear during the scan are left out:
the scan may find them or not.

### BackupFile and the conversions

`Pack`, `Compress`, `Encrypt`, `Save` are the stages of `BackupEngine::run`; `Load`, `Decrypt`,
`Decompress`, `Unpack` those of `RestoreEngine::run` before it touches the destination. The
strategies are chosen at the beginning, none included. The conversions work on
sequences of bytes, as the code does, with every limit as a constant: the values of a byte
(`Radix`), the widths of the numbers, the bytes of a tar name and the digits of a tar size,
the width of a Huffman counter. Between nodes of equal frequency `buildTree` takes any, but always
the same one: compression and decompression each build the tree, with the same heap.
The generator of the XOR cipher is taken by its low byte, which is all the key stream uses
and all it depends on.

### RestoreEngine

`fs` maps each path to what is there: type, permissions, content, target, mtime, owner. The
phases are those of the code: directories in the order of their paths, links, special files,
files, then the metadata of every entry in the order of the list. `MakeDir`, `Unlink`, `Create`,
`Open`, `Write`, `Chmod`, `Lchown`, `Utimes` are the calls, each with what it does when the
directory above is missing, closed or no directory, when something else is at the place, when a
link is followed; a failed call is a warning, and the restore goes on. `Crash` ends the
program between any two calls, `Again` runs the restore once more over what it left.
`Unlink` of a link and the `Open` that follows a link are the two places where the
destination's own contents matter.

`Restorable` and `StaysOpen` say what keeps an entry from being restored. Besides what is in
the way at first, a restore can close a directory itself: with the permissions the
backup has for it, or, without being root, by `chmod` through a link it found. In a destination
that holds a closed directory `s/d` and in it a link `s/d/f` to `s`, the pipe `s/d/f` of a
backup is not made, since the link cannot be removed, and `chmod` of the pipe closes `s`: no
later call reaches anything in `s`. `StaysOpen` excludes the entries below such an aim.

### BackupJobs and Window

A job is a remote backup, a remote restore or a local backup. Its steps follow
`NetworkBackupClient::run`, `NetworkRestoreClient::run` and `BackupEngine::run` as the disk sees
them: the scan for the metadata message (`Scan`) and the second one of the engine
(`ScanAgain`), the open that empties whatever has the name (`Create`), the two halves of
the .bak (`WriteHead`, `WriteBody`), the second open by name (`ReadBack`), the upload and the
unlink (`Finish`), the restore and the unlink (`Apply`), and the returns that leave the file
behind (`GiveUp`). A file is known by the job that made it, since an unlinked file lives on for
those who have it open. `disturbed` records the jobs that used a file while another did.

`Window` says who runs jobs. A command-line command is a program for one job. A tab disables
its form and starts a thread (`Press`), the worker runs the job (`Work`) and emits `finished`
(`Emit`), which is queued twice to the event loop of the window: for the tab, and for `quit` of the
thread (`Handle`); the thread ends (`Leave`) and is deleted. Closing the window ends every
job of it (`Close`), and so does an exception that a worker does not catch (`Throw`).

## 3. The runs

Runs that pass (distinct states in brackets):

| Run | Instance | What it shows |
|---|---|---|
| `storage_api` (17,576) | 3 numbers, one content, one name | Every file reads back as saved last, although deletion frees numbers for reuse, and what is listed is in use (`ReadsBack`) |
| `uploads` (126,897) | 3 uploads, 2 sessions, 1 user, 1 name | Acknowledged uploads stay whole under their ID and name (`AckedIntact`), an unnamed backup does not get the name of a dead one (`NoInheritedName`), numbers are 1 .. n (`ListedDense`), listed backups stay listed (`ListedStays`), and the settled uploads refine the abstract catalog, with new IDs and new names (`ImplementsCatalog`) |
| `restores` (705,308) | 2 users, 2 sessions, 2 uploads over 9 stored backups each, IDs of 2 digits | A restore sends exactly the backup that was settled when it began, although it reads three files in three steps (`RestoreExact`); a list shows every settled backup with its name (`ListComplete`); the latest ID is the highest number across the change from 09 to 10 (`LatestIsNewest`) |
| `disk_faults` (761,908) | 1 session at a time, 2 uploads, every open and write may fail | A failed upload never damages or hides another (`AckedIntact`), and every session process ends (`SessionsEnd`) |
| `users` (841,305) | 2 sessions, 2 names, 2 passwords, 3 registrations, disk faults | Without the four named events no confirmed user is lost; with them, still no list has a name twice (`UsersKept`). No login succeeds that nobody registered, and none of a confirmed user is refused unless one of these events happened (`LoginSound`) |
| `server` (74,479) | 3 clients, 2 stop signals, a wait of 2 | `childPids_` misses no child (`ChildrenTracked`), nobody is served after `start` (`NothingServing`), after one signal not even a zombie is left (`AllReaped`), SIGKILL follows the whole wait (`ForceAfterWait`), and every signal but the lost ones of section 5 ends `start` (`HeardStops`) |
| `protocol` (10,158) | no bounds | The ends agree on encryption, numbers and login (`EndsAgree`), a request only meets a session that expects it unless the session gave up on a proof (`NeverSurprised`), nothing is stored twice or of a request that was not sent to its end, and a confirmed backup is stored under its name (`StoredOnce`), both ends end (`BothEnd`) |
| `scan` (281,493) | 6 entries, every pair of 19 filter rows, both parsers, one change by another program | What the filter keeps and nobody disturbed is found, and no other of it (`ScanExact`), once and after its directory (`ParentsFirst`), with all of its bytes (`ContentExact`); the rows mean what the usage text says (`FilterAsDocumented`); the scan ends (`ScanEnds`) |
| `backup_file` (86,994) | up to 3 entries, all 27 combinations of strategies, 2 passwords | The restore reads the header that was written (`HeaderExact`), each stage is undone (`CipherUndone`, `CompressionUndone`), and every file that fits its format is found with its content (`ContentsFound`) |
| `restore_engine` (302,386) | backups of up to 3 entries, 11 destinations, root or not, killed once anywhere or run again | What the backup does not list stays as it was (`Untouched`); a restore that ends has made every entry it can make with its content (`ContentRestored`), its times, owner and permissions (`MetadataRestored`) |
| `window` (335,426) | 3 jobs of one user or one output, in the window or on their own, 1 change of the source | A job that had its file to itself sends or restores its own data, whatever others left (`OwnData`); a file is left only by a job that was killed or gave up (`Tidy`); entries and contents come from one scan (`OneScan`); no press overwrites a finished local backup (`LocalKept`); the jobs of one window never disturb each other (`OnlyProgramsDisturb`); no tab hangs (`Recovers`) |

The run that finds a disagreement between the code and what it says of itself,
`shared_directory`, is in section 5.

**Bounds.** Two sessions are enough for every conflict on the server to occur: all of them
are between two processes. Three uploads let a number be shared by two, left behind by one
that died, and followed by a third. The action limits are in the cfg files: `Width` (2 in
`restores`, where the order of 9 and 10 matters, 1 elsewhere; 6 in the code), `MaxWaits`
(2 for the 10 rounds of one second: first, last and in between), `MaxSignals` 2 (one to
stop, one to interrupt the stop), `MaxRegistrations` 3, `MaxId` 3 (one deleted in the
middle, one at the end and reused). `MaxConnections` is 1 so that three clients can fill the
queue of `listen`. `protocol` needs none: a client sends at most ten messages.

`scan` has two nested directories with two files, an empty directory, a link, and a file that
may not be opened: an include or exclude can hit a directory, what is below it, both, or
neither. Two rows show every rule of composition, which are about pairs. `MaxTouch` is 1: one
entry written or removed at any point of the scan. `backup_file` scales every limit down so
that it is crossed: bytes of 3 bits (`Radix` 8, so blocks of 4 and runs to 9 bytes), numbers of 1, 2
and 3 bytes, names of 2 bytes, sizes of 2 ternary digits, counters that wrap at 8, and 2 files as the
most that a restore of the raw format lets pass. In
`restore_engine` four paths hold a directory in a directory with a file, and an entry of each
type next to it; the destinations are empty, the same tree, or have a file, a link or a closed
directory at a place that matters, or a link to a directory above it. `MaxRuns` 1 is one repetition, after a kill or after a restore
that ended. `window` has the three sets of plans in which jobs can meet: backups and a
restore on their own with one in the window, both kinds in the window with a restore
outside, and two presses of the local tab next to a program with the same output.

`CHECK_DEADLOCK FALSE` stands where the modelled system really stops: the server has
returned, both ends are closed, all uploads of the instance are used up, the scan, the restore,
the backup or the last job has ended.

**Symmetry** is used in `uploads`, `restores` and `users` only, over sets no definition
tells apart; never with a liveness property.

**Fairness.** The scheduler runs every process: weak fairness of `Parent`, of
`ResetHandlers` and `Die` of each child, of `Handle(s) \/ Disconnect(s)` and of `Client` and
`Server`. That a session leaves a read is justified by `setReceiveTimeout(30)`
(ServerSession.cpp:51). Nothing is assumed of clients connecting, of signals, or of a session
ending by itself; the client program has no timeout, so that it ends in `BothEnd` depends
on the server closing, which is what the run checks. A scan is one thread that makes one call
after the other: weak fairness of `Scanner`, none of the programs that change the tree. In
`window` the event loop handles what is queued and threads run: weak fairness of `Handle`, and of
`Work`, `Run`, `Emit` and `Leave` of each job; none of the user, of kills, or of a program
being started. An upload there is one step that is taken because of `BothEnd`. `BackupFile` and
`RestoreEngine` state no liveness.

## 4. What is proved

All proofs are checked by tlapm without assumptions beyond those the modules state, which TLC
evaluates on the instances:

* `TokensAssumption`, `WidthAssumption`, `MaxIdAssumption`, `SessionAssumption`,
  `ServerAssumption`, `NamesAssumption`, `MaxAssumption`, `FaultsAssumption`, `JobAssumption`:
  tokens are distinct, bounds are natural numbers, clients and jobs are finite sets, there is a
  name and a password.
* `FileFilter`: `KiloAssumption` (a unit is not 0).
* `BackupFile_proofs`: `RadixAssumption`, `GeneratorAssumption` (naturals, no width is 0), `XorAssumption`
  (Xor of bytes is a byte, and done twice it is undone), `BitsAssumption` (so many bits make a byte),
  `BlockAssumption` (the shortest run, three bytes, fits a block of the run-length code),
  `PackingAssumption` (the limits are not 0; an octal digit and the types are bytes; the signature of
  the index and the limit on the number of files fit the four bytes they are compared in), and
  `InputAssumption`: what `struct stat` and `PATH_MAX` give of an entry fits the fields of its
  metadata, a path has no byte 0 (`Sized`), a scan gives every path once (`PathsOnce`), a password is not
  empty, and the flags fit theirs. Nothing is assumed of contents, their sizes or the number of entries.
* `FileScanner`: `TreeAssumption`, `AttrAssumption`, `SizeAssumption` (`Parent` and `Above` describe a
  finite tree; types, sizes, days and IDs are such), and `FilterAssumption` (what a
  user can write into a row: the operators and units the parsers know, numbers without a sign, an
  ID in digits or a name).
* `RestoreEngine`: `PathAssumption`, `TreeAssumption`, `BackupAssumption` (the same for a destination, a
  backup and its entries); `ListAssumption` (what a scan gives: every path once, entries below
  directories only, all permissions on links); `ConsistentAssumption` (what a disk holds is
  in a directory).

Two theorems, `UnnamedStaysUnnamed` and `ListsComplete`, assume in addition that the disk refuses
no open (`"open" \notin Faults`). They need it: when the open of `header.bin` fails, the handler goes on and saves
the rest, name included, in a directory that is not listed; the next upload gets
this number, and if it has no name it inherits that one. TLC finds the counterexample when
`"open"` is put into the `Faults` of the run `uploads`.

The theorems hold for any number of users, sessions, uploads, clients, signals and jobs, for any
tree, filter, backup, destination and set of plans, and any other faults.

`ServerSession_proofs`: `TypeCorrect` (TypeOK), `NumbersDense` (ListedDense) and
`BackupsStayListed` (ListedStays). Neither `TypeOK` nor `ListedDense` is inductive.
Density breaks when a session saves the header of number n+1 while n is not listed, so the
invariant must say of every session with a number that all smaller numbers are already
listed (`NumberOK`); that stays true because no step takes a number off a list (`Grows`,
lemma `StoreGrows`), and it is true at first because the next number after 1 .. n is
n + 1 (`NextOfDense`, which needs density: the two support each other). Types need
what the locals are at each place (`LocalOK`: for instance that a session with a number has
a user, and that a message `BACKUP_START` comes with a name) and that a buffer never holds
the state of a missing file (`BufferOK`). The inductive invariant is
`TypeInv` = `TypeOK` with these, and `Dense` of every tree. The proof takes each kind of
state in a lemma of its own (`LocalStep`, `BufferStep`, `StoreSteps`, `NumberStep`,
`HistoryStep`), one step per action.

The rest of the module stands on it and proves what the server is for:

* `UploadsKept` (AckedIntact). The inductive invariant `DurableInv` adds five parts to
  `TypeInv`. `DataInv`: uploads in progress and acknowledged ones are told apart by their
  data. `LoneInv`: an upload that is not excused has no rival of its user, because the
  action that starts the second one excuses both. `SavedInv`: the files such an upload
  is done with hold its buffers; this needs `LoneInv`, as only a rival could write to the
  directory. `NewInv`: an upload has a number and a name that no settled upload of its
  user has; the number is new because it is one past the highest listed, the name because it
  was looked up among the listed. `AckedIntact` itself is the last part: it keeps
  the settled uploads listed, which `NewInv` uses, and `NewInv` keeps others from writing to
  them. `StepDoes` states once which of a few shapes each action has; the lemmas `DataStep`,
  `LoneStep`, `NewStep`, `SavedStep`, `IntactStep` go through the shapes.
* `RefinesCatalog` (ImplementsCatalog): the initial state has an empty catalog, and every
  step either leaves the catalog or adds one entry whose contents, ID and name are new.
  A settled upload stays settled (`SettledStays`): no action excuses what is
  acknowledged.
* `RestoresExact` (RestoreExact): the files a restore has loaded so far are those of the settled
  backup it was asked for (`RestoreOK`), which by `AckedIntact` do not change under it.
* `UnnamedStaysUnnamed` (NoInheritedName): the header is the first file of an upload, so a
  directory without a header has no name (`HeaderFirst`), and an upload begins in a
  directory without a header. Until it is acknowledged its directory has no name if it has none
  (`UnnamedInv`, which needs `LoneInv`), and afterwards nobody writes there. Together with
  `DurableInv` this is `NamesInv`.
* `ListsComplete` (ListComplete): what is settled when the list is begun is among the IDs read
  first, and in the reply with its own name (`ListOK`), since neither changes in between.
* `LatestIsLast` (LatestIsNewest) is about IDs, which are compared digit by digit. A number that fits
  `Width` digits has an ID of just as many (`DigitsOfFit`), and two of these are in the order of their
  numbers (`OrderOfFit`). The hypothesis is that the backups there are at first and the uploads
  together are a number that fits: a million in the code. That no number is higher is `CountInv`:
  each listed number costs an upload of its own (`ListsOwn`), one that had listed none before (`Waits`).

`StorageApi_proofs`: `SavedReadsBack` (ReadsBack). What is saved for a number is what the tree gives
back (`Agreed`) is inductive only together with what a deletion leaves: a directory
that is no backup any more holds at most a name (`Emptied`), so that reuse of the number starts
from nothing. `HighestOf` says that the number chosen is unused.

`UserManager_proofs`: `TypeCorrect`, `ConfirmedUsersKept` (UsersKept) and `LoginsSound`
(LoginSound). Lists and file have no name twice and only registered entries
(`Lists`, `Local`), whatever happens. As long as nothing has disturbed the database,
in addition: a process has in its list the users confirmed before it began (`Known`), a list of
the current version is the file and nobody is writing (`Fresh`), and only one process at a time
is between truncation and write, with a list that has every confirmed user (`OneWriter`).

`FileScanner_proofs`: `TypeCorrect`, `InOrder` (ParentsFirst) and `ContentsWhole`
(ContentExact). That no entry is found twice needs that what an open directory still has to
return has not been found, nor anything below it (`Waiting`), that the open directories are
distinct (`Distinct`), that nothing waits above the entry in hand, which is none of them
(`Current`), and that neither this entry nor anything in it has been found (`Ahead`). Contents need that an untouched entry has the size it began with, also the
copy of that size taken at `lstat` (`Untouched`).

`ScanFindsAll` (ScanExact) is about the end of a scan, so its invariant `ScanInv` must say of every moment
what is missing: what nobody disturbed is found exactly if it is to be kept, or the scan has
still to come to it (`Settled`), which it has when the entry or a directory above it is
in an open directory, read or opened now (`Pending`); at the end nothing is pending. An entry is kept
for what it and the directories above it are, so the frames must carry the truth about those
(`FramesOK`, `EntryOK`): no directory above is excluded, and `included` says whether one of
them passed. `WayDown` is the fact about trees behind it: on the way from an open directory to an entry
there is one that is in it.
`FiltersMeanTheirText` (FilterAsDocumented) has no steps but cases: every rule that either parser makes
hits what its row is documented to mean, in each dimension (`RuleMeans`), both
parsers make a rule for every row that is not to be ignored and no other, and rules that
correspond to rows are composed as the text says (`SameMeaning`).

`RestoreEngine_proofs`: `TypeCorrect` and `OthersUntouched` (Untouched). The invariant is
`Legal(fs)`, which adds to `Untouched` why the restore does not get elsewhere: every link at the
place of an entry aims at one of `Aims`; and the open file is an entry or such an aim. Every operator that changes the disk keeps it (`MakeLegal`,
`MkdirLegal`, `StampLegal`, `ChangeLegal`); one step per call.

`EntriesMade` (ContentRestored) is about a run that has ended, after any number that did not. `ContentInv`
says of every entry that can be restored, at every moment, that it is there (`Right`) or that
nothing keeps the run from making it (`Ready`): the directories above are missing or open, whatever
is at its place can be emptied or removed; that it is `Right` once its phase is over; and
what is between its two calls (`Progress`). Every call for one entry must leave the others so (`Keeps`).
This is where the order of the phases matters, and needs more: that what the disk holds is in
directories (`Consistent`), that links at the places of entries are old ones or the backup's
(`KnownLinks`), and which entries are still to come (`Stage`). About the tree it needs that a set of paths
has an uppermost one (`Uppermost`) and that of two directories on one way one is above the other
(`OneWay`), from which follows what `mkdirRecursive` does (`MkdirShape`, `MkdirWorks`).
`MetadataKept` (MetadataRestored) adds in `MetaInv` that the way to such an entry stays open while permissions
are restored in the order of the list, and what of its metadata is there after each of the
three calls. The attempt to prove it showed that an earlier `StaysOpen` was too weak (section 2,
RestoreEngine); the destination that shows it is now in the run.

`Window_proofs` is about the jobs and the window together.

* `OwnDataKept` (OwnData), `TmpTidy` (Tidy) and `RestoresOneScan` (OneScan) rest on `FilesInv`. A file is only
  known under the path of the job that made it (`FilesOfPaths`). Of a job that nobody has
  disturbed: while it uses its path it has no rival, the name leads to a file, and this file
  holds what the job has written so far (`Alone`), and what it has read back is all of its
  own (`Own`). `JobTouches` states once what a step of one job leaves to the others.
* `LocalBackupKept` (LocalKept) and `WindowKeepsApart` (OnlyProgramsDisturb) rest on `WindowInv`, which adds the
  threads (`Threads`), the forms and the queue of events, and each local backup from the look
  at the output to its end (`LocalInv`). `Forms` is what makes a window safe: a kind of job has
  one working thread, or one `finished` on its way, or neither, and in the first two cases
  its form is disabled.

`BackupServer_proofs`: `TypeCorrect`, `ChildrenAreTracked` (ChildrenTracked),
`NobodyServed` (NothingServing), `OneSignalReapsAll` (AllReaped), `KilledAfterTheWait`
(ForceAfterWait) and `EachWaitedForOnce` (ChildOrder, which no run checks any more). Each has
its own strengthening of the type invariant: `ForceInv` says that in the last phase a living
child is still in `todo`; `SignalInv` that the parent is only in the shutdown after a signal, so
that the first signal cannot also interrupt the last wait; `WaitInv` relates `waited` to what is
running; `FreshInv` that a client whose connection is still queued or being accepted has no
child yet, so that `Fork` restarts nobody.

`BackupFile_proofs` is about the conversions, for every payload and every width of a byte.
`NumbersReadBack` is about the numbers in every format, `VigenereUndone` and `XorUndone` about the
ciphers: the key stream is the same on both sides and all of it bytes (`SeedByte`,
`StreamBytes`). These are the laws behind `CipherUndone`, which says them of the stages of a backup.
`RleUndone` is the one behind `CompressionUndone` for the run-length code: at every block boundary `pos`
of the payload, what is expanded from where the blocks from `pos` on begin is the rest of the
payload (`BlockUndone` for one block, `Backwards` for all of them, from the end). The two
recursions go forward by what a block covers, so that they have solutions is shown from the
end as well (`ChainExists`, `ChainIs`).

`HeaderStaysExact` (HeaderExact) and `CipherStaysUndone` (CipherUndone) are about the whole backup and restore. The
invariant `BackupInvariant` says of each stage what the payload is: what the chosen strategies
make of the entries on the way to the file (`BackingUp`), and on the way back, unless the
metadata were too long for their size (`Oversized`), the same in reverse (`Restoring`). The one
step with a content is `Load`: `loadHeader` of `saveHeader` and any payload is what was written
(`HeaderRead`), because `deserialize` finds each entry where the ones before it end
(`MetadataRead`, and `InfoRead` for one entry, with the device number that only devices have). Decryption
needs in addition that every archive and every compression is a sequence of bytes (`ArchiveBytes`,
`CompressedBytes`): for the Huffman code, that a tree gives every byte a code of bits
(`TreeIs`). `TreeIs` also says that no code is the beginning of another, whatever ties there are
between nodes (`JoinedIs`).

`CompressionStaysUndone` (CompressionUndone) rests on the same invariant and on three laws of the codes.
`RleUndone` is one. `RleCost` is the price of the run-length code: from every block boundary on, what the blocks
take is at most the bytes that are left and one for each block of literals that these could fill
(`BoundedStep`). A short block is paid for by what follows it: it ends where three equal bytes begin
(`LiteralEnds`), and a run of three or more (`LongRun`) saves the byte.
`HuffmanUndone` says that the Huffman code is undone whenever no count has wrapped to zero, the payload has not
one byte value only and the sizes fit their fields. The counts are read back as they were written
(`TableRead`), so decompression builds the same tree (`DecompressIs`). Two byte values in use differ at a
bit that both codes have, so that no code is empty (`AllDecodable`). Where the codes of the bytes before
byte `i` end in the packed bits (`BitIs`), the code of byte `i` comes next and, as none is the
beginning of another, no other does (`OneComes`); so the walk gives back byte after byte (`WalkIs`).
`DecompressionUndone` joins the laws: what `Huge` and `Lost` leave are exactly their hypotheses.

`ContentsStayFound` (ContentsFound) rests on the invariant, on `PayloadIntact` (unless `Exact` fails, what the restore
unpacks is the very archive) and on one law for each format.
`IndexUndone`: the index gives back every entry. It is read from the end, so the place of the index comes
from the last record, and each entry of it, where the ones before it end, points to where the content begins
(`IndexIsAt`, `DirEntryRead`).
`RawUndone`: the raw format gives back every regular file that is not empty. Two recursions meet in one progress
statement (`RawFound`): after `k` entries of the list were written, as many pieces are read as files among them have a
content.
`TarPrefix`: the headers are read back up to any entry before which all sizes fit. It is about a prefix, because one
size that does not fit sends the reader to the wrong place, and what it finds from there on is nothing that can be
relied on; `ContentsFound` promises nothing of the entries from there on. `TarWalk` shows that the walk
over the archive is the one that goes from header to header (`TarIsAt`, `OctalRead`, `NameRead`),
and `TarUndone` is the case in which everything fits.
The restore takes the first item with a path (`ContentOf`). So the last part is that no earlier item has this path (`FirstFound`): paths
are given once, and a cut tar name before the file is not the name of the file.

What a recursive definition gives is an induction, and the provers have none; the module makes one
from the least element of a set of numbers (`Induction`), shows with it that a recursion
has a solution (`Recursion`), and argues about sets of positions (`Kept`). For that, numbers are
written in `Bytes` by repeated division, and summed up from their digits, and not with powers, which mean
nothing to the provers.

Only model-checked, and why:

* All liveness (`SessionsEnd`, `HeardStops`, `BothEnd`, `ScanEnds`, `Recovers`), which is beyond the prover.
* `EndsAgree`, `NeverSurprised`, `StoredOnce` of `SessionProtocol`: the module has no constants and
  finitely many states, so the run has looked at every one of them, and a proof would say no more.

## 5. Where the code and its words disagree

One of these has a run that TLC ends with a counterexample:

* `shared_directory`: two uploads of one user at once get one number. `createBackup` reads
  the highest *listed* number and `mkdir` of an existing directory is success
  (ServerStorage.cpp:60-64); the files of both go into one directory. The exception of
  `AckedIntact` comes from here.

### Further disagreements

The modules state these refuted claims as well (at their ends). Each has a counterexample
when it is put into the named configuration.

| Claim | Where | What the code does |
|---|---|---|
| `RejectedNotStored` | MCServerSession.cfg | after NAME_EXISTS the session is back in its READY loop, while the client has sent everything; the FILE_DATA that follows starts an unnamed backup, which is stored and acknowledged (ServerSession.cpp:270) |
| `NamesUnique` | MCServerSharedDir.cfg | the name is looked up before the upload and written after it, so two overlapping uploads of one name both pass (ServerSession.cpp:261-271) |
| `AckMeansSaved` | MCServerFaults.cfg | the results of the four saves are ignored (ServerSession.cpp:335-350) |
| `RestoreSendsWholeBak` | MCServerRestore.cfg | a backup is listed as soon as it has a header.bin; one whose process died then is restored as a header alone (ServerSession.cpp:396) |
| `LatestIsNewest` with `Width = 1`, `Archive = 9` | MCServerRestore.cfg | IDs longer than the padding sort before shorter ones: backup_1000000 is never the latest (ServerStorage.cpp:206) |
| `NamesReadBack` | StorageApi.cfg | `deleteBackup` leaves `.name`, and the next backup of that number inherits it (ServerStorage.cpp:223-227) |
| `RegisteredOnce` | MCUserManager.cfg | two processes that loaded the list before either registered both confirm one name (UserManager.cpp:156) |
| `RegisteredKept` | MCUserManager.cfg | a process killed between truncation and write of users.db loses every user (UserManager.cpp:113) |
| `StopReturns` | BackupServer.cfg | a signal between the test of `running_` and `accept`, or before `running_ = true`, interrupts nothing; `start` sleeps in `accept` (BackupServer.cpp:101) |
| `WithinMaxConnections` | BackupServer.cfg | `max_connections` is only the backlog of `listen`, not "Maximum concurrent connections" (deploy/server.conf.example:14) |
| `SleepsOnlyForRunning` | BackupServer.cfg | `kill(pid, 0)` also succeeds for a zombie, so a shutdown sleeps its ten rounds after everyone has ended (BackupServer.cpp:166) |
| `SessionsGetTheWait` | BackupServer.cfg | SIGTERM, which ends a session at once, is sent before the wait for active sessions (BackupServer.cpp:178) |
| `TrueMeansConfirmed` | SessionProtocol.cfg | `NetworkBackupClient::run` returns true when the answer is an error or never comes (NetworkBackupClient.cpp:273), and the GUI says that the backup is complete |
| `SizesAsOffered` | MCFileScanner.cfg | the filter window offers "=1024" in its placeholder and reads it as 0 (FilterSetupWidget.cpp:234) |
| `ExcludedNotKept` | MCFileScanner.cfg | an excluded directory below an included one is kept, without what is in it (FileScanner.cpp:58, :83) |
| `PermissionsRestored` | MCRestoreEngine.cfg | `restoreMetadata` says that it restores permissions, owner and times (RestoreEngine.h:38); `lchown` after `chmod` clears set-id bits, and `chmod` of a link writes the permissions of the link to its target |
| `CodeLengths` | MCBackupFile.cfg | a payload of one distinct byte has a code of length 0 where HuffmanCompressStrategy.h:22 says "1–32"; it is lost (HuffmanCompressStrategy.cpp:61) |

The rest is no claim of the code about itself, but worth knowing:

* A tar name is cut after 100 bytes and its file is then not found; a size of 8 GiB or more does
  not fit. The raw format (no packing) loses empty files; no program of the repository
  offers it, only a caller of the library can choose it. It is written for any number of files, and a restore
  refuses one of more than a million (RestoreEngine.cpp:314, `TooMany`). The size of the metadata is cut to 32 bits
  without a check (MetadataStore.cpp:30); of 4 GiB of them the restore would take the rest for the payload. `Unfit`, `Lost`,
  `TooMany` and `Oversized` of `BackupFile` say exactly when something is lost.
* The Vigenère cipher treats an empty password differently in its two directions; both
  programs ask for a password before they use it.
* The metadata of the source directory itself is not in a backup, so it is not restored.
* `RemoteRestoreWorker` does not catch what the engine throws, as `RestoreWorker` does; with the
  closing of the window this is how jobs of other tabs end in the middle (`Throw`, `Close`).
* `LocalRestoreTab` looks for conflicts in the destination before it starts. Between the look and
  the restore anything may appear there; `Untouched` covers what then happens to it.

## 6. Abstractions and what is not modelled

* Messages are whole: framing, byte order and partial reads of `NetworkSocket` are left out,
  as are malformed payloads and LOGOUT, which no client of the repository sends.
* The key stream of `TransportEncryptor` is abstracted to the number it is derived from; the
  hash of `UserManager` to the password. Nothing is claimed about cryptographic strength.
* Files are what other processes see. Nothing is flushed to the disk, so a loss of power is
  another matter, about which the code does nothing and the models say nothing.
* On the server, a write puts all bytes of a file at once or not at all; a partly written file
  behaves as `Torn` for every reader, except that a cut header or payload is sent as it is. Both
  are states only of backups that were never acknowledged without a fault.
* PIDs are not reused. The shutdown signals PIDs it has already reaped; what a kernel that has
  given them away again would do is not modelled.
* `FileScanner`: one time stands for atime, ctime and mtime, one owner for owner and group;
  there is no daylight saving, and dates are days. In the window a short date inside "between"
  ends the program and is not offered to the model. Entries that appear during the scan, and
  a source prefix with "..", are left out.
* `BackupFile`: paths are distinct; the prefix that `BackupEngine` puts before them is not
  modelled, nor are write errors (a backup whose disk is full is reported complete), wrong passwords or
  files of another version. Reads beyond the end of the data are taken to give zeros. The code of a
  byte has any length here and 64 bits in `HuffmanCode::bits`; a longer one needs a payload of more
  than 4 GiB, so that frequencies wrap.
* `RestoreEngine`: the destination exists, is writable and belongs to the user. Links to
  links, pre-existing fifos, and links to directories with children are excluded from the
  destinations. Creation, removal and a write always succeed where permissions allow them.
* `BackupJobs`: the .bak is read in one step, and whether the engine refuses what it reads is
  a choice. The local restore writes no file that others name, and is not a job.
* Timestamps, log lines and the wording of messages; the parsing of options; layout of the GUI.
  `ServerConfig`, `Logger`, the server's `main`, deployment files: parsing and text, with no
  protocol of their own. Qt is external: of it only the queued signals and the life of a
  `QThread` are modelled.

Hazards without a property, and why, are in `PROJECT.json`.

## 7. Plan

What would add most from here, in this order:

1. *Composition*: `BackupServer` with sessions that own storage, so that the shutdown and
   what it leaves in the storage are one behaviour; and `FileScanner` with `RestoreEngine`, so that
   a restored tree equals the scanned one.
2. *Proofs*: that the server's end in `SessionProtocol` is what a session of `ServerSession` shows to its
   client. Of the safety properties of the runs, only those of `SessionProtocol` are left to TLC.
3. *Partial writes*: files that are cut at any length, on both sides.
