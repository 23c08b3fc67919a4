----------------------------- MODULE UserManager -----------------------------
(***************************************************************************)
(* The user database users.db under concurrent session processes           *)
(* (libbackup/src/network/UserManager.cpp, and the AUTH state of           *)
(* ServerSession.cpp: handleLogin, handleRegister).                        *)
(*                                                                         *)
(* A process reads the whole file once, in its constructor. From then on   *)
(* it decides from its own list, and a registration writes that list over  *)
(* the file: the open truncates it, the bytes arrive when it is closed.    *)
(*                                                                         *)
(* An entry is a name and a password: salt and hash are taken to identify  *)
(* the password they were computed from. A file whose bytes are not        *)
(* written reads as an empty database (loadUsers returns at the count).    *)
(***************************************************************************)
EXTENDS Naturals

CONSTANTS
    Names, Passwords,
    Sessions,           \* slots for session processes
    MaxRegistrations,   \* bound: registrations begun in a behaviour
    Faults              \* what may fail on the disk: a subset of {"open", "write"}

ASSUME NamesAssumption == Names # {} /\ Passwords # {}
ASSUME MaxAssumption == MaxRegistrations \in Nat
ASSUME FaultsAssumption == Faults \subseteq {"open", "write"}

Entry == [name : Names, password : Passwords]

VARIABLES
    db,         \* the entries in users.db; {} when it is absent or truncated
    session,    \* session[s]: the locals of the process in slot s
    version,    \* history: the number of registrations begun
    begun,      \* history: the entries of those registrations
    confirmed,  \* history: the entries a client was told are registered
    disturbed   \* history: one of the events below that break the database

vars == <<db, session, version, begun, confirmed, disturbed>>

Replies == {"none", "accepted", "refused", "exists", "registered", "invalid"}

SessionState ==
    [pc : {"free", "auth", "salt", "save", "ready"},
     client : Entry,            \* the name and password the client came with
     users : SUBSET Entry,      \* users_
     loadedAt : Nat,            \* history: version when users_ was loaded
     known : SUBSET Entry,      \* history: confirmed when users_ was loaded
     reply : Replies]

AnyEntry == CHOOSE e \in Entry : TRUE

Free == [pc |-> "free", client |-> AnyEntry, users |-> {}, loadedAt |-> 0,
         known |-> {}, reply |-> "none"]

Init ==
    /\ db = {}
    /\ session = [s \in Sessions |-> Free]
    /\ version = 0
    /\ begun = {} /\ confirmed = {}
    /\ disturbed = FALSE

-----------------------------------------------------------------------------
UserExists(users, n) == \E e \in users : e.name = n

Saving(s) == session[s].pc = "save"

Update(s, new) == session' = [session EXCEPT ![s] = new]

\* fork, and loadUsers in the constructor of the session.
Start(s) ==
    /\ session[s].pc = "free"
    /\ \E e \in Entry :
         Update(s, [Free EXCEPT !.pc = "auth", !.client = e, !.users = db,
                                !.loadedAt = version, !.known = confirmed])
    /\ disturbed' = (disturbed \/ \E t \in Sessions : Saving(t))
    /\ UNCHANGED <<db, version, begun, confirmed>>

\* The client leaves, or the 30 seconds are over, in a loop that ends then.
Disconnect(s) ==
    /\ session[s].pc \in {"auth", "ready"}
    /\ Update(s, Free)
    /\ UNCHANGED <<db, version, begun, confirmed, disturbed>>

\* A signal ends the process; a file it was writing stays truncated.
Kill(s) ==
    /\ session[s].pc # "free"
    /\ Update(s, Free)
    /\ disturbed' = (disturbed \/ Saving(s))
    /\ UNCHANGED <<db, version, begun, confirmed>>

-----------------------------------------------------------------------------
(* handleLogin *)

LoginUnknown(s) ==
    /\ session[s].pc = "auth"
    /\ ~ UserExists(session[s].users, session[s].client.name)
    /\ Update(s, [session[s] EXCEPT !.reply = "refused"])
    /\ UNCHANGED <<db, version, begun, confirmed, disturbed>>

\* The user's salt is sent, and the proof awaited.
SendSalt(s) ==
    /\ session[s].pc = "auth"
    /\ UserExists(session[s].users, session[s].client.name)
    /\ Update(s, [session[s] EXCEPT !.pc = "salt"])
    /\ UNCHANGED <<db, version, begun, confirmed, disturbed>>

Mutant_Proves(s) ==                             \* any hash is accepted
    UserExists(session[s].users, session[s].client.name)

Proves(s) == session[s].client \in session[s].users

CheckProof(s) ==
    /\ session[s].pc = "salt"
    /\ Update(s, [session[s] EXCEPT
                      !.pc = IF Proves(s) THEN "ready" ELSE "auth",
                      !.reply = IF Proves(s) THEN "accepted" ELSE "refused"])
    /\ UNCHANGED <<db, version, begun, confirmed, disturbed>>

\* No proof: end of stream, 30 seconds of silence, or less than 32 bytes. The
\* session answers INVALID_MESSAGE and stays in AUTH.
NoProof(s) ==
    /\ session[s].pc = "salt"
    /\ Update(s, [session[s] EXCEPT !.pc = "auth", !.reply = "invalid"])
    /\ UNCHANGED <<db, version, begun, confirmed, disturbed>>

-----------------------------------------------------------------------------
(* handleRegister, registerUserRaw, saveUsers *)

RegisterRefused(s) ==
    /\ session[s].pc = "auth"
    /\ UserExists(session[s].users, session[s].client.name)
    /\ Update(s, [session[s] EXCEPT !.reply = "exists"])
    /\ UNCHANGED <<db, version, begun, confirmed, disturbed>>

\* The new entry goes into the list and the file is opened: truncated. The list
\* is stale when another registration began since it was loaded.
BeginRegister(s) ==
    /\ session[s].pc = "auth"
    /\ ~ UserExists(session[s].users, session[s].client.name)
    /\ version < MaxRegistrations
    /\ Update(s, [session[s] EXCEPT !.pc = "save", !.users = @ \cup {session[s].client}])
    /\ db' = {}
    /\ version' = version + 1
    /\ begun' = begun \cup {session[s].client}
    /\ disturbed' = (disturbed \/ version # session[s].loadedAt)
    /\ UNCHANGED confirmed

Confirm(s) ==
    /\ Update(s, [session[s] EXCEPT !.pc = "ready", !.reply = "registered"])
    /\ confirmed' = confirmed \cup {session[s].client}

\* Only the new entry is written.
Mutant_FinishRegister(s) ==
    /\ Saving(s)
    /\ db' = {session[s].client}
    /\ Confirm(s)
    /\ UNCHANGED <<version, begun, disturbed>>

\* The file is written and closed, and REGISTER_RESPONSE 0 sent. Of two
\* processes that both have it open, the last to write leaves its list.
FinishRegister(s) ==
    /\ Saving(s)
    /\ db' = session[s].users
    /\ Confirm(s)
    /\ UNCHANGED <<version, begun, disturbed>>

\* The disk refuses the write; nobody looks.
WriteFails(s) ==
    /\ Saving(s)
    /\ "write" \in Faults
    /\ Confirm(s)
    /\ disturbed' = TRUE
    /\ UNCHANGED <<db, version, begun>>

\* The file cannot be opened: a warning on stderr, and still success.
OpenFails(s) ==
    /\ session[s].pc = "auth"
    /\ ~ UserExists(session[s].users, session[s].client.name)
    /\ "open" \in Faults /\ version < MaxRegistrations
    /\ Update(s, [session[s] EXCEPT !.pc = "ready", !.reply = "registered",
                      !.users = @ \cup {session[s].client}])
    /\ confirmed' = confirmed \cup {session[s].client}
    /\ version' = version + 1
    /\ begun' = begun \cup {session[s].client}
    /\ disturbed' = TRUE
    /\ UNCHANGED db

-----------------------------------------------------------------------------
Handle(s) ==
    \/ LoginUnknown(s) \/ SendSalt(s) \/ CheckProof(s) \/ NoProof(s)
    \/ RegisterRefused(s) \/ BeginRegister(s) \/ FinishRegister(s)
    \/ WriteFails(s) \/ OpenFails(s)

Next == \E s \in Sessions : Start(s) \/ Handle(s) \/ Disconnect(s) \/ Kill(s)

Spec == Init /\ [][Next]_vars

-----------------------------------------------------------------------------
(* Properties *)

\* The types of the variables.
TypeOK ==
    /\ db \subseteq Entry
    /\ session \in [Sessions -> SessionState]
    /\ version \in 0 .. MaxRegistrations
    /\ begun \subseteq Entry /\ confirmed \subseteq Entry
    /\ disturbed \in BOOLEAN

\* What can lose a registered user: a registration from a list loaded before
\* another registration began, a load or a death while the file is truncated,
\* and a disk that refuses the file. Without them every confirmed user is in
\* the file whenever nobody is writing it. And with or without them, no list and
\* no file has two entries of one name, however processes overlap.
UsersKept ==
    /\ ~ disturbed /\ (\A s \in Sessions : ~ Saving(s)) => confirmed \subseteq db
    /\ \A list \in {db} \cup {session[s].users : s \in Sessions} :
          \A a, b \in list : a.name = b.name => a = b

\* A login is accepted only with a name and password somebody registered; and a
\* client whose registration was confirmed before its session began is not refused,
\* nor registered anew, unless the database was disturbed.
LoginSound ==
    \A s \in Sessions :
        /\ session[s].reply = "accepted" => session[s].client \in begun
        /\ session[s].client \in session[s].known /\ ~ disturbed =>
              session[s].reply \notin {"refused", "registered"}

-----------------------------------------------------------------------------
(* Claims of the code's own comments that the code does not keep *)

\* A registered user stays registered.
RegisteredKept ==
    (\A s \in Sessions : ~ Saving(s)) => confirmed \subseteq db

\* registerUserRaw succeeds for a name once: afterwards "the user exists".
RegisteredOnce == \A a, b \in confirmed : a.name = b.name => a = b
=============================================================================
