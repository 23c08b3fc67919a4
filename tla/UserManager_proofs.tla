------------------------- MODULE UserManager_proofs -------------------------
(***************************************************************************)
(* Theorems about UserManager: which logins are accepted and which users   *)
(* are kept, for any number of processes, names and passwords, and any     *)
(* faults.                                                                 *)
(***************************************************************************)
EXTENDS UserManager, TLAPS

NoneSaving == \A s \in Sessions : ~ Saving(s)

Once(list) == \A a, b \in list : a.name = b.name => a = b

\* No list and no file has a name twice, or an entry nobody registered.
Lists ==
    /\ Once(db) /\ db \subseteq begun
    /\ \A s \in Sessions : Once(session[s].users) /\ session[s].users \subseteq begun

\* What each process knows of itself.
Local ==
    \A s \in Sessions :
        /\ session[s].loadedAt <= version
        /\ session[s].reply = "accepted" => session[s].client \in begun
        /\ Saving(s) => session[s].client \in session[s].users

\* A process whose client was registered before it began has it in its list.
Known ==
    \A s \in Sessions :
        /\ session[s].known \subseteq session[s].users
        /\ session[s].client \in session[s].known =>
               session[s].reply \notin {"refused", "registered"} /\ ~ Saving(s)

\* The list of a process is the file, as long as nobody has registered since it was
\* loaded. At most one process writes, and what it writes has every confirmed user.
Fresh ==
    \A s \in Sessions :
        session[s].pc # "free" /\ session[s].loadedAt = version =>
            session[s].users = db /\ NoneSaving

OneWriter ==
    /\ \A s \in Sessions : Saving(s) =>
           /\ confirmed \subseteq session[s].users
           /\ \A t \in Sessions \ {s} : ~ Saving(t)
    /\ NoneSaving => confirmed \subseteq db

Inv ==
    /\ TypeOK /\ Lists /\ Local
    /\ ~ disturbed => Known /\ Fresh /\ OneWriter

LEMMA FreeType ==
    /\ Free \in SessionState /\ Free.pc = "free" /\ Free.users = {} /\ Free.known = {}
    /\ Free.loadedAt = 0 /\ Free.reply = "none"
  <1>1. AnyEntry \in Entry
    <2>1. PICK n \in Names, p \in Passwords : TRUE
      BY NamesAssumption DEF NamesAssumption
    <2>2. [name |-> n, password |-> p] \in Entry
      BY DEF Entry
    <2>3. \E e \in Entry : TRUE
      BY <2>2
    <2>. QED BY <2>3 DEF AnyEntry
  <1>. QED BY <1>1 DEF Free, SessionState, Replies

LEMMA InitInv == Init => Inv
  <1> SUFFICES ASSUME Init PROVE Inv
    OBVIOUS
  <1>1. \A s \in Sessions : session[s] = Free
    BY DEF Init
  <1>2. TypeOK
    <2>1. session \in [Sessions -> SessionState]
      BY FreeType DEF Init
    <2>2. version \in 0 .. MaxRegistrations
      BY MaxAssumption DEF Init, MaxAssumption
    <2>. QED BY <2>1, <2>2 DEF Init, TypeOK
  <1>3. Lists
    BY <1>1, FreeType DEF Init, Lists, Once
  <1>4. Local
    BY <1>1, FreeType DEF Init, Local, Saving
  <1>5. Known /\ Fresh /\ OneWriter
    BY <1>1, FreeType DEF Init, Known, Fresh, OneWriter, Saving
  <1>. QED BY <1>2, <1>3, <1>4, <1>5 DEF Inv

\* A step of s that leaves the other processes alone.
LEMMA UpdateOne ==
    ASSUME TypeOK, NEW s \in Sessions, NEW l \in SessionState, Update(s, l)
    PROVE  /\ session' \in [Sessions -> SessionState]
           /\ \A t \in Sessions : session'[t] = IF t = s THEN l ELSE session[t]
  BY DEF TypeOK, Update

\* The client changes the place of its process and gets an answer, or is gone.
LEMMA QuietStep ==
    ASSUME Inv, NEW s \in Sessions, NEW l \in SessionState, Update(s, l),
           UNCHANGED <<db, version, begun, confirmed>>, disturbed' \in BOOLEAN,
           disturbed \/ Saving(s) => disturbed', l.pc # "save",
           \/ l = Free
           \/ /\ session[s].pc # "free"
              /\ l.users = session[s].users /\ l.loadedAt = session[s].loadedAt
              /\ l.known = session[s].known /\ l.client = session[s].client,
           l.reply = "accepted" => l.client \in begun,
           ~ disturbed' /\ l.client \in l.known => l.reply \notin {"refused", "registered"}
    PROVE  Inv'
  <1>1. /\ session' \in [Sessions -> SessionState]
        /\ \A t \in Sessions : session'[t] = IF t = s THEN l ELSE session[t]
    BY UpdateOne DEF Inv
  <1>2. TypeOK'
    BY <1>1 DEF Inv, TypeOK
  <1>3. Lists'
    BY <1>1, FreeType DEF Inv, Lists, Once
  <1>4. version \in Nat
    BY MaxAssumption DEF Inv, TypeOK, MaxAssumption
  <1>5. Local'
    BY <1>1, <1>4, FreeType DEF Inv, Local, Saving
  <1>6. ASSUME ~ disturbed' PROVE Known' /\ Fresh' /\ OneWriter'
    <2>1. ~ disturbed /\ ~ Saving(s) /\ Known /\ Fresh /\ OneWriter
      BY <1>6 DEF Inv
    <2>2. \A t \in Sessions : Saving(t)' <=> Saving(t)
      BY <1>1, <2>1 DEF Saving
    <2>3. NoneSaving' <=> NoneSaving
      BY <2>2 DEF NoneSaving
    <2>4. Known'
      BY <1>1, <1>6, <2>1, <2>2, FreeType DEF Known
    <2>5. Fresh'
      BY <1>1, <2>1, <2>3, FreeType DEF Fresh
    <2>6. OneWriter'
      BY <1>1, <2>1, <2>2, <2>3 DEF OneWriter
    <2>. QED BY <2>4, <2>5, <2>6
  <1>. QED BY <1>2, <1>3, <1>5, <1>6 DEF Inv

LEMMA StartStep ==
    ASSUME Inv, NEW s \in Sessions, Start(s)
    PROVE  Inv'
  <1>1. PICK e \in Entry :
            Update(s, [Free EXCEPT !.pc = "auth", !.client = e, !.users = db,
                                   !.loadedAt = version, !.known = confirmed])
    BY DEF Start
  <1> DEFINE l == [Free EXCEPT !.pc = "auth", !.client = e, !.users = db,
                               !.loadedAt = version, !.known = confirmed]
  <1>2. /\ db \subseteq Entry /\ confirmed \subseteq Entry /\ version \in Nat
        /\ session[s].pc = "free" /\ UNCHANGED <<db, version, begun, confirmed>>
        /\ disturbed' = (disturbed \/ \E t \in Sessions : Saving(t))
    BY MaxAssumption DEF Inv, TypeOK, Start, MaxAssumption
  <1>3. /\ l \in SessionState /\ l.pc = "auth" /\ l.users = db /\ l.known = confirmed
        /\ l.loadedAt = version /\ l.reply = "none"
    BY <1>2, FreeType DEF SessionState
  <1> HIDE DEF l
  <1>4. /\ session' \in [Sessions -> SessionState]
        /\ \A t \in Sessions : session'[t] = IF t = s THEN l ELSE session[t]
    BY <1>1, <1>3, UpdateOne DEF Inv, l
  <1>5. TypeOK' /\ Lists' /\ Local'
    <2>1. TypeOK'
      BY <1>2, <1>4 DEF Inv, TypeOK
    <2>2. Lists'
      BY <1>2, <1>3, <1>4 DEF Inv, Lists, Once
    <2>3. Local'
      BY <1>2, <1>3, <1>4 DEF Inv, Local, Saving
    <2>. QED BY <2>1, <2>2, <2>3
  <1>6. ASSUME ~ disturbed' PROVE Known' /\ Fresh' /\ OneWriter'
    <2>1. ~ disturbed /\ NoneSaving /\ Known /\ Fresh /\ OneWriter
      BY <1>2, <1>6 DEF Inv, NoneSaving
    <2>2. NoneSaving' /\ \A t \in Sessions : ~ Saving(t)'
      BY <1>3, <1>4, <2>1 DEF NoneSaving, Saving
    <2>3. confirmed \subseteq db
      BY <2>1 DEF OneWriter
    <2>4. Known'
      BY <1>2, <1>3, <1>4, <2>1, <2>2, <2>3 DEF Known
    <2>5. Fresh'
      BY <1>2, <1>3, <1>4, <2>1, <2>2 DEF Fresh
    <2>6. OneWriter'
      BY <1>2, <2>2, <2>3 DEF OneWriter
    <2>. QED BY <2>4, <2>5, <2>6
  <1>. QED BY <1>5, <1>6 DEF Inv

LEMMA BeginStep ==
    ASSUME Inv, NEW s \in Sessions, BeginRegister(s)
    PROVE  Inv'
  <1> DEFINE old == session[s]
             l == [old EXCEPT !.pc = "save", !.users = @ \cup {old.client}]
  <1>1. /\ Update(s, l) /\ old.pc = "auth" /\ ~ UserExists(old.users, old.client.name)
        /\ version < MaxRegistrations /\ db' = {} /\ version' = version + 1
        /\ begun' = begun \cup {old.client} /\ UNCHANGED confirmed
        /\ disturbed' = (disturbed \/ version # old.loadedAt)
    BY DEF BeginRegister
  <1>2. /\ old \in SessionState /\ version \in Nat /\ MaxRegistrations \in Nat
        /\ begun \subseteq Entry /\ confirmed \subseteq Entry /\ disturbed \in BOOLEAN
    BY MaxAssumption DEF Inv, TypeOK, MaxAssumption
  <1>3. /\ l \in SessionState /\ l.pc = "save" /\ l.users = old.users \cup {old.client}
        /\ l.client = old.client /\ l.known = old.known /\ l.loadedAt = old.loadedAt
        /\ l.reply = old.reply /\ old.client \in Entry
    BY <1>2 DEF SessionState
  <1> HIDE DEF l
  <1>4. /\ session' \in [Sessions -> SessionState]
        /\ \A t \in Sessions : session'[t] = IF t = s THEN l ELSE session[t]
    BY <1>1, <1>3, UpdateOne DEF Inv
  <1>5. TypeOK'
    BY <1>1, <1>2, <1>3, <1>4 DEF Inv, TypeOK
  <1>6. Once(l.users)
    <2>1. Once(old.users) /\ \A e \in old.users : e.name # old.client.name
      BY <1>1 DEF Inv, Lists, UserExists
    <2>. QED BY <1>3, <2>1 DEF Once
  <1>7. Lists'
    <2>1. Once(db)' /\ db' \subseteq begun'
      BY <1>1 DEF Once
    <2>2. ASSUME NEW t \in Sessions
          PROVE  Once(session[t].users)' /\ session'[t].users \subseteq begun'
      <3>1. Once(session[t].users) /\ session[t].users \subseteq begun
        BY DEF Inv, Lists
      <3>2. CASE t = s
        BY <1>1, <1>3, <1>4, <1>6, <3>1, <3>2 DEF Once
      <3>3. CASE t # s
        BY <1>1, <1>4, <3>1, <3>3 DEF Once
      <3>. QED BY <3>2, <3>3
    <2>. QED BY <2>1, <2>2 DEF Lists
  <1>8. Local'
    <2> SUFFICES ASSUME NEW t \in Sessions
                 PROVE  /\ session'[t].loadedAt <= version'
                        /\ session'[t].reply = "accepted" => session'[t].client \in begun'
                        /\ Saving(t)' => session'[t].client \in session'[t].users
      BY DEF Local
    <2>1. /\ session[t].loadedAt <= version
          /\ session[t].reply = "accepted" => session[t].client \in begun
          /\ Saving(t) => session[t].client \in session[t].users
          /\ session[t].loadedAt \in Nat
      BY DEF Inv, Local, TypeOK, SessionState
    <2>2. CASE t = s
      BY <1>1, <1>2, <1>3, <1>4, <2>1, <2>2
    <2>3. CASE t # s
      BY <1>1, <1>2, <1>4, <2>1, <2>3 DEF Saving
    <2>. QED BY <2>2, <2>3
  <1>9. ASSUME ~ disturbed' PROVE Known' /\ Fresh' /\ OneWriter'
    <2>1. /\ ~ disturbed /\ old.loadedAt = version /\ Known /\ Fresh /\ OneWriter
      BY <1>1, <1>9 DEF Inv
    <2>2. old.users = db /\ NoneSaving /\ confirmed \subseteq db
      BY <1>1, <2>1 DEF Fresh, OneWriter
    <2>3. Saving(s)' /\ \A t \in Sessions \ {s} : ~ Saving(t)'
      BY <1>3, <1>4, <2>2 DEF NoneSaving, Saving
    <2>4. Known'
      <3>1. old.client \notin old.known
        BY <1>1, <2>1 DEF Known, UserExists
      <3> SUFFICES ASSUME NEW t \in Sessions
                   PROVE  /\ session'[t].known \subseteq session'[t].users
                          /\ session'[t].client \in session'[t].known =>
                                /\ session'[t].reply \notin {"refused", "registered"}
                                /\ ~ Saving(t)'
        BY DEF Known
      <3>2. CASE t = s
        BY <1>3, <1>4, <2>1, <3>1, <3>2 DEF Known
      <3>3. CASE t # s
        BY <1>4, <2>1, <2>3, <3>3 DEF Known
      <3>. QED BY <3>2, <3>3
    <2>5. Fresh'
      <3>1. \A t \in Sessions : session'[t].loadedAt # version'
        BY <1>1, <1>2, <1>3, <1>4, <2>1 DEF Inv, Local, TypeOK, SessionState
      <3>. QED BY <3>1 DEF Fresh
    <2>6. OneWriter'
      BY <1>1, <1>3, <1>4, <2>2, <2>3 DEF OneWriter, NoneSaving
    <2>. QED BY <2>4, <2>5, <2>6
  <1>. QED BY <1>5, <1>7, <1>8, <1>9 DEF Inv

\* The two ways a save ends: the file is written, or stays empty.
LEMMA ConfirmStep ==
    ASSUME Inv, NEW s \in Sessions, Saving(s), Confirm(s), UNCHANGED <<version, begun>>,
           disturbed' \in BOOLEAN, disturbed => disturbed',
           \/ db' = session[s].users
           \/ db' = db /\ disturbed'
    PROVE  Inv'
  <1> DEFINE old == session[s]
             l == [old EXCEPT !.pc = "ready", !.reply = "registered"]
  <1>1. Update(s, l) /\ old.pc = "save" /\ confirmed' = confirmed \cup {old.client}
    BY DEF Confirm, Saving
  <1>2. /\ old \in SessionState /\ version \in Nat /\ begun \subseteq Entry
        /\ confirmed \subseteq Entry /\ db \subseteq Entry /\ old.users \subseteq Entry
        /\ old.client \in Entry
    BY MaxAssumption DEF Inv, TypeOK, MaxAssumption, SessionState
  <1>3. /\ l \in SessionState /\ l.pc = "ready" /\ l.users = old.users
        /\ l.client = old.client /\ l.known = old.known /\ l.loadedAt = old.loadedAt
        /\ l.reply = "registered"
    BY <1>2 DEF SessionState, Replies
  <1> HIDE DEF l
  <1>4. /\ session' \in [Sessions -> SessionState]
        /\ \A t \in Sessions : session'[t] = IF t = s THEN l ELSE session[t]
    BY <1>1, <1>3, UpdateOne DEF Inv
  <1>5. TypeOK'
    BY <1>1, <1>2, <1>4 DEF Inv, TypeOK
  <1>6. Lists'
    <2>1. Once(db') /\ db' \subseteq begun
      BY DEF Inv, Lists
    <2>2. \A t \in Sessions : session'[t].users = session[t].users
      BY <1>3, <1>4
    <2>. QED BY <2>1, <2>2 DEF Inv, Lists, Once
  <1>7. Local'
    BY <1>3, <1>4 DEF Inv, Local, Saving
  <1>8. ASSUME ~ disturbed' PROVE Known' /\ Fresh' /\ OneWriter'
    <2>1. /\ ~ disturbed /\ db' = old.users /\ Known /\ Fresh /\ OneWriter
      BY <1>8 DEF Inv
    <2>2. /\ confirmed \subseteq old.users /\ old.client \in old.users
          /\ \A t \in Sessions \ {s} : ~ Saving(t)
      BY <2>1 DEF OneWriter, Inv, Local
    <2>3. \A t \in Sessions : ~ Saving(t)'
      BY <1>3, <1>4, <2>2 DEF Saving
    <2>4. Known'
      BY <1>3, <1>4, <2>1, <2>3 DEF Known
    <2>5. Fresh'
      <3>1. \A t \in Sessions : ~ (session[t].pc # "free" /\ session[t].loadedAt = version)
        BY <2>1 DEF Fresh, NoneSaving
      <3>2. \A t \in Sessions : ~ (session'[t].pc # "free" /\ session'[t].loadedAt = version')
        BY <1>1, <1>3, <1>4, <3>1
      <3>. QED BY <3>2 DEF Fresh
    <2>6. OneWriter'
      BY <1>1, <2>1, <2>2, <2>3 DEF OneWriter
    <2>. QED BY <2>4, <2>5, <2>6
  <1>. QED BY <1>5, <1>6, <1>7, <1>8 DEF Inv

\* The file could not be opened, and the client is told that it is registered.
LEMMA OpenFailsStep ==
    ASSUME Inv, NEW s \in Sessions, OpenFails(s)
    PROVE  Inv'
  <1> DEFINE old == session[s]
             l == [old EXCEPT !.pc = "ready", !.reply = "registered",
                              !.users = @ \cup {old.client}]
  <1>1. /\ Update(s, l) /\ old.pc = "auth" /\ ~ UserExists(old.users, old.client.name)
        /\ version < MaxRegistrations /\ UNCHANGED db /\ version' = version + 1
        /\ begun' = begun \cup {old.client} /\ confirmed' = confirmed \cup {old.client}
        /\ disturbed' = TRUE
    BY DEF OpenFails
  <1>2. /\ old \in SessionState /\ version \in Nat /\ MaxRegistrations \in Nat
        /\ begun \subseteq Entry /\ confirmed \subseteq Entry
    BY MaxAssumption DEF Inv, TypeOK, MaxAssumption
  <1>3. /\ l \in SessionState /\ l.pc = "ready" /\ l.users = old.users \cup {old.client}
        /\ l.client = old.client /\ l.known = old.known /\ l.loadedAt = old.loadedAt
        /\ l.reply = "registered" /\ old.client \in Entry
    BY <1>2 DEF SessionState, Replies
  <1> HIDE DEF l
  <1>4. /\ session' \in [Sessions -> SessionState]
        /\ \A t \in Sessions : session'[t] = IF t = s THEN l ELSE session[t]
    BY <1>1, <1>3, UpdateOne DEF Inv
  <1>5. TypeOK'
    BY <1>1, <1>2, <1>3, <1>4 DEF Inv, TypeOK
  <1>6. Lists'
    <2>1. Once(db)' /\ db' \subseteq begun'
      BY <1>1 DEF Inv, Lists, Once
    <2>2. Once(l.users)
      <3>1. Once(old.users) /\ \A e \in old.users : e.name # old.client.name
        BY <1>1 DEF Inv, Lists, UserExists
      <3>. QED BY <1>3, <3>1 DEF Once
    <2>3. ASSUME NEW t \in Sessions
          PROVE  Once(session[t].users)' /\ session'[t].users \subseteq begun'
      <3>1. Once(session[t].users) /\ session[t].users \subseteq begun
        BY DEF Inv, Lists
      <3>2. CASE t = s
        BY <1>1, <1>3, <1>4, <2>2, <3>1, <3>2 DEF Once
      <3>3. CASE t # s
        BY <1>1, <1>4, <3>1, <3>3 DEF Once
      <3>. QED BY <3>2, <3>3
    <2>. QED BY <2>1, <2>3 DEF Lists
  <1>7. Local'
    <2> SUFFICES ASSUME NEW t \in Sessions
                 PROVE  /\ session'[t].loadedAt <= version'
                        /\ session'[t].reply = "accepted" => session'[t].client \in begun'
                        /\ Saving(t)' => session'[t].client \in session'[t].users
      BY DEF Local
    <2>1. /\ session[t].loadedAt <= version
          /\ session[t].reply = "accepted" => session[t].client \in begun
          /\ Saving(t) => session[t].client \in session[t].users
          /\ session[t].loadedAt \in Nat
      BY DEF Inv, Local, TypeOK, SessionState
    <2>2. CASE t = s
      BY <1>1, <1>2, <1>3, <1>4, <2>1, <2>2 DEF Saving
    <2>3. CASE t # s
      BY <1>1, <1>2, <1>4, <2>1, <2>3 DEF Saving
    <2>. QED BY <2>2, <2>3
  <1>. QED BY <1>1, <1>5, <1>6, <1>7 DEF Inv

LEMMA NextInv == Inv /\ [Next]_vars => Inv'
  <1> SUFFICES ASSUME Inv, [Next]_vars PROVE Inv'
    OBVIOUS
  <1>t. /\ session \in [Sessions -> SessionState] /\ disturbed \in BOOLEAN
        /\ \A s \in Sessions : session[s].client \in session[s].users =>
               session[s].client \in begun
    BY DEF Inv, TypeOK, Lists
  <1>k. ASSUME ~ disturbed, NEW s \in Sessions,
               session[s].client \in session[s].known
        PROVE  session[s].client \in session[s].users
    BY <1>k DEF Inv, Known
  <1>r. ASSUME NEW s \in Sessions, NEW l, Update(s, l), session[s].pc # "free",
               NEW reply \in Replies, NEW pc \in {"auth", "salt", "ready"},
               l = [session[s] EXCEPT !.pc = pc, !.reply = reply],
               UNCHANGED <<db, version, begun, confirmed, disturbed>>, ~ Saving(s),
               reply = "accepted" => session[s].client \in begun,
               ~ disturbed /\ session[s].client \in session[s].known =>
                   reply \notin {"refused", "registered"}
        PROVE  Inv'
    <2>1. /\ l \in SessionState /\ l.pc = pc /\ l.reply = reply
          /\ l.users = session[s].users /\ l.loadedAt = session[s].loadedAt
          /\ l.known = session[s].known /\ l.client = session[s].client
      BY <1>t, <1>r DEF SessionState
    <2>. QED BY <2>1, <1>t, <1>r, QuietStep
  <1>1. ASSUME NEW s \in Sessions, Start(s) PROVE Inv'
    BY <1>1, StartStep
  <1>2. ASSUME NEW s \in Sessions, Disconnect(s) \/ Kill(s) PROVE Inv'
    <2>1. /\ Update(s, Free) /\ UNCHANGED <<db, version, begun, confirmed>>
          /\ disturbed' \in BOOLEAN /\ (disturbed \/ Saving(s) => disturbed')
      BY <1>2, <1>t DEF Disconnect, Kill, Saving
    <2>. QED BY <2>1, FreeType, QuietStep
  <1>3. ASSUME NEW s \in Sessions, LoginUnknown(s) PROVE Inv'
    <2>1. session[s].client \notin session[s].users
      BY <1>3 DEF LoginUnknown, UserExists
    <2>2. /\ Update(s, [session[s] EXCEPT !.pc = "auth", !.reply = "refused"])
          /\ session[s].pc = "auth" /\ "refused" \in Replies
          /\ UNCHANGED <<db, version, begun, confirmed, disturbed>>
      BY <1>3, <1>t DEF LoginUnknown, Replies, SessionState, Update
    <2>. QED BY <2>1, <2>2, <1>k, <1>r DEF Saving
  <1>4. ASSUME NEW s \in Sessions, SendSalt(s) PROVE Inv'
    <2>1. /\ Update(s, [session[s] EXCEPT !.pc = "salt", !.reply = session[s].reply])
          /\ session[s].pc = "auth" /\ session[s].reply \in Replies
          /\ UNCHANGED <<db, version, begun, confirmed, disturbed>>
      BY <1>4, <1>t DEF SendSalt, SessionState, Update
    <2>2. /\ session[s].reply = "accepted" => session[s].client \in begun
          /\ ~ disturbed /\ session[s].client \in session[s].known =>
                 session[s].reply \notin {"refused", "registered"}
      BY DEF Inv, Local, Known
    <2>. QED BY <2>1, <2>2, <1>r DEF Saving
  <1>5. ASSUME NEW s \in Sessions, CheckProof(s) PROVE Inv'
    <2>1. CASE Proves(s)
      <3>1. /\ Update(s, [session[s] EXCEPT !.pc = "ready", !.reply = "accepted"])
            /\ session[s].pc = "salt" /\ "accepted" \in Replies
            /\ UNCHANGED <<db, version, begun, confirmed, disturbed>>
        BY <1>5, <2>1 DEF CheckProof, Replies
      <3>2. session[s].client \in begun
        BY <2>1, <1>t DEF Proves
      <3>3. /\ "accepted" \notin {"refused", "registered"} /\ ~ Saving(s)
            /\ "ready" \in {"auth", "salt", "ready"} /\ session[s].pc # "free"
        BY <3>1 DEF Saving
      <3>. QED BY <3>1, <3>2, <3>3, <1>r
    <2>2. CASE ~ Proves(s)
      <3>1. /\ Update(s, [session[s] EXCEPT !.pc = "auth", !.reply = "refused"])
            /\ session[s].pc = "salt" /\ "refused" \in Replies
            /\ UNCHANGED <<db, version, begun, confirmed, disturbed>>
        BY <1>5, <2>2 DEF CheckProof, Replies
      <3>2. /\ "refused" # "accepted" /\ ~ Saving(s)
            /\ "auth" \in {"auth", "salt", "ready"} /\ session[s].pc # "free"
        BY <3>1 DEF Saving
      <3>3. ~ disturbed => session[s].client \notin session[s].known
        BY <2>2, <1>k DEF Proves
      <3>. QED BY <3>1, <3>2, <3>3, <1>r
    <2>. QED BY <2>1, <2>2
  <1>6. ASSUME NEW s \in Sessions, NoProof(s) PROVE Inv'
    <2>1. /\ Update(s, [session[s] EXCEPT !.pc = "auth", !.reply = "invalid"])
          /\ session[s].pc = "salt" /\ "invalid" \in Replies
          /\ UNCHANGED <<db, version, begun, confirmed, disturbed>>
      BY <1>6 DEF NoProof, Replies
    <2>2. /\ "invalid" # "accepted" /\ "invalid" \notin {"refused", "registered"}
          /\ "auth" \in {"auth", "salt", "ready"} /\ ~ Saving(s) /\ session[s].pc # "free"
      BY <2>1 DEF Saving
    <2>. QED BY <2>1, <2>2, <1>r
  <1>7. ASSUME NEW s \in Sessions, RegisterRefused(s) PROVE Inv'
    <2>1. /\ Update(s, [session[s] EXCEPT !.pc = "auth", !.reply = "exists"])
          /\ session[s].pc = "auth" /\ "exists" \in Replies
          /\ UNCHANGED <<db, version, begun, confirmed, disturbed>>
      BY <1>7, <1>t DEF RegisterRefused, Replies, SessionState, Update
    <2>2. /\ "exists" # "accepted" /\ "exists" \notin {"refused", "registered"}
          /\ "auth" \in {"auth", "salt", "ready"} /\ ~ Saving(s) /\ session[s].pc # "free"
      BY <2>1 DEF Saving
    <2>. QED BY <2>1, <2>2, <1>r
  <1>8. ASSUME NEW s \in Sessions, BeginRegister(s) PROVE Inv'
    BY <1>8, BeginStep
  <1>9. ASSUME NEW s \in Sessions, FinishRegister(s) PROVE Inv'
    BY <1>9, <1>t, ConfirmStep DEF FinishRegister
  <1>10. ASSUME NEW s \in Sessions, WriteFails(s) PROVE Inv'
    BY <1>10, <1>t, ConfirmStep DEF WriteFails
  <1>11. ASSUME NEW s \in Sessions, OpenFails(s) PROVE Inv'
    BY <1>11, OpenFailsStep
  <1>12. ASSUME UNCHANGED vars PROVE Inv'
    BY <1>12 DEF vars, Inv, TypeOK, Lists, Once, Local, Known, Fresh, OneWriter, NoneSaving,
                 Saving
  <1>. QED
    BY <1>1, <1>2, <1>3, <1>4, <1>5, <1>6, <1>7, <1>8, <1>9, <1>10, <1>11, <1>12
    DEF Next, Handle

\* Every variable of the processes and the database keeps its type.
THEOREM TypeCorrect == Spec => []TypeOK
  <1>1. Inv => TypeOK
    BY DEF Inv
  <1>. QED BY <1>1, InitInv, NextInv, PTL DEF Spec

\* No file and no list ever has a name twice, and without the named disturbances a
\* confirmed user is in the file whenever nobody writes it, for any number of
\* processes that overlap in any way.
THEOREM ConfirmedUsersKept == Spec => []UsersKept
  <1>1. Inv => UsersKept
    BY DEF Inv, Lists, Once, OneWriter, NoneSaving, UsersKept
  <1>. QED BY <1>1, InitInv, NextInv, PTL DEF Spec

\* No login is accepted that nobody registered, and no registered user is refused or
\* registered anew but for a disturbance.
THEOREM LoginsSound == Spec => []LoginSound
  <1>1. Inv => LoginSound
    BY DEF Inv, Local, Known, LoginSound
  <1>. QED BY <1>1, InitInv, NextInv, PTL DEF Spec
=============================================================================
