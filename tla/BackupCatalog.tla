---------------------------- MODULE BackupCatalog ----------------------------
(***************************************************************************)
(* What the server promises a user about uploads: a catalog that only      *)
(* grows, in which every entry has an ID of its own, and a name of its own *)
(* when it has one. ServerSession implements it with the acknowledged      *)
(* uploads that did not overlap another upload of their user.              *)
(***************************************************************************)
EXTENDS Naturals

CONSTANTS Users, Data, Names, Nothing

VARIABLE catalog

Entries == [user : Users, id : Nat \ {0}, name : Names \cup {Nothing}, data : Data]

Init == catalog = {}

\* ID, name and contents are new.
New(e) ==
    \A old \in catalog :
        /\ old.data # e.data
        /\ old.user = e.user => old.id # e.id
        /\ old.user = e.user /\ e.name # Nothing => old.name # e.name

Enter == \E e \in catalog' : e \in Entries /\ New(e) /\ catalog' = catalog \cup {e}

Next == Enter

Spec == Init /\ [][Next]_catalog
=============================================================================
