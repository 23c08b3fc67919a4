---------------------------- MODULE MCUserManager ----------------------------
(* Small instances of UserManager for TLC. *)
EXTENDS UserManager, TLC

\* AnyEntry, the client of a free slot, is fixed by a CHOOSE over the names and
\* passwords, so only the sessions are interchangeable.
Symmetry == Permutations(Sessions)
=============================================================================
