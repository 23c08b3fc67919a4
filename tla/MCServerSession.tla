--------------------------- MODULE MCServerSession ---------------------------
(* Small instances of ServerSession for TLC. *)
EXTENDS ServerSession, TLC

\* Users, sessions, names and uploads are interchangeable: no action and no
\* invariant tells two of them apart.
Symmetry == Permutations(Users) \cup Permutations(Sessions)
            \cup Permutations(Data) \cup Permutations(Names)
=============================================================================
