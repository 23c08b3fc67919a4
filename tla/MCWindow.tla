------------------------------ MODULE MCWindow ------------------------------
(* A small instance of Window for TLC: three jobs, and what they may be. *)
EXTENDS Window, TLC

CONSTANTS j1, j2, j3

MCJobs == {j1, j2, j3}

In(kind) == [kind |-> kind, name |-> "ann", place |-> "window"]

Own(kind) == [kind |-> kind, name |-> "ann", place |-> "own"]

Three(a, b, c) == j1 :> a @@ j2 :> b @@ j3 :> c

MCPlans ==
    {Three(Own("backup"), In("backup"), Own("restore")),
     Three(In("backup"), In("restore"), Own("restore")),
     Three(In("local"), In("local"), Own("local"))}
=============================================================================
