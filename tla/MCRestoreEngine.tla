--------------------------- MODULE MCRestoreEngine ---------------------------
(* A small instance of RestoreEngine for TLC: the directory s that the backup *)
(* is named after, in it a directory d with a file f, and an entry k of any   *)
(* type; the destination is empty, holds the same files, or others.           *)
EXTENDS RestoreEngine, TLC

MCPaths == {"s", "s/d", "s/d/f", "s/k"}

MCParent == ("s" :> "." @@ "s/d" :> "s" @@ "s/d/f" :> "s/d" @@ "s/k" :> "s")

MCAbove == ("s" :> {} @@ "s/d" :> {"s"} @@ "s/d/f" :> {"s", "s/d"} @@ "s/k" :> {"s"})

MCRank == ("s" :> 1 @@ "s/d" :> 2 @@ "s/d/f" :> 3 @@ "s/k" :> 4)

E(path, type, perm, content, target, owner) ==
    [path |-> path, type |-> type, perm |-> perm, content |-> content,
     target |-> target, mtime |-> 7, owner |-> owner]

D(perm) == E("s/d", "d", perm, 0, Dest, 1)
F(perm, content, owner) == E("s/d/f", "f", perm, content, Dest, owner)
K(type, target, content) == E("s/k", type, {"w", "x"}, content, target, 1)

Ks == {K("l", "s/d/f", 0), K("l", Outside, 0), K("l", "s/d", 0), K("p", Dest, 0),
       K("c", Dest, 0), K("s", Dest, 0), K("f", Dest, 2), K("d", Dest, 0)}

Ds == {D({"w", "x"}), D({"x"}), D({"w"})}

Fs == {F({"w"}, 1, 1), F({"s"}, 1, 1), F({"s"}, 1, 2), F({}, 0, 1)}

MCBackups ==
    {<<D({"w", "x"}), f, k>> : f \in Fs, k \in Ks}
    \cup {<<k, d, F({"w"}, 1, 1)>> : d \in Ds, k \in {x \in Ks : x.type # "l"}}
    \cup {<<k, F({}, 1, 1)>> : k \in Ks} \cup {<<>>}
    \cup {<<E("s/d/f", "p", {}, 0, Dest, 1), k>> : k \in {x \in Ks : x.type # "l"}}

At(type, perm, content, target) ==
    [type |-> type, perm |-> perm, content |-> content, target |-> target,
     mtime |-> 5, owner |-> Me]

Dir == At("d", {"w", "x"}, 0, Dest)
Old == At("f", {"w"}, 9, Dest)

Nothing == [p \in Nodes |-> IF p = Dest THEN Dir ELSE IF p = Outside THEN Old ELSE Absent]

Same == ("s" :> Dir @@ "s/d" :> Dir @@ "s/d/f" :> Old) @@ Nothing

MCBefores ==
    {Nothing, Same,
     ("s/k" :> Dir) @@ Same,
     ("s/k" :> At("l", {"w", "x"}, 0, Outside)) @@ Same,
     ("s/k" :> Old @@ "s/d/f" :> At("f", {}, 9, Dest)) @@ Same,
     ("s/d/f" :> At("l", {"w", "x"}, 0, "s/k")) @@ Same,
     ("s/d" :> At("d", {"x"}, 0, Dest) @@ "s/d/f" :> Absent) @@ Same,
     ("s/d" :> At("d", {"x"}, 0, Dest) @@ "s/d/f" :> At("l", {"w", "x"}, 0, "s")) @@ Same,
     ("s" :> Old) @@ Nothing,
     ("s" :> Dir @@ "s/d" :> Old) @@ Nothing,
     ("s" :> Dir @@ "s/k" :> At("l", {"w", "x"}, 0, "s/d")) @@ Nothing}
=============================================================================
