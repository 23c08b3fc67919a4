---------------------------- MODULE MCFileScanner ----------------------------
(* A small instance of FileScanner for TLC: two nested directories with *)
(* two files, an empty directory and a link, and filters of at most two rows.                   *)
EXTENDS FileScanner, TLC

CONSTANTS ann, nobody

MCIdOf == ann :> 1

MCNodes == {"d", "d/e", "d/e/f", "d/g", "l", "m"}

MCParent == ("d" :> "." @@ "d/e" :> "d" @@ "d/e/f" :> "d/e" @@ "d/g" :> "d"
             @@ "l" :> "." @@ "m" :> ".")

MCAbove == ("d" :> {} @@ "d/e" :> {"d"} @@ "d/e/f" :> {"d", "d/e"} @@ "d/g" :> {"d"}
            @@ "l" :> {} @@ "m" :> {})

Is(name, type, time, owner) ==
    [name |-> name, type |-> type, mtime |-> time, owner |-> owner]

MCAttr == ("d" :> Is("d", "d", 1, 1) @@ "d/e" :> Is("e", "d", 2, 1)
           @@ "d/e/f" :> Is("f", "f", 3, 2) @@ "d/g" :> Is("g", "f", 1, 1)
           @@ "l" :> Is("l", "l", 3, 1) @@ "m" :> Is("m", "d", 3, 1))

MCSize0 == ("d" :> 0 @@ "d/e" :> 0 @@ "d/e/f" :> 4 @@ "d/g" :> 2 @@ "l" :> 0 @@ "m" :> 0)

Row(action, dim) ==
    [action |-> action, dim |-> dim, empty |-> FALSE, glob |-> {}, type |-> "f",
     time |-> TimeText("after", 0, 0), size |-> SizeText("=", 0, "", 0), id |-> 0]

Rows ==
    {[Row("include", "name") EXCEPT !.glob = {"f", "e"}],
     [Row("exclude", "name") EXCEPT !.glob = {"e"}],
     [Row("include", "path") EXCEPT !.glob = {"d"}],
     [Row("exclude", "path") EXCEPT !.glob = {"d/g", "d"}],
     [Row("include", "type") EXCEPT !.type = "l"],
     [Row("exclude", "type") EXCEPT !.type = "d"],
     [Row("include", "type") EXCEPT !.type = "long"],
     [Row("include", "mtime") EXCEPT !.time = TimeText("after", 1, 0)],
     [Row("exclude", "ctime") EXCEPT !.time = TimeText("between", 3, 4)],
     [Row("include", "atime") EXCEPT !.time = TimeText("before", Short, 0)],
     [Row("include", "size") EXCEPT !.size = SizeText("+", 1, "K", 0)],
     [Row("exclude", "size") EXCEPT !.size = SizeText(":", 1, "", 2)],
     [Row("include", "size") EXCEPT !.size = SizeText("<=", 1, "K", 0)],
     [Row("include", "size") EXCEPT !.size = SizeText("=", 2, "", 0)],
     [Row("exclude", "owner") EXCEPT !.id = ann],
     [Row("include", "group") EXCEPT !.id = nobody],
     [Row("include", "owner") EXCEPT !.id = 2],
     [Row("include", "name") EXCEPT !.empty = TRUE],
     Row("include", "other")}

MCFilters == {s \in SUBSET Rows : Cardinality(s) <= 2}
=============================================================================
