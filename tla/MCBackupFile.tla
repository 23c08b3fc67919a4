---------------------------- MODULE MCBackupFile ----------------------------
(* A small instance of BackupFile for TLC: bytes of three bits, names of at  *)
(* most two bytes in a tar header, sizes of two ternary digits.             *)
EXTENDS BackupFile

MCXor(a, b) ==
    MapThenSumSet(LAMBDA k : (((a \div 2^k) + (b \div 2^k)) % 2) * 2^k, 0 .. Bits - 1)

F(path, type, content, target) ==
    [path |-> path, type |-> type, perm |-> 6, owner |-> 9, mtime |-> 70,
     target |-> target, dev |-> IF type = Device THEN 3 ELSE 0, content |-> content]

\* All short contents of two values, runs around the longest block and the widths.
Contents ==
    UNION {[1 .. n -> {0, 7}] : n \in 0 .. 5}
    \cup {[i \in 1 .. n |-> 4] : n \in {6, 7, 8, 9}}
    \cup {[i \in 1 .. n |-> i % 8] : n \in {5, 8}}
    \cup {[i \in 1 .. 7 |-> IF i < 6 THEN i ELSE 5]}

Few == {<<>>, <<7>>, <<1, 1, 1, 2, 0>>}

Names == {<<1>>, <<1, 2>>, <<1, 2, 3>>}

One == {F(<<1>>, Regular, c, <<>>) : c \in Contents}

Others ==
    {F(n, Regular, c, <<>>) : n \in Names, c \in Few}
    \cup {F(<<1, 2>>, Directory, <<>>, <<>>), F(<<1, 2>>, Device, <<>>, <<>>),
          F(<<3>>, Symlink, <<>>, <<5, 6>>), F(<<1, 2, 4>>, Fifo, <<>>, <<>>)}

MCPasswords == {<<6>>, <<7, 2>>}

MCInputs ==
    {<<>>} \cup {<<f>> : f \in One \cup Others}
    \cup {s \in Others \X Others : s[1].path # s[2].path /\ s[2].content # <<7>>}
    \cup {[i \in 1 .. 3 |-> F(<<i>>, Regular, <<7>>, <<>>)]}       \* one too many
=============================================================================
