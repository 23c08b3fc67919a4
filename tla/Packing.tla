------------------------------- MODULE Packing -------------------------------
(***************************************************************************)
(* The archive inside a backup: TarPackStrategy and IndexPackStrategy      *)
(* (libbackup/src/pack), and the raw format of BackupEngine::concatFiles   *)
(* and RestoreEngine::restoreFromRaw, as sequences of bytes.               *)
(*                                                                         *)
(* An entry has a path, a type, a link target and a content, each but the  *)
(* type a sequence of bytes. Permissions, owner, times and the link target *)
(* of the tar header are left out: a restore takes them from the metadata, *)
(* and of the archive only the path and the content.                       *)
(***************************************************************************)
EXTENDS Bytes, FiniteSets, SequencesExt, FiniteSetsExt

CONSTANTS
    NameMax,        \* bytes for a name in a tar header: 100 in the code
    SizeMax,        \* digits for a size in a tar header: 11 in the code
    Octal,          \* the base of these digits: 8 in the code
    Signature,      \* EOCD_SIGNATURE, as one number
    MaxCount        \* 1000000: the sanity check of restoreFromRaw

Regular == 1        \* the types of an entry
Directory == 2
Symlink == 3
Fifo == 4
Device == 5

ASSUME PackingAssumption ==
    /\ {NameMax, SizeMax, MaxCount} \subseteq Nat \ {0}
    /\ Octal \in 2 .. Radix - 1 /\ {Regular, Directory, Symlink} \subseteq Byte
    /\ Signature \in Nat /\ Fits(Signature, W32) /\ Fits(MaxCount, W32)

Zeros(n) == [i \in 1 .. n |-> 0]

\* What unpacking finds: paths with their content.
Item(path, content) == [path |-> path, content |-> content]

-----------------------------------------------------------------------------
(* The raw format: only files that have a content *)

WithContent(files) ==
    {i \in 1 .. Len(files) : files[i].type = Regular /\ files[i].content # <<>>}

concatFiles(files) ==
    LET kept == WithContent(files) IN
    LE(Cardinality(kept), W32)
    \o FlattenSeq([i \in 1 .. Len(files) |->
           IF i \in kept
           THEN LE(Len(files[i].path), W16) \o files[i].path
                \o LE(Len(files[i].content), W64) \o files[i].content
           ELSE <<>>])

\* Every length is checked against what is left before it is used.
restoreFromRaw(data) ==
    LET count == Num(Slice(data, 0, W32))
        read[n \in 0 .. count] ==
            IF n = 0 THEN [ok |-> Len(data) >= W32 /\ count <= MaxCount,
                           off |-> W32, items |-> <<>>]
            ELSE LET r == read[n - 1]
                     p == r.off + W16
                     c == p + Num(Slice(data, r.off, W16)) + W64
                     end == c + Num(Slice(data, c - W64, W64))
                 IN IF r.ok /\ p <= Len(data) /\ c <= Len(data) /\ end <= Len(data)
                    THEN [ok |-> TRUE, off |-> end,
                          items |-> Append(r.items, Item(Slice(data, p, c - W64 - p),
                                                         Slice(data, c, end - c)))]
                    ELSE [r EXCEPT !.ok = FALSE]
    IN read[count]

-----------------------------------------------------------------------------
(* TarPackStrategy: a header for each entry, its content padded to whole blocks, *)
(* and two blocks of zeros. A digit d is the character d + 1. *)

HeaderSize == NameMax + SizeMax + 2

Padding(n) == (HeaderSize - (n % HeaderSize)) % HeaderSize

writeOctal(val) ==
    [i \in 1 .. SizeMax |-> (Shifts(val, Octal, SizeMax)[SizeMax - i] % Octal) + 1] \o <<0>>

readOctal(buf) ==
    LET end == Min({i \in 1 .. Len(buf) + 1 : i > Len(buf) \/ buf[i] = 0}) - 1
        sum[i \in 0 .. end] ==
            IF i = 0 THEN 0
            ELSE IF buf[i] \in 1 .. Octal THEN sum[i - 1] * Octal + buf[i] - 1
            ELSE sum[i - 1]
    IN sum[end]

\* strncpy cuts the name.
Name(path) == SubSeq(path, 1, Min({Len(path), NameMax}))

Flag(type) == IF type \in {Directory, Symlink} THEN type ELSE Regular

buildHeader(f) ==
    Name(f.path) \o Zeros(NameMax - Len(Name(f.path)))
    \o writeOctal(IF f.type = Regular THEN Len(f.content) ELSE 0)
    \o <<Flag(f.type)>>

TarPack(files) ==
    FlattenSeq([i \in 1 .. Len(files) |->
        buildHeader(files[i])
        \o IF files[i].type = Regular
           THEN files[i].content \o Zeros(Padding(Len(files[i].content))) ELSE <<>>])
    \o Zeros(2 * HeaderSize)

parseName(header) ==
    SubSeq(header, 1,
        Min({i \in 1 .. NameMax + 1 : i > NameMax \/ header[i] = 0}) - 1)

TarUnpack(data) ==
    LET zero(off) == off + HeaderSize <= Len(data)
                     /\ Slice(data, off, HeaderSize) = Zeros(HeaderSize)
        rest[off \in Nat] ==
            IF off + HeaderSize > Len(data) \/ (zero(off) /\ zero(off + HeaderSize))
            THEN <<>>
            ELSE LET header == Slice(data, off, HeaderSize)
                     start == off + HeaderSize
                     size == readOctal(Slice(header, NameMax, SizeMax + 1))
                     plain == header[HeaderSize] \notin {Directory, Symlink}
                 IN <<Item(parseName(header),
                           IF plain /\ start + size <= Len(data)
                           THEN Slice(data, start, size) ELSE <<>>)>>
                    \o rest[start + size + Padding(size)]
    IN rest[0]

-----------------------------------------------------------------------------
(* IndexPackStrategy: the contents, a directory of the entries, and a last record *)
(* that says where the directory is. *)

EocdSize == 2 * W32 + 3 * W64

serializeEntry(f, offset) ==
    LE(Len(f.path), W16) \o f.path \o LE(offset, W64)
    \o LE(IF f.type = Regular THEN Len(f.content) ELSE 0, W64)
    \o LE(f.type, W16) \o LE(Len(f.target), W16) \o f.target

IndexPack(files) ==
    LET part(i) == IF files[i].type = Regular THEN files[i].content ELSE <<>>
        data[i \in 0 .. Len(files)] == IF i = 0 THEN <<>> ELSE data[i - 1] \o part(i)
        dir == FlattenSeq([i \in 1 .. Len(files) |->
                   serializeEntry(files[i], Len(data[i - 1]))])
        start == Len(data[Len(files)])
    IN data[Len(files)] \o dir \o LE(Signature, W32) \o LE(Len(files), W32)
       \o LE(start, W64) \o LE(Len(dir), W64) \o Zeros(W64)

Mutant_deserializeEntry(data, off) ==           \* the link target is not skipped
    LET path == off + W16
        at == path + Num(Slice(data, off, W16))
        size == Num(Slice(data, at + W64, W64))
        link == at + 2 * W64 + W16
    IN [next |-> link + W16,
        item |-> Item(Slice(data, path, at - path),
                      Slice(data, Num(Slice(data, at, W64)), size))]

deserializeEntry(data, off) ==
    LET path == off + W16
        at == path + Num(Slice(data, off, W16))
        size == IF Num(Slice(data, at + 2 * W64, W16)) = Regular
                THEN Num(Slice(data, at + W64, W64)) ELSE 0
        link == at + 2 * W64 + W16
    IN [next |-> link + W16 + Num(Slice(data, link, W16)),
        item |-> Item(Slice(data, path, at - path),
                      Slice(data, Num(Slice(data, at, W64)), size))]

IndexUnpack(data) ==
    LET eocd == Len(data) - EocdSize
        count == Num(Slice(data, eocd + W32, W32))
        entry[i \in 0 .. count] ==
            IF i = 0 THEN [next |-> Num(Slice(data, eocd + 2 * W32, W64))]
            ELSE deserializeEntry(data, entry[i - 1].next)
    IN IF eocd < 0 THEN <<>>
       ELSE IF Num(Slice(data, eocd, W32)) # Signature THEN <<>>
       ELSE [i \in 1 .. count |-> entry[i].item]

-----------------------------------------------------------------------------
(* How the restore looks a file up: the first entry of its path *)

Found(items, path) == \E i \in 1 .. Len(items) : items[i].path = path

ContentOf(items, path) ==
    items[Min({i \in 1 .. Len(items) : items[i].path = path})].content
=============================================================================
