----------------------------- MODULE BackupFile -----------------------------
(***************************************************************************)
(* A backup file from the list of the entries to the disk and back:        *)
(* BackupEngine::run (libbackup/src/core/BackupEngine.cpp) and the first   *)
(* half of RestoreEngine::run, with the header and the metadata of         *)
(* MetadataStore, MetadataSerializer and FileInfo, one stage per step.     *)
(***************************************************************************)
EXTENDS Ciphers, Compression, Packing

CONSTANTS
    Inputs,         \* what there may be to back up: sequences of entries
    Passwords,      \* the passwords, none of them empty
    Magic, Version  \* the two numbers a backup file begins with

Entry == [path : Seq(Byte), type : Nat, perm : Nat, owner : Nat, mtime : Nat,
          target : Seq(Byte), dev : Nat, content : Seq(Byte)]

\* What the scanner puts in an entry, from struct stat and from paths of at most
\* PATH_MAX bytes, has its size; only a device has a device number. A path ends before
\* the first byte 0.
Sized(f) ==
    /\ Fits(Len(f.path), W16) /\ Fits(Len(f.target), W16)
    /\ Fits(f.type, W16) /\ Fits(f.perm, W16) /\ Fits(f.owner, W32)
    /\ Fits(f.mtime, W64) /\ Fits(f.dev, W64)
    /\ f.type # Device => f.dev = 0
    /\ 0 \notin Range(f.path)

\* A scan finds every path once.
PathsOnce(list) ==
    \A i, j \in 1 .. Len(list) : list[i].path = list[j].path => i = j

ASSUME InputAssumption ==
    /\ \A list \in Inputs : list \in Seq(Entry) /\ \A i \in 1 .. Len(list) : Sized(list[i])
    /\ \A list \in Inputs : PathsOnce(list)
    /\ Passwords \subseteq Seq(Byte) \ {<<>>}
    /\ {Magic, Version} \subseteq Nat /\ Fits(7, W32)

VARIABLES
    files,          \* the entries of the backup
    algos,          \* the strategies chosen: 0 for none, or the algoId
    password,
    stage,          \* the last stage that is done
    bytes,          \* the payload; from "saved" to "loaded", the file
    packed,         \* history: the payload after packing
    squeezed,       \* history: the payload after compression
    header,         \* what the restore reads: strategies and metadata
    items           \* what unpacking finds

vars == <<files, algos, password, stage, bytes, packed, squeezed, header, items>>

chosen == <<files, algos, password>>

-----------------------------------------------------------------------------
(* FileInfo, MetadataSerializer *)

Str(s) == LE(Len(s), W16) \o s

\* The content is not part of it, and a device number only for devices.
serializeInfo(f) ==
    Str(f.path) \o LE(f.type, W16) \o LE(f.perm, W16) \o LE(f.owner, W32)
    \o LE(f.mtime, W64) \o Str(f.target)
    \o IF f.type = Device THEN LE(f.dev, W64) ELSE <<>>

Mutant_deserializeInfo(data, off) ==            \* a device number for every entry
    LET type == off + W16 + Num(Slice(data, off, W16))
        target == type + 2 * W16 + W32 + W64
        dev == target + W16 + Num(Slice(data, target, W16))
    IN [next |-> dev + W64,
        info |-> [path |-> Slice(data, off + W16, type - off - W16),
                  type |-> Num(Slice(data, type, W16)),
                  perm |-> Num(Slice(data, type + W16, W16)),
                  owner |-> Num(Slice(data, type + 2 * W16, W32)),
                  mtime |-> Num(Slice(data, target - W64, W64)),
                  target |-> Slice(data, target + W16, dev - target - W16),
                  dev |-> Num(Slice(data, dev, W64))]]

deserializeInfo(data, off) ==
    LET type == off + W16 + Num(Slice(data, off, W16))
        target == type + 2 * W16 + W32 + W64
        dev == target + W16 + Num(Slice(data, target, W16))
        isDevice == Num(Slice(data, type, W16)) = Device
    IN [next |-> IF isDevice THEN dev + W64 ELSE dev,
        info |-> [path |-> Slice(data, off + W16, type - off - W16),
                  type |-> Num(Slice(data, type, W16)),
                  perm |-> Num(Slice(data, type + W16, W16)),
                  owner |-> Num(Slice(data, type + 2 * W16, W32)),
                  mtime |-> Num(Slice(data, target - W64, W64)),
                  target |-> Slice(data, target + W16, dev - target - W16),
                  dev |-> IF isDevice THEN Num(Slice(data, dev, W64)) ELSE 0]]

serialize(list) ==
    LE(Len(list), W32)
    \o FlattenSeq([i \in 1 .. Len(list) |->
           LE(Len(serializeInfo(list[i])), W32) \o serializeInfo(list[i])])

deserialize(data) ==
    LET count == Num(Slice(data, 0, W32))
        read[i \in 0 .. count] ==
            IF i = 0 THEN [next |-> W32]
            ELSE deserializeInfo(data, read[i - 1].next + W32)
    IN [i \in 1 .. count |-> read[i].info]

-----------------------------------------------------------------------------
(* MetadataStore *)

Flags(a) ==
    (IF a.pack # 0 THEN 1 ELSE 0) + (IF a.compress # 0 THEN 2 ELSE 0)
    + (IF a.encrypt # 0 THEN 4 ELSE 0)

saveHeader ==
    LET meta == serialize(files) IN
    LE(Magic, W32) \o LE(Version, W32) \o LE(Flags(algos), W32)
    \o <<algos.pack, algos.compress, algos.encrypt>> \o LE(Len(meta), W32) \o meta

HeaderLength == 4 * W32 + 3

\* The strategies named by the flags, the metadata, and where the payload begins.
\* Only the magic number makes a restore give up; the version of the files is
\* always the one written here.
loadHeader(file) ==
    LET flags == Num(Slice(file, 2 * W32, W32))
        algo(i, bit) == IF (flags \div bit) % 2 = 1 THEN file[3 * W32 + i] ELSE 0
        size == Num(Slice(file, 3 * W32 + 3, W32))
    IN [ok |-> Slice(file, 0, W32) = LE(Magic, W32),
        algos |-> [pack |-> algo(1, 1), compress |-> algo(2, 2), encrypt |-> algo(3, 4)],
        files |-> deserialize(Slice(file, HeaderLength, size)),
        start |-> HeaderLength + size]

-----------------------------------------------------------------------------
(* The two runs *)

Init ==
    /\ files \in Inputs /\ password \in Passwords
    /\ algos \in [pack : 0 .. 2, compress : 0 .. 2, encrypt : 0 .. 2]
    /\ stage = "scanned" /\ bytes = <<>> /\ packed = <<>> /\ squeezed = <<>>
    /\ header = [ok |-> FALSE, algos |-> algos, files |-> <<>>, start |-> 0]
    /\ items = <<>>

Stage(from, to) == stage = from /\ stage' = to /\ UNCHANGED chosen

Pack ==
    /\ Stage("scanned", "packed")
    /\ bytes' = CASE algos.pack = 0 -> concatFiles(files)
                  [] algos.pack = 1 -> TarPack(files)
                  [] algos.pack = 2 -> IndexPack(files)
    /\ packed' = bytes'
    /\ UNCHANGED <<squeezed, header, items>>

Compress ==
    /\ Stage("packed", "squeezed")
    /\ bytes' = CASE algos.compress = 0 -> bytes
                  [] algos.compress = 1 -> RleCompress(bytes)
                  [] algos.compress = 2 -> HuffmanCompress(bytes)
    /\ squeezed' = bytes'
    /\ UNCHANGED <<packed, header, items>>

Encrypt ==
    /\ Stage("squeezed", "encrypted")
    /\ bytes' = CASE algos.encrypt = 0 -> bytes
                  [] algos.encrypt = 1 -> XorEncrypt(bytes, password)
                  [] algos.encrypt = 2 -> VigenereEncrypt(bytes, password)
    /\ UNCHANGED <<packed, squeezed, header, items>>

Save ==
    /\ Stage("encrypted", "saved")
    /\ bytes' = saveHeader \o bytes
    /\ UNCHANGED <<packed, squeezed, header, items>>

\* The restore works with what it reads, and with no more than the password.
Load ==
    /\ stage = "saved" /\ UNCHANGED chosen
    /\ header' = loadHeader(bytes)
    /\ stage' = IF header'.ok THEN "loaded" ELSE "refused"
    /\ bytes' = After(bytes, header'.start)
    /\ UNCHANGED <<packed, squeezed, items>>

Decrypt ==
    /\ Stage("loaded", "decrypted")
    /\ bytes' = CASE header.algos.encrypt = 0 -> bytes
                  [] header.algos.encrypt = 1 -> XorDecrypt(bytes, password)
                  [] header.algos.encrypt = 2 -> VigenereDecrypt(bytes, password)
    /\ UNCHANGED <<packed, squeezed, header, items>>

Decompress ==
    /\ Stage("decrypted", "decompressed")
    /\ bytes' = CASE header.algos.compress = 0 -> bytes
                  [] header.algos.compress = 1 -> RleDecompress(bytes)
                  [] header.algos.compress = 2 -> HuffmanDecompress(bytes)
    /\ UNCHANGED <<packed, squeezed, header, items>>

\* Only the raw format is refused when it does not fit.
Unpack ==
    LET raw == restoreFromRaw(bytes) IN
    /\ stage = "decompressed" /\ UNCHANGED chosen
    /\ stage' = IF header.algos.pack = 0 /\ ~ raw.ok THEN "refused" ELSE "unpacked"
    /\ items' = CASE header.algos.pack = 0 -> raw.items
                  [] header.algos.pack = 1 -> TarUnpack(bytes)
                  [] header.algos.pack = 2 -> IndexUnpack(bytes)
    /\ UNCHANGED <<bytes, packed, squeezed, header>>

Next ==
    \/ Pack \/ Compress \/ Encrypt \/ Save
    \/ Load \/ Decrypt \/ Decompress \/ Unpack

Spec == Init /\ [][Next]_vars

-----------------------------------------------------------------------------
Stages == {"scanned", "packed", "squeezed", "encrypted", "saved", "loaded",
           "decrypted", "decompressed", "unpacked", "refused"}

Info(f) == [path |-> f.path, type |-> f.type, perm |-> f.perm, owner |-> f.owner,
            mtime |-> f.mtime, target |-> f.target, dev |-> f.dev]

\* The size of the metadata is cut to 32 bits, and the restore looks for the payload
\* in the middle of them.
Oversized == ~ Fits(Len(serialize(files)), W32)

\* The file a backup has written tells the restore which strategies were used and
\* every field of every entry, and is never refused for its header.
HeaderExact ==
    stage \in {"loaded", "decrypted", "decompressed", "unpacked"} /\ ~ Oversized =>
        /\ header.ok /\ header.algos = algos
        /\ header.files = [i \in 1 .. Len(files) |-> Info(files[i])]

\* Decryption gives back the payload that was encrypted, byte for byte.
CipherUndone == stage = "decrypted" /\ ~ Oversized => bytes = squeezed

\* What the Huffman code cannot give back: a payload of one byte value only, and a
\* byte whose number of occurrences wraps to zero.
Occurs(b) == Cardinality({i \in 1 .. Len(packed) : packed[i] = b})

Lost ==
    /\ algos.compress = 2 /\ packed # <<>>
    /\ \/ Cardinality(Range(packed)) = 1
       \/ \E b \in Range(packed) : Wrapped(Occurs(b), WFreq) = 0

\* A payload of more bytes or bits than 64 bits can count.
Huge == ~ Fits(Len(packed), W64) \/ ~ Fits(Bits * Len(squeezed), W64)

Exact == ~ Oversized /\ ~ Huge /\ ~ Lost

\* Decompression gives back the payload that was compressed, at every block
\* boundary, for every tree and however the ties between its nodes fall; and the
\* run-length code costs at most one byte for each block of literals.
CompressionUndone ==
    /\ stage = "decompressed" /\ Exact => bytes = packed
    /\ stage = "squeezed" /\ algos.compress = 1 =>
          Len(squeezed) <= W64 + Len(packed) + (Len(packed) + MaxBlock - 1) \div MaxBlock

\* More files than restoreFromRaw lets pass; concatFiles writes them all.
TooMany == algos.pack = 0 /\ Cardinality(WithContent(files)) > MaxCount

\* What the archive cannot give back of file i: the raw format has no files without
\* content; a tar header has no room for a long name or a large size, and a name
\* that was cut may be that of a later file.
Unfit(i) ==
    \/ algos.pack = 0 /\ files[i].content = <<>>
    \/ algos.pack = 1 /\
         \/ Len(files[i].path) > NameMax
         \/ \E j \in 1 .. i - 1 : Name(files[j].path) = files[i].path
         \/ \E j \in 1 .. i : Shifts(Len(files[j].content), Octal, SizeMax)[SizeMax] # 0

\* Every file that fits the format is found again under its path, with its content,
\* whatever the combination of strategies and whatever the other entries are; and a
\* backup is refused only when the code has lost its payload, or has more files in the
\* raw format than the restore takes for plausible.
ContentsFound ==
    /\ stage = "refused" => ~ Exact \/ TooMany
    /\ stage = "unpacked" /\ Exact =>
          \A i \in 1 .. Len(files) : files[i].type = Regular /\ ~ Unfit(i) =>
              /\ Found(items, files[i].path)
              /\ ContentOf(items, files[i].path) = files[i].content

-----------------------------------------------------------------------------
(* What the code says of itself that it does not keep *)

\* HuffmanCode: "length 1-32" of every byte that is to be written.
CodeLengths ==
    stage = "squeezed" /\ algos.compress = 2 =>
        LET codes == generateCodes(buildTree(countFrequencies(packed))) IN
        \A b \in Range(packed) : Len(codes[b]) \in 1 .. 32
=============================================================================
