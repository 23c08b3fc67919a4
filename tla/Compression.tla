----------------------------- MODULE Compression -----------------------------
(***************************************************************************)
(* The compression of a backup: RleCompressStrategy and                    *)
(* HuffmanCompressStrategy (libbackup/src/compress), on sequences of bytes *)
(* of Bits bits. The longest block of the run-length code has half as many *)
(* bytes as a byte has values; the frequencies of the Huffman code wrap at *)
(* the width they are stored with.                                         *)
(***************************************************************************)
EXTENDS Bytes, FiniteSets, SequencesExt, FiniteSetsExt

CONSTANTS
    Bits,           \* bits of a byte: 8 in the code
    WFreq           \* bytes of a frequency: 4 in the code

ASSUME BitsAssumption ==
    /\ {Bits, WFreq} \subseteq Nat \ {0}
    /\ \A bits \in [1 .. Bits -> {0, 1}] : Value(bits, 2) \in Byte

-----------------------------------------------------------------------------
(* RleCompressStrategy *)

MaxBlock == Radix \div 2

\* The shortest run fits a block.
ASSUME BlockAssumption == MaxBlock >= 3

\* How often the byte after pos repeats, at most cap times.
Run(input, pos, cap) ==
    Max({k \in 1 .. cap :
            pos + k <= Len(input) /\ \A j \in 1 .. k : input[pos + j] = input[pos + 1]})

\* A literal block goes on until three equal bytes follow.
Literal(input, pos) ==
    Min({k \in 1 .. MaxBlock :
            \/ pos + k >= Len(input) \/ k = MaxBlock
            \/ Run(input, pos + k, 3) >= 3})

RleCompress(input) ==
    LET block[pos \in 0 .. Len(input)] ==
            IF pos = Len(input) THEN <<>>
            ELSE LET run == Run(input, pos, MaxBlock) lit == Literal(input, pos) IN
                 IF run < 3
                 THEN <<lit - 1>> \o Slice(input, pos, lit) \o block[pos + lit]
                 ELSE <<MaxBlock + run - 1, input[pos + 1]>> \o block[pos + run]
    IN LE(Len(input), W64) \o block[0]

\* The blocks are expanded until the stated size is reached or nothing is left.
RleDecompress(input) ==
    LET size == Num(Slice(input, 0, W64))
        end == Len(input)
        tail[pos \in W64 .. end + Radix] ==
            IF pos >= end THEN <<>>
            ELSE LET ctrl == input[pos + 1] count == (ctrl % MaxBlock) + 1 IN
                 IF ctrl < MaxBlock
                 THEN SubSeq(input, pos + 2, Min({pos + 1 + count, end}))
                      \o tail[pos + 1 + count]
                 ELSE IF pos + 1 = end THEN <<>>
                      ELSE [i \in 1 .. count |-> input[pos + 2]] \o tail[pos + 2]
    IN IF end < W64 THEN <<>>
       ELSE SubSeq(tail[W64], 1, Min({size, Len(tail[W64])}))

-----------------------------------------------------------------------------
(* HuffmanCompressStrategy *)

\* uint32_t counters.
countFrequencies(input) ==
    [b \in Byte |-> Wrapped(Cardinality({i \in 1 .. Len(input) : input[i] = b}), WFreq)]

\* A tree is the frequency of its root and, for each leaf, the path to it: the
\* code of the byte, first bit first.
Leaf(b, f) == [frequency |-> f, codes |-> [x \in {b} |-> <<>>]]

Lightest(trees) ==
    CHOOSE t \in trees : \A u \in trees : t.frequency <= u.frequency

Mutant_Join(left, right) ==                     \* the codes of two trees collide
    [frequency |-> Wrapped(left.frequency + right.frequency, WFreq),
     codes |-> [b \in DOMAIN left.codes \cup DOMAIN right.codes |->
                   IF b \in DOMAIN left.codes THEN <<0>> \o left.codes[b]
                   ELSE right.codes[b] \o <<1>>]]

Join(left, right) ==
    [frequency |-> Wrapped(left.frequency + right.frequency, WFreq),
     codes |-> [b \in DOMAIN left.codes \cup DOMAIN right.codes |->
                   IF b \in DOMAIN left.codes THEN <<0>> \o left.codes[b]
                   ELSE <<1>> \o right.codes[b]]]

\* The two lightest trees are joined until one is left. Between equals the heap
\* decides, the same way each time.
buildTree(freqs) ==
    LET used == {b \in Byte : freqs[b] > 0}
        leaves == {Leaf(b, freqs[b]) : b \in used}
        forest[k \in 0 .. Cardinality(used)] ==
            IF k = 0 THEN leaves
            ELSE LET trees == forest[k - 1]
                     left == Lightest(trees)
                     right == Lightest(trees \ {left})
                 IN IF Cardinality(trees) = 1 THEN trees
                    ELSE (trees \ {left, right}) \cup {Join(left, right)}
    IN IF used = {} THEN Leaf(0, 1)
       ELSE CHOOSE t \in forest[Cardinality(used)] : TRUE

\* The code of every byte; one that is in no leaf has a code of no bits.
generateCodes(tree) ==
    [b \in Byte |-> IF b \in DOMAIN tree.codes THEN tree.codes[b] ELSE <<>>]

\* The bits of a byte are filled from the lowest.
Packed(bits) ==
    [j \in 1 .. (Len(bits) + Bits - 1) \div Bits |->
        Value(Slice(bits, (j - 1) * Bits, Bits), 2)]

Bit(bytes, k) ==
    Shifts(bytes[((k - 1) \div Bits) + 1], 2, Bits)[(k - 1) % Bits] % 2

HuffmanCompress(input) ==
    LET freqs == countFrequencies(input)
        codes == generateCodes(buildTree(freqs))
        bits == FlattenSeq([i \in 1 .. Len(input) |-> codes[input[i]]])
        table == FlattenSeq([i \in 1 .. Radix |-> LE(freqs[i - 1], WFreq)])
    IN LE(Len(input), W64) \o table
       \o (IF input = <<>> THEN LE(0, W64) ELSE LE(Len(bits), W64) \o Packed(bits))

\* The tree is built again and walked bit by bit, from the root to the leaf whose path
\* comes next; where none does, the walk leaves the tree or the bits end.
HuffmanDecompress(input) ==
    LET head == W64 + Radix * WFreq
        size == Num(Slice(input, 0, W64))
        freqs == [b \in Byte |-> Num(Slice(input, W64 + b * WFreq, WFreq))]
        total == Num(Slice(input, head, W64))
        codes == buildTree(freqs).codes
        data == Slice(input, head + W64, (total + Bits - 1) \div Bits)
        coming(at) ==
            {b \in DOMAIN codes :
                /\ codes[b] # <<>> /\ at + Len(codes[b]) <= total
                /\ \A k \in 1 .. Len(codes[b]) : Bit(data, at + k) = codes[b][k]}
        walk[i \in 0 .. size] ==
            IF i = 0 THEN [at |-> 0, out |-> <<>>]
            ELSE LET so == walk[i - 1] IN
                 IF so.at = total \/ coming(so.at) = {} THEN so
                 ELSE LET b == CHOOSE b \in coming(so.at) : TRUE IN
                      [at |-> so.at + Len(codes[b]), out |-> Append(so.out, b)]
    IN IF Len(input) < head + W64 \/ size = 0 THEN <<>> ELSE walk[size].out
=============================================================================
