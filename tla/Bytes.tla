-------------------------------- MODULE Bytes --------------------------------
(* Numbers as the bytes they are written with, least significant first, as    *)
(* every format of the library writes them. A byte has Radix values.          *)
EXTENDS Integers, Sequences

CONSTANTS
    Radix,          \* values of a byte: 256 in the code
    W16, W32, W64   \* bytes of a number: 2, 4 and 8 in the code

ASSUME RadixAssumption == Radix \in Nat \ {0} /\ {W16, W32, W64} \subseteq Nat \ {0}

Byte == 0 .. Radix - 1

\* n shifted right by 0 to width digits.
Shifts(n, base, width) ==
    LET rest[i \in 0 .. width] == IF i = 0 THEN n ELSE rest[i - 1] \div base
    IN rest

\* The value of digits that begin with the lowest, summed up from the highest.
Value(digits, base) ==
    LET sum[i \in 0 .. Len(digits)] ==
            IF i = 0 THEN 0 ELSE sum[i - 1] * base + digits[Len(digits) - i + 1]
    IN sum[Len(digits)]

\* A number that does not fit loses its upper bytes.
LE(n, width) == [i \in 1 .. width |-> Shifts(n, Radix, width)[i - 1] % Radix]

Num(bytes) == Value(bytes, Radix)

Fits(n, width) == Shifts(n, Radix, width)[width] = 0

\* What an unsigned integer of so many bytes keeps of n.
Wrapped(n, width) == Num(LE(n, width))

\* The bytes after the first off ones: length of them, or all. What is read past
\* the end is taken to be 0.
Slice(bytes, off, length) ==
    [i \in 1 .. length |-> IF off + i <= Len(bytes) THEN bytes[off + i] ELSE 0]

After(bytes, off) == SubSeq(bytes, off + 1, Len(bytes))
=============================================================================
