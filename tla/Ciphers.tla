------------------------------- MODULE Ciphers -------------------------------
(***************************************************************************)
(* The encryption of a backup: VigenereEncryptStrategy and                 *)
(* XorEncryptStrategy (libbackup/src/encrypt). A payload and a password    *)
(* are sequences of bytes. Of the 32 bits of the generator only the low    *)
(* byte is used, and it depends on no other bits: it is all that is kept.  *)
(***************************************************************************)
EXTENDS Bytes

CONSTANTS
    Mult, Inc,      \* 1103515245 and 12345, of which the low byte counts
    Discard,        \* bytes thrown away before the first: 16 in the code
    Xor(_, _)       \* the bitwise operation on two bytes

ASSUME XorAssumption ==
    \A a, b \in Byte : Xor(a, b) \in Byte /\ Xor(Xor(a, b), b) = a

ASSUME GeneratorAssumption == Mult \in Nat /\ Inc \in Nat /\ Discard \in Nat

-----------------------------------------------------------------------------
(* VigenereEncryptStrategy *)

KeyByte(password, i) == password[((i - 1) % Len(password)) + 1]

VigenereEncrypt(input, password) ==
    IF password = <<>> THEN input
    ELSE LE(Len(input), W64)
         \o [i \in 1 .. Len(input) |-> (input[i] + KeyByte(password, i)) % Radix]

Mutant_VigenereDecrypt(input, password) ==      \* the key counts from the size on
    LET cipher == After(input, W64) IN
    [i \in 1 .. Len(cipher) |->
        (cipher[i] - KeyByte(password, W64 + i) + Radix) % Radix]

\* The size in front is skipped, not used.
VigenereDecrypt(input, password) ==
    LET cipher == After(input, W64) IN
    IF Len(input) < W64 THEN <<>>
    ELSE IF password = <<>> THEN cipher
    ELSE [i \in 1 .. Len(cipher) |->
             (cipher[i] - KeyByte(password, i) + Radix) % Radix]

-----------------------------------------------------------------------------
(* XorEncryptStrategy *)

next(state) == (Mult * state + Inc) % Radix

seedFromPassword(password) ==
    LET seed[i \in 0 .. Len(password)] ==
            IF i = 0 THEN 0 ELSE (seed[i - 1] * 31 + password[i]) % Radix
    IN seed[Len(password)]

\* The state of the generator when i bytes have been drawn.
Stream(password, n) ==
    LET state[i \in 0 .. n] ==
            IF i = 0 THEN seedFromPassword(password) ELSE next(state[i - 1])
    IN state

crypt(input, password) ==
    LET state == Stream(password, Discard + Len(input)) IN
    [i \in 1 .. Len(input) |-> Xor(input[i], state[Discard + i])]

XorEncrypt(input, password) == LE(Len(input), W64) \o crypt(input, password)

XorDecrypt(input, password) ==
    IF Len(input) < W64 THEN <<>> ELSE crypt(After(input, W64), password)
=============================================================================
