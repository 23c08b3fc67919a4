-------------------------- MODULE BackupFile_proofs --------------------------
(***************************************************************************)
(* Theorems about the conversions of a backup file and about the backup    *)
(* and the restore that apply them, for every list of entries, every       *)
(* payload, every password and every width of a byte.                      *)
(*                                                                         *)
(* Everything here is computed along a sequence. The provers have no       *)
(* induction; that a set of numbers has a least element (WFMin) gives one, *)
(* over sets (Induction), and from it that a recursive definition means    *)
(* what it says (Recursion). Where a piece of the data is, At says; where  *)
(* one of many pieces is, Builds.                                          *)
(***************************************************************************)
EXTENDS BackupFile, FiniteSetTheorems, NaturalsInduction, WellFoundedInduction, TLAPS

\* A set of numbers that has 0, and with n also n + 1, has all.
LEMMA Induction ==
    ASSUME NEW T, 0 \in T, \A n \in Nat : n \in T => n + 1 \in T
    PROVE  Nat \subseteq T
  <1> DEFINE Bad == {n \in Nat : n \notin T}
  <1> SUFFICES ASSUME Bad # {} PROVE FALSE
    OBVIOUS
  <1>1. PICK n \in Bad : \A m \in Bad : ~ (<<m, n>> \in OpToRel(<, Nat))
    <2>1. Bad \subseteq Nat
      OBVIOUS
    <2> HIDE DEF Bad
    <2>. QED BY <2>1, NatLessThanWellFounded, WFMin
  <1>2. n \in Nat /\ n # 0
    BY <1>1
  <1>3. n - 1 \in Nat /\ n - 1 < n /\ (n - 1) + 1 = n
    BY <1>2
  <1>4. n - 1 \notin Bad
    BY <1>1, <1>2, <1>3 DEF OpToRel
  <1>. QED BY <1>1, <1>2, <1>3, <1>4

\* A recursion over 0 .. k: it begins with a, and step i takes f[i - 1] to f[i].
IsStep(s, k, D) == s \in [1 .. k -> [D -> D]]

IsRec(f, k, D, a, s) ==
    /\ f \in [0 .. k -> D] /\ f[0] = a
    /\ \A i \in 1 .. k : f[i] = s[i][f[i - 1]]

LEMMA Recursion ==
    ASSUME NEW k \in Nat, NEW D, NEW a \in D, NEW s, IsStep(s, k, D)
    PROVE  \E f : IsRec(f, k, D, a, s)
  <1> DEFINE T == {n \in Nat : n <= k => \E f : IsRec(f, n, D, a, s)}
  <1>1. 0 \in T
    <2> DEFINE g == [i \in 0 .. 0 |-> a]
    <2>1. IsRec(g, 0, D, a, s)
      BY DEF IsRec
    <2> HIDE DEF g
    <2>. QED BY <2>1
  <1>2. ASSUME NEW n \in Nat, n \in T PROVE n + 1 \in T
    <2> SUFFICES ASSUME n + 1 <= k PROVE \E f : IsRec(f, n + 1, D, a, s)
      BY <1>2
    <2>1. PICK f : IsRec(f, n, D, a, s)
      BY <1>2
    <2> DEFINE g == [i \in 0 .. n + 1 |-> IF i = n + 1 THEN s[n + 1][f[n]] ELSE f[i]]
    <2>2. /\ f \in [0 .. n -> D] /\ f[0] = a
          /\ \A i \in 1 .. n : f[i] = s[i][f[i - 1]]
      BY <2>1 DEF IsRec
    <2>3. n + 1 \in 1 .. k /\ s[n + 1] \in [D -> D] /\ f[n] \in D
      BY <2>2 DEF IsStep
    <2>4. g \in [0 .. n + 1 -> D] /\ g[0] = a
      BY <2>2, <2>3
    <2>5. ASSUME NEW i \in 1 .. n + 1 PROVE g[i] = s[i][g[i - 1]]
      <3>1. i - 1 \in 0 .. n /\ g[i - 1] = f[i - 1]
        BY <2>2
      <3>2. CASE i = n + 1
        BY <3>1, <3>2
      <3>3. CASE i # n + 1
        BY <2>2, <3>1, <3>3
      <3>. QED BY <3>2, <3>3
    <2> HIDE DEF g
    <2>6. IsRec(g, n + 1, D, a, s)
      BY <2>4, <2>5 DEF IsRec
    <2>. QED BY <2>6
  <1> HIDE DEF T
  <1>3. k \in T
    BY <1>1, <1>2, Induction
  <1>. QED BY <1>3 DEF T

\* What each step keeps, all of them keep.
LEMMA Kept ==
    ASSUME NEW k \in Nat, NEW P, 0 \in P, \A i \in 1 .. k : i - 1 \in P => i \in P
    PROVE  0 .. k \subseteq P
  <1> DEFINE T == {n \in Nat : n <= k => n \in P}
  <1>1. 0 \in T /\ \A n \in Nat : n \in T => n + 1 \in T
    <2>1. ASSUME NEW n \in Nat, n \in T, n + 1 <= k PROVE n + 1 \in P
      <3>1. n + 1 \in 1 .. k /\ (n + 1) - 1 = n /\ n \in P
        BY <2>1
      <3>. QED BY <3>1
    <2>. QED BY <2>1
  <1> HIDE DEF T
  <1>2. Nat \subseteq T
    BY <1>1, Induction
  <1>. QED BY <1>2 DEF T

\* The values of a function that begins in D and does not leave it.
LEMMA Within ==
    ASSUME NEW k \in Nat, NEW D, NEW f, DOMAIN f = 0 .. k, f = [i \in 0 .. k |-> f[i]],
           f[0] \in D, \A i \in 1 .. k : f[i - 1] \in D => f[i] \in D
    PROVE  f \in [0 .. k -> D]
  <1> DEFINE P == {i \in 0 .. k : f[i] \in D}
  <1>1. ASSUME NEW i \in 1 .. k, i - 1 \in P PROVE i \in P
    <2>1. i \in 0 .. k /\ f[i - 1] \in D
      BY <1>1
    <2>. QED BY <2>1
  <1>2. 0 \in P
    OBVIOUS
  <1>3. 0 .. k \subseteq P
    <2> HIDE DEF P
    <2>. QED BY <1>1, <1>2, Kept
  <1>4. \A i \in 0 .. k : f[i] \in D
    BY <1>3
  <1>. QED BY <1>4

LEMMA SeqOfMore == ASSUME NEW S, NEW T, S \subseteq T, NEW x \in Seq(S) PROVE x \in Seq(T)
  <1>1. Len(x) \in Nat /\ x = [i \in 1 .. Len(x) |-> x[i]]
    OBVIOUS
  <1>2. \A i \in 1 .. Len(x) : x[i] \in T
    OBVIOUS
  <1>. QED BY <1>1, <1>2

-----------------------------------------------------------------------------
(* Numbers as bytes *)

LEMMA BaseFacts ==
    ASSUME NEW base \in Nat \ {0}, NEW x \in Nat
    PROVE  /\ x \div base \in Nat /\ x % base \in 0 .. base - 1
           /\ x = (x \div base) * base + (x % base)
  OBVIOUS

LEMMA RadixFacts ==
    /\ Radix \in Nat \ {0} /\ W16 \in Nat \ {0} /\ W32 \in Nat \ {0} /\ W64 \in Nat \ {0}
    /\ \A x \in Nat : /\ x \div Radix \in Nat /\ x % Radix \in Byte
                      /\ x = (x \div Radix) * Radix + (x % Radix)
    /\ Byte \subseteq Nat
  <1>1. /\ Radix \in Nat \ {0} /\ W16 \in Nat \ {0} /\ W32 \in Nat \ {0}
        /\ W64 \in Nat \ {0}
    BY RadixAssumption DEF RadixAssumption
  <1>2. ASSUME NEW x \in Nat
        PROVE  /\ x \div Radix \in Nat /\ x % Radix \in Byte
               /\ x = (x \div Radix) * Radix + (x % Radix)
    BY <1>1, BaseFacts DEF Byte
  <1>. QED BY <1>1, <1>2 DEF Byte

\* What is left of n after each of w digits.
Left(rest, n, base, w) ==
    /\ rest \in [0 .. w -> Nat] /\ rest[0] = n
    /\ \A i \in 1 .. w : rest[i] = rest[i - 1] \div base

LEMMA ShiftsStep ==
    ASSUME NEW n \in Nat, NEW base \in Nat \ {0}, NEW w \in Nat
    PROVE  Left(Shifts(n, base, w), n, base, w)
  <1> DEFINE s == [i \in 1 .. w |-> [x \in Nat |-> x \div base]]
             rest == Shifts(n, base, w)
  <1>1. IsStep(s, w, Nat)
    BY BaseFacts DEF IsStep
  <1>2. \A i \in 1 .. w : \A x \in Nat : s[i][x] = x \div base
    OBVIOUS
  <1> HIDE DEF s
  <1>3. PICK f : IsRec(f, w, Nat, n, s)
    BY <1>1, Recursion
  <1>4. f \in [0 .. w -> Nat] /\ f[0] = n /\ \A i \in 1 .. w : f[i] = f[i - 1] \div base
    <2>1. /\ f \in [0 .. w -> Nat] /\ f[0] = n
          /\ \A i \in 1 .. w : f[i] = s[i][f[i - 1]]
      BY <1>3 DEF IsRec
    <2>2. ASSUME NEW i \in 1 .. w PROVE f[i] = f[i - 1] \div base
      <3>1. i - 1 \in 0 .. w
        OBVIOUS
      <3>2. f[i - 1] \in Nat
        BY <2>1, <3>1
      <3>. QED BY <1>2, <2>1, <3>2
    <2>. QED BY <2>1, <2>2
  <1>5. f = [i \in 0 .. w |-> IF i = 0 THEN n ELSE f[i - 1] \div base]
    <2>1. \A i \in 0 .. w : f[i] = IF i = 0 THEN n ELSE f[i - 1] \div base
      BY <1>4
    <2>. QED BY <1>4, <2>1
  <1>6. rest = [i \in 0 .. w |-> IF i = 0 THEN n ELSE rest[i - 1] \div base]
    BY <1>5 DEF Shifts
  <1> HIDE DEF rest
  <1>7. rest[0] = n /\ \A i \in 1 .. w : rest[i] = rest[i - 1] \div base
    <2>1. 0 \in 0 .. w /\ \A i \in 1 .. w : i \in 0 .. w /\ i # 0
      OBVIOUS
    <2>. QED BY <1>6, <2>1
  <1>8. DOMAIN rest = 0 .. w /\ rest = [i \in 0 .. w |-> rest[i]]
    BY <1>6
  <1>9. \A i \in 1 .. w : rest[i - 1] \in Nat => rest[i] \in Nat
    BY <1>7, BaseFacts
  <1>10. rest \in [0 .. w -> Nat]
    BY <1>7, <1>8, <1>9, Within
  <1>. QED BY <1>7, <1>10 DEF rest, Left

LEMMA LEBytes ==
    ASSUME NEW n \in Nat, NEW w \in Nat
    PROVE  LE(n, w) \in Seq(Byte) /\ Len(LE(n, w)) = w
  <1>1. ASSUME NEW i \in 1 .. w PROVE Shifts(n, Radix, w)[i - 1] % Radix \in Byte
    <2>1. Radix \in Nat \ {0} /\ i - 1 \in 0 .. w
      BY RadixFacts
    <2>2. Shifts(n, Radix, w) \in [0 .. w -> Nat]
      BY <2>1, ShiftsStep DEF Left
    <2>3. Shifts(n, Radix, w)[i - 1] \in Nat
      BY <2>1, <2>2
    <2>. QED BY <2>3, RadixFacts
  <1>. QED BY <1>1 DEF LE

\* A digit more in a sum.
LEMMA SumDigit ==
    ASSUME NEW b \in Seq(Nat), NEW base \in Nat, NEW i \in 1 .. Len(b), NEW x \in Nat
    PROVE  x * base + b[Len(b) - i + 1] \in Nat
  <1>1. Len(b) - i + 1 \in 1 .. Len(b)
    OBVIOUS
  <1>2. \A j \in 1 .. Len(b) : b[j] \in Nat
    OBVIOUS
  <1>3. x * base \in Nat
    OBVIOUS
  <1> DEFINE d == b[Len(b) - i + 1]
  <1>4. d \in Nat
    BY <1>1, <1>2
  <1> HIDE DEF d
  <1>5. x * base + d \in Nat
    BY <1>3, <1>4
  <1>. QED BY <1>5 DEF d

\* The sums of Value.
Sums(f, b, base) ==
    /\ f \in [0 .. Len(b) -> Nat] /\ f[0] = 0
    /\ \A i \in 1 .. Len(b) : f[i] = f[i - 1] * base + b[Len(b) - i + 1]

LEMMA ValueStep ==
    ASSUME NEW b \in Seq(Nat), NEW base \in Nat
    PROVE  \E f : Sums(f, b, base) /\ Value(b, base) = f[Len(b)]
  <1> DEFINE k == Len(b)
             s == [i \in 1 .. k |-> [x \in Nat |-> x * base + b[k - i + 1]]]
             Body(g) == [i \in 0 .. k |-> IF i = 0 THEN 0 ELSE g[i - 1] * base + b[k - i + 1]]
             sum == CHOOSE g : g = Body(g)
  <1>0. k \in Nat
    OBVIOUS
  <1>1. IsStep(s, k, Nat)
    BY SumDigit DEF IsStep
  <1>2. \A i \in 1 .. k : \A x \in Nat : s[i][x] = x * base + b[k - i + 1]
    OBVIOUS
  <1>3. PICK f : IsRec(f, k, Nat, 0, s)
    <2> HIDE DEF s, k
    <2>. QED BY <1>0, <1>1, Recursion
  <1>4. Sums(f, b, base)
    <2>1. /\ f \in [0 .. k -> Nat] /\ f[0] = 0
          /\ \A i \in 1 .. k : f[i] = s[i][f[i - 1]]
      BY <1>3 DEF IsRec
    <2>2. ASSUME NEW i \in 1 .. k PROVE f[i] = f[i - 1] * base + b[k - i + 1]
      <3> HIDE DEF s
      <3>1. f[i - 1] \in Nat
        <4>1. i - 1 \in 0 .. k
          BY <1>0
        <4>. QED BY <2>1, <4>1
      <3>. QED BY <1>2, <2>1, <3>1
    <2>. QED BY <2>1, <2>2 DEF Sums
  <1>5. f = Body(f)
    <2>1. \A i \in 0 .. k : f[i] = IF i = 0 THEN 0 ELSE f[i - 1] * base + b[k - i + 1]
      BY <1>4 DEF Sums
    <2>. QED BY <1>4, <2>1 DEF Sums
  <1>6. sum = Body(sum)
    BY <1>5
  <1>7. Value(b, base) = sum[k]
    BY DEF Value
  <1> HIDE DEF sum
  <1>8. sum[0] = 0 /\ \A i \in 1 .. k : sum[i] = sum[i - 1] * base + b[k - i + 1]
    <2>1. 0 \in 0 .. k /\ \A i \in 1 .. k : i \in 0 .. k /\ i # 0
      OBVIOUS
    <2>. QED BY <1>6, <2>1
  <1>9. DOMAIN sum = 0 .. k /\ sum = [i \in 0 .. k |-> sum[i]]
    BY <1>6
  <1>10. \A i \in 1 .. k : sum[i - 1] \in Nat => sum[i] \in Nat
    BY <1>8, SumDigit
  <1>11. sum \in [0 .. k -> Nat]
    <2>1. sum[0] \in Nat
      BY <1>8
    <2> HIDE DEF k
    <2>. QED BY <1>0, <1>9, <1>10, <2>1, Within
  <1>12. Sums(sum, b, base)
    BY <1>8, <1>11 DEF Sums
  <1>. QED BY <1>7, <1>12

\* The w digits of a number; nothing of it is left.
Digits(b, n, base, w) ==
    /\ b \in Seq(Nat) /\ Len(b) = w /\ Shifts(n, base, w)[w] = 0
    /\ \A i \in 1 .. w : b[i] = Shifts(n, base, w)[i - 1] % base

LEMMA DigitsValue ==
    ASSUME NEW n \in Nat, NEW base \in Nat \ {0}, NEW w \in Nat, NEW b,
           Digits(b, n, base, w)
    PROVE  Value(b, base) = n
  <1> DEFINE rest == Shifts(n, base, w)
  <1>2. /\ rest \in [0 .. w -> Nat] /\ rest[0] = n /\ rest[w] = 0
        /\ \A i \in 1 .. w : rest[i] = rest[i - 1] \div base
    <2>1. rest[w] = 0 /\ Left(rest, n, base, w)
      BY ShiftsStep DEF Digits
    <2> HIDE DEF rest
    <2>. QED BY <2>1 DEF Left
  <1>3. \A i \in 1 .. w : b[i] = rest[i - 1] % base
    BY DEF Digits
  <1> HIDE DEF rest
  <1>0. b \in Seq(Nat) /\ Len(b) = w
    BY DEF Digits
  <1>4. PICK f : Sums(f, b, base) /\ Value(b, base) = f[Len(b)]
    BY <1>0, ValueStep
  <1>5. /\ f[0] = 0 /\ Value(b, base) = f[w]
        /\ \A i \in 1 .. w : f[i] = f[i - 1] * base + b[w - i + 1]
    BY <1>0, <1>4 DEF Sums
  <1> DEFINE P == {i \in 0 .. w : f[i] = rest[w - i]}
  <1>6. 0 \in P
    BY <1>2, <1>5
  <1>7. ASSUME NEW i \in 1 .. w, i - 1 \in P PROVE i \in P
    <2> DEFINE j == w - i
    <2>1. j \in 0 .. w /\ j + 1 \in 1 .. w /\ w - (i - 1) = j + 1 /\ w - i + 1 = j + 1
          /\ (j + 1) - 1 = j
      OBVIOUS
    <2> HIDE DEF j
    <2>2. f[i - 1] = rest[j + 1]
      BY <1>7, <2>1
    <2>3. b[j + 1] = rest[j] % base /\ rest[j + 1] = rest[j] \div base /\ rest[j] \in Nat
      BY <1>2, <1>3, <2>1
    <2>4. f[i] = f[i - 1] * base + b[j + 1]
      BY <1>5, <2>1
    <2>5. rest[j] = (rest[j] \div base) * base + (rest[j] % base)
      BY <2>3, BaseFacts
    <2>6. f[i] = rest[j]
      BY <2>2, <2>3, <2>4, <2>5
    <2>. QED BY <2>6 DEF j
  <1>8. 0 .. w \subseteq P
    <2> HIDE DEF P
    <2>. QED BY <1>6, <1>7, Kept
  <1>9. f[w] = rest[w - w]
    BY <1>8
  <1>. QED BY <1>2, <1>5, <1>9

\* A number that fits its width is read back from the bytes it was written with, lowest
\* first: MetadataSerializer's writeUint and readUint.
THEOREM NumbersReadBack ==
    ASSUME NEW n \in Nat, NEW w \in Nat, Fits(n, w)
    PROVE  Num(LE(n, w)) = n
  <1>0. Radix \in Nat \ {0}
    BY RadixFacts
  <1>1. LE(n, w) \in Seq(Nat) /\ Len(LE(n, w)) = w
    <2>1. LE(n, w) \in Seq(Byte) /\ Len(LE(n, w)) = w
      BY LEBytes
    <2>2. Byte \subseteq Nat
      BY RadixFacts
    <2>. QED BY <2>1, <2>2, SeqOfMore
  <1>2. \A i \in 1 .. w : LE(n, w)[i] = Shifts(n, Radix, w)[i - 1] % Radix
    BY DEF LE
  <1>3. Shifts(n, Radix, w)[w] = 0
    BY DEF Fits
  <1>4. Digits(LE(n, w), n, Radix, w)
    BY <1>1, <1>2, <1>3 DEF Digits
  <1>5. Value(LE(n, w), Radix) = n
    BY <1>0, <1>4, DigitsValue
  <1>. QED BY <1>5 DEF Num

-----------------------------------------------------------------------------
(* The ciphers *)

LEMMA AfterConcat ==
    ASSUME NEW a \in Seq(Byte), NEW b \in Seq(Byte)
    PROVE  After(a \o b, Len(a)) = b /\ Len(a \o b) = Len(a) + Len(b)
  <1>1. /\ a \o b \in Seq(Byte) /\ Len(a \o b) = Len(a) + Len(b)
        /\ \A i \in 1 .. Len(b) : (a \o b)[Len(a) + i] = b[i]
    OBVIOUS
  <1> DEFINE c == a \o b
  <1> HIDE DEF c
  <1>2. /\ Len(SubSeq(c, Len(a) + 1, Len(c))) = Len(b)
        /\ \A i \in 1 .. Len(b) : SubSeq(c, Len(a) + 1, Len(c))[i] = c[Len(a) + i]
        /\ SubSeq(c, Len(a) + 1, Len(c)) \in Seq(Byte)
    BY <1>1 DEF c
  <1>3. SubSeq(c, Len(a) + 1, Len(c)) = b
    BY <1>1, <1>2 DEF c
  <1>. QED BY <1>1, <1>3 DEF After, c

\* A byte of the key is added and taken off.
LEMMA AddedTakenOff ==
    ASSUME NEW x \in Byte, NEW k \in Byte
    PROVE  /\ (x + k) % Radix \in Byte
           /\ (((x + k) % Radix) - k + Radix) % Radix = x
  <1>0. Radix \in Nat \ {0} /\ x \in Nat /\ k \in Nat /\ x < Radix /\ k < Radix
    BY RadixFacts DEF Byte
  <1>1. CASE x + k < Radix
    <2>1. (x + k) % Radix = x + k
      BY <1>0, <1>1
    <2>2. (x + Radix) % Radix = x
      BY <1>0
    <2>3. x + k - k + Radix = x + Radix
      BY <1>0
    <2>. QED BY <1>0, <1>1, <2>1, <2>2, <2>3 DEF Byte
  <1>2. CASE x + k >= Radix
    <2>1. (x + k) % Radix = x + k - Radix
      BY <1>0, <1>2
    <2>2. x + k - Radix - k + Radix = x /\ x % Radix = x
      BY <1>0
    <2>. QED BY <1>0, <1>2, <2>1, <2>2 DEF Byte
  <1>. QED BY <1>0, <1>1, <1>2

LEMMA KeyBytes ==
    ASSUME NEW word \in Seq(Byte), word # <<>>, NEW i \in Nat \ {0}
    PROVE  KeyByte(word, i) \in Byte
  <1>1. Len(word) \in Nat \ {0} /\ i - 1 \in Nat
    OBVIOUS
  <1>2. ((i - 1) % Len(word)) + 1 \in 1 .. Len(word)
    BY <1>1
  <1>. QED BY <1>2 DEF KeyByte

\* Vigenere decryption undoes encryption, for every payload and every password but the
\* empty one: VigenereEncryptStrategy.
THEOREM VigenereUndone ==
    ASSUME NEW input \in Seq(Byte), NEW word \in Seq(Byte), word # <<>>
    PROVE  VigenereDecrypt(VigenereEncrypt(input, word), word) = input
  <1> DEFINE size == LE(Len(input), W64)
             cipher == [i \in 1 .. Len(input) |-> (input[i] + KeyByte(word, i)) % Radix]
             all == size \o cipher
  <1>1. size \in Seq(Byte) /\ Len(size) = W64
    BY Len(input) \in Nat, LEBytes, RadixFacts
  <1>2. ASSUME NEW i \in 1 .. Len(input)
        PROVE  /\ cipher[i] \in Byte
               /\ (cipher[i] - KeyByte(word, i) + Radix) % Radix = input[i]
    BY AddedTakenOff, KeyBytes
  <1>3. cipher \in Seq(Byte) /\ Len(cipher) = Len(input)
    BY <1>2
  <1>4. After(all, W64) = cipher /\ Len(all) >= W64
    <2> HIDE DEF size, cipher
    <2>1. Len(cipher) \in Nat /\ W64 \in Nat /\ Len(size) = W64
      BY <1>1, <1>3, RadixFacts
    <2>2. After(size \o cipher, Len(size)) = cipher
          /\ Len(size \o cipher) = Len(size) + Len(cipher)
      BY <1>1, <1>3, AfterConcat
    <2> DEFINE n == Len(size \o cipher)
               k == Len(cipher)
    <2>3. n = W64 + k /\ k \in Nat /\ W64 \in Nat
      BY <2>1, <2>2
    <2> HIDE DEF n, k
    <2>4. n >= W64
      BY <2>3
    <2>. QED BY <2>1, <2>2, <2>4 DEF n
  <1>5. VigenereEncrypt(input, word) = all
    BY DEF VigenereEncrypt
  <1> HIDE DEF all, cipher
  <1>6. VigenereDecrypt(all, word) =
            [i \in 1 .. Len(cipher) |-> (cipher[i] - KeyByte(word, i) + Radix) % Radix]
    BY <1>4, RadixFacts DEF VigenereDecrypt
  <1>7. VigenereDecrypt(all, word) = [i \in 1 .. Len(input) |-> input[i]]
    BY <1>2, <1>3, <1>6
  <1>. QED BY <1>5, <1>7

LEMMA SeedByte == ASSUME NEW word \in Seq(Byte) PROVE seedFromPassword(word) \in Byte
  <1> DEFINE k == Len(word)
             s == [i \in 1 .. k |-> [x \in Byte |-> (x * 31 + word[i]) % Radix]]
             Body(g) == [i \in 0 .. k |->
                            IF i = 0 THEN 0 ELSE (g[i - 1] * 31 + word[i]) % Radix]
             seed == CHOOSE g : g = Body(g)
  <1>0. k \in Nat /\ 0 \in Byte
    BY RadixFacts DEF Byte
  <1>1. ASSUME NEW i \in 1 .. k, NEW x \in Byte PROVE (x * 31 + word[i]) % Radix \in Byte
    <2>0. \A j \in 1 .. k : word[j] \in Byte
      OBVIOUS
    <2> HIDE DEF k
    <2>1. word[i] \in Nat /\ x \in Nat
      BY <2>0, RadixFacts
    <2>2. x * 31 + word[i] \in Nat
      BY <2>1
    <2>. QED BY <2>2, RadixFacts
  <1>2. IsStep(s, k, Byte) /\ \A i \in 1 .. k : \A x \in Byte :
                                  s[i][x] = (x * 31 + word[i]) % Radix
    BY <1>1 DEF IsStep
  <1>3. PICK f : IsRec(f, k, Byte, 0, s)
    <2> HIDE DEF s, k
    <2>. QED BY <1>0, <1>2, Recursion
  <1>4. f = Body(f)
    <2> HIDE DEF s
    <2>1. /\ f \in [0 .. k -> Byte] /\ f[0] = 0
          /\ \A i \in 1 .. k : f[i] = s[i][f[i - 1]]
      BY <1>3 DEF IsRec
    <2>2. ASSUME NEW i \in 1 .. k PROVE f[i] = (f[i - 1] * 31 + word[i]) % Radix
      <3>1. i - 1 \in 0 .. k
        BY <1>0
      <3>2. f[i - 1] \in Byte
        BY <2>1, <3>1
      <3>. QED BY <1>2, <2>1, <3>2
    <2>3. \A i \in 0 .. k : f[i] = IF i = 0 THEN 0 ELSE (f[i - 1] * 31 + word[i]) % Radix
      BY <2>1, <2>2
    <2>. QED BY <2>1, <2>3
  <1>5. seed = Body(seed)
    BY <1>4
  <1>6. seedFromPassword(word) = seed[k]
    BY DEF seedFromPassword
  <1> HIDE DEF seed
  <1>7. DOMAIN seed = 0 .. k /\ seed = [i \in 0 .. k |-> seed[i]] /\ seed[0] = 0
    <2>1. 0 \in 0 .. k
      BY <1>0
    <2>. QED BY <1>5, <2>1
  <1>8. \A i \in 1 .. k : seed[i - 1] \in Byte => seed[i] \in Byte
    <2>1. \A i \in 1 .. k : i \in 0 .. k /\ i # 0
      OBVIOUS
    <2>. QED BY <1>1, <1>5, <2>1
  <1>9. seed \in [0 .. k -> Byte]
    <2> HIDE DEF k
    <2>. QED BY <1>0, <1>7, <1>8, Within
  <1>. QED BY <1>0, <1>6, <1>9

LEMMA StreamBytes ==
    ASSUME NEW word \in Seq(Byte), NEW n \in Nat
    PROVE  Stream(word, n) \in [0 .. n -> Byte]
  <1> DEFINE a == seedFromPassword(word)
             s == [i \in 1 .. n |-> [x \in Byte |-> next(x)]]
             Body(g) == [i \in 0 .. n |-> IF i = 0 THEN a ELSE next(g[i - 1])]
             state == CHOOSE g : g = Body(g)
  <1>0. a \in Byte
    BY SeedByte
  <1>1. ASSUME NEW x \in Byte PROVE next(x) \in Byte
    <2>1. x \in Nat /\ Mult \in Nat /\ Inc \in Nat
      BY GeneratorAssumption, RadixFacts DEF GeneratorAssumption
    <2>2. Mult * x \in Nat
      BY <2>1
    <2>3. Mult * x + Inc \in Nat
      BY <2>1, <2>2
    <2>. QED BY <2>3, RadixFacts DEF next
  <1>2. IsStep(s, n, Byte) /\ \A i \in 1 .. n : \A x \in Byte : s[i][x] = next(x)
    BY <1>1 DEF IsStep
  <1>3. PICK f : IsRec(f, n, Byte, a, s)
    <2> HIDE DEF s, a
    <2>. QED BY <1>0, <1>2, Recursion
  <1>4. f = Body(f)
    <2> HIDE DEF s, a
    <2>1. /\ f \in [0 .. n -> Byte] /\ f[0] = a
          /\ \A i \in 1 .. n : f[i] = s[i][f[i - 1]]
      BY <1>3 DEF IsRec
    <2>2. ASSUME NEW i \in 1 .. n PROVE f[i] = next(f[i - 1])
      <3>1. i - 1 \in 0 .. n
        OBVIOUS
      <3>2. f[i - 1] \in Byte
        BY <2>1, <3>1
      <3>. QED BY <1>2, <2>1, <3>2
    <2>3. \A i \in 0 .. n : f[i] = IF i = 0 THEN a ELSE next(f[i - 1])
      BY <2>1, <2>2
    <2>. QED BY <2>1, <2>3
  <1>5. state = Body(state)
    BY <1>4
  <1>6. Stream(word, n) = state
    BY DEF Stream
  <1> HIDE DEF state, a
  <1>7. DOMAIN state = 0 .. n /\ state = [i \in 0 .. n |-> state[i]] /\ state[0] = a
    <2>1. 0 \in 0 .. n
      OBVIOUS
    <2>. QED BY <1>5, <2>1
  <1>8. \A i \in 1 .. n : state[i - 1] \in Byte => state[i] \in Byte
    <2>1. \A i \in 1 .. n : i \in 0 .. n /\ i # 0
      OBVIOUS
    <2>. QED BY <1>1, <1>5, <2>1
  <1>9. state[0] \in Byte
    BY <1>0, <1>7
  <1>10. state \in [0 .. n -> Byte]
    BY <1>7, <1>8, <1>9, Within
  <1>. QED BY <1>6, <1>10

\* XOR decryption undoes encryption, for every payload and every password:
\* XorEncryptStrategy.
THEOREM XorUndone ==
    ASSUME NEW input \in Seq(Byte), NEW word \in Seq(Byte)
    PROVE  XorDecrypt(XorEncrypt(input, word), word) = input
  <1> DEFINE size == LE(Len(input), W64)
             key == Stream(word, Discard + Len(input))
             cipher == crypt(input, word)
             all == size \o cipher
  <1>0. Len(input) \in Nat /\ Discard \in Nat
    BY GeneratorAssumption DEF GeneratorAssumption
  <1>1. size \in Seq(Byte) /\ Len(size) = W64
    BY <1>0, LEBytes, RadixFacts
  <1>2. ASSUME NEW i \in 1 .. Len(input)
        PROVE  /\ Xor(input[i], key[Discard + i]) \in Byte
               /\ Xor(Xor(input[i], key[Discard + i]), key[Discard + i]) = input[i]
    <2>1. Discard + i \in 0 .. Discard + Len(input) /\ Discard + Len(input) \in Nat
      BY <1>0
    <2>2. key[Discard + i] \in Byte
      BY <2>1, StreamBytes
    <2>3. input[i] \in Byte
      OBVIOUS
    <2> HIDE DEF key
    <2>. QED BY <2>2, <2>3, XorAssumption DEF XorAssumption
  <1>3. cipher = [i \in 1 .. Len(input) |-> Xor(input[i], key[Discard + i])]
    BY DEF crypt
  <1>4. cipher \in Seq(Byte) /\ Len(cipher) = Len(input)
    BY <1>0, <1>2, <1>3
  <1> HIDE DEF key, cipher
  <1>5. After(all, W64) = cipher /\ Len(all) >= W64
    <2> HIDE DEF size
    <2>1. Len(cipher) >= 0 /\ Len(cipher) \in Nat /\ W64 \in Nat /\ Len(size) = W64
      BY <1>1, <1>4, RadixFacts
    <2>2. After(size \o cipher, Len(size)) = cipher
          /\ Len(size \o cipher) = Len(size) + Len(cipher)
      BY <1>1, <1>4, AfterConcat
    <2> DEFINE n == Len(size \o cipher)
               k == Len(cipher)
    <2>3. n = W64 + k /\ k \in Nat /\ W64 \in Nat
      BY <2>1, <2>2
    <2> HIDE DEF n, k
    <2>4. n >= W64
      BY <2>3
    <2>. QED BY <2>1, <2>2, <2>4 DEF n
  <1>6. XorEncrypt(input, word) = all
    BY DEF XorEncrypt, cipher
  <1> HIDE DEF all
  <1>7. XorDecrypt(all, word) = crypt(cipher, word)
    <2>1. Len(all) \in Int
      BY <1>5, <1>1, <1>4 DEF all
    <2>. QED BY <1>5, <2>1, RadixFacts DEF XorDecrypt
  <1>8. crypt(cipher, word) = [i \in 1 .. Len(input) |-> Xor(cipher[i], key[Discard + i])]
    BY <1>4 DEF crypt, key
  <1>9. crypt(cipher, word) = [i \in 1 .. Len(input) |-> input[i]]
    BY <1>2, <1>3, <1>8
  <1>. QED BY <1>6, <1>7, <1>9

-----------------------------------------------------------------------------
(* Sequences made of pieces from the end backwards *)

LEMMA MaxIs ==
    ASSUME NEW cap \in Nat, NEW S \in SUBSET (1 .. cap), S # {}
    PROVE  Max(S) \in S /\ \A x \in S : x <= Max(S)
  <1> DEFINE T == {k \in Nat : (\E x \in S : x >= cap - k) => \E x \in S : \A y \in S : y <= x}
  <1>1. 0 \in T
    <2>1. \A x \in S : x <= cap
      OBVIOUS
    <2>. QED BY <2>1
  <1>2. ASSUME NEW k \in Nat, k \in T PROVE k + 1 \in T
    <2> SUFFICES ASSUME NEW z \in S, z >= cap - (k + 1) PROVE \E x \in S : \A y \in S : y <= x
      OBVIOUS
    <2>1. CASE \E x \in S : x >= cap - k
      BY <1>2, <2>1
    <2>2. CASE \A x \in S : ~ x >= cap - k
      <3>1. \A y \in S : y <= z
        BY <2>2
      <3>. QED BY <3>1
    <2>. QED BY <2>1, <2>2
  <1> HIDE DEF T
  <1>3. cap \in T
    BY <1>1, <1>2, Induction
  <1>4. \E x \in S : \A y \in S : y <= x
    <2>1. \A x \in S : x >= cap - cap
      OBVIOUS
    <2>. QED BY <1>3, <2>1 DEF T
  <1>. QED BY <1>4 DEF Max

LEMMA MinIs ==
    ASSUME NEW S \in SUBSET Nat, S # {}
    PROVE  Min(S) \in S /\ \A x \in S : Min(S) <= x
  <1>1. PICK n \in S : \A m \in S : ~ (<<m, n>> \in OpToRel(<, Nat))
    BY NatLessThanWellFounded, WFMin
  <1>2. ASSUME NEW m \in S PROVE n <= m
    <2>1. m \in Nat /\ n \in Nat /\ ~ (m < n)
      BY <1>1 DEF OpToRel
    <2>. QED BY <2>1
  <1>. QED BY <1>2 DEF Min

\* From position pos comes piece h[pos], and what comes n[pos] positions on.
Pieces(h, n, lo, hi, end) ==
    \A pos \in lo .. hi : pos < end =>
        h[pos] \in Seq(Byte) /\ n[pos] \in Nat \ {0} /\ pos + n[pos] <= hi

Chain(f, h, n, lo, hi, end) ==
    /\ f \in [lo .. hi -> Seq(Byte)]
    /\ \A pos \in lo .. hi : f[pos] = IF pos >= end THEN <<>> ELSE h[pos] \o f[pos + n[pos]]

LEMMA ChainExists ==
    ASSUME NEW lo \in Nat, NEW hi \in Nat, lo <= hi, NEW end \in Nat, NEW h, NEW n,
           Pieces(h, n, lo, hi, end)
    PROVE  \E f : Chain(f, h, n, lo, hi, end)
  <1> DEFINE T == {k \in Nat : k <= hi - lo => \E f : Chain(f, h, n, hi - k, hi, end)}
  <1>0. \A pos \in lo .. hi : pos < end =>
            h[pos] \in Seq(Byte) /\ n[pos] \in Nat \ {0} /\ pos + n[pos] <= hi
    BY DEF Pieces
  <1>1. 0 \in T
    <2>1. hi >= end
      BY <1>0
    <2> DEFINE f == [pos \in hi .. hi |-> <<>>]
    <2>2. Chain(f, h, n, hi, hi, end)
      BY <2>1 DEF Chain
    <2>3. hi - 0 = hi
      OBVIOUS
    <2> HIDE DEF f
    <2>. QED BY <2>2, <2>3
  <1>2. ASSUME NEW k \in Nat, k \in T PROVE k + 1 \in T
    <2> SUFFICES ASSUME k + 1 <= hi - lo
                 PROVE  \E f : Chain(f, h, n, hi - (k + 1), hi, end)
      OBVIOUS
    <2>1. PICK f : Chain(f, h, n, hi - k, hi, end)
      BY <1>2
    <2> DEFINE p == hi - (k + 1)
               first == IF p >= end THEN <<>> ELSE h[p] \o f[p + n[p]]
               g == [pos \in p .. hi |-> IF pos = p THEN first ELSE f[pos]]
    <2>2. /\ f \in [p + 1 .. hi -> Seq(Byte)] /\ p \in lo .. hi /\ p + 1 = hi - k
          /\ \A pos \in p + 1 .. hi :
                 f[pos] = IF pos >= end THEN <<>> ELSE h[pos] \o f[pos + n[pos]]
      <3>1. p \in lo .. hi /\ p + 1 = hi - k
        OBVIOUS
      <3> HIDE DEF p
      <3>. QED BY <2>1, <3>1 DEF Chain
    <2> HIDE DEF p
    <2>3. first \in Seq(Byte)
      <3>1. CASE p >= end
        BY <3>1
      <3>2. CASE ~ p >= end
        <4>1. p < end
          BY <2>2, <3>2
        <4>2. h[p] \in Seq(Byte) /\ p + n[p] \in p + 1 .. hi
          BY <1>0, <2>2, <4>1
        <4>3. f[p + n[p]] \in Seq(Byte)
          BY <2>2, <4>2
        <4>4. h[p] \o f[p + n[p]] \in Seq(Byte)
          BY <4>2, <4>3
        <4>. QED BY <3>2, <4>4
      <3>. QED BY <3>1, <3>2
    <2> HIDE DEF first
    <2>4. g \in [p .. hi -> Seq(Byte)]
      BY <2>2, <2>3
    <2>5. ASSUME NEW pos \in p .. hi
          PROVE  g[pos] = IF pos >= end THEN <<>> ELSE h[pos] \o g[pos + n[pos]]
      <3>1. pos \in lo .. hi /\ pos \in Int /\ p \in Int
        BY <2>2
      <3>2. CASE pos >= end
        <4>1. CASE pos = p
          BY <3>2, <4>1 DEF first
        <4>2. CASE pos # p
          <5>1. pos \in p + 1 .. hi /\ g[pos] = f[pos]
            BY <3>1, <4>2
          <5>. QED BY <2>2, <3>2, <5>1
        <4>. QED BY <4>1, <4>2
      <3>3. CASE ~ pos >= end
        <4>1. pos < end
          BY <3>1, <3>3
        <4>2. pos + n[pos] \in p + 1 .. hi /\ pos + n[pos] # p
          BY <1>0, <3>1, <4>1
        <4>3. pos + n[pos] \in p .. hi
          BY <3>1, <4>2
        <4>4. g[pos + n[pos]] = f[pos + n[pos]]
          BY <4>2, <4>3
        <4>5. CASE pos = p
          BY <3>3, <4>4, <4>5 DEF first
        <4>6. CASE pos # p
          <5>1. pos \in p + 1 .. hi /\ g[pos] = f[pos]
            BY <3>1, <4>6
          <5>. QED BY <2>2, <3>3, <4>4, <5>1
        <4>. QED BY <4>5, <4>6
      <3>. QED BY <3>2, <3>3
    <2> HIDE DEF g
    <2>6. Chain(g, h, n, p, hi, end)
      BY <2>4, <2>5 DEF Chain
    <2>. QED BY <2>6 DEF p
  <1> HIDE DEF T
  <1>3. hi - lo \in T
    <2>1. hi - lo \in Nat
      OBVIOUS
    <2>. QED BY <1>1, <1>2, <2>1, Induction
  <1>4. hi - (hi - lo) = lo /\ hi - lo <= hi - lo
    OBVIOUS
  <1>. QED BY <1>3, <1>4 DEF T

\* What holds of all positions from lo to hi when it holds of each that follows others.
LEMMA Backwards ==
    ASSUME NEW lo \in Nat, NEW hi \in Nat, NEW P,
           \A pos \in lo .. hi : (\A p \in pos + 1 .. hi : p \in P) => pos \in P
    PROVE  lo .. hi \subseteq P
  <1> DEFINE T == {k \in Nat : \A p \in lo .. hi : p > hi - k => p \in P}
  <1>1. 0 \in T
    OBVIOUS
  <1>2. ASSUME NEW k \in Nat, k \in T PROVE k + 1 \in T
    <2> SUFFICES ASSUME NEW p \in lo .. hi, p > hi - (k + 1) PROVE p \in P
      OBVIOUS
    <2>1. CASE p > hi - k
      BY <1>2, <2>1
    <2>2. CASE p = hi - k
      <3>1. \A q \in p + 1 .. hi : q \in lo .. hi /\ q > hi - k
        BY <2>2
      <3>2. \A q \in p + 1 .. hi : q \in P
        BY <1>2, <3>1
      <3>. QED BY <3>2
    <2>. QED BY <2>1, <2>2
  <1> HIDE DEF T
  <1>3. hi + 1 \in T
    BY <1>1, <1>2, Induction
  <1>. QED BY <1>3 DEF T

LEMMA ChainIs ==
    ASSUME NEW lo \in Nat, NEW hi \in Nat, NEW end \in Nat, NEW h, NEW n, NEW f,
           Pieces(h, n, lo, hi, end),
           f = [pos \in lo .. hi |-> IF pos >= end THEN <<>> ELSE h[pos] \o f[pos + n[pos]]]
    PROVE  Chain(f, h, n, lo, hi, end)
  <1> DEFINE P == {pos \in lo .. hi : f[pos] \in Seq(Byte)}
  <1>1. \A pos \in lo .. hi : f[pos] = IF pos >= end THEN <<>> ELSE h[pos] \o f[pos + n[pos]]
    OBVIOUS
  <1>2. ASSUME NEW pos \in lo .. hi, \A p \in pos + 1 .. hi : p \in P PROVE pos \in P
    <2>1. CASE pos >= end
      BY <1>1, <2>1
    <2>2. CASE ~ pos >= end
      <3>1. pos < end
        BY <2>2
      <3>2. h[pos] \in Seq(Byte) /\ pos + n[pos] \in pos + 1 .. hi
        BY <3>1 DEF Pieces
      <3>3. f[pos + n[pos]] \in Seq(Byte)
        BY <1>2, <3>2
      <3>4. h[pos] \o f[pos + n[pos]] \in Seq(Byte)
        BY <3>2, <3>3
      <3>5. f[pos] = h[pos] \o f[pos + n[pos]]
        BY <1>1, <2>2
      <3>. QED BY <3>4, <3>5
    <2>. QED BY <2>1, <2>2
  <1>3. lo .. hi \subseteq P
    <2> HIDE DEF P
    <2>. QED BY <1>2, Backwards
  <1>4. f \in [lo .. hi -> Seq(Byte)]
    BY <1>3
  <1>. QED BY <1>1, <1>4 DEF Chain

-----------------------------------------------------------------------------
(* Cutting sequences *)

LEMMA SliceIs ==
    ASSUME NEW b \in Seq(Byte), NEW off \in Nat, NEW n \in Nat, off + n <= Len(b)
    PROVE  /\ Slice(b, off, n) \in Seq(Byte) /\ Len(Slice(b, off, n)) = n
           /\ \A i \in 1 .. n : Slice(b, off, n)[i] = b[off + i]
           /\ Slice(b, off, n) = [i \in 1 .. n |-> b[off + i]]
  <1>1. \A i \in 1 .. n : off + i \in 1 .. Len(b)
    OBVIOUS
  <1>2. Slice(b, off, n) = [i \in 1 .. n |-> b[off + i]]
    BY <1>1 DEF Slice
  <1>3. \A i \in 1 .. n : b[off + i] \in Byte
    BY <1>1
  <1>. QED BY <1>2, <1>3

LEMMA AfterIs ==
    ASSUME NEW b \in Seq(Byte), NEW off \in 0 .. Len(b)
    PROVE  /\ After(b, off) \in Seq(Byte) /\ Len(After(b, off)) = Len(b) - off
           /\ \A i \in 1 .. Len(b) - off : After(b, off)[i] = b[off + i]
  <1>1. off + 1 \in 1 .. Len(b) + 1 /\ Len(b) \in Nat
    OBVIOUS
  <1>. QED BY <1>1 DEF After

LEMMA SameBytes ==
    ASSUME NEW a \in Seq(Byte), NEW b \in Seq(Byte), Len(a) = Len(b),
           \A i \in 1 .. Len(a) : a[i] = b[i]
    PROVE  a = b
  OBVIOUS

LEMMA Concatenated ==
    ASSUME NEW a \in Seq(Byte), NEW b \in Seq(Byte)
    PROVE  /\ a \o b \in Seq(Byte) /\ Len(a \o b) = Len(a) + Len(b)
           /\ Len(a) \in Nat /\ Len(b) \in Nat
           /\ \A i \in 1 .. Len(a) : (a \o b)[i] = a[i]
           /\ \A i \in 1 .. Len(b) : (a \o b)[Len(a) + i] = b[i]
  OBVIOUS

\* A piece, and what comes after it.
LEMMA SliceAfter ==
    ASSUME NEW b \in Seq(Byte), NEW off \in Nat, NEW n \in Nat, off + n <= Len(b)
    PROVE  After(b, off) = Slice(b, off, n) \o After(b, off + n)
  <1> DEFINE x == Slice(b, off, n)
             y == After(b, off + n)
             z == After(b, off)
  <1>1. x \in Seq(Byte) /\ Len(x) = n /\ \A i \in 1 .. n : x[i] = b[off + i]
    BY SliceIs
  <1>2. y \in Seq(Byte) /\ Len(y) = Len(b) - (off + n)
        /\ \A i \in 1 .. Len(b) - (off + n) : y[i] = b[off + n + i]
    <2>1. off + n \in 0 .. Len(b)
      OBVIOUS
    <2>. QED BY <2>1, AfterIs
  <1>3. z \in Seq(Byte) /\ Len(z) = Len(b) - off
        /\ \A i \in 1 .. Len(b) - off : z[i] = b[off + i]
    <2>1. off \in 0 .. Len(b)
      OBVIOUS
    <2>. QED BY <2>1, AfterIs
  <1> HIDE DEF x, y, z
  <1>0. x \o y \in Seq(Byte) /\ Len(x \o y) = Len(x) + Len(y) /\ Len(b) \in Nat
    <2>1. Len(b) \in Nat
      OBVIOUS
    <2>. QED BY <1>1, <1>2, <2>1, Concatenated
  <1>4. Len(x \o y) = Len(b) - off
    BY <1>0, <1>1, <1>2
  <1>7. /\ \A i \in 1 .. n : (x \o y)[i] = x[i]
        /\ \A i \in 1 .. Len(b) - (off + n) : (x \o y)[n + i] = y[i]
    BY <1>1, <1>2, Concatenated
  <1>5. ASSUME NEW i \in 1 .. Len(b) - off PROVE (x \o y)[i] = b[off + i]
    <2>1. CASE i <= n
      <3>1. i \in 1 .. n
        BY <2>1
      <3>. QED BY <1>1, <1>7, <3>1
    <2>2. CASE i > n
      <3>1. /\ i - n \in 1 .. Len(b) - (off + n) /\ off + n + (i - n) = off + i
            /\ n + (i - n) = i
        BY <1>0, <2>2
      <3>2. (x \o y)[i] = y[i - n]
        BY <1>7, <3>1
      <3>. QED BY <1>2, <3>1, <3>2
    <2>3. i <= n \/ i > n
      BY <1>0
    <2>. QED BY <2>1, <2>2, <2>3
  <1>6. z = x \o y
    BY <1>0, <1>3, <1>4, <1>5, SameBytes
  <1>. QED BY <1>6 DEF x, y, z

\* From off a sequence goes on with x and then y.
GoesOn(b, off, x, y) == After(b, off) = x \o y

LEMMA ReadsOn ==
    ASSUME NEW b \in Seq(Byte), NEW off \in 0 .. Len(b), NEW x \in Seq(Byte),
           NEW y \in Seq(Byte), GoesOn(b, off, x, y)
    PROVE  /\ off + Len(x) \in 0 .. Len(b) /\ After(b, off + Len(x)) = y
           /\ \A i \in 1 .. Len(x) : b[off + i] = x[i]
           /\ Slice(b, off, Len(x)) = x
  <1> DEFINE z == After(b, off)
             n == Len(x)
  <1>1. z \in Seq(Byte) /\ Len(z) = Len(b) - off
        /\ \A i \in 1 .. Len(b) - off : z[i] = b[off + i]
    BY AfterIs
  <1>2. /\ Len(x \o y) = n + Len(y) /\ n \in Nat /\ Len(y) \in Nat /\ Len(b) \in Nat
        /\ \A i \in 1 .. n : (x \o y)[i] = x[i]
        /\ \A i \in 1 .. Len(y) : (x \o y)[n + i] = y[i]
    OBVIOUS
  <1>3. z = x \o y
    BY DEF GoesOn
  <1> HIDE DEF z, n
  <1>4. off + n \in 0 .. Len(b) /\ Len(b) - off = n + Len(y)
    <2>1. Len(b) - off = n + Len(y)
      BY <1>1, <1>2, <1>3
    <2>. QED BY <1>2, <2>1
  <1>5. \A i \in 1 .. n : b[off + i] = x[i]
    <2>1. \A i \in 1 .. n : i \in 1 .. Len(b) - off
      BY <1>2, <1>4
    <2>. QED BY <1>1, <1>2, <1>3, <2>1
  <1>6. After(b, off + n) = y
    <2>1. After(b, off + n) \in Seq(Byte) /\ Len(After(b, off + n)) = Len(b) - (off + n)
          /\ \A i \in 1 .. Len(b) - (off + n) : After(b, off + n)[i] = b[off + n + i]
      BY <1>4, AfterIs
    <2>2. ASSUME NEW i \in 1 .. Len(y) PROVE b[off + n + i] = y[i]
      <3>1. n + i \in 1 .. Len(b) - off /\ off + (n + i) = off + n + i
        BY <1>2, <1>4
      <3>. QED BY <1>1, <1>2, <1>3, <3>1
    <2>3. Len(b) - (off + n) = Len(y)
      BY <1>2, <1>4
    <2>. QED BY <2>1, <2>2, <2>3, SameBytes
  <1>7. Slice(b, off, n) = x
    <2>1. Slice(b, off, n) \in Seq(Byte) /\ Len(Slice(b, off, n)) = n
          /\ \A i \in 1 .. n : Slice(b, off, n)[i] = b[off + i]
      <3>1. off \in Nat /\ off + n <= Len(b)
        BY <1>4
      <3>. QED BY <1>2, <3>1, SliceIs
    <2>. QED BY <1>2, <1>5, <2>1, SameBytes DEF n
  <1>. QED BY <1>4, <1>5, <1>6, <1>7 DEF n

-----------------------------------------------------------------------------
(* The run-length code *)

\* Half a byte's values, at least one.
LEMMA BlockFacts ==
    /\ MaxBlock \in Nat \ {0} /\ MaxBlock + MaxBlock <= Radix
    /\ \A c \in 1 .. MaxBlock : ((c - 1) % MaxBlock) + 1 = c /\ ((MaxBlock + c - 1) % MaxBlock) + 1 = c
  <1>1. Radix \in Nat /\ Radix >= 2
    BY RadixFacts, PackingAssumption DEF PackingAssumption
  <1>2. MaxBlock \in Nat \ {0} /\ MaxBlock + MaxBlock <= Radix
    BY <1>1 DEF MaxBlock
  <1> DEFINE M == MaxBlock
  <1> HIDE DEF M
  <1>3. ASSUME NEW c \in 1 .. M
        PROVE  ((c - 1) % M) + 1 = c /\ ((M + c - 1) % M) + 1 = c
    <2>1. M \in Nat \ {0} /\ c - 1 \in 0 .. M - 1
      BY <1>2 DEF M
    <2>2. (c - 1) % M = c - 1
      BY <2>1
    <2>3. (M + c - 1) % M = c - 1
      <3>1. M + c - 1 = 1 * M + (c - 1)
        BY <2>1
      <3>. QED BY <2>1, <3>1
    <2>. QED BY <2>1, <2>2, <2>3
  <1>. QED BY <1>2, <1>3 DEF M

LEMMA InByte ==
    ASSUME NEW c \in 1 .. MaxBlock
    PROVE  c - 1 \in Byte /\ MaxBlock + c - 1 \in Byte
  <1> DEFINE M == MaxBlock
  <1>1. M \in Nat \ {0} /\ M + M <= Radix /\ Radix \in Nat
    BY BlockFacts, RadixFacts
  <1>2. c \in 1 .. M
    OBVIOUS
  <1> HIDE DEF M
  <1>3. c - 1 \in 0 .. Radix - 1 /\ M + c - 1 \in 0 .. Radix - 1
    BY <1>1, <1>2
  <1>. QED BY <1>3 DEF Byte, M

LEMMA RunIs ==
    ASSUME NEW input \in Seq(Byte), NEW pos \in Nat, pos < Len(input), NEW cap \in Nat \ {0}
    PROVE  /\ Run(input, pos, cap) \in 1 .. cap /\ pos + Run(input, pos, cap) <= Len(input)
           /\ \A j \in 1 .. Run(input, pos, cap) : input[pos + j] = input[pos + 1]
  <1> DEFINE S == {k \in 1 .. cap :
                      pos + k <= Len(input) /\ \A j \in 1 .. k : input[pos + j] = input[pos + 1]}
  <1>1. 1 \in S
    <2>1. \A j \in 1 .. 1 : j = 1
      OBVIOUS
    <2>. QED BY <2>1
  <1>2. S \in SUBSET (1 .. cap)
    OBVIOUS
  <1>3. Max(S) \in S
    <2> HIDE DEF S
    <2>. QED BY <1>1, <1>2, MaxIs
  <1>. QED BY <1>3 DEF Run

LEMMA LiteralIs ==
    ASSUME NEW input \in Seq(Byte), NEW pos \in Nat, pos < Len(input)
    PROVE  Literal(input, pos) \in 1 .. MaxBlock /\ pos + Literal(input, pos) <= Len(input)
  <1> DEFINE S == {k \in 1 .. MaxBlock :
                      \/ pos + k >= Len(input) \/ k = MaxBlock
                      \/ Run(input, pos + k, 3) >= 3}
  <1>1. MaxBlock \in S /\ S \in SUBSET Nat /\ Literal(input, pos) = Min(S)
    BY BlockFacts DEF Literal
  <1>2. \A k \in 1 .. MaxBlock : pos + k >= Len(input) => k \in S
    OBVIOUS
  <1>3. S \subseteq 1 .. MaxBlock
    OBVIOUS
  <1> HIDE DEF S
  <1>4. Min(S) \in S /\ \A x \in S : Min(S) <= x
    BY <1>1, MinIs
  <1>5. pos + Min(S) <= Len(input)
    <2> DEFINE rest == Len(input) - pos
    <2>1. rest \in Nat \ {0} /\ pos + rest = Len(input) /\ Min(S) \in Nat
      <3>1. Len(input) \in Nat
        OBVIOUS
      <3>2. Min(S) \in Nat
        BY <1>1, <1>4
      <3>. QED BY <3>1, <3>2
    <2> HIDE DEF rest
    <2>2. CASE rest <= MaxBlock
      <3>1. rest \in S
        BY <1>2, <2>1, <2>2, BlockFacts
      <3>. QED BY <1>4, <2>1, <3>1
    <2>3. CASE ~ rest <= MaxBlock
      BY <1>3, <1>4, <2>1, <2>3, BlockFacts
    <2>. QED BY <2>2, <2>3
  <1>. QED BY <1>1, <1>3, <1>4, <1>5

\* The blocks of a payload: the one at pos, and how much it covers.
BlockAt(input, pos) ==
    LET run == Run(input, pos, MaxBlock) lit == Literal(input, pos) IN
    IF run < 3 THEN <<lit - 1>> \o Slice(input, pos, lit)
    ELSE <<MaxBlock + run - 1, input[pos + 1]>>

Covers(input, pos) ==
    IF Run(input, pos, MaxBlock) < 3 THEN Literal(input, pos) ELSE Run(input, pos, MaxBlock)

Blocks(input, B) ==
    LET k == Len(input) IN
    /\ B \in [0 .. k -> Seq(Byte)] /\ B[k] = <<>>
    /\ \A pos \in 0 .. k - 1 : B[pos] = BlockAt(input, pos) \o B[pos + Covers(input, pos)]

LEMMA BlockIs ==
    ASSUME NEW input \in Seq(Byte), NEW pos \in 0 .. Len(input) - 1
    PROVE  /\ BlockAt(input, pos) \in Seq(Byte) /\ Covers(input, pos) \in 1 .. MaxBlock
           /\ pos + Covers(input, pos) <= Len(input)
  <1>0. pos \in Nat /\ pos < Len(input) /\ Len(input) \in Nat
    OBVIOUS
  <1>1. Literal(input, pos) \in 1 .. MaxBlock /\ pos + Literal(input, pos) <= Len(input)
    BY <1>0, LiteralIs
  <1>2. /\ Run(input, pos, MaxBlock) \in 1 .. MaxBlock
        /\ pos + Run(input, pos, MaxBlock) <= Len(input)
    BY <1>0, BlockFacts, RunIs
  <1>3. Covers(input, pos) \in 1 .. MaxBlock /\ pos + Covers(input, pos) <= Len(input)
    BY <1>1, <1>2 DEF Covers
  <1>4. CASE Run(input, pos, MaxBlock) < 3
    <2>1. Slice(input, pos, Literal(input, pos)) \in Seq(Byte)
      BY <1>0, <1>1, SliceIs
    <2>2. Literal(input, pos) - 1 \in Byte
      BY <1>1, InByte
    <2>3. <<Literal(input, pos) - 1>> \in Seq(Byte)
      BY <2>2
    <2>4. BlockAt(input, pos) = <<Literal(input, pos) - 1>> \o Slice(input, pos, Literal(input, pos))
      BY <1>4 DEF BlockAt
    <2>. QED BY <1>3, <2>1, <2>3, <2>4, Concatenated
  <1>5. CASE ~ Run(input, pos, MaxBlock) < 3
    <2>1. MaxBlock + Run(input, pos, MaxBlock) - 1 \in Byte
      BY <1>2, InByte
    <2>2. input[pos + 1] \in Byte
      BY <1>0
    <2>3. BlockAt(input, pos) = <<MaxBlock + Run(input, pos, MaxBlock) - 1, input[pos + 1]>>
      BY <1>5 DEF BlockAt
    <2>. QED BY <1>3, <2>1, <2>2, <2>3
  <1>. QED BY <1>4, <1>5

LEMMA BlocksOf ==
    ASSUME NEW input \in Seq(Byte)
    PROVE  \E B : Blocks(input, B) /\ RleCompress(input) = LE(Len(input), W64) \o B[0]
  <1> DEFINE k == Len(input)
             Body(g) == [pos \in 0 .. k |->
                 IF pos = k THEN <<>>
                 ELSE LET run == Run(input, pos, MaxBlock) lit == Literal(input, pos) IN
                      IF run < 3
                      THEN <<lit - 1>> \o Slice(input, pos, lit) \o g[pos + lit]
                      ELSE <<MaxBlock + run - 1, input[pos + 1]>> \o g[pos + run]]
             Plain(g) == [pos \in 0 .. k |->
                 IF pos >= k THEN <<>> ELSE BlockAt(input, pos) \o g[pos + Covers(input, pos)]]
             block == CHOOSE g : g = Body(g)
             h == [pos \in 0 .. k |-> BlockAt(input, pos)]
             n == [pos \in 0 .. k |-> Covers(input, pos)]
  <1>0. k \in Nat
    OBVIOUS
  <1>1. ASSUME NEW g PROVE Body(g) = Plain(g)
    <2>1. ASSUME NEW pos \in 0 .. k PROVE Body(g)[pos] = Plain(g)[pos]
      BY <1>0 DEF BlockAt, Covers
    <2>. QED BY <2>1
  <1>2. Pieces(h, n, 0, k, k)
    <2> SUFFICES ASSUME NEW pos \in 0 .. k, pos < k
                 PROVE  h[pos] \in Seq(Byte) /\ n[pos] \in Nat \ {0} /\ pos + n[pos] <= k
      BY DEF Pieces
    <2>1. pos \in 0 .. k - 1
      BY <1>0
    <2>. QED BY <2>1, BlockIs, BlockFacts
  <1>3. \A pos \in 0 .. k : h[pos] = BlockAt(input, pos) /\ n[pos] = Covers(input, pos)
    OBVIOUS
  <1> HIDE DEF h, n
  <1>4. PICK f : Chain(f, h, n, 0, k, k)
    <2> HIDE DEF k
    <2>. QED BY <1>0, <1>2, ChainExists
  <1>5. f = Plain(f)
    <2>1. f \in [0 .. k -> Seq(Byte)] /\ \A pos \in 0 .. k :
              f[pos] = IF pos >= k THEN <<>> ELSE h[pos] \o f[pos + n[pos]]
      BY <1>4 DEF Chain
    <2>2. \A pos \in 0 .. k :
              f[pos] = IF pos >= k THEN <<>> ELSE BlockAt(input, pos) \o f[pos + Covers(input, pos)]
      BY <1>3, <2>1
    <2>. QED BY <2>1, <2>2
  <1>6. block = Body(block)
    <2>1. f = Body(f)
      BY <1>1, <1>5
    <2> HIDE DEF Body, Plain
    <2>. QED BY <2>1
  <1>7. block = Plain(block)
    <2> HIDE DEF Body, Plain
    <2>. QED BY <1>1, <1>6
  <1>8. RleCompress(input) = LE(Len(input), W64) \o block[0]
    BY DEF RleCompress
  <1> HIDE DEF block, Body
  <1>9. block = [pos \in 0 .. k |-> IF pos >= k THEN <<>> ELSE h[pos] \o block[pos + n[pos]]]
    BY <1>3, <1>7
  <1>10. Chain(block, h, n, 0, k, k)
    <2> HIDE DEF k, Plain
    <2>. QED BY <1>0, <1>2, <1>9, ChainIs
  <1>11. Blocks(input, block)
    <2>1. /\ block \in [0 .. k -> Seq(Byte)]
          /\ \A pos \in 0 .. k :
                 block[pos] = IF pos >= k THEN <<>> ELSE h[pos] \o block[pos + n[pos]]
      BY <1>10 DEF Chain
    <2>2. block[k] = <<>>
      BY <1>0, <2>1
    <2>3. \A pos \in 0 .. k - 1 :
              block[pos] = BlockAt(input, pos) \o block[pos + Covers(input, pos)]
      <3>1. \A pos \in 0 .. k - 1 : pos \in 0 .. k /\ ~ pos >= k
        BY <1>0
      <3>. QED BY <1>3, <2>1, <3>1
    <2>. QED BY <2>1, <2>2, <2>3 DEF Blocks
  <1>. QED BY <1>8, <1>11

\* What is expanded from position pos, and how far it is read: RleDecompress.
Expanded(c, pos) ==
    LET ctrl == c[pos + 1] count == (ctrl % MaxBlock) + 1 IN
    IF ctrl < MaxBlock THEN SubSeq(c, pos + 2, Min({pos + 1 + count, Len(c)}))
    ELSE IF pos + 1 = Len(c) THEN <<>> ELSE [i \in 1 .. count |-> c[pos + 2]]

Reads(c, pos) ==
    LET ctrl == c[pos + 1] count == (ctrl % MaxBlock) + 1 IN
    IF ctrl < MaxBlock THEN 1 + count ELSE IF pos + 1 = Len(c) THEN 1 ELSE 2

Tails(c, T) ==
    /\ T \in [W64 .. Len(c) + Radix -> Seq(Byte)]
    /\ \A pos \in W64 .. Len(c) + Radix :
           T[pos] = IF pos >= Len(c) THEN <<>> ELSE Expanded(c, pos) \o T[pos + Reads(c, pos)]

LEMMA MinOfTwo ==
    ASSUME NEW a \in Nat, NEW b \in Nat
    PROVE  Min({a, b}) \in {a, b} /\ Min({a, b}) <= a /\ Min({a, b}) <= b
  <1> DEFINE S == {a, b}
  <1>1. S \in SUBSET Nat /\ S # {} /\ a \in S /\ b \in S
    OBVIOUS
  <1> HIDE DEF S
  <1>2. Min(S) \in S /\ \A x \in S : Min(S) <= x
    BY <1>1, MinIs
  <1>. QED BY <1>1, <1>2 DEF S

LEMMA ExpandedIs ==
    ASSUME NEW c \in Seq(Byte), NEW pos \in Nat, pos < Len(c)
    PROVE  /\ Expanded(c, pos) \in Seq(Byte) /\ Reads(c, pos) \in Nat \ {0}
           /\ pos + Reads(c, pos) <= Len(c) + Radix
  <1> DEFINE ctrl == c[pos + 1]
             count == (ctrl % MaxBlock) + 1
             end == Len(c)
  <1>0. /\ MaxBlock \in Nat \ {0} /\ MaxBlock + MaxBlock <= Radix /\ Radix \in Nat
        /\ end \in Nat /\ pos + 1 \in 1 .. end
    <2>1. end \in Nat /\ pos < end
      OBVIOUS
    <2> HIDE DEF end
    <2>. QED BY <2>1, BlockFacts, RadixFacts
  <1>1. ctrl \in Byte /\ \A i \in 1 .. end : c[i] \in Byte
    BY <1>0
  <1>2. count \in 1 .. MaxBlock
    <2>1. ctrl \in Nat
      BY <1>1, RadixFacts
    <2> HIDE DEF ctrl
    <2>. QED BY <1>0, <2>1
  <1>3. CASE ctrl < MaxBlock
    <2> DEFINE m == Min({pos + 1 + count, end})
    <2>1. m \in {pos + 1 + count, end} /\ m <= end
      <3>1. pos + 1 + count \in Nat
        BY <1>0, <1>2
      <3> HIDE DEF count, end
      <3>. QED BY <1>0, <3>1, MinOfTwo
    <2>2. m \in pos + 1 .. end
      BY <1>0, <1>2, <2>1
    <2>3. Expanded(c, pos) = SubSeq(c, pos + 2, m) /\ Reads(c, pos) = 1 + count
      BY <1>3 DEF Expanded, Reads
    <2> HIDE DEF m
    <2>4. SubSeq(c, pos + 2, m) \in Seq(Byte)
      BY <1>0, <2>2
    <2>. QED BY <1>0, <1>2, <2>3, <2>4
  <1>4. CASE ~ ctrl < MaxBlock /\ pos + 1 = end
    <2>1. Expanded(c, pos) = <<>> /\ Reads(c, pos) = 1
      BY <1>4 DEF Expanded, Reads
    <2>. QED BY <1>0, <2>1
  <1>5. CASE ~ ctrl < MaxBlock /\ pos + 1 # end
    <2>1. Expanded(c, pos) = [i \in 1 .. count |-> c[pos + 2]] /\ Reads(c, pos) = 2
      BY <1>5 DEF Expanded, Reads
    <2>2. c[pos + 2] \in Byte
      BY <1>0, <1>1, <1>5
    <2>3. [i \in 1 .. count |-> c[pos + 2]] \in Seq(Byte)
      <3>1. count \in Nat
        BY <1>0, <1>2
      <3> HIDE DEF count
      <3>. QED BY <2>2, <3>1
    <2>4. pos + 2 <= end + Radix
      BY <1>0
    <2>. QED BY <2>1, <2>3, <2>4
  <1>. QED BY <1>3, <1>4, <1>5

LEMMA TailsOf ==
    ASSUME NEW c \in Seq(Byte), Len(c) >= W64
    PROVE  \E T : /\ Tails(c, T)
                  /\ RleDecompress(c) =
                         SubSeq(T[W64], 1, Min({Num(Slice(c, 0, W64)), Len(T[W64])}))
  <1> DEFINE end == Len(c)
             hi == end + Radix
             Body(g) == [pos \in W64 .. hi |->
                 IF pos >= end THEN <<>>
                 ELSE LET ctrl == c[pos + 1] count == (ctrl % MaxBlock) + 1 IN
                      IF ctrl < MaxBlock
                      THEN SubSeq(c, pos + 2, Min({pos + 1 + count, end}))
                           \o g[pos + 1 + count]
                      ELSE IF pos + 1 = end THEN <<>>
                           ELSE [i \in 1 .. count |-> c[pos + 2]] \o g[pos + 2]]
             Plain(g) == [pos \in W64 .. hi |->
                 IF pos >= end THEN <<>> ELSE Expanded(c, pos) \o g[pos + Reads(c, pos)]]
             tail == CHOOSE g : g = Body(g)
             h == [pos \in W64 .. hi |-> Expanded(c, pos)]
             n == [pos \in W64 .. hi |-> Reads(c, pos)]
  <1>0. end \in Nat /\ W64 \in Nat /\ Radix \in Nat \ {0} /\ hi \in Nat /\ W64 <= hi
        /\ end \in W64 .. hi
    <2>1. end \in Nat /\ W64 <= end
      OBVIOUS
    <2> HIDE DEF end
    <2>. QED BY <2>1, RadixFacts
  <1>1. ASSUME NEW g, g[end] = <<>> PROVE Body(g) = Plain(g)
    <2>0. <<>> \o <<>> = <<>>
      OBVIOUS
    <2>1. ASSUME NEW pos \in W64 .. hi PROVE Body(g)[pos] = Plain(g)[pos]
      <3> DEFINE ctrl == c[pos + 1]
                 count == (ctrl % MaxBlock) + 1
      <3>1. CASE pos >= end
        BY <3>1
      <3>2. CASE ~ pos >= end /\ ctrl < MaxBlock
        <4>1. Expanded(c, pos) = SubSeq(c, pos + 2, Min({pos + 1 + count, end}))
              /\ Reads(c, pos) = 1 + count
          BY <3>2 DEF Expanded, Reads
        <4>2. pos + (1 + count) = pos + 1 + count
          <5>1. ctrl \in Byte
            BY <1>0, <3>2
          <5>2. ctrl \in Nat
            BY <5>1, RadixFacts
          <5> HIDE DEF ctrl
          <5>3. count \in Nat
            BY <5>2, BlockFacts
          <5> HIDE DEF count
          <5>. QED BY <1>0, <5>3
        <4>. QED BY <3>2, <4>1, <4>2
      <3>3. CASE ~ pos >= end /\ ~ ctrl < MaxBlock /\ pos + 1 = end
        <4>1. Expanded(c, pos) = <<>> /\ Reads(c, pos) = 1
          BY <3>3 DEF Expanded, Reads
        <4>. QED BY <1>1, <2>0, <3>3, <4>1
      <3>4. CASE ~ pos >= end /\ ~ ctrl < MaxBlock /\ pos + 1 # end
        <4>1. Expanded(c, pos) = [i \in 1 .. count |-> c[pos + 2]] /\ Reads(c, pos) = 2
          BY <3>4 DEF Expanded, Reads
        <4>. QED BY <3>4, <4>1
      <3>. QED BY <3>1, <3>2, <3>3, <3>4
    <2> HIDE DEF hi
    <2>. QED BY <2>1
  <1>2. Pieces(h, n, W64, hi, end)
    <2> SUFFICES ASSUME NEW pos \in W64 .. hi, pos < end
                 PROVE  h[pos] \in Seq(Byte) /\ n[pos] \in Nat \ {0} /\ pos + n[pos] <= hi
      BY DEF Pieces
    <2>. QED BY <1>0, ExpandedIs
  <1>3. \A pos \in W64 .. hi : h[pos] = Expanded(c, pos) /\ n[pos] = Reads(c, pos)
    OBVIOUS
  <1> HIDE DEF h, n
  <1>4. PICK f : Chain(f, h, n, W64, hi, end)
    <2> HIDE DEF end, hi
    <2>. QED BY <1>0, <1>2, ChainExists
  <1>5. f = Plain(f) /\ f[end] = <<>>
    <2>1. f \in [W64 .. hi -> Seq(Byte)] /\ \A pos \in W64 .. hi :
              f[pos] = IF pos >= end THEN <<>> ELSE h[pos] \o f[pos + n[pos]]
      BY <1>4 DEF Chain
    <2>2. \A pos \in W64 .. hi :
              f[pos] = IF pos >= end THEN <<>> ELSE Expanded(c, pos) \o f[pos + Reads(c, pos)]
      BY <1>3, <2>1
    <2>3. f[end] = <<>>
      <3>1. end >= end
        BY <1>0
      <3> HIDE DEF end, hi
      <3>. QED BY <1>0, <2>1, <3>1
    <2>. QED BY <2>1, <2>2, <2>3
  <1>6. tail = Body(tail)
    <2>1. f = Body(f)
      <3>1. Body(f) = Plain(f)
        BY <1>1, <1>5
      <3> HIDE DEF Body, Plain
      <3>. QED BY <1>5, <3>1
    <2> HIDE DEF Body
    <2>. QED BY <2>1
  <1>7. Body(tail)[end] = <<>>
    <2> HIDE DEF tail
    <2>. QED BY <1>0
  <1>8. tail = Plain(tail)
    <2> HIDE DEF tail
    <2>1. tail[end] = <<>>
      <3> HIDE DEF Body
      <3>. QED BY <1>6, <1>7
    <2>2. Body(tail) = Plain(tail)
      BY <1>1, <2>1
    <2> HIDE DEF Body, Plain
    <2>. QED BY <1>6, <2>2
  <1>9. RleDecompress(c) = SubSeq(tail[W64], 1, Min({Num(Slice(c, 0, W64)), Len(tail[W64])}))
    <2>1. ~ Len(c) < W64
      BY <1>0
    <2>. QED BY <2>1 DEF RleDecompress
  <1> HIDE DEF tail, Body
  <1>10. tail = [pos \in W64 .. hi |-> IF pos >= end THEN <<>> ELSE h[pos] \o tail[pos + n[pos]]]
    BY <1>3, <1>8
  <1>11. Chain(tail, h, n, W64, hi, end)
    <2> HIDE DEF end, hi, Plain
    <2>. QED BY <1>0, <1>2, <1>10, ChainIs
  <1>12. Tails(c, tail)
    <2>1. /\ tail \in [W64 .. hi -> Seq(Byte)]
          /\ \A pos \in W64 .. hi :
                 tail[pos] = IF pos >= end THEN <<>> ELSE h[pos] \o tail[pos + n[pos]]
      BY <1>11 DEF Chain
    <2>. QED BY <1>3, <2>1 DEF Tails
  <1>. QED BY <1>9, <1>12

\* What is expanded of one block, and that as much is read as was written.
LEMMA BlockUndone ==
    ASSUME NEW input \in Seq(Byte), NEW pos \in 0 .. Len(input) - 1, NEW c \in Seq(Byte),
           NEW q \in 0 .. Len(c), NEW y \in Seq(Byte),
           After(c, q) = BlockAt(input, pos) \o y
    PROVE  /\ q < Len(c) /\ q + Reads(c, q) \in 0 .. Len(c)
           /\ After(c, q + Reads(c, q)) = y
           /\ Expanded(c, q) = Slice(input, pos, Covers(input, pos))
  <1> DEFINE x == BlockAt(input, pos)
             run == Run(input, pos, MaxBlock)
             lit == Literal(input, pos)
             end == Len(c)
  <1>0. /\ pos \in Nat /\ pos < Len(input) /\ Len(input) \in Nat /\ end \in Nat /\ q \in 0 .. end
        /\ MaxBlock \in Nat \ {0}
    BY BlockFacts
  <1>1. x \in Seq(Byte)
    BY BlockIs
  <1>2. /\ q + Len(x) \in 0 .. end /\ After(c, q + Len(x)) = y
        /\ \A i \in 1 .. Len(x) : c[q + i] = x[i]
    <2> HIDE DEF x
    <2>1. GoesOn(c, q, x, y)
      BY DEF GoesOn, x
    <2>2. /\ q + Len(x) \in 0 .. Len(c) /\ After(c, q + Len(x)) = y
          /\ \A i \in 1 .. Len(x) : c[q + i] = x[i]
      BY <1>1, <2>1, ReadsOn
    <2>. QED BY <2>2
  <1>3. lit \in 1 .. MaxBlock /\ pos + lit <= Len(input)
    BY <1>0, LiteralIs
  <1>4. /\ run \in 1 .. MaxBlock /\ pos + run <= Len(input)
        /\ \A j \in 1 .. run : input[pos + j] = input[pos + 1]
    BY <1>0, RunIs
  <1>5. CASE run < 3
    <2> DEFINE s == Slice(input, pos, lit)
               ctrl == c[q + 1]
    <2>1. s \in Seq(Byte) /\ Len(s) = lit
      BY <1>0, <1>3, SliceIs
    <2>2. x = <<lit - 1>> \o s /\ Covers(input, pos) = lit
      BY <1>5 DEF BlockAt, Covers
    <2> HIDE DEF x, s, lit, run
    <2>3. /\ Len(x) = 1 + lit /\ x[1] = lit - 1
          /\ \A i \in 1 .. lit : x[1 + i] = s[i]
      <3>1. <<lit - 1>> \in Seq(Byte) /\ Len(<<lit - 1>>) = 1 /\ <<lit - 1>>[1] = lit - 1
        <4>1. lit - 1 \in Byte
          BY <1>3, InByte
        <4>. QED BY <4>1
      <3> DEFINE w == <<lit - 1>>
      <3> HIDE DEF w
      <3>2. /\ Len(w \o s) = 1 + lit /\ (w \o s)[1] = lit - 1
            /\ \A i \in 1 .. lit : (w \o s)[1 + i] = s[i]
        <4>1. w \in Seq(Byte) /\ Len(w) = 1 /\ w[1] = lit - 1
          BY <3>1 DEF w
        <4>2. /\ Len(w \o s) = Len(w) + Len(s)
              /\ \A i \in 1 .. Len(w) : (w \o s)[i] = w[i]
              /\ \A i \in 1 .. Len(s) : (w \o s)[Len(w) + i] = s[i]
          BY <2>1, <4>1, Concatenated
        <4>3. 1 \in 1 .. 1
          OBVIOUS
        <4>. QED BY <2>1, <4>1, <4>2, <4>3
      <3>. QED BY <2>2, <3>2 DEF w
    <2>4. ctrl = lit - 1 /\ ctrl < MaxBlock /\ (ctrl % MaxBlock) + 1 = lit
      <3>1. ctrl = lit - 1
        BY <1>2, <1>3, <2>3
      <3>2. lit - 1 < MaxBlock
        BY <1>0, <1>3
      <3>3. ((lit - 1) % MaxBlock) + 1 = lit
        BY <1>3, BlockFacts
      <3>. QED BY <3>1, <3>2, <3>3
    <2>5. Reads(c, q) = 1 + lit
      BY <2>4 DEF Reads
    <2>6. q + 1 + lit \in 0 .. end /\ q < end
      BY <1>0, <1>2, <1>3, <2>3
    <2>7. Min({q + 1 + lit, end}) = q + 1 + lit
      <3> DEFINE m == Min({q + 1 + lit, end})
      <3>1. m \in {q + 1 + lit, end} /\ m <= q + 1 + lit /\ m <= end
        <4>1. q + 1 + lit \in Nat /\ end \in Nat
          BY <1>0, <2>6
        <4> HIDE DEF end
        <4>. QED BY <4>1, MinOfTwo
      <3> HIDE DEF m
      <3>2. m = q + 1 + lit
        BY <1>0, <2>6, <3>1
      <3>. QED BY <3>2 DEF m
    <2>8. Expanded(c, q) = SubSeq(c, q + 2, q + 1 + lit)
      BY <2>4, <2>7 DEF Expanded
    <2> DEFINE e == SubSeq(c, q + 2, q + 1 + lit)
    <2>9. e \in Seq(Byte) /\ Len(e) = lit /\ \A i \in 1 .. lit : e[i] = c[q + 1 + i]
      BY <1>0, <1>3, <2>6, SMTT(30)
    <2>10. \A i \in 1 .. lit : c[q + 1 + i] = s[i]
      <3>1. ASSUME NEW i \in 1 .. lit PROVE c[q + 1 + i] = s[i]
        <4>1. 1 + i \in 1 .. Len(x) /\ q + (1 + i) = q + 1 + i
          BY <1>0, <1>3, <2>3
        <4>. QED BY <1>2, <2>3, <4>1
      <3>. QED BY <3>1
    <2> HIDE DEF e
    <2>11. e = s
      BY <2>1, <2>9, <2>10, SameBytes
    <2>12. q + Reads(c, q) = q + Len(x)
      BY <2>3, <2>5
    <2>. QED BY <1>2, <2>2, <2>6, <2>8, <2>11, <2>12 DEF e, s
  <1>6. CASE ~ run < 3
    <2> DEFINE ctrl == c[q + 1]
               s == Slice(input, pos, run)
    <2>1. x = <<MaxBlock + run - 1, input[pos + 1]>> /\ Covers(input, pos) = run
      BY <1>6 DEF BlockAt, Covers
    <2>2. s = [i \in 1 .. run |-> input[pos + i]]
      <3>1. run \in Nat
        BY <1>0, <1>4
      <3> HIDE DEF run
      <3>. QED BY <1>0, <1>4, <3>1, SliceIs
    <2> HIDE DEF x, run
    <2>3. Len(x) = 2 /\ x[1] = MaxBlock + run - 1 /\ x[2] = input[pos + 1]
      BY <2>1
    <2>4. ctrl = MaxBlock + run - 1 /\ c[q + 2] = input[pos + 1]
      BY <1>2, <2>3
    <2>5. ~ ctrl < MaxBlock /\ (ctrl % MaxBlock) + 1 = run
      <3>1. ~ MaxBlock + run - 1 < MaxBlock
        BY <1>0, <1>4
      <3>2. ((MaxBlock + run - 1) % MaxBlock) + 1 = run
        BY <1>4, BlockFacts
      <3>. QED BY <2>4, <3>1, <3>2
    <2>6. q + 1 # end /\ q < end /\ q + 2 \in 0 .. end
      BY <1>0, <1>2, <2>3
    <2>7. Reads(c, q) = 2 /\ Expanded(c, q) = [i \in 1 .. run |-> c[q + 2]]
      BY <2>5, <2>6 DEF Reads, Expanded
    <2>8. [i \in 1 .. run |-> c[q + 2]] = s
      BY <1>4, <2>2, <2>4
    <2>. QED BY <1>2, <2>1, <2>3, <2>6, <2>7, <2>8
  <1>. QED BY <1>5, <1>6

\* RLE decompression undoes compression, for every payload whose size fits its field:
\* RleCompressStrategy.
THEOREM RleUndone ==
    ASSUME NEW input \in Seq(Byte), Fits(Len(input), W64)
    PROVE  RleDecompress(RleCompress(input)) = input
  <1> DEFINE k == Len(input)
             size == LE(k, W64)
             c == RleCompress(input)
  <1>0. k \in Nat /\ W64 \in Nat /\ Radix \in Nat
    BY RadixFacts
  <1>1. size \in Seq(Byte) /\ Len(size) = W64
    BY Len(input) \in Nat, LEBytes, RadixFacts
  <1>2. PICK B : Blocks(input, B) /\ c = size \o B[0]
    BY BlocksOf
  <1>3. /\ B \in [0 .. k -> Seq(Byte)] /\ B[k] = <<>>
        /\ \A pos \in 0 .. k - 1 : B[pos] = BlockAt(input, pos) \o B[pos + Covers(input, pos)]
    BY <1>2 DEF Blocks
  <1>4. Num(size) = k
    BY <1>0, RadixFacts, NumbersReadBack
  <1> HIDE DEF size, c
  <1>5. /\ c \in Seq(Byte) /\ Len(c) = W64 + Len(B[0]) /\ Len(B[0]) \in Nat
        /\ After(c, W64) = B[0]
    <2>1. B[0] \in Seq(Byte)
      BY <1>0, <1>3
    <2>. QED BY <1>1, <1>2, <2>1, AfterConcat, Concatenated
  <1>6. Slice(c, 0, W64) = size
    <2> DEFINE y == B[0]
    <2>1. y \in Seq(Byte) /\ c = size \o y
      <3>1. 0 \in 0 .. k
        BY <1>0
      <3>. QED BY <1>2, <1>3, <3>1
    <2> HIDE DEF y
    <2>2. 0 \in 0 .. Len(c) /\ After(c, 0) = c
      <3>1. Len(c) \in Nat
        BY <1>5
      <3>2. After(c, 0) \in Seq(Byte) /\ Len(After(c, 0)) = Len(c) - 0
            /\ \A i \in 1 .. Len(c) - 0 : After(c, 0)[i] = c[0 + i]
        BY <1>5, <3>1, AfterIs
      <3>3. Len(c) - 0 = Len(c) /\ \A i \in 1 .. Len(c) : 0 + i = i
        BY <3>1
      <3>. QED BY <1>5, <3>1, <3>2, <3>3, SameBytes
    <2>3. GoesOn(c, 0, size, y)
      BY <2>1, <2>2 DEF GoesOn
    <2>4. size \in Seq(Byte) /\ c \in Seq(Byte) /\ 0 \in 0 .. Len(c)
      BY <1>1, <1>5, <2>2
    <2>5. Slice(c, 0, Len(size)) = size
      BY <2>1, <2>3, <2>4, ReadsOn
    <2>. QED BY <1>1, <2>5
  <1>7. PICK T : /\ Tails(c, T)
                 /\ RleDecompress(c) =
                        SubSeq(T[W64], 1, Min({Num(Slice(c, 0, W64)), Len(T[W64])}))
    <2>1. Len(c) >= W64
      BY <1>0, <1>5
    <2>. QED BY <1>5, <2>1, TailsOf
  <1>8. /\ T \in [W64 .. Len(c) + Radix -> Seq(Byte)]
        /\ \A q \in W64 .. Len(c) + Radix :
               T[q] = IF q >= Len(c) THEN <<>> ELSE Expanded(c, q) \o T[q + Reads(c, q)]
    BY <1>7 DEF Tails
  <1> DEFINE P == {pos \in 0 .. k : \A q \in W64 .. Len(c) :
                                      After(c, q) = B[pos] => T[q] = After(input, pos)}
  <1>9. ASSUME NEW pos \in 0 .. k, \A p \in pos + 1 .. k : p \in P PROVE pos \in P
    <2> SUFFICES ASSUME NEW q \in W64 .. Len(c), After(c, q) = B[pos]
                 PROVE  T[q] = After(input, pos)
      OBVIOUS
    <2>0. q \in 0 .. Len(c) /\ Len(c) \in Nat /\ q \in W64 .. Len(c) + Radix
      BY <1>0, <1>5
    <2>1. CASE pos = k
      <3>1. Len(After(c, q)) = Len(c) - q /\ After(c, q) = <<>>
        BY <1>3, <1>5, <2>0, <2>1, AfterIs
      <3>2. q >= Len(c)
        BY <2>0, <3>1
      <3>3. T[q] = <<>>
        BY <1>8, <2>0, <3>2
      <3>4. After(input, k) = <<>>
        <4>1. After(input, k) \in Seq(Byte) /\ Len(After(input, k)) = 0
          BY <1>0, AfterIs
        <4>. QED BY <4>1
      <3>. QED BY <2>1, <3>3, <3>4
    <2>2. CASE pos # k
      <3>1. pos \in 0 .. k - 1
        BY <1>0, <2>2
      <3> DEFINE later == pos + Covers(input, pos)
                 y == B[later]
                 r == q + Reads(c, q)
      <3>2. later \in pos + 1 .. k /\ Covers(input, pos) \in Nat /\ later <= Len(input)
        <4>1. Covers(input, pos) \in 1 .. MaxBlock /\ pos + Covers(input, pos) <= Len(input)
          BY <3>1, BlockIs
        <4>. QED BY <1>0, <3>1, <4>1, BlockFacts
      <3>3. y \in Seq(Byte)
        BY <1>3, <3>1, <3>2
      <3>4. After(c, q) = BlockAt(input, pos) \o y
        BY <1>3, <3>1
      <3>5. /\ q < Len(c) /\ r \in 0 .. Len(c) /\ After(c, r) = y
            /\ Expanded(c, q) = Slice(input, pos, Covers(input, pos))
        <4>1. pos \in 0 .. Len(input) - 1
          BY <3>1
        <4>2. c \in Seq(Byte) /\ q \in 0 .. Len(c)
          BY <1>5, <2>0
        <4> HIDE DEF y, k
        <4>. QED BY <3>3, <3>4, <4>1, <4>2, BlockUndone, SMTT(30)
      <3>6. r \in W64 .. Len(c)
        <4>1. Reads(c, q) \in Nat \ {0}
          <5>1. q \in Nat /\ q < Len(c)
            BY <2>0, <3>5
          <5>. QED BY <1>5, <5>1, ExpandedIs
        <4>. QED BY <1>0, <2>0, <3>5, <4>1
      <3>7. T[r] = After(input, later)
        BY <1>9, <3>2, <3>5, <3>6
      <3>8. T[q] = Expanded(c, q) \o T[r]
        <4>1. ~ q >= Len(c)
          BY <2>0, <3>5
        <4>. QED BY <1>8, <2>0, <4>1
      <3>9. After(input, pos) = Slice(input, pos, Covers(input, pos)) \o After(input, later)
        <4>1. pos \in Nat
          OBVIOUS
        <4>. QED BY <3>2, <4>1, SliceAfter
      <3>. QED BY <3>5, <3>7, <3>8, <3>9
    <2>. QED BY <2>1, <2>2
  <1>10. 0 \in P
    <2>1. 0 .. k \subseteq P
      <3> HIDE DEF P, k
      <3>. QED BY <1>0, <1>9, Backwards
    <2>. QED BY <1>0, <2>1
  <1>11. T[W64] = After(input, 0)
    <2>1. W64 \in W64 .. Len(c)
      BY <1>0, <1>5
    <2>. QED BY <1>5, <1>10, <2>1
  <1>12. After(input, 0) = input
    <2>1. After(input, 0) \in Seq(Byte) /\ Len(After(input, 0)) = k - 0
          /\ \A i \in 1 .. k - 0 : After(input, 0)[i] = input[0 + i]
      BY <1>0, AfterIs
    <2>2. k - 0 = k /\ \A i \in 1 .. k : 0 + i = i
      BY <1>0
    <2>. QED BY <2>1, <2>2, SameBytes
  <1>13. Min({k, k}) = k
    BY <1>0, MinOfTwo
  <1>14. RleDecompress(c) = SubSeq(input, 1, k)
    BY <1>4, <1>6, <1>7, <1>11, <1>12, <1>13
  <1>. QED BY <1>14 DEF c

-----------------------------------------------------------------------------
(* Where a sequence is found in another *)

\* x is in data, after the first off bytes.
At(data, off, x) ==
    /\ data \in Seq(Byte) /\ x \in Seq(Byte) /\ off \in Nat
    /\ off + Len(x) <= Len(data)
    /\ \A i \in 1 .. Len(x) : data[off + i] = x[i]

LEMMA AtSelf == ASSUME NEW x \in Seq(Byte) PROVE At(x, 0, x)
  <1>1. \A i \in 1 .. Len(x) : 0 + i = i
    OBVIOUS
  <1>. QED BY <1>1 DEF At

LEMMA AtParts ==
    ASSUME NEW data, NEW off, NEW a \in Seq(Byte), NEW b \in Seq(Byte),
           At(data, off, a \o b)
    PROVE  /\ At(data, off, a) /\ At(data, off + Len(a), b)
           /\ a \o b \in Seq(Byte) /\ Len(a \o b) = Len(a) + Len(b)
  <1> DEFINE c == a \o b
  <1>1. /\ c \in Seq(Byte) /\ Len(c) = Len(a) + Len(b) /\ Len(a) \in Nat /\ Len(b) \in Nat
        /\ \A i \in 1 .. Len(a) : c[i] = a[i]
        /\ \A i \in 1 .. Len(b) : c[Len(a) + i] = b[i]
    BY Concatenated
  <1> HIDE DEF c
  <1>2. /\ data \in Seq(Byte) /\ off \in Nat /\ off + Len(c) <= Len(data)
        /\ \A i \in 1 .. Len(c) : data[off + i] = c[i]
    BY DEF At, c
  <1>3. Len(data) \in Nat
    BY <1>2
  <1>4. At(data, off, a)
    <2>1. off + Len(a) <= Len(data)
      BY <1>1, <1>2, <1>3
    <2>2. \A i \in 1 .. Len(a) : i \in 1 .. Len(c)
      BY <1>1
    <2>. QED BY <1>1, <1>2, <2>1, <2>2 DEF At
  <1>5. At(data, off + Len(a), b)
    <2>1. off + Len(a) + Len(b) <= Len(data) /\ off + Len(a) \in Nat
      BY <1>1, <1>2, <1>3
    <2>2. \A i \in 1 .. Len(b) : Len(a) + i \in 1 .. Len(c)
                                 /\ off + (Len(a) + i) = off + Len(a) + i
      BY <1>1, <1>2
    <2>3. \A i \in 1 .. Len(b) : data[off + Len(a) + i] = b[i]
      BY <1>1, <1>2, <2>2
    <2>. QED BY <1>2, <2>1, <2>3 DEF At
  <1>. QED BY <1>1, <1>4, <1>5 DEF c

LEMMA AtWithin ==
    ASSUME NEW data, NEW off, NEW x, NEW k, NEW y, At(data, off, x), At(x, k, y)
    PROVE  At(data, off + k, y)
  <1>1. /\ data \in Seq(Byte) /\ off \in Nat /\ off + Len(x) <= Len(data)
        /\ \A i \in 1 .. Len(x) : data[off + i] = x[i]
        /\ x \in Seq(Byte) /\ Len(data) \in Nat
    BY DEF At
  <1>2. /\ y \in Seq(Byte) /\ k \in Nat /\ k + Len(y) <= Len(x)
        /\ \A i \in 1 .. Len(y) : x[k + i] = y[i]
    BY DEF At
  <1>3. Len(x) \in Nat /\ Len(y) \in Nat
    BY <1>1, <1>2
  <1>4. off + k \in Nat /\ off + k + Len(y) <= Len(data)
    BY <1>1, <1>2, <1>3
  <1>5. \A i \in 1 .. Len(y) : k + i \in 1 .. Len(x) /\ off + (k + i) = off + k + i
    BY <1>1, <1>2, <1>3
  <1>6. \A i \in 1 .. Len(y) : data[off + k + i] = y[i]
    BY <1>1, <1>2, <1>5
  <1>. QED BY <1>1, <1>2, <1>4, <1>6 DEF At

LEMMA AtSlice ==
    ASSUME NEW data, NEW off, NEW x, At(data, off, x)
    PROVE  Slice(data, off, Len(x)) = x
  <1>1. /\ data \in Seq(Byte) /\ off \in Nat /\ off + Len(x) <= Len(data)
        /\ x \in Seq(Byte) /\ \A i \in 1 .. Len(x) : data[off + i] = x[i]
    BY DEF At
  <1>2. Len(x) \in Nat
    BY <1>1
  <1>3. /\ Slice(data, off, Len(x)) \in Seq(Byte) /\ Len(Slice(data, off, Len(x))) = Len(x)
        /\ \A i \in 1 .. Len(x) : Slice(data, off, Len(x))[i] = data[off + i]
    BY <1>1, <1>2, SliceIs
  <1>4. \A i \in 1 .. Len(x) : Slice(data, off, Len(x))[i] = x[i]
    BY <1>1, <1>3
  <1>. QED BY <1>1, <1>3, <1>4, SameBytes

\* A number is read where it was written.
LEMMA AtNumber ==
    ASSUME NEW data, NEW off, NEW n \in Nat, NEW w \in Nat, Fits(n, w),
           At(data, off, LE(n, w))
    PROVE  Num(Slice(data, off, w)) = n
  <1>1. Len(LE(n, w)) = w
    BY LEBytes
  <1>2. Slice(data, off, w) = LE(n, w)
    BY <1>1, AtSlice
  <1>. QED BY <1>2, NumbersReadBack

\* A string with its length in front.
LEMMA AtString ==
    ASSUME NEW data, NEW off, NEW s \in Seq(Byte), Fits(Len(s), W16),
           At(data, off, Str(s))
    PROVE  /\ Num(Slice(data, off, W16)) = Len(s)
           /\ Slice(data, off + W16, Len(s)) = s
           /\ Str(s) \in Seq(Byte) /\ Len(Str(s)) = W16 + Len(s)
  <1>1. Len(s) \in Nat /\ W16 \in Nat
    BY RadixFacts
  <1>2. LE(Len(s), W16) \in Seq(Byte) /\ Len(LE(Len(s), W16)) = W16
    BY <1>1, LEBytes
  <1> DEFINE a == LE(Len(s), W16)
  <1>3. At(data, off, a \o s)
    BY DEF Str
  <1>4. At(data, off, a) /\ At(data, off + Len(a), s) /\ a \o s \in Seq(Byte)
        /\ Len(a \o s) = Len(a) + Len(s)
    <2> HIDE DEF a
    <2>1. a \in Seq(Byte)
      BY <1>2 DEF a
    <2>. QED BY <1>3, <2>1, AtParts
  <1>5. Num(Slice(data, off, W16)) = Len(s)
    BY <1>1, <1>4, AtNumber
  <1>6. Slice(data, off + W16, Len(s)) = s
    BY <1>2, <1>4, AtSlice
  <1>. QED BY <1>2, <1>4, <1>5, <1>6 DEF Str

-----------------------------------------------------------------------------
(* Concatenations of any number of pieces *)

\* f[i] is what the first i pieces make.
Builds(f, pieces, n, S) ==
    /\ n \in Nat /\ pieces \in [1 .. n -> Seq(S)]
    /\ f \in [0 .. n -> Seq(S)] /\ f[0] = <<>>
    /\ \A i \in 1 .. n : f[i] = f[i - 1] \o pieces[i]

LEMMA FlattenIs ==
    ASSUME NEW S, NEW n \in Nat, NEW pieces \in [1 .. n -> Seq(S)]
    PROVE  \E f : Builds(f, pieces, n, S) /\ FlattenSeq(pieces) = f[n]
  <1>1. pieces \in Seq(Seq(S)) /\ Len(pieces) = n /\ \A i \in 1 .. n : pieces[i] \in Seq(S)
    OBVIOUS
  <1> DEFINE s == [i \in 1 .. n |-> [x \in Seq(S) |-> x \o pieces[i]]]
  <1>2. IsStep(s, n, Seq(S))
    BY <1>1 DEF IsStep
  <1>3. \A i \in 1 .. n : \A x \in Seq(S) : s[i][x] = x \o pieces[i]
    OBVIOUS
  <1> HIDE DEF s
  <1>4. PICK f : IsRec(f, n, Seq(S), <<>>, s)
    <2>1. <<>> \in Seq(S)
      OBVIOUS
    <2>. QED BY <1>2, <2>1, Recursion
  <1>5. Builds(f, pieces, n, S)
    <2>1. /\ f \in [0 .. n -> Seq(S)] /\ f[0] = <<>>
          /\ \A i \in 1 .. n : f[i] = s[i][f[i - 1]]
      BY <1>4 DEF IsRec
    <2>2. ASSUME NEW i \in 1 .. n PROVE f[i] = f[i - 1] \o pieces[i]
      <3>1. i - 1 \in 0 .. n
        OBVIOUS
      <3>2. f[i - 1] \in Seq(S)
        BY <2>1, <3>1
      <3>. QED BY <1>3, <2>1, <3>2
    <2>. QED BY <2>1, <2>2 DEF Builds
  <1> HIDE DEF s
  <1>7. f[0] = <<>> /\ \A i \in 1 .. n : f[i] = f[i - 1] \o pieces[i]
    BY <1>5 DEF Builds
  <1>6. FlattenSeq(pieces) = f[n]
    <2>1. CASE n = 0
      <3>1. pieces = <<>>
        BY <1>1, <2>1
      <3>. QED BY <1>1, <1>5, <2>1, <3>1 DEF FlattenSeq, Builds
    <2>2. CASE n # 0
      <3> DEFINE Body(g) == [i \in 1 .. n |-> IF i = 1 THEN pieces[i] ELSE g[i - 1] \o pieces[i]]
                 flatten == CHOOSE g : g = Body(g)
                 h == [i \in 1 .. n |-> f[i]]
      <3>1. FlattenSeq(pieces) = flatten[n]
        BY <1>1, <2>2 DEF FlattenSeq
      <3>2. h = Body(h)
        <4>1. ASSUME NEW i \in 1 .. n
              PROVE  h[i] = IF i = 1 THEN pieces[i] ELSE h[i - 1] \o pieces[i]
          <5>1. CASE i = 1
            <6>0. f[i] = f[i - 1] \o pieces[i]
              BY <1>7
            <6>3. i - 1 = 0
              BY <5>1
            <6>1. f[1] = <<>> \o pieces[1]
              BY <1>7, <5>1, <6>0, <6>3
            <6>2. <<>> \o pieces[1] = pieces[1]
              BY <1>1, <5>1
            <6>. QED BY <5>1, <6>1, <6>2
          <5>2. CASE i # 1
            <6>1. i - 1 \in 1 .. n
              BY <5>2
            <6>2. f[i] = f[i - 1] \o pieces[i]
              BY <1>5 DEF Builds
            <6>. QED BY <5>2, <6>1, <6>2
          <5>. QED BY <5>1, <5>2
        <4> HIDE DEF h
        <4>2. h = [i \in 1 .. n |-> h[i]]
          BY DEF h
        <4>. QED BY <4>1, <4>2
      <3>3. flatten = Body(flatten)
        <4> HIDE DEF h
        <4>. QED BY <3>2
      <3> HIDE DEF flatten, h
      <3>4. \A i \in 1 .. n :
                flatten[i] = IF i = 1 THEN pieces[i] ELSE flatten[i - 1] \o pieces[i]
        BY <3>3
      <3> DEFINE P == {i \in 0 .. n : i = 0 \/ flatten[i] = f[i]}
      <3>5. ASSUME NEW i \in 1 .. n, i - 1 \in P PROVE i \in P
        <4>1. f[i] = f[i - 1] \o pieces[i] /\ f[0] = <<>>
          BY <1>5 DEF Builds
        <4>2. CASE i = 1
          <5>1. <<>> \o pieces[1] = pieces[1] /\ flatten[1] = pieces[1]
            BY <1>1, <3>4, <4>2
          <5>2. f[i] = <<>> \o pieces[1] /\ i \in 0 .. n
            <6>1. i - 1 = 0 /\ i \in 0 .. n
              BY <4>2
            <6>. QED BY <4>1, <4>2, <6>1
          <5>. QED BY <4>2, <5>1, <5>2
        <4>3. CASE i # 1
          <5>1. flatten[i - 1] = f[i - 1] /\ i \in 0 .. n
            BY <3>5, <4>3
          <5>2. flatten[i] = flatten[i - 1] \o pieces[i]
            BY <3>4, <4>3
          <5>. QED BY <4>1, <5>1, <5>2
        <4>. QED BY <4>2, <4>3
      <3>6. 0 \in P
        OBVIOUS
      <3>7. 0 .. n \subseteq P
        <4> HIDE DEF P
        <4>. QED BY <3>5, <3>6, Kept
      <3>8. flatten[n] = f[n]
        BY <2>2, <3>7
      <3>. QED BY <3>1, <3>8
    <2>. QED BY <2>1, <2>2
  <1>. QED BY <1>5, <1>6

\* Each piece is in all of it, after those before it.
Grows(f, pieces, i, S) ==
    /\ f[i - 1] \in Seq(S) /\ pieces[i] \in Seq(S) /\ f[i] \in Seq(S)
    /\ f[i] = f[i - 1] \o pieces[i]
    /\ Len(f[i]) = Len(f[i - 1]) + Len(pieces[i])
    /\ Len(f[i - 1]) \in Nat /\ Len(pieces[i]) \in Nat /\ Len(f[i]) \in Nat

LEMMA PrefixFacts ==
    ASSUME NEW S, NEW n, NEW pieces, NEW f, NEW i \in 1 .. n, Builds(f, pieces, n, S)
    PROVE  Grows(f, pieces, i, S)
  <1>1. i - 1 \in 0 .. n
    BY DEF Builds
  <1>2. f[i - 1] \in Seq(S) /\ pieces[i] \in Seq(S) /\ f[i] = f[i - 1] \o pieces[i]
    BY <1>1 DEF Builds
  <1>3. \A x, y \in Seq(S) : Len(x \o y) = Len(x) + Len(y)
    OBVIOUS
  <1>4. /\ f[i] \in Seq(S) /\ Len(f[i - 1]) \in Nat /\ Len(pieces[i]) \in Nat
        /\ Len(f[i]) \in Nat
    <2>1. \A x, y \in Seq(S) : x \o y \in Seq(S)
      OBVIOUS
    <2>2. f[i] \in Seq(S)
      BY <1>2, <2>1
    <2>3. \A x \in Seq(S) : Len(x) \in Nat
      OBVIOUS
    <2>. QED BY <1>2, <2>2, <2>3
  <1>. QED BY <1>2, <1>3, <1>4 DEF Grows

LEMMA PieceAt ==
    ASSUME NEW n, NEW pieces, NEW f, Builds(f, pieces, n, Byte), NEW i \in 1 .. n
    PROVE  At(f[n], Len(f[i - 1]), pieces[i])
  <1>0. n \in Nat
    BY DEF Builds
  <1> DEFINE P == {m \in 0 .. n : i <= m => At(f[m], Len(f[i - 1]), pieces[i])}
  <1>1. 0 \in P
    BY <1>0
  <1>2. ASSUME NEW m \in 1 .. n, m - 1 \in P PROVE m \in P
    <2> SUFFICES ASSUME i <= m PROVE At(f[m], Len(f[i - 1]), pieces[i])
      BY DEF P
    <2>1. /\ f[m - 1] \in Seq(Byte) /\ pieces[m] \in Seq(Byte)
          /\ f[m] = f[m - 1] \o pieces[m]
      <3>1. Grows(f, pieces, m, Byte)
        BY PrefixFacts
      <3>. QED BY <3>1 DEF Grows
    <2>2. f[m] \in Seq(Byte)
      BY <2>1, Concatenated
    <2>3. At(f[m], 0, f[m - 1] \o pieces[m])
      BY <2>1, <2>2, AtSelf
    <2>4. At(f[m], 0, f[m - 1]) /\ At(f[m], 0 + Len(f[m - 1]), pieces[m])
      BY <2>1, <2>3, AtParts
    <2>5. Len(f[m - 1]) \in Nat
      BY <2>1
    <2>6. CASE i = m
      BY <2>4, <2>5, <2>6
    <2>7. CASE i # m
      <3>1. At(f[m - 1], Len(f[i - 1]), pieces[i])
        BY <1>2, <2>7
      <3>2. At(f[m], 0 + Len(f[i - 1]), pieces[i])
        BY <2>4, <3>1, AtWithin
      <3>3. Len(f[i - 1]) \in Nat
        BY <3>1 DEF At
      <3>. QED BY <3>2, <3>3
    <2>. QED BY <2>6, <2>7
  <1>3. 0 .. n \subseteq P
    <2> HIDE DEF P
    <2>. QED BY <1>0, <1>1, <1>2, Kept
  <1>. QED BY <1>0, <1>3

LEMMA DivMonotone ==
    ASSUME NEW x \in Nat, NEW y \in Nat, x <= y, NEW base \in Nat \ {0}
    PROVE  x \div base <= y \div base
  <1> DEFINE p == x \div base
             q == y \div base
  <1>1. p \in Nat /\ x % base \in 0 .. base - 1 /\ x = p * base + (x % base)
    BY BaseFacts
  <1>2. q \in Nat /\ y % base \in 0 .. base - 1 /\ y = q * base + (y % base)
    BY BaseFacts
  <1> HIDE DEF p, q
  <1>3. ASSUME p > q PROVE FALSE
    <2>1. PICK d \in Nat : p = q + 1 + d
      <3>1. p - q - 1 \in Nat /\ p = q + 1 + (p - q - 1)
        BY <1>1, <1>2, <1>3
      <3>. QED BY <3>1
    <2>2. p * base = q * base + base + d * base
      BY <1>1, <1>2, <2>1
    <2>3. d * base \in Nat /\ q * base \in Nat
      BY <1>2
    <2>. QED BY <1>1, <1>2, <2>2, <2>3
  <1>4. p <= q
    BY <1>1, <1>2, <1>3
  <1>. QED BY <1>4 DEF p, q

\* A smaller number fits as well.
LEMMA SmallerFits ==
    ASSUME NEW m \in Nat, NEW n \in Nat, m <= n, NEW w \in Nat, Fits(n, w)
    PROVE  Fits(m, w)
  <1> DEFINE r == Shifts(m, Radix, w)
             s == Shifts(n, Radix, w)
  <1>0. Radix \in Nat \ {0}
    BY RadixFacts
  <1>1. Left(r, m, Radix, w) /\ Left(s, n, Radix, w) /\ s[w] = 0
    BY <1>0, ShiftsStep DEF Fits
  <1> HIDE DEF r, s
  <1>2. /\ r \in [0 .. w -> Nat] /\ r[0] = m
        /\ \A i \in 1 .. w : r[i] = r[i - 1] \div Radix
    BY <1>1 DEF Left
  <1>3. /\ s \in [0 .. w -> Nat] /\ s[0] = n
        /\ \A i \in 1 .. w : s[i] = s[i - 1] \div Radix
    BY <1>1 DEF Left
  <1> DEFINE P == {i \in 0 .. w : r[i] <= s[i]}
  <1>4. 0 \in P
    BY <1>2, <1>3
  <1>5. ASSUME NEW i \in 1 .. w, i - 1 \in P PROVE i \in P
    <2>1. i - 1 \in 0 .. w /\ i \in 0 .. w /\ r[i - 1] <= s[i - 1]
      BY <1>5
    <2>2. r[i - 1] \in Nat /\ s[i - 1] \in Nat
      BY <1>2, <1>3, <2>1
    <2>3. r[i - 1] \div Radix <= s[i - 1] \div Radix
      BY <1>0, <2>1, <2>2, DivMonotone
    <2>4. r[i] = r[i - 1] \div Radix /\ s[i] = s[i - 1] \div Radix
      BY <1>2, <1>3
    <2>. QED BY <2>1, <2>3, <2>4
  <1>6. 0 .. w \subseteq P
    <2> HIDE DEF P
    <2>. QED BY <1>4, <1>5, Kept
  <1>7. w \in P
    BY <1>6
  <1>8. r[w] \in Nat /\ r[w] <= 0
    BY <1>1, <1>2, <1>7
  <1>9. r[w] = 0
    BY <1>8
  <1>. QED BY <1>9 DEF Fits, r

-----------------------------------------------------------------------------
(* The header *)

LEMMA EntryFacts ==
    ASSUME NEW f \in Entry
    PROVE  /\ f.path \in Seq(Byte) /\ f.target \in Seq(Byte) /\ f.content \in Seq(Byte)
           /\ f.type \in Nat /\ f.perm \in Nat /\ f.owner \in Nat /\ f.mtime \in Nat
           /\ f.dev \in Nat
           /\ Len(f.path) \in Nat /\ Len(f.target) \in Nat /\ Len(f.content) \in Nat
  <1>1. /\ f.path \in Seq(Byte) /\ f.target \in Seq(Byte) /\ f.content \in Seq(Byte)
        /\ f.type \in Nat /\ f.perm \in Nat /\ f.owner \in Nat /\ f.mtime \in Nat
        /\ f.dev \in Nat
    BY DEF Entry
  <1>. QED BY <1>1

LEMMA StrBytes ==
    ASSUME NEW s \in Seq(Byte)
    PROVE  Str(s) \in Seq(Byte) /\ Len(Str(s)) = W16 + Len(s)
  <1>1. Len(s) \in Nat /\ W16 \in Nat
    BY RadixFacts
  <1>2. LE(Len(s), W16) \in Seq(Byte) /\ Len(LE(Len(s), W16)) = W16
    BY <1>1, LEBytes
  <1>. QED BY <1>2, Concatenated DEF Str

\* Where seven pieces are that follow each other.
SevenAt(data, off, a, b, c, d, e, f, g) ==
    LET n == Len(a) + Len(b) + Len(c) + Len(d) + Len(e) IN
    /\ At(data, off, a) /\ At(data, off + Len(a), b)
    /\ At(data, off + (Len(a) + Len(b)), c)
    /\ At(data, off + (Len(a) + Len(b) + Len(c)), d)
    /\ At(data, off + (n - Len(e)), e)
    /\ At(data, off + n, f) /\ At(data, off + (n + Len(f)), g)

LEMMA SevenPieces ==
    ASSUME NEW a \in Seq(Byte), NEW b \in Seq(Byte), NEW c \in Seq(Byte),
           NEW d \in Seq(Byte), NEW e \in Seq(Byte), NEW f \in Seq(Byte),
           NEW g \in Seq(Byte)
    PROVE  LET all == a \o b \o c \o d \o e \o f \o g
               n == Len(a) + Len(b) + Len(c) + Len(d) + Len(e) IN
           /\ all \in Seq(Byte) /\ Len(all) = n + Len(f) + Len(g)
           /\ \A data, off : At(data, off, all) => SevenAt(data, off, a, b, c, d, e, f, g)
  <1> DEFINE s2 == a \o b
             s3 == s2 \o c
             s4 == s3 \o d
             s5 == s4 \o e
             s6 == s5 \o f
             s7 == s6 \o g
  <1>1. s2 \in Seq(Byte) /\ Len(s2) = Len(a) + Len(b)
    BY Concatenated
  <1> HIDE DEF s2
  <1>2. s3 \in Seq(Byte) /\ Len(s3) = Len(s2) + Len(c)
    BY <1>1, Concatenated
  <1> HIDE DEF s3
  <1>3. s4 \in Seq(Byte) /\ Len(s4) = Len(s3) + Len(d)
    BY <1>2, Concatenated
  <1> HIDE DEF s4
  <1>4. s5 \in Seq(Byte) /\ Len(s5) = Len(s4) + Len(e)
    BY <1>3, Concatenated
  <1> HIDE DEF s5
  <1>5. s6 \in Seq(Byte) /\ Len(s6) = Len(s5) + Len(f)
    BY <1>4, Concatenated
  <1> HIDE DEF s6
  <1>6. s7 \in Seq(Byte) /\ Len(s7) = Len(s6) + Len(g)
    BY <1>5, Concatenated
  <1> HIDE DEF s7
  <1>7. /\ Len(a) \in Nat /\ Len(b) \in Nat /\ Len(c) \in Nat /\ Len(d) \in Nat
        /\ Len(e) \in Nat /\ Len(f) \in Nat /\ Len(g) \in Nat
    OBVIOUS
  <1>8. ASSUME NEW data, NEW off, At(data, off, s7)
        PROVE  /\ At(data, off, a) /\ At(data, off + Len(a), b)
               /\ At(data, off + Len(s2), c) /\ At(data, off + Len(s3), d)
               /\ At(data, off + Len(s4), e) /\ At(data, off + Len(s5), f)
               /\ At(data, off + Len(s6), g)
    <2>1. At(data, off, s6) /\ At(data, off + Len(s6), g)
      BY <1>5, <1>8, AtParts DEF s7
    <2>2. At(data, off, s5) /\ At(data, off + Len(s5), f)
      BY <1>4, <2>1, AtParts DEF s6
    <2>3. At(data, off, s4) /\ At(data, off + Len(s4), e)
      BY <1>3, <2>2, AtParts DEF s5
    <2>4. At(data, off, s3) /\ At(data, off + Len(s3), d)
      BY <1>2, <2>3, AtParts DEF s4
    <2>5. At(data, off, s2) /\ At(data, off + Len(s2), c)
      BY <1>1, <2>4, AtParts DEF s3
    <2>6. At(data, off, a) /\ At(data, off + Len(a), b)
      BY <2>5, AtParts DEF s2
    <2>. QED BY <2>1, <2>2, <2>3, <2>4, <2>5, <2>6
  <1>11. /\ Len(s2) = Len(a) + Len(b) /\ Len(s3) = Len(s2) + Len(c)
         /\ Len(s4) = Len(s3) + Len(d) /\ Len(s5) = Len(s4) + Len(e)
         /\ Len(s6) = Len(s5) + Len(f) /\ Len(s7) = Len(s6) + Len(g)
    BY <1>1, <1>2, <1>3, <1>4, <1>5, <1>6
  <1> DEFINE n == Len(a) + Len(b) + Len(c) + Len(d) + Len(e)
  <1>9. /\ Len(s4) = Len(a) + Len(b) + Len(c) + Len(d) + Len(e) - Len(e)
        /\ Len(s5) = n /\ Len(s6) = n + Len(f) /\ Len(s7) = n + Len(f) + Len(g)
        /\ Len(s2) = Len(a) + Len(b) /\ Len(s3) = Len(a) + Len(b) + Len(c)
        /\ Len(s4) = n - Len(e)
    BY <1>7, <1>11
  <1> HIDE DEF n
  <1>12. ASSUME NEW data, NEW off, At(data, off, s7)
         PROVE  SevenAt(data, off, a, b, c, d, e, f, g)
    <2>1. /\ At(data, off, a) /\ At(data, off + Len(a), b)
          /\ At(data, off + (Len(a) + Len(b)), c)
          /\ At(data, off + (Len(a) + Len(b) + Len(c)), d)
          /\ At(data, off + (n - Len(e)), e)
          /\ At(data, off + n, f) /\ At(data, off + (n + Len(f)), g)
      BY <1>8, <1>9, <1>12
    <2>. QED BY <2>1 DEF SevenAt, n
  <1>10. s7 = a \o b \o c \o d \o e \o f \o g
    BY DEF s2, s3, s4, s5, s6, s7
  <1>. QED BY <1>6, <1>9, <1>10, <1>12 DEF n

Widths == W16 \in Nat /\ W32 \in Nat /\ W64 \in Nat

LEMMA WidthsAre == Widths
  BY RadixFacts DEF Widths

\* Where the pieces of an entry are.
InfoAt(data, off, f) ==
    LET type == off + W16 + Len(f.path)
        target == type + 2 * W16 + W32 + W64
        dev == target + W16 + Len(f.target) IN
    /\ At(data, off, Str(f.path)) /\ At(data, type, LE(f.type, W16))
    /\ At(data, type + W16, LE(f.perm, W16)) /\ At(data, type + 2 * W16, LE(f.owner, W32))
    /\ At(data, target - W64, LE(f.mtime, W64)) /\ At(data, target, Str(f.target))
    /\ At(data, dev, IF f.type = Device THEN LE(f.dev, W64) ELSE <<>>)

LEMMA InfoPieces ==
    ASSUME NEW f \in Entry
    PROVE  /\ serializeInfo(f) \in Seq(Byte)
           /\ Len(serializeInfo(f)) =
                 3 * W16 + Len(f.path) + W16 + W32 + W64 + Len(f.target)
                 + (IF f.type = Device THEN W64 ELSE 0)
           /\ \A data, off : At(data, off, serializeInfo(f)) => InfoAt(data, off, f)
  <1> DEFINE a == Str(f.path)
             b == LE(f.type, W16)
             c == LE(f.perm, W16)
             d == LE(f.owner, W32)
             e == LE(f.mtime, W64)
             t == Str(f.target)
             g == IF f.type = Device THEN LE(f.dev, W64) ELSE <<>>
  <1>1. Widths /\ Len(f.path) \in Nat /\ Len(f.target) \in Nat
    BY WidthsAre, EntryFacts
  <1>2. /\ a \in Seq(Byte) /\ Len(a) = W16 + Len(f.path)
        /\ t \in Seq(Byte) /\ Len(t) = W16 + Len(f.target)
    BY EntryFacts, StrBytes
  <1>3. /\ b \in Seq(Byte) /\ Len(b) = W16 /\ c \in Seq(Byte) /\ Len(c) = W16
        /\ d \in Seq(Byte) /\ Len(d) = W32 /\ e \in Seq(Byte) /\ Len(e) = W64
    BY <1>1, EntryFacts, LEBytes DEF Widths
  <1>4. g \in Seq(Byte) /\ Len(g) = IF f.type = Device THEN W64 ELSE 0
    <2>1. LE(f.dev, W64) \in Seq(Byte) /\ Len(LE(f.dev, W64)) = W64
      BY <1>1, EntryFacts, LEBytes DEF Widths
    <2>2. <<>> \in Seq(Byte) /\ Len(<<>>) = 0
      OBVIOUS
    <2>. QED BY <2>1, <2>2
  <1>10. /\ Len(a) = W16 + Len(f.path) /\ Len(b) = W16 /\ Len(c) = W16 /\ Len(d) = W32
         /\ Len(e) = W64 /\ Len(t) = W16 + Len(f.target)
         /\ Len(g) = IF f.type = Device THEN W64 ELSE 0
    BY <1>2, <1>3, <1>4
  <1>5. serializeInfo(f) = a \o b \o c \o d \o e \o t \o g
    BY DEF serializeInfo
  <1> HIDE DEF a, b, c, d, e, t, g
  <1> DEFINE all == a \o b \o c \o d \o e \o t \o g
             n == Len(a) + Len(b) + Len(c) + Len(d) + Len(e)
  <1>6. /\ all \in Seq(Byte) /\ Len(all) = n + Len(t) + Len(g)
        /\ \A data, off : At(data, off, all) => SevenAt(data, off, a, b, c, d, e, t, g)
    BY <1>2, <1>3, <1>4, SevenPieces
  <1> HIDE DEF all
  <1>11. Len(all) = n + Len(t) + Len(g)
    BY <1>6
  <1> DEFINE p == Len(f.path)
             l == Len(f.target)
             la == Len(a)
             lb == Len(b)
             lc == Len(c)
             ld == Len(d)
             le == Len(e)
             lt == Len(t)
             lg == Len(g)
             ll == Len(all)
  <1>12. /\ p \in Nat /\ l \in Nat /\ la = W16 + p /\ lb = W16 /\ lc = W16 /\ ld = W32
         /\ le = W64 /\ lt = W16 + l /\ lg = IF f.type = Device THEN W64 ELSE 0
         /\ n = la + lb + lc + ld + le /\ ll = n + lt + lg
    BY <1>1, <1>10, <1>11
  <1> HIDE DEF p, l, la, lb, lc, ld, le, lt, lg, ll, n
  <1>7. n = 3 * W16 + p + W32 + W64 /\ n \in Nat
    BY <1>1, <1>12 DEF Widths
  <1>8. Len(all) = 3 * W16 + Len(f.path) + W16 + W32 + W64 + Len(f.target)
                   + (IF f.type = Device THEN W64 ELSE 0)
    <2>1. lg \in Nat /\ ll = 3 * W16 + p + W16 + W32 + W64 + l + lg
      BY <1>1, <1>7, <1>12 DEF Widths
    <2>. QED BY <1>12, <2>1 DEF p, l, ll
  <1>9. ASSUME NEW data, NEW off, At(data, off, all) PROVE InfoAt(data, off, f)
    <2>1. off \in Nat
      BY <1>9 DEF At
    <2> DEFINE type == off + W16 + p
               target == type + 2 * W16 + W32 + W64
               dev == target + W16 + l
    <2>2. /\ off + la = type /\ off + (la + lb) = type + W16
          /\ off + (la + lb + lc) = type + 2 * W16
          /\ off + (n - le) = target - W64 /\ off + n = target
          /\ off + (n + lt) = dev
      BY <1>1, <1>7, <1>12, <2>1 DEF Widths
    <2> HIDE DEF type, target, dev
    <2>3. /\ At(data, off, a) /\ At(data, type, b) /\ At(data, type + W16, c)
          /\ At(data, type + 2 * W16, d) /\ At(data, target - W64, e)
          /\ At(data, target, t) /\ At(data, dev, g)
      <3>1. SevenAt(data, off, a, b, c, d, e, t, g)
        BY <1>6, <1>9
      <3>. QED BY <2>2, <3>1 DEF SevenAt, n, la, lb, lc, ld, le, lt
    <2>. QED BY <2>3 DEF InfoAt, type, target, dev, p, l, a, b, c, d, e, t, g
  <1>. QED BY <1>5, <1>6, <1>8, <1>9 DEF all

\* An entry of the metadata is read as it was written: FileInfo::serialize, deserialize.
LEMMA InfoRead ==
    ASSUME NEW f \in Entry, Sized(f), NEW data, NEW off, At(data, off, serializeInfo(f))
    PROVE  deserializeInfo(data, off) =
               [next |-> off + Len(serializeInfo(f)), info |-> Info(f)]
  <1> DEFINE ty == off + W16 + Len(f.path)
             ta == ty + 2 * W16 + W32 + W64
             de == ta + W16 + Len(f.target)
  <1>1. Widths /\ Len(f.path) \in Nat /\ Len(f.target) \in Nat /\ off \in Nat
    BY WidthsAre, EntryFacts DEF At
  <1>2. InfoAt(data, off, f)
    BY InfoPieces
  <1>3. /\ At(data, off, Str(f.path)) /\ At(data, ty, LE(f.type, W16))
        /\ At(data, ty + W16, LE(f.perm, W16)) /\ At(data, ty + 2 * W16, LE(f.owner, W32))
        /\ At(data, ta - W64, LE(f.mtime, W64)) /\ At(data, ta, Str(f.target))
        /\ At(data, de, IF f.type = Device THEN LE(f.dev, W64) ELSE <<>>)
    BY <1>2 DEF InfoAt
  <1>4. /\ ty - off - W16 = Len(f.path) /\ de - ta - W16 = Len(f.target)
        /\ off + Len(serializeInfo(f)) = IF f.type = Device THEN de + W64 ELSE de
    <2>1. Len(serializeInfo(f)) =
              3 * W16 + Len(f.path) + W16 + W32 + W64 + Len(f.target)
              + (IF f.type = Device THEN W64 ELSE 0)
      BY InfoPieces
    <2> DEFINE p == Len(f.path)
               l == Len(f.target)
               all == Len(serializeInfo(f))
               g == IF f.type = Device THEN W64 ELSE 0
    <2>2. /\ ty = off + W16 + p /\ ta = ty + 2 * W16 + W32 + W64 /\ de = ta + W16 + l
          /\ p \in Nat /\ l \in Nat /\ all = 3 * W16 + p + W16 + W32 + W64 + l + g
          /\ (f.type = Device => g = W64) /\ (f.type # Device => g = 0)
      BY <1>1, <2>1
    <2> HIDE DEF ty, ta, de, p, l, all, g
    <2>3. ty - off - W16 = p /\ de - ta - W16 = l
          /\ off + all = IF f.type = Device THEN de + W64 ELSE de
      BY <1>1, <2>2 DEF Widths
    <2>. QED BY <2>3 DEF p, l, all
  <1> HIDE DEF ty, ta, de
  <1>5. /\ Fits(Len(f.path), W16) /\ Fits(Len(f.target), W16)
        /\ Fits(f.type, W16) /\ Fits(f.perm, W16) /\ Fits(f.owner, W32)
        /\ Fits(f.mtime, W64) /\ Fits(f.dev, W64) /\ (f.type # Device => f.dev = 0)
    BY DEF Sized
  <1>6. /\ Num(Slice(data, off, W16)) = Len(f.path)
        /\ Slice(data, off + W16, Len(f.path)) = f.path
    BY <1>3, <1>5, EntryFacts, AtString
  <1>7. /\ Num(Slice(data, ta, W16)) = Len(f.target)
        /\ Slice(data, ta + W16, Len(f.target)) = f.target
    BY <1>3, <1>5, EntryFacts, AtString
  <1>8. Num(Slice(data, ty, W16)) = f.type
    BY <1>1, <1>3, <1>5, EntryFacts, AtNumber DEF Widths
  <1>9. Num(Slice(data, ty + W16, W16)) = f.perm
    BY <1>1, <1>3, <1>5, EntryFacts, AtNumber DEF Widths
  <1>10. Num(Slice(data, ty + 2 * W16, W32)) = f.owner
    BY <1>1, <1>3, <1>5, EntryFacts, AtNumber DEF Widths
  <1>11. Num(Slice(data, ta - W64, W64)) = f.mtime
    BY <1>1, <1>3, <1>5, EntryFacts, AtNumber DEF Widths
  <1>12. (IF f.type = Device THEN Num(Slice(data, de, W64)) ELSE 0) = f.dev
    <2>1. CASE f.type = Device
      <3>1. At(data, de, LE(f.dev, W64))
        BY <1>3, <2>1
      <3>. QED BY <1>1, <1>5, <2>1, <3>1, EntryFacts, AtNumber DEF Widths
    <2>2. CASE f.type # Device
      BY <1>5, <2>2
    <2>. QED BY <2>1, <2>2
  <1>13. /\ off + W16 + Num(Slice(data, off, W16)) = ty
         /\ ty + 2 * W16 + W32 + W64 = ta
         /\ ta + W16 + Num(Slice(data, ta, W16)) = de
    BY <1>6, <1>7 DEF ty, ta, de
  <1> DEFINE found ==
        [next |-> IF f.type = Device THEN de + W64 ELSE de,
         info |-> [path |-> Slice(data, off + W16, ty - off - W16),
                   type |-> Num(Slice(data, ty, W16)),
                   perm |-> Num(Slice(data, ty + W16, W16)),
                   owner |-> Num(Slice(data, ty + 2 * W16, W32)),
                   mtime |-> Num(Slice(data, ta - W64, W64)),
                   target |-> Slice(data, ta + W16, de - ta - W16),
                   dev |-> IF f.type = Device THEN Num(Slice(data, de, W64)) ELSE 0]]
  <1>14. deserializeInfo(data, off) = found
    BY <1>8, <1>13 DEF deserializeInfo
  <1>15. found = [next |-> off + Len(serializeInfo(f)), info |-> Info(f)]
    BY <1>4, <1>6, <1>7, <1>8, <1>9, <1>10, <1>11, <1>12 DEF Info
  <1>. QED BY <1>14, <1>15

Entries(list) == list \in Seq(Entry) /\ \A i \in 1 .. Len(list) : Sized(list[i])

MetaPiece(f) == LE(Len(serializeInfo(f)), W32) \o serializeInfo(f)

LEMMA MetaPieces ==
    ASSUME NEW list, Entries(list)
    PROVE  \E f : /\ Builds(f, [i \in 1 .. Len(list) |-> MetaPiece(list[i])], Len(list), Byte)
                  /\ serialize(list) = LE(Len(list), W32) \o f[Len(list)]
                  /\ serialize(list) \in Seq(Byte)
                  /\ At(serialize(list), 0, LE(Len(list), W32))
                  /\ At(serialize(list), W32, f[Len(list)])
                  /\ Len(list) \in Nat /\ Len(list) <= Len(serialize(list))
  <1> DEFINE n == Len(list)
             pieces == [i \in 1 .. n |-> MetaPiece(list[i])]
  <1>1. n \in Nat /\ W32 \in Nat \ {0} /\ \A i \in 1 .. n : list[i] \in Entry
    <2>1. list \in Seq(Entry)
      BY DEF Entries
    <2>2. n \in Nat /\ \A i \in 1 .. n : list[i] \in Entry
      BY <2>1
    <2>. QED BY <2>2, RadixFacts
  <1>2. ASSUME NEW i \in 1 .. n
        PROVE  MetaPiece(list[i]) \in Seq(Byte) /\ Len(MetaPiece(list[i])) >= 1
    <2> DEFINE a == LE(Len(serializeInfo(list[i])), W32)
               b == serializeInfo(list[i])
    <2>1. b \in Seq(Byte)
      BY <1>1, InfoPieces
    <2>2. Len(b) \in Nat
      BY <2>1
    <2>3. a \in Seq(Byte) /\ Len(a) = W32
      BY <1>1, <2>2, LEBytes
    <2> HIDE DEF a, b
    <2>4. a \o b \in Seq(Byte) /\ Len(a \o b) = Len(a) + Len(b)
      BY <2>1, <2>3, Concatenated
    <2>5. W32 + Len(b) >= 1
      BY <1>1, <2>2
    <2>. QED BY <2>3, <2>4, <2>5 DEF MetaPiece, a, b
  <1>3. pieces \in [1 .. n -> Seq(Byte)]
    BY <1>2
  <1>4. serialize(list) = LE(n, W32) \o FlattenSeq(pieces)
    BY DEF serialize, MetaPiece
  <1>5. \A i \in 1 .. n : Len(pieces[i]) >= 1
    BY <1>2
  <1> HIDE DEF pieces
  <1>6. PICK f : Builds(f, pieces, n, Byte) /\ FlattenSeq(pieces) = f[n]
    BY <1>1, <1>3, FlattenIs
  <1>7. f \in [0 .. n -> Seq(Byte)] /\ f[0] = <<>>
    BY <1>6 DEF Builds
  <1>8. f[n] \in Seq(Byte)
    BY <1>1, <1>7
  <1>9. LE(n, W32) \in Seq(Byte) /\ Len(LE(n, W32)) = W32
    BY <1>1, LEBytes
  <1> DEFINE a == LE(n, W32)
             b == f[n]
             all == a \o b
  <1>10. all \in Seq(Byte) /\ Len(all) = Len(a) + Len(b)
    <2> HIDE DEF a, b
    <2>. QED BY <1>8, <1>9, Concatenated DEF a, b
  <1>11. At(all, 0, a) /\ At(all, 0 + Len(a), b)
    <2>1. At(all, 0, all)
      BY <1>10, AtSelf
    <2> HIDE DEF a, b
    <2>2. a \in Seq(Byte) /\ b \in Seq(Byte)
      BY <1>8, <1>9 DEF a, b
    <2>. QED BY <2>1, <2>2, AtParts
  <1> DEFINE P == {i \in 0 .. n : i <= Len(f[i])}
  <1>12. 0 .. n \subseteq P
    <2>1. 0 \in P
      BY <1>1, <1>7
    <2>2. ASSUME NEW i \in 1 .. n, i - 1 \in P PROVE i \in P
      <3>1. Len(f[i]) = Len(f[i - 1]) + Len(pieces[i]) /\ f[i - 1] \in Seq(Byte)
            /\ pieces[i] \in Seq(Byte)
        <4>1. Grows(f, pieces, i, Byte)
          BY <1>6, PrefixFacts
        <4>. QED BY <4>1 DEF Grows
      <3>2. Len(f[i - 1]) \in Nat /\ Len(pieces[i]) \in Nat
        BY <3>1
      <3>3. i - 1 <= Len(f[i - 1]) /\ Len(pieces[i]) >= 1
        BY <1>5, <2>2
      <3> DEFINE x == Len(f[i - 1])
                 y == Len(pieces[i])
                 z == Len(f[i])
      <3>4. z = x + y /\ x \in Nat /\ y \in Nat /\ i - 1 <= x /\ y >= 1
        BY <3>1, <3>2, <3>3
      <3> HIDE DEF x, y, z
      <3>5. i <= z
        BY <3>4
      <3>6. i \in 0 .. n
        OBVIOUS
      <3>. QED BY <3>5, <3>6 DEF z
    <2> HIDE DEF P
    <2>. QED BY <1>1, <2>1, <2>2, Kept
  <1>13. n <= Len(b) /\ Len(b) \in Nat
    <2>1. n \in P
      BY <1>1, <1>12
    <2>. QED BY <1>8, <2>1
  <1>14. n <= Len(all) /\ 0 + Len(a) = W32
    <2> DEFINE x == Len(all)
               y == Len(b)
    <2>1. x = W32 + y /\ y \in Nat /\ n <= y
      BY <1>9, <1>10, <1>13
    <2> HIDE DEF x, y, a, b, all, n
    <2>2. n <= x
      BY <1>1, <2>1
    <2>3. 0 + W32 = W32
      BY <1>1
    <2>. QED BY <1>9, <2>2, <2>3 DEF x, a
  <1>15. serialize(list) = all
    BY <1>4, <1>6
  <1> HIDE DEF all, b, P
  <1>16. /\ Builds(f, pieces, n, Byte) /\ serialize(list) = LE(n, W32) \o f[n]
         /\ serialize(list) \in Seq(Byte)
         /\ At(serialize(list), 0, LE(n, W32)) /\ At(serialize(list), W32, f[n])
         /\ n \in Nat /\ n <= Len(serialize(list))
    BY <1>1, <1>4, <1>6, <1>10, <1>11, <1>14, <1>15 DEF b
  <1>. QED BY <1>16 DEF pieces

\* The metadata is read as it was written: MetadataSerializer.
LEMMA MetadataRead ==
    ASSUME NEW list, Entries(list), Fits(Len(serialize(list)), W32)
    PROVE  deserialize(serialize(list)) = [i \in 1 .. Len(list) |-> Info(list[i])]
  <1> DEFINE n == Len(list)
             data == serialize(list)
             pieces == [i \in 1 .. n |-> MetaPiece(list[i])]
             count == Num(Slice(data, 0, W32))
  <1>1. PICK f : /\ Builds(f, pieces, n, Byte) /\ data \in Seq(Byte)
                 /\ At(data, 0, LE(n, W32)) /\ At(data, W32, f[n])
                 /\ n \in Nat /\ n <= Len(data)
    BY MetaPieces
  <1>2. W32 \in Nat /\ \A i \in 1 .. n : list[i] \in Entry /\ Sized(list[i])
    <2>1. list \in Seq(Entry) /\ \A i \in 1 .. n : Sized(list[i])
      BY DEF Entries
    <2>2. \A i \in 1 .. n : list[i] \in Entry
      BY <2>1
    <2>. QED BY <2>1, <2>2, RadixFacts
  <1>3. Fits(n, W32)
    <2>1. Len(data) \in Nat
      BY <1>1
    <2>. QED BY <1>1, <1>2, <2>1, SmallerFits
  <1>4. count = n
    BY <1>1, <1>2, <1>3, AtNumber
  <1>5. ASSUME NEW i \in 1 .. n
        PROVE  /\ deserializeInfo(data, W32 + Len(f[i - 1]) + W32) =
                      [next |-> W32 + Len(f[i]), info |-> Info(list[i])]
               /\ Len(f[i - 1]) \in Nat
    <2> DEFINE e == list[i]
               b == serializeInfo(e)
               a == LE(Len(b), W32)
    <2>1. At(f[n], Len(f[i - 1]), pieces[i])
      BY <1>1, PieceAt
    <2>2. pieces[i] = a \o b
      BY DEF MetaPiece
    <2>3. e \in Entry /\ Sized(e)
      BY <1>2
    <2>4. b \in Seq(Byte)
      BY <2>3, InfoPieces
    <2>5. Len(b) \in Nat
      BY <2>4
    <2>6. a \in Seq(Byte) /\ Len(a) = W32
      BY <1>2, <2>5, LEBytes
    <2> HIDE DEF data, e, a, b, pieces
    <2>7. At(data, W32 + Len(f[i - 1]), a \o b)
      BY <1>1, <2>1, <2>2, AtWithin
    <2>8. /\ At(data, W32 + Len(f[i - 1]) + Len(a), b) /\ Len(a \o b) = Len(a) + Len(b)
      <3>1. At(data, W32 + Len(f[i - 1]) + Len(a), b)
        BY <2>4, <2>6, <2>7, AtParts
      <3>2. Len(a \o b) = Len(a) + Len(b)
        BY <2>4, <2>6, Concatenated
      <3>. QED BY <3>1, <3>2
    <2>9. deserializeInfo(data, W32 + Len(f[i - 1]) + W32) =
              [next |-> W32 + Len(f[i - 1]) + W32 + Len(b), info |-> Info(e)]
      BY <2>3, <2>6, <2>8, InfoRead DEF b
    <2>10. /\ Len(f[i]) = Len(f[i - 1]) + Len(pieces[i])
           /\ f[i - 1] \in Seq(Byte)
      <3>1. Grows(f, pieces, i, Byte)
        BY <1>1, PrefixFacts
      <3>. QED BY <3>1 DEF Grows
    <2>11. Len(f[i - 1]) \in Nat
      BY <2>10
    <2> DEFINE x == Len(f[i - 1])
               y == Len(f[i])
               k == Len(b)
    <2>12. y = x + (W32 + k) /\ x \in Nat /\ k \in Nat
      BY <2>2, <2>5, <2>6, <2>8, <2>10, <2>11
    <2> HIDE DEF x, y, k
    <2>13. W32 + x + W32 + k = W32 + y
      BY <1>2, <2>12
    <2>. QED BY <2>9, <2>11, <2>13 DEF x, y, k, e
  <1>6. f[0] = <<>> /\ W32 + Len(f[0]) = W32
    BY <1>1, <1>2 DEF Builds
  <1> DEFINE Body(h) == [i \in 0 .. count |->
                            IF i = 0 THEN [next |-> W32]
                            ELSE deserializeInfo(data, h[i - 1].next + W32)]
             read == CHOOSE h : h = Body(h)
             g == [i \in 0 .. count |->
                      IF i = 0 THEN [next |-> W32]
                      ELSE [next |-> W32 + Len(f[i]), info |-> Info(list[i])]]
  <1>7. deserialize(data) = [i \in 1 .. count |-> read[i].info]
    BY DEF deserialize
  <1> HIDE DEF data, count, pieces
  <1>8. g = Body(g)
    <2>1. ASSUME NEW i \in 0 .. n
          PROVE  g[i] = IF i = 0 THEN [next |-> W32]
                        ELSE deserializeInfo(data, g[i - 1].next + W32)
      <3>1. CASE i = 0
        BY <1>4, <3>1
      <3>2. CASE i # 0
        <4>1. i \in 1 .. n /\ i - 1 \in 0 .. n
          BY <1>1, <3>2
        <4>2. g[i - 1].next = W32 + Len(f[i - 1])
          <5>1. CASE i - 1 = 0
            BY <1>4, <1>6, <4>1, <5>1
          <5>2. CASE i - 1 # 0
            BY <1>4, <4>1, <5>2
          <5>. QED BY <5>1, <5>2
        <4>3. g[i] = [next |-> W32 + Len(f[i]), info |-> Info(list[i])]
          BY <1>4, <3>2
        <4>. QED BY <1>5, <3>2, <4>1, <4>2, <4>3
      <3>. QED BY <3>1, <3>2
    <2>2. g = [i \in 0 .. n |-> g[i]]
      BY <1>4
    <2> HIDE DEF g
    <2>. QED BY <1>4, <2>1, <2>2
  <1>9. read = Body(read)
    <2> HIDE DEF g
    <2>. QED BY <1>8
  <1> HIDE DEF read, g
  <1>10. \A i \in 0 .. n : read[i] = IF i = 0 THEN [next |-> W32]
                                     ELSE deserializeInfo(data, read[i - 1].next + W32)
    BY <1>4, <1>9
  <1> DEFINE P == {i \in 0 .. n : read[i].next = W32 + Len(f[i])}
  <1>11. 0 \in P
    BY <1>1, <1>6, <1>10
  <1>12. ASSUME NEW i \in 1 .. n, i - 1 \in P
         PROVE  read[i] = [next |-> W32 + Len(f[i]), info |-> Info(list[i])]
    <2>1. read[i - 1].next = W32 + Len(f[i - 1]) /\ i # 0 /\ i \in 0 .. n
      BY <1>12
    <2>2. read[i] = deserializeInfo(data, read[i - 1].next + W32)
      BY <1>10, <2>1
    <2>. QED BY <1>5, <2>1, <2>2
  <1>13. 0 .. n \subseteq P
    <2>1. ASSUME NEW i \in 1 .. n, i - 1 \in P PROVE i \in P
      <3>1. read[i] = [next |-> W32 + Len(f[i]), info |-> Info(list[i])]
        BY <1>12, <2>1
      <3>2. read[i].next = W32 + Len(f[i])
        BY <3>1
      <3>3. i \in 0 .. n
        BY <1>1
      <3>. QED BY <3>2, <3>3
    <2> HIDE DEF P
    <2>. QED BY <1>1, <1>11, <2>1, Kept
  <1>14. ASSUME NEW i \in 1 .. n PROVE read[i].info = Info(list[i])
    <2>1. i - 1 \in 0 .. n
      BY <1>1
    <2>2. i - 1 \in P
      BY <1>13, <2>1
    <2> HIDE DEF P
    <2>3. read[i] = [next |-> W32 + Len(f[i]), info |-> Info(list[i])]
      BY <1>12, <2>2
    <2>. QED BY <2>3
  <1>15. deserialize(data) = [i \in 1 .. n |-> Info(list[i])]
    BY <1>4, <1>7, <1>14
  <1>. QED BY <1>15 DEF data

Algos == [pack : 0 .. 2, compress : 0 .. 2, encrypt : 0 .. 2]

LEMMA FlagBits ==
    ASSUME NEW a \in Algos
    PROVE  /\ Flags(a) \in 0 .. 7
           /\ (Flags(a) \div 1) % 2 = IF a.pack # 0 THEN 1 ELSE 0
           /\ (Flags(a) \div 2) % 2 = IF a.compress # 0 THEN 1 ELSE 0
           /\ (Flags(a) \div 4) % 2 = IF a.encrypt # 0 THEN 1 ELSE 0
  <1> DEFINE p == IF a.pack # 0 THEN 1 ELSE 0
             c == IF a.compress # 0 THEN 1 ELSE 0
             e == IF a.encrypt # 0 THEN 1 ELSE 0
  <1>1. p \in {0, 1} /\ c \in {0, 1} /\ e \in {0, 1}
    OBVIOUS
  <1>2. Flags(a) = p + 2 * c + 4 * e
    BY DEF Flags
  <1> HIDE DEF p, c, e
  <1>3. /\ p + 2 * c + 4 * e \in 0 .. 7
        /\ ((p + 2 * c + 4 * e) \div 1) % 2 = p
        /\ ((p + 2 * c + 4 * e) \div 2) % 2 = c
        /\ ((p + 2 * c + 4 * e) \div 4) % 2 = e
    BY <1>1
  <1>. QED BY <1>2, <1>3 DEF p, c, e

LEMMA SmallBytes ==
    /\ \A n \in 0 .. 3 : n \in Byte
    /\ \A a \in Algos : /\ <<a.pack, a.compress, a.encrypt>> \in Seq(Byte)
                        /\ a.pack \in 0 .. 2 /\ a.compress \in 0 .. 2 /\ a.encrypt \in 0 .. 2
  <1>1. \A n \in 0 .. 3 : n \in Byte
    <2>1. 3 \in Byte /\ Radix \in Nat
      BY PackingAssumption, RadixFacts DEF PackingAssumption, Symlink
    <2>. QED BY <2>1 DEF Byte
  <1>2. ASSUME NEW a \in Algos
        PROVE  /\ <<a.pack, a.compress, a.encrypt>> \in Seq(Byte)
               /\ a.pack \in 0 .. 2 /\ a.compress \in 0 .. 2 /\ a.encrypt \in 0 .. 2
    <2>1. a.pack \in 0 .. 2 /\ a.compress \in 0 .. 2 /\ a.encrypt \in 0 .. 2
      BY DEF Algos
    <2>2. a.pack \in Byte /\ a.compress \in Byte /\ a.encrypt \in Byte
      BY <1>1, <2>1
    <2>. QED BY <2>1, <2>2
  <1>. QED BY <1>1, <1>2

Small(list) == Fits(Len(serialize(list)), W32)

\* What a restore reads is what was written: MetadataStore.
LEMMA HeaderRead ==
    ASSUME Entries(files), Small(files), algos \in Algos, NEW y \in Seq(Byte)
    PROVE  /\ saveHeader \in Seq(Byte)
           /\ LET file == saveHeader \o y IN
              loadHeader(file) =
                [ok |-> TRUE, algos |-> algos,
                 files |-> [i \in 1 .. Len(files) |-> Info(files[i])],
                 start |-> Len(saveHeader)]
  <1> DEFINE meta == serialize(files)
             a == LE(Magic, W32)
             b == LE(Version, W32)
             c == LE(Flags(algos), W32)
             d == <<algos.pack, algos.compress, algos.encrypt>>
             e == LE(Len(meta), W32)
             file == saveHeader \o y
             n == Len(meta)
  <1>1. meta \in Seq(Byte) /\ n \in Nat
    <2>1. meta \in Seq(Byte)
      BY MetaPieces
    <2>. QED BY <2>1
  <1>2. Widths /\ Magic \in Nat /\ Version \in Nat /\ Fits(7, W32)
    BY WidthsAre, InputAssumption DEF InputAssumption
  <1>3. Flags(algos) \in 0 .. 7 /\ Flags(algos) \in Nat
    <2>1. Flags(algos) \in 0 .. 7
      BY FlagBits
    <2>. QED BY <2>1
  <1>4. /\ a \in Seq(Byte) /\ b \in Seq(Byte) /\ c \in Seq(Byte) /\ e \in Seq(Byte)
        /\ Len(a) = W32 /\ Len(b) = W32 /\ Len(c) = W32 /\ Len(e) = W32
    BY <1>1, <1>2, <1>3, LEBytes DEF Widths
  <1>5. d \in Seq(Byte) /\ Len(d) = 3
    BY SmallBytes
  <1>6. saveHeader = a \o b \o c \o d \o e \o meta
    BY DEF saveHeader
  <1>7. /\ d[1] = algos.pack /\ d[2] = algos.compress /\ d[3] = algos.encrypt
    OBVIOUS
  <1>8. Fits(n, W32) /\ Fits(Flags(algos), W32)
    BY <1>2, <1>3, SmallerFits DEF Small, Widths
  <1> HIDE DEF a, b, c, d, e, meta
  <1>9. /\ file \in Seq(Byte) /\ At(file, 0, file)
        /\ file = a \o b \o c \o d \o e \o meta \o y
        /\ SevenAt(file, 0, a, b, c, d, e, meta, y)
    <2> DEFINE all == a \o b \o c \o d \o e \o meta \o y
    <2>1. /\ all \in Seq(Byte)
          /\ \A data, off : At(data, off, all) => SevenAt(data, off, a, b, c, d, e, meta, y)
      BY <1>1, <1>4, <1>5, SevenPieces
    <2>2. file = all
      BY <1>6
    <2> HIDE DEF all
    <2>. QED BY <2>1, <2>2, AtSelf DEF all
  <1>10. /\ saveHeader \in Seq(Byte) /\ Len(saveHeader) = HeaderLength + n
    <2> DEFINE s2 == a \o b
               s3 == s2 \o c
               s4 == s3 \o d
               s5 == s4 \o e
               s6 == s5 \o meta
    <2>1. s2 \in Seq(Byte) /\ Len(s2) = Len(a) + Len(b)
      BY <1>4, Concatenated
    <2> HIDE DEF s2
    <2>2. s3 \in Seq(Byte) /\ Len(s3) = Len(s2) + Len(c)
      BY <1>4, <2>1, Concatenated
    <2> HIDE DEF s3
    <2>3. s4 \in Seq(Byte) /\ Len(s4) = Len(s3) + Len(d)
      BY <1>5, <2>2, Concatenated
    <2> HIDE DEF s4
    <2>4. s5 \in Seq(Byte) /\ Len(s5) = Len(s4) + Len(e)
      BY <1>4, <2>3, Concatenated
    <2> HIDE DEF s5
    <2>5. s6 \in Seq(Byte) /\ Len(s6) = Len(s5) + Len(meta)
      BY <1>1, <2>4, Concatenated
    <2>6. saveHeader = s6
      BY <1>6 DEF s2, s3, s4, s5
    <2> HIDE DEF s6
    <2>7. Len(s6) = W32 + W32 + W32 + 3 + W32 + n
      BY <1>4, <1>5, <2>1, <2>2, <2>3, <2>4, <2>5 DEF meta
    <2>8. W32 + W32 + W32 + 3 + W32 + n = 4 * W32 + 3 + n
      BY <1>1, <1>2 DEF Widths
    <2>. QED BY <2>5, <2>6, <2>7, <2>8 DEF HeaderLength
  <1>11. /\ At(file, 0, a) /\ At(file, 2 * W32, c) /\ At(file, 3 * W32, d)
         /\ At(file, 3 * W32 + 3, e) /\ At(file, HeaderLength, meta)
    <2>1. LET m == Len(a) + Len(b) + Len(c) + Len(d) + Len(e) IN
          /\ At(file, 0, a) /\ At(file, 0 + (Len(a) + Len(b)), c)
          /\ At(file, 0 + (Len(a) + Len(b) + Len(c)), d)
          /\ At(file, 0 + (m - Len(e)), e) /\ At(file, 0 + m, meta)
      BY <1>9 DEF SevenAt
    <2>2. /\ 0 + (W32 + W32) = 2 * W32 /\ 0 + (W32 + W32 + W32) = 3 * W32
          /\ 0 + (W32 + W32 + W32 + 3 + W32 - W32) = 3 * W32 + 3
          /\ 0 + (W32 + W32 + W32 + 3 + W32) = 4 * W32 + 3
      BY <1>2 DEF Widths
    <2>. QED BY <1>4, <1>5, <2>1, <2>2 DEF HeaderLength
  <1>12. Slice(file, 0, W32) = LE(Magic, W32)
    BY <1>4, <1>11, AtSlice DEF a
  <1>13. Num(Slice(file, 2 * W32, W32)) = Flags(algos)
    BY <1>2, <1>3, <1>8, <1>11, AtNumber DEF c, Widths
  <1>14. Num(Slice(file, 3 * W32 + 3, W32)) = n
    BY <1>1, <1>2, <1>8, <1>11, AtNumber DEF e, Widths
  <1>15. Slice(file, HeaderLength, n) = meta
    BY <1>11, AtSlice
  <1>16. deserialize(meta) = [i \in 1 .. Len(files) |-> Info(files[i])]
    BY MetadataRead DEF Small, meta
  <1>17. /\ file[3 * W32 + 1] = algos.pack /\ file[3 * W32 + 2] = algos.compress
         /\ file[3 * W32 + 3] = algos.encrypt
    <2>1. \A i \in 1 .. 3 : file[3 * W32 + i] = d[i]
      BY <1>5, <1>11 DEF At
    <2> HIDE DEF file
    <2>2. file[3 * W32 + 1] = d[1] /\ file[3 * W32 + 2] = d[2] /\ file[3 * W32 + 3] = d[3]
      <3>1. 1 \in 1 .. 3 /\ 2 \in 1 .. 3 /\ 3 \in 1 .. 3
        OBVIOUS
      <3>. QED BY <2>1, <3>1
    <2>. QED BY <1>7, <2>2
  <1> DEFINE flags == Num(Slice(file, 2 * W32, W32))
             algo(i, bit) == IF (flags \div bit) % 2 = 1 THEN file[3 * W32 + i] ELSE 0
             read == [pack |-> algo(1, 1), compress |-> algo(2, 2), encrypt |-> algo(3, 4)]
             size == Num(Slice(file, 3 * W32 + 3, W32))
  <1>18. read = algos
    <2> HIDE DEF file
    <2>1. algos.pack \in 0 .. 2 /\ algos.compress \in 0 .. 2 /\ algos.encrypt \in 0 .. 2
      BY SmallBytes
    <2>2. /\ (flags \div 1) % 2 = (IF algos.pack # 0 THEN 1 ELSE 0)
          /\ (flags \div 2) % 2 = (IF algos.compress # 0 THEN 1 ELSE 0)
          /\ (flags \div 4) % 2 = (IF algos.encrypt # 0 THEN 1 ELSE 0)
      BY <1>13, FlagBits
    <2> HIDE DEF flags
    <2>3. algo(1, 1) = algos.pack /\ algo(2, 2) = algos.compress /\ algo(3, 4) = algos.encrypt
      BY <1>17, <2>1, <2>2
    <2> HIDE DEF algo
    <2>. QED BY <2>3 DEF Algos
  <1>19. loadHeader(file) =
            [ok |-> Slice(file, 0, W32) = LE(Magic, W32), algos |-> read,
             files |-> deserialize(Slice(file, HeaderLength, size)),
             start |-> HeaderLength + size]
    BY DEF loadHeader
  <1> HIDE DEF file, read
  <1>20. loadHeader(file) = [ok |-> TRUE, algos |-> algos,
                             files |-> [i \in 1 .. Len(files) |-> Info(files[i])],
                             start |-> Len(saveHeader)]
    BY <1>10, <1>12, <1>14, <1>15, <1>16, <1>18, <1>19
  <1>. QED BY <1>10, <1>20 DEF file

LEMMA EncryptedBytes ==
    ASSUME NEW x \in Seq(Byte), NEW word \in Seq(Byte), word # <<>>
    PROVE  XorEncrypt(x, word) \in Seq(Byte) /\ VigenereEncrypt(x, word) \in Seq(Byte)
  <1> DEFINE size == LE(Len(x), W64)
             y == [i \in 1 .. Len(x) |-> (x[i] + KeyByte(word, i)) % Radix]
             z == crypt(x, word)
  <1>0. Len(x) \in Nat /\ W64 \in Nat
    BY RadixFacts
  <1>1. size \in Seq(Byte)
    BY <1>0, LEBytes
  <1>2. y \in Seq(Byte)
    <2>1. ASSUME NEW i \in 1 .. Len(x)
          PROVE  (x[i] + KeyByte(word, i)) % Radix \in Byte
      BY AddedTakenOff, KeyBytes
    <2>. QED BY <2>1
  <1>3. z \in Seq(Byte)
    <2> DEFINE key == Stream(word, Discard + Len(x))
    <2>1. Discard \in Nat /\ Discard + Len(x) \in Nat
      BY <1>0, GeneratorAssumption DEF GeneratorAssumption
    <2>2. key \in [0 .. Discard + Len(x) -> Byte]
      BY <2>1, StreamBytes
    <2>3. ASSUME NEW i \in 1 .. Len(x) PROVE Xor(x[i], key[Discard + i]) \in Byte
      <3>1. Discard + i \in 0 .. Discard + Len(x) /\ x[i] \in Byte
        BY <1>0, <2>1
      <3>2. key[Discard + i] \in Byte
        BY <2>2, <3>1
      <3>. QED BY <3>1, <3>2, XorAssumption DEF XorAssumption
    <2>4. z = [i \in 1 .. Len(x) |-> Xor(x[i], key[Discard + i])]
      BY DEF crypt
    <2> HIDE DEF key, z
    <2>. QED BY <1>0, <2>3, <2>4
  <1>4. VigenereEncrypt(x, word) = size \o y /\ XorEncrypt(x, word) = size \o z
    BY DEF VigenereEncrypt, XorEncrypt
  <1> HIDE DEF size, y, z
  <1>. QED BY <1>1, <1>2, <1>3, <1>4, Concatenated

LEMMA RleBytes ==
    ASSUME NEW x \in Seq(Byte)
    PROVE  RleCompress(x) \in Seq(Byte)
  <1> DEFINE size == LE(Len(x), W64)
  <1>0. Len(x) \in Nat /\ W64 \in Nat
    BY RadixFacts
  <1>1. size \in Seq(Byte)
    BY <1>0, LEBytes
  <1> HIDE DEF size
  <1>2. PICK B : Blocks(x, B) /\ RleCompress(x) = size \o B[0]
    BY BlocksOf DEF size
  <1>3. B \in [0 .. Len(x) -> Seq(Byte)]
    BY <1>2 DEF Blocks
  <1>4. B[0] \in Seq(Byte)
    BY <1>0, <1>3
  <1>. QED BY <1>1, <1>2, <1>4, Concatenated

-----------------------------------------------------------------------------
(* The Huffman tree *)

Code == Seq({0, 1})

\* Two codes differ at a bit that both have.
Disagree(x, y) == \E k \in 1 .. Len(x) : k <= Len(y) /\ x[k] # y[k]

PrefixFree(codes) ==
    \A b, c \in DOMAIN codes : b # c => Disagree(codes[b], codes[c])

Codes == UNION {[S -> Code] : S \in SUBSET Byte}

Tree == [frequency : Nat, codes : Codes]

Bytes(t) == DOMAIN t.codes

Forest(F, used) ==
    /\ F \subseteq Tree /\ IsFiniteSet(F) /\ F # {}
    /\ \A t \in F : Bytes(t) # {} /\ PrefixFree(t.codes)
    /\ \A t, u \in F : t # u => Bytes(t) \cap Bytes(u) = {}
    /\ UNION {Bytes(t) : t \in F} = used

LEMMA TreeFacts ==
    ASSUME NEW t \in Tree
    PROVE  /\ t.frequency \in Nat /\ Bytes(t) \subseteq Byte
           /\ \A b \in Bytes(t) : t.codes[b] \in Code
  <1>1. t.frequency \in Nat /\ t.codes \in Codes
    BY DEF Tree
  <1>2. PICK S \in SUBSET Byte : t.codes \in [S -> Code]
    BY <1>1 DEF Codes
  <1>. QED BY <1>1, <1>2 DEF Bytes

LEMMA CodesAre ==
    ASSUME NEW S, S \subseteq Byte, NEW c \in [S -> Code] PROVE c \in Codes
  BY DEF Codes

LEMMA Wraps ==
    ASSUME NEW n \in Nat, NEW w \in Nat PROVE Wrapped(n, w) \in Nat
  <1> DEFINE b == LE(n, w)
  <1>1. b \in Seq(Byte) /\ Byte \subseteq Nat
    BY LEBytes, RadixFacts
  <1> HIDE DEF b
  <1>2. b \in Seq(Nat) /\ Radix \in Nat /\ Len(b) \in Nat
    <2>1. b \in Seq(Nat)
      BY <1>1, SeqOfMore
    <2>. QED BY <2>1, RadixFacts
  <1>3. PICK f : Sums(f, b, Radix) /\ Value(b, Radix) = f[Len(b)]
    BY <1>2, ValueStep
  <1>4. f[Len(b)] \in Nat
    BY <1>2, <1>3 DEF Sums
  <1>. QED BY <1>3, <1>4 DEF Wrapped, Num, b

LEMMA LightestIs ==
    ASSUME NEW F \in SUBSET Tree, F # {} PROVE Lightest(F) \in F
  <1> DEFINE S == {t.frequency : t \in F}
  <1>1. S \subseteq Nat /\ S # {}
    BY TreeFacts
  <1> HIDE DEF S
  <1>2. Min(S) \in S /\ \A x \in S : Min(S) <= x
    BY <1>1, MinIs
  <1>3. PICK t \in F : t.frequency = Min(S)
    BY <1>2 DEF S
  <1>4. \A u \in F : t.frequency <= u.frequency
    BY <1>2, <1>3 DEF S
  <1>. QED BY <1>4 DEF Lightest

\* A bit in front of two codes.
LEMMA BitInFront ==
    ASSUME NEW a \in {0, 1}, NEW b \in {0, 1}, NEW x \in Code, NEW y \in Code
    PROVE  /\ <<a>> \o x \in Code
           /\ a # b => Disagree(<<a>> \o x, <<b>> \o y)
           /\ Disagree(x, y) => Disagree(<<a>> \o x, <<a>> \o y)
  <1> DEFINE u == <<a>> \o x
             v == <<b>> \o y
             w == <<a>> \o y
  <1>1. /\ u \in Code /\ Len(u) = Len(x) + 1 /\ u[1] = a
        /\ \A k \in 1 .. Len(x) : u[k + 1] = x[k]
    BY DEF Code
  <1>2. /\ v \in Code /\ Len(v) = Len(y) + 1 /\ v[1] = b
        /\ \A k \in 1 .. Len(y) : v[k + 1] = y[k]
    BY DEF Code
  <1>3. /\ w \in Code /\ Len(w) = Len(y) + 1 /\ w[1] = a
        /\ \A k \in 1 .. Len(y) : w[k + 1] = y[k]
    BY DEF Code
  <1>4. Len(x) \in Nat /\ Len(y) \in Nat
    BY DEF Code
  <1> HIDE DEF u, v, w
  <1>5. ASSUME a # b PROVE Disagree(u, v)
    <2>1. 1 \in 1 .. Len(u) /\ 1 <= Len(v) /\ u[1] # v[1]
      BY <1>1, <1>2, <1>4, <1>5
    <2>. QED BY <2>1 DEF Disagree
  <1>6. ASSUME Disagree(x, y) PROVE Disagree(u, w)
    <2>1. PICK k \in 1 .. Len(x) : k <= Len(y) /\ x[k] # y[k]
      BY <1>6 DEF Disagree
    <2>2. k \in 1 .. Len(y)
      BY <1>4, <2>1
    <2>3. u[k + 1] = x[k] /\ w[k + 1] = y[k]
      BY <1>1, <1>3, <2>2
    <2>4. k + 1 \in 1 .. Len(u) /\ k + 1 <= Len(w)
      BY <1>1, <1>3, <1>4, <2>1, <2>2
    <2>. QED BY <2>1, <2>3, <2>4 DEF Disagree
  <1>. QED BY <1>1, <1>5, <1>6 DEF u, v, w

\* Two trees of different bytes make a tree: HuffmanCompressStrategy::buildTree.
LEMMA JoinIs ==
    ASSUME NEW left \in Tree, NEW right \in Tree, Bytes(left) \cap Bytes(right) = {},
           PrefixFree(left.codes), PrefixFree(right.codes)
    PROVE  /\ Join(left, right) \in Tree
           /\ Bytes(Join(left, right)) = Bytes(left) \cup Bytes(right)
           /\ PrefixFree(Join(left, right).codes)
  <1> DEFINE S == Bytes(left) \cup Bytes(right)
             c == [b \in S |-> IF b \in Bytes(left) THEN <<0>> \o left.codes[b]
                                                    ELSE <<1>> \o right.codes[b]]
             f == Wrapped(left.frequency + right.frequency, WFreq)
  <1>1. f \in Nat
    <2>1. left.frequency + right.frequency \in Nat
      BY TreeFacts
    <2>2. WFreq \in Nat
      BY BitsAssumption DEF BitsAssumption
    <2>. QED BY <2>1, <2>2, Wraps
  <1>2. /\ Bytes(left) \subseteq Byte /\ Bytes(right) \subseteq Byte
        /\ \A b \in Bytes(left) : left.codes[b] \in Code
        /\ \A b \in Bytes(right) : right.codes[b] \in Code
    BY TreeFacts
  <1>3. ASSUME NEW b \in S PROVE c[b] \in Code
    <2>1. CASE b \in Bytes(left)
      <3>1. left.codes[b] \in Code
        BY <1>2, <2>1
      <3>2. <<0>> \o left.codes[b] \in Code
        BY <3>1, BitInFront
      <3>. QED BY <2>1, <3>2
    <2>2. CASE b \notin Bytes(left)
      <3>1. right.codes[b] \in Code
        BY <1>2, <2>2
      <3>2. <<1>> \o right.codes[b] \in Code
        BY <3>1, BitInFront
      <3>. QED BY <2>2, <3>2
    <2>. QED BY <2>1, <2>2
  <1>4. Join(left, right) = [frequency |-> f, codes |-> c]
    BY DEF Join, Bytes
  <1>5. c \in [S -> Code] /\ S \subseteq Byte
    BY <1>2, <1>3
  <1>6. ASSUME NEW b \in S, NEW d \in S, b # d PROVE Disagree(c[b], c[d])
    <2>1. CASE b \in Bytes(left) /\ d \in Bytes(left)
      <3>1. Disagree(left.codes[b], left.codes[d])
        BY <1>6, <2>1 DEF PrefixFree, Bytes
      <3>2. Disagree(<<0>> \o left.codes[b], <<0>> \o left.codes[d])
        BY <1>2, <2>1, <3>1, BitInFront
      <3>. QED BY <2>1, <3>2
    <2>2. CASE b \notin Bytes(left) /\ d \notin Bytes(left)
      <3>1. b \in Bytes(right) /\ d \in Bytes(right)
        BY <2>2
      <3>2. Disagree(right.codes[b], right.codes[d])
        BY <1>6, <3>1 DEF PrefixFree, Bytes
      <3>3. Disagree(<<1>> \o right.codes[b], <<1>> \o right.codes[d])
        BY <1>2, <3>1, <3>2, BitInFront
      <3>. QED BY <2>2, <3>3
    <2>3. CASE b \in Bytes(left) /\ d \notin Bytes(left)
      <3>1. left.codes[b] \in Code /\ right.codes[d] \in Code
        BY <1>2, <2>3
      <3>2. Disagree(<<0>> \o left.codes[b], <<1>> \o right.codes[d])
        BY <3>1, BitInFront
      <3>. QED BY <2>3, <3>2
    <2>4. CASE b \notin Bytes(left) /\ d \in Bytes(left)
      <3>1. right.codes[b] \in Code /\ left.codes[d] \in Code
        BY <1>2, <2>4
      <3>2. Disagree(<<1>> \o right.codes[b], <<0>> \o left.codes[d])
        BY <3>1, BitInFront
      <3>. QED BY <2>4, <3>2
    <2>. QED BY <2>1, <2>2, <2>3, <2>4
  <1> HIDE DEF f, c, S
  <1>7. c \in Codes /\ DOMAIN c = S
    BY <1>5, CodesAre
  <1>8. PrefixFree(c)
    BY <1>6, <1>7 DEF PrefixFree
  <1>9. [frequency |-> f, codes |-> c] \in Tree
    BY <1>1, <1>7 DEF Tree
  <1>. QED BY <1>4, <1>7, <1>8, <1>9 DEF Bytes, S

\* What becomes of the trees when the two lightest are joined.
Joined(F) ==
    LET left == Lightest(F)
        right == Lightest(F \ {left})
    IN IF Cardinality(F) = 1 THEN F
       ELSE (F \ {left, right}) \cup {Join(left, right)}

LEMMA JoinedIs ==
    ASSUME NEW used, NEW F, Forest(F, used)
    PROVE  /\ Forest(Joined(F), used)
           /\ Cardinality(F) \in Nat \ {0}
           /\ Cardinality(Joined(F)) = IF Cardinality(F) = 1 THEN 1 ELSE Cardinality(F) - 1
  <1> DEFINE l == Lightest(F)
             r == Lightest(F \ {l})
             j == Join(l, r)
             rest == (F \ {l}) \ {r}
             G == rest \cup {j}
  <1>1. /\ F \subseteq Tree /\ IsFiniteSet(F) /\ F # {}
        /\ \A t \in F : Bytes(t) # {} /\ PrefixFree(t.codes)
        /\ \A t, u \in F : t # u => Bytes(t) \cap Bytes(u) = {}
        /\ UNION {Bytes(t) : t \in F} = used
    BY DEF Forest
  <1>2. Cardinality(F) \in Nat \ {0}
    BY <1>1, FS_CardinalityType, FS_EmptySet
  <1>3. CASE Cardinality(F) = 1
    <2>1. Joined(F) = F
      BY <1>3 DEF Joined
    <2>. QED BY <1>2, <1>3, <2>1
  <1>4. CASE Cardinality(F) # 1
    <2>1. l \in F
      BY <1>1, LightestIs
    <2> HIDE DEF l
    <2>2. IsFiniteSet(F \ {l}) /\ Cardinality(F \ {l}) = Cardinality(F) - 1
      BY <1>1, <2>1, FS_RemoveElement
    <2>3. F \ {l} # {}
      <3>1. Cardinality(F \ {l}) # 0
        BY <1>2, <1>4, <2>2
      <3>. QED BY <2>2, <3>1, FS_EmptySet
    <2>4. r \in F \ {l}
      <3>1. F \ {l} \in SUBSET Tree
        BY <1>1
      <3>. QED BY <2>3, <3>1, LightestIs
    <2> HIDE DEF r
    <2>5. IsFiniteSet(rest) /\ Cardinality(rest) = Cardinality(F) - 2
      <3>1. IsFiniteSet(rest) /\ Cardinality(rest) = Cardinality(F \ {l}) - 1
        BY <2>2, <2>4, FS_RemoveElement
      <3>. QED BY <1>2, <2>2, <3>1
    <2>6. /\ l \in Tree /\ r \in Tree /\ l # r /\ Bytes(l) \cap Bytes(r) = {}
          /\ PrefixFree(l.codes) /\ PrefixFree(r.codes) /\ r \in F
      BY <1>1, <2>1, <2>4
    <2>7. j \in Tree /\ Bytes(j) = Bytes(l) \cup Bytes(r) /\ PrefixFree(j.codes)
      BY <2>6, JoinIs
    <2> HIDE DEF j
    <2>8. ASSUME NEW t \in rest
          PROVE  t \in F /\ Bytes(t) \cap Bytes(j) = {} /\ t # j
      <3>1. t \in F /\ t # l /\ t # r
        OBVIOUS
      <3>2. Bytes(t) \cap Bytes(l) = {} /\ Bytes(t) \cap Bytes(r) = {}
        BY <1>1, <2>1, <2>6, <3>1
      <3>3. Bytes(t) # {}
        BY <1>1, <3>1
      <3>. QED BY <2>7, <3>1, <3>2, <3>3
    <2>9. IsFiniteSet(G) /\ Cardinality(G) = Cardinality(F) - 1
      <3>1. j \notin rest
        BY <2>8
      <3> HIDE DEF rest
      <3>2. IsFiniteSet(rest \cup {j}) /\ Cardinality(rest \cup {j}) = Cardinality(rest) + 1
        BY <2>5, <3>1, FS_AddElement
      <3>. QED BY <1>2, <2>5, <3>2
    <2>10. G \subseteq Tree /\ G # {}
      BY <1>1, <2>7
    <2>11. \A t \in G : Bytes(t) # {} /\ PrefixFree(t.codes)
      <3>1. Bytes(l) # {}
        BY <1>1, <2>1
      <3>. QED BY <1>1, <2>7, <3>1
    <2>12. \A t, u \in G : t # u => Bytes(t) \cap Bytes(u) = {}
      <3> SUFFICES ASSUME NEW t \in G, NEW u \in G, t # u
                   PROVE  Bytes(t) \cap Bytes(u) = {}
        OBVIOUS
      <3>1. CASE t \in rest /\ u \in rest
        BY <1>1, <3>1
      <3>2. CASE t = j
        <4>1. u \in rest
          BY <3>2
        <4>. QED BY <2>8, <3>2, <4>1
      <3>3. CASE u = j
        <4>1. t \in rest
          BY <3>3
        <4>. QED BY <2>8, <3>3, <4>1
      <3>. QED BY <3>1, <3>2, <3>3
    <2>13. UNION {Bytes(t) : t \in G} = used
      <3>1. ASSUME NEW b \in used PROVE \E t \in G : b \in Bytes(t)
        <4>1. PICK t \in F : b \in Bytes(t)
          BY <1>1
        <4>2. CASE t = l \/ t = r
          <5>1. b \in Bytes(j) /\ j \in G
            BY <2>7, <4>1, <4>2
          <5>. QED BY <5>1
        <4>3. CASE t # l /\ t # r
          <5>1. t \in G
            BY <4>3
          <5>. QED BY <4>1, <5>1
        <4>. QED BY <4>2, <4>3
      <3>2. ASSUME NEW t \in G, NEW b \in Bytes(t) PROVE b \in used
        <4>1. CASE t = j
          <5>1. b \in Bytes(l) \/ b \in Bytes(r)
            BY <2>7, <3>2, <4>1
          <5>. QED BY <1>1, <2>1, <2>6, <5>1
        <4>2. CASE t # j
          <5>1. t \in F
            BY <4>2
          <5>. QED BY <1>1, <3>2, <5>1
        <4>. QED BY <4>1, <4>2
      <3> HIDE DEF G
      <3>. QED BY <3>1, <3>2
    <2>14. Joined(F) = G
      BY <1>4 DEF Joined, l, r, j
    <2> HIDE DEF G
    <2>15. Forest(G, used)
      BY <2>9, <2>10, <2>11, <2>12, <2>13 DEF Forest
    <2>. QED BY <1>2, <1>4, <2>9, <2>14, <2>15
  <1>. QED BY <1>3, <1>4

\* Codes of the bytes that are used, none the beginning of another.
CodeTable(codes, used) ==
    /\ codes \in Codes /\ PrefixFree(codes)
    /\ used # {} => DOMAIN codes = used

LEMMA LeafIs ==
    ASSUME NEW b \in Byte, NEW f \in Nat
    PROVE  /\ Leaf(b, f) \in Tree /\ Bytes(Leaf(b, f)) = {b}
           /\ PrefixFree(Leaf(b, f).codes)
  <1> DEFINE c == [x \in {b} |-> <<>>]
  <1>1. c \in [{b} -> Code] /\ DOMAIN c = {b}
    BY DEF Code
  <1>2. c \in Codes
    <2>1. {b} \subseteq Byte
      OBVIOUS
    <2> HIDE DEF c
    <2>. QED BY <1>1, <2>1, CodesAre
  <1>3. PrefixFree(c)
    BY <1>1 DEF PrefixFree
  <1>4. Leaf(b, f) = [frequency |-> f, codes |-> c]
    BY DEF Leaf
  <1> HIDE DEF c
  <1>. QED BY <1>1, <1>2, <1>3, <1>4 DEF Tree, Bytes

LEMMA TreeIs ==
    ASSUME NEW freqs \in [Byte -> Nat]
    PROVE  CodeTable(buildTree(freqs).codes, {b \in Byte : freqs[b] > 0})
  <1> DEFINE used == {b \in Byte : freqs[b] > 0}
             leaves == {Leaf(b, freqs[b]) : b \in used}
             n == Cardinality(used)
             Body(g) == [k \in 0 .. n |->
                            IF k = 0 THEN leaves
                            ELSE LET trees == g[k - 1]
                                     left == Lightest(trees)
                                     right == Lightest(trees \ {left})
                                 IN IF Cardinality(trees) = 1 THEN trees
                                    ELSE (trees \ {left, right}) \cup {Join(left, right)}]
             Plain(g) == [k \in 0 .. n |-> IF k = 0 THEN leaves ELSE Joined(g[k - 1])]
             forest == CHOOSE g : g = Body(g)
  <1>1. used \subseteq Byte /\ IsFiniteSet(used) /\ n \in Nat
    <2>1. IsFiniteSet(Byte)
      BY RadixFacts, FS_Interval DEF Byte
    <2>2. used \in SUBSET Byte
      OBVIOUS
    <2>3. IsFiniteSet(used)
      BY <2>1, <2>2, FS_Subset
    <2>. QED BY <2>2, <2>3, FS_CardinalityType
  <1>2. buildTree(freqs) = IF used = {} THEN Leaf(0, 1) ELSE CHOOSE t \in forest[n] : TRUE
    BY DEF buildTree
  <1>3. \A g : Body(g) = Plain(g)
    BY DEF Joined
  <1>4. forest = CHOOSE g : g = Plain(g)
    BY <1>3
  <1>5. CASE used = {}
    <2>1. 0 \in Byte
      BY RadixFacts DEF Byte
    <2>. QED BY <1>2, <1>5, <2>1, LeafIs DEF CodeTable, Tree
  <1>6. CASE used # {}
    <2>1. \A b \in used : /\ b \in Byte /\ freqs[b] \in Nat
                          /\ Leaf(b, freqs[b]) \in Tree /\ Bytes(Leaf(b, freqs[b])) = {b}
                          /\ PrefixFree(Leaf(b, freqs[b]).codes)
      BY LeafIs
    <2> HIDE DEF used, forest, Plain, Body
    <2>2. IsFiniteSet(leaves) /\ Cardinality(leaves) <= n
      <3> DEFINE h == [b \in used |-> Leaf(b, freqs[b])]
      <3>1. h \in Surjection(used, leaves)
        BY DEF Surjection
      <3> HIDE DEF h, leaves
      <3>. QED BY <1>1, <3>1, FS_Surjection
    <2>3. Forest(leaves, used)
      <3>1. \A t \in leaves : \E b \in used :
                t = Leaf(b, freqs[b]) /\ t \in Tree /\ Bytes(t) = {b} /\ PrefixFree(t.codes)
        BY <2>1
      <3>2. leaves \subseteq Tree /\ leaves # {}
            /\ \A t \in leaves : Bytes(t) # {} /\ PrefixFree(t.codes)
        BY <1>6, <3>1
      <3>3. \A t, u \in leaves : t # u => Bytes(t) \cap Bytes(u) = {}
        BY <3>1
      <3>4. UNION {Bytes(t) : t \in leaves} = used
        BY <2>1
      <3> HIDE DEF leaves
      <3>. QED BY <2>2, <3>2, <3>3, <3>4 DEF Forest
    <2> HIDE DEF leaves
    <2> DEFINE D == {F \in SUBSET Tree : Forest(F, used)}
               s == [k \in 1 .. n |-> [F \in D |-> Joined(F)]]
    <2>4. \A F \in D : Joined(F) \in D
      <3> SUFFICES ASSUME NEW F \in D PROVE Joined(F) \in D
        OBVIOUS
      <3>1. Forest(Joined(F), used)
        BY JoinedIs
      <3>2. Joined(F) \in SUBSET Tree
        BY <3>1 DEF Forest
      <3>. QED BY <3>1, <3>2
    <2>5. IsStep(s, n, D)
      BY <2>4 DEF IsStep
    <2>6. leaves \in D
      BY <2>3 DEF Forest
    <2>7. \A k \in 1 .. n : \A F \in D : s[k][F] = Joined(F)
      OBVIOUS
    <2> HIDE DEF s, D, n
    <2>8. PICK f : IsRec(f, n, D, leaves, s)
      BY <1>1, <2>5, <2>6, Recursion
    <2>9. f = Plain(f)
      <3>1. /\ f \in [0 .. n -> D] /\ f[0] = leaves
            /\ \A k \in 1 .. n : f[k] = s[k][f[k - 1]]
        BY <2>8 DEF IsRec
      <3>2. ASSUME NEW k \in 0 .. n
            PROVE  f[k] = IF k = 0 THEN leaves ELSE Joined(f[k - 1])
        <4>1. CASE k = 0
          BY <3>1, <4>1
        <4>2. CASE k # 0
          <5>1. k \in 1 .. n /\ k - 1 \in 0 .. n
            BY <1>1, <4>2
          <5>2. f[k - 1] \in D
            BY <3>1, <5>1
          <5>. QED BY <2>7, <3>1, <4>2, <5>1, <5>2
        <4>. QED BY <4>1, <4>2
      <3>. QED BY <3>1, <3>2 DEF Plain
    <2>10. forest = Plain(forest)
      BY <1>4, <2>9
    <2>11. forest[0] = leaves /\ \A k \in 1 .. n : forest[k] = Joined(forest[k - 1])
      <3>1. \A k \in 0 .. n : forest[k] = IF k = 0 THEN leaves ELSE Joined(forest[k - 1])
        BY <2>10 DEF Plain
      <3>2. 0 \in 0 .. n /\ \A k \in 1 .. n : k \in 0 .. n /\ k # 0
        BY <1>1
      <3>. QED BY <3>1, <3>2
    <2> DEFINE P == {k \in 0 .. n : /\ Forest(forest[k], used)
                                    /\ \/ Cardinality(forest[k]) = 1
                                       \/ Cardinality(forest[k]) <= n - k}
    <2>12. 0 \in P
      <3>1. n - 0 = n /\ 0 \in 0 .. n
        BY <1>1
      <3>. QED BY <2>2, <2>3, <2>11, <3>1
    <2>13. ASSUME NEW k \in 1 .. n, k - 1 \in P PROVE k \in P
      <3> DEFINE F == forest[k - 1]
                 c == Cardinality(F)
      <3>1. Forest(F, used) /\ (c = 1 \/ c <= n - (k - 1))
        BY <2>13
      <3>2. forest[k] = Joined(F)
        BY <2>11
      <3>3. /\ Forest(Joined(F), used) /\ c \in Nat \ {0}
            /\ Cardinality(Joined(F)) = IF c = 1 THEN 1 ELSE c - 1
        BY <3>1, JoinedIs
      <3> HIDE DEF c, F
      <3>4. Cardinality(Joined(F)) = 1 \/ Cardinality(Joined(F)) <= n - k
        BY <1>1, <3>1, <3>3
      <3>5. k \in 0 .. n
        BY <1>1
      <3>. QED BY <3>2, <3>3, <3>4, <3>5
    <2>14. n \in P
      <3>1. 0 .. n \subseteq P
        <4> HIDE DEF P
        <4>. QED BY <1>1, <2>12, <2>13, Kept
      <3>. QED BY <1>1, <3>1
    <2> DEFINE F == forest[n]
    <2>15. Forest(F, used) /\ (Cardinality(F) = 1 \/ Cardinality(F) <= n - n)
      BY <2>14
    <2> HIDE DEF P, F
    <2>16. Cardinality(F) = 1
      <3>1. Cardinality(F) \in Nat \ {0}
        BY <2>15, JoinedIs
      <3>. QED BY <1>1, <2>15, <3>1
    <2>17. PICK t : F = {t}
      <3>1. IsFiniteSet(F)
        BY <2>15 DEF Forest
      <3>. QED BY <2>16, <3>1, FS_Singleton
    <2>18. t \in Tree /\ PrefixFree(t.codes) /\ Bytes(t) = used
      BY <2>15, <2>17 DEF Forest
    <2>19. buildTree(freqs) = t
      BY <1>2, <1>6, <2>17 DEF F
    <2>20. CodeTable(t.codes, used)
      BY <2>18 DEF CodeTable, Tree, Bytes
    <2>. QED BY <2>19, <2>20 DEF used
  <1>. QED BY <1>5, <1>6

LEMMA FlattenBytes ==
    ASSUME NEW S, NEW n \in Nat, NEW pieces \in [1 .. n -> Seq(S)]
    PROVE  FlattenSeq(pieces) \in Seq(S)
  <1>1. PICK f : Builds(f, pieces, n, S) /\ FlattenSeq(pieces) = f[n]
    BY FlattenIs
  <1>2. n \in 0 .. n /\ f \in [0 .. n -> Seq(S)]
    BY <1>1 DEF Builds
  <1>. QED BY <1>1, <1>2

LEMMA ZerosAre ==
    ASSUME NEW n \in Nat PROVE Zeros(n) \in Seq(Byte) /\ Len(Zeros(n)) = n
  <1>1. 0 \in Byte
    BY SmallBytes
  <1>. QED BY <1>1 DEF Zeros

LEMMA EntryOf ==
    ASSUME NEW list, Entries(list), NEW i \in 1 .. Len(list)
    PROVE  list[i] \in Entry /\ Sized(list[i])
  BY DEF Entries

-----------------------------------------------------------------------------
(* The archives are bytes *)

LEMMA RawBytes == ASSUME NEW list, Entries(list) PROVE concatFiles(list) \in Seq(Byte)
  <1> DEFINE n == Len(list)
             kept == WithContent(list)
             piece(i) == LE(Len(list[i].path), W16) \o list[i].path
                         \o LE(Len(list[i].content), W64) \o list[i].content
             pieces == [i \in 1 .. n |-> IF i \in kept THEN piece(i) ELSE <<>>]
  <1>0. n \in Nat /\ Widths
    BY WidthsAre DEF Entries
  <1>1. ASSUME NEW i \in 1 .. n PROVE piece(i) \in Seq(Byte)
    <2>1. list[i] \in Entry
      BY EntryOf
    <2> DEFINE f == list[i]
    <2>2. f.path \in Seq(Byte) /\ f.content \in Seq(Byte) /\ Len(f.path) \in Nat
          /\ Len(f.content) \in Nat
      <3> HIDE DEF f
      <3>1. f \in Entry
        BY <2>1 DEF f
      <3>. QED BY <3>1, EntryFacts
    <2>3. LE(Len(f.path), W16) \in Seq(Byte) /\ LE(Len(f.content), W64) \in Seq(Byte)
      BY <1>0, <2>2, LEBytes DEF Widths
    <2> DEFINE a == LE(Len(f.path), W16)
               b == f.path
               c == LE(Len(f.content), W64)
               d == f.content
    <2>4. a \o b \o c \o d \in Seq(Byte)
      <3> HIDE DEF a, b, c, d
      <3>1. a \in Seq(Byte) /\ b \in Seq(Byte) /\ c \in Seq(Byte) /\ d \in Seq(Byte)
        BY <2>2, <2>3 DEF a, b, c, d
      <3>. QED BY <3>1
    <2>. QED BY <2>4
  <1>2. pieces \in [1 .. n -> Seq(Byte)]
    <2>1. <<>> \in Seq(Byte)
      OBVIOUS
    <2> DEFINE z == <<>>
    <2> HIDE DEF piece, kept, z
    <2>2. \A i \in 1 .. n : (IF i \in kept THEN piece(i) ELSE z) \in Seq(Byte)
      BY <1>1, <2>1 DEF z
    <2>. QED BY <2>2 DEF z
  <1>3. FlattenSeq(pieces) \in Seq(Byte)
    <2> HIDE DEF pieces
    <2>. QED BY <1>0, <1>2, FlattenBytes
  <1>4. LE(Cardinality(kept), W32) \in Seq(Byte)
    <2>1. IsFiniteSet(1 .. n)
      BY <1>0, FS_Interval
    <2>2. Cardinality(kept) \in Nat
      <3>1. kept \subseteq 1 .. n
        BY DEF WithContent
      <3>2. IsFiniteSet(kept)
        BY <2>1, <3>1, FS_Subset
      <3>. QED BY <3>2, FS_CardinalityType
    <2> HIDE DEF kept
    <2>. QED BY <1>0, <2>2, LEBytes DEF Widths
  <1>5. concatFiles(list) = LE(Cardinality(kept), W32) \o FlattenSeq(pieces)
    BY DEF concatFiles
  <1> HIDE DEF kept, pieces
  <1>. QED BY <1>3, <1>4, <1>5, Concatenated

LEMMA OctalBytes ==
    ASSUME NEW val \in Nat
    PROVE  writeOctal(val) \in Seq(Byte) /\ Len(writeOctal(val)) = SizeMax + 1
  <1>0. SizeMax \in Nat /\ Octal \in Nat \ {0} /\ Octal < Radix /\ Radix \in Nat
    BY PackingAssumption, RadixFacts DEF PackingAssumption
  <1> DEFINE rest == Shifts(val, Octal, SizeMax)
             a == [i \in 1 .. SizeMax |-> (rest[SizeMax - i] % Octal) + 1]
  <1>1. rest \in [0 .. SizeMax -> Nat]
    <2>1. Left(rest, val, Octal, SizeMax)
      BY <1>0, ShiftsStep
    <2> HIDE DEF rest
    <2>. QED BY <2>1 DEF Left
  <1>2. ASSUME NEW i \in 1 .. SizeMax PROVE (rest[SizeMax - i] % Octal) + 1 \in Byte
    <2> DEFINE r == rest[SizeMax - i]
    <2>1. r \in Nat
      <3>1. SizeMax - i \in 0 .. SizeMax
        BY <1>0
      <3> HIDE DEF rest
      <3>. QED BY <1>1, <3>1
    <2> HIDE DEF r
    <2>2. r % Octal \in 0 .. Octal - 1
      BY <1>0, <2>1, BaseFacts
    <2>3. (r % Octal) + 1 \in Byte
      BY <1>0, <2>2 DEF Byte
    <2>. QED BY <2>3 DEF r
  <1>3. a \in Seq(Byte) /\ Len(a) = SizeMax
    <2> HIDE DEF rest
    <2>. QED BY <1>0, <1>2
  <1>4. <<0>> \in Seq(Byte) /\ Len(<<0>>) = 1
    BY SmallBytes
  <1>5. writeOctal(val) = a \o <<0>>
    BY DEF writeOctal
  <1> HIDE DEF a
  <1>. QED BY <1>0, <1>3, <1>4, <1>5

LEMMA PaddingIs == ASSUME NEW n \in Nat PROVE Padding(n) \in Nat /\ HeaderSize \in Nat \ {0}
  <1>1. HeaderSize \in Nat \ {0}
    BY PackingAssumption DEF PackingAssumption, HeaderSize
  <1> DEFINE h == HeaderSize
  <1> HIDE DEF h
  <1>2. h \in Nat \ {0}
    BY <1>1 DEF h
  <1>3. n % h \in 0 .. h - 1
    BY <1>2, BaseFacts
  <1>4. h - (n % h) \in Nat
    BY <1>2, <1>3
  <1>5. (h - (n % h)) % h \in 0 .. h - 1
    <2> DEFINE m == h - (n % h)
    <2> HIDE DEF m
    <2>1. m \in Nat
      BY <1>4 DEF m
    <2>2. m % h \in 0 .. h - 1
      BY <1>2, <2>1, BaseFacts
    <2>. QED BY <2>2 DEF m
  <1>6. (h - (n % h)) % h \in Nat
    BY <1>2, <1>5
  <1>. QED BY <1>1, <1>6 DEF Padding, h

LEMMA NameIs ==
    ASSUME NEW path \in Seq(Byte)
    PROVE  Name(path) \in Seq(Byte) /\ Len(Name(path)) \in Nat
           /\ Len(Name(path)) <= NameMax /\ NameMax - Len(Name(path)) \in Nat
  <1>1. NameMax \in Nat /\ Len(path) \in Nat
    BY PackingAssumption DEF PackingAssumption
  <1> DEFINE m == Min({Len(path), NameMax})
  <1>2. m \in Nat /\ m <= Len(path) /\ m <= NameMax
    BY <1>1, MinOfTwo
  <1> HIDE DEF m
  <1>3. SubSeq(path, 1, m) \in Seq(Byte) /\ Len(SubSeq(path, 1, m)) = m
    BY <1>1, <1>2
  <1>4. Name(path) = SubSeq(path, 1, m)
    BY DEF Name, m
  <1>5. NameMax - m \in Nat
    BY <1>1, <1>2
  <1>. QED BY <1>2, <1>3, <1>4, <1>5

LEMMA FlagIs == ASSUME NEW type PROVE Flag(type) \in Byte /\ <<Flag(type)>> \in Seq(Byte)
  <1>1. Flag(type) \in Byte
    BY PackingAssumption DEF PackingAssumption, Flag
  <1>. QED BY <1>1

LEMMA TarHeaderBytes ==
    ASSUME NEW f \in Entry
    PROVE  buildHeader(f) \in Seq(Byte) /\ Len(buildHeader(f)) = HeaderSize
  <1> DEFINE size == IF f.type = Regular THEN Len(f.content) ELSE 0
             a == Name(f.path)
             b == Zeros(NameMax - Len(a))
             c == writeOctal(size)
             d == <<Flag(f.type)>>
  <1>1. f.path \in Seq(Byte) /\ size \in Nat
    BY EntryFacts
  <1>2. a \in Seq(Byte) /\ Len(a) \in Nat /\ NameMax - Len(a) \in Nat /\ NameMax \in Nat
    BY <1>1, NameIs, PackingAssumption DEF PackingAssumption
  <1>3. b \in Seq(Byte) /\ Len(b) = NameMax - Len(a)
    <2> HIDE DEF a
    <2>. QED BY <1>2, ZerosAre
  <1>4. c \in Seq(Byte) /\ Len(c) = SizeMax + 1 /\ SizeMax \in Nat
    <2> HIDE DEF size
    <2>. QED BY <1>1, OctalBytes, PackingAssumption DEF PackingAssumption
  <1>5. d \in Seq(Byte) /\ Len(d) = 1
    BY FlagIs
  <1>6. buildHeader(f) = a \o b \o c \o d
    BY DEF buildHeader
  <1> HIDE DEF a, b, c, d
  <1>7. a \o b \in Seq(Byte) /\ Len(a \o b) = NameMax
    BY <1>2, <1>3
  <1> DEFINE e == a \o b
  <1> HIDE DEF e
  <1>8. e \o c \in Seq(Byte) /\ Len(e \o c) = NameMax + (SizeMax + 1)
    BY <1>2, <1>4, <1>7 DEF e
  <1> DEFINE g == e \o c
  <1> HIDE DEF g
  <1>9. g \o d \in Seq(Byte) /\ Len(g \o d) = Len(g) + Len(d)
    BY <1>5, <1>8, Concatenated DEF g
  <1>10. Len(g) + Len(d) = HeaderSize
    <2>1. NameMax + (SizeMax + 1) + 1 = HeaderSize
      BY <1>2, <1>4 DEF HeaderSize
    <2>. QED BY <1>5, <1>8, <2>1 DEF g
  <1>. QED BY <1>6, <1>9, <1>10 DEF e, g

\* What a tar archive has of an entry.
TarPiece(f) ==
    buildHeader(f)
    \o IF f.type = Regular THEN f.content \o Zeros(Padding(Len(f.content))) ELSE <<>>

LEMMA TarPieceBytes == ASSUME NEW f \in Entry PROVE TarPiece(f) \in Seq(Byte)
  <1> DEFINE a == buildHeader(f)
             b == f.content
             c == Zeros(Padding(Len(b)))
             z == <<>>
             d == IF f.type = Regular THEN b \o c ELSE z
  <1>1. a \in Seq(Byte)
    BY TarHeaderBytes
  <1>2. b \in Seq(Byte) /\ Len(b) \in Nat
    BY EntryFacts
  <1>3. c \in Seq(Byte)
    <2> HIDE DEF b
    <2>. QED BY <1>2, PaddingIs, ZerosAre
  <1>4. z \in Seq(Byte)
    OBVIOUS
  <1>5. TarPiece(f) = a \o d
    BY DEF TarPiece
  <1> HIDE DEF a, b, c, z
  <1>6. d \in Seq(Byte)
    BY <1>2, <1>3, <1>4
  <1> HIDE DEF d
  <1>. QED BY <1>1, <1>5, <1>6

LEMMA TarBytes == ASSUME NEW list, Entries(list) PROVE TarPack(list) \in Seq(Byte)
  <1> DEFINE n == Len(list)
             pieces == [i \in 1 .. n |-> TarPiece(list[i])]
  <1>0. n \in Nat
    BY DEF Entries
  <1>1. pieces \in [1 .. n -> Seq(Byte)]
    BY EntryOf, TarPieceBytes
  <1>2. FlattenSeq(pieces) \in Seq(Byte)
    <2> HIDE DEF pieces
    <2>. QED BY <1>0, <1>1, FlattenBytes
  <1>3. Zeros(2 * HeaderSize) \in Seq(Byte)
    <2>1. 2 * HeaderSize \in Nat
      BY PaddingIs
    <2>. QED BY <2>1, ZerosAre
  <1>4. TarPack(list) = FlattenSeq(pieces) \o Zeros(2 * HeaderSize)
    BY DEF TarPack, TarPiece
  <1> HIDE DEF pieces
  <1>. QED BY <1>2, <1>3, <1>4, Concatenated

LEMMA DirEntryBytes ==
    ASSUME NEW f \in Entry, NEW offset \in Nat
    PROVE  serializeEntry(f, offset) \in Seq(Byte)
  <1> DEFINE size == IF f.type = Regular THEN Len(f.content) ELSE 0
             a == LE(Len(f.path), W16)
             b == f.path
             c == LE(offset, W64)
             d == LE(size, W64)
             e == LE(f.type, W16)
             k == LE(Len(f.target), W16)
             t == f.target
  <1>0. Widths /\ size \in Nat
    BY WidthsAre, EntryFacts
  <1>1. a \in Seq(Byte) /\ c \in Seq(Byte) /\ e \in Seq(Byte) /\ k \in Seq(Byte)
    BY <1>0, EntryFacts, LEBytes DEF Widths
  <1>2. d \in Seq(Byte)
    <2> HIDE DEF size
    <2>. QED BY <1>0, LEBytes DEF Widths
  <1>3. b \in Seq(Byte) /\ t \in Seq(Byte)
    BY EntryFacts
  <1>4. serializeEntry(f, offset) = a \o b \o c \o d \o e \o k \o t
    BY DEF serializeEntry
  <1> HIDE DEF a, b, c, d, e, k, t
  <1>5. a \o b \o c \o d \o e \o k \o t \in Seq(Byte)
    BY <1>1, <1>2, <1>3, SevenPieces
  <1>. QED BY <1>4, <1>5

\* The content that an archive has of an entry.
Part(f) == IF f.type = Regular THEN f.content ELSE <<>>

LEMMA PartBytes == ASSUME NEW f \in Entry PROVE Part(f) \in Seq(Byte)
  <1>1. f.content \in Seq(Byte)
    BY EntryFacts
  <1> DEFINE z == <<>>
  <1>2. z \in Seq(Byte)
    OBVIOUS
  <1> HIDE DEF z
  <1>3. (IF f.type = Regular THEN f.content ELSE z) \in Seq(Byte)
    BY <1>1, <1>2
  <1>. QED BY <1>3 DEF Part, z

\* The three pieces of an index archive.
IndexFile(data, dir, n) ==
    data \o dir \o LE(Signature, W32) \o LE(n, W32) \o LE(Len(data), W64)
    \o LE(Len(dir), W64) \o Zeros(W64)

Directories(list, f) == [i \in 1 .. Len(list) |-> serializeEntry(list[i], Len(f[i - 1]))]

IndexParts(list, f) ==
    LET n == Len(list) IN
    /\ Builds(f, [i \in 1 .. n |-> Part(list[i])], n, Byte)
    /\ Directories(list, f) \in [1 .. n -> Seq(Byte)]
    /\ IndexPack(list) = IndexFile(f[n], FlattenSeq(Directories(list, f)), n)

LEMMA IndexPieces ==
    ASSUME NEW list, Entries(list)
    PROVE  \E f : IndexParts(list, f)
  <1> DEFINE n == Len(list)
             part(i) == IF list[i].type = Regular THEN list[i].content ELSE <<>>
             pieces == [i \in 1 .. n |-> Part(list[i])]
             Body(g) == [i \in 0 .. n |-> IF i = 0 THEN <<>> ELSE g[i - 1] \o part(i)]
             data == CHOOSE g : g = Body(g)
  <1>0. n \in Nat
    BY DEF Entries
  <1>1. pieces \in [1 .. n -> Seq(Byte)]
    BY EntryOf, PartBytes
  <1>2. PICK f : Builds(f, pieces, n, Byte)
    <2> HIDE DEF pieces
    <2>. QED BY <1>0, <1>1, FlattenIs
  <1>3. \A i \in 1 .. n : pieces[i] = part(i)
    BY DEF Part
  <1> HIDE DEF pieces, part
  <1>4. f = Body(f)
    <2>1. f \in [0 .. n -> Seq(Byte)] /\ f[0] = <<>> /\ \A i \in 1 .. n : f[i] = f[i - 1] \o part(i)
      BY <1>2, <1>3 DEF Builds
    <2> DEFINE z == <<>>
    <2>2. f[0] = z
      BY <2>1
    <2> HIDE DEF z
    <2>3. f = [i \in 0 .. n |-> IF i = 0 THEN z ELSE f[i - 1] \o part(i)]
      <3>1. \A i \in 0 .. n : f[i] = IF i = 0 THEN z ELSE f[i - 1] \o part(i)
        BY <1>0, <2>1, <2>2
      <3>. QED BY <2>1, <3>1
    <2>. QED BY <2>3 DEF z
  <1>5. data = Body(data)
    BY <1>4
  <1>6. IndexPack(list) = IndexFile(data[n], FlattenSeq(Directories(list, data)), n)
    <2>1. IndexPack(list) =
            LET dir == FlattenSeq([i \in 1 .. n |-> serializeEntry(list[i], Len(data[i - 1]))])
                start == Len(data[n])
            IN data[n] \o dir \o LE(Signature, W32) \o LE(n, W32)
               \o LE(start, W64) \o LE(Len(dir), W64) \o Zeros(W64)
      BY DEF IndexPack, part
    <2> HIDE DEF data
    <2>. QED BY <2>1 DEF Directories, IndexFile
  <1> HIDE DEF data
  <1>7. /\ DOMAIN data = 0 .. n /\ data = [i \in 0 .. n |-> data[i]]
        /\ data[0] = <<>> /\ \A i \in 1 .. n : data[i] = data[i - 1] \o pieces[i]
    <2>1. 0 \in 0 .. n /\ \A i \in 1 .. n : i \in 0 .. n /\ i # 0
      BY <1>0
    <2>. QED BY <1>3, <1>5, <2>1
  <1>8. \A i \in 1 .. n : data[i - 1] \in Seq(Byte) => data[i] \in Seq(Byte)
    BY <1>1, <1>7, Concatenated
  <1>9. data \in [0 .. n -> Seq(Byte)]
    <2>1. data[0] \in Seq(Byte)
      BY <1>7
    <2> HIDE DEF n
    <2>. QED BY <1>0, <1>7, <1>8, <2>1, Within
  <1>10. Builds(data, pieces, n, Byte)
    BY <1>0, <1>1, <1>7, <1>9 DEF Builds
  <1>11. Directories(list, data) \in [1 .. n -> Seq(Byte)]
    <2>1. ASSUME NEW i \in 1 .. n PROVE serializeEntry(list[i], Len(data[i - 1])) \in Seq(Byte)
      <3>1. i - 1 \in 0 .. n
        BY <1>0
      <3>2. Len(data[i - 1]) \in Nat
        BY <1>9, <3>1
      <3>3. list[i] \in Entry
        BY EntryOf
      <3>. QED BY <3>2, <3>3, DirEntryBytes
    <2>. QED BY <2>1 DEF Directories
  <1>. QED BY <1>6, <1>10, <1>11 DEF IndexParts, pieces

LEMMA IndexBytes == ASSUME NEW list, Entries(list) PROVE IndexPack(list) \in Seq(Byte)
  <1> DEFINE n == Len(list)
  <1>1. n \in Nat
    BY DEF Entries
  <1>2. PICK f : IndexParts(list, f)
    BY IndexPieces
  <1> DEFINE dir == FlattenSeq(Directories(list, f))
             start == Len(f[n])
             a == LE(Signature, W32)
             b == LE(n, W32)
             c == LE(start, W64)
             d == LE(Len(dir), W64)
             e == Zeros(W64)
  <1>3. f[n] \in Seq(Byte) /\ start \in Nat
    <2>1. f \in [0 .. n -> Seq(Byte)] /\ n \in 0 .. n
      BY <1>1, <1>2 DEF IndexParts, Builds
    <2>. QED BY <2>1
  <1>4. dir \in Seq(Byte) /\ Len(dir) \in Nat
    <2>1. Directories(list, f) \in [1 .. n -> Seq(Byte)]
      BY <1>2 DEF IndexParts
    <2>2. FlattenSeq(Directories(list, f)) \in Seq(Byte)
      BY <1>1, <2>1, FlattenBytes
    <2>. QED BY <2>2
  <1>5. a \in Seq(Byte) /\ b \in Seq(Byte) /\ e \in Seq(Byte)
    BY <1>1, WidthsAre, LEBytes, ZerosAre, PackingAssumption DEF PackingAssumption, Widths
  <1>6. c \in Seq(Byte) /\ d \in Seq(Byte)
    <2> HIDE DEF dir, start
    <2>. QED BY <1>3, <1>4, WidthsAre, LEBytes DEF Widths
  <1>7. IndexPack(list) = f[n] \o dir \o a \o b \o c \o d \o e
    BY <1>2 DEF IndexParts, IndexFile
  <1> HIDE DEF dir, a, b, c, d, e, start
  <1>8. f[n] \o dir \o a \o b \o c \o d \o e \in Seq(Byte)
    <2> DEFINE x == f[n]
    <2>1. x \in Seq(Byte)
      BY <1>3
    <2> HIDE DEF x
    <2>2. x \o dir \o a \o b \o c \o d \o e \in Seq(Byte)
      BY <1>4, <1>5, <1>6, <2>1, SevenPieces
    <2>. QED BY <2>2 DEF x
  <1>. QED BY <1>7, <1>8

LEMMA Countable ==
    ASSUME NEW n \in Nat, NEW T, T \subseteq 1 .. n PROVE Cardinality(T) \in Nat
  <1>1. IsFiniteSet(1 .. n)
    BY FS_Interval
  <1>2. IsFiniteSet(T)
    BY <1>1, FS_Subset
  <1>. QED BY <1>2, FS_CardinalityType

LEMMA FrequenciesAre ==
    ASSUME NEW x \in Seq(Byte) PROVE countFrequencies(x) \in [Byte -> Nat]
  <1>1. ASSUME NEW b \in Byte
        PROVE  Wrapped(Cardinality({i \in 1 .. Len(x) : x[i] = b}), WFreq) \in Nat
    <2> DEFINE T == {i \in 1 .. Len(x) : x[i] = b}
               n == Cardinality(T)
    <2>1. n \in Nat
      BY Countable
    <2> HIDE DEF n
    <2>2. Wrapped(n, WFreq) \in Nat
      BY <2>1, Wraps, BitsAssumption DEF BitsAssumption
    <2>. QED BY <2>2 DEF n
  <1>. QED BY <1>1 DEF countFrequencies

LEMMA CodesOfBytes ==
    ASSUME NEW freqs \in [Byte -> Nat]
    PROVE  generateCodes(buildTree(freqs)) \in [Byte -> Code]
  <1> DEFINE t == buildTree(freqs)
  <1>1. CodeTable(t.codes, {b \in Byte : freqs[b] > 0})
    BY TreeIs
  <1> HIDE DEF t
  <1>2. t.codes \in Codes
    BY <1>1 DEF CodeTable
  <1>3. PICK S \in SUBSET Byte : t.codes \in [S -> Code]
    BY <1>2 DEF Codes
  <1> DEFINE z == <<>>
  <1>4. z \in Code
    BY DEF Code
  <1>5. ASSUME NEW b \in Byte PROVE (IF b \in DOMAIN t.codes THEN t.codes[b] ELSE z) \in Code
    <2> HIDE DEF z
    <2>. QED BY <1>3, <1>4
  <1>6. generateCodes(t) \in [Byte -> Code]
    BY <1>5 DEF generateCodes
  <1>. QED BY <1>6 DEF t

LEMMA PackedIs ==
    ASSUME NEW bits \in Code
    PROVE  /\ Packed(bits) \in Seq(Byte)
           /\ (Len(bits) + Bits - 1) \div Bits \in Nat
           /\ Len(Packed(bits)) = (Len(bits) + Bits - 1) \div Bits
  <1> DEFINE m == (Len(bits) + Bits - 1) \div Bits
  <1>1. Bits \in Nat \ {0} /\ Len(bits) \in Nat
    BY BitsAssumption DEF BitsAssumption, Code
  <1>2. m \in Nat
    <2> DEFINE k == Len(bits) + Bits - 1
    <2>1. k \in Nat
      BY <1>1
    <2> HIDE DEF k
    <2>2. k \div Bits \in Nat
      BY <1>1, <2>1, BaseFacts
    <2>. QED BY <2>2 DEF k
  <1>3. ASSUME NEW j \in 1 .. m PROVE Value(Slice(bits, (j - 1) * Bits, Bits), 2) \in Byte
    <2> DEFINE off == (j - 1) * Bits
    <2>1. off \in Nat
      <3>1. j - 1 \in Nat
        BY <1>2
      <3>. QED BY <1>1, <3>1
    <2> HIDE DEF off
    <2>2. ASSUME NEW i \in 1 .. Bits
          PROVE (IF off + i <= Len(bits) THEN bits[off + i] ELSE 0) \in {0, 1}
      <3>1. ASSUME off + i <= Len(bits) PROVE bits[off + i] \in {0, 1}
        <4>1. off + i \in 1 .. Len(bits)
          BY <1>1, <2>1, <3>1
        <4>. QED BY <4>1 DEF Code
      <3>. QED BY <3>1
    <2>3. Slice(bits, off, Bits) \in [1 .. Bits -> {0, 1}]
      BY <2>2 DEF Slice
    <2>4. Value(Slice(bits, off, Bits), 2) \in Byte
      BY <2>3, BitsAssumption DEF BitsAssumption
    <2>. QED BY <2>4 DEF off
  <1>4. Packed(bits) = [j \in 1 .. m |-> Value(Slice(bits, (j - 1) * Bits, Bits), 2)]
    BY DEF Packed
  <1>5. Packed(bits) \in Seq(Byte) /\ Len(Packed(bits)) = m
    <2> HIDE DEF m
    <2>. QED BY <1>2, <1>3, <1>4
  <1>. QED BY <1>2, <1>5

\* What HuffmanCompress writes.
CodeOf(x) == generateCodes(buildTree(countFrequencies(x)))

BitsOf(x) == FlattenSeq([i \in 1 .. Len(x) |-> CodeOf(x)[x[i]]])

TableOf(x) == FlattenSeq([i \in 1 .. Radix |-> LE(countFrequencies(x)[i - 1], WFreq)])

LEMMA BitsAre ==
    ASSUME NEW x \in Seq(Byte)
    PROVE  /\ [i \in 1 .. Len(x) |-> CodeOf(x)[x[i]]] \in [1 .. Len(x) -> Code]
           /\ BitsOf(x) \in Code /\ Len(BitsOf(x)) \in Nat
  <1>1. CodeOf(x) \in [Byte -> Code]
    BY FrequenciesAre, CodesOfBytes DEF CodeOf
  <1> DEFINE p == [i \in 1 .. Len(x) |-> CodeOf(x)[x[i]]]
  <1>2. Len(x) \in Nat /\ \A i \in 1 .. Len(x) : x[i] \in Byte
    OBVIOUS
  <1>3. p \in [1 .. Len(x) -> Code]
    BY <1>1, <1>2
  <1> HIDE DEF p
  <1>4. FlattenSeq(p) \in Code
    BY <1>2, <1>3, FlattenBytes DEF Code
  <1>5. BitsOf(x) \in Code
    BY <1>4 DEF BitsOf, p
  <1>6. Len(BitsOf(x)) \in Nat
    BY <1>5 DEF Code
  <1>. QED BY <1>3, <1>5, <1>6 DEF p

LEMMA TableBytes ==
    ASSUME NEW x \in Seq(Byte)
    PROVE  /\ [i \in 1 .. Radix |-> LE(countFrequencies(x)[i - 1], WFreq)]
                  \in [1 .. Radix -> Seq(Byte)]
           /\ TableOf(x) \in Seq(Byte)
  <1> DEFINE p == [i \in 1 .. Radix |-> LE(countFrequencies(x)[i - 1], WFreq)]
  <1>0. Radix \in Nat /\ WFreq \in Nat
    BY RadixFacts, BitsAssumption DEF BitsAssumption
  <1>1. ASSUME NEW i \in 1 .. Radix PROVE LE(countFrequencies(x)[i - 1], WFreq) \in Seq(Byte)
    <2>1. i - 1 \in Byte
      BY <1>0 DEF Byte
    <2>2. countFrequencies(x)[i - 1] \in Nat
      BY <2>1, FrequenciesAre
    <2>. QED BY <1>0, <2>2, LEBytes
  <1>2. p \in [1 .. Radix -> Seq(Byte)]
    BY <1>1
  <1> HIDE DEF p
  <1>3. FlattenSeq(p) \in Seq(Byte)
    BY <1>0, <1>2, FlattenBytes
  <1>. QED BY <1>2, <1>3 DEF p, TableOf

LEMMA HuffmanParts ==
    ASSUME NEW x
    PROVE  HuffmanCompress(x) =
             LE(Len(x), W64) \o TableOf(x)
             \o (IF x = <<>> THEN LE(0, W64) ELSE LE(Len(BitsOf(x)), W64) \o Packed(BitsOf(x)))
  BY DEF HuffmanCompress, TableOf, BitsOf, CodeOf

LEMMA HuffmanBytes ==
    ASSUME NEW x \in Seq(Byte) PROVE HuffmanCompress(x) \in Seq(Byte)
  <1> DEFINE a == LE(Len(x), W64)
             b == TableOf(x)
             c == LE(Len(BitsOf(x)), W64)
             d == Packed(BitsOf(x))
             e == LE(0, W64)
             g == IF x = <<>> THEN e ELSE c \o d
  <1>1. a \in Seq(Byte) /\ e \in Seq(Byte)
    BY WidthsAre, LEBytes DEF Widths
  <1>2. b \in Seq(Byte) /\ d \in Seq(Byte)
    BY TableBytes, BitsAre, PackedIs
  <1>3. c \in Seq(Byte)
    BY WidthsAre, BitsAre, LEBytes DEF Widths
  <1>4. HuffmanCompress(x) = a \o b \o g
    BY HuffmanParts
  <1> HIDE DEF a, b, c, d, e
  <1>5. g \in Seq(Byte)
    BY <1>1, <1>2, <1>3
  <1> HIDE DEF g
  <1>. QED BY <1>1, <1>2, <1>4, <1>5

-----------------------------------------------------------------------------
(* What there is at each stage *)

Archive(list, a) ==
    CASE a.pack = 0 -> concatFiles(list)
      [] a.pack = 1 -> TarPack(list)
      [] a.pack = 2 -> IndexPack(list)

Compressed(x, a) ==
    CASE a.compress = 0 -> x
      [] a.compress = 1 -> RleCompress(x)
      [] a.compress = 2 -> HuffmanCompress(x)

Encrypted(x, a, word) ==
    CASE a.encrypt = 0 -> x
      [] a.encrypt = 1 -> XorEncrypt(x, word)
      [] a.encrypt = 2 -> VigenereEncrypt(x, word)

Decrypted(x, a, word) ==
    CASE a.encrypt = 0 -> x
      [] a.encrypt = 1 -> XorDecrypt(x, word)
      [] a.encrypt = 2 -> VigenereDecrypt(x, word)

Decompressed(x, a) ==
    CASE a.compress = 0 -> x
      [] a.compress = 1 -> RleDecompress(x)
      [] a.compress = 2 -> HuffmanDecompress(x)

Unpacked(x, a) ==
    CASE a.pack = 0 -> restoreFromRaw(x).items
      [] a.pack = 1 -> TarUnpack(x)
      [] a.pack = 2 -> IndexUnpack(x)

Refused(x, a) == a.pack = 0 /\ ~ restoreFromRaw(x).ok

\* What the restore is to read in the header.
Written ==
    [ok |-> TRUE, algos |-> algos,
     files |-> [i \in 1 .. Len(files) |-> Info(files[i])], start |-> Len(saveHeader)]

LEMMA ArchiveBytes ==
    ASSUME NEW list, Entries(list), NEW a \in Algos PROVE Archive(list, a) \in Seq(Byte)
  <1>1. a.pack \in 0 .. 2
    BY SmallBytes
  <1>2. CASE a.pack = 0
    BY <1>2, RawBytes DEF Archive
  <1>3. CASE a.pack = 1
    BY <1>3, TarBytes DEF Archive
  <1>4. CASE a.pack = 2
    BY <1>4, IndexBytes DEF Archive
  <1>. QED BY <1>1, <1>2, <1>3, <1>4

LEMMA CompressedBytes ==
    ASSUME NEW x \in Seq(Byte), NEW a \in Algos PROVE Compressed(x, a) \in Seq(Byte)
  <1>1. a.compress \in 0 .. 2
    BY SmallBytes
  <1>2. CASE a.compress = 0
    BY <1>2 DEF Compressed
  <1>3. CASE a.compress = 1
    BY <1>3, RleBytes DEF Compressed
  <1>4. CASE a.compress = 2
    BY <1>4, HuffmanBytes DEF Compressed
  <1>. QED BY <1>1, <1>2, <1>3, <1>4

LEMMA EncryptionUndone ==
    ASSUME NEW x \in Seq(Byte), NEW a \in Algos, NEW word \in Seq(Byte), word # <<>>
    PROVE  /\ Encrypted(x, a, word) \in Seq(Byte)
           /\ Decrypted(Encrypted(x, a, word), a, word) = x
  <1>1. a.encrypt \in 0 .. 2
    BY SmallBytes
  <1>2. CASE a.encrypt = 0
    BY <1>2 DEF Encrypted, Decrypted
  <1>3. CASE a.encrypt = 1
    BY <1>3, EncryptedBytes, XorUndone DEF Encrypted, Decrypted
  <1>4. CASE a.encrypt = 2
    BY <1>4, EncryptedBytes, VigenereUndone DEF Encrypted, Decrypted
  <1>. QED BY <1>1, <1>2, <1>3, <1>4

-----------------------------------------------------------------------------
(* The inductive invariant *)

TypeOK ==
    /\ files \in Inputs /\ password \in Passwords /\ algos \in Algos
    /\ stage \in Stages

\* The backup: each stage works on what the one before it made.
BackingUp ==
    /\ stage # "scanned" => packed = Archive(files, algos)
    /\ stage \notin {"scanned", "packed"} => squeezed = Compressed(packed, algos)
    /\ stage = "packed" => bytes = packed
    /\ stage = "squeezed" => bytes = squeezed
    /\ stage = "encrypted" => bytes = Encrypted(squeezed, algos, password)
    /\ stage = "saved" => bytes = saveHeader \o Encrypted(squeezed, algos, password)

\* The restore: what it has read is what was written.
Restoring ==
    /\ stage \in {"loaded", "decrypted", "decompressed", "unpacked"} => header = Written
    /\ stage = "loaded" => bytes = Encrypted(squeezed, algos, password)
    /\ stage = "decrypted" => bytes = squeezed
    /\ stage \in {"decompressed", "unpacked", "refused"} =>
          bytes = Decompressed(squeezed, algos)
    /\ stage = "unpacked" => items = Unpacked(bytes, algos) /\ ~ Refused(bytes, algos)
    /\ stage = "refused" => Refused(bytes, algos)

IInv == TypeOK /\ BackingUp /\ (~ Oversized => Restoring)

\* What the invariant says of the constants.
LEMMA Given ==
    ASSUME TypeOK
    PROVE  /\ Entries(files) /\ password \in Seq(Byte) /\ password # <<>> /\ algos \in Algos
  BY InputAssumption DEF TypeOK, InputAssumption, Entries

LEMMA PayloadBytes ==
    ASSUME TypeOK, BackingUp, stage \notin {"scanned", "packed"}
    PROVE  packed \in Seq(Byte) /\ squeezed \in Seq(Byte)
  <1>1. packed = Archive(files, algos) /\ squeezed = Compressed(packed, algos)
    BY DEF BackingUp
  <1>. QED BY <1>1, Given, ArchiveBytes, CompressedBytes

\* No stage changes what was chosen.
LEMMA ChosenKept ==
    ASSUME UNCHANGED chosen
    PROVE  /\ files' = files /\ algos' = algos /\ password' = password
           /\ saveHeader' = saveHeader /\ Oversized' = Oversized /\ Written' = Written
  <1>1. files' = files /\ algos' = algos /\ password' = password
    BY DEF chosen
  <1>2. saveHeader' = saveHeader
    BY <1>1 DEF saveHeader
  <1>3. Oversized' = Oversized
    BY <1>1 DEF Oversized
  <1>. QED BY <1>1, <1>2, <1>3 DEF Written

LEMMA InitIInv == Init => IInv
  <1> SUFFICES ASSUME Init PROVE IInv
    OBVIOUS
  <1>1. TypeOK
    BY DEF Init, TypeOK, Stages, Algos
  <1>2. BackingUp /\ Restoring
    BY DEF Init, BackingUp, Restoring
  <1>. QED BY <1>1, <1>2 DEF IInv

LEMMA PackStep == ASSUME IInv, Pack PROVE IInv'
  <1>1. stage = "scanned" /\ stage' = "packed" /\ UNCHANGED chosen
    BY DEF Pack, Stage
  <1>2. files' = files /\ algos' = algos /\ password' = password
    BY <1>1, ChosenKept
  <1>3. TypeOK'
    BY <1>1, <1>2 DEF IInv, TypeOK, Stages
  <1>4. bytes' = Archive(files, algos) /\ packed' = bytes'
    BY DEF Pack, Archive
  <1>5. BackingUp' /\ Restoring'
    BY <1>1, <1>2, <1>4 DEF BackingUp, Restoring
  <1>. QED BY <1>3, <1>5 DEF IInv

LEMMA CompressStep == ASSUME IInv, Compress PROVE IInv'
  <1>1. stage = "packed" /\ stage' = "squeezed" /\ UNCHANGED chosen
    BY DEF Compress, Stage
  <1>2. files' = files /\ algos' = algos /\ password' = password
    BY <1>1, ChosenKept
  <1>3. TypeOK'
    BY <1>1, <1>2 DEF IInv, TypeOK, Stages
  <1>4. bytes' = Compressed(bytes, algos) /\ squeezed' = bytes' /\ packed' = packed
    BY DEF Compress, Compressed
  <1>5. bytes = packed /\ packed = Archive(files, algos)
    BY <1>1 DEF IInv, BackingUp
  <1>6. BackingUp' /\ Restoring'
    BY <1>1, <1>2, <1>4, <1>5 DEF BackingUp, Restoring
  <1>. QED BY <1>3, <1>6 DEF IInv

LEMMA EncryptStep == ASSUME IInv, Encrypt PROVE IInv'
  <1>1. stage = "squeezed" /\ stage' = "encrypted" /\ UNCHANGED chosen
    BY DEF Encrypt, Stage
  <1>2. files' = files /\ algos' = algos /\ password' = password
    BY <1>1, ChosenKept
  <1>3. TypeOK'
    BY <1>1, <1>2 DEF IInv, TypeOK, Stages
  <1>4. bytes' = Encrypted(bytes, algos, password) /\ squeezed' = squeezed /\ packed' = packed
    BY DEF Encrypt, Encrypted
  <1>5. bytes = squeezed /\ packed = Archive(files, algos) /\ squeezed = Compressed(packed, algos)
    BY <1>1 DEF IInv, BackingUp
  <1>6. BackingUp' /\ Restoring'
    BY <1>1, <1>2, <1>4, <1>5 DEF BackingUp, Restoring
  <1>. QED BY <1>3, <1>6 DEF IInv

LEMMA SaveStep == ASSUME IInv, Save PROVE IInv'
  <1>1. stage = "encrypted" /\ stage' = "saved" /\ UNCHANGED chosen
    BY DEF Save, Stage
  <1>2. files' = files /\ algos' = algos /\ password' = password /\ saveHeader' = saveHeader
    BY <1>1, ChosenKept
  <1>3. TypeOK'
    BY <1>1, <1>2 DEF IInv, TypeOK, Stages
  <1>4. bytes' = saveHeader \o bytes /\ squeezed' = squeezed /\ packed' = packed
    BY DEF Save
  <1>5. bytes = Encrypted(squeezed, algos, password) /\ packed = Archive(files, algos)
        /\ squeezed = Compressed(packed, algos)
    BY <1>1 DEF IInv, BackingUp
  <1>6. BackingUp' /\ Restoring'
    BY <1>1, <1>2, <1>4, <1>5 DEF BackingUp, Restoring
  <1>. QED BY <1>3, <1>6 DEF IInv

LEMMA LoadStep == ASSUME IInv, Load PROVE IInv'
  <1>1. stage = "saved" /\ UNCHANGED chosen /\ stage' \in {"loaded", "refused"}
    BY DEF Load
  <1>2. /\ files' = files /\ algos' = algos /\ password' = password
        /\ Oversized' = Oversized /\ Written' = Written
    BY <1>1, ChosenKept
  <1>3. TypeOK'
    BY <1>1, <1>2 DEF IInv, TypeOK, Stages
  <1>4. squeezed' = squeezed /\ packed' = packed
    BY DEF Load
  <1> DEFINE y == Encrypted(squeezed, algos, password)
  <1>5. packed = Archive(files, algos) /\ squeezed = Compressed(packed, algos)
        /\ bytes = saveHeader \o y
    BY <1>1 DEF IInv, BackingUp
  <1>6. BackingUp'
    BY <1>1, <1>2, <1>4, <1>5 DEF BackingUp
  <1>7. ASSUME ~ Oversized PROVE Restoring'
    <2>1. y \in Seq(Byte)
      <3>1. TypeOK /\ BackingUp /\ stage \notin {"scanned", "packed"}
        BY <1>1 DEF IInv
      <3>2. squeezed \in Seq(Byte)
        BY <3>1, PayloadBytes
      <3>. QED BY <3>1, <3>2, Given, EncryptionUndone
    <2> HIDE DEF y
    <2>2. saveHeader \in Seq(Byte) /\ loadHeader(saveHeader \o y) = Written
      <3>1. Entries(files) /\ algos \in Algos /\ Small(files)
        BY <1>7, Given DEF IInv, Small, Oversized
      <3>. QED BY <2>1, <3>1, HeaderRead DEF Written
    <2>3. header' = Written
      BY <1>5, <2>2 DEF Load
    <2>4. header'.ok = TRUE /\ header'.start = Len(saveHeader)
      BY <2>3 DEF Written
    <2>5. stage' = "loaded"
      BY <2>4 DEF Load
    <2>6. bytes' = y
      <3>1. bytes' = After(saveHeader \o y, Len(saveHeader))
        BY <1>5, <2>4 DEF Load
      <3>. QED BY <2>1, <2>2, <3>1, AfterConcat
    <2>. QED BY <1>2, <1>4, <2>3, <2>5, <2>6 DEF Restoring, y
  <1>. QED BY <1>2, <1>3, <1>6, <1>7 DEF IInv

LEMMA DecryptStep == ASSUME IInv, Decrypt PROVE IInv'
  <1>1. stage = "loaded" /\ stage' = "decrypted" /\ UNCHANGED chosen
    BY DEF Decrypt, Stage
  <1>2. /\ files' = files /\ algos' = algos /\ password' = password
        /\ Oversized' = Oversized /\ Written' = Written
    BY <1>1, ChosenKept
  <1>3. TypeOK'
    BY <1>1, <1>2 DEF IInv, TypeOK, Stages
  <1>4. squeezed' = squeezed /\ packed' = packed /\ header' = header
    BY DEF Decrypt
  <1>5. packed = Archive(files, algos) /\ squeezed = Compressed(packed, algos)
    BY <1>1 DEF IInv, BackingUp
  <1>6. BackingUp'
    BY <1>1, <1>2, <1>4, <1>5 DEF BackingUp
  <1>7. ASSUME ~ Oversized PROVE Restoring'
    <2>1. header = Written /\ bytes = Encrypted(squeezed, algos, password)
      BY <1>1, <1>7 DEF IInv, Restoring
    <2>2. header.algos = algos
      BY <2>1 DEF Written
    <2>3. bytes' = Decrypted(bytes, algos, password)
      BY <2>2 DEF Decrypt, Decrypted
    <2>4. bytes' = squeezed
      <3>1. TypeOK /\ BackingUp /\ stage \notin {"scanned", "packed"}
        BY <1>1 DEF IInv
      <3>2. squeezed \in Seq(Byte)
        BY <3>1, PayloadBytes
      <3>. QED BY <2>1, <2>3, <3>1, <3>2, Given, EncryptionUndone
    <2>. QED BY <1>1, <1>2, <1>4, <2>1, <2>4 DEF Restoring
  <1>. QED BY <1>2, <1>3, <1>6, <1>7 DEF IInv

LEMMA DecompressStep == ASSUME IInv, Decompress PROVE IInv'
  <1>1. stage = "decrypted" /\ stage' = "decompressed" /\ UNCHANGED chosen
    BY DEF Decompress, Stage
  <1>2. /\ files' = files /\ algos' = algos /\ password' = password
        /\ Oversized' = Oversized /\ Written' = Written
    BY <1>1, ChosenKept
  <1>3. TypeOK'
    BY <1>1, <1>2 DEF IInv, TypeOK, Stages
  <1>4. squeezed' = squeezed /\ packed' = packed /\ header' = header
    BY DEF Decompress
  <1>5. packed = Archive(files, algos) /\ squeezed = Compressed(packed, algos)
    BY <1>1 DEF IInv, BackingUp
  <1>6. BackingUp'
    BY <1>1, <1>2, <1>4, <1>5 DEF BackingUp
  <1>7. ASSUME ~ Oversized PROVE Restoring'
    <2>1. header = Written /\ bytes = squeezed
      BY <1>1, <1>7 DEF IInv, Restoring
    <2>2. header.algos = algos
      BY <2>1 DEF Written
    <2>3. bytes' = Decompressed(squeezed, algos)
      BY <2>1, <2>2 DEF Decompress, Decompressed
    <2>. QED BY <1>1, <1>2, <1>4, <2>1, <2>3 DEF Restoring
  <1>. QED BY <1>2, <1>3, <1>6, <1>7 DEF IInv

LEMMA UnpackStep == ASSUME IInv, Unpack PROVE IInv'
  <1>1. stage = "decompressed" /\ stage' \in {"refused", "unpacked"} /\ UNCHANGED chosen
    BY DEF Unpack
  <1>2. /\ files' = files /\ algos' = algos /\ password' = password
        /\ Oversized' = Oversized /\ Written' = Written
    BY <1>1, ChosenKept
  <1>3. TypeOK'
    BY <1>1, <1>2 DEF IInv, TypeOK, Stages
  <1>4. bytes' = bytes /\ squeezed' = squeezed /\ packed' = packed /\ header' = header
    BY DEF Unpack
  <1>5. packed = Archive(files, algos) /\ squeezed = Compressed(packed, algos)
    BY <1>1 DEF IInv, BackingUp
  <1>6. BackingUp'
    BY <1>1, <1>2, <1>4, <1>5 DEF BackingUp
  <1>7. ASSUME ~ Oversized PROVE Restoring'
    <2>1. header = Written /\ bytes = Decompressed(squeezed, algos)
      BY <1>1, <1>7 DEF IInv, Restoring
    <2>2. header.algos = algos
      BY <2>1 DEF Written
    <2>3. stage' = IF Refused(bytes, algos) THEN "refused" ELSE "unpacked"
      BY <2>2 DEF Unpack, Refused
    <2>4. items' = Unpacked(bytes, algos)
      BY <2>2 DEF Unpack, Unpacked
    <2>. QED BY <1>1, <1>2, <1>4, <2>1, <2>3, <2>4 DEF Restoring
  <1>. QED BY <1>2, <1>3, <1>6, <1>7 DEF IInv

LEMMA Stutter == ASSUME IInv, UNCHANGED vars PROVE IInv'
  <1>1. UNCHANGED chosen
    BY DEF vars, chosen
  <1>2. /\ files' = files /\ algos' = algos /\ password' = password
        /\ Oversized' = Oversized /\ Written' = Written /\ saveHeader' = saveHeader
    BY <1>1, ChosenKept
  <1>3. /\ stage' = stage /\ bytes' = bytes /\ squeezed' = squeezed /\ packed' = packed
        /\ header' = header /\ items' = items
    BY DEF vars
  <1>4. TypeOK'
    BY <1>2, <1>3 DEF IInv, TypeOK
  <1>5. BackingUp'
    BY <1>2, <1>3 DEF IInv, BackingUp
  <1>6. ~ Oversized' => Restoring'
    BY <1>2, <1>3 DEF IInv, Restoring
  <1>. QED BY <1>4, <1>5, <1>6 DEF IInv

\* At every stage of a backup and of a restore the payload is the one that the chosen
\* strategies make of the entries, and what the restore has read is what was written:
\* BackupEngine::run and RestoreEngine::run.
THEOREM BackupInvariant == Spec => []IInv
  <1>1. IInv /\ [Next]_vars => IInv'
    BY PackStep, CompressStep, EncryptStep, SaveStep, LoadStep, DecryptStep,
       DecompressStep, UnpackStep, Stutter DEF Next
  <1>. QED BY <1>1, InitIInv, PTL DEF Spec

\* The header and the metadata of a backup file say again what was written, for every
\* entry that the scanner can make: MetadataStore and MetadataSerializer.
THEOREM HeaderStaysExact == Spec => []HeaderExact
  <1>1. IInv => HeaderExact
    <2> SUFFICES ASSUME IInv, ~ Oversized,
                        stage \in {"loaded", "decrypted", "decompressed", "unpacked"}
                 PROVE  /\ header.ok /\ header.algos = algos
                        /\ header.files = [i \in 1 .. Len(files) |-> Info(files[i])]
      BY DEF HeaderExact
    <2>1. header = Written
      BY DEF IInv, Restoring
    <2>. QED BY <2>1 DEF Written
  <1>. QED BY <1>1, BackupInvariant, PTL

\* What was encrypted is decrypted, for every cipher, password and payload:
\* EncryptStrategy on both sides of the file.
THEOREM CipherStaysUndone == Spec => []CipherUndone
  <1>1. IInv => CipherUndone
    BY DEF IInv, Restoring, CipherUndone
  <1>. QED BY <1>1, BackupInvariant, PTL

-----------------------------------------------------------------------------
(* Digits are read back *)

LEMMA DivRem ==
    ASSUME NEW base \in Nat \ {0}, NEW q \in Nat, NEW r \in 0 .. base - 1
    PROVE  (q * base + r) \div base = q /\ (q * base + r) % base = r
  <1> DEFINE n == q * base + r
             p == n \div base
             s == n % base
  <1>1. n \in Nat
    OBVIOUS
  <1>2. p \in Nat /\ s \in 0 .. base - 1 /\ n = p * base + s
    <2> HIDE DEF n
    <2>. QED BY <1>1, BaseFacts
  <1>3. p * base + s = q * base + r
    BY <1>2
  <1> HIDE DEF n, p, s
  <1>4. ~ p < q
    <2> SUFFICES ASSUME p + 1 <= q PROVE FALSE
      BY <1>2
    <2> DEFINE d == q - (p + 1)
    <2>1. d \in Nat /\ q = p + 1 + d
      BY <1>2
    <2> HIDE DEF d
    <2>2. q * base = p * base + base + d * base /\ d * base \in Nat
      BY <1>2, <2>1
    <2>. QED BY <1>2, <1>3, <2>2
  <1>5. ~ q < p
    <2> SUFFICES ASSUME q + 1 <= p PROVE FALSE
      BY <1>2
    <2> DEFINE d == p - (q + 1)
    <2>1. d \in Nat /\ p = q + 1 + d
      BY <1>2
    <2> HIDE DEF d
    <2>2. p * base = q * base + base + d * base /\ d * base \in Nat
      BY <1>2, <2>1
    <2>. QED BY <1>2, <1>3, <2>2
  <1>6. p = q
    BY <1>2, <1>4, <1>5
  <1>7. s = r
    BY <1>2, <1>3, <1>6
  <1>. QED BY <1>6, <1>7 DEF p, s, n

\* The digits of a value are those it was made of.
DigitsOf(n, d, base) ==
    /\ n \in Nat /\ Left(Shifts(n, base, Len(d)), n, base, Len(d))
    /\ Shifts(n, base, Len(d))[Len(d)] = 0
    /\ \A i \in 1 .. Len(d) : Shifts(n, base, Len(d))[i - 1] % base = d[i]

LEMMA ValueDigits ==
    ASSUME NEW base \in Nat \ {0}, NEW d \in Seq(0 .. base - 1)
    PROVE  DigitsOf(Value(d, base), d, base)
  <1> DEFINE w == Len(d)
             n == Value(d, base)
             rest == Shifts(n, base, w)
  <1>0. w \in Nat /\ d \in Seq(Nat) /\ \A i \in 1 .. w : d[i] \in 0 .. base - 1
    <2>1. 0 .. base - 1 \subseteq Nat
      OBVIOUS
    <2>. QED BY <2>1, SeqOfMore
  <1>1. PICK f : Sums(f, d, base) /\ n = f[w]
    BY <1>0, ValueStep
  <1>2. /\ f \in [0 .. w -> Nat] /\ f[0] = 0
        /\ \A i \in 1 .. w : f[i] = f[i - 1] * base + d[w - i + 1]
    BY <1>1 DEF Sums
  <1>3. n \in Nat
    BY <1>0, <1>1, <1>2
  <1> HIDE DEF w, n
  <1>4. Left(rest, n, base, w)
    BY <1>0, <1>3, ShiftsStep
  <1> HIDE DEF rest
  <1>5. rest[0] = n /\ \A i \in 1 .. w : rest[i] = rest[i - 1] \div base
    BY <1>4 DEF Left
  <1>6. ASSUME NEW i \in 1 .. w, rest[i - 1] = f[w - (i - 1)]
        PROVE  rest[i] = f[w - i] /\ rest[i - 1] % base = d[i]
    <2> DEFINE k == w - i + 1
               q == f[k - 1]
    <2>1. k \in 1 .. w /\ k - 1 \in 0 .. w /\ w - (i - 1) = k /\ w - i = k - 1 /\ w - k + 1 = i
      BY <1>0
    <2> HIDE DEF k
    <2>2. f[k] = q * base + d[i]
      BY <1>2, <2>1
    <2>3. q \in Nat
      BY <1>2, <2>1
    <2>4. d[i] \in 0 .. base - 1
      BY <1>0
    <2> HIDE DEF q
    <2>5. f[k] \div base = q /\ f[k] % base = d[i]
      BY <2>2, <2>3, <2>4, DivRem
    <2>6. rest[i - 1] = f[k]
      BY <1>6, <2>1
    <2>. QED BY <1>5, <2>1, <2>5, <2>6 DEF q
  <1> DEFINE P == {i \in 0 .. w : rest[i] = f[w - i]}
  <1>7. 0 \in P
    BY <1>0, <1>1, <1>5
  <1>8. ASSUME NEW i \in 1 .. w, i - 1 \in P PROVE i \in P
    BY <1>6, <1>8
  <1>9. 0 .. w \subseteq P
    <2> HIDE DEF P
    <2>. QED BY <1>0, <1>7, <1>8, Kept
  <1>10. rest[w] = 0
    <2>1. w \in P
      BY <1>0, <1>9
    <2>. QED BY <1>0, <1>2, <2>1
  <1>11. \A i \in 1 .. w : rest[i - 1] % base = d[i]
    <2> SUFFICES ASSUME NEW i \in 1 .. w PROVE rest[i - 1] % base = d[i]
      OBVIOUS
    <2>1. i - 1 \in P
      BY <1>0, <1>9
    <2>. QED BY <1>6, <2>1
  <1>. QED BY <1>3, <1>4, <1>10, <1>11 DEF DigitsOf, rest, n, w

LEMMA WrappedFits ==
    ASSUME NEW n \in Nat, NEW w \in Nat PROVE Fits(Wrapped(n, w), w) /\ Wrapped(n, w) \in Nat
  <1>1. LE(n, w) \in Seq(Byte) /\ Len(LE(n, w)) = w
    BY LEBytes
  <1>2. LE(n, w) \in Seq(0 .. Radix - 1)
    BY <1>1 DEF Byte
  <1>3. DigitsOf(Value(LE(n, w), Radix), LE(n, w), Radix)
    BY <1>2, RadixFacts, ValueDigits
  <1>. QED BY <1>1, <1>3 DEF DigitsOf, Fits, Wrapped, Num

-----------------------------------------------------------------------------
(* The Huffman code is read back *)

LEMMA BitIs ==
    ASSUME NEW bits \in Code, NEW k \in 1 .. Len(bits)
    PROVE  Bit(Packed(bits), k) = bits[k]
  <1> DEFINE n == Len(bits)
             m == (n + Bits - 1) \div Bits
             q == (k - 1) \div Bits
             r == (k - 1) % Bits
             s == Slice(bits, q * Bits, Bits)
  <1>0. Bits \in Nat \ {0} /\ n \in Nat
    BY BitsAssumption DEF BitsAssumption, Code
  <1>1. q \in Nat /\ r \in 0 .. Bits - 1 /\ k - 1 = q * Bits + r
    <2> DEFINE p == k - 1
    <2>1. p \in Nat
      BY <1>0
    <2> HIDE DEF p
    <2>2. p \div Bits \in Nat /\ p % Bits \in 0 .. Bits - 1 /\ p = (p \div Bits) * Bits + (p % Bits)
      BY <1>0, <2>1, BaseFacts
    <2>. QED BY <2>2 DEF p
  <1>2. q * Bits \in Nat /\ q * Bits + (r + 1) = k /\ r + 1 \in 1 .. Bits
    <2> HIDE DEF q, r
    <2>1. q * Bits \in Nat
      BY <1>0, <1>1
    <2> DEFINE u == q * Bits
    <2> HIDE DEF u
    <2>2. u \in Nat /\ k - 1 = u + r
      BY <1>1, <2>1 DEF u
    <2>3. u + (r + 1) = k
      BY <1>0, <1>1, <2>2
    <2>. QED BY <1>0, <1>1, <2>1, <2>3 DEF u
  <1>3. q + 1 \in 1 .. m
    <2> HIDE DEF q, r
    <2> DEFINE u == q * Bits
               v == n + Bits - 1
    <2>1. (q + 1) * Bits = u + Bits
      BY <1>0, <1>1
    <2> HIDE DEF u
    <2>2. u \in Nat /\ u + (r + 1) = k
      BY <1>2 DEF u
    <2>3. u + Bits <= v /\ v \in Nat /\ u + Bits \in Nat
      BY <1>0, <1>1, <2>2
    <2> HIDE DEF v
    <2>4. (u + Bits) \div Bits <= v \div Bits
      BY <1>0, <2>3, DivMonotone
    <2>5. ((q + 1) * Bits + 0) \div Bits = q + 1
      <3>1. 0 \in 0 .. Bits - 1 /\ q + 1 \in Nat
        BY <1>0, <1>1
      <3>. QED BY <1>0, <3>1, DivRem
    <2>6. (q + 1) * Bits + 0 = u + Bits
      BY <2>1, <2>2, <1>0
    <2>7. q + 1 <= v \div Bits
      BY <2>4, <2>5, <2>6
    <2>8. v \div Bits \in Nat
      BY <1>0, <2>3, BaseFacts
    <2>. QED BY <1>1, <2>7, <2>8 DEF v
  <1>4. s \in Seq(0 .. 1) /\ Len(s) = Bits /\ s[r + 1] = bits[k]
    <2> HIDE DEF q, r
    <2> DEFINE u == q * Bits
    <2> HIDE DEF u
    <2>0. u \in Nat /\ u + (r + 1) = k
      BY <1>2 DEF u
    <2>1. ASSUME NEW i \in 1 .. Bits
          PROVE (IF u + i <= n THEN bits[u + i] ELSE 0) \in 0 .. 1
      <3>1. ASSUME u + i <= n PROVE bits[u + i] \in 0 .. 1
        <4>1. u + i \in 1 .. n
          BY <1>0, <2>0, <3>1
        <4>2. bits[u + i] \in {0, 1}
          BY <4>1 DEF Code
        <4>. QED BY <4>2
      <3>. QED BY <3>1
    <2>2. Slice(bits, u, Bits) \in Seq(0 .. 1) /\ Len(Slice(bits, u, Bits)) = Bits
      BY <1>0, <2>1 DEF Slice
    <2>3. Slice(bits, u, Bits)[r + 1] = IF u + (r + 1) <= n THEN bits[u + (r + 1)] ELSE 0
      BY <1>2 DEF Slice
    <2>4. Slice(bits, u, Bits)[r + 1] = bits[k]
      BY <2>0, <2>3
    <2>. QED BY <2>2, <2>4 DEF u
  <1>5. Packed(bits)[q + 1] = Value(s, 2)
    <2>1. Packed(bits) = [j \in 1 .. m |-> Value(Slice(bits, (j - 1) * Bits, Bits), 2)]
      BY DEF Packed
    <2> HIDE DEF q, m
    <2>2. (q + 1) - 1 = q
      BY <1>1
    <2>. QED BY <1>3, <2>1, <2>2
  <1>6. Shifts(Value(s, 2), 2, Bits)[r] % 2 = bits[k]
    <2> HIDE DEF s, r
    <2>1. s \in Seq(0 .. 2 - 1) /\ 2 \in Nat \ {0}
      BY <1>4
    <2>2. DigitsOf(Value(s, 2), s, 2)
      BY <2>1, ValueDigits
    <2>3. Shifts(Value(s, 2), 2, Bits)[(r + 1) - 1] % 2 = s[r + 1]
      BY <1>2, <1>4, <2>2 DEF DigitsOf
    <2>4. (r + 1) - 1 = r
      BY <1>1
    <2>. QED BY <1>4, <2>3, <2>4
  <1>7. Bit(Packed(bits), k) = Shifts(Packed(bits)[q + 1], 2, Bits)[r] % 2
    BY DEF Bit
  <1> HIDE DEF q, r, s
  <1>. QED BY <1>5, <1>6, <1>7

LEMMA FrequencyFits ==
    ASSUME NEW x \in Seq(Byte), NEW b \in Byte
    PROVE  countFrequencies(x)[b] \in Nat /\ Fits(countFrequencies(x)[b], WFreq)
  <1> DEFINE n == Cardinality({i \in 1 .. Len(x) : x[i] = b})
  <1>1. n \in Nat
    <2>1. Len(x) \in Nat /\ {i \in 1 .. Len(x) : x[i] = b} \subseteq 1 .. Len(x)
      OBVIOUS
    <2>. QED BY <2>1, Countable
  <1>2. countFrequencies(x)[b] = Wrapped(n, WFreq)
    BY DEF countFrequencies
  <1> HIDE DEF n
  <1>3. WFreq \in Nat
    BY BitsAssumption DEF BitsAssumption
  <1>. QED BY <1>1, <1>2, <1>3, WrappedFits

\* Where the frequency of a byte is.
LEMMA TableAt ==
    ASSUME NEW x \in Seq(Byte)
    PROVE  /\ Len(TableOf(x)) = Radix * WFreq
           /\ \A b \in Byte : At(TableOf(x), b * WFreq, LE(countFrequencies(x)[b], WFreq))
  <1> DEFINE p == [i \in 1 .. Radix |-> LE(countFrequencies(x)[i - 1], WFreq)]
  <1>0. Radix \in Nat /\ WFreq \in Nat
    BY RadixFacts, BitsAssumption DEF BitsAssumption
  <1>1. p \in [1 .. Radix -> Seq(Byte)]
    BY TableBytes
  <1>2. ASSUME NEW i \in 1 .. Radix
        PROVE  /\ i - 1 \in Byte /\ p[i] = LE(countFrequencies(x)[i - 1], WFreq)
               /\ Len(p[i]) = WFreq
    <2>1. i - 1 \in Byte
      BY <1>0 DEF Byte
    <2>2. countFrequencies(x)[i - 1] \in Nat
      BY <2>1, FrequencyFits
    <2>3. p[i] = LE(countFrequencies(x)[i - 1], WFreq)
      OBVIOUS
    <2>. QED BY <1>0, <2>1, <2>2, <2>3, LEBytes
  <1>3. TableOf(x) = FlattenSeq(p)
    BY DEF TableOf
  <1> HIDE DEF p
  <1>4. PICK f : Builds(f, p, Radix, Byte) /\ FlattenSeq(p) = f[Radix]
    BY <1>0, <1>1, FlattenIs
  <1> DEFINE P == {i \in 0 .. Radix : Len(f[i]) = i * WFreq}
  <1>5. 0 \in P
    BY <1>0, <1>4 DEF Builds
  <1>6. ASSUME NEW i \in 1 .. Radix, i - 1 \in P PROVE i \in P
    <2>1. Grows(f, p, i, Byte)
      BY <1>4, PrefixFacts
    <2>2. Len(f[i]) = Len(f[i - 1]) + WFreq
      BY <1>2, <2>1 DEF Grows
    <2>3. Len(f[i - 1]) = (i - 1) * WFreq
      BY <1>6
    <2>4. (i - 1) * WFreq + WFreq = i * WFreq
      BY <1>0
    <2>. QED BY <2>2, <2>3, <2>4
  <1>7. 0 .. Radix \subseteq P
    <2> HIDE DEF P
    <2>. QED BY <1>0, <1>5, <1>6, Kept
  <1>8. ASSUME NEW b \in Byte
        PROVE  At(TableOf(x), b * WFreq, LE(countFrequencies(x)[b], WFreq))
    <2>1. b + 1 \in 1 .. Radix /\ (b + 1) - 1 = b /\ b \in 0 .. Radix
      BY <1>0 DEF Byte
    <2>2. At(f[Radix], Len(f[(b + 1) - 1]), p[b + 1])
      BY <1>4, <2>1, PieceAt
    <2>3. p[b + 1] = LE(countFrequencies(x)[b], WFreq)
      BY <1>2, <2>1
    <2>4. Len(f[b]) = b * WFreq
      BY <1>7, <2>1
    <2>. QED BY <1>3, <1>4, <2>1, <2>2, <2>3, <2>4
  <1>9. Len(TableOf(x)) = Radix * WFreq
    <2>1. Radix \in 0 .. Radix
      BY <1>0
    <2>. QED BY <1>3, <1>4, <1>7, <2>1
  <1>. QED BY <1>8, <1>9

\* HuffmanDecompress in parts: the bytes whose code comes next, and the walk.
Coming(codes, data, total, at) ==
    {b \in DOMAIN codes :
        /\ codes[b] # <<>> /\ at + Len(codes[b]) <= total
        /\ \A k \in 1 .. Len(codes[b]) : Bit(data, at + k) = codes[b][k]}

Walk(codes, data, total, size) ==
    LET walk[i \in 0 .. size] ==
            IF i = 0 THEN [at |-> 0, out |-> <<>>]
            ELSE LET so == walk[i - 1] IN
                 IF so.at = total \/ Coming(codes, data, total, so.at) = {} THEN so
                 ELSE LET b == CHOOSE b \in Coming(codes, data, total, so.at) : TRUE IN
                      [at |-> so.at + Len(codes[b]), out |-> Append(so.out, b)]
    IN walk

LEMMA DecompressIs ==
    ASSUME NEW c
    PROVE  LET head == W64 + Radix * WFreq
               size == Num(Slice(c, 0, W64))
               freqs == [b \in Byte |-> Num(Slice(c, W64 + b * WFreq, WFreq))]
               total == Num(Slice(c, head, W64))
               data == Slice(c, head + W64, (total + Bits - 1) \div Bits)
           IN HuffmanDecompress(c) =
                IF Len(c) < head + W64 \/ size = 0 THEN <<>>
                ELSE Walk(buildTree(freqs).codes, data, total, size)[size].out
  BY DEF HuffmanDecompress, Walk, Coming

\* Every byte of x has a code of at least one bit, and none is the beginning of another.
Decodable(x, codes) ==
    /\ codes \in Codes /\ PrefixFree(codes)
    /\ \A i \in 1 .. Len(x) : x[i] \in DOMAIN codes /\ codes[x[i]] # <<>>

CodedBy(x, codes) == [i \in 1 .. Len(x) |-> codes[x[i]]]

\* At the end of what the bytes before byte i are written as comes the code of byte i.
ComesNext(x, codes, f, bits, i) ==
    /\ Coming(codes, Packed(bits), Len(bits), Len(f[i - 1])) = {x[i]}
    /\ Len(f[i]) = Len(f[i - 1]) + Len(codes[x[i]]) /\ Len(f[i - 1]) # Len(bits)

LEMMA OneComes ==
    ASSUME NEW x \in Seq(Byte), NEW codes, Decodable(x, codes),
           NEW f, Builds(f, CodedBy(x, codes), Len(x), Byte), NEW bits \in Code,
           bits = f[Len(x)], NEW i \in 1 .. Len(x)
    PROVE  ComesNext(x, codes, f, bits, i)
  <1> DEFINE at == Len(f[i - 1])
             n == Len(x)
             a == x[i]
             data == Packed(bits)
             set == Coming(codes, data, Len(bits), at)
  <1>0. n \in Nat /\ Len(bits) \in Nat
    BY DEF Code
  <1>1. a \in DOMAIN codes /\ codes[a] # <<>>
    BY DEF Decodable
  <1>2. \A b \in DOMAIN codes : codes[b] \in Code /\ Len(codes[b]) \in Nat
    <2>1. PICK S \in SUBSET Byte : codes \in [S -> Code]
      BY DEF Decodable, Codes
    <2>. QED BY <2>1 DEF Code
  <1>3. CodedBy(x, codes)[i] = codes[a]
    BY DEF CodedBy
  <1>4. Grows(f, CodedBy(x, codes), i, Byte) /\ At(f[n], at, CodedBy(x, codes)[i])
    <2>1. Grows(f, CodedBy(x, codes), i, Byte)
      BY PrefixFacts
    <2>2. At(f[n], Len(f[i - 1]), CodedBy(x, codes)[i])
      BY PieceAt
    <2>. QED BY <2>1, <2>2
  <1>5. at \in Nat /\ Len(f[i]) = at + Len(codes[a])
    BY <1>3, <1>4 DEF Grows
  <1>6. at + Len(codes[a]) <= Len(bits) /\ \A k \in 1 .. Len(codes[a]) : bits[at + k] = codes[a][k]
    <2>1. At(bits, at, codes[a])
      BY <1>3, <1>4
    <2>. QED BY <2>1 DEF At
  <1> HIDE DEF at, n, a
  <1>7. ASSUME NEW b \in DOMAIN codes, at + Len(codes[b]) <= Len(bits), NEW k \in 1 .. Len(codes[b])
        PROVE  Bit(data, at + k) = bits[at + k]
    <2>1. at + k \in 1 .. Len(bits)
      BY <1>0, <1>2, <1>5, <1>7
    <2>. QED BY <2>1, BitIs
  <1>8. a \in set
    <2>1. ASSUME NEW k \in 1 .. Len(codes[a]) PROVE Bit(data, at + k) = codes[a][k]
      BY <1>1, <1>6, <1>7
    <2>. QED BY <1>1, <1>6, <2>1 DEF Coming
  <1>9. ASSUME NEW b \in set, b # a PROVE FALSE
    <2>1. /\ b \in DOMAIN codes /\ at + Len(codes[b]) <= Len(bits)
          /\ \A k \in 1 .. Len(codes[b]) : Bit(data, at + k) = codes[b][k]
      BY DEF Coming
    <2>2. Disagree(codes[a], codes[b])
      BY <1>1, <1>9, <2>1 DEF Decodable, PrefixFree
    <2>3. PICK k \in 1 .. Len(codes[a]) : k <= Len(codes[b]) /\ codes[a][k] # codes[b][k]
      BY <2>2 DEF Disagree
    <2>4. k \in 1 .. Len(codes[b])
      BY <1>1, <1>2, <2>1, <2>3
    <2>5. codes[b][k] = bits[at + k]
      BY <1>7, <2>1, <2>4
    <2>6. codes[a][k] = bits[at + k]
      BY <1>6
    <2>. QED BY <2>3, <2>5, <2>6
  <1>10. set = {a}
    <2> HIDE DEF set
    <2>. QED BY <1>8, <1>9
  <1>11. at # Len(bits)
    <2> DEFINE l == Len(codes[a])
    <2>1. l \in Nat /\ l # 0
      <3> DEFINE c == codes[a]
      <3>1. c \in Code /\ c # <<>>
        BY <1>1, <1>2
      <3> HIDE DEF c
      <3>2. Len(c) \in Nat /\ Len(c) # 0
        BY <3>1 DEF Code
      <3>. QED BY <3>2 DEF c
    <2> HIDE DEF l
    <2>2. at + l <= Len(bits)
      BY <1>6 DEF l
    <2>. QED BY <1>0, <1>5, <2>1, <2>2
  <1>. QED BY <1>5, <1>10, <1>11 DEF at, a, ComesNext

\* The walk gives back all bytes.
LEMMA WalkIs ==
    ASSUME NEW x \in Seq(Byte), NEW codes, Decodable(x, codes),
           NEW f, Builds(f, CodedBy(x, codes), Len(x), Byte), NEW bits \in Code,
           bits = f[Len(x)]
    PROVE  Walk(codes, Packed(bits), Len(bits), Len(x))[Len(x)].out = x
  <1>a. ASSUME NEW i \in 1 .. Len(x)
        PROVE  ComesNext(x, codes, f, bits, i)
    BY OneComes
  <1> DEFINE n == Len(x)
             data == Packed(bits)
             total == Len(bits)
             Body(g) == [i \in 0 .. n |->
                IF i = 0 THEN [at |-> 0, out |-> <<>>]
                ELSE LET so == g[i - 1] IN
                     IF so.at = total \/ Coming(codes, data, total, so.at) = {} THEN so
                     ELSE LET b == CHOOSE b \in Coming(codes, data, total, so.at) : TRUE IN
                          [at |-> so.at + Len(codes[b]), out |-> Append(so.out, b)]]
             walk == CHOOSE g : g = Body(g)
             known == [i \in 0 .. n |-> [at |-> Len(f[i]), out |-> SubSeq(x, 1, i)]]
  <1>0. n \in Nat
    OBVIOUS
  <1>1. known[0] = [at |-> 0, out |-> <<>>]
    <2>1. Len(f[0]) = 0
      BY DEF Builds
    <2>2. SubSeq(x, 1, 0) = <<>>
      OBVIOUS
    <2>. QED BY <1>0, <2>1, <2>2
  <1>2. ASSUME NEW i \in 1 .. n, NEW so, so = known[i - 1]
        PROVE  known[i] =
                 IF so.at = total \/ Coming(codes, data, total, so.at) = {} THEN so
                 ELSE LET b == CHOOSE b \in Coming(codes, data, total, so.at) : TRUE IN
                      [at |-> so.at + Len(codes[b]), out |-> Append(so.out, b)]
    <2>1. i - 1 \in 0 .. n /\ i \in 0 .. n
      BY <1>0
    <2>2. so = [at |-> Len(f[i - 1]), out |-> SubSeq(x, 1, i - 1)]
      BY <1>2, <2>1
    <2>3. known[i] = [at |-> Len(f[i]), out |-> SubSeq(x, 1, i)]
      BY <2>1
    <2> HIDE DEF known, data, total
    <2>4. /\ Coming(codes, data, total, so.at) = {x[i]} /\ so.at # total
          /\ Len(f[i]) = so.at + Len(codes[x[i]])
      <3>1. so.at = Len(f[i - 1])
        BY <2>2
      <3>2. /\ Coming(codes, Packed(bits), Len(bits), Len(f[i - 1])) = {x[i]}
            /\ Len(f[i]) = Len(f[i - 1]) + Len(codes[x[i]]) /\ Len(f[i - 1]) # Len(bits)
        BY <1>a DEF ComesNext
      <3>. QED BY <3>1, <3>2 DEF data, total
    <2>5. (CHOOSE b \in Coming(codes, data, total, so.at) : TRUE) = x[i]
      BY <2>4
    <2>6. SubSeq(x, 1, i) = Append(so.out, x[i])
      <3>1. SubSeq(x, 1, i) = Append(SubSeq(x, 1, i - 1), x[i])
        BY <1>0
      <3>. QED BY <2>2, <3>1
    <2>. QED BY <2>3, <2>4, <2>5, <2>6
  <1>3. known = Body(known)
    <2>1. \A i \in 0 .. n : known[i] = Body(known)[i]
      <3> SUFFICES ASSUME NEW i \in 0 .. n PROVE known[i] = Body(known)[i]
        OBVIOUS
      <3> HIDE DEF known, data, total
      <3>1. CASE i = 0
        BY <1>0, <1>1, <3>1
      <3>2. CASE i # 0
        <4>1. i \in 1 .. n
          BY <1>0, <3>2
        <4>. QED BY <1>2, <3>2, <4>1
      <3>. QED BY <3>1, <3>2
    <2>2. known = [i \in 0 .. n |-> known[i]]
      OBVIOUS
    <2> HIDE DEF known
    <2>. QED BY <2>1, <2>2
  <1> HIDE DEF known
  <1>4. walk = Body(walk)
    BY <1>3
  <1>5. Walk(codes, data, total, n) = walk
    BY DEF Walk
  <1> HIDE DEF walk, data, total
  <1> DEFINE P == {i \in 0 .. n : walk[i] = known[i]}
  <1>6. 0 \in P
    <2>1. walk[0] = [at |-> 0, out |-> <<>>]
      BY <1>0, <1>4
    <2>. QED BY <1>0, <1>1, <2>1
  <1>7. ASSUME NEW i \in 1 .. n, i - 1 \in P PROVE i \in P
    <2>1. i \in 0 .. n /\ i # 0 /\ walk[i - 1] = known[i - 1]
      BY <1>0, <1>7
    <2> DEFINE so == walk[i - 1]
    <2>2. walk[i] =
            IF so.at = total \/ Coming(codes, data, total, so.at) = {} THEN so
            ELSE LET b == CHOOSE b \in Coming(codes, data, total, so.at) : TRUE IN
                 [at |-> so.at + Len(codes[b]), out |-> Append(so.out, b)]
      BY <1>4, <2>1
    <2>3. so = known[i - 1]
      BY <2>1
    <2> HIDE DEF so
    <2>4. walk[i] = known[i]
      BY <1>2, <2>2, <2>3
    <2>. QED BY <2>1, <2>4
  <1>8. 0 .. n \subseteq P
    <2> HIDE DEF P
    <2>. QED BY <1>0, <1>6, <1>7, Kept
  <1>9. walk[n].out = SubSeq(x, 1, n)
    <2>1. n \in P /\ n \in 0 .. n
      BY <1>0, <1>8
    <2>2. walk[n] = [at |-> Len(f[n]), out |-> SubSeq(x, 1, n)]
      BY <2>1 DEF known
    <2>. QED BY <2>2
  <1>10. SubSeq(x, 1, n) = x
    OBVIOUS
  <1>. QED BY <1>5, <1>9, <1>10 DEF data, total

-----------------------------------------------------------------------------
(* What the run-length code costs *)

\* How many blocks of literals n bytes need.
Full(n) == (n + MaxBlock - 1) \div MaxBlock

LEMMA FullIs ==
    ASSUME NEW m \in Nat, NEW n \in Nat, m <= n
    PROVE  /\ Full(m) \in Nat /\ Full(n) \in Nat /\ Full(m) <= Full(n)
           /\ Full(n + MaxBlock) = Full(n) + 1
           /\ n # 0 => Full(n) >= 1
  <1> DEFINE M == MaxBlock
  <1>0. M \in Nat \ {0}
    BY BlockFacts
  <1> HIDE DEF M
  <1> DEFINE a == m + M - 1
             b == n + M - 1
  <1>1. a \in Nat /\ b \in Nat /\ a <= b
    BY <1>0
  <1>2. n + M + M - 1 = b + M
    BY <1>0
  <1>3. n # 0 => M <= b
    BY <1>0
  <1> HIDE DEF a, b
  <1>4. a \div M \in Nat /\ b \div M \in Nat /\ a \div M <= b \div M
    BY <1>0, <1>1, BaseFacts, DivMonotone
  <1>5. (b + M) \div M = (b \div M) + 1
    <2> DEFINE q == b \div M
               r == b % M
    <2>1. q \in Nat /\ r \in 0 .. M - 1 /\ b = q * M + r
      BY <1>0, <1>1, BaseFacts
    <2> HIDE DEF q, r
    <2>2. b + M = (q + 1) * M + r /\ q + 1 \in Nat
      BY <1>0, <2>1
    <2>3. ((q + 1) * M + r) \div M = q + 1
      BY <1>0, <2>1, <2>2, DivRem
    <2>. QED BY <2>2, <2>3 DEF q
  <1>6. n # 0 => b \div M >= 1
    <2> SUFFICES ASSUME n # 0 PROVE b \div M >= 1
      OBVIOUS
    <2>1. M \div M <= b \div M
      BY <1>0, <1>1, <1>3, DivMonotone
    <2>2. (1 * M + 0) \div M = 1
      <3>1. 0 \in 0 .. M - 1 /\ 1 \in Nat
        BY <1>0
      <3>. QED BY <1>0, <3>1, DivRem
    <2>3. 1 * M + 0 = M
      BY <1>0
    <2>. QED BY <1>4, <2>1, <2>2, <2>3
  <1>7. Full(m) = a \div M /\ Full(n) = b \div M /\ Full(n + M) = (b + M) \div M
    <2>1. Full(m) = (m + M - 1) \div M /\ Full(n) = (n + M - 1) \div M
          /\ Full(n + M) = (n + M + M - 1) \div M
      BY DEF Full, M
    <2>. QED BY <1>2, <2>1 DEF a, b
  <1>. QED BY <1>4, <1>5, <1>6, <1>7 DEF M

\* A literal block ends for one of its reasons.
LEMMA LiteralEnds ==
    ASSUME NEW input \in Seq(Byte), NEW pos \in Nat, pos < Len(input)
    PROVE  \/ pos + Literal(input, pos) >= Len(input) \/ Literal(input, pos) = MaxBlock
           \/ Run(input, pos + Literal(input, pos), 3) >= 3
  <1> DEFINE S == {k \in 1 .. MaxBlock :
                      \/ pos + k >= Len(input) \/ k = MaxBlock
                      \/ Run(input, pos + k, 3) >= 3}
  <1>1. MaxBlock \in S /\ S \in SUBSET Nat /\ Literal(input, pos) = Min(S)
    BY BlockFacts DEF Literal
  <1>2. \A k \in S : pos + k >= Len(input) \/ k = MaxBlock \/ Run(input, pos + k, 3) >= 3
    OBVIOUS
  <1> HIDE DEF S
  <1>3. Min(S) \in S
    BY <1>1, MinIs
  <1>. QED BY <1>1, <1>2, <1>3

\* Three equal bytes are a run for a whole block as well.
LEMMA LongRun ==
    ASSUME NEW input \in Seq(Byte), NEW pos \in Nat, pos < Len(input), Run(input, pos, 3) >= 3
    PROVE  Run(input, pos, MaxBlock) >= 3
  <1> DEFINE S == {k \in 1 .. MaxBlock :
                      pos + k <= Len(input) /\ \A j \in 1 .. k : input[pos + j] = input[pos + 1]}
             r == Run(input, pos, 3)
  <1>1. r \in 1 .. 3 /\ pos + r <= Len(input) /\ \A j \in 1 .. r : input[pos + j] = input[pos + 1]
    BY RunIs
  <1>2. r = 3 /\ MaxBlock \in Nat /\ MaxBlock >= 3
    BY <1>1, BlockFacts, BlockAssumption DEF BlockAssumption
  <1>3. 3 \in S /\ S \in SUBSET (1 .. MaxBlock)
    <2>1. 3 \in 1 .. MaxBlock
      BY <1>2
    <2>2. pos + 3 <= Len(input) /\ \A j \in 1 .. 3 : input[pos + j] = input[pos + 1]
      <3> HIDE DEF r
      <3>. QED BY <1>1, <1>2
    <2>. QED BY <2>1, <2>2
  <1>4. Run(input, pos, MaxBlock) = Max(S)
    BY DEF Run
  <1> HIDE DEF S
  <1>5. Max(S) \in 1 .. MaxBlock /\ 3 <= Max(S)
    BY <1>2, <1>3, MaxIs
  <1>. QED BY <1>4, <1>5

\* The blocks from a position on; a run saves a byte.
Bounded(input, B, pos) ==
    LET rest == Len(input) - pos IN
    /\ Len(B[pos]) <= rest + Full(rest)
    /\ pos < Len(input) /\ Run(input, pos, MaxBlock) >= 3 => Len(B[pos]) + 1 <= rest + Full(rest)

LEMMA BoundedStep ==
    ASSUME NEW input \in Seq(Byte), NEW B, Blocks(input, B), NEW pos \in 0 .. Len(input),
           \A p \in pos + 1 .. Len(input) : Bounded(input, B, p)
    PROVE  Bounded(input, B, pos)
  <1> DEFINE k == Len(input)
             M == MaxBlock
  <1>0. k \in Nat /\ M \in Nat \ {0} /\ M >= 3
    BY BlockFacts, BlockAssumption DEF BlockAssumption
  <1>1. CASE pos = k
    <2>1. Len(B[pos]) = 0
      BY <1>1 DEF Blocks
    <2>2. Full(k - pos) \in Nat /\ k - pos = 0
      BY <1>0, <1>1, FullIs
    <2>. QED BY <1>1, <2>1, <2>2 DEF Bounded
  <1>2. CASE pos # k
    <2> DEFINE c == Covers(input, pos)
               q == pos + c
               y == B[q]
               rest == k - pos
    <2>1. pos \in 0 .. k - 1 /\ pos \in Nat /\ pos < k
      BY <1>0, <1>2
    <2>2. c \in 1 .. M /\ q <= k /\ BlockAt(input, pos) \in Seq(Byte)
      BY <2>1, BlockIs
    <2>3. q \in pos + 1 .. k /\ q \in 0 .. k
      BY <1>0, <2>1, <2>2
    <2>4. B[pos] = BlockAt(input, pos) \o y /\ y \in Seq(Byte)
      BY <2>1, <2>3 DEF Blocks
    <2>5. Len(B[pos]) = Len(BlockAt(input, pos)) + Len(y) /\ Len(y) \in Nat
      BY <2>2, <2>4, Concatenated
    <2>6. Bounded(input, B, q)
      BY <2>3
    <2> DEFINE left == k - q
    <2>7. left \in Nat /\ rest \in Nat \ {0} /\ rest = left + c /\ left <= rest
      BY <1>0, <2>1, <2>2, <2>3
    <2>8. /\ Len(y) <= left + Full(left)
          /\ q < k /\ Run(input, q, M) >= 3 => Len(y) + 1 <= left + Full(left)
      BY <2>6 DEF Bounded
    <2>9. /\ Full(left) \in Nat /\ Full(rest) \in Nat /\ Full(left) <= Full(rest)
          /\ Full(left + M) = Full(left) + 1 /\ Full(rest) >= 1
      <3> HIDE DEF left, rest
      <3>1. Full(left) \in Nat /\ Full(rest) \in Nat /\ Full(left) <= Full(rest)
        BY <2>7, FullIs
      <3>2. Full(left + M) = Full(left) + 1
        BY <2>7, FullIs
      <3>3. Full(rest) >= 1
        BY <2>7, FullIs
      <3>. QED BY <3>1, <3>2, <3>3
    <2>10. CASE ~ Run(input, pos, M) < 3
      <3>1. BlockAt(input, pos) = <<M + Run(input, pos, M) - 1, input[pos + 1]>>
            /\ c = Run(input, pos, M)
        BY <2>10 DEF BlockAt, Covers
      <3>2. Len(BlockAt(input, pos)) = 2
        BY <3>1
      <3>3. c >= 3
        BY <2>2, <2>10, <3>1
      <3> HIDE DEF c, q, y, left, rest
      <3>4. Len(B[pos]) + 1 <= rest + Full(rest)
        BY <2>2, <2>5, <2>7, <2>8, <2>9, <3>2, <3>3
      <3>5. Len(B[pos]) <= rest + Full(rest)
        BY <2>2, <2>5, <2>7, <2>8, <2>9, <3>2, <3>3
      <3>. QED BY <3>4, <3>5 DEF Bounded, rest
    <2>11. CASE Run(input, pos, M) < 3
      <3>1. BlockAt(input, pos) = <<c - 1>> \o Slice(input, pos, c) /\ c = Literal(input, pos)
        BY <2>11 DEF BlockAt, Covers
      <3>2. Len(BlockAt(input, pos)) = 1 + c
        <4>1. Slice(input, pos, c) \in Seq(Byte) /\ Len(Slice(input, pos, c)) = c
          BY <1>0, <2>1, <2>2, SliceIs
        <4>2. <<c - 1>> \in Seq(Byte) /\ Len(<<c - 1>>) = 1
          BY <2>2, InByte
        <4> DEFINE u == <<c - 1>>
        <4> HIDE DEF u, c
        <4>. QED BY <3>1, <4>1, <4>2, Concatenated DEF u
      <3>3. \/ q >= k \/ c = M \/ Run(input, q, 3) >= 3
        BY <2>1, <3>1, LiteralEnds
      <3>4. Len(B[pos]) <= rest + Full(rest)
        <4>1. CASE q >= k
          <5> HIDE DEF c, q, y
          <5>0. left = 0
            BY <2>3, <4>1
          <5>1. Len(y) = 0
            <6>1. q = k
              BY <1>0, <2>3, <4>1
            <6>. QED BY <6>1 DEF Blocks, y
          <5> HIDE DEF left, rest
          <5>. QED BY <2>2, <2>5, <2>7, <2>9, <3>2, <5>0, <5>1
        <4>2. CASE c = M
          <5> HIDE DEF c, q, y, left, rest
          <5>. QED BY <2>2, <2>5, <2>7, <2>8, <2>9, <3>2, <4>2
        <4>3. CASE q < k /\ Run(input, q, 3) >= 3
          <5>1. Run(input, q, M) >= 3
            <6>1. q \in Nat /\ q < Len(input)
              BY <2>3, <4>3
            <6>. QED BY <4>3, <6>1, LongRun
          <5> HIDE DEF c, q, y, left, rest
          <5>. QED BY <2>2, <2>5, <2>7, <2>8, <2>9, <3>2, <4>3, <5>1
        <4>4. q >= k \/ q < k
          BY <1>0, <2>3
        <4>. QED BY <3>3, <4>1, <4>2, <4>3, <4>4
      <3>5. ~ Run(input, pos, M) >= 3
        <4>1. Run(input, pos, M) \in 1 .. M
          BY <1>0, <2>1, RunIs
        <4> DEFINE r == Run(input, pos, M)
        <4> HIDE DEF r
        <4>2. r \in 1 .. M /\ r < 3
          BY <2>11, <4>1 DEF r
        <4>3. ~ r >= 3
          BY <1>0, <4>2
        <4>. QED BY <4>3 DEF r
      <3>. QED BY <3>4, <3>5 DEF Bounded
    <2>. QED BY <2>10, <2>11
  <1>. QED BY <1>1, <1>2

\* The run-length code costs at most one byte for each block of literals, and the size:
\* RleCompressStrategy::compress.
THEOREM RleCost ==
    ASSUME NEW input \in Seq(Byte)
    PROVE  Len(RleCompress(input)) <=
               W64 + Len(input) + (Len(input) + MaxBlock - 1) \div MaxBlock
  <1> DEFINE k == Len(input)
             size == LE(k, W64)
  <1>0. k \in Nat /\ W64 \in Nat
    BY RadixFacts
  <1>1. size \in Seq(Byte) /\ Len(size) = W64
    BY <1>0, LEBytes
  <1> HIDE DEF size
  <1>2. PICK B : Blocks(input, B) /\ RleCompress(input) = size \o B[0]
    BY BlocksOf DEF size
  <1> DEFINE P == {pos \in 0 .. k : Bounded(input, B, pos)}
  <1>3. ASSUME NEW pos \in 0 .. k, \A p \in pos + 1 .. k : p \in P PROVE pos \in P
    BY <1>2, <1>3, BoundedStep
  <1>4. 0 .. k \subseteq P
    <2> HIDE DEF P
    <2>. QED BY <1>0, <1>3, Backwards
  <1>5. 0 \in 0 .. k /\ Bounded(input, B, 0)
    BY <1>0, <1>4
  <1>6. Len(B[0]) <= k + Full(k) /\ B[0] \in Seq(Byte)
    <2>1. k - 0 = k
      BY <1>0
    <2>2. B[0] \in Seq(Byte)
      BY <1>2, <1>5 DEF Blocks
    <2>. QED BY <1>5, <2>1, <2>2 DEF Bounded
  <1>7. Len(RleCompress(input)) = W64 + Len(B[0]) /\ Len(B[0]) \in Nat
    BY <1>1, <1>2, <1>6, Concatenated
  <1>8. Full(k) \in Nat
    BY <1>0, FullIs
  <1>9. Len(RleCompress(input)) <= W64 + k + Full(k)
    BY <1>0, <1>6, <1>7, <1>8
  <1>. QED BY <1>9 DEF Full

-----------------------------------------------------------------------------
(* The Huffman code is undone *)

\* The bytes before the code, in the order they are written.
HeadOf(x) == LE(Len(x), W64) \o TableOf(x)

\* Where the parts of what HuffmanCompress writes are.
HuffmanAt(c, x) ==
    LET head == W64 + Radix * WFreq IN
    /\ c \in Seq(Byte) /\ head \in Nat /\ head + W64 <= Len(c)
    /\ At(c, 0, LE(Len(x), W64)) /\ At(c, W64, TableOf(x))
    /\ At(c, head, LE(Len(BitsOf(x)), W64)) /\ At(c, head + W64, Packed(BitsOf(x)))

LEMMA HuffmanIsAt ==
    ASSUME NEW x \in Seq(Byte), x # <<>> PROVE HuffmanAt(HuffmanCompress(x), x)
  <1> DEFINE a == LE(Len(x), W64)
             b == TableOf(x)
             c == LE(Len(BitsOf(x)), W64)
             d == Packed(BitsOf(x))
             all == HuffmanCompress(x)
             size == Radix * WFreq
  <1>1. a \in Seq(Byte) /\ Len(a) = W64 /\ W64 \in Nat
    BY WidthsAre, LEBytes DEF Widths
  <1>2. b \in Seq(Byte) /\ Len(b) = size /\ d \in Seq(Byte)
    BY TableBytes, TableAt, BitsAre, PackedIs
  <1>3. c \in Seq(Byte) /\ Len(c) = W64
    BY WidthsAre, BitsAre, LEBytes DEF Widths
  <1>4. all = (a \o b) \o (c \o d) /\ all \in Seq(Byte)
    <2>1. all = (a \o b) \o (IF x = <<>> THEN LE(0, W64) ELSE c \o d)
      BY HuffmanParts
    <2>2. all \in Seq(Byte)
      BY HuffmanBytes
    <2>. QED BY <2>1, <2>2
  <1>5. size \in Nat
    <2>1. Radix \in Nat /\ WFreq \in Nat
      BY RadixFacts, BitsAssumption DEF BitsAssumption
    <2>. QED BY <2>1
  <1> HIDE DEF a, b, c, d, all, size
  <1>6. a \o b \in Seq(Byte) /\ Len(a \o b) = W64 + size /\ c \o d \in Seq(Byte)
    BY <1>1, <1>2, <1>3, Concatenated
  <1> DEFINE ab == a \o b
             cd == c \o d
             head == W64 + size
  <1>7. At(all, 0, ab \o cd)
    BY <1>4, AtSelf
  <1>8. At(all, 0, ab) /\ At(all, 0 + Len(ab), cd)
    <2> HIDE DEF ab, cd
    <2>. QED BY <1>6, <1>7, AtParts DEF ab, cd
  <1>9. At(all, 0, a) /\ At(all, 0 + Len(a), b)
    BY <1>1, <1>2, <1>8, AtParts
  <1>10. At(all, head, cd)
    <2>1. 0 + Len(ab) = head
      BY <1>1, <1>5, <1>6
    <2>. QED BY <1>8, <2>1
  <1>11. At(all, head, c) /\ At(all, head + Len(c), d)
    BY <1>2, <1>3, <1>10, AtParts
  <1>12. head + W64 <= Len(all)
    BY <1>3, <1>11 DEF At
  <1>13. 0 + Len(a) = W64 /\ head \in Nat
    BY <1>1, <1>5
  <1>. QED BY <1>3, <1>4, <1>9, <1>11, <1>12, <1>13 DEF HuffmanAt, a, b, c, d, all, size

\* The table is read as it was counted.
LEMMA TableRead ==
    ASSUME NEW x \in Seq(Byte), NEW c, At(c, W64, TableOf(x))
    PROVE  [b \in Byte |-> Num(Slice(c, W64 + b * WFreq, WFreq))] = countFrequencies(x)
  <1>1. ASSUME NEW b \in Byte
        PROVE  Num(Slice(c, W64 + b * WFreq, WFreq)) = countFrequencies(x)[b]
    <2>1. At(TableOf(x), b * WFreq, LE(countFrequencies(x)[b], WFreq))
      BY TableAt
    <2>2. At(c, W64 + b * WFreq, LE(countFrequencies(x)[b], WFreq))
      BY <2>1, AtWithin
    <2>3. WFreq \in Nat
      BY BitsAssumption DEF BitsAssumption
    <2>. QED BY <2>2, <2>3, FrequencyFits, AtNumber
  <1>2. countFrequencies(x) \in [Byte -> Nat]
    BY FrequenciesAre
  <1> DEFINE g == countFrequencies(x)
  <1> HIDE DEF g
  <1>3. g = [b \in Byte |-> g[b]]
    BY <1>2 DEF g
  <1>. QED BY <1>1, <1>3 DEF g

\* Every byte that is counted has a code of at least one bit, when there are two.
LEMMA AllDecodable ==
    ASSUME NEW x \in Seq(Byte), NEW p \in 1 .. Len(x), NEW q \in 1 .. Len(x), x[p] # x[q],
           \A i \in 1 .. Len(x) : countFrequencies(x)[x[i]] # 0
    PROVE  LET codes == buildTree(countFrequencies(x)).codes IN
           /\ Decodable(x, codes)
           /\ \A i \in 1 .. Len(x) : CodeOf(x)[x[i]] = codes[x[i]]
  <1> DEFINE freqs == countFrequencies(x)
             tree == buildTree(freqs)
             codes == tree.codes
             used == {b \in Byte : freqs[b] > 0}
  <1>1. freqs \in [Byte -> Nat]
    BY FrequenciesAre
  <1>2. \A i \in 1 .. Len(x) : x[i] \in Byte /\ freqs[x[i]] # 0
    OBVIOUS
  <1>3. CodeOf(x) = generateCodes(tree)
    BY DEF CodeOf
  <1> HIDE DEF freqs
  <1>4. CodeTable(codes, used)
    BY <1>1, TreeIs
  <1>5. \A i \in 1 .. Len(x) : x[i] \in used
    BY <1>1, <1>2
  <1> HIDE DEF tree, used
  <1>6. codes \in Codes /\ PrefixFree(codes) /\ DOMAIN codes = used
    BY <1>4, <1>5 DEF CodeTable
  <1>7. ASSUME NEW i \in 1 .. Len(x) PROVE codes[x[i]] # <<>>
    <2>1. PICK j \in 1 .. Len(x) : x[j] # x[i]
      OBVIOUS
    <2>2. x[i] \in DOMAIN codes /\ x[j] \in DOMAIN codes
      BY <1>5, <1>6
    <2>3. Disagree(codes[x[i]], codes[x[j]])
      BY <1>6, <2>1, <2>2 DEF PrefixFree
    <2>4. PICK k \in 1 .. Len(codes[x[i]]) : TRUE
      BY <2>3 DEF Disagree
    <2>5. Len(<<>>) = 0
      OBVIOUS
    <2>. QED BY <2>4, <2>5
  <1>8. Decodable(x, codes)
    BY <1>5, <1>6, <1>7 DEF Decodable
  <1>9. \A i \in 1 .. Len(x) : CodeOf(x)[x[i]] = codes[x[i]]
    BY <1>2, <1>3, <1>5, <1>6 DEF generateCodes
  <1>. QED BY <1>8, <1>9 DEF tree, freqs

\* The bits are those of the codes, one after the other.
LEMMA BitsBuilt ==
    ASSUME NEW x \in Seq(Byte), NEW codes, 1 \in Byte,
           \A i \in 1 .. Len(x) : CodeOf(x)[x[i]] = codes[x[i]]
    PROVE  \E f : Builds(f, CodedBy(x, codes), Len(x), Byte) /\ BitsOf(x) = f[Len(x)]
  <1> DEFINE pieces == CodedBy(x, codes)
             n == Len(x)
  <1>1. n \in Nat
    OBVIOUS
  <1>2. pieces = [i \in 1 .. n |-> CodeOf(x)[x[i]]]
    BY DEF CodedBy
  <1>3. pieces \in [1 .. n -> Code]
    BY <1>2, BitsAre
  <1>4. BitsOf(x) = FlattenSeq(pieces)
    BY <1>2 DEF BitsOf
  <1>5. Code \subseteq Seq(Byte)
    <2>1. {0, 1} \subseteq Byte
      BY RadixFacts DEF Byte
    <2>. QED BY <2>1 DEF Code
  <1> HIDE DEF pieces, n
  <1>6. pieces \in [1 .. n -> Seq(Byte)]
    BY <1>3, <1>5
  <1>7. PICK f : Builds(f, pieces, n, Byte) /\ FlattenSeq(pieces) = f[n]
    BY <1>1, <1>6, FlattenIs
  <1>8. Builds(f, CodedBy(x, codes), Len(x), Byte) /\ BitsOf(x) = f[Len(x)]
    BY <1>4, <1>7 DEF pieces, n
  <1>. QED BY <1>8

\* A payload of at least two byte values is given back.
LEMMA HuffmanWalked ==
    ASSUME NEW x \in Seq(Byte), Fits(Len(x), W64), Fits(Len(BitsOf(x)), W64),
           \A i \in 1 .. Len(x) : countFrequencies(x)[x[i]] # 0,
           NEW p \in 1 .. Len(x), NEW q \in 1 .. Len(x), x[p] # x[q]
    PROVE  HuffmanDecompress(HuffmanCompress(x)) = x
  <1> DEFINE c == HuffmanCompress(x)
             head == W64 + Radix * WFreq
             codes == buildTree(countFrequencies(x)).codes
             bits == BitsOf(x)
             n == Len(x)
             m == (Len(bits) + Bits - 1) \div Bits
  <1>1. n \in Nat /\ n # 0 /\ x # <<>>
    OBVIOUS
  <1>2. bits \in Code /\ Len(bits) \in Nat /\ Packed(bits) \in Seq(Byte) /\ Len(Packed(bits)) = m
    BY BitsAre, PackedIs
  <1>3. /\ c \in Seq(Byte) /\ head \in Nat /\ head + W64 <= Len(c)
        /\ At(c, 0, LE(n, W64)) /\ At(c, W64, TableOf(x))
        /\ At(c, head, LE(Len(bits), W64)) /\ At(c, head + W64, Packed(bits))
    BY <1>1, HuffmanIsAt DEF HuffmanAt
  <1>4. 1 \in Byte
    <2>0. x[p] \in Byte /\ x[q] \in Byte
      OBVIOUS
    <2>1. x[p] \in 0 .. Radix - 1 /\ x[q] \in 0 .. Radix - 1 /\ x[p] # x[q] /\ Radix \in Nat
      BY <2>0, RadixFacts DEF Byte
    <2> HIDE DEF c, head, codes, bits, n, m
    <2>2. 1 <= Radix - 1
      BY <2>1
    <2>. QED BY <2>1, <2>2 DEF Byte
  <1>5. /\ Decodable(x, codes)
        /\ \A i \in 1 .. Len(x) : CodeOf(x)[x[i]] = codes[x[i]]
    BY AllDecodable
  <1>6. W64 \in Nat
    BY RadixFacts
  <1>7. Num(Slice(c, 0, W64)) = n
    BY <1>1, <1>3, <1>6, AtNumber
  <1>8. Num(Slice(c, head, W64)) = Len(bits)
    BY <1>2, <1>3, <1>6, AtNumber
  <1>9. Slice(c, head + W64, m) = Packed(bits)
    BY <1>2, <1>3, AtSlice
  <1>10. [b \in Byte |-> Num(Slice(c, W64 + b * WFreq, WFreq))] = countFrequencies(x)
    BY <1>3, TableRead
  <1>11. HuffmanDecompress(c) =
           IF Len(c) < head + W64 \/ n = 0 THEN <<>>
           ELSE Walk(codes, Packed(bits), Len(bits), n)[n].out
    <2> HIDE DEF c, n, bits
    <2>. QED BY <1>7, <1>8, <1>9, <1>10, DecompressIs
  <1>12. ~ (Len(c) < head + W64)
    <2>1. Len(c) \in Nat /\ head + W64 \in Nat
      BY <1>3, <1>6
    <2> HIDE DEF c, head
    <2>. QED BY <1>3, <2>1
  <1>13. PICK f : Builds(f, CodedBy(x, codes), n, Byte) /\ bits = f[n]
    <2> HIDE DEF codes
    <2>. QED BY <1>4, <1>5, BitsBuilt
  <1>14. Walk(codes, Packed(bits), Len(bits), n)[n].out = x
    <2> HIDE DEF codes, bits
    <2>. QED BY <1>2, <1>5, <1>13, WalkIs
  <1> HIDE DEF c, head, codes, bits, n, m
  <1>15. HuffmanDecompress(c) = x
    BY <1>1, <1>11, <1>12, <1>14
  <1>. QED BY <1>15 DEF c

\* When the bits of the whole can be counted, those of the code can.
LEMMA BitsFit ==
    ASSUME NEW x \in Seq(Byte), x # <<>>, Fits(Bits * Len(HuffmanCompress(x)), W64)
    PROVE  Fits(Len(BitsOf(x)), W64)
  <1> DEFINE c == HuffmanCompress(x)
             head == W64 + Radix * WFreq
             d == Packed(BitsOf(x))
             k == Len(BitsOf(x))
             u == k + Bits - 1
             m == u \div Bits
  <1>1. k \in Nat /\ d \in Seq(Byte) /\ Len(d) = m /\ m \in Nat
    BY BitsAre, PackedIs
  <1>2. Bits \in Nat \ {0} /\ W64 \in Nat
    BY RadixFacts, BitsAssumption DEF BitsAssumption
  <1>3. c \in Seq(Byte) /\ head \in Nat /\ At(c, head + W64, d)
    BY HuffmanIsAt DEF HuffmanAt
  <1>4. m <= Len(c) /\ Len(c) \in Nat
    <2> HIDE DEF c, head, d, m
    <2>1. head + W64 + Len(d) <= Len(c) /\ Len(c) \in Nat
      BY <1>3 DEF At
    <2>. QED BY <1>1, <1>2, <1>3, <2>1
  <1> HIDE DEF c, head, d, k
  <1>5. k <= m * Bits
    <2>1. u \in Nat
      BY <1>1, <1>2
    <2> HIDE DEF u
    <2> DEFINE r == u % Bits
               t == (u \div Bits) * Bits
    <2>2. r \in 0 .. Bits - 1 /\ u = t + r
      BY <1>2, <2>1, BaseFacts
    <2>3. t \in Nat
      BY <1>1, <1>2
    <2> HIDE DEF r, t
    <2>4. u = k + Bits - 1
      BY DEF u
    <2>5. k <= t
      BY <1>1, <1>2, <2>2, <2>3, <2>4
    <2>. QED BY <2>5 DEF t
  <1> HIDE DEF m
  <1> DEFINE l == Len(c)
  <1> HIDE DEF l
  <1>6. m * Bits <= Bits * l /\ m * Bits \in Nat /\ Bits * l \in Nat
    <2>1. m \in Nat /\ l \in Nat /\ m <= l
      BY <1>1, <1>4 DEF l
    <2>2. Bits * l = Bits * m + Bits * (l - m) /\ Bits * m = m * Bits
      BY <1>2, <2>1
    <2>3. l - m \in Nat
      BY <2>1
    <2>4. Bits * (l - m) \in Nat /\ Bits * m \in Nat
      BY <1>2, <2>1, <2>3
    <2> DEFINE e == Bits * (l - m)
               f == Bits * m
    <2> HIDE DEF e, f
    <2>5. Bits * l = f + e /\ f = m * Bits /\ e \in Nat /\ f \in Nat
      BY <2>2, <2>4 DEF e, f
    <2>. QED BY <2>5
  <1>7. k <= Bits * l
    <2> DEFINE e == Bits * l
               f == m * Bits
    <2> HIDE DEF e, f
    <2>1. k <= f /\ f <= e /\ k \in Nat /\ e \in Nat /\ f \in Nat
      BY <1>1, <1>5, <1>6 DEF e, f
    <2>. QED BY <2>1 DEF e
  <1>8. Fits(Bits * l, W64)
    BY DEF c, l
  <1>9. Fits(k, W64)
    BY <1>1, <1>2, <1>6, <1>7, <1>8, SmallerFits
  <1>. QED BY <1>9 DEF k

\* Nothing is given back as nothing.
LEMMA HuffmanEmpty ==
    ASSUME Fits(0, W64) PROVE HuffmanDecompress(HuffmanCompress(<<>>)) = <<>>
  <1> DEFINE x == <<>>
             c == HuffmanCompress(x)
             a == LE(0, W64)
             b == TableOf(x)
  <1>1. x \in Seq(Byte) /\ Len(x) = 0 /\ W64 \in Nat
    BY RadixFacts
  <1>2. a \in Seq(Byte) /\ b \in Seq(Byte)
    <2>1. a \in Seq(Byte)
      BY <1>1, LEBytes
    <2>2. b \in Seq(Byte)
      BY <1>1, TableBytes
    <2>. QED BY <2>1, <2>2
  <1>3. c = (a \o b) \o a
    BY <1>1, HuffmanParts
  <1> HIDE DEF x, b, c, a
  <1>4. a \o b \in Seq(Byte)
    BY <1>2, Concatenated
  <1>5. c \in Seq(Byte)
    BY <1>2, <1>3, <1>4, Concatenated
  <1>6. At(c, 0, (a \o b) \o a)
    BY <1>3, <1>5, AtSelf
  <1>7. At(c, 0, a \o b)
    <2> DEFINE ab == a \o b
    <2> HIDE DEF ab
    <2>. QED BY <1>2, <1>4, <1>6, AtParts DEF ab
  <1>8. At(c, 0, a)
    BY <1>2, <1>7, AtParts
  <1>9. Num(Slice(c, 0, W64)) = 0
    BY <1>1, <1>8, AtNumber DEF a
  <1>10. HuffmanDecompress(c) = <<>>
    BY <1>9, DecompressIs
  <1>. QED BY <1>10 DEF c, x

\* The Huffman code gives back every payload whose counts stay above zero and that has
\* not one byte value only, as long as the sizes fit the header:
\* HuffmanCompressStrategy::compress and decompress.
THEOREM HuffmanUndone ==
    ASSUME NEW x \in Seq(Byte), Fits(Len(x), W64), Fits(Bits * Len(HuffmanCompress(x)), W64),
           x = <<>> \/ Cardinality(Range(x)) # 1,
           \A b \in Range(x) : Wrapped(Cardinality({i \in 1 .. Len(x) : x[i] = b}), WFreq) # 0
    PROVE  HuffmanDecompress(HuffmanCompress(x)) = x
  <1>1. CASE x = <<>>
    <2>1. Len(x) = 0
      BY <1>1
    <2>. QED BY <1>1, <2>1, HuffmanEmpty
  <1>2. CASE x # <<>>
    <2>1. 1 \in 1 .. Len(x) /\ Len(x) \in Nat
      BY <1>2
    <2>2. PICK q \in 1 .. Len(x) : x[1] # x[q]
      <3>1. SUFFICES ASSUME \A q \in 1 .. Len(x) : x[q] = x[1] PROVE FALSE
        OBVIOUS
      <3>2. Range(x) = {x[1]}
        BY <2>1, <3>1 DEF Range
      <3>3. Cardinality({x[1]}) = 1
        BY FS_Singleton
      <3>. QED BY <1>2, <3>2, <3>3
    <2>3. ASSUME NEW i \in 1 .. Len(x) PROVE countFrequencies(x)[x[i]] # 0
      <3>1. x[i] \in Byte /\ x[i] \in Range(x)
        BY DEF Range
      <3>. QED BY <3>1 DEF countFrequencies
    <2>4. Fits(Len(BitsOf(x)), W64)
      BY <1>2, BitsFit
    <2>. QED BY <2>1, <2>2, <2>3, <2>4, HuffmanWalked
  <1>. QED BY <1>1, <1>2

\* What is compressed is decompressed, unless the file is none of those that can be exact.
LEMMA DecompressionUndone ==
    ASSUME IInv, ~ Huge, ~ Lost, stage \notin {"scanned", "packed"}
    PROVE  Decompressed(squeezed, algos) = packed
  <1>1. packed \in Seq(Byte) /\ squeezed = Compressed(packed, algos) /\ algos \in Algos
    BY PayloadBytes, Given DEF IInv, BackingUp
  <1>2. Fits(Len(packed), W64) /\ Fits(Bits * Len(squeezed), W64)
    BY DEF Huge
  <1>3. algos.compress \in 0 .. 2
    BY <1>1, SmallBytes
  <1>4. CASE algos.compress = 0
    BY <1>1, <1>4 DEF Compressed, Decompressed
  <1>5. CASE algos.compress = 1
    BY <1>1, <1>2, <1>5, RleUndone DEF Compressed, Decompressed
  <1>6. CASE algos.compress = 2
    <2>1. squeezed = HuffmanCompress(packed)
      BY <1>1, <1>6 DEF Compressed
    <2>2. packed = <<>> \/ Cardinality(Range(packed)) # 1
      BY <1>6 DEF Lost
    <2>3. ASSUME NEW b \in Range(packed)
          PROVE  Wrapped(Cardinality({i \in 1 .. Len(packed) : packed[i] = b}), WFreq) # 0
      <3>1. packed # <<>>
        <4>1. PICK i \in DOMAIN packed : TRUE
          BY <2>3 DEF Range
        <4>2. Len(<<>>) = 0 /\ DOMAIN packed = 1 .. Len(packed)
          BY <1>1
        <4>. QED BY <4>1, <4>2
      <3>. QED BY <1>6, <3>1 DEF Lost, Occurs
    <2>4. HuffmanDecompress(squeezed) = packed
      BY <1>1, <1>2, <2>1, <2>2, <2>3, HuffmanUndone
    <2>. QED BY <1>6, <2>4 DEF Decompressed
  <1>. QED BY <1>3, <1>4, <1>5, <1>6

\* Every payload that a strategy can give back is given back, whatever the tree and
\* wherever the blocks end, and the run-length code costs at most one byte for each block
\* of literals: CompressStrategy on both sides of the file.
THEOREM CompressionStaysUndone == Spec => []CompressionUndone
  <1>1. IInv => CompressionUndone
    <2> SUFFICES ASSUME IInv PROVE CompressionUndone
      OBVIOUS
    <2>1. ASSUME stage = "decompressed", Exact PROVE bytes = packed
      <3>1. bytes = Decompressed(squeezed, algos)
        BY <2>1 DEF IInv, Restoring, Exact
      <3>. QED BY <2>1, <3>1, DecompressionUndone DEF Exact
    <2>2. ASSUME stage = "squeezed", algos.compress = 1
          PROVE  Len(squeezed) <=
                   W64 + Len(packed) + (Len(packed) + MaxBlock - 1) \div MaxBlock
      <3>1. packed \in Seq(Byte) /\ squeezed = Compressed(packed, algos)
        BY <2>2, PayloadBytes DEF IInv, BackingUp
      <3>2. squeezed = RleCompress(packed)
        BY <2>2, <3>1 DEF Compressed
      <3>. QED BY <3>1, <3>2, RleCost
    <2>. QED BY <2>1, <2>2 DEF CompressionUndone
  <1>. QED BY <1>1, BackupInvariant, PTL

-----------------------------------------------------------------------------
(* The index archive is undone *)

DirSize(f) == IF f.type = Regular THEN Len(f.content) ELSE 0

\* An entry of the directory is read where it was written, with the content it points to.
DirEntryReads(data, off, f, start) ==
    deserializeEntry(data, off) =
        [next |-> off + Len(serializeEntry(f, start)),
         item |-> Item(f.path, Slice(data, start, DirSize(f)))]

LEMMA DirEntryRead ==
    ASSUME NEW f \in Entry, Sized(f), NEW start \in Nat, Fits(start, W64),
           Fits(DirSize(f), W64), NEW data, NEW off, At(data, off, serializeEntry(f, start))
    PROVE  DirEntryReads(data, off, f, start)
  <1> DEFINE size == DirSize(f)
             a == LE(Len(f.path), W16)
             b == f.path
             c == LE(start, W64)
             d == LE(size, W64)
             e == LE(f.type, W16)
             k == LE(Len(f.target), W16)
             t == f.target
             all == serializeEntry(f, start)
             p == Len(b)
             q == Len(t)
             at == off + W16 + p
             link == at + 2 * W64 + W16
  <1>0. W16 \in Nat /\ W64 \in Nat /\ p \in Nat /\ q \in Nat /\ f.type \in Nat
        /\ off \in Nat /\ size \in Nat /\ b \in Seq(Byte) /\ t \in Seq(Byte)
    BY RadixFacts, EntryFacts DEF At, DirSize
  <1>1. /\ Fits(p, W16) /\ Fits(q, W16) /\ Fits(f.type, W16)
    BY DEF Sized
  <1>2. /\ a \in Seq(Byte) /\ c \in Seq(Byte) /\ d \in Seq(Byte) /\ e \in Seq(Byte)
        /\ k \in Seq(Byte) /\ Len(a) = W16 /\ Len(c) = W64 /\ Len(d) = W64
        /\ Len(e) = W16 /\ Len(k) = W16
    <2> HIDE DEF size, p, q
    <2>. QED BY <1>0, LEBytes DEF p, q
  <1>3. all = a \o b \o c \o d \o e \o k \o t
    BY DEF serializeEntry, DirSize
  <1>a. At(data, off, a \o b \o c \o d \o e \o k \o t)
    BY <1>3
  <1> HIDE DEF a, b, c, d, e, k, t, all, size
  <1>4. /\ Len(all) = Len(a) + Len(b) + Len(c) + Len(d) + Len(e) + Len(k) + Len(t)
        /\ SevenAt(data, off, a, b, c, d, e, k, t)
    <2> HIDE DEF p, q, at, link
    <2>0. b \in Seq(Byte) /\ t \in Seq(Byte)
      BY <1>0
    <2> DEFINE s == a \o b \o c \o d \o e \o k \o t
           n == Len(a) + Len(b) + Len(c) + Len(d) + Len(e)
    <2>1. /\ s \in Seq(Byte) /\ Len(s) = n + Len(k) + Len(t)
          /\ \A da, o : At(da, o, s) => SevenAt(da, o, a, b, c, d, e, k, t)
      BY <1>2, <2>0, SevenPieces
    <2> HIDE DEF s
    <2>2. At(data, off, s) /\ all = s
      BY <1>3, <1>a DEF s
    <2>. QED BY <2>1, <2>2
  <1> HIDE DEF p, q
  <1>5. /\ Len(all) = 3 * W16 + p + 2 * W64 + q
    BY <1>0, <1>2, <1>4 DEF p, q
  <1>6. /\ At(data, off, a) /\ At(data, off + W16, b) /\ At(data, at + W64, d)
        /\ At(data, at, c) /\ At(data, at + 2 * W64, e) /\ At(data, link, k)
    <2>1. /\ off + (Len(a) + Len(b)) = at
          /\ off + (Len(a) + Len(b) + Len(c)) = at + W64
          /\ off + (Len(a) + Len(b) + Len(c) + Len(d) + Len(e) - Len(e)) = at + 2 * W64
          /\ off + (Len(a) + Len(b) + Len(c) + Len(d) + Len(e)) = link
      BY <1>0, <1>2 DEF p, q
    <2> HIDE DEF at, link
    <2>. QED BY <1>2, <1>4, <2>1 DEF SevenAt
  <1>7. Num(Slice(data, off, W16)) = p
    BY <1>0, <1>1, <1>6, AtNumber DEF a, p, b
  <1>8. Slice(data, off + W16, p) = b
    BY <1>6, AtSlice DEF p
  <1> HIDE DEF at, link
  <1>9. Num(Slice(data, at, W64)) = start
    BY <1>0, <1>6, AtNumber DEF c
  <1>10. Num(Slice(data, at + W64, W64)) = size
    BY <1>0, <1>6, AtNumber DEF d, size
  <1>11. Num(Slice(data, at + 2 * W64, W16)) = f.type
    BY <1>0, <1>1, <1>6, AtNumber DEF e
  <1>12. Num(Slice(data, link, W16)) = q
    BY <1>0, <1>1, <1>6, AtNumber DEF k, q, t
  <1>13. at - (off + W16) = p /\ link + W16 + q = off + Len(all)
    BY <1>0, <1>5 DEF at, link
  <1>14. (IF f.type = Regular THEN size ELSE 0) = size
    BY DEF size, DirSize
  <1>15. deserializeEntry(data, off) =
           [next |-> link + W16 + q,
            item |-> Item(Slice(data, off + W16, at - (off + W16)),
                          Slice(data, start, IF f.type = Regular THEN size ELSE 0))]
    <2>1. off + W16 + Num(Slice(data, off, W16)) = at
      BY <1>7 DEF at
    <2>2. at + 2 * W64 + W16 = link
      BY DEF link
    <2>. QED BY <1>9, <1>10, <1>11, <1>12, <2>1, <2>2 DEF deserializeEntry
  <1>16. deserializeEntry(data, off) =
           [next |-> off + Len(all), item |-> Item(b, Slice(data, start, size))]
    BY <1>8, <1>13, <1>14, <1>15
  <1>. QED BY <1>16 DEF DirEntryReads, all, b, size

Parts(list) == [i \in 1 .. Len(list) |-> Part(list[i])]

\* Where the parts of an index archive are; f and g are how the contents and the
\* directory grow.
IndexAt(w, list, f, g) ==
    LET n == Len(list)
        start == Len(f[n])
        end == start + Len(g[n]) IN
    /\ w \in Seq(Byte) /\ n \in Nat /\ start \in Nat /\ end \in Nat
    /\ Builds(f, Parts(list), n, Byte) /\ Builds(g, Directories(list, f), n, Byte)
    /\ Len(w) = end + EocdSize /\ EocdSize \in Nat
    /\ At(w, 0, f[n]) /\ At(w, start, g[n])
    /\ At(w, end, LE(Signature, W32)) /\ At(w, end + W32, LE(n, W32))
    /\ At(w, end + 2 * W32, LE(start, W64))

LEMMA IndexIsAt ==
    ASSUME NEW list, Entries(list)
    PROVE  \E f, g : IndexAt(IndexPack(list), list, f, g)
  <1> DEFINE n == Len(list)
             w == IndexPack(list)
  <1>0. n \in Nat /\ W32 \in Nat /\ W64 \in Nat /\ Signature \in Nat
    BY RadixFacts, PackingAssumption DEF Entries, PackingAssumption
  <1>1. PICK f : IndexParts(list, f)
    BY IndexPieces
  <1>2. Builds(f, Parts(list), n, Byte) /\ Directories(list, f) \in [1 .. n -> Seq(Byte)]
    BY <1>1 DEF IndexParts, Parts
  <1> DEFINE p == Directories(list, f)
  <1> HIDE DEF p
  <1>3. PICK g : Builds(g, p, n, Byte) /\ FlattenSeq(p) = g[n]
    BY <1>0, <1>2, FlattenIs DEF p
  <1> DEFINE k == f[n]
             dir == g[n]
             start == Len(k)
             size == Len(dir)
             a == LE(Signature, W32)
             b == LE(n, W32)
             c == LE(start, W64)
             d == LE(size, W64)
             e == Zeros(W64)
  <1>4. k \in Seq(Byte) /\ dir \in Seq(Byte) /\ start \in Nat /\ size \in Nat
    <2>1. n \in 0 .. n /\ f \in [0 .. n -> Seq(Byte)] /\ g \in [0 .. n -> Seq(Byte)]
      BY <1>0, <1>2, <1>3 DEF Builds
    <2>2. f[n] \in Seq(Byte) /\ g[n] \in Seq(Byte)
      BY <2>1
    <2>. QED BY <2>2
  <1>5. w = k \o dir \o a \o b \o c \o d \o e
    BY <1>1, <1>3 DEF IndexParts, IndexFile, p
  <1> HIDE DEF k, dir, n
  <1>6. /\ a \in Seq(Byte) /\ Len(a) = W32 /\ b \in Seq(Byte) /\ Len(b) = W32
        /\ c \in Seq(Byte) /\ Len(c) = W64 /\ d \in Seq(Byte) /\ Len(d) = W64
        /\ e \in Seq(Byte) /\ Len(e) = W64
    <2> HIDE DEF start, size
    <2>. QED BY <1>0, <1>4, LEBytes, ZerosAre
  <1> HIDE DEF a, b, c, d, e, w
  <1> DEFINE s == k \o dir \o a \o b \o c \o d \o e
             m == Len(k) + Len(dir) + Len(a) + Len(b) + Len(c)
  <1>7. /\ s \in Seq(Byte) /\ Len(s) = m + Len(d) + Len(e)
        /\ \A da, o : At(da, o, s) => SevenAt(da, o, k, dir, a, b, c, d, e)
    BY <1>4, <1>6, SevenPieces
  <1> HIDE DEF s
  <1>8. w = s /\ w \in Seq(Byte) /\ SevenAt(w, 0, k, dir, a, b, c, d, e)
    <2>1. w = s
      BY <1>5 DEF s
    <2>. QED BY <1>7, <2>1, AtSelf
  <1> DEFINE end == start + size
  <1>9. /\ m = end + 2 * W32 + W64 /\ Len(s) = end + EocdSize /\ EocdSize \in Nat
        /\ end \in Nat
    <2>1. EocdSize = 2 * W32 + 3 * W64
      BY DEF EocdSize
    <2>2. m = start + size + W32 + W32 + W64
      BY <1>6
    <2>3. Len(s) = m + W64 + W64
      BY <1>6, <1>7
    <2> HIDE DEF m, start, size
    <2>. QED BY <1>0, <1>4, <2>1, <2>2, <2>3
  <1>10. /\ At(w, 0, k) /\ At(w, start, dir) /\ At(w, end, a) /\ At(w, end + W32, b)
         /\ At(w, end + 2 * W32, c)
    <2>1. /\ 0 + Len(k) = start /\ 0 + (Len(k) + Len(dir)) = end
          /\ 0 + (Len(k) + Len(dir) + Len(a)) = end + W32
          /\ 0 + (m - Len(c)) = end + 2 * W32
      <3>1. 0 + Len(k) = start /\ 0 + (Len(k) + Len(dir)) = end
            /\ 0 + (Len(k) + Len(dir) + Len(a)) = end + W32
        BY <1>0, <1>4, <1>6
      <3> HIDE DEF m, end
      <3>2. 0 + (m - Len(c)) = end + 2 * W32
        BY <1>0, <1>6, <1>9
      <3>. QED BY <3>1, <3>2 DEF end
    <2> HIDE DEF start, end
    <2>2. SevenAt(w, 0, k, dir, a, b, c, d, e)
      BY <1>8
    <2>. QED BY <2>1, <2>2 DEF SevenAt
  <1>11. IndexAt(w, list, f, g)
    BY <1>0, <1>2, <1>3, <1>4, <1>8, <1>9, <1>10 DEF IndexAt, k, dir, a, b, c, n, p
  <1>. QED BY <1>11 DEF w

\* Each entry of the directory gives the path and the content of its file.
IndexEntryRead(w, list, f, g, i) ==
    LET start == Len(f[Len(list)]) IN
    deserializeEntry(w, start + Len(g[i - 1])) =
        [next |-> start + Len(g[i]), item |-> Item(list[i].path, Part(list[i]))]

LEMMA IndexEntryIs ==
    ASSUME NEW list, Entries(list), NEW w, NEW f, NEW g, IndexAt(w, list, f, g),
           Fits(Len(w), W64), NEW i \in 1 .. Len(list)
    PROVE  IndexEntryRead(w, list, f, g, i)
  <1> DEFINE n == Len(list)
             start == Len(f[n])
             e == list[i]
             o == Len(f[i - 1])
             part == Part(e)
             dirs == Directories(list, f)
             entry == serializeEntry(e, o)
  <1>0. /\ w \in Seq(Byte) /\ n \in Nat /\ start \in Nat
        /\ Builds(f, Parts(list), n, Byte) /\ Builds(g, dirs, n, Byte)
        /\ At(w, 0, f[n]) /\ At(w, start, g[n])
    BY DEF IndexAt
  <1>1. e \in Entry /\ Sized(e)
    BY EntryOf
  <1>2. Parts(list)[i] = part /\ dirs[i] = entry
    BY DEF Parts, Directories
  <1>3. At(f[n], o, part) /\ At(g[n], Len(g[i - 1]), entry)
    <2>1. At(f[n], o, Parts(list)[i])
      BY <1>0, PieceAt
    <2>2. At(g[n], Len(g[i - 1]), dirs[i])
      BY <1>0, PieceAt
    <2>. QED BY <1>2, <2>1, <2>2
  <1> HIDE DEF dirs, n
  <1>4. /\ Len(f[i]) = o + Len(part) /\ o \in Nat
        /\ Len(g[i]) = Len(g[i - 1]) + Len(entry) /\ Len(g[i - 1]) \in Nat
        /\ Len(g[i]) \in Nat /\ Len(entry) \in Nat
    <2>1. Grows(f, Parts(list), i, Byte)
      BY <1>0, PrefixFacts DEF n
    <2>2. Grows(g, dirs, i, Byte)
      BY <1>0, PrefixFacts DEF n
    <2>. QED BY <1>2, <2>1, <2>2 DEF Grows
  <1>5. Len(part) = DirSize(e) /\ part \in Seq(Byte) /\ Len(part) \in Nat
    <2>1. Len(<<>>) = 0
      OBVIOUS
    <2>. QED BY <1>1, <2>1, PartBytes DEF Part, DirSize
  <1> HIDE DEF e, part, entry, o
  <1>6. At(w, o, part)
    <2>1. At(w, 0 + o, part)
      BY <1>0, <1>3, AtWithin
    <2>. QED BY <1>4, <2>1
  <1>7. At(w, start + Len(g[i - 1]), entry)
    BY <1>0, <1>3, AtWithin
  <1>8. Fits(o, W64) /\ Fits(Len(part), W64)
    <2>1. o + Len(part) <= Len(w) /\ Len(w) \in Nat
      BY <1>0, <1>6 DEF At
    <2> DEFINE x == Len(w)
               y == Len(part)
    <2>2. o + y <= x /\ x \in Nat /\ o \in Nat /\ y \in Nat
      BY <1>4, <1>5, <2>1
    <2> HIDE DEF x, y
    <2>3. o <= x /\ y <= x
      BY <2>2
    <2>4. W64 \in Nat
      BY RadixFacts
    <2>5. Fits(x, W64)
      BY DEF x
    <2>. QED BY <2>2, <2>3, <2>4, <2>5, SmallerFits DEF y
  <1>9. Slice(w, o, Len(part)) = part
    BY <1>6, AtSlice
  <1> DEFINE off == start + Len(g[i - 1])
  <1> HIDE DEF start, off
  <1>10. DirEntryReads(w, off, e, o)
    <2>1. At(w, off, serializeEntry(e, o))
      BY <1>7 DEF off, entry
    <2>2. Fits(DirSize(e), W64) /\ Fits(o, W64)
      BY <1>5, <1>8
    <2>. QED BY <1>1, <1>4, <2>1, <2>2, DirEntryRead
  <1>11. deserializeEntry(w, off) = [next |-> off + Len(entry), item |-> Item(e.path, part)]
    BY <1>5, <1>9, <1>10 DEF DirEntryReads, entry
  <1>12. off + Len(entry) = start + Len(g[i])
    BY <1>0, <1>4 DEF off
  <1>. QED BY <1>11, <1>12 DEF IndexEntryRead, off, start, e, part, n

\* An index archive gives back the path and the content of every entry, for every list of
\* entries: IndexPackStrategy.
THEOREM IndexUndone ==
    ASSUME NEW list, Entries(list), Fits(Len(list), W32), Fits(Len(IndexPack(list)), W64)
    PROVE  IndexUnpack(IndexPack(list)) =
               [i \in 1 .. Len(list) |-> Item(list[i].path, Part(list[i]))]
  <1> DEFINE n == Len(list)
             data == IndexPack(list)
  <1>1. PICK f, g : IndexAt(data, list, f, g)
    BY IndexIsAt
  <1> DEFINE start == Len(f[n])
             end == start + Len(g[n])
             eocd == Len(data) - EocdSize
             count == Num(Slice(data, eocd + W32, W32))
  <1>2. /\ data \in Seq(Byte) /\ n \in Nat /\ start \in Nat /\ end \in Nat
        /\ Builds(g, Directories(list, f), n, Byte)
        /\ Len(data) = end + EocdSize /\ EocdSize \in Nat
        /\ At(data, end, LE(Signature, W32)) /\ At(data, end + W32, LE(n, W32))
        /\ At(data, end + 2 * W32, LE(start, W64))
    BY <1>1 DEF IndexAt
  <1>3. eocd = end /\ start <= Len(data)
    <2> DEFINE x == Len(data)
               y == Len(g[n])
    <2>1. x = end + EocdSize /\ EocdSize \in Nat /\ end \in Nat
      BY <1>2
    <2>2. y \in Nat
      <3>1. n \in 0 .. n /\ g \in [0 .. n -> Seq(Byte)]
        BY <1>2 DEF Builds
      <3>2. g[n] \in Seq(Byte)
        BY <3>1
      <3>. QED BY <3>2
    <2>3. end = start + y
      OBVIOUS
    <2> HIDE DEF x, y, end, start
    <2>4. x - EocdSize = end /\ start <= x
      BY <1>2, <2>1, <2>2, <2>3
    <2>. QED BY <2>4 DEF x
  <1>4. W32 \in Nat /\ W64 \in Nat /\ Signature \in Nat /\ Fits(Signature, W32)
    BY RadixFacts, PackingAssumption DEF PackingAssumption
  <1>5. Fits(start, W64) /\ Fits(n, W32)
    <2>0. data \in Seq(Byte)
      BY <1>2
    <2>1. Len(data) \in Nat /\ Fits(Len(data), W64) /\ Fits(n, W32)
      BY <2>0
    <2> HIDE DEF data, start
    <2>. QED BY <1>2, <1>3, <1>4, <2>1, SmallerFits
  <1> HIDE DEF start, end, data, eocd, n
  <1>6. /\ Num(Slice(data, eocd, W32)) = Signature /\ count = n
        /\ Num(Slice(data, eocd + 2 * W32, W64)) = start
    <2>1. Num(Slice(data, end, W32)) = Signature
      BY <1>2, <1>4, AtNumber
    <2>2. Num(Slice(data, end + W32, W32)) = n
      BY <1>2, <1>4, <1>5, AtNumber
    <2>3. Num(Slice(data, end + 2 * W32, W64)) = start
      BY <1>2, <1>4, <1>5, AtNumber
    <2>. QED BY <1>3, <2>1, <2>2, <2>3
  <1>7. ASSUME NEW i \in 1 .. n
        PROVE  deserializeEntry(data, start + Len(g[i - 1])) =
                   [next |-> start + Len(g[i]), item |-> Item(list[i].path, Part(list[i]))]
    <2>1. IndexEntryRead(data, list, f, g, i)
      <3>1. Fits(Len(data), W64) /\ i \in 1 .. Len(list)
        BY DEF data, n
      <3>. QED BY <1>1, <3>1, IndexEntryIs
    <2>. QED BY <2>1 DEF IndexEntryRead, start, n
  <1>8. start + Len(g[0]) = start
    <2>1. g[0] = <<>>
      BY <1>2 DEF Builds
    <2>2. Len(<<>>) = 0
      OBVIOUS
    <2>. QED BY <1>2, <2>1, <2>2
  <1> DEFINE Body(h) == [i \in 0 .. count |->
                            IF i = 0 THEN [next |-> Num(Slice(data, eocd + 2 * W32, W64))]
                            ELSE deserializeEntry(data, h[i - 1].next)]
             entry == CHOOSE h : h = Body(h)
             k == [i \in 0 .. count |->
                      IF i = 0 THEN [next |-> start]
                      ELSE [next |-> start + Len(g[i]),
                            item |-> Item(list[i].path, Part(list[i]))]]
  <1>9. IndexUnpack(data) = [i \in 1 .. count |-> entry[i].item]
    <2>1. IndexUnpack(data) = IF eocd < 0 THEN <<>>
                              ELSE IF Num(Slice(data, eocd, W32)) # Signature THEN <<>>
                              ELSE [i \in 1 .. count |-> entry[i].item]
      BY DEF IndexUnpack, eocd
    <2> HIDE DEF entry, count
    <2>2. ~ eocd < 0
      BY <1>2, <1>3
    <2>. QED BY <1>6, <2>1, <2>2
  <1> HIDE DEF count
  <1>10. k = Body(k)
    <2>1. ASSUME NEW i \in 0 .. n
          PROVE  k[i] = IF i = 0 THEN [next |-> Num(Slice(data, eocd + 2 * W32, W64))]
                        ELSE deserializeEntry(data, k[i - 1].next)
      <3>1. CASE i = 0
        BY <1>6, <3>1
      <3>2. CASE i # 0
        <4>1. i \in 1 .. n /\ i - 1 \in 0 .. n
          BY <1>2, <3>2
        <4>2. k[i - 1].next = start + Len(g[i - 1])
          <5>1. CASE i - 1 = 0
            BY <1>6, <1>8, <4>1, <5>1
          <5>2. CASE i - 1 # 0
            BY <1>6, <4>1, <5>2
          <5>. QED BY <5>1, <5>2
        <4>3. k[i] = [next |-> start + Len(g[i]),
                      item |-> Item(list[i].path, Part(list[i]))]
          BY <1>6, <3>2
        <4>. QED BY <1>7, <3>2, <4>1, <4>2, <4>3
      <3>. QED BY <3>1, <3>2
    <2>2. k = [i \in 0 .. n |-> k[i]]
      BY <1>6
    <2> HIDE DEF k
    <2>. QED BY <1>6, <2>1, <2>2
  <1>11. entry = Body(entry)
    <2> HIDE DEF k
    <2>. QED BY <1>10
  <1> HIDE DEF entry, k
  <1>12. \A i \in 0 .. n : entry[i] = IF i = 0 THEN [next |-> start]
                                      ELSE deserializeEntry(data, entry[i - 1].next)
    BY <1>6, <1>11
  <1> DEFINE P == {i \in 0 .. n : entry[i].next = start + Len(g[i])}
  <1>13. 0 \in P
    <2>1. 0 \in 0 .. n
      BY <1>2
    <2>2. entry[0] = [next |-> start]
      BY <1>12, <2>1
    <2>. QED BY <1>8, <2>1, <2>2
  <1>14. ASSUME NEW i \in 1 .. n, i - 1 \in P
         PROVE  entry[i] = [next |-> start + Len(g[i]),
                            item |-> Item(list[i].path, Part(list[i]))]
    <2>1. entry[i - 1].next = start + Len(g[i - 1]) /\ i # 0 /\ i \in 0 .. n
      BY <1>14
    <2>2. entry[i] = deserializeEntry(data, entry[i - 1].next)
      BY <1>12, <2>1
    <2>. QED BY <1>7, <2>1, <2>2
  <1>15. 0 .. n \subseteq P
    <2>1. ASSUME NEW i \in 1 .. n, i - 1 \in P PROVE i \in P
      <3>0. entry[i] = [next |-> start + Len(g[i]),
                        item |-> Item(list[i].path, Part(list[i]))]
        BY <1>14, <2>1
      <3>1. entry[i].next = start + Len(g[i])
        BY <3>0
      <3>2. i \in 0 .. n
        BY <1>2
      <3>. QED BY <3>1, <3>2
    <2> HIDE DEF P
    <2>. QED BY <1>2, <1>13, <2>1, Kept
  <1>16. ASSUME NEW i \in 1 .. n PROVE entry[i].item = Item(list[i].path, Part(list[i]))
    <2>1. i - 1 \in 0 .. n
      BY <1>2
    <2>2. i - 1 \in P
      BY <1>15, <2>1
    <2> HIDE DEF P
    <2>3. entry[i] = [next |-> start + Len(g[i]),
                      item |-> Item(list[i].path, Part(list[i]))]
      BY <1>14, <2>2
    <2>. QED BY <2>3
  <1>17. IndexUnpack(data) = [i \in 1 .. n |-> Item(list[i].path, Part(list[i]))]
    BY <1>6, <1>9, <1>16
  <1>. QED BY <1>17 DEF data, n

-----------------------------------------------------------------------------
(* The raw format is undone *)

Items == [path : Seq(Byte), content : Seq(Byte)]

RawState == [ok : BOOLEAN, off : Nat, items : Seq(Items)]

\* How a restore of the raw format goes on from what it has read.
RawStep(data, r) ==
    LET p == r.off + W16
        c == p + Num(Slice(data, r.off, W16)) + W64
        end == c + Num(Slice(data, c - W64, W64))
    IN IF r.ok /\ p <= Len(data) /\ c <= Len(data) /\ end <= Len(data)
       THEN [ok |-> TRUE, off |-> end,
             items |-> Append(r.items, Item(Slice(data, p, c - W64 - p),
                                            Slice(data, c, end - c)))]
       ELSE [r EXCEPT !.ok = FALSE]

LEMMA SliceBytes ==
    ASSUME NEW data \in Seq(Byte), NEW off \in Nat, NEW n \in Nat
    PROVE  Slice(data, off, n) \in Seq(Byte) /\ Len(Slice(data, off, n)) = n
  <1>0. 0 \in Byte
    BY SmallBytes
  <1>1. ASSUME NEW i \in 1 .. n
        PROVE  (IF off + i <= Len(data) THEN data[off + i] ELSE 0) \in Byte
    <2>1. CASE off + i <= Len(data)
      <3>1. off + i \in 1 .. Len(data)
        BY <2>1
      <3>2. data[off + i] \in Byte
        BY <3>1
      <3>. QED BY <2>1, <3>2
    <2>2. CASE ~ off + i <= Len(data)
      BY <1>0, <2>2
    <2>. QED BY <2>1, <2>2
  <1>. QED BY <1>1 DEF Slice

LEMMA NumIs == ASSUME NEW b \in Seq(Byte) PROVE Num(b) \in Nat
  <1>1. b \in Seq(Nat) /\ Radix \in Nat
    <2>1. Byte \subseteq Nat /\ Radix \in Nat
      BY RadixFacts
    <2>. QED BY <2>1, SeqOfMore
  <1>2. PICK f : Sums(f, b, Radix) /\ Value(b, Radix) = f[Len(b)]
    BY <1>1, ValueStep
  <1>3. Len(b) \in 0 .. Len(b) /\ f \in [0 .. Len(b) -> Nat]
    BY <1>1, <1>2 DEF Sums
  <1>4. f[Len(b)] \in Nat
    BY <1>3
  <1>. QED BY <1>2, <1>4 DEF Num

LEMMA RawStepIs ==
    ASSUME NEW data \in Seq(Byte), NEW r \in RawState
    PROVE  RawStep(data, r) \in RawState
  <1> DEFINE k == Num(Slice(data, r.off, W16))
             p == r.off + W16
             c == p + k + W64
             l == Num(Slice(data, c - W64, W64))
             end == c + l
             item == Item(Slice(data, p, c - W64 - p), Slice(data, c, end - c))
  <1>0. W16 \in Nat /\ W64 \in Nat /\ r.off \in Nat /\ r.ok \in BOOLEAN /\ r.items \in Seq(Items)
    BY RadixFacts DEF RawState
  <1>1. k \in Nat
    BY <1>0, SliceBytes, NumIs
  <1> HIDE DEF k
  <1>2. p \in Nat /\ c \in Nat /\ c - W64 \in Nat /\ c - W64 - p = k
    <2> DEFINE o == r.off
    <2>1. o \in Nat /\ p = o + W16
      BY <1>0
    <2> HIDE DEF o, p
    <2>. QED BY <1>0, <1>1, <2>1
  <1> HIDE DEF p, c
  <1>3. l \in Nat
    BY <1>0, <1>2, SliceBytes, NumIs
  <1> HIDE DEF l
  <1>4. end \in Nat /\ end - c = l
    BY <1>2, <1>3
  <1> HIDE DEF end
  <1>5. item \in Items
    <2>1. Slice(data, p, c - W64 - p) \in Seq(Byte) /\ Slice(data, c, end - c) \in Seq(Byte)
      BY <1>1, <1>2, <1>3, <1>4, SliceBytes
    <2>. QED BY <2>1 DEF Item, Items
  <1> HIDE DEF item
  <1>6. Append(r.items, item) \in Seq(Items)
    BY <1>0, <1>5
  <1>7. [ok |-> TRUE, off |-> end, items |-> Append(r.items, item)] \in RawState
    BY <1>4, <1>6 DEF RawState
  <1>8. [r EXCEPT !.ok = FALSE] \in RawState
    BY DEF RawState
  <1>9. RawStep(data, r) \in {[ok |-> TRUE, off |-> end, items |-> Append(r.items, item)],
                              [r EXCEPT !.ok = FALSE]}
    BY DEF RawStep, item, end, l, c, p, k
  <1>. QED BY <1>7, <1>8, <1>9

\* What a restore of the raw format reads, entry by entry.
RawWalk(data, read, count) ==
    /\ count \in Nat /\ read \in [0 .. count -> RawState]
    /\ read[0] = [ok |-> Len(data) >= W32 /\ count <= MaxCount, off |-> W32, items |-> <<>>]
    /\ \A i \in 1 .. count : read[i] = RawStep(data, read[i - 1])
    /\ restoreFromRaw(data) = read[count]

LEMMA RawReads ==
    ASSUME NEW data \in Seq(Byte)
    PROVE  \E read : RawWalk(data, read, Num(Slice(data, 0, W32)))
  <1> DEFINE k == Num(Slice(data, 0, W32))
             a == [ok |-> Len(data) >= W32 /\ k <= MaxCount, off |-> W32, items |-> <<>>]
             Body(g) == [n \in 0 .. k |-> IF n = 0 THEN a ELSE RawStep(data, g[n - 1])]
             read == CHOOSE g : g = Body(g)
             s == [i \in 1 .. k |-> [x \in RawState |-> RawStep(data, x)]]
  <1>1. k \in Nat /\ W32 \in Nat
    BY RadixFacts, SliceBytes, NumIs
  <1>2. a \in RawState
    <2> DEFINE b == Len(data) >= W32 /\ k <= MaxCount
               z == <<>>
    <2>1. b \in BOOLEAN /\ z \in Seq(Items)
      OBVIOUS
    <2> HIDE DEF b, z
    <2>2. [ok |-> b, off |-> W32, items |-> z] \in RawState
      BY <1>1, <2>1 DEF RawState
    <2>. QED BY <2>2 DEF b, z
  <1>3. restoreFromRaw(data) = read[k]
    BY DEF restoreFromRaw, RawStep
  <1> HIDE DEF k, a
  <1>4. IsStep(s, k, RawState) /\ \A i \in 1 .. k : \A x \in RawState : s[i][x] = RawStep(data, x)
    BY RawStepIs DEF IsStep
  <1>5. PICK f : IsRec(f, k, RawState, a, s)
    <2> HIDE DEF s
    <2>. QED BY <1>1, <1>2, <1>4, Recursion
  <1>6. f = Body(f)
    <2> HIDE DEF s
    <2>1. /\ f \in [0 .. k -> RawState] /\ f[0] = a
          /\ \A i \in 1 .. k : f[i] = s[i][f[i - 1]]
      BY <1>5 DEF IsRec
    <2>2. ASSUME NEW i \in 1 .. k PROVE f[i] = RawStep(data, f[i - 1])
      <3>1. i - 1 \in 0 .. k
        BY <1>1
      <3>2. f[i - 1] \in RawState
        BY <2>1, <3>1
      <3>. QED BY <1>4, <2>1, <3>2
    <2>3. \A i \in 0 .. k : f[i] = IF i = 0 THEN a ELSE RawStep(data, f[i - 1])
      BY <2>1, <2>2
    <2>. QED BY <2>1, <2>3
  <1>7. read = Body(read)
    BY <1>6
  <1> HIDE DEF read
  <1>8. /\ DOMAIN read = 0 .. k /\ read = [i \in 0 .. k |-> read[i]] /\ read[0] = a
        /\ \A i \in 1 .. k : read[i] = RawStep(data, read[i - 1])
    <2>1. 0 \in 0 .. k /\ \A i \in 1 .. k : i \in 0 .. k /\ i # 0
      BY <1>1
    <2>. QED BY <1>7, <2>1
  <1>9. \A i \in 1 .. k : read[i - 1] \in RawState => read[i] \in RawState
    BY <1>8, RawStepIs
  <1>10. read \in [0 .. k -> RawState]
    <2>1. read[0] \in RawState
      BY <1>2, <1>8
    <2>. QED BY <1>1, <1>8, <1>9, <2>1, Within
  <1>11. RawWalk(data, read, k)
    BY <1>1, <1>3, <1>8, <1>10 DEF RawWalk, a
  <1>. QED BY <1>11 DEF k

\* What the raw format has of an entry.
RawPiece(f) ==
    LE(Len(f.path), W16) \o f.path \o LE(Len(f.content), W64) \o f.content

\* An entry is read where it was written.
LEMMA RawPieceRead ==
    ASSUME NEW f \in Entry, Sized(f), Fits(Len(f.content), W64),
           NEW data, NEW r \in RawState, r.ok, At(data, r.off, RawPiece(f))
    PROVE  RawStep(data, r) =
               [ok |-> TRUE, off |-> r.off + Len(RawPiece(f)),
                items |-> Append(r.items, Item(f.path, f.content))]
  <1> DEFINE a == LE(Len(f.path), W16)
             b == f.path
             c == LE(Len(f.content), W64)
             d == f.content
             off == r.off
             k == Len(b)
             l == Len(d)
             p == off + W16
             q == p + k + W64
             end == q + l
             all == RawPiece(f)
             n == Len(data)
  <1>0. W16 \in Nat /\ W64 \in Nat /\ k \in Nat /\ l \in Nat /\ off \in Nat
        /\ b \in Seq(Byte) /\ d \in Seq(Byte) /\ data \in Seq(Byte)
        /\ Fits(k, W16) /\ Fits(l, W64)
    BY RadixFacts, EntryFacts DEF At, RawState, Sized
  <1>1. a \in Seq(Byte) /\ Len(a) = W16 /\ c \in Seq(Byte) /\ Len(c) = W64
    <2> HIDE DEF k, l
    <2>. QED BY <1>0, LEBytes DEF k, l
  <1>2. At(data, off, a \o b \o c \o d) /\ all = a \o b \o c \o d
    BY DEF RawPiece
  <1> HIDE DEF a, b, c, d, off, all, n
  <1>3. /\ At(data, off, a) /\ At(data, p, b) /\ At(data, q - W64, c) /\ At(data, q, d)
        /\ Len(all) = W16 + k + W64 + l
    <2> DEFINE x == a \o b
               y == x \o c
    <2>1. x \in Seq(Byte) /\ Len(x) = W16 + k
      BY <1>0, <1>1, Concatenated
    <2> HIDE DEF x
    <2>2. y \in Seq(Byte) /\ Len(y) = W16 + k + W64
      BY <1>1, <2>1, Concatenated
    <2>3. At(data, off, y \o d) /\ all = y \o d
      BY <1>2 DEF x
    <2> HIDE DEF y
    <2>4. At(data, off, y) /\ At(data, off + Len(y), d) /\ Len(all) = Len(y) + l
      <3>1. At(data, off, y \o d) /\ y \in Seq(Byte) /\ d \in Seq(Byte)
        BY <1>0, <2>2, <2>3
      <3>2. /\ At(data, off, y) /\ At(data, off + Len(y), d)
            /\ Len(y \o d) = Len(y) + Len(d)
        BY ONLY <3>1, AtParts
      <3>. QED BY <2>3, <3>2
    <2>5. At(data, off, x) /\ At(data, off + Len(x), c)
      <3>1. At(data, off, x \o c) /\ x \in Seq(Byte) /\ c \in Seq(Byte)
        BY <1>1, <2>1, <2>4 DEF y
      <3>. QED BY ONLY <3>1, AtParts
    <2>6. At(data, off, a) /\ At(data, off + Len(a), b)
      <3>1. At(data, off, a \o b) /\ a \in Seq(Byte) /\ b \in Seq(Byte)
        BY <1>0, <1>1, <2>5 DEF x
      <3>. QED BY ONLY <3>1, AtParts
    <2> HIDE DEF k, l
    <2>7. off + Len(a) = p /\ off + Len(x) = q - W64 /\ off + Len(y) = q
      BY <1>0, <1>1, <2>1, <2>2
    <2>. QED BY <2>2, <2>4, <2>5, <2>6, <2>7
  <1>4. Num(Slice(data, off, W16)) = k
    BY <1>0, <1>3, AtNumber DEF a, b
  <1>5. Slice(data, p, k) = b
    BY <1>3, AtSlice
  <1>6. Num(Slice(data, q - W64, W64)) = l
    <2>1. At(data, q - W64, LE(l, W64))
      BY <1>3 DEF c, d
    <2> HIDE DEF l, q
    <2>. QED BY <1>0, <2>1, AtNumber
  <1>7. Slice(data, q, l) = d /\ q + Len(d) <= Len(data)
    <2>1. Slice(data, q, l) = d
      BY <1>3, AtSlice
    <2>2. q + Len(d) <= Len(data)
      BY <1>3 DEF At
    <2>. QED BY <2>1, <2>2
  <1>8. /\ p <= n /\ q <= n /\ end <= n /\ q - W64 - p = k /\ end - q = l
        /\ end = off + Len(all)
    <2>1. n \in Nat /\ end <= n
      BY <1>0, <1>7 DEF n
    <2>2. Len(all) = W16 + k + W64 + l
      BY <1>3
    <2> HIDE DEF k, l
    <2>. QED BY <1>0, <2>1, <2>2
  <1> HIDE DEF k, l
  <1>9. RawStep(data, r) =
            IF r.ok /\ p <= Len(data) /\ q <= Len(data) /\ end <= Len(data)
            THEN [ok |-> TRUE, off |-> end,
                  items |-> Append(r.items, Item(Slice(data, p, q - W64 - p),
                                                 Slice(data, q, end - q)))]
            ELSE [r EXCEPT !.ok = FALSE]
    <2>1. r.off + W16 = p
      BY DEF off
    <2>2. p + Num(Slice(data, r.off, W16)) + W64 = q
      BY <1>4 DEF off
    <2>3. q + Num(Slice(data, q - W64, W64)) = end
      BY <1>6
    <2> HIDE DEF p, q, end
    <2>. QED BY <2>1, <2>2, <2>3 DEF RawStep
  <1> HIDE DEF p, q, end
  <1>10. RawStep(data, r) =
            [ok |-> TRUE, off |-> off + Len(all),
             items |-> Append(r.items, Item(b, d))]
    BY <1>5, <1>7, <1>8, <1>9 DEF n
  <1>. QED BY <1>10 DEF off, all, b, d

\* How many of the first i numbers are in a set.
Count(kept, i) == Cardinality(kept \cap (1 .. i))

Counts(kept, i) ==
    /\ Count(kept, i) = Count(kept, i - 1) + (IF i \in kept THEN 1 ELSE 0)
    /\ kept \cap (1 .. i) = (kept \cap (1 .. i - 1)) \cup (IF i \in kept THEN {i} ELSE {})

LEMMA CountIs ==
    ASSUME NEW n \in Nat, NEW kept, kept \subseteq 1 .. n
    PROVE  /\ \A i \in 0 .. n : Count(kept, i) \in Nat /\ Count(kept, i) <= Cardinality(kept)
           /\ Count(kept, 0) = 0 /\ Count(kept, n) = Cardinality(kept)
           /\ \A i \in 1 .. n : Counts(kept, i)
           /\ Cardinality(kept) \in Nat
  <1>1. IsFiniteSet(kept)
    <2>1. IsFiniteSet(1 .. n)
      BY FS_Interval
    <2>. QED BY <2>1, FS_Subset
  <1>2. ASSUME NEW i \in 0 .. n
        PROVE  /\ IsFiniteSet(kept \cap (1 .. i)) /\ Count(kept, i) \in Nat
               /\ Count(kept, i) <= Cardinality(kept)
    <2>1. kept \cap (1 .. i) \subseteq kept
      OBVIOUS
    <2>2. IsFiniteSet(kept \cap (1 .. i)) /\ Cardinality(kept \cap (1 .. i)) <= Cardinality(kept)
      BY <1>1, <2>1, FS_Subset
    <2>. QED BY <2>2, FS_CardinalityType DEF Count
  <1>3. Count(kept, 0) = 0
    <2>1. kept \cap (1 .. 0) = {}
      OBVIOUS
    <2>. QED BY <2>1, FS_EmptySet DEF Count
  <1>4. Count(kept, n) = Cardinality(kept)
    <2>1. kept \cap (1 .. n) = kept
      OBVIOUS
    <2>. QED BY <2>1 DEF Count
  <1>5. ASSUME NEW i \in 1 .. n PROVE Counts(kept, i)
    <2> DEFINE S == kept \cap (1 .. i - 1)
               T == kept \cap (1 .. i)
    <2>1. IsFiniteSet(S) /\ Cardinality(S) \in Nat /\ i \notin S
      <3>1. i - 1 \in 0 .. n
        OBVIOUS
      <3>2. IsFiniteSet(S)
        BY <1>2, <3>1
      <3>. QED BY <3>2, FS_CardinalityType
    <2>2. CASE i \in kept
      <3>1. T = S \cup {i}
        BY <2>2
      <3> HIDE DEF S, T
      <3>2. Cardinality(T) = Cardinality(S) + 1
        BY <2>1, <3>1, FS_AddElement
      <3>. QED BY <2>2, <3>1, <3>2 DEF Counts, Count, S, T
    <2>3. CASE i \notin kept
      <3>1. T = S
        BY <2>3
      <3> HIDE DEF S, T
      <3>2. Cardinality(T) = Cardinality(S) + 0
        BY <2>1, <3>1
      <3>3. T = S \cup {}
        BY <3>1
      <3>. QED BY <2>3, <3>2, <3>3 DEF Counts, Count, S, T
    <2>. QED BY <2>2, <2>3
  <1>6. Cardinality(kept) \in Nat
    BY <1>1, FS_CardinalityType
  <1>. QED BY <1>2, <1>3, <1>4, <1>5, <1>6

LEMMA RawPieceBytes ==
    ASSUME NEW f \in Entry
    PROVE  RawPiece(f) \in Seq(Byte) /\ Len(f.content) <= Len(RawPiece(f))
  <1> DEFINE a == LE(Len(f.path), W16)
             b == f.path
             c == LE(Len(f.content), W64)
             d == f.content
  <1>1. W16 \in Nat /\ W64 \in Nat /\ b \in Seq(Byte) /\ d \in Seq(Byte)
    BY RadixFacts, EntryFacts
  <1>2. a \in Seq(Byte) /\ c \in Seq(Byte)
    <2>1. Len(b) \in Nat /\ Len(d) \in Nat
      BY <1>1
    <2>. QED BY <1>1, <2>1, LEBytes
  <1>3. RawPiece(f) = a \o b \o c \o d
    BY DEF RawPiece
  <1> HIDE DEF a, b, c, d
  <1> DEFINE x == a \o b \o c
  <1>4. x \in Seq(Byte)
    BY <1>1, <1>2
  <1>5. RawPiece(f) = x \o d
    BY <1>3
  <1> HIDE DEF x
  <1>6. x \o d \in Seq(Byte) /\ Len(x \o d) = Len(x) + Len(d) /\ Len(x) \in Nat /\ Len(d) \in Nat
    BY <1>1, <1>4, Concatenated
  <1>7. Len(d) <= Len(x) + Len(d)
    BY <1>6
  <1>. QED BY <1>5, <1>6, <1>7 DEF d

\* The pieces of the raw format.
RawPieces(list) ==
    [i \in 1 .. Len(list) |-> IF i \in WithContent(list) THEN RawPiece(list[i]) ELSE <<>>]

RawAt(data, list, f) ==
    /\ Len(list) \in Nat /\ data \in Seq(Byte)
    /\ Builds(f, RawPieces(list), Len(list), Byte)
    /\ At(data, 0, LE(Cardinality(WithContent(list)), W32)) /\ At(data, W32, f[Len(list)])
    /\ W32 <= Len(data)

LEMMA RawIsAt == ASSUME NEW list, Entries(list) PROVE \E f : RawAt(concatFiles(list), list, f)
  <1> DEFINE n == Len(list)
             kept == WithContent(list)
             pieces == RawPieces(list)
             a == LE(Cardinality(kept), W32)
  <1>0. n \in Nat /\ W32 \in Nat /\ kept \subseteq 1 .. n
    <2>1. n \in Nat
      BY DEF Entries
    <2>2. kept \subseteq 1 .. n
      BY DEF WithContent
    <2>. QED BY <2>1, <2>2, RadixFacts
  <1>1. pieces \in [1 .. n -> Seq(Byte)]
    <2> DEFINE z == <<>>
    <2>1. z \in Seq(Byte)
      OBVIOUS
    <2> HIDE DEF z, kept
    <2>2. ASSUME NEW i \in 1 .. n
          PROVE  (IF i \in kept THEN RawPiece(list[i]) ELSE z) \in Seq(Byte)
      <3>1. list[i] \in Entry
        BY EntryOf
      <3>2. RawPiece(list[i]) \in Seq(Byte)
        BY <3>1, RawPieceBytes
      <3>. QED BY <2>1, <3>2
    <2>. QED BY <2>2 DEF RawPieces, z, kept
  <1>2. PICK f : Builds(f, pieces, n, Byte) /\ FlattenSeq(pieces) = f[n]
    <2> HIDE DEF pieces, n
    <2>. QED BY <1>0, <1>1, FlattenIs
  <1> DEFINE b == f[n]
             data == concatFiles(list)
  <1>3. b \in Seq(Byte)
    <2>1. n \in 0 .. n /\ f \in [0 .. n -> Seq(Byte)]
      BY <1>0, <1>2 DEF Builds
    <2>. QED BY <2>1
  <1>4. a \in Seq(Byte) /\ Len(a) = W32
    <2>1. Cardinality(kept) \in Nat
      <3> HIDE DEF kept, n
      <3>. QED BY <1>0, CountIs
    <2> HIDE DEF kept
    <2>. QED BY <1>0, <2>1, LEBytes
  <1>5. data = a \o b
    BY <1>2 DEF concatFiles, RawPieces, RawPiece
  <1> HIDE DEF data, a, b, kept, pieces, n
  <1>6. data \in Seq(Byte) /\ Len(data) = Len(a) + Len(b) /\ Len(b) \in Nat
    BY <1>3, <1>4, <1>5, Concatenated
  <1>7. At(data, 0, a) /\ At(data, 0 + Len(a), b)
    <2>1. At(data, 0, a \o b)
      BY <1>5, <1>6, AtSelf
    <2>. QED BY <1>3, <1>4, <2>1, AtParts
  <1>8. 0 + Len(a) = W32 /\ W32 <= Len(data)
    <2> DEFINE x == Len(data)
               y == Len(b)
    <2>1. x = W32 + y /\ y \in Nat
      BY <1>4, <1>6
    <2> HIDE DEF x, y
    <2>2. W32 <= x
      BY <1>0, <2>1
    <2>. QED BY <1>0, <1>4, <2>2 DEF x
  <1>9. RawAt(data, list, f)
    BY <1>0, <1>2, <1>6, <1>7, <1>8 DEF RawAt, a, b, kept, pieces, n
  <1>. QED BY <1>9 DEF data

\* What the raw format gives back of the first m entries, in the order of the file.
RawFound(found, list, m) ==
    LET kept == WithContent(list) \cap (1 .. m) IN
    /\ found \in Seq(Items) /\ Len(found) = Cardinality(kept)
    /\ \A i \in kept : \E k \in 1 .. Len(found) :
           found[k] = Item(list[i].path, list[i].content)
    /\ \A k \in 1 .. Len(found) : \E i \in kept :
           found[k] = Item(list[i].path, list[i].content)

LEMMA RawFoundMore ==
    ASSUME NEW list, NEW i \in Nat \ {0}, NEW found, RawFound(found, list, i - 1),
           Counts(WithContent(list), i), i \in WithContent(list),
           Item(list[i].path, list[i].content) \in Items
    PROVE  RawFound(Append(found, Item(list[i].path, list[i].content)), list, i)
  <1> DEFINE kept == WithContent(list)
             S == kept \cap (1 .. i - 1)
             T == kept \cap (1 .. i)
             x == Item(list[i].path, list[i].content)
             it(j) == Item(list[j].path, list[j].content)
             new == Append(found, x)
  <1>1. T = S \cup {i} /\ Cardinality(T) = Cardinality(S) + 1
    BY DEF Counts, Count
  <1>2. /\ found \in Seq(Items) /\ Len(found) = Cardinality(S)
        /\ \A j \in S : \E k \in 1 .. Len(found) : found[k] = it(j)
        /\ \A k \in 1 .. Len(found) : \E j \in S : found[k] = it(j)
    BY DEF RawFound
  <1>3. x \in Items /\ x = it(i)
    OBVIOUS
  <1> HIDE DEF kept, S, T, x, it
  <1>4. /\ new \in Seq(Items) /\ Len(new) = Len(found) + 1 /\ Len(found) \in Nat
        /\ \A k \in 1 .. Len(found) : new[k] = found[k]
        /\ new[Len(found) + 1] = x
    BY <1>2, <1>3
  <1> HIDE DEF new
  <1>5. ASSUME NEW j \in T PROVE \E k \in 1 .. Len(new) : new[k] = it(j)
    <2>1. CASE j = i
      <3>1. Len(found) + 1 \in 1 .. Len(new)
        BY <1>4
      <3>. QED BY <1>3, <1>4, <2>1, <3>1
    <2>2. CASE j # i
      <3>1. PICK k \in 1 .. Len(found) : found[k] = it(j)
        BY <1>1, <1>2, <2>2
      <3>2. k \in 1 .. Len(new) /\ new[k] = found[k]
        BY <1>4
      <3>. QED BY <3>1, <3>2
    <2>. QED BY <2>1, <2>2
  <1>6. ASSUME NEW k \in 1 .. Len(new) PROVE \E j \in T : new[k] = it(j)
    <2>1. CASE k = Len(found) + 1
      BY <1>1, <1>3, <1>4, <2>1
    <2>2. CASE k # Len(found) + 1
      <3>1. k \in 1 .. Len(found)
        BY <1>4, <2>2
      <3>2. PICK j \in S : found[k] = it(j)
        BY <1>2, <3>1
      <3>3. j \in T /\ new[k] = found[k]
        BY <1>1, <1>4, <3>1
      <3>. QED BY <3>2, <3>3
    <2>. QED BY <2>1, <2>2
  <1>7. Len(new) = Cardinality(T)
    BY <1>1, <1>2, <1>4
  <1>. QED BY <1>4, <1>5, <1>6, <1>7 DEF RawFound, T, kept, it, x, new

\* What has been read when the first i entries are behind.
RawProgress(list, read, f, i) ==
    LET r == read[Count(WithContent(list), i)] IN
    r.ok /\ r.off = W32 + Len(f[i]) /\ RawFound(r.items, list, i)

LEMMA RawProgressStep ==
    ASSUME NEW list, Entries(list), NEW data, NEW f, RawAt(data, list, f),
           Fits(Len(data), W64), NEW read, NEW count, RawWalk(data, read, count),
           count = Cardinality(WithContent(list)),
           NEW i \in 1 .. Len(list), RawProgress(list, read, f, i - 1)
    PROVE  RawProgress(list, read, f, i)
  <1> DEFINE n == Len(list)
             kept == WithContent(list)
             pieces == RawPieces(list)
             c == Count(kept, i)
             b == Count(kept, i - 1)
             r == read[b]
  <1>0. /\ n \in Nat /\ data \in Seq(Byte) /\ Builds(f, pieces, n, Byte)
        /\ At(data, W32, f[n]) /\ W32 \in Nat /\ W64 \in Nat
    BY RadixFacts DEF RawAt
  <1>1. kept \subseteq 1 .. n
    BY DEF WithContent
  <1>2. c \in Nat /\ c <= count /\ b \in Nat /\ b <= count /\ Counts(kept, i) /\ count \in Nat
    <2>1. i \in 0 .. n /\ i - 1 \in 0 .. n
      BY <1>0
    <2> HIDE DEF kept, n
    <2>. QED BY <1>0, <1>1, <2>1, CountIs DEF n, kept
  <1>3. r.ok /\ r.off = W32 + Len(f[i - 1]) /\ RawFound(r.items, list, i - 1)
    BY DEF RawProgress
  <1>4. Grows(f, pieces, i, Byte)
    <2> HIDE DEF pieces
    <2>. QED BY <1>0, PrefixFacts
  <1>5. CASE i \notin kept
    <2>1. c = b /\ kept \cap (1 .. i) = kept \cap (1 .. i - 1)
      BY <1>2, <1>5 DEF Counts
    <2>2. Len(f[i]) = Len(f[i - 1])
      <3>1. pieces[i] = <<>>
        BY <1>5 DEF RawPieces
      <3> HIDE DEF pieces
      <3>2. Len(pieces[i]) = 0
        BY <3>1
      <3>. QED BY <1>4, <3>2 DEF Grows
    <2>3. RawFound(r.items, list, i)
      BY <1>3, <2>1 DEF RawFound
    <2> HIDE DEF c, b
    <2>4. read[c] = r
      BY <2>1
    <2>. QED BY <1>3, <2>2, <2>3, <2>4 DEF RawProgress, c
  <1>6. CASE i \in kept
    <2> DEFINE e == list[i]
    <2>1. c = b + 1
      BY <1>2, <1>6 DEF Counts
    <2>2. pieces[i] = RawPiece(e)
      BY <1>6 DEF RawPieces
    <2>3. e \in Entry /\ Sized(e)
      BY EntryOf
    <2>4. At(f[n], Len(f[i - 1]), pieces[i])
      <3> HIDE DEF pieces
      <3>. QED BY <1>0, PieceAt
    <2> HIDE DEF pieces, e, n, kept
    <2>5. At(data, r.off, RawPiece(e))
      <3>1. At(data, W32 + Len(f[i - 1]), pieces[i])
        BY <1>0, <2>4, AtWithin
      <3>. QED BY <1>3, <2>2, <3>1
    <2>6. Fits(Len(e.content), W64)
      <3> DEFINE x == Len(e.content)
                 y == Len(RawPiece(e))
                 z == Len(data)
      <3>1. x \in Nat /\ x <= y
        BY <2>3, EntryFacts, RawPieceBytes
      <3>2. r.off \in Nat /\ r.off + y <= z /\ z \in Nat /\ y \in Nat
        <4>1. RawPiece(e) \in Seq(Byte)
          BY <2>3, RawPieceBytes
        <4>. QED BY <1>0, <2>5, <4>1 DEF At
      <3>3. Fits(z, W64)
        OBVIOUS
      <3> HIDE DEF x, y, z, r
      <3>4. x <= z
        <4> DEFINE o == r.off
        <4>1. o \in Nat /\ o + y <= z
          BY <3>2
        <4> HIDE DEF o
        <4>. QED BY <3>1, <3>2, <4>1
      <3>5. Fits(x, W64)
        BY <1>0, <3>1, <3>2, <3>3, <3>4, SmallerFits
      <3>. QED BY <3>5 DEF x
    <2> HIDE DEF c, b
    <2>7. r \in RawState /\ read[c] = RawStep(data, r)
      <3>1. b \in 0 .. count /\ c \in 1 .. count /\ c - 1 = b
        BY <1>2, <2>1
      <3>2. /\ read \in [0 .. count -> RawState]
            /\ \A k \in 1 .. count : read[k] = RawStep(data, read[k - 1])
        BY DEF RawWalk
      <3>3. read[b] \in RawState
        BY <3>1, <3>2
      <3>4. read[c] = RawStep(data, read[b])
        BY <3>1, <3>2
      <3>. QED BY <3>3, <3>4
    <2> DEFINE it == Item(e.path, e.content)
    <2> HIDE DEF r
    <2>8. read[c] = [ok |-> TRUE, off |-> r.off + Len(RawPiece(e)),
                     items |-> Append(r.items, it)]
      BY <1>3, <2>3, <2>5, <2>6, <2>7, RawPieceRead
    <2>9. it \in Items
      BY <2>3, EntryFacts DEF Item, Items
    <2>10. RawFound(Append(r.items, it), list, i)
      <3>1. it = Item(list[i].path, list[i].content) /\ i \in Nat \ {0}
        BY <1>0 DEF e
      <3>2. i \in WithContent(list) /\ Counts(WithContent(list), i)
        BY <1>2, <1>6 DEF kept
      <3> HIDE DEF it
      <3>. QED BY <1>3, <2>9, <3>1, <3>2, RawFoundMore
    <2>11. r.off + Len(RawPiece(e)) = W32 + Len(f[i])
      <3> DEFINE x == Len(f[i - 1])
                 y == Len(RawPiece(e))
                 z == Len(f[i])
      <3>1. z = x + y /\ x \in Nat /\ y \in Nat /\ r.off = W32 + x
        BY <1>3, <1>4, <2>2 DEF Grows
      <3> HIDE DEF x, y, z
      <3>2. W32 + x + y = W32 + z
        BY <1>0, <3>1
      <3>. QED BY <3>1, <3>2 DEF y, z
    <2> HIDE DEF it
    <2>. QED BY <2>8, <2>10, <2>11 DEF RawProgress, c, kept
  <1>. QED BY <1>5, <1>6

\* The raw format gives back every file with content and nothing else, as long as there
\* are not more than the restore accepts: concatFiles and restoreFromRaw.
THEOREM RawUndone ==
    ASSUME NEW list, Entries(list), Cardinality(WithContent(list)) <= MaxCount,
           Fits(Len(concatFiles(list)), W64)
    PROVE  /\ restoreFromRaw(concatFiles(list)).ok
           /\ RawFound(restoreFromRaw(concatFiles(list)).items, list, Len(list))
  <1> DEFINE n == Len(list)
             data == concatFiles(list)
             kept == WithContent(list)
             count == Cardinality(kept)
  <1>1. PICK f : RawAt(data, list, f)
    BY RawIsAt
  <1>2. /\ n \in Nat /\ data \in Seq(Byte) /\ Builds(f, RawPieces(list), n, Byte)
        /\ At(data, 0, LE(count, W32)) /\ W32 <= Len(data)
    BY <1>1 DEF RawAt
  <1>3. kept \subseteq 1 .. n
    BY DEF WithContent
  <1> HIDE DEF n, kept, data
  <1>4. count \in Nat /\ Count(kept, 0) = 0 /\ Count(kept, n) = count
    BY <1>2, <1>3, CountIs
  <1>5. W32 \in Nat /\ MaxCount \in Nat /\ Fits(MaxCount, W32)
    BY RadixFacts, PackingAssumption DEF PackingAssumption
  <1>6. count <= MaxCount /\ Fits(count, W32)
    <2>1. count <= MaxCount
      BY DEF kept
    <2>. QED BY <1>4, <1>5, <2>1, SmallerFits
  <1>7. Num(Slice(data, 0, W32)) = count
    BY <1>2, <1>4, <1>5, <1>6, AtNumber
  <1>8. PICK read : RawWalk(data, read, count)
    BY <1>2, <1>7, RawReads
  <1> DEFINE P == {i \in 0 .. n : RawProgress(list, read, f, i)}
  <1>9. 0 \in P
    <2>1. read[0] = [ok |-> TRUE, off |-> W32, items |-> <<>>]
      <3>1. read[0] = [ok |-> Len(data) >= W32 /\ count <= MaxCount, off |-> W32,
                       items |-> <<>>]
        BY <1>8 DEF RawWalk
      <3>2. (Len(data) >= W32 /\ count <= MaxCount) = TRUE
        BY <1>2, <1>5, <1>6
      <3>. QED BY <3>1, <3>2
    <2>2. f[0] = <<>> /\ Len(<<>>) = 0
      BY <1>2 DEF Builds
    <2>3. RawFound(<<>>, list, 0)
      <3>1. kept \cap (1 .. 0) = {}
        OBVIOUS
      <3> DEFINE z == <<>>
      <3>2. z \in Seq(Items) /\ Len(z) = 0 /\ 1 .. 0 = {}
        OBVIOUS
      <3> HIDE DEF z
      <3>3. Cardinality({}) = 0
        BY FS_EmptySet
      <3>4. RawFound(z, list, 0)
        BY <3>1, <3>2, <3>3 DEF RawFound, kept
      <3>. QED BY <3>4 DEF z
    <2>4. W32 + Len(f[0]) = W32
      BY <1>5, <2>2
    <2>5. RawProgress(list, read, f, 0)
      BY <1>4, <2>1, <2>3, <2>4 DEF RawProgress, kept
    <2>. QED BY <1>2, <2>5
  <1>10. ASSUME NEW i \in 1 .. n, i - 1 \in P PROVE i \in P
    <2>1. Fits(Len(data), W64) /\ count = Cardinality(WithContent(list)) /\ i \in 1 .. Len(list)
      BY DEF data, kept, n
    <2>2. RawProgress(list, read, f, i - 1)
      BY <1>10
    <2>3. RawProgress(list, read, f, i)
      BY <1>1, <1>8, <2>1, <2>2, RawProgressStep
    <2>. QED BY <1>2, <2>3
  <1>11. 0 .. n \subseteq P
    <2> HIDE DEF P
    <2>. QED BY <1>2, <1>9, <1>10, Kept
  <1>12. RawProgress(list, read, f, n)
    BY <1>2, <1>11
  <1>13. restoreFromRaw(data) = read[count]
    BY <1>8 DEF RawWalk
  <1>14. restoreFromRaw(data).ok /\ RawFound(restoreFromRaw(data).items, list, n)
    BY <1>4, <1>12, <1>13 DEF RawProgress, kept
  <1>. QED BY <1>14 DEF data, n

-----------------------------------------------------------------------------
(* The tar archive is undone *)

\* The digits before the first byte 0.
OctalEnd(buf) == Min({i \in 1 .. Len(buf) + 1 : i > Len(buf) \/ buf[i] = 0}) - 1

OctalStep(buf, i, x) == IF buf[i] \in 1 .. Octal THEN x * Octal + buf[i] - 1 ELSE x

OctalSum(sum, buf) ==
    /\ OctalEnd(buf) \in 0 .. Len(buf) /\ sum \in [0 .. OctalEnd(buf) -> Nat] /\ sum[0] = 0
    /\ \A i \in 1 .. OctalEnd(buf) : sum[i] = OctalStep(buf, i, sum[i - 1])
    /\ readOctal(buf) = sum[OctalEnd(buf)]

LEMMA OctalReads == ASSUME NEW buf \in Seq(Byte) PROVE \E sum : OctalSum(sum, buf)
  <1> DEFINE k == OctalEnd(buf)
             Body(g) == [i \in 0 .. k |-> IF i = 0 THEN 0 ELSE OctalStep(buf, i, g[i - 1])]
             sum == CHOOSE g : g = Body(g)
             s == [i \in 1 .. k |-> [x \in Nat |-> OctalStep(buf, i, x)]]
  <1>1. k \in 0 .. Len(buf)
    <2> DEFINE S == {i \in 1 .. Len(buf) + 1 : i > Len(buf) \/ buf[i] = 0}
    <2>1. Len(buf) \in Nat
      OBVIOUS
    <2>2. Len(buf) + 1 \in S
      BY <2>1
    <2>3. S \in SUBSET Nat /\ S # {} /\ S \subseteq 1 .. Len(buf) + 1
      BY <2>2
    <2> HIDE DEF S
    <2>4. Min(S) \in S
      BY <2>3, MinIs
    <2>5. Min(S) \in 1 .. Len(buf) + 1
      BY <2>3, <2>4
    <2>6. Min(S) - 1 \in 0 .. Len(buf)
      BY <2>1, <2>5
    <2>. QED BY <2>6 DEF OctalEnd, S
  <1>2. readOctal(buf) = sum[k]
    BY DEF readOctal, OctalEnd, OctalStep
  <1>3. k \in Nat /\ \A i \in 1 .. k : buf[i] \in Nat
    <2>1. \A i \in 1 .. Len(buf) : buf[i] \in Byte
      OBVIOUS
    <2>2. \A i \in 1 .. k : i \in 1 .. Len(buf)
      BY <1>1
    <2>3. k \in Nat /\ Byte \subseteq Nat
      BY <1>1, RadixFacts
    <2>. QED BY <2>1, <2>2, <2>3
  <1> HIDE DEF k
  <1>4. ASSUME NEW i \in 1 .. k, NEW x \in Nat PROVE OctalStep(buf, i, x) \in Nat
    <2>1. Octal \in Nat
      BY PackingAssumption DEF PackingAssumption
    <2>2. x * Octal \in Nat
      BY <2>1
    <2> DEFINE m == x * Octal
               d == buf[i]
    <2>3. m \in Nat /\ d \in Nat
      BY <1>3, <2>2
    <2> HIDE DEF m, d
    <2>4. (IF d \in 1 .. Octal THEN m + d - 1 ELSE x) \in Nat
      BY <2>1, <2>3
    <2>. QED BY <2>4 DEF OctalStep, m, d
  <1>5. IsStep(s, k, Nat) /\ \A i \in 1 .. k : \A x \in Nat : s[i][x] = OctalStep(buf, i, x)
    BY <1>4 DEF IsStep
  <1>6. PICK f : IsRec(f, k, Nat, 0, s)
    <2> HIDE DEF s
    <2>. QED BY <1>3, <1>5, Recursion
  <1>7. f = Body(f)
    <2> HIDE DEF s
    <2>1. /\ f \in [0 .. k -> Nat] /\ f[0] = 0
          /\ \A i \in 1 .. k : f[i] = s[i][f[i - 1]]
      BY <1>6 DEF IsRec
    <2>2. ASSUME NEW i \in 1 .. k PROVE f[i] = OctalStep(buf, i, f[i - 1])
      <3>1. i - 1 \in 0 .. k
        BY <1>3
      <3>2. f[i - 1] \in Nat
        BY <2>1, <3>1
      <3>. QED BY <1>5, <2>1, <3>2
    <2>3. \A i \in 0 .. k : f[i] = IF i = 0 THEN 0 ELSE OctalStep(buf, i, f[i - 1])
      BY <2>1, <2>2
    <2>. QED BY <2>1, <2>3
  <1>8. sum = Body(sum)
    BY <1>7
  <1> HIDE DEF sum
  <1>9. /\ DOMAIN sum = 0 .. k /\ sum = [i \in 0 .. k |-> sum[i]] /\ sum[0] = 0
        /\ \A i \in 1 .. k : sum[i] = OctalStep(buf, i, sum[i - 1])
    <2>1. 0 \in 0 .. k /\ \A i \in 1 .. k : i \in 0 .. k /\ i # 0
      BY <1>3
    <2>. QED BY <1>8, <2>1
  <1>10. \A i \in 1 .. k : sum[i - 1] \in Nat => sum[i] \in Nat
    BY <1>4, <1>9
  <1>11. sum \in [0 .. k -> Nat]
    <2>1. sum[0] \in Nat
      BY <1>9
    <2>. QED BY <1>3, <1>9, <1>10, <2>1, Within
  <1>12. OctalSum(sum, buf)
    BY <1>1, <1>2, <1>9, <1>11 DEF OctalSum, k
  <1>. QED BY <1>12

LEMMA OctalIs == ASSUME NEW buf \in Seq(Byte) PROVE readOctal(buf) \in Nat
  <1>1. PICK sum : OctalSum(sum, buf)
    BY OctalReads
  <1>2. OctalEnd(buf) \in 0 .. OctalEnd(buf)
    <2>1. OctalEnd(buf) \in 0 .. Len(buf)
      BY <1>1 DEF OctalSum
    <2>. QED BY <2>1
  <1>. QED BY <1>1, <1>2 DEF OctalSum

\* A size that has room is read as it was written: writeOctal and readOctal.
LEMMA OctalRead ==
    ASSUME NEW n \in Nat, Shifts(n, Octal, SizeMax)[SizeMax] = 0
    PROVE  readOctal(writeOctal(n)) = n
  <1> DEFINE rest == Shifts(n, Octal, SizeMax)
             buf == writeOctal(n)
             w == SizeMax
  <1>0. w \in Nat /\ Octal \in Nat \ {0}
    BY PackingAssumption DEF PackingAssumption
  <1>1. Left(rest, n, Octal, w) /\ rest[w] = 0
    BY <1>0, ShiftsStep
  <1>2. buf \in Seq(Byte) /\ Len(buf) = w + 1
    BY OctalBytes
  <1>3. buf[w + 1] = 0 /\ \A i \in 1 .. w : buf[i] = (rest[w - i] % Octal) + 1
    <2> DEFINE a == [i \in 1 .. w |-> (rest[w - i] % Octal) + 1]
    <2>1. buf = a \o <<0>>
      BY DEF writeOctal
    <2> HIDE DEF rest, buf
    <2>3. a = [i \in 1 .. w |-> a[i]] /\ \A i \in 1 .. w : a[i] = (rest[w - i] % Octal) + 1
      OBVIOUS
    <2>2. a \in Seq({a[i] : i \in 1 .. w}) /\ Len(a) = w
      <3> HIDE DEF a
      <3>. QED BY <1>0, <2>3
    <2> DEFINE D == {a[i] : i \in 1 .. w} \cup {0}
    <2>4. a \in Seq(D) /\ <<0>> \in Seq(D)
      <3>1. {a[i] : i \in 1 .. w} \subseteq D /\ 0 \in D
        OBVIOUS
      <3> HIDE DEF D, a
      <3>2. a \in Seq(D)
        BY <2>2, <3>1, SeqOfMore
      <3>. QED BY <3>1, <3>2
    <2> HIDE DEF a, D
    <2>5. /\ (a \o <<0>>)[Len(a) + 1] = 0 /\ \A i \in 1 .. Len(a) : (a \o <<0>>)[i] = a[i]
      BY <2>4
    <2>. QED BY <2>1, <2>2, <2>3, <2>5
  <1> HIDE DEF rest, buf, w
  <1>4. /\ rest \in [0 .. w -> Nat] /\ rest[0] = n
        /\ \A i \in 1 .. w : rest[i] = rest[i - 1] \div Octal
    BY <1>1 DEF Left
  <1>5. ASSUME NEW i \in 1 .. w
        PROVE  /\ buf[i] \in 1 .. Octal /\ rest[w - i] \in Nat
               /\ rest[w - i] = rest[w - (i - 1)] * Octal + buf[i] - 1
    <2> DEFINE j == w - i
    <2>1. j \in 0 .. w /\ j + 1 \in 1 .. w /\ (j + 1) - 1 = j /\ w - (i - 1) = j + 1
      BY <1>0
    <2> HIDE DEF j
    <2> DEFINE x == rest[j]
    <2>2. x \in Nat /\ rest[j + 1] = x \div Octal
      BY <1>4, <2>1
    <2> HIDE DEF x
    <2>3. x \div Octal \in Nat /\ x % Octal \in 0 .. Octal - 1
          /\ x = (x \div Octal) * Octal + (x % Octal)
      BY <1>0, <2>2, BaseFacts
    <2>4. buf[i] = (x % Octal) + 1
      BY <1>3 DEF x, j
    <2> DEFINE m == (x \div Octal) * Octal
               d == x % Octal
    <2>5. m \in Nat /\ d \in 0 .. Octal - 1 /\ x = m + d /\ buf[i] = d + 1
      BY <1>0, <2>3, <2>4
    <2> HIDE DEF m, d
    <2>6. buf[i] \in 1 .. Octal /\ x = m + buf[i] - 1
      BY <1>0, <2>5
    <2>. QED BY <2>1, <2>2, <2>6 DEF m, x, j
  <1>6. OctalEnd(buf) = w
    <2> DEFINE S == {i \in 1 .. Len(buf) + 1 : i > Len(buf) \/ buf[i] = 0}
    <2>1. w + 1 \in S
      BY <1>0, <1>2, <1>3
    <2>2. ASSUME NEW i \in S PROVE w + 1 <= i
      <3>1. i \in 1 .. w + 2 /\ (i > w + 1 \/ buf[i] = 0)
        BY <1>0, <1>2
      <3>2. ASSUME i <= w PROVE FALSE
        <4>1. i \in 1 .. w
          BY <1>0, <3>1, <3>2
        <4>2. buf[i] \in 1 .. Octal
          BY <1>5, <4>1
        <4>3. ~ i > w + 1
          BY <1>0, <4>1
        <4>. QED BY <1>0, <3>1, <4>2, <4>3
      <3>. QED BY <1>0, <3>1, <3>2
    <2>3. S \in SUBSET Nat /\ S # {}
      BY <2>1
    <2> HIDE DEF S
    <2>4. Min(S) \in S /\ \A x \in S : Min(S) <= x
      BY <2>3, MinIs
    <2>5. Min(S) \in Nat /\ Min(S) <= w + 1 /\ w + 1 <= Min(S)
      BY <2>1, <2>2, <2>3, <2>4
    <2>6. Min(S) - 1 = w
      BY <1>0, <2>5
    <2>. QED BY <2>6 DEF OctalEnd, S
  <1>7. PICK sum : OctalSum(sum, buf)
    BY <1>2, OctalReads
  <1>8. /\ sum[0] = 0 /\ readOctal(buf) = sum[w]
        /\ \A i \in 1 .. w : sum[i] = OctalStep(buf, i, sum[i - 1])
    BY <1>6, <1>7 DEF OctalSum
  <1> DEFINE P == {i \in 0 .. w : sum[i] = rest[w - i]}
  <1>9. 0 \in P
    BY <1>0, <1>1, <1>8
  <1>10. ASSUME NEW i \in 1 .. w, i - 1 \in P PROVE i \in P
    <2>1. sum[i - 1] = rest[w - (i - 1)]
      BY <1>10
    <2>2. sum[i] = sum[i - 1] * Octal + buf[i] - 1
      BY <1>5, <1>8 DEF OctalStep
    <2>3. sum[i] = rest[w - i]
      BY <1>5, <2>1, <2>2
    <2>. QED BY <1>0, <2>3
  <1>11. 0 .. w \subseteq P
    <2> HIDE DEF P
    <2>. QED BY <1>0, <1>9, <1>10, Kept
  <1>12. sum[w] = rest[0]
    <2>1. w \in P /\ w - w = 0
      BY <1>0, <1>11
    <2>. QED BY <2>1
  <1>. QED BY <1>4, <1>8, <1>12 DEF buf

NameEnd(block) == Min({i \in 1 .. NameMax + 1 : i > NameMax \/ block[i] = 0})

LEMMA NameBytes ==
    ASSUME NEW block \in Seq(Byte), NameMax <= Len(block)
    PROVE  parseName(block) \in Seq(Byte)
  <1> DEFINE S == {i \in 1 .. NameMax + 1 : i > NameMax \/ block[i] = 0}
             m == Min(S)
  <1>0. NameMax \in Nat /\ Len(block) \in Nat
    BY PackingAssumption DEF PackingAssumption
  <1>1. S \in SUBSET Nat /\ S # {} /\ S \subseteq 1 .. NameMax + 1
    <2>1. NameMax + 1 \in S
      BY <1>0
    <2>. QED BY <2>1
  <1> HIDE DEF S
  <1>2. m \in 1 .. NameMax + 1
    BY <1>1, MinIs
  <1> HIDE DEF m
  <1>3. m - 1 \in 0 .. Len(block)
    BY <1>0, <1>2
  <1>4. SubSeq(block, 1, m - 1) \in Seq(Byte)
    BY <1>3
  <1>. QED BY <1>4 DEF parseName, m, S

\* A name is read as it was written, without the bytes 0 behind it.
LEMMA NameRead ==
    ASSUME NEW path \in Seq(Byte), 0 \notin Range(path), NEW block \in Seq(Byte),
           At(block, 0, Name(path)),
           At(block, Len(Name(path)), Zeros(NameMax - Len(Name(path))))
    PROVE  parseName(block) = Name(path)
  <1> DEFINE name == Name(path)
             m == Len(name)
             z == Zeros(NameMax - m)
             S == {i \in 1 .. NameMax + 1 : i > NameMax \/ block[i] = 0}
  <1>0. NameMax \in Nat /\ m \in Nat /\ name \in Seq(Byte) /\ m <= NameMax
        /\ NameMax - m \in Nat
    BY NameIs, PackingAssumption DEF PackingAssumption
  <1>1. ASSUME NEW i \in 1 .. m PROVE block[i] = name[i] /\ name[i] # 0
    <2>1. block[0 + i] = name[i] /\ 0 + i = i
      BY DEF At
    <2>2. name[i] = path[i] /\ i \in 1 .. Len(path)
      <3> DEFINE k == Min({Len(path), NameMax})
      <3>1. Len(path) \in Nat
        OBVIOUS
      <3>2. k \in Nat /\ k <= Len(path)
        BY <1>0, <3>1, MinOfTwo
      <3> HIDE DEF k
      <3>3. name = SubSeq(path, 1, k)
        BY DEF Name, k
      <3>4. /\ Len(SubSeq(path, 1, k)) = k
            /\ \A j \in 1 .. k : SubSeq(path, 1, k)[j] = path[j]
        BY <3>1, <3>2
      <3> HIDE DEF name
      <3>5. i \in 1 .. k
        BY <3>3, <3>4
      <3>. QED BY <3>1, <3>2, <3>3, <3>4, <3>5
    <2>3. path[i] \in Range(path)
      <3>1. i \in DOMAIN path
        BY <2>2
      <3>. QED BY <3>1 DEF Range
    <2>. QED BY <2>1, <2>2, <2>3
  <1>2. m + 1 > NameMax \/ block[m + 1] = 0
    <2>1. CASE m = NameMax
      BY <1>0, <2>1
    <2>2. CASE m # NameMax
      <3>1. 1 \in 1 .. NameMax - m
        BY <1>0, <2>2
      <3>2. Len(z) = NameMax - m /\ z[1] = 0
        <4> HIDE DEF m
        <4>. QED BY <1>0, <3>1 DEF Zeros
      <3>3. block[m + 1] = z[1]
        BY <3>1, <3>2 DEF At
      <3>. QED BY <3>2, <3>3
    <2>. QED BY <2>1, <2>2
  <1>3. m <= Len(block) /\ Len(block) \in Nat
    BY <1>0 DEF At
  <1> HIDE DEF name, m, z
  <1>4. m + 1 \in S
    BY <1>0, <1>2
  <1>5. ASSUME NEW i \in S PROVE m + 1 <= i
    <2>1. i \in 1 .. NameMax + 1 /\ (i > NameMax \/ block[i] = 0)
      OBVIOUS
    <2>2. ASSUME i <= m PROVE FALSE
      <3>1. i \in 1 .. m /\ ~ i > NameMax
        BY <1>0, <2>1, <2>2
      <3>. QED BY <1>1, <2>1, <3>1
    <2>. QED BY <1>0, <2>1, <2>2
  <1>6. S \in SUBSET Nat /\ S # {}
    <2>1. S \subseteq 1 .. NameMax + 1 /\ 1 .. NameMax + 1 \subseteq Nat
      OBVIOUS
    <2> HIDE DEF S
    <2>. QED BY <1>4, <2>1
  <1> HIDE DEF S
  <1>7. Min(S) = m + 1
    <2>1. Min(S) \in S /\ \A x \in S : Min(S) <= x
      BY <1>6, MinIs
    <2>2. Min(S) \in Nat /\ Min(S) <= m + 1 /\ m + 1 <= Min(S)
      BY <1>4, <1>5, <1>6, <2>1
    <2>. QED BY <1>0, <2>2
  <1>8. parseName(block) = SubSeq(block, 1, m)
    <2>1. (m + 1) - 1 = m
      BY <1>0
    <2>. QED BY <1>7, <2>1 DEF parseName, S
  <1>9. SubSeq(block, 1, m) = name
    <2>1. /\ SubSeq(block, 1, m) \in Seq(Byte) /\ Len(SubSeq(block, 1, m)) = m
          /\ \A i \in 1 .. m : SubSeq(block, 1, m)[i] = block[i]
      BY <1>0, <1>3
    <2>2. Len(name) = m /\ name \in Seq(Byte)
      BY <1>0 DEF m
    <2>. QED BY <1>1, <2>1, <2>2, SameBytes
  <1>. QED BY <1>8, <1>9 DEF name

\* Where the parts of a tar header are.
TarHeaderAt(h, f) ==
    LET name == Name(f.path) IN
    /\ h \in Seq(Byte) /\ Len(h) = HeaderSize
    /\ At(h, 0, name) /\ At(h, Len(name), Zeros(NameMax - Len(name)))
    /\ At(h, NameMax, writeOctal(DirSize(f))) /\ h[HeaderSize] = Flag(f.type)

LEMMA TarHeaderIs == ASSUME NEW f \in Entry PROVE TarHeaderAt(buildHeader(f), f)
  <1> DEFINE size == DirSize(f)
             a == Name(f.path)
             b == Zeros(NameMax - Len(a))
             c == writeOctal(size)
             d == <<Flag(f.type)>>
             h == buildHeader(f)
  <1>1. f.path \in Seq(Byte) /\ size \in Nat
    BY EntryFacts DEF DirSize
  <1>2. a \in Seq(Byte) /\ Len(a) \in Nat /\ NameMax - Len(a) \in Nat /\ NameMax \in Nat
    BY <1>1, NameIs, PackingAssumption DEF PackingAssumption
  <1>3. b \in Seq(Byte) /\ Len(b) = NameMax - Len(a)
    <2> HIDE DEF a
    <2>. QED BY <1>2, ZerosAre
  <1>4. c \in Seq(Byte) /\ Len(c) = SizeMax + 1 /\ SizeMax \in Nat
    <2> HIDE DEF size
    <2>. QED BY <1>1, OctalBytes, PackingAssumption DEF PackingAssumption
  <1>5. d \in Seq(Byte) /\ Len(d) = 1 /\ d[1] = Flag(f.type)
    BY FlagIs
  <1>6. h = a \o b \o c \o d
    BY DEF buildHeader, DirSize
  <1>7. h \in Seq(Byte) /\ Len(h) = HeaderSize
    BY TarHeaderBytes
  <1> HIDE DEF a, b, c, d, h
  <1> DEFINE x == a \o b
             y == x \o c
  <1>8. x \in Seq(Byte) /\ Len(x) = NameMax
    BY <1>2, <1>3
  <1> HIDE DEF x
  <1>9. y \in Seq(Byte) /\ Len(y) = NameMax + (SizeMax + 1)
    <2>1. y \in Seq(Byte) /\ Len(y) = Len(x) + Len(c)
      BY <1>4, <1>8, Concatenated
    <2>. QED BY <1>4, <1>8, <2>1
  <1>10. h = y \o d
    BY <1>6 DEF x
  <1> HIDE DEF y
  <1>11. At(h, 0, y) /\ At(h, 0 + Len(y), d)
    <2>1. At(h, 0, y \o d)
      BY <1>7, <1>10, AtSelf
    <2>. QED BY <1>5, <1>9, <2>1, AtParts
  <1>12. At(h, 0, x) /\ At(h, 0 + Len(x), c)
    <2>1. At(h, 0, x \o c)
      BY <1>11 DEF y
    <2>. QED BY <1>4, <1>8, <2>1, AtParts
  <1>13. At(h, 0, a) /\ At(h, 0 + Len(a), b)
    <2>1. At(h, 0, a \o b)
      BY <1>12 DEF x
    <2>. QED BY <1>2, <1>3, <2>1, AtParts
  <1>14. 0 + Len(a) = Len(a) /\ 0 + Len(x) = NameMax
    BY <1>2, <1>8
  <1>15. h[HeaderSize] = Flag(f.type)
    <2>1. h[0 + Len(y) + 1] = d[1]
      BY <1>5, <1>11 DEF At
    <2>2. 0 + (NameMax + (SizeMax + 1)) + 1 = HeaderSize
      BY <1>2, <1>4 DEF HeaderSize
    <2>. QED BY <1>5, <1>9, <2>1, <2>2
  <1>. QED BY <1>7, <1>12, <1>13, <1>14, <1>15 DEF TarHeaderAt, a, b, c, h, size

\* How the restore of a tar archive goes on at an offset: what ends it, what it finds
\* there, and how far the next header is.
TarEmpty(data, off) ==
    off + HeaderSize <= Len(data) /\ Slice(data, off, HeaderSize) = Zeros(HeaderSize)

TarStop(data, off) ==
    \/ off + HeaderSize > Len(data)
    \/ TarEmpty(data, off) /\ TarEmpty(data, off + HeaderSize)

TarSize(data, off) == readOctal(Slice(Slice(data, off, HeaderSize), NameMax, SizeMax + 1))

TarItem(data, off) ==
    LET block == Slice(data, off, HeaderSize)
        start == off + HeaderSize
        size == TarSize(data, off)
        plain == block[HeaderSize] \notin {Directory, Symlink}
    IN Item(parseName(block),
            IF plain /\ start + size <= Len(data) THEN Slice(data, start, size) ELSE <<>>)

TarStride(data, off) ==
    HeaderSize + TarSize(data, off) + Padding(TarSize(data, off))

LEMMA TarFacts ==
    ASSUME NEW data \in Seq(Byte), NEW off \in Nat, ~ TarStop(data, off)
    PROVE  TarSize(data, off) \in Nat /\ TarItem(data, off) \in Items
           /\ TarStride(data, off) \in Nat \ {0}
  <1> DEFINE h == Slice(data, off, HeaderSize)
             size == TarSize(data, off)
             start == off + HeaderSize
             z == <<>>
  <1>0. /\ HeaderSize \in Nat \ {0} /\ NameMax \in Nat /\ SizeMax \in Nat
        /\ NameMax <= HeaderSize /\ start \in Nat
    <2>1. HeaderSize \in Nat \ {0}
      BY PaddingIs
    <2>2. NameMax \in Nat /\ SizeMax \in Nat /\ NameMax <= HeaderSize
      BY PackingAssumption DEF PackingAssumption, HeaderSize
    <2>. QED BY <2>1, <2>2
  <1>1. h \in Seq(Byte) /\ Len(h) = HeaderSize
    BY <1>0, SliceBytes
  <1> HIDE DEF h, start
  <1>2. size \in Nat
    <2>1. SizeMax + 1 \in Nat
      BY <1>0
    <2>2. Slice(h, NameMax, SizeMax + 1) \in Seq(Byte)
      BY <1>0, <1>1, <2>1, SliceBytes
    <2>. QED BY <2>2, OctalIs DEF TarSize, h
  <1> HIDE DEF size
  <1>3. TarStride(data, off) \in Nat \ {0}
    <2>1. Padding(size) \in Nat
      BY <1>2, PaddingIs
    <2>2. HeaderSize + size + Padding(size) \in Nat \ {0}
      BY <1>0, <1>2, <2>1
    <2>. QED BY <2>2 DEF TarStride, size
  <1>4. parseName(h) \in Seq(Byte)
    BY <1>0, <1>1, NameBytes
  <1>5. z \in Seq(Byte) /\ Slice(data, start, size) \in Seq(Byte)
    BY <1>0, <1>2, SliceBytes
  <1>6. TarItem(data, off) \in {Item(parseName(h), z), Item(parseName(h), Slice(data, start, size))}
    BY DEF TarItem, h, start, size, z
  <1> HIDE DEF z
  <1>7. Item(parseName(h), z) \in Items /\ Item(parseName(h), Slice(data, start, size)) \in Items
    BY <1>4, <1>5 DEF Item, Items
  <1>. QED BY <1>2, <1>3, <1>6, <1>7 DEF size

\* A size that a tar header has room for.
TarFits(f) == Shifts(DirSize(f), Octal, SizeMax)[SizeMax] = 0

TarReads(data, off, f) ==
    /\ ~ TarStop(data, off) /\ TarStride(data, off) = Len(TarPiece(f))
    /\ TarItem(data, off) = Item(Name(f.path), Part(f))

LEMMA TarEntryRead ==
    ASSUME NEW f \in Entry, Sized(f), TarFits(f), NEW data, NEW off,
           At(data, off, TarPiece(f))
    PROVE  TarReads(data, off, f)
  <1> DEFINE h == buildHeader(f)
             size == DirSize(f)
             pad == Padding(size)
             part == Part(f)
             z == <<>>
             body == IF f.type = Regular THEN f.content \o Zeros(Padding(Len(f.content)))
                     ELSE z
             start == off + HeaderSize
  <1>0. /\ HeaderSize \in Nat \ {0} /\ NameMax \in Nat /\ SizeMax \in Nat
        /\ data \in Seq(Byte) /\ off \in Nat
        /\ f.path \in Seq(Byte) /\ f.content \in Seq(Byte)
    BY PaddingIs, PackingAssumption, EntryFacts DEF PackingAssumption, At
  <1>1. TarHeaderAt(h, f)
    BY TarHeaderIs
  <1>2. /\ h \in Seq(Byte) /\ Len(h) = HeaderSize /\ h[HeaderSize] = Flag(f.type)
        /\ At(h, NameMax, writeOctal(size))
    BY <1>1 DEF TarHeaderAt
  <1>3. size \in Nat /\ Len(part) = size /\ part \in Seq(Byte)
    <2>1. size \in Nat
      BY <1>0 DEF DirSize
    <2>2. Len(part) = size
      BY DEF Part, DirSize
    <2>. QED BY <2>1, <2>2, PartBytes
  <1>4. pad \in Nat
    <2> HIDE DEF size
    <2>. QED BY <1>3, PaddingIs
  <1>5. body \in Seq(Byte) /\ Len(body) = size + pad /\ (f.type = Regular => At(body, 0, part))
    <2>1. CASE f.type = Regular
      <3> DEFINE a == f.content
                 b == Zeros(pad)
      <3>1. a \in Seq(Byte) /\ part = a /\ Len(a) = size
        BY <1>0, <2>1 DEF Part, DirSize
      <3>2. b \in Seq(Byte) /\ Len(b) = pad
        <4> HIDE DEF pad
        <4>. QED BY <1>4, ZerosAre
      <3>3. body = a \o b
        BY <2>1 DEF DirSize
      <3> HIDE DEF a, b, body, part, size, pad
      <3>4. body \in Seq(Byte) /\ Len(body) = Len(a) + Len(b)
        BY <3>1, <3>2, <3>3, Concatenated
      <3>5. At(body, 0, a)
        <4>1. At(body, 0, a \o b)
          BY <3>3, <3>4, AtSelf
        <4>. QED BY <3>1, <3>2, <4>1, AtParts
      <3>. QED BY <3>1, <3>2, <3>4, <3>5
    <2>2. CASE f.type # Regular
      <3>1. size = 0 /\ body = <<>>
        BY <2>2 DEF DirSize
      <3>2. pad = 0
        <4>1. Padding(0) = (HeaderSize - (0 % HeaderSize)) % HeaderSize
          BY DEF Padding
        <4> DEFINE H == HeaderSize
        <4>2. H \in Nat \ {0}
          BY <1>0
        <4> HIDE DEF H
        <4>3. (H - (0 % H)) % H = 0
          <5>1. 0 % H = 0 /\ H % H = 0 /\ H - 0 = H
            BY <4>2
          <5>. QED BY <5>1
        <4>. QED BY <3>1, <4>1, <4>3 DEF H
      <3>3. Len(<<>>) = 0 /\ <<>> \in Seq(Byte)
        OBVIOUS
      <3> HIDE DEF size, body, pad
      <3>. QED BY <2>2, <3>1, <3>2, <3>3
    <2>. QED BY <2>1, <2>2
  <1>6. TarPiece(f) = h \o body
    BY DEF TarPiece
  <1> HIDE DEF h, size, pad, part, body
  <1>7. /\ At(data, off, h) /\ At(data, start, body) /\ start \in Nat
        /\ Len(TarPiece(f)) = HeaderSize + (size + pad)
    <2>1. At(data, off, h) /\ At(data, off + Len(h), body)
      <3>1. At(data, off, h \o body)
        BY <1>6
      <3>. QED BY <1>2, <1>5, <3>1, AtParts
    <2>2. Len(h \o body) = Len(h) + Len(body)
      BY <1>2, <1>5, Concatenated
    <2>3. start \in Nat
      BY <1>0
    <2>. QED BY <1>2, <1>5, <1>6, <2>1, <2>2, <2>3
  <1>8. Slice(data, off, HeaderSize) = h
    BY <1>2, <1>7, AtSlice
  <1>9. /\ start <= Len(data) /\ start + size <= Len(data) /\ Len(data) \in Nat
    <2> DEFINE n == Len(data)
    <2>1. start + (size + pad) <= n /\ n \in Nat
      BY <1>0, <1>5, <1>7 DEF At
    <2> HIDE DEF n, start
    <2>2. start <= n /\ start + size <= n
      BY <1>3, <1>4, <1>7, <2>1
    <2>. QED BY <2>1, <2>2 DEF n
  <1>10. ~ TarStop(data, off)
    <2>1. ~ off + HeaderSize > Len(data)
      BY <1>0, <1>9
    <2>2. h # Zeros(HeaderSize)
      <3>1. Zeros(HeaderSize)[HeaderSize] = 0
        <4>1. HeaderSize \in 1 .. HeaderSize
          BY <1>0
        <4>. QED BY <4>1 DEF Zeros
      <3>2. Flag(f.type) # 0
        BY DEF Flag, Directory, Symlink, Regular
      <3>. QED BY <1>2, <3>1, <3>2
    <2>3. ~ TarEmpty(data, off)
      BY <1>8, <2>2 DEF TarEmpty
    <2>. QED BY <2>1, <2>3 DEF TarStop
  <1>11. TarSize(data, off) = size
    <2>1. Len(writeOctal(size)) = SizeMax + 1
      BY <1>3, OctalBytes
    <2>2. Slice(h, NameMax, SizeMax + 1) = writeOctal(size)
      BY <1>2, <2>1, AtSlice
    <2>3. readOctal(writeOctal(size)) = size
      <3>1. Shifts(size, Octal, SizeMax)[SizeMax] = 0
        BY DEF TarFits, size
      <3>. QED BY <1>3, <3>1, OctalRead
    <2>. QED BY <1>8, <2>2, <2>3 DEF TarSize
  <1>12. TarStride(data, off) = Len(TarPiece(f))
    <2>1. TarStride(data, off) = HeaderSize + size + pad
      BY <1>11 DEF TarStride, pad
    <2>2. HeaderSize + size + pad = HeaderSize + (size + pad)
      BY <1>0, <1>3, <1>4
    <2>. QED BY <1>7, <2>1, <2>2
  <1>13. parseName(h) = Name(f.path)
    <2>1. 0 \notin Range(f.path)
      BY DEF Sized
    <2>2. /\ At(h, 0, Name(f.path))
          /\ At(h, Len(Name(f.path)), Zeros(NameMax - Len(Name(f.path))))
      BY <1>1 DEF TarHeaderAt
    <2>. QED BY <1>0, <1>2, <2>1, <2>2, NameRead
  <1>14. (IF h[HeaderSize] \notin {Directory, Symlink} /\ start + size <= Len(data)
          THEN Slice(data, start, size) ELSE <<>>) = part
    <2>1. CASE f.type = Regular
      <3>1. At(data, start, part)
        <4>1. At(data, start + 0, part)
          BY <1>5, <1>7, <2>1, AtWithin
        <4>. QED BY <1>7, <4>1
      <3>2. Slice(data, start, size) = part
        BY <1>3, <3>1, AtSlice
      <3>3. Flag(f.type) \notin {Directory, Symlink}
        BY <2>1 DEF Flag, Directory, Symlink, Regular
      <3>. QED BY <1>2, <1>9, <3>2, <3>3
    <2>2. CASE f.type # Regular
      <3>1. part = <<>> /\ size = 0
        BY <2>2 DEF part, Part, size, DirSize
      <3>2. Slice(data, start, 0) = <<>>
        <4>1. Slice(data, start, 0) \in Seq(Byte) /\ Len(Slice(data, start, 0)) = 0
          BY <1>0, <1>7, SliceBytes
        <4>. QED BY <4>1
      <3>. QED BY <3>1, <3>2
    <2>. QED BY <2>1, <2>2
  <1>15. TarItem(data, off) = Item(Name(f.path), part)
    BY <1>8, <1>11, <1>13, <1>14 DEF TarItem
  <1>. QED BY <1>10, <1>12, <1>15 DEF TarReads, part

\* Where the next header is.
TarNext(data, off) ==
    off + HeaderSize + TarSize(data, off) + Padding(TarSize(data, off))

TarOnward(data, off) ==
    /\ TarNext(data, off) = off + TarStride(data, off)
    /\ TarNext(data, off) \in Nat /\ off < TarNext(data, off)
    /\ TarItem(data, off) \in Items /\ off < Len(data)

LEMMA TarGoesOn ==
    ASSUME NEW data \in Seq(Byte), NEW off \in Nat, ~ TarStop(data, off)
    PROVE  TarOnward(data, off)
  <1> DEFINE size == TarSize(data, off)
             n == Len(data)
             after == TarNext(data, off)
             stride == TarStride(data, off)
             pad == Padding(size)
  <1>1. size \in Nat /\ stride \in Nat \ {0} /\ TarItem(data, off) \in Items
    BY TarFacts
  <1>2. HeaderSize \in Nat \ {0} /\ pad \in Nat
    BY <1>1, PaddingIs
  <1>3. stride = HeaderSize + size + pad /\ after = off + HeaderSize + size + pad
    BY DEF TarStride, TarNext
  <1>4. off + HeaderSize <= n /\ n \in Nat
    <2>1. ~ off + HeaderSize > n /\ n \in Nat
      BY DEF TarStop
    <2>. QED BY <1>2, <2>1
  <1> HIDE DEF size, n, after, stride, pad
  <1>5. after = off + stride /\ after \in Nat /\ off < after /\ off < n
    BY <1>1, <1>2, <1>3, <1>4
  <1>. QED BY <1>1, <1>5 DEF TarOnward, n, after, stride

\* What unpacking finds from each offset on.
TarRestAt(f, data, off) ==
    f[off] = IF TarStop(data, off) THEN <<>>
             ELSE <<TarItem(data, off)>> \o f[TarNext(data, off)]

TarRest(f, data) ==
    f \in [Nat -> Seq(Items)] /\ \A off \in Nat : TarRestAt(f, data, off)

LEMMA TarRestExists == ASSUME NEW data \in Seq(Byte) PROVE \E f : TarRest(f, data)
  <1> DEFINE hi == Len(data)
             From(f, k) == /\ f \in [Nat -> Seq(Items)]
                           /\ \A off \in Nat : off + k >= hi => TarRestAt(f, data, off)
             T == {k \in Nat : \E f : From(f, k)}
  <1>0. hi \in Nat
    OBVIOUS
  <1>1. 0 \in T
    <2> DEFINE f == [off \in Nat |-> <<>>]
    <2>1. <<>> \in Seq(Items)
      OBVIOUS
    <2>2. f \in [Nat -> Seq(Items)]
      BY <2>1
    <2>3. ASSUME NEW off \in Nat, off + 0 >= hi PROVE TarRestAt(f, data, off)
      <3>1. TarStop(data, off)
        <4> SUFFICES ASSUME ~ TarStop(data, off) PROVE FALSE
          OBVIOUS
        <4>1. off < hi
          BY TarGoesOn DEF TarOnward
        <4>. QED BY <1>0, <2>3, <4>1
      <3>2. f[off] = <<>>
        OBVIOUS
      <3>. QED BY <3>1, <3>2 DEF TarRestAt
    <2> HIDE DEF f
    <2>4. From(f, 0)
      BY <2>2, <2>3
    <2> HIDE DEF From
    <2>. QED BY <2>4
  <1>2. ASSUME NEW k \in Nat, k \in T PROVE k + 1 \in T
    <2>1. PICK f : From(f, k)
      BY <1>2
    <2>2. f \in [Nat -> Seq(Items)] /\ \A off \in Nat : off + k >= hi => TarRestAt(f, data, off)
      BY <2>1
    <2> SUFFICES \E g : From(g, k + 1)
      <3> HIDE DEF From
      <3>. QED OBVIOUS
    <2>3. CASE k >= hi
      <3>1. \A off \in Nat : off + k >= hi
        BY <1>0, <2>3
      <3>2. From(f, k + 1)
        BY <2>2, <3>1
      <3> HIDE DEF From
      <3>. QED BY <3>2
    <2>4. CASE ~ k >= hi
      <3> DEFINE p == hi - (k + 1)
                 z == <<>>
                 first == IF TarStop(data, p) THEN z
                          ELSE <<TarItem(data, p)>> \o f[TarNext(data, p)]
                 g == [off \in Nat |-> IF off = p THEN first ELSE f[off]]
      <3>1. p \in Nat /\ \A off \in Nat : off + (k + 1) >= hi => off = p \/ off + k >= hi
        BY <1>0, <2>4
      <3>2. \A off \in Nat : off > p => off + k >= hi
        BY <1>0, <2>4
      <3>3. \A off \in Nat : off + k >= hi => off > p
        BY <1>0, <2>4
      <3> HIDE DEF p
      <3>4. first \in Seq(Items)
        <4>1. CASE TarStop(data, p)
          BY <4>1
        <4>2. CASE ~ TarStop(data, p)
          <5>1. TarNext(data, p) \in Nat /\ TarItem(data, p) \in Items
            BY <3>1, <4>2, TarGoesOn DEF TarOnward
          <5>2. f[TarNext(data, p)] \in Seq(Items)
            BY <2>2, <5>1
          <5>3. <<TarItem(data, p)>> \o f[TarNext(data, p)] \in Seq(Items)
            BY <5>1, <5>2
          <5>. QED BY <4>2, <5>3
        <4>. QED BY <4>1, <4>2
      <3> HIDE DEF first
      <3>5. g \in [Nat -> Seq(Items)]
        BY <2>2, <3>4
      <3>6. ASSUME NEW off \in Nat, off + (k + 1) >= hi PROVE TarRestAt(g, data, off)
        <4>1. off >= p
          <5>1. off = p \/ off > p
            BY <3>1, <3>3, <3>6
          <5>. QED BY <3>1, <5>1
        <4>2. ASSUME ~ TarStop(data, off) PROVE g[TarNext(data, off)] = f[TarNext(data, off)]
          <5>1. TarNext(data, off) \in Nat /\ off < TarNext(data, off)
            BY <4>2, TarGoesOn DEF TarOnward
          <5>2. TarNext(data, off) # p
            BY <3>1, <4>1, <5>1
          <5>. QED BY <5>1, <5>2
        <4>3. CASE off = p
          <5>1. g[off] = first
            BY <4>3
          <5> HIDE DEF g
          <5>. QED BY <4>2, <4>3, <5>1 DEF TarRestAt, first
        <4>4. CASE off # p
          <5>1. g[off] = f[off]
            BY <4>4
          <5>2. TarRestAt(f, data, off)
            BY <2>2, <3>1, <3>6, <4>4
          <5> HIDE DEF g
          <5>. QED BY <4>2, <5>1, <5>2 DEF TarRestAt
        <4>. QED BY <4>3, <4>4
      <3> HIDE DEF g
      <3>7. From(g, k + 1)
        BY <3>5, <3>6
      <3> HIDE DEF From
      <3>. QED BY <3>7
    <2>. QED BY <2>3, <2>4
  <1>3. hi \in T
    <2> HIDE DEF T
    <2>. QED BY <1>0, <1>1, <1>2, Induction
  <1>4. PICK f : From(f, hi)
    BY <1>3
  <1>5. \A off \in Nat : off + hi >= hi
    BY <1>0
  <1>6. TarRest(f, data)
    BY <1>4, <1>5 DEF TarRest
  <1>. QED BY <1>6

LEMMA TarRestIs ==
    ASSUME NEW data \in Seq(Byte), NEW f,
           f = [off \in Nat |-> IF TarStop(data, off) THEN <<>>
                                ELSE <<TarItem(data, off)>> \o f[TarNext(data, off)]]
    PROVE  TarRest(f, data)
  <1> DEFINE hi == Len(data)
             T == {k \in Nat : \A off \in Nat : off + k >= hi => f[off] \in Seq(Items)}
  <1>0. hi \in Nat
    OBVIOUS
  <1>1. \A off \in Nat : TarRestAt(f, data, off)
    BY DEF TarRestAt
  <1>2. ASSUME NEW off \in Nat,
               ~ TarStop(data, off) => f[TarNext(data, off)] \in Seq(Items)
        PROVE  f[off] \in Seq(Items)
    <2>1. CASE TarStop(data, off)
      <3>1. f[off] = <<>>
        BY <1>1, <2>1 DEF TarRestAt
      <3>. QED BY <3>1
    <2>2. CASE ~ TarStop(data, off)
      <3>1. f[off] = <<TarItem(data, off)>> \o f[TarNext(data, off)]
        BY <1>1, <2>2 DEF TarRestAt
      <3>2. TarItem(data, off) \in Items
        BY <2>2, TarGoesOn DEF TarOnward
      <3>3. <<TarItem(data, off)>> \o f[TarNext(data, off)] \in Seq(Items)
        BY <1>2, <2>2, <3>2
      <3>. QED BY <3>1, <3>3
    <2>. QED BY <2>1, <2>2
  <1>3. 0 \in T
    <2>1. ASSUME NEW off \in Nat, off + 0 >= hi PROVE f[off] \in Seq(Items)
      <3>1. TarStop(data, off)
        <4> SUFFICES ASSUME ~ TarStop(data, off) PROVE FALSE
          OBVIOUS
        <4>1. off < hi
          BY TarGoesOn DEF TarOnward
        <4>. QED BY <1>0, <2>1, <4>1
      <3>. QED BY <1>2, <3>1
    <2>. QED BY <2>1
  <1>4. ASSUME NEW k \in Nat, k \in T PROVE k + 1 \in T
    <2>1. ASSUME NEW off \in Nat, off + (k + 1) >= hi PROVE f[off] \in Seq(Items)
      <3>1. ASSUME ~ TarStop(data, off) PROVE f[TarNext(data, off)] \in Seq(Items)
        <4> DEFINE after == TarNext(data, off)
        <4>1. after \in Nat /\ off < after
          BY <3>1, TarGoesOn DEF TarOnward
        <4> HIDE DEF after, hi
        <4>2. after + k >= hi
          BY <1>0, <2>1, <4>1
        <4>. QED BY <1>4, <4>1, <4>2 DEF after
      <3>. QED BY <1>2, <3>1
    <2>. QED BY <2>1
  <1>5. hi \in T
    <2> HIDE DEF T
    <2>. QED BY <1>0, <1>3, <1>4, Induction
  <1>6. \A off \in Nat : f[off] \in Seq(Items)
    <2>1. \A off \in Nat : off + hi >= hi
      BY <1>0
    <2>. QED BY <1>5, <2>1
  <1>7. f \in [Nat -> Seq(Items)]
    BY <1>6
  <1>. QED BY <1>1, <1>7 DEF TarRest

LEMMA TarWalk ==
    ASSUME NEW data \in Seq(Byte)
    PROVE  \E rest : TarRest(rest, data) /\ TarUnpack(data) = rest[0]
  <1> DEFINE Body(g) == [off \in Nat |-> IF TarStop(data, off) THEN <<>>
                                         ELSE <<TarItem(data, off)>> \o g[TarNext(data, off)]]
             rest == CHOOSE g : g = Body(g)
  <1>1. TarUnpack(data) = rest[0]
    BY DEF TarUnpack, TarStop, TarEmpty, TarItem, TarNext, TarSize
  <1>2. PICK f : TarRest(f, data)
    BY TarRestExists
  <1>3. f = Body(f)
    <2>1. f \in [Nat -> Seq(Items)] /\ \A off \in Nat : TarRestAt(f, data, off)
      BY <1>2 DEF TarRest
    <2>2. f = [off \in Nat |-> f[off]]
      BY <2>1
    <2>. QED BY <2>1, <2>2 DEF TarRestAt
  <1>4. rest = Body(rest)
    BY <1>3
  <1> HIDE DEF rest
  <1>5. TarRest(rest, data)
    BY <1>4, TarRestIs
  <1>. QED BY <1>1, <1>5

TarPieces(list) == [i \in 1 .. Len(list) |-> TarPiece(list[i])]

TarAt(data, list, f) ==
    LET end == Len(f[Len(list)]) IN
    /\ Len(list) \in Nat /\ data \in Seq(Byte) /\ end \in Nat
    /\ Builds(f, TarPieces(list), Len(list), Byte)
    /\ At(data, 0, f[Len(list)]) /\ At(data, end, Zeros(2 * HeaderSize))
    /\ Len(data) = end + 2 * HeaderSize

LEMMA TarIsAt == ASSUME NEW list, Entries(list) PROVE \E f : TarAt(TarPack(list), list, f)
  <1> DEFINE n == Len(list)
             pieces == TarPieces(list)
             data == TarPack(list)
             b == Zeros(2 * HeaderSize)
  <1>0. n \in Nat
    BY DEF Entries
  <1>1. pieces \in [1 .. n -> Seq(Byte)]
    BY EntryOf, TarPieceBytes DEF TarPieces
  <1>2. PICK f : Builds(f, pieces, n, Byte) /\ FlattenSeq(pieces) = f[n]
    <2> HIDE DEF pieces, n
    <2>. QED BY <1>0, <1>1, FlattenIs
  <1> DEFINE a == f[n]
  <1>3. a \in Seq(Byte) /\ Len(a) \in Nat
    <2>1. n \in 0 .. n /\ f \in [0 .. n -> Seq(Byte)]
      BY <1>0, <1>2 DEF Builds
    <2>. QED BY <2>1
  <1>4. b \in Seq(Byte) /\ Len(b) = 2 * HeaderSize
    <2>1. 2 * HeaderSize \in Nat
      BY PaddingIs
    <2>. QED BY <2>1, ZerosAre
  <1>5. data = a \o b
    BY <1>2 DEF TarPack, TarPieces, TarPiece
  <1> HIDE DEF data, a, b, pieces, n
  <1>6. data \in Seq(Byte) /\ Len(data) = Len(a) + Len(b)
    BY <1>3, <1>4, <1>5, Concatenated
  <1>7. At(data, 0, a) /\ At(data, 0 + Len(a), b)
    <2>1. At(data, 0, a \o b)
      BY <1>5, <1>6, AtSelf
    <2>. QED BY <1>3, <1>4, <2>1, AtParts
  <1>8. At(data, Len(a), b)
    <2>1. 0 + Len(a) = Len(a)
      BY <1>3
    <2>. QED BY <1>7, <2>1
  <1>9. TarAt(data, list, f)
    BY <1>0, <1>2, <1>3, <1>4, <1>6, <1>7, <1>8 DEF TarAt, a, b, pieces, n
  <1>. QED BY <1>9 DEF data

\* What unpacking has found when the first i entries are behind.
TarProgress(rest, list, f, i) ==
    LET found == rest[0]
        more == rest[Len(f[i])] IN
    /\ Len(found) = i + Len(more)
    /\ \A k \in 1 .. Len(more) : found[i + k] = more[k]
    /\ \A j \in 1 .. i : found[j] = Item(Name(list[j].path), Part(list[j]))

LEMMA TarProgressStep ==
    ASSUME NEW list, Entries(list), NEW data, NEW f, TarAt(data, list, f),
           NEW rest, TarRest(rest, data), NEW i \in 1 .. Len(list), TarFits(list[i]),
           TarProgress(rest, list, f, i - 1)
    PROVE  TarProgress(rest, list, f, i)
  <1> DEFINE n == Len(list)
             pieces == TarPieces(list)
             e == list[i]
             off == Len(f[i - 1])
             after == Len(f[i])
             found == rest[0]
             old == rest[off]
             more == rest[after]
             it(j) == Item(Name(list[j].path), Part(list[j]))
  <1>0. /\ n \in Nat /\ data \in Seq(Byte) /\ Builds(f, pieces, n, Byte) /\ At(data, 0, f[n])
        /\ rest \in [Nat -> Seq(Items)] /\ \A o \in Nat : TarRestAt(rest, data, o)
    BY DEF TarAt, TarRest
  <1>1. e \in Entry /\ Sized(e) /\ pieces[i] = TarPiece(e)
    BY EntryOf DEF TarPieces
  <1>2. /\ Len(found) = (i - 1) + Len(old)
        /\ \A k \in 1 .. Len(old) : found[(i - 1) + k] = old[k]
        /\ \A j \in 1 .. i - 1 : found[j] = it(j)
    BY DEF TarProgress
  <1> HIDE DEF pieces, n, e, found, it
  <1>3. after = off + Len(TarPiece(e)) /\ off \in Nat /\ after \in Nat
    <2>1. i \in 1 .. n
      BY DEF n
    <2>2. Grows(f, pieces, i, Byte)
      BY <1>0, <2>1, PrefixFacts
    <2>. QED BY <1>1, <2>2 DEF Grows
  <1>4. At(data, off, TarPiece(e))
    <2>1. i \in 1 .. n
      BY DEF n
    <2>2. At(f[n], off, pieces[i])
      BY <1>0, <2>1, PieceAt
    <2>3. At(data, 0 + off, pieces[i])
      BY <1>0, <2>2, AtWithin
    <2>. QED BY <1>1, <1>3, <2>3
  <1> HIDE DEF off, after
  <1>5. TarReads(data, off, e)
    <2>1. TarFits(e)
      BY DEF e
    <2>. QED BY <1>1, <1>4, <2>1, TarEntryRead
  <1>6. TarNext(data, off) = after
    <2>1. TarNext(data, off) = off + TarStride(data, off)
      BY <1>0, <1>3, <1>5, TarGoesOn DEF TarOnward, TarReads
    <2>. QED BY <1>3, <1>5, <2>1 DEF TarReads
  <1>7. old = <<it(i)>> \o more
    <2>1. TarItem(data, off) = it(i)
      BY <1>5 DEF TarReads, it, e
    <2>2. ~ TarStop(data, off)
      BY <1>5 DEF TarReads
    <2>3. TarRestAt(rest, data, off)
      BY <1>0, <1>3
    <2>. QED BY <1>6, <2>1, <2>2, <2>3 DEF TarRestAt
  <1>8. more \in Seq(Items) /\ it(i) \in Items
    <2>1. more \in Seq(Items)
      BY <1>0, <1>3
    <2>2. TarItem(data, off) \in Items
      BY <1>0, <1>3, <1>5, TarGoesOn DEF TarOnward, TarReads
    <2>. QED BY <1>5, <2>1, <2>2 DEF TarReads, it, e
  <1> HIDE DEF old, more
  <1>9. /\ Len(old) = 1 + Len(more) /\ old[1] = it(i) /\ Len(more) \in Nat
        /\ \A k \in 1 .. Len(more) : old[1 + k] = more[k]
    <2> DEFINE x == it(i)
    <2>1. x \in Items
      BY <1>8
    <2> HIDE DEF x
    <2>2. <<x>> \in Seq(Items) /\ Len(<<x>>) = 1 /\ <<x>>[1] = x
      BY <2>1
    <2>3. /\ Len(<<x>> \o more) = 1 + Len(more) /\ (<<x>> \o more)[1] = x
          /\ Len(more) \in Nat
          /\ \A k \in 1 .. Len(more) : (<<x>> \o more)[1 + k] = more[k]
      BY <1>8, <2>2
    <2>. QED BY <1>7, <2>3 DEF x
  <1>10. Len(found) = i + Len(more)
    <2> DEFINE a == Len(more)
               b == Len(found)
               c == Len(old)
    <2>1. b = (i - 1) + c /\ c = 1 + a /\ a \in Nat
      BY <1>2, <1>9
    <2> HIDE DEF a, b, c
    <2>2. b = i + a
      BY <2>1
    <2>. QED BY <2>2 DEF a, b
  <1>11. ASSUME NEW k \in 1 .. Len(more) PROVE found[i + k] = more[k]
    <2>1. 1 + k \in 1 .. Len(old) /\ (i - 1) + (1 + k) = i + k
      BY <1>9
    <2>. QED BY <1>2, <1>9, <2>1
  <1>12. ASSUME NEW j \in 1 .. i PROVE found[j] = it(j)
    <2>1. CASE j = i
      <3>1. 1 \in 1 .. Len(old) /\ (i - 1) + 1 = i
        BY <1>9
      <3>2. found[i] = old[1]
        BY <1>2, <3>1
      <3>. QED BY <1>9, <2>1, <3>2
    <2>2. CASE j # i
      <3>1. j \in 1 .. i - 1
        BY <2>2
      <3>. QED BY <1>2, <3>1
    <2>. QED BY <2>1, <2>2
  <1>. QED BY <1>10, <1>11, <1>12 DEF TarProgress, found, more, after, it

\* What a tar archive gives back of the first m entries.
TarFound(found, list, m) ==
    /\ found \in Seq(Items) /\ m <= Len(found)
    /\ \A j \in 1 .. m : found[j] = Item(Name(list[j].path), Part(list[j]))

LEMMA TarReadsOn ==
    ASSUME NEW list, Entries(list), NEW m \in 0 .. Len(list), \A j \in 1 .. m : TarFits(list[j])
    PROVE  \E f, rest : /\ TarAt(TarPack(list), list, f) /\ TarRest(rest, TarPack(list))
                        /\ TarUnpack(TarPack(list)) = rest[0]
                        /\ TarProgress(rest, list, f, m)
  <1> DEFINE n == Len(list)
             data == TarPack(list)
  <1>1. PICK f : TarAt(data, list, f)
    BY TarIsAt
  <1>2. n \in Nat /\ data \in Seq(Byte) /\ f[0] = <<>>
    BY <1>1 DEF TarAt, Builds
  <1>3. PICK rest : TarRest(rest, data) /\ TarUnpack(data) = rest[0]
    BY <1>2, TarWalk
  <1> HIDE DEF data
  <1> DEFINE P == {i \in 0 .. m : TarProgress(rest, list, f, i)}
  <1>4. 0 \in P
    <2>1. Len(<<>>) = 0
      OBVIOUS
    <2>2. Len(f[0]) = 0
      BY <1>2, <2>1
    <2>3. rest[0] \in Seq(Items)
      BY <1>3 DEF TarRest
    <2> DEFINE a == rest[0]
    <2>4. Len(a) = 0 + Len(a) /\ \A k \in 1 .. Len(a) : a[0 + k] = a[k]
      <3> HIDE DEF a
      <3>1. Len(a) \in Nat /\ \A k \in 1 .. Len(a) : 0 + k = k
        BY <2>3 DEF a
      <3>. QED BY <3>1
    <2>5. \A j \in 1 .. 0 : FALSE
      OBVIOUS
    <2>6. TarProgress(rest, list, f, 0)
      BY <2>2, <2>4, <2>5 DEF TarProgress
    <2>7. 0 \in 0 .. m
      BY <1>2
    <2>. QED BY <2>6, <2>7
  <1>5. ASSUME NEW i \in 1 .. m, i - 1 \in P PROVE i \in P
    <2>1. i \in 1 .. Len(list) /\ i \in 0 .. m
      BY <1>2
    <2>2. TarFits(list[i]) /\ TarProgress(rest, list, f, i - 1)
      BY <1>5
    <2>3. TarProgress(rest, list, f, i)
      BY <1>1, <1>3, <2>1, <2>2, TarProgressStep
    <2>. QED BY <2>1, <2>3
  <1>6. 0 .. m \subseteq P
    <2>1. m \in Nat
      BY <1>2
    <2> HIDE DEF P
    <2>. QED BY <1>4, <1>5, <2>1, Kept
  <1>7. TarProgress(rest, list, f, m)
    BY <1>2, <1>6
  <1>. QED BY <1>1, <1>3, <1>7 DEF data

\* A tar archive gives back the content of each entry under its name, in order, up to the
\* first that is too large for its header, whatever follows: TarPackStrategy.
THEOREM TarPrefix ==
    ASSUME NEW list, Entries(list), NEW m \in 0 .. Len(list), \A j \in 1 .. m : TarFits(list[j])
    PROVE  TarFound(TarUnpack(TarPack(list)), list, m)
  <1> DEFINE data == TarPack(list)
             found == TarUnpack(data)
  <1>1. PICK f, rest : /\ TarAt(data, list, f) /\ TarRest(rest, data)
                       /\ found = rest[0] /\ TarProgress(rest, list, f, m)
    BY TarReadsOn
  <1> HIDE DEF data, found
  <1>2. Len(f[m]) \in Nat /\ m \in Nat
    <2>1. /\ Len(list) \in Nat /\ f \in [0 .. Len(list) -> Seq(Byte)]
      BY <1>1 DEF TarAt, Builds
    <2>2. f[m] \in Seq(Byte)
      BY <2>1
    <2>. QED BY <2>1, <2>2
  <1>3. rest \in [Nat -> Seq(Items)]
    BY <1>1 DEF TarRest
  <1>4. found \in Seq(Items) /\ rest[Len(f[m])] \in Seq(Items)
    BY <1>1, <1>2, <1>3
  <1> DEFINE a == Len(found)
             b == Len(rest[Len(f[m])])
  <1>5. a = m + b /\ b \in Nat
    BY <1>1, <1>4 DEF TarProgress
  <1> HIDE DEF a, b
  <1>6. m <= a
    BY <1>2, <1>5
  <1>7. \A j \in 1 .. m : found[j] = Item(Name(list[j].path), Part(list[j]))
    BY <1>1 DEF TarProgress
  <1>. QED BY <1>4, <1>6, <1>7 DEF TarFound, a, found, data

\* And nothing else, when every size has room: the two blocks of zeros end it.
THEOREM TarUndone ==
    ASSUME NEW list, Entries(list), \A i \in 1 .. Len(list) : TarFits(list[i])
    PROVE  TarUnpack(TarPack(list)) =
               [i \in 1 .. Len(list) |-> Item(Name(list[i].path), Part(list[i]))]
  <1> DEFINE n == Len(list)
             data == TarPack(list)
             found == TarUnpack(data)
             H == HeaderSize
  <1>0. n \in Nat /\ n \in 0 .. n /\ H \in Nat \ {0}
    <2>1. n \in Nat
      BY DEF Entries
    <2>. QED BY <2>1, PaddingIs
  <1>1. PICK f, rest : /\ TarAt(data, list, f) /\ TarRest(rest, data)
                       /\ found = rest[0] /\ TarProgress(rest, list, f, n)
    BY <1>0, TarReadsOn
  <1> DEFINE end == Len(f[n])
             z == Zeros(H)
  <1>2. /\ data \in Seq(Byte) /\ end \in Nat /\ At(data, end, Zeros(2 * H))
        /\ Len(data) = end + 2 * H
    BY <1>1 DEF TarAt
  <1>3. rest[0] \in Seq(Items) /\ TarRestAt(rest, data, end)
    <2> HIDE DEF end
    <2>. QED BY <1>1, <1>2 DEF TarRest
  <1> HIDE DEF data, found, n, end, H
  <1>4. z \in Seq(Byte) /\ Len(z) = H /\ Zeros(2 * H) = z \o z
    <2>1. z \in Seq(Byte) /\ Len(z) = H /\ \A i \in 1 .. H : z[i] = 0
      <3>1. \A i \in 1 .. H : z[i] = 0
        BY DEF Zeros
      <3>. QED BY <1>0, <3>1, ZerosAre
    <2>2. 2 * H \in Nat /\ 2 * H = H + H
      BY <1>0
    <2>3. /\ Zeros(2 * H) \in Seq(Byte) /\ Len(Zeros(2 * H)) = H + H
          /\ \A i \in 1 .. 2 * H : Zeros(2 * H)[i] = 0
      <3>1. \A i \in 1 .. 2 * H : Zeros(2 * H)[i] = 0
        BY DEF Zeros
      <3>. QED BY <2>2, <3>1, ZerosAre
    <2> HIDE DEF z
    <2>4. /\ z \o z \in Seq(Byte) /\ Len(z \o z) = H + H
          /\ \A i \in 1 .. H : (z \o z)[i] = z[i]
          /\ \A i \in 1 .. H : (z \o z)[H + i] = z[i]
      <3>1. /\ z \o z \in Seq(Byte) /\ Len(z \o z) = Len(z) + Len(z)
            /\ \A i \in 1 .. Len(z) : (z \o z)[i] = z[i]
            /\ \A i \in 1 .. Len(z) : (z \o z)[Len(z) + i] = z[i]
        BY <2>1, Concatenated
      <3>. QED BY <2>1, <3>1
    <2>5. ASSUME NEW i \in 1 .. H + H PROVE Zeros(2 * H)[i] = (z \o z)[i]
      <3>1. Zeros(2 * H)[i] = 0
        BY <2>2, <2>3
      <3>2. CASE i <= H
        <4>1. i \in 1 .. H
          BY <1>0, <3>2
        <4>. QED BY <2>1, <2>4, <3>1, <4>1
      <3>3. CASE ~ i <= H
        <4>1. i - H \in 1 .. H /\ H + (i - H) = i
          BY <1>0, <3>3
        <4>2. (z \o z)[i] = z[i - H]
          BY <2>4, <4>1
        <4>. QED BY <2>1, <3>1, <4>1, <4>2
      <3>. QED BY <3>2, <3>3
    <2>6. Zeros(2 * H) = z \o z
      BY <2>3, <2>4, <2>5, SameBytes
    <2>. QED BY <2>1, <2>6
  <1>5. At(data, end, z) /\ At(data, end + H, z)
    <2>1. At(data, end, z \o z)
      BY <1>2, <1>4
    <2> HIDE DEF z
    <2>2. At(data, end, z) /\ At(data, end + Len(z), z)
      BY <1>4, <2>1, AtParts
    <2>. QED BY <1>4, <2>2
  <1>6. TarStop(data, end)
    <2>1. Slice(data, end, H) = z /\ Slice(data, end + H, H) = z
      <3> HIDE DEF z
      <3>. QED BY <1>4, <1>5, AtSlice
    <2>2. end + H <= Len(data) /\ end + H + H <= Len(data)
      BY <1>0, <1>2
    <2>. QED BY <2>1, <2>2 DEF TarStop, TarEmpty, H
  <1>7. rest[end] = <<>> /\ Len(<<>>) = 0
    BY <1>3, <1>6 DEF TarRestAt
  <1>8. /\ Len(found) = n + Len(rest[end])
        /\ \A j \in 1 .. n : found[j] = Item(Name(list[j].path), Part(list[j]))
    BY <1>1 DEF TarProgress, end
  <1>9. Len(found) = n /\ found \in Seq(Items)
    BY <1>0, <1>1, <1>3, <1>7, <1>8
  <1>10. found = [i \in 1 .. n |-> Item(Name(list[i].path), Part(list[i]))]
    <2>1. found = [i \in 1 .. n |-> found[i]]
      BY <1>9
    <2>. QED BY <1>8, <2>1
  <1>. QED BY <1>10 DEF found, data, n

-----------------------------------------------------------------------------
(* What a restore finds of the files *)

Finds(found, path, content) == Found(found, path) /\ ContentOf(found, path) = content

\* The first item of a path decides.
LEMMA FirstFound ==
    ASSUME NEW found \in Seq(Items), NEW path, NEW content, NEW k \in 1 .. Len(found),
           found[k].path = path, found[k].content = content,
           \A j \in 1 .. k : found[j].path = path => found[j].content = content
    PROVE  Finds(found, path, content)
  <1> DEFINE S == {i \in 1 .. Len(found) : found[i].path = path}
             m == Min(S)
  <1>1. S \in SUBSET Nat /\ S # {} /\ k \in S
    OBVIOUS
  <1>2. Found(found, path)
    BY DEF Found
  <1>3. \A i \in S : i \in Nat /\ found[i].path = path
    OBVIOUS
  <1>4. ContentOf(found, path) = found[m].content
    BY DEF ContentOf
  <1> HIDE DEF S
  <1>5. m \in S /\ m <= k
    BY <1>1, MinIs
  <1>6. m \in 1 .. k
    <2>1. m \in 1 .. Len(found)
      BY <1>5 DEF S
    <2>. QED BY <1>5, <2>1
  <1>7. found[m].content = content
    BY <1>3, <1>5, <1>6
  <1>. QED BY <1>2, <1>4, <1>7 DEF Finds

\* A restore of the raw format refuses a count it does not take for plausible.
LEMMA RawTooMany ==
    ASSUME NEW list, Entries(list), Cardinality(WithContent(list)) > MaxCount,
           Fits(Len(list), W32)
    PROVE  ~ restoreFromRaw(concatFiles(list)).ok
  <1> DEFINE n == Len(list)
             data == concatFiles(list)
             kept == WithContent(list)
             count == Cardinality(kept)
  <1>1. PICK f : RawAt(data, list, f)
    BY RawIsAt
  <1>2. n \in Nat /\ data \in Seq(Byte) /\ At(data, 0, LE(count, W32))
    BY <1>1 DEF RawAt
  <1>3. kept \subseteq 1 .. n
    BY DEF WithContent
  <1>4. W32 \in Nat /\ MaxCount \in Nat /\ count > MaxCount /\ Fits(n, W32)
    <2>1. W32 \in Nat /\ MaxCount \in Nat
      BY RadixFacts, PackingAssumption DEF PackingAssumption
    <2>. QED BY <2>1
  <1> HIDE DEF n, kept, data
  <1>5. count \in Nat /\ count <= n
    <2>1. count \in Nat
      BY <1>2, <1>3, CountIs
    <2>2. IsFiniteSet(1 .. n) /\ Cardinality(1 .. n) = IF 1 > n THEN 0 ELSE n - 1 + 1
      <3>1. 1 \in Int /\ n \in Int
        BY <1>2
      <3>2. IsFiniteSet(1 .. n)
        BY ONLY <3>1, FS_Interval
      <3>3. Cardinality(1 .. n) = IF 1 > n THEN 0 ELSE n - 1 + 1
        BY ONLY <3>1, FS_Interval
      <3>. QED BY <3>2, <3>3
    <2>3. count <= Cardinality(1 .. n)
      BY <1>3, <2>2, FS_Subset
    <2>4. Cardinality(1 .. n) = n
      BY <1>2, <2>2
    <2>. QED BY <2>1, <2>3, <2>4
  <1>6. Num(Slice(data, 0, W32)) = count
    <2> HIDE DEF count
    <2>1. Fits(count, W32)
      BY <1>2, <1>4, <1>5, SmallerFits
    <2>. QED BY <1>2, <1>4, <1>5, <2>1, AtNumber
  <1>7. PICK read : RawWalk(data, read, count)
    BY <1>2, <1>6, RawReads
  <1> HIDE DEF count
  <1>8. /\ read \in [0 .. count -> RawState]
        /\ \A i \in 1 .. count : read[i] = RawStep(data, read[i - 1])
        /\ restoreFromRaw(data) = read[count]
    BY <1>7 DEF RawWalk
  <1> DEFINE P == {i \in 0 .. count : ~ read[i].ok}
  <1>9. 0 \in P
    <2>1. read[0] = [ok |-> Len(data) >= W32 /\ count <= MaxCount, off |-> W32, items |-> <<>>]
      BY <1>7 DEF RawWalk
    <2>2. ~ (count <= MaxCount)
      BY <1>4, <1>5
    <2> DEFINE starts == Len(data) >= W32 /\ count <= MaxCount
    <2>3. starts = FALSE
      BY <2>2
    <2>4. read[0] = [ok |-> starts, off |-> W32, items |-> <<>>]
      BY <2>1
    <2> HIDE DEF starts
    <2>5. ~ read[0].ok
      BY <2>3, <2>4
    <2>. QED BY <1>5, <2>5
  <1>10. ASSUME NEW i \in 1 .. count, i - 1 \in P PROVE i \in P
    <2> DEFINE r == read[i - 1]
    <2>1. ~ r.ok /\ r \in RawState /\ i \in 0 .. count
      <3>1. i - 1 \in 0 .. count /\ i \in 0 .. count
        BY <1>5
      <3>2. ~ r.ok
        BY <1>10
      <3>. QED BY <1>8, <3>1, <3>2
    <2>2. read[i] = RawStep(data, r)
      BY <1>8
    <2> HIDE DEF r
    <2>3. RawStep(data, r) = [r EXCEPT !.ok = FALSE]
      BY <2>1 DEF RawStep
    <2>4. ~ [r EXCEPT !.ok = FALSE].ok
      BY <2>1 DEF RawState
    <2>. QED BY <2>1, <2>2, <2>3, <2>4
  <1>11. 0 .. count \subseteq P
    <2> HIDE DEF P
    <2>. QED BY <1>5, <1>9, <1>10, Kept
  <1>12. ~ read[count].ok
    BY <1>5, <1>11
  <1>. QED BY <1>8, <1>12 DEF data

LEMMA NothingLeft == ASSUME NEW base \in Nat \ {0}, NEW w \in Nat PROVE Shifts(0, base, w)[w] = 0
  <1> DEFINE rest == Shifts(0, base, w)
             P == {i \in 0 .. w : rest[i] = 0}
  <1>1. Left(rest, 0, base, w)
    BY ShiftsStep
  <1> HIDE DEF rest
  <1>2. rest[0] = 0 /\ \A i \in 1 .. w : rest[i] = rest[i - 1] \div base
    BY <1>1 DEF Left
  <1>3. 0 \in P /\ 0 \div base = 0
    BY <1>2
  <1>4. ASSUME NEW i \in 1 .. w, i - 1 \in P PROVE i \in P
    BY <1>2, <1>3, <1>4
  <1>5. 0 .. w \subseteq P
    <2> HIDE DEF P
    <2>. QED BY <1>3, <1>4, Kept
  <1>. QED BY <1>5 DEF rest

\* The payload that is unpacked is the archive that was packed, and every number in it
\* has its width.
Intact(list, data) ==
    /\ Entries(list) /\ PathsOnce(list) /\ data = Archive(list, algos)
    /\ Fits(Len(data), W64) /\ Fits(Len(list), W32)

LEMMA PayloadIntact ==
    ASSUME IInv, Exact, stage \in {"unpacked", "refused"}
    PROVE  Intact(files, bytes)
  <1>1. ~ Oversized /\ ~ Huge /\ ~ Lost
    BY DEF Exact
  <1>2. packed = Archive(files, algos) /\ bytes = Decompressed(squeezed, algos)
    BY <1>1 DEF IInv, BackingUp, Restoring
  <1>3. Decompressed(squeezed, algos) = packed
    BY <1>1, DecompressionUndone
  <1>4. Fits(Len(packed), W64)
    BY <1>1 DEF Huge
  <1>5. Entries(files) /\ PathsOnce(files)
    BY Given, InputAssumption DEF IInv, TypeOK, InputAssumption
  <1>6. Fits(Len(files), W32)
    <2> DEFINE n == Len(files)
               k == Len(serialize(files))
    <2>1. n \in Nat /\ n <= k /\ serialize(files) \in Seq(Byte)
      BY <1>5, MetaPieces
    <2>2. k \in Nat /\ Fits(k, W32)
      BY <1>1, <2>1 DEF Oversized
    <2>3. W32 \in Nat
      BY RadixFacts
    <2> HIDE DEF n, k
    <2>. QED BY <2>1, <2>2, <2>3, SmallerFits DEF n
  <1>. QED BY <1>2, <1>3, <1>4, <1>5, <1>6 DEF Intact

\* A file that the format has room for, and what is found of it.
Fitting(i) == i \in 1 .. Len(files) /\ files[i].type = Regular /\ ~ Unfit(i)

LEMMA RawFinds ==
    ASSUME NEW data, Intact(files, data), algos.pack = 0, restoreFromRaw(data).ok,
           NEW i, Fitting(i)
    PROVE  Finds(restoreFromRaw(data).items, files[i].path, files[i].content)
  <1> DEFINE found == restoreFromRaw(data).items
             kept == WithContent(files)
             n == Len(files)
             it(j) == Item(files[j].path, files[j].content)
  <1>1. /\ Entries(files) /\ PathsOnce(files) /\ data = concatFiles(files)
        /\ Fits(Len(data), W64) /\ Fits(n, W32)
    BY DEF Intact, Archive
  <1>2. n \in Nat
    BY <1>1 DEF Entries
  <1>3. i \in kept /\ i \in 1 .. n /\ kept \subseteq 1 .. n
    BY DEF Fitting, Unfit, WithContent
  <1>4. Cardinality(kept) <= MaxCount
    <2>1. ~ Cardinality(kept) > MaxCount
      BY <1>1, RawTooMany
    <2>2. Cardinality(kept) \in Nat /\ MaxCount \in Nat
      <3>1. MaxCount \in Nat
        BY PackingAssumption DEF PackingAssumption
      <3> HIDE DEF kept, n
      <3>. QED BY <1>2, <1>3, <3>1, CountIs
    <2>. QED BY <2>1, <2>2
  <1>5. RawFound(found, files, n)
    BY <1>1, <1>4, RawUndone
  <1> HIDE DEF found
  <1>6. /\ found \in Seq(Items)
        /\ \A j \in kept : \E k \in 1 .. Len(found) : found[k] = it(j)
        /\ \A k \in 1 .. Len(found) : \E j \in kept : found[k] = it(j)
    <2>1. kept \cap (1 .. n) = kept
      BY <1>3
    <2> HIDE DEF kept
    <2>. QED BY <1>5, <2>1 DEF RawFound, kept
  <1>7. PICK k \in 1 .. Len(found) : found[k] = it(i)
    BY <1>3, <1>6
  <1>8. ASSUME NEW l \in 1 .. k, found[l].path = files[i].path
        PROVE  found[l].content = files[i].content
    <2>1. l \in 1 .. Len(found)
      BY <1>6, <1>7
    <2>2. PICK j \in kept : found[l] = it(j)
      BY <1>6, <2>1
    <2>3. files[j].path = files[i].path
      BY <1>8, <2>2 DEF Item
    <2>4. j = i
      BY <1>1, <1>3, <2>3 DEF PathsOnce
    <2>. QED BY <2>2, <2>4 DEF Item
  <1>9. found[k].path = files[i].path /\ found[k].content = files[i].content
    BY <1>7 DEF Item
  <1>10. Finds(found, files[i].path, files[i].content)
    BY <1>6, <1>8, <1>9, FirstFound
  <1>. QED BY <1>10 DEF found

LEMMA TarFinds ==
    ASSUME NEW data, Intact(files, data), algos.pack = 1, NEW i, Fitting(i)
    PROVE  Finds(TarUnpack(data), files[i].path, files[i].content)
  <1> DEFINE found == TarUnpack(data)
             path == files[i].path
             content == files[i].content
  <1>1. Entries(files) /\ data = TarPack(files)
    BY DEF Intact, Archive
  <1>2. /\ i \in 1 .. Len(files) /\ files[i].type = Regular /\ ~ Len(path) > NameMax
        /\ \A j \in 1 .. i - 1 : Name(files[j].path) # path
        /\ \A j \in 1 .. i : Shifts(Len(files[j].content), Octal, SizeMax)[SizeMax] = 0
    BY DEF Fitting, Unfit
  <1>3. \A j \in 1 .. i : TarFits(files[j])
    <2>1. Octal \in Nat \ {0} /\ SizeMax \in Nat
      BY PackingAssumption DEF PackingAssumption
    <2>2. Shifts(0, Octal, SizeMax)[SizeMax] = 0
      BY <2>1, NothingLeft
    <2>. QED BY <1>2, <2>2 DEF TarFits, DirSize
  <1>4. TarFound(found, files, i)
    <2>1. i \in 0 .. Len(files)
      BY <1>2
    <2>. QED BY <1>1, <1>3, <2>1, TarPrefix
  <1> HIDE DEF found
  <1>5. /\ found \in Seq(Items) /\ i \in 1 .. Len(found)
        /\ \A j \in 1 .. i : found[j] = Item(Name(files[j].path), Part(files[j]))
    <2>1. found \in Seq(Items) /\ i <= Len(found)
          /\ \A j \in 1 .. i : found[j] = Item(Name(files[j].path), Part(files[j]))
      BY <1>4 DEF TarFound
    <2>. QED BY <1>2, <2>1
  <1>6. Name(path) = path
    <2>1. path \in Seq(Byte)
      <3>1. files[i] \in Entry
        BY <1>1, <1>2, EntryOf
      <3>. QED BY <3>1, EntryFacts
    <2> DEFINE m == Min({Len(path), NameMax})
    <2>2. Len(path) \in Nat /\ NameMax \in Nat /\ Len(path) <= NameMax
      <3>1. Len(path) \in Nat /\ NameMax \in Nat
        BY <2>1, PackingAssumption DEF PackingAssumption
      <3>. QED BY <1>2, <3>1
    <2>3. m = Len(path)
      <3> DEFINE S == {Len(path), NameMax}
      <3>1. S \in SUBSET Nat /\ S # {}
        BY <2>2
      <3>2. Min(S) \in S /\ \A x \in S : Min(S) <= x
        BY <3>1, MinIs
      <3>. QED BY <2>2, <3>2
    <2>4. SubSeq(path, 1, Len(path)) = path
      BY <2>1
    <2>. QED BY <2>3, <2>4 DEF Name
  <1>7. found[i].path = path /\ found[i].content = content
    <2>1. found[i] = Item(path, content)
      BY <1>2, <1>5, <1>6 DEF Part
    <2>. QED BY <2>1 DEF Item
  <1>8. ASSUME NEW j \in 1 .. i, found[j].path = path PROVE found[j].content = content
    <2>1. CASE j = i
      BY <1>7, <2>1
    <2>2. CASE j # i
      <3>0. Len(files) \in Nat
        BY <1>1 DEF Entries
      <3>1. j \in 1 .. i - 1
        BY <1>2, <2>2, <3>0
      <3>2. found[j] = Item(Name(files[j].path), Part(files[j]))
        BY <1>5
      <3>3. found[j].path = Name(files[j].path)
        BY <3>2 DEF Item
      <3>. QED BY <1>2, <1>8, <3>1, <3>3
    <2>. QED BY <2>1, <2>2
  <1>9. Finds(found, path, content)
    <2> HIDE DEF path, content
    <2>. QED BY <1>5, <1>7, <1>8, FirstFound
  <1>. QED BY <1>9 DEF found

LEMMA IndexFinds ==
    ASSUME NEW data, Intact(files, data), algos.pack = 2, NEW i, Fitting(i)
    PROVE  Finds(IndexUnpack(data), files[i].path, files[i].content)
  <1> DEFINE found == IndexUnpack(data)
             n == Len(files)
  <1>1. /\ Entries(files) /\ PathsOnce(files) /\ data = IndexPack(files)
        /\ Fits(Len(data), W64) /\ Fits(n, W32)
    BY DEF Intact, Archive
  <1>2. i \in 1 .. n /\ files[i].type = Regular /\ n \in Nat
    BY <1>1 DEF Fitting, Entries
  <1>3. found = [j \in 1 .. n |-> Item(files[j].path, Part(files[j]))]
    BY <1>1, IndexUndone
  <1> HIDE DEF found
  <1>4. found \in Seq(Items) /\ Len(found) = n
    <2>1. ASSUME NEW j \in 1 .. n PROVE Item(files[j].path, Part(files[j])) \in Items
      <3>1. files[j] \in Entry
        BY <1>1, EntryOf
      <3>2. files[j].path \in Seq(Byte) /\ Part(files[j]) \in Seq(Byte)
        BY <3>1, EntryFacts, PartBytes
      <3>. QED BY <3>2 DEF Item, Items
    <2>. QED BY <1>2, <1>3, <2>1
  <1>5. \A j \in 1 .. n : found[j].path = files[j].path /\ found[j].content = Part(files[j])
    BY <1>3 DEF Item
  <1>6. found[i].path = files[i].path /\ found[i].content = files[i].content
    BY <1>2, <1>5 DEF Part
  <1>7. ASSUME NEW j \in 1 .. i, found[j].path = files[i].path
        PROVE  found[j].content = files[i].content
    <2>1. j \in 1 .. n
      BY <1>2
    <2>2. j = i
      BY <1>1, <1>2, <1>5, <1>7, <2>1 DEF PathsOnce
    <2>. QED BY <1>6, <2>2
  <1>8. Finds(found, files[i].path, files[i].content)
    <2>1. i \in 1 .. Len(found)
      BY <1>2, <1>4
    <2>. QED BY <1>4, <1>6, <1>7, <2>1, FirstFound
  <1>. QED BY <1>8 DEF found

\* Every file that its format has room for is found again under its path, with its
\* content, for every list of entries and every combination of strategies; and a restore
\* refuses a backup only for its number of files: the whole of BackupEngine::run and
\* RestoreEngine::run.
THEOREM ContentsStayFound == Spec => []ContentsFound
  <1>1. ASSUME IInv, stage = "refused", Exact PROVE TooMany
    <2> SUFFICES ASSUME ~ TooMany PROVE FALSE
      OBVIOUS
    <2>1. algos.pack = 0 /\ ~ restoreFromRaw(bytes).ok
      BY <1>1 DEF Exact, IInv, Restoring, Refused
    <2>2. Intact(files, bytes)
      BY <1>1, PayloadIntact
    <2>3. Entries(files) /\ bytes = concatFiles(files) /\ Fits(Len(bytes), W64)
      BY <2>1, <2>2 DEF Intact, Archive
    <2>4. Cardinality(WithContent(files)) <= MaxCount
      <3>1. ~ Cardinality(WithContent(files)) > MaxCount
        BY <2>1 DEF TooMany
      <3> DEFINE kept == WithContent(files)
      <3>2. kept \subseteq 1 .. Len(files) /\ Len(files) \in Nat
        BY <2>3 DEF WithContent, Entries
      <3> HIDE DEF kept
      <3>3. Cardinality(kept) \in Nat /\ MaxCount \in Nat
        BY <3>2, CountIs, PackingAssumption DEF PackingAssumption
      <3>. QED BY <3>1, <3>3 DEF kept
    <2>. QED BY <2>1, <2>3, <2>4, RawUndone
  <1>2. ASSUME IInv, stage = "unpacked", Exact, NEW i \in 1 .. Len(files),
               files[i].type = Regular, ~ Unfit(i)
        PROVE  Finds(items, files[i].path, files[i].content)
    <2>1. items = Unpacked(bytes, algos) /\ ~ Refused(bytes, algos)
      BY <1>2 DEF Exact, IInv, Restoring
    <2>2. Intact(files, bytes) /\ Fitting(i)
      BY <1>2, PayloadIntact DEF Fitting
    <2>3. algos.pack \in 0 .. 2
      BY <1>2, Given, SmallBytes DEF IInv
    <2>4. CASE algos.pack = 0
      <3>1. restoreFromRaw(bytes).ok
        BY <2>1, <2>4 DEF Refused
      <3>. QED BY <2>1, <2>2, <2>4, <3>1, RawFinds DEF Unpacked
    <2>5. CASE algos.pack = 1
      BY <2>1, <2>2, <2>5, TarFinds DEF Unpacked
    <2>6. CASE algos.pack = 2
      BY <2>1, <2>2, <2>6, IndexFinds DEF Unpacked
    <2>. QED BY <2>3, <2>4, <2>5, <2>6
  <1>3. IInv => ContentsFound
    BY <1>1, <1>2 DEF ContentsFound, Finds
  <1>. QED BY <1>3, BackupInvariant, PTL
=============================================================================
