\* Up to two entries with every combination of strategies and two passwords. A
\* restore that has ended does nothing.
SPECIFICATION Spec
CONSTANTS
    Radix = 8
    Bits = 3
    W16 = 1
    W32 = 2
    W64 = 3
    WFreq = 1
    Mult = 5
    Inc = 3
    Discard = 2
    Xor <- MCXor
    NameMax = 2
    SizeMax = 2
    Octal = 3
    Signature = 13
    MaxCount = 2
    Magic = 42
    Version = 1
    Inputs <- MCInputs
    Passwords <- MCPasswords
CHECK_DEADLOCK FALSE
INVARIANTS
    HeaderExact
    CipherUndone
    CompressionUndone
    ContentsFound
