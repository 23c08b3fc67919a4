\* Two processes, two names with two passwords: the same name twice, and
\* another name to lose.
SPECIFICATION Spec
CONSTANTS
    Names = {ann, bob}
    Passwords = {p, q}
    Sessions = {s1, s2}
    MaxRegistrations = 3
    Faults = {"open", "write"}
SYMMETRY Symmetry
INVARIANTS
    UsersKept
    
