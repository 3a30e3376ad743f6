\* What the security document promises of the lock.
CONSTANTS
    Procs = {p, q}
    Documents = {old}
    Inodes = {i1, i2, i3}
    Torn = Torn
    None = None
SYMMETRY Interchangeable
VIEW Remembered
SPECIFICATION Spec
INVARIANTS
    LockExcludes
