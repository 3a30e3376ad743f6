\* Two processes, two documents and an uninstall in one directory.
CONSTANTS
    Procs = {p, q}
    Documents = {old, new}
    Inodes = {i1, i2, i3, i4}
    Torn = Torn
    None = None
SYMMETRY Interchangeable
VIEW Remembered
SPECIFICATION Spec
INVARIANTS
    SafeFSTypeOK
    OneHolder
PROPERTIES
    ImplementsAtomicFile
