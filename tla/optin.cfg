\* Two accounts, three reads of a hook.
SPECIFICATION Spec
CONSTANTS
    Account = {a1, a2}
    None = None
    MaxReads = 3
SYMMETRY Symmetry
INVARIANTS
    TypeOK
    OnlyOvertakenReadsMislead
