SPECIFICATION Spec
CONSTANTS
    Inodes = {f1, f2}
    Values = {a, b}
    MaxChanges = 2
    None = None
INVARIANTS TypeOK StateType ReadInvariant QuietInvariant
