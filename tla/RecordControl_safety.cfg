SPECIFICATION Spec
CONSTANTS
    Requests = {r1, r2}
    Sessions = {s1, s2}
    Captures = {c1}
    Folders = {f1, f2}
    Layouts = {l1, l2}
    NoSession = NoSession
    Free = Free
INVARIANTS
    NoneOrphaned
    OneFolder
