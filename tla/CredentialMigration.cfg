CONSTANTS
    Procs = {p1, p2}
    Profiles = {f1, f2}
    OneKeys = {}
    Sources = {s1, s2}
    Targets = {t1, t2}
    NoRef = NoRef
    NoProc = NoProc
    Dialers = {f1}
    MaxEdits = 1
    MaxLost = 1
    Windows = {}
SPECIFICATION Spec
SYMMETRY Symmetry
VIEW WithoutStaleViews
CHECK_DEADLOCK FALSE
INVARIANTS NoDangling Recoverable
PROPERTIES SparesConnecting
