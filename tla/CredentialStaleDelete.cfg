CONSTANTS
    Procs = {p1}
    Profiles = {f1}
    OneKeys = {}
    Sources = {s1}
    Targets = {t1, t2}
    NoRef = NoRef
    NoProc = NoProc
    Dialers = {}
    MaxEdits = 3
    MaxLost = 0
    Windows = {"staleDelete"}
SPECIFICATION Spec
CHECK_DEADLOCK FALSE
INVARIANT NoDangling
