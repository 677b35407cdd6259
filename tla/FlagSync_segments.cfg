SPECIFICATION Spec
CONSTANTS
    f1 = f1  f2 = f2  plain = plain  targeted = targeted  r1 = r1  r2 = r2
    i1 = i1  i2 = i2  w1 = w1  w2 = w2  c1 = c1  c2 = c2
    NoSegment = NoSegment  Absent = Absent  Nowhere = Nowhere
    Flags = {f1}
    Data = {plain, targeted}
    Targeted = {targeted}
    Rules = {r1}
    Instances = {i1}
    Writers = {w1, w2}
    Home <- HomeTogether
    Clients = {c1}
    RxCapacity = 1
    MaxRevision = 2
    Faults = {"connection", "publish", "cancel", "segment_load", "crash"}
    MaxFaults = 2
CHECK_DEADLOCK FALSE
SYMMETRY SameInstance
INVARIANT NothingLost RevisionNamesData
