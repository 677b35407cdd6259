SPECIFICATION FairSpec
CONSTANTS
    f1 = f1  f2 = f2  plain = plain  targeted = targeted  r1 = r1  r2 = r2
    i1 = i1  i2 = i2  w1 = w1  w2 = w2  c1 = c1  c2 = c2
    NoSegment = NoSegment  Absent = Absent  Nowhere = Nowhere
    Flags = {f1}
    Data = {plain}
    Targeted = {}
    Rules = {}
    Instances = {i1, i2}
    Writers = {w1, w2}
    Home <- HomeApart
    Clients = {c1}
    RxCapacity = 2
    MaxRevision = 1
    Faults = {"early_connect"}
    MaxFaults = 0
CHECK_DEADLOCK FALSE
PROPERTY Converges
