SPECIFICATION Spec
CONSTANTS
    w1 = w1  w2 = w2  f1 = f1  f2 = f2  r1 = r1  r2 = r2
    NoSegment = NoSegment  Absent = Absent  Nobody = Nobody  Same = Same
    Writers = {w1, w2}
    Flags = {f1, f2}
    Fields = {"rules"}
    Values = {1}
    Rules = {r1}
    Kinds = {"promote", "archive", "delete", "segment"}
    MaxRevision = 4
    Targeted <- UsesSegment
CHECK_DEADLOCK FALSE
SYMMETRY SwapWriters
INVARIANT OnlyPrunersDeadlock
