SPECIFICATION MCSpec
CONSTANTS
    f1 = f1  f2 = f2  s1 = s1  c1 = c1  https = https  deleted = deleted  scheduled = scheduled  Absent = Absent  None = None  Nobody = Nobody
    Same = Same  Unclaimed = Unclaimed
    Flags = {f1, f2}
    Data <- Switch
    Proposals <- SwitchOn
    Requests = {r1}
    Jobs = {0, 1, 2}
    Users = {u1, u2}
    Admins = {u1}
    Handlers = {h1, h2}
    Schedulers = {s1, s2}
    Batch = 2
    MaxFaults = 1
    Webhooks = {w1}
    Chats = {c1, c2}
    Kinds = {updated, deleted}
    Updated = updated
    Scheduled = scheduled
    Addresses = {https, http}
    Plaintext = {http}
    Missing = Missing
    Deleted = Deleted
    MaxAttempts = 2
    Keep = 1
    MaxEvents = 2
    MaxEdits = 1
    MaxMishaps = 1
INVARIANT TypeOK NothingBehindTheBack DeliveryTypeOK WhoWantsIsTried
PROPERTY Implements FourEyes DueJobsRun
CHECK_DEADLOCK FALSE
