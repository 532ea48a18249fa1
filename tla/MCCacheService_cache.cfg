SPECIFICATION Spec
CONSTANTS
    r1 = r1
    r2 = r2
    r3 = r3
    e1 = e1
    e2 = e2
    e3 = e3
    k1 = k1
    k2 = k2
    None = None
    Requests = {r1, r2, r3}
    Entries = {e1, e2, e3}
    Keys = {k1, k2}
    Arguments <- MCArguments
    OnDisk = {"none", "expired"}
    MaxProfileChanges = 1
CHECK_DEADLOCK FALSE
INVARIANTS TypeOK EntryOutlivesUsers OneWriter SomeoneToWaitFor
