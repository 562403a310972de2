SPECIFICATION FairSpec
CONSTANTS
    k1 = k1
    k2 = k2
    c1 = c1
    c2 = c2
    Keys = {k1, k2}
    Codes = {c1, c2}
    Garbage = Garbage
    Builds = {b1, b2}
    NoBuild = NoBuild
    Default <- MCDefault
    NSlots = 3
    LogSize = 13
    RecordSizes <- MCRecordSizes
INVARIANTS TypeOK PersistedIsDurable WholeImage CommitChangesOneKey
PROPERTIES FrozenAfterFailure SaveSettles ImplementsStore
