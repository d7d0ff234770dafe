SPECIFICATION Spec
CONSTANTS
    Collection = {c1}
    NoCollection = NoCollection
    Writer = {w1}
    Thread = {t1, t2}
    Freezer = {f1, f2}
    Publisher = {f1, f2}
    Temp = {p1, p2}
    NoTemp = NoTemp
    Blank = Blank
    Record <- MCRecord
    Vector = {v1, v2}
    Initial = {"absent", v1}
    NoManifest = NoManifest
    MaxRequests = 2
    MaxSnapshots = 2
    MaxCrashes = 1
INVARIANTS
    FrozenIsClosed
    ServedIsFrozen
    OneLineage
    SnapshotBacked
    ReportedStays
PROPERTIES
    CloseReturns
