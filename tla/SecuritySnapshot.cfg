SPECIFICATION Spec
CONSTANTS
    Cursors = {c1, c2}
    Users = {u1}
    Nobody = nobody
    Shared = shared
    SecTables = {groups}
    OtherTables = {assets}
    Registry = registry
    MaxIdentities = 1
    MaxChanges = 2
    ForeignTables = {assets, registry}
    SuperModes = {FALSE}
    MaxForeign = 1
SYMMETRY Symmetry
INVARIANTS
    ServedCoversSignals
    ServedAtOwnWatermark
    TaintedUntilSignalled
    SharedStateDurable
    RuleCacheBounded
    ServedFromOwnMap
PROPERTY StampKeepsContent
