SPECIFICATION FairSpec
CONSTANTS
    Requests = {r1, r2, r3}
    Size = 2
    NoConn = noconn
INVARIANTS
    SlotsConserved
    StartsOutsideTransaction
    CancelHitsNobodyElse
PROPERTIES
    Served
    LeasesEnd
