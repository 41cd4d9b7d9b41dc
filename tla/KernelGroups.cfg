SPECIFICATION Spec
CONSTANTS
    MaxNesting = 6
    MinRun = 2
    LastDay = 3
    MaxDepth = 4
    Models <- theModels
    Fields <- theFields
    AccessRows <- theRows
    BoundBy <- theBound
    AccessParents <- theParents
    CompanyAnchor <- theAnchors
    Inherits <- theInherits
    HeldBy <- heldBy
    UserModel = "user"
    CompanyModel = "company"
    Requests <- groupedRequests
    Database <- theDatabase
    Trigram = TRUE
    Exported = TRUE
    Registered <- registered
    RuledModels <- Ruled
    Admit <- Admission
    Seeds <- ReachableSeeds
    RulesFor <- compiledRules
    Reach <- ReachedBy
    Reply <- AnswerOf
    Picks <- Selection
    Visible <- VisibleRecords
    Renders <- RendersReadably
    Comes <- Precedes
    KeysOf <- ReadableKeys
    MayGroup <- MayBeKey
    Silent <- Unreported
INVARIANT GroupedRowsObeyRules
