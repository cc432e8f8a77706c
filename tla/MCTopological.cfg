\* All small workflows, valid or not.
SPECIFICATION FairSpec
CONSTANTS
    Ids <- FourIds
    SourceRefs <- OneSource
    Refs <- SmallRefs
    Workflows <- SmallWorkflows
    Before <- Alphabetical
\* The function returns or raises.
CHECK_DEADLOCK FALSE
INVARIANTS
    AcceptedOrderIsValid
    RefusedHasNoOrder
    OrderIsCanonical
PROPERTIES
    Answers
