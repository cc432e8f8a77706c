\* One join step of each kind, reviewed and run on small frames.
SPECIFICATION Spec
CONSTANTS
    NULL = NULL
    Null = NULL
    Fold <- LowerCase
    Workflows <- ReviewedJoins
    LeftFrames <- SomeOrders
    RightFrames <- SomeCustomers
    LaterLeft <- NewOrders
    LaterRight <- NewCustomers
    Requests <- Callers
\* A run ends when its last step has.
CHECK_DEADLOCK FALSE
INVARIANTS
    TypeOK
    DecisionsHold
    RowsMultiplyAsDeclared
    SumsSurviveTheJoin
    DeduplicatedKeysAreUnique
