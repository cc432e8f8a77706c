\* Plans, approvals and runs of API and library callers over two datasets.
SPECIFICATION Spec
CONSTANTS
    NULL = NULL
    Null = NULL
    Fold <- LowerCase
    MoneyTerms <- Money
    Dimensions <- Governed
    Definitions <- SomeDefinitions
    MaterialTerms <- Material
    DateBuckets <- Buckets
    Normal <- Normalize
    Mentions <- Meaning
    Extractions <- SomeExtractions
    Readers <- ReportAndCompare
    Contracts <- SomeRequirements
    Snapshots <- OrdersAndCustomers
    Later <- OnlyOrdersChange
\* A run ends when its last step has.
CHECK_DEADLOCK FALSE
INVARIANTS
    TypeOK
    CleanedAsApproved
    OnlyCopiesAreDropped
    EachRowIsReadOnce
    TextsAreUnified
    UnblockedIsFit
    NothingGuessed
