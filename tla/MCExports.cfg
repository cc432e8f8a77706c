\* Three exports, two to one file; one process that dies three times and always resumes.
SPECIFICATION ExportFairSpec
CONSTANTS
    Steps <- ReportSteps
    Sources <- OrdersOnly
    Deps <- ReportDeps
    Order <- ReportOrder
    SourceOrder <- OneSource
    Paths <- ReportPaths
    PathOf <- ReportPathOf
    Registered <- ReportSteps
    ArityOK <- ReportSteps
    Refused <- NoSteps
    Outcomes <- HandledOutcome
    Verdicts = {TRUE, FALSE}
    Workers = {w1}
    MayOverlap = FALSE
    MaxCrashes = 3
    Exports <- ReportExports
    Destinations <- ReportFiles
    Destination <- ReportDestination
    Product <- ReportProduct
    Foreign = "foreign"
INVARIANTS
    VerificationIsRight
    FinishedRunsDelivered
PROPERTIES
    DeliveredOnce
    RunResolves
