\* Serialised calls from two processes, each of which may die.
SPECIFICATION Spec
CONSTANTS
    Steps <- PipelineSteps
    Sources <- PipelineSources
    Deps <- PipelineDeps
    Order <- PipelineOrder
    SourceOrder <- PipelineSourceOrder
    Paths <- PipelinePaths
    PathOf <- PipelinePathOf
    Registered <- PipelineSteps
    ArityOK <- PipelineSteps
    Refused <- NoSteps
    Outcomes <- AnyOutcome
    Verdicts = {TRUE, FALSE}
    Workers = {w1, w2}
    MayOverlap = FALSE
    MaxCrashes = 2
\* A run whose start_run() died is nobody's: the system may stop there.
CHECK_DEADLOCK FALSE
INVARIANTS
    TypeOK
    CompletedHasArtifact
    RecordsFollowOrder
    CertifiedMeansDone
    RetryResumes
PROPERTIES
    CompletedIsFinal
    ArtifactsImmutable
    ImplementsLifecycle
