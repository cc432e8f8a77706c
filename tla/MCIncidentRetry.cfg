\* One process; a call dies in a step and release() decides the run.
SPECIFICATION Spec
CONSTANTS
    Steps <- PipelineSteps
    Sources <- PipelineSources
    Deps <- PipelineDeps
    Order <- PipelineOrder
    SourceOrder <- PipelineSourceOrder
    Paths <- PipelinePaths
    PathOf <- PipelinePathOf
    Registered <- PipelineSteps
    ArityOK <- PipelineSteps
    Refused <- NoSteps
    Outcomes <- AnyOutcome
    Verdicts = {TRUE, FALSE}
    Workers = {w1}
    MayOverlap = FALSE
    MaxCrashes = 1
\* A run whose start_run() died is nobody's: the system may stop there.
CHECK_DEADLOCK FALSE
INVARIANTS
    RetryOnlyInterrupted
