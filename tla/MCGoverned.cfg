SPECIFICATION Spec
CONSTANTS
    WriteOps = {"export"}
    ConservingOps = {"cast", "derive", "export"}
    TemporalTypes = {"Date"}
    Contracts <- MCContracts
    Workflows <- MCWorkflows
    Sources = {"orders"}
    Profiles <- MCProfiles
    Frames <- MCFrames
    Grants = {{}, {"export", "mail"}}
    MaxRuns = 3
INVARIANTS
    ProhibitedNeverReleased
    ReleasedIsAccountedFor
    ExplainsEveryMetric
    ReplayedOnApprovedData
CONSTRAINT
    Explored
