SPECIFICATION Spec
CONSTANTS
    WriteOps = {"export"}
    ConservingOps = {"cast", "derive", "export"}
    TemporalTypes = {"Date"}
    Contracts <- MCContracts
    Workflows <- MCWorkflows
    Sources = {"orders"}
    Profiles <- TwoProfiles
    Frames <- MCFrames
    Grants = {{}, {"export", "mail"}}
    MaxRuns = 2
INVARIANT
    ReplayIsApproved
