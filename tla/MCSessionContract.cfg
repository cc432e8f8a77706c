\* /release after /revise and /approve.
SPECIFICATION Spec
CONSTANTS
    Rules <- OrdersRules
    MaxRevisions = 1
    MaxPlans = 1
    MaxRuns = 1
    MaxFaults = 0
\* A process that left a torn index.json cannot be started again.
CHECK_DEADLOCK FALSE
INVARIANTS
    ReleasedForItsContract
