\* Revisions, re-plans, two runs, and two deaths or failed writes.
SPECIFICATION Spec
CONSTANTS
    Rules <- OrdersRules
    MaxRevisions = 1
    MaxPlans = 2
    MaxRuns = 2
    MaxFaults = 2
\* A process that left a torn index.json cannot be started again.
CHECK_DEADLOCK FALSE
INVARIANTS
    ApprovalsAreCurrent
    RunsHonourApprovals
    ExecutedRunsAreLinked
PROPERTIES
    VerdictsStand
