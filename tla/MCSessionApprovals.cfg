\* Two rules, approved one after the other.
SPECIFICATION Spec
CONSTANTS
    Rules <- OrdersRules
    MaxRevisions = 0
    MaxPlans = 1
    MaxRuns = 1
    MaxFaults = 0
\* A process that left a torn index.json cannot be started again.
CHECK_DEADLOCK FALSE
INVARIANTS
    UnresolvedCanBeApproved
