-------------------------- MODULE IncidentRecovery --------------------------
(***************************************************************************)
(* IncidentRecoveryAgent and orchestrator.diagnose_incident(): the one     *)
(* safe action proposed for a run, read off its record and the rows of its *)
(* steps as RunOrchestrator leaves them.  The diagnosis changes nothing.   *)
(*                                                                         *)
(* A row keeps no error code here, so a FAILED step may carry any.  The    *)
(* agent looks at the first such row; serialised calls leave one at most.  *)
(***************************************************************************)
EXTENDS RunOrchestrator, TLC

DataCodes == {"SCHEMA_MISSING", "SCHEMA_DRIFT", "JOIN_UNSAFE",
              "DATA_QUALITY_BLOCK", "VALIDATION_FAIL", "RECONCILIATION_FAIL",
              "PREDICTION_UNSUPPORTED", "EVIDENCE_INSUFFICIENT"}

LogicCodes == {"REQ_AMBIGUOUS", "REQ_MISSING", "SEMANTIC_UNGOVERNED",
               "VERIFICATION_FAIL", "MODEL_OUTPUT_INVALID", "NO_SAFE_OPERATION"}

(* _FAILURE_CLASS_BY_CODE; any other code, or none, is UNKNOWN.            *)
FailureClasses == [c \in DataCodes |-> "DATA"] @@ [c \in LogicCodes |-> "LOGIC"]
                    @@ [c \in {"POLICY_DENIED"} |-> "SECURITY"]
                    @@ [c \in {"EXTERNAL_WRITE_UNVERIFIED"} |-> "EXTERNAL_SIDE_EFFECT"]

FailureClass(code) ==
    IF code \in DOMAIN FailureClasses THEN FailureClasses[code] ELSE "UNKNOWN"

Codes == DOMAIN FailureClasses \cup {"OTHER"}

Advice(action, step) == [action |-> action, from |-> step]

Nowhere == "none"

(* _diagnose_failed_step(); approved: the caller passes a rollback policy  *)
(* that is not the placeholder.                                            *)
AdviceOnFailure(code, approved) ==
    IF FailureClass(code) = "UNKNOWN" THEN Advice("ESCALATE", Nowhere)
    ELSE IF FailureClass(code) = "SECURITY" THEN Advice("STOP", Nowhere)
    ELSE IF FailureClass(code) = "EXTERNAL_SIDE_EFFECT"
    THEN Advice(IF approved THEN "ROLLBACK" ELSE "STOP", Nowhere)
    ELSE Advice("QUARANTINE", Nowhere)

FailedSteps  == {s \in Steps : rec[s] = "FAILED"}
StalledSteps == {s \in Steps : rec[s] = "RUNNING"}

(* _diagnose(), without the escalation: what may be answered.              *)
FirstAdvice(approved) ==
    IF FailedSteps # {} THEN {AdviceOnFailure(code, approved) : code \in Codes}
    ELSE IF StalledSteps # {} THEN {Advice("RETRY", s) : s \in StalledSteps}
    ELSE {Advice("STOP", Nowhere)}

(* _ESCALATION_THRESHOLD                                                   *)
Threshold == 3

(* diagnose(): above the threshold every answer about a step escalates.    *)
Diagnoses(priorFailures, approved) ==
    IF priorFailures >= Threshold /\ FailedSteps \cup StalledSteps # {}
    THEN {Advice("ESCALATE", Nowhere)}
    ELSE FirstAdvice(approved)

Answers == UNION {Diagnoses(n, approved) : n \in {0, Threshold}, approved \in BOOLEAN}

Quiet == \A w \in Workers : pc[w] = "idle"

Retried == {a.from : a \in {b \in Answers : b.action = "RETRY"}}
-----------------------------------------------------------------------------
(* RETRY on a RUNNING run is advice that works: no step of it has failed,  *)
(* the step it names is the one run() takes up next, everything before it  *)
(* is COMPLETED, and its inputs can be read ("run() is crash-safe and will *)
(* only re-execute this step").                                            *)
RetryResumes ==
    Quiet /\ runState = "RUNNING" =>
        \A s \in Retried :
            /\ FailedSteps = {}
            /\ \A n \in Deps[s] : Readable(n)
            /\ \A i \in 1..Len(Order) :
                 rec[Order[i]] # "COMPLETED" =>
                     \E j \in 1..i : Order[j] = s

(* What the agent's docstring says of a stalled step: that its run is not  *)
(* in a terminal state, so that calling run() again executes it.           *)
RetryOnlyInterrupted ==
    Quiet /\ Retried # {} => runState \notin ReleaseTerminal
=============================================================================
