---------------------------- MODULE ReleaseChecks ---------------------------
(***************************************************************************)
(* What decides whether a run may start and whether its result may be      *)
(* released: PolicyGate, ValidationRuleGenerator and its executor,         *)
(* ReconciliationAgent, IndependentVerifier, ReleaseGate and               *)
(* ConfidenceScorer (compiler/, validation/), as functions of              *)
(*                                                                         *)
(*  a contract  [metrics, sums, unclear, open, sources, status, notNull,   *)
(*               prohibited, approvals, effects, tests]: sums are the      *)
(*               metrics with a sum(...) formula, unclear the AMBIGUOUS    *)
(*               and MISSING ones, open says that a clarification is       *)
(*               open, notNull that a column has null policy "error";      *)
(*  a workflow  [version, sources, steps, gates, tests], the steps in      *)
(*               execution order, each [id, op, inputs, refs, columns,     *)
(*               summed, grouped]: refs are its requirement_refs, columns  *)
(*               the metrics its params name a column for, summed those    *)
(*               among them it computes with fn sum;                       *)
(*  frames      node id -> [rows, faults, unbalanced]: faults are the      *)
(*               single-frame checks that fail on it, a metric standing    *)
(*               for the dual computation of its column, unbalanced the    *)
(*               metrics whose subtotals miss the total of the input.      *)
(***************************************************************************)
EXTENDS Integers, Sequences, FiniteSets

CONSTANTS
    WriteOps,        \* DEFAULT_APPROVAL_REQUIRED_OPERATIONS
    ConservingOps    \* _ROW_CONSERVING_OPERATIONS

StepsOf(w) == {w.steps[i] : i \in DOMAIN w.steps}

OperationsOf(w) == {s.op : s \in StepsOf(w)}

(* RequirementContract._enforce_no_guessing().                             *)
Blocked(c) == c.unclear # {} \/ c.open \/ c.sources = {}

Status(c) == IF Blocked(c) THEN "BLOCKED" ELSE c.status

ReadyForPlanning(c) == Status(c) = "APPROVED"
-----------------------------------------------------------------------------
(* PolicyGate.evaluate().  A caller without a contract has no terms.       *)
Terms(c) == [prohibited |-> c.prohibited, approvals |-> c.approvals,
             effects |-> c.effects]

NoTerms == [prohibited |-> {}, approvals |-> {}, effects |-> {}]

GateNames(w, terms) ==
    terms.approvals \cup terms.effects \cup w.gates \cup OperationsOf(w)

RequiredApprovals(w, terms) ==
    (OperationsOf(w) \cap WriteOps)
      \cup terms.approvals \cup terms.effects \cup w.gates

Proceeds(w, terms, granted) ==
    /\ terms.prohibited \cap GateNames(w, terms) = {}
    /\ RequiredApprovals(w, terms) \subseteq granted
-----------------------------------------------------------------------------
(* Positions of the steps that refer to a metric; covering_step keeps the  *)
(* last of them, explain() takes the first.                                *)
Covering(w, m) == {i \in DOMAIN w.steps : m \in w.steps[i].refs}

FirstCovering(w, m) ==
    w.steps[CHOOSE i \in Covering(w, m) : \A j \in Covering(w, m) : i <= j]

LastCovering(w, m) ==
    w.steps[CHOOSE i \in Covering(w, m) : \A j \in Covering(w, m) : j <= i]

(* ValidationRuleGenerator.generate(): [check, frame] of the rules that    *)
(* have a check function; a rule without one is recorded as passed.  Every *)
(* rule is BLOCKING.                                                       *)
NullPolicyRules(c, w) ==
    IF c.notNull THEN {[check |-> "null_rate",
                        frame |-> w.steps[Len(w.steps)].id]}
                 ELSE {}

ReconciliationRules(c, w) ==
    {[check |-> m, frame |-> LastCovering(w, m).inputs[1]] :
        m \in {m \in c.sums : /\ Covering(w, m) # {}
                              /\ m \in LastCovering(w, m).columns
                              /\ Len(LastCovering(w, m).inputs) = 1}}

SchemaRules(w) ==
    {[check |-> "schema", frame |-> s.id] :
        s \in {s \in StepsOf(w) : s.op = "validate_schema"}}

Rules(c, w) ==
    NullPolicyRules(c, w) \cup ReconciliationRules(c, w) \cup SchemaRules(w)

(* ValidationRuleExecutor: a check that raises has failed.                 *)
Failing(c, w, frames) == {r \in Rules(c, w) : r.check \in frames[r.frame].faults}
-----------------------------------------------------------------------------
(* ReconciliationAgent.reconcile()                                         *)
RowTests(w) == {s \in StepsOf(w) : s.op \in ConservingOps /\ Len(s.inputs) = 1}

RowsLost(w, frames) ==
    {s \in RowTests(w) : frames[s.id].rows < frames[s.inputs[1]].rows}

(* The sum metrics whose last covering step is an aggregate; any other     *)
(* metric is passed over.                                                  *)
Aggregated(c, w) ==
    {m \in c.sums : Covering(w, m) # {} /\ LastCovering(w, m).op = "aggregate"}

Reconcilable(c, w) ==
    {m \in Aggregated(c, w) : LET s == LastCovering(w, m)
                              IN  s.grouped /\ Len(s.inputs) = 1 /\ m \in s.columns}

Unbalanced(c, w, frames) ==
    {m \in Reconcilable(c, w) : m \in frames[LastCovering(w, m).id].unbalanced}

ReconciliationStatus(c, w, frames) ==
    IF RowsLost(w, frames) # {} \/ Unbalanced(c, w, frames) # {} THEN "FAIL"
    ELSE IF Aggregated(c, w) \subseteq Reconcilable(c, w) THEN "PASS"
    ELSE "UNAVAILABLE"
-----------------------------------------------------------------------------
(* IndependentVerifier.verify() of a run [state, locked, done, frames]:    *)
(* locked are the sources with a snapshot id, done the COMPLETED steps.    *)
(* Operations always report evidence, and one whose own reconciliation     *)
(* fails raises, so only an aggregate with a sum reports reconciliations,  *)
(* and they all passed.                                                    *)
UncoveredSums(c, w, done) ==
    {m \in c.sums : \A i \in Covering(w, m) : w.steps[i].id \notin done}

Uncovered(c, w, done) ==
    {m \in c.metrics : \A i \in Covering(w, m) : w.steps[i].id \notin done}

EvidenceDefects(c, w, run) ==
    {<<"unlocked", x>> : x \in w.sources \ run.locked}
    \cup {<<"incomplete", s.id>> : s \in {s \in StepsOf(w) : s.id \notin run.done}}
    \cup {<<"uncovered", m>> : m \in Uncovered(c, w, run.done)}
    \cup {<<"dropped test", t>> : t \in c.tests \ w.tests}

Defects(c, w, run) ==
    EvidenceDefects(c, w, run)
    \cup {<<"prohibited", op>> : op \in c.prohibited \cap OperationsOf(w)}
    \cup (IF c.open THEN {<<"clarification", TRUE>>} ELSE {})

HasReconciliationEvidence(w, run) ==
    \E s \in StepsOf(w) :
        s.id \in run.done /\ s.op = "aggregate" /\ s.summed # {}

Verdict(c, w, run) ==
    IF Defects(c, w, run) # {} THEN "FAIL"
    ELSE IF c.sums # {} /\ ~HasReconciliationEvidence(w, run) THEN "NEEDS_REVIEW"
    ELSE "PASS"
-----------------------------------------------------------------------------
(* ReleaseGate.decide(): the conditions that do not hold, of the run, the  *)
(* contract and the verifier, and of the two reports.                      *)
ReasonsOfRun(c, w, run) ==
    {r \in {"state", "status", "readiness", "verifier"} :
        \/ r = "state" /\ run.state # "VERIFYING"
        \/ r = "status" /\ Status(c) # "APPROVED"
        \/ r = "readiness" /\ ~ReadyForPlanning(c)
        \/ r = "verifier" /\ Verdict(c, w, run) # "PASS"}

Reasons(c, w, run) ==
    ReasonsOfRun(c, w, run) \cup
    {r \in {"validation", "reconciliation"} :
        \/ r = "validation" /\ Failing(c, w, run.frames) # {}
        \/ r = "reconciliation"
             /\ ReconciliationStatus(c, w, run.frames) # "PASS"}

Decision(c, w, run) ==
    IF Reasons(c, w, run) = {} THEN "RELEASE" ELSE "QUARANTINE"

(* ConfidenceScorer.score(): the dimensions that score 1.0.                *)
Dimensions == {"requirements", "data_quality", "execution", "validation",
               "reconciliation", "verification"}

FullScores(c, w, run) ==
    {d \in Dimensions :
        \/ d = "requirements" /\ ~c.open /\ c.sources # {}
                              /\ c.metrics \cap c.unclear = {}
        \/ d = "data_quality" /\ \A r \in Failing(c, w, run.frames) :
                                     r.check \notin {"null_rate", "schema"}
        \/ d = "execution" /\ \A s \in StepsOf(w) : s.id \in run.done
        \/ d = "validation" /\ Failing(c, w, run.frames) = {}
        \/ d = "reconciliation"
             /\ ReconciliationStatus(c, w, run.frames) = "PASS"
        \/ d = "verification" /\ Defects(c, w, run) = {}}

(* The metrics explain() has something to say about.                       *)
Explained(c, w, done) ==
    {m \in c.metrics : Covering(w, m) # {} /\ FirstCovering(w, m).id \in done}
=============================================================================
