---------------------------- MODULE GovernedRuns ----------------------------
(***************************************************************************)
(* The runs of one requirement contract from the policy gate to the        *)
(* released result, and their automation: start_run(),                     *)
(* start_automated_run(), run(), release() and build_automation() of       *)
(* workflow/orchestrator.py, with what decides in them in ReleaseChecks    *)
(* and DriftMonitor.  One run at a time; its stores and its deaths are in  *)
(* RunOrchestrator, here a run carries its records and files along.        *)
(*                                                                         *)
(* The callers hold the plan and the contract, and the scheduler the       *)
(* automation with the baseline profiles; sources change between runs and  *)
(* the plan may be made again.  The contract keeps its id.  What an        *)
(* operation writes is not trusted: any of Frames.                         *)
(***************************************************************************)
EXTENDS ReleaseChecks, DriftMonitor

CONSTANTS
    Contracts,   \* requirement contracts
    Workflows,   \* plans for them
    Sources,     \* datasets
    Profiles,    \* profiles a source may have
    Frames,      \* frames an operation may write
    Grants,      \* sets of approvals a caller may hold
    MaxRuns      \* bound on the runs started

Ids(w) == {s.id : s \in StepsOf(w)}

(* validate_dag() accepted the plans: distinct ids, none of them that of a *)
(* source, and inputs that are sources or earlier steps.  An empty plan is *)
(* left aside.                                                             *)
ASSUME WorkflowsAssumption ==
    \A w \in Workflows :
        /\ w.steps \in Seq(StepsOf(w))
        /\ w.steps # << >>
        /\ w.sources \subseteq Sources
        /\ Sources \cap Ids(w) = {}
        /\ \A i, j \in DOMAIN w.steps :
              w.steps[i].id = w.steps[j].id => i = j
        /\ \A s \in StepsOf(w) : s.inputs \in Seq(w.sources \cup Ids(w))
        /\ \A i \in DOMAIN w.steps : \A k \in DOMAIN w.steps[i].inputs :
              \/ w.steps[i].inputs[k] \in w.sources
              \/ \E j \in 1 .. i - 1 : w.steps[i].inputs[k] = w.steps[j].id

(* Numbers are numbers.                                                    *)
ASSUME ProfilesAssumption ==
    \A p \in Profiles :
        /\ p.rows \in Nat
        /\ \A name \in DOMAIN p.columns :
              /\ p.columns[name].nulls \in Nat
              /\ p.columns[name].latest \in Nat

ASSUME FramesAssumption == \A f \in Frames : f.rows \in Nat

ASSUME BoundAssumption == MaxRuns \in Nat

VARIABLES
    contract,   \* the requirement contract
    workflow,   \* the plan the callers hold
    data,       \* source -> profile
    spec,       \* the AutomationSpec, the baseline kept with it, the data
                \* the automation was agreed on
    run,        \* the last run
    answer,     \* the last ReleaseResult for it
    started     \* runs so far

vars == <<contract, workflow, data, spec, run, answer, started>>

NoRun == [state |-> "none"]

NoAnswer == [decision |-> "none", full |-> {}]

NoSpec == [kept |-> FALSE]

Over == {"none", "RELEASED", "QUARANTINED"}

Init == /\ contract \in Contracts
        /\ workflow \in Workflows
        /\ data \in [Sources -> Profiles]
        /\ spec = NoSpec
        /\ run = NoRun
        /\ answer = NoAnswer
        /\ started = 0
-----------------------------------------------------------------------------
(* check_drift() of the sources with a baseline, and what start_run()      *)
(* makes of it.                                                            *)
Drifted(baseline) ==
    {s \in DOMAIN baseline :
        AutomationAction(DriftStatus(Changes(baseline[s], data[s]))) # "CONTINUE"}

(* start_run(): drift, policy gate, then the run is RUNNING with its       *)
(* sources locked and stored.  approved and agreed are not the code's:     *)
(* they keep which workflow and which data somebody approved for this run. *)
Start(terms, granted, baseline, approved, agreed) ==
    /\ run.state \in Over
    /\ started < MaxRuns
    /\ Drifted(baseline) = {}
    /\ Proceeds(workflow, terms, granted)
    /\ \E f \in [workflow.sources -> Frames] :
          run' = [state |-> "RUNNING", workflow |-> workflow,
                  locked |-> workflow.sources, done |-> {}, frames |-> f,
                  approved |-> approved, agreed |-> agreed,
                  data |-> data]
    /\ started' = started + 1
    /\ answer' = NoAnswer
    /\ UNCHANGED <<contract, workflow, data>>

NoBaseline == [s \in {} |-> data[s]]

(* The contract is optional to both entry points.                          *)
StartRun ==
    /\ \E terms \in {NoTerms, Terms(contract)}, granted \in Grants :
          Start(terms, granted, NoBaseline, workflow, NoBaseline)
    /\ UNCHANGED spec

(* VersionPins: the last step of an operation gives its version.           *)
LastOf(w, op) == w.steps[CHOOSE i \in DOMAIN w.steps :
                            /\ w.steps[i].op = op
                            /\ \A j \in DOMAIN w.steps :
                                  w.steps[j].op = op => j <= i]

Pins(w) == [version |-> w.version,
            operations |-> [op \in OperationsOf(w) |-> LastOf(w, op).ver]]

(* start_automated_run() compares the versions; an operation without a pin *)
(* passes.                                                                 *)
MatchesPins(w, pins) ==
    /\ w.version = pins.version
    /\ \A s \in StepsOf(w) : s.op \in DOMAIN pins.operations
                                => pins.operations[s.op] = s.ver

AutomatedStart ==
    /\ spec.kept
    /\ MatchesPins(workflow, spec.pins)
    /\ \E terms \in {NoTerms, Terms(contract)}, granted \in Grants :
          Start(terms, granted, spec.baseline, spec.from, spec.agreed)

(* Mutant: the data a run was let start on becomes the next baseline.      *)
StartAutomatedRunRebaselining ==
    /\ AutomatedStart
    /\ spec' = [spec EXCEPT !.baseline = [s \in DOMAIN @ |-> data[s]]]

StartAutomatedRun == AutomatedStart /\ UNCHANGED spec
-----------------------------------------------------------------------------
NextStep(r) == r.workflow.steps[
                 CHOOSE i \in DOMAIN r.workflow.steps :
                    /\ r.workflow.steps[i].id \notin r.done
                    /\ \A j \in 1 .. i - 1 : r.workflow.steps[j].id \in r.done]

Unfinished(r) == ~(Ids(r.workflow) \subseteq r.done)

(* run(): a step's artifact is saved, a resumed one's again, before its    *)
(* record.                                                                 *)
SaveStep ==
    /\ run.state = "RUNNING"
    /\ Unfinished(run)
    /\ \E f \in Frames :
          run' = [run EXCEPT !.frames =
                    [n \in DOMAIN @ \cup {NextStep(run).id} |->
                        IF n = NextStep(run).id THEN f ELSE @[n]]]
    /\ UNCHANGED <<contract, workflow, data, spec, answer, started>>

CompleteStep ==
    /\ run.state = "RUNNING"
    /\ Unfinished(run)
    /\ NextStep(run).id \in DOMAIN run.frames
    /\ run' = [run EXCEPT !.done = @ \cup {NextStep(run).id}]
    /\ UNCHANGED <<contract, workflow, data, spec, answer, started>>

(* _fail_step_and_quarantine()                                             *)
FailStep ==
    /\ run.state = "RUNNING"
    /\ Unfinished(run)
    /\ run' = [run EXCEPT !.state = "QUARANTINED"]
    /\ UNCHANGED <<contract, workflow, data, spec, answer, started>>

FinishRun ==
    /\ run.state = "RUNNING"
    /\ ~Unfinished(run)
    /\ run' = [run EXCEPT !.state = "VERIFYING"]
    /\ UNCHANGED <<contract, workflow, data, spec, answer, started>>

(* release(), at any time.  It loads the artifact of every step and fails  *)
(* without one.                                                            *)
Release ==
    /\ run # NoRun
    /\ Ids(run.workflow) \subseteq DOMAIN run.frames
    /\ LET decision == Decision(contract, run.workflow, run)
       IN  /\ answer' = [decision |-> decision,
                         full |-> FullScores(contract, run.workflow, run)]
           /\ run' = IF run.state \in Over THEN run
                     ELSE [run EXCEPT !.state = IF decision = "RELEASE"
                                                THEN "RELEASED" ELSE "QUARANTINED"]
    /\ UNCHANGED <<contract, workflow, data, spec, started>>
-----------------------------------------------------------------------------
(* build_automation(), called as its comment says with a workflow that     *)
(* reached RELEASED; the caller keeps the profiles of the sources it       *)
(* chooses to watch.  from and agreed are not the code's.                  *)
BuildAutomation ==
    /\ run.state = "RELEASED"
    /\ \E watched \in SUBSET run.workflow.sources :
          LET profiles == [s \in watched |-> run.data[s]]
          IN  spec' = [kept |-> TRUE, pins |-> Pins(run.workflow),
                       baseline |-> profiles,
                       from |-> run.workflow, agreed |-> profiles]
    /\ UNCHANGED <<contract, workflow, data, run, answer, started>>

(* The environment: a new plan, and sources that change between runs.      *)
Replan ==
    /\ ReadyForPlanning(contract)
    /\ run.state \in Over
    /\ workflow' \in Workflows \ {workflow}
    /\ UNCHANGED <<contract, data, spec, run, answer, started>>

SourceChanges ==
    /\ run.state \in Over
    /\ \E s \in Sources : \E p \in Profiles \ {data[s]} :
          data' = [data EXCEPT ![s] = p]
    /\ UNCHANGED <<contract, workflow, spec, run, answer, started>>

Next == \/ StartRun \/ StartAutomatedRun
        \/ SaveStep \/ CompleteStep \/ FailStep \/ FinishRun
        \/ Release \/ BuildAutomation
        \/ Replan \/ SourceChanges

Spec == Init /\ [][Next]_vars
-----------------------------------------------------------------------------
Nodes == Sources \cup UNION {Ids(w) : w \in Workflows}

Partial(S, T) == UNION {[D -> T] : D \in SUBSET S}

Runs == [state : {"RUNNING", "VERIFYING", "RELEASED", "QUARANTINED"},
         workflow : Workflows, locked : SUBSET Sources, done : SUBSET Nodes,
         frames : Partial(Nodes, Frames), approved : Workflows,
         agreed : Partial(Sources, Profiles), data : [Sources -> Profiles]]

TypeOK ==
    /\ contract \in Contracts
    /\ workflow \in Workflows
    /\ data \in [Sources -> Profiles]
    /\ run \in Runs \cup {NoRun}
    /\ run # NoRun =>
          /\ run.done \subseteq Ids(run.workflow)
          /\ run.done \cup run.workflow.sources \subseteq DOMAIN run.frames
          /\ run.state \in {"VERIFYING", "RELEASED"} => ~Unfinished(run)
    /\ spec = NoSpec \/ /\ spec.kept
                         /\ spec.from \in Workflows
                         /\ spec.baseline \in Partial(Sources, Profiles)
                         /\ spec.agreed \in Partial(Sources, Profiles)
    /\ answer = NoAnswer \/ /\ answer.decision \in {"RELEASE", "QUARANTINE"}
                             /\ answer.full \subseteq Dimensions
    /\ started \in 0 .. MaxRuns

(* The inductive invariant: TypeOK, what a released run passed, what a     *)
(* RELEASE says of the scores, that the baseline stays what it was agreed  *)
(* to be, and what a start checked of the data.                            *)
ReleasedPassed ==
    run.state = "RELEASED" =>
        /\ contract.prohibited \cap OperationsOf(run.workflow) = {}
        /\ Uncovered(contract, run.workflow, run.done) = {}
        /\ ReconciliationStatus(contract, run.workflow, run.frames) = "PASS"

(* A result that used an operation its contract prohibits is never         *)
(* released, even when the run was started without the contract and the    *)
(* policy gate could not know.                                             *)
ProhibitedNeverReleased ==
    run.state = "RELEASED" =>
        contract.prohibited \cap OperationsOf(run.workflow) = {}

(* In a released run no conserving step lost rows, and the subtotals of a  *)
(* sum metric add up to the total of its input when the last step that     *)
(* refers to the metric is an aggregate, whatever the operations wrote and *)
(* whichever steps claim the metric before it.                             *)
ReleasedIsAccountedFor ==
    run.state = "RELEASED" =>
        /\ \A s \in StepsOf(run.workflow) :
              (s.op \in ConservingOps /\ Len(s.inputs) = 1) =>
                  run.frames[s.id].rows >= run.frames[s.inputs[1]].rows
        /\ \A m \in contract.sums : \A i \in Covering(run.workflow, m) :
              (/\ run.workflow.steps[i].op = "aggregate"
               /\ \A j \in Covering(run.workflow, m) : j <= i)
              => m \notin run.frames[run.workflow.steps[i].id].unbalanced

(* explain(), which looks at the first step that refers to a metric, has   *)
(* something to say about every metric of a released run.                  *)
ExplainsEveryMetric ==
    run.state = "RELEASED" =>
        Explained(contract, run.workflow, run.done) = contract.metrics

(* No dimension of the confidence report of a released run is averaged     *)
(* away: they all score 1.0.                                               *)
ReleasedScoresAreFull ==
    answer.decision = "RELEASE" => answer.full = Dimensions

BaselineIsAgreed == spec.kept => spec.baseline = spec.agreed

(* Data an automated run works on honours the profiles of the released run *)
(* its automation was built from (automation_builder.py:112, "the approved *)
(* baseline"), however many automated runs and small changes lie between.  *)
ReplayedOnApprovedData ==
    run.state # "none" =>
        \A s \in DOMAIN run.agreed : Honours(run.agreed[s], run.data[s])

IInv == TypeOK /\ ReleasedPassed /\ ReleasedScoresAreFull
               /\ BaselineIsAgreed /\ ReplayedOnApprovedData

(* An automated run executes the workflow its automation was approved for. *)
ReplayIsApproved ==
    run.state # "none" => run.workflow = run.approved
=============================================================================
