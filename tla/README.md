# TLA+ models of DataAutomation (dataos)

DataAutomation turns an analyst's request into a *requirement contract*, plans a
workflow of typed operations over locked data sources, executes it step by step
with durable evidence, and releases the result only when independent checks
pass. This directory holds TLA+ specifications of its control logic, the TLC
configurations that model-check them, and TLAPS proofs about them. Paths such as
`workflow/orchestrator.py` are below `src/src/dataos/`.

Check one model with `tlc -config MCSession.cfg MCAnalystSession`, one proof with
`tlapm AnalystSessionProofs.tla`. `PROJECT.json` ties every definition to the
lines it translates and lists runs, mutants, hazards, findings and theorems.

## 1. The system

| part | code | state | operations |
|---|---|---|---|
| run store, state machine | `workflow/store.py`, `state_machine.py` | SQLite, autocommit per statement: `runs.state`, one `step_runs` row per node | `create_run`, `update_run_state` (select, check edge, update), `upsert_step_run` |
| artifact store | `workflow/artifact_store.py` | one parquet file per (run, node), node id with `:` replaced by `_` | `save` (writes in place), `load_by_ids` |
| orchestrator | `workflow/orchestrator.py` | none of its own, only the two stores | `start_run`, `run`, `release`, and wrappers that load artifacts and call an agent |
| workflow DSL | `workflow/dsl.py` | none | `validate_dag`, `execution_order` |
| HTTP API, session store | `api/app.py`, `api/store.py` | an index in memory, written whole to `index.json` | create, revise, approve, plan, approve-cleaning-rules, start, release, explain, incident, result |
| requirement contract | `contracts/requirement_contract.py` | version, status, assumptions, sources | a validator that turns an unready contract to BLOCKED |
| release checks | `compiler/release_gate.py`, `independent_verifier.py`, `reconciliation_agent.py`, `confidence_scorer.py`, `validation/` | none | pure verdicts on contract, evidence and artifacts |
| policy gate, automations, drift | `compiler/policy_gate.py`, `automation_builder.py`, `schema_drift_monitor.py` | pinned versions | `build_automation`, `start_automated_run` |
| incident agent | `compiler/incident_recovery_agent.py` | none | diagnosis of step records |
| ingestion | `ingestion/` | content-addressed raw copies, one parsed frame per dataset | `ingest_file`, parse strictly or permissively, `profile_dataset` |
| operation registry | `registry/` | registered operations by name and version, files outside the store (`export`) | lookup, execute one (join, deduplicate, aggregate, clean, export ...) |
| requirement compiler | `compiler/requirement_compiler.py`, `semantic_resolver.py`, `ambiguity_gate.py` | none | extraction to contract: governed, user's formula, or a question |
| mapping, quality, cleaning agents | `compiler/schema_mapping_agent.py`, `data_quality_assessor.py`, `cleaning_strategy_agent.py` | none | contract and profiles to mappings, issues, cleaning rules |
| join safety reviewer | `compiler/join_safety_reviewer.py`, `validation/checks/` | none | a join step and profiles or frames to a decision |
| connector planner | `compiler/connector_planner.py` | none | plans exports, verifies what they wrote |
| other agents, LLM clients, desktop wrapper | `compiler/`, `llm/`, `desktop/` | none, or a thread | classification, text generation, waiting for `/health` |

**How they interact.** The API calls the orchestrator synchronously inside one
handler; the orchestrator talks to the two stores through separate commits and
remembers nothing between calls, so the stores *are* the protocol between a call
that died and the next one. The session index and the run store are not updated
together: a run exists before the contract's record links to it. `release()`
reads the run, recomputes every check from artifacts, and writes last. What agents
say before a run (mappings, issues, rules, a join review) is about the data as
profiled then; the run works on the data as locked at its start. An `export`
writes outside every store, where others write too.

**What is hard.** A process can die between any two commits and must be able to
resume (`workflow/orchestrator.py:3-24`); nothing is held between a check and the
write that depends on it (`store.py:137-143`); `/revise`, `/approve`, `/plan`,
`/approve-cleaning-rules`, `/start` and `/release` can be called in any order and
act on what the record holds *now*; `index.json` is truncated before it is
rewritten; the execution order is recomputed at each resume. `PROJECT.json`
"hazards" lists each of these at its line.

**What makes each part correct.**
- Stores and orchestrator: a COMPLETED record has its whole artifact and is
  final; records follow the execution order; only listed edges of the state
  machine are written; VERIFYING and RELEASED imply that all is done; a run that
  is resumed leaves RUNNING.
- DSL: an accepted order lists every step once, after its inputs, and depends on
  the graph alone; a workflow that is refused for a cycle has no order; it always answers.
- Session: approvals stand beside the plan they were given for; no run starts
  with a lossy rule unapproved or missing from its steps; a run that did anything is on record, whatever failed on the way; a verdict is never changed.
- Release checks: what is released has no prohibited operation, loses no rows,
  its subtotals add up, every metric is explained and every score is full,
  whichever checks an earlier stage could not make.
- Automations: the workflow that runs is the approved one, and the data it runs
  on honours the profiles it was approved with, however many runs lie between.
- Incidents: a RETRY names a step that resuming the run really executes next.
- Exports: a finished run delivered each export once and holds the checksum of what
  it delivered; a write is verified exactly if it is there and its own.
- Ingestion: every snapshot somebody holds is a whole copy of its bytes, its frame
  can be read, and an answered upload is on record for good.
- Requirements: no metric, term or date of a plan was guessed.
- Mapping, quality, cleaning: steps read their sources cleaned by the approved rules
  and no other; each different row is read, and read once; a plan that does not block fits
  the data.
- Joins: what the review foretold holds of the run on the same data; rows multiply
  only as the step declares, whatever the data, and no sum changes unnoticed.

## 2. Modules

### RunLifecycle
The abstract run: `runState` moves along the edges of `_ALLOWED_TRANSITIONS`
(`AllowedTransitions`), `done` is the set of nodes with a final result. A node
becomes done once, while RUNNING, after its inputs; VERIFYING and RELEASED need
all steps done. No crashes, files or records.

### RunOrchestrator
One run as `start_run()`, `run()` and `release()` change it. One action is one
durable read or write, or the decision between two; `Crash(w)` may happen between
any two and resets only the worker's place in the code.

| variable | code |
|---|---|
| `runState` | `runs.state`; `NO_RUN` before `create_run` |
| `rec` | `step_runs.status` per node; `NONE` without a row |
| `file` | the parquet file at each path: absent, torn while written, or the node saved there last |
| `handedOut` | `start_run()` has returned the (random) id, so somebody can name the run |
| `pc`, `cursor`, `target`, `held` | a worker's position, loop index, pending `new_state`, and the run record `release()` read |

`CreateRun` to `ReturnRunId` is `start_run()` after its checks (they leave no
trace when they refuse). `CallRun` to `AllStepsDone` is the loop of `run()`:
`SkipCompleted` is the resume test, `LookUp` the registry and arity checks,
`LoadInputs` the loads and the export guard, then RUNNING, execute, artifact,
COMPLETED, in the order of the code; `RecordFailure` is the FAILED record followed
by the QUARANTINED state, two commits. `CheckTransition`/`WriteState` are
`update_run_state()`. `Reconcile` and `Decide` are `release()`: what it must be able to
load, and its verdict, of which the conditions on run state and steps are
modelled and the rest is the oracle `Verdicts`, which `ReleaseChecks` details. What an operation does is
`Outcomes[s]`: succeed, raise PlatformError, or raise something else.

`RunLifecycle` is instantiated with `done` = the nodes that are COMPLETED with
their own file on disk.

### TopologicalOrder
`validate_dag()` and `execution_order()`: duplicates, unknown inputs, then layers
of unblocked steps, each emitted in sorted order (one id per action). Its theorem
`OrderIsValid` is what `RunOrchestrator` assumes of `Order` (`OrderAssumption`); `Depth` and
`ByDepthThenName` say which of the valid orders it is.

### AnalystSession
One contract behind the API. `index` is the store's record in memory, `disk` is
`index.json` (`Torn` from the truncation to the end of `_save()`), `runs` the runs
created, each with the workflow, rules and approvals it was started with. A
contract is its version and what keeps it from being ready, a workflow the
version it was planned from and the cleaning steps put on it. The handlers do not await,
so one process runs them one after another; `/start` is four actions (create,
link, save, execute) because the process may die between them and because a call in
it may raise with the process alive: `StartRaises` is a `start_run()` that has made the run
and fails then, `SaveFails` a write of `index.json` that raises, after the memory has changed.
Both leave a run nobody executes. A run is reduced to its
outcome; `RunOrchestrator` details it. An approval is kept with the number of the
plan it was given for, which the code does not store: a ghost the property
`ApprovalsAreCurrent` needs.

### IncidentRecovery
`IncidentRecoveryAgent` and `diagnose_incident()` over the records
`RunOrchestrator` leaves: `FailureClasses` is the table of failure codes, `Diagnoses`
what the agent may answer for a number of earlier failures and a rollback policy,
approved or not. A record keeps no code in the model, so a failed step may carry any.

### ExternalWrites
Exports, around `RunOrchestrator`: every action of that module (`Orchestrate`) also
says what it does to these variables.

| variable | code |
|---|---|
| `world` | what each destination holds: a product, someone else's file, torn, absent |
| `wrote`, `sum` | where a worker is between opening, closing and hashing its file; the checksum it holds |
| `evidence` | the checksum in the record of an export |

`OpenFile` and `CloseFile` are `ExportOperation.run()`; a death between them leaves a torn
file. `OthersWrite` is anybody else, at any time but while an export is between opening
and hashing. `WriteVerified` is `ConnectorWritePlanner._verify_one()`. The window between closing and
hashing is therefore not interleaved with other writers.

### DatasetStore
From an uploaded file to a record in the session store.

| variable | code |
|---|---|
| `raw`, `parquet` | the copies `raw/<sha>/<name>` and the parsed frames: absent, torn, whole |
| `index`, `disk`, `torn`, `up` | the dataset records in memory and in `index.json`, and whether the process runs |
| `pc`, `job`, `used` | what is being done for which file, and the temporary names handed out |
| `versions`, `answered`, `rewriting` | ghosts: what was returned to callers, and whose frame an unanswered upload may have spoilt |

`Upload`, `OpenCopy`/`CloseCopy`/`ReuseCopy`, `Parse`, `OpenFrame`/`CloseFrame`, `Record`,
`CloseIndex` are the handler in its order; `Ingest` and `ReturnVersion` are a caller of
`ingest_file()`, who uses the name of his own file again and again. `OtherSave` is the whole-index
write every other handler ends with. `Raise` is a step that fails and leaves its
file as it is, `Crash` a death. Parsers are what they accept (`Parses`).
SHA-256 is taken to be injective, and a caller does not change his file between
the hash and the copy.

### Frames, DataFitness, RequirementIntake, Cleaning
`Frames` has data frames (a type per column, a sequence of rows) and what every part
computes of them: profiles, duplicate groups, deduplicate, the row pairs of a join,
unmatched keys. `DataFitness` has the three agents as functions of contract and profiles:
`Mappings`, `Issues`, `Propose`, `PlanBlocking`. Its dictionary is a set of fields per term, so that
two dictionary dimensions with one `source_field`, AMBIGUOUS in the code
(`schema_mapping_agent.py:192-197`), count as one: the model lets more through, and what
`UnblockedIsFit` says holds of all of it. A term with a dot in it, which the code takes for a dataset and
a column (`:157`), is a term with that one field in the dictionary here. `RequirementIntake` has what turns an
extraction into a contract: `Resolution` of a term, the questions of the ambiguity gate,
`Compile`, and the validator (`Validated`).

`Cleaning` composes them into a requirement on its way to a run.

| variable | code |
|---|---|
| `caller` | the API, or library code that brings its own contract and may hold old profiles |
| `contract`, `plan`, `blocking` | the requirement, its cleaning plan, and what the plan review said |
| `workflow`, `approved` | the planned steps with the cleaning steps put under them, and the rules applied, in order |
| `sources`, `profiles` | the data, and what was profiled of it |
| `frames` | the locked sources and the frames of executed steps |
| `phase` | new, drafted, planned, running, failed |

`CreateRequirement` to `ApproveCleaningRules` are the handlers; the last is
`apply_cleaning_rules()` with its refusals and its rewiring of the readers. `ExecuteStep` runs
text cleaning and deduplication on rows; a planned step keeps the frames it read, for
`CleanedAsApproved` to compare. The API puts the deduplicate step of a dataset before its text
cleaning, so two rows that differ in the case or the blanks of an approved column alone stay two
rows and look the same afterwards; no doc says what should become of them, and `EachRowIsReadOnce`
says what does. Deaths and revisions of a planned contract are left to
`RunOrchestrator` and `AnalystSession`.

### JoinSafety
One join from its review to its use: `ReviewJoins` is `review_joins()` with the data the
caller has (both frames, one, none), `SourceChanges` a new snapshot between review and start,
then `Deduplicate`, `Join` and `AggregateJoined` are the operations with their
preconditions, evidence and refusals. A joined frame is its set of row pairs, 0 standing
for a missing partner. What the review and the run compute differently in the code (a
profile against groups, Polars joins against counters) is computed differently
here, so that `DecisionsHold` compares them. Match rates and factors are quotients of the same counts on both sides
and decide only about warnings; section 5 has the one case where they differ.

### DriftMonitor, ReleaseChecks
Pure operators. `DriftMonitor` is `SchemaDriftMonitor.compare()`: the changes between two
profiles, their status, and what an automation does about it. `ReleaseChecks` is the
rest of what decides: the policy gate, the validation rules and which of them
fail, the reconciliation report, the verifier's defects and verdict, the gate's reasons, the
dimensions of the confidence report that score 1.0, and the metrics `explain()`
covers. A contract, a plan and a frame are records of what these
functions tell apart (the module's header lists the fields): a column or a metric is a name, a
predicate is whether it fails on a frame. The two ways the code picks *the* step of
a metric, the last in a `covering_step` dictionary and the first of a list in `explain()`, are
`LastCovering` and `FirstCovering`.

### GovernedRuns
The operations around them, for one contract id.

| variable | code |
|---|---|
| `contract`, `workflow` | what the callers hold and pass to every call |
| `data` | the profile of each source, as `profile_dataset` would find it now |
| `spec` | the `AutomationSpec` with its `VersionPins`, and the baseline profiles its scheduler keeps; `from` and `agreed` are ghosts, the workflow it was built from and the profiles of that run's data |
| `run` | the last run with its records (`done`), its artifacts (`frames`) and locked sources; `approved`, `agreed` and `data` are ghosts: the workflow and the profiles somebody approved for it, and the profiles of its start |
| `answer` | the last `ReleaseResult`: decision and full scores |

`StartRun` and `StartAutomatedRun` are the two entry points, with or without a contract, both
through `Start`: drift, policy gate, locked sources. `SaveStep`, `CompleteStep`,
`FailStep` and `FinishRun` are `run()`; what an operation writes is any of
`Frames`, so nothing about a released result holds because operations are
correct. `Release` computes all reports and the decision and may be called at any time.
`Replan` and `SourceChanges` are the environment: plans are made again and data
drifts between runs. Deaths and torn files are left to `RunOrchestrator`, whose
stores are folded into `run` here. The plan and contract given to `release()` are those
of the run; that the API may pass others is `AnalystSession`'s subject.

Four simplifications: a plan lists its steps in execution order (the code iterates
`workflow.steps`, and only the terminal step of `validate()` depends on the execution order); the
columns a metric names exist in its frames (else the report is UNAVAILABLE or the check
fails, and nothing is released); an operation's own evidence is never empty, and one whose own
reconciliation fails raises; callers hand over a frame for every source that has a
baseline.

## 3. Runs

| run | question | result |
|---|---|---|
| `orchestrator_serial` | two processes, serialised calls, two deaths anywhere, every outcome of every operation | all invariants and action properties hold, the run implements `RunLifecycle`, and a RETRY names the next step |
| `exports` | three exports, two to one destination, three deaths of a process that always resumes, others touching the files, operations that succeed or raise PlatformError | verification is right, a finished run delivered each once, and the run leaves RUNNING |
| `session` | revisions, two plans, two runs, two deaths, two rules | approvals, runs, links and verdicts are consistent; no failed write and no death makes the record forget a run that was executed |
| `topological` | every graph of three steps in two listings, all lists of up to two steps with dangling and duplicated ids, three graphs of four | order valid and canonical, refused workflows have none, always answers |
| `governed` | up to three runs of four contracts and four plans, automations built and built again, a source that moves between eight profiles, operations that write any of three frames, approvals granted or not, contract given or not | what is released passed every check that applies to it; an automated run works on data that honours what was approved |
| `datasets` | three uploads of two files and any number of `ingest_file()` calls, three deaths or failed writes | snapshots and frames are whole, answered uploads are kept |
| `cleaning` | nine extractions, seven library contracts, two datasets, every subset and order of rules, data that changes after the plan | nothing guessed; cleaned as approved; no source row is lost but to one that agrees with it on the profiled columns; API runs read each row once and texts unified; unblocked plans fit |
| `joins` | every kind of join and declared cardinality over frames of up to two by three rows with null and missing keys, before and after the data changes, with a deduplicate step or a control total | the review foretells the run; rows and sums multiply only as declared |
| `session_contract` | `/release` after `/revise` and `/approve` | **violated**: released for a contract it was not planned from |
| `session_approvals` | two rules approved in two calls | **violated**: the second can no longer be applied |
| `governed_replay` | an automation and a new plan of the same version | **violated**: the pins match and the new plan runs unapproved |
| `incident_retry` | a run dies in a step, `release()` quarantines it | **violated**: the agent answers RETRY for a run `run()` will not take up |

The violated ones each check one sentence of the repository's own documentation,
quoted in `PROJECT.json` "findings".

**Bounds.** The pipeline is `clean -> join -> export` over two sources: a step
with two inputs, one of them a source, and every position of a death relative to
the first, a middle and the last step. Two workers are enough for one to take
over from another; two deaths allow a death during recovery. The proofs
remove these bounds. In `AnalystSession`, one revision, two plans, two rules and
two runs are the least with which an old approval, an old plan and an old run can
meet a new one; deaths and failed writes together are two for the same reason as above. The bounds
appear in guards (`MaxRevisions`, `MaxPlans`, `MaxRuns`, `MaxCrashes`, `MaxFaults`) and in no other
place. `TopologicalOrder` has the smallest cyclic, dangling, layered and unsorted
lists, and a diamond. `GovernedRuns` needs a second run to replay what the first one left, and a third one for the data to
drift on from the second.
Its contracts all have an acceptance test: one with a sum metric and a null policy, the
same with `export` prohibited, the same with a question open, and one without a sum but with a side effect to
approve. Its plans are a cast and an aggregate, an aggregate and an export, a
schema check that claims the metric before the aggregate does, and an aggregate
alone that claims none; all have version 1. Its frames are sound, short of a row and with
two failing checks, or with a subtotal that misses the total. The profiles are a baseline, one at the very limit of the
thresholds in nulls and rows, two that are within the thresholds of that one but not of the baseline,
one in the null rate alone and one in the rows alone, and four that lose rows, rename a column, repeat a
key or end earlier. The drift monitor looks at none of contract, plan and frames: `governed` goes through three
runs over all eight profiles for one contract, its approved plan and sound frames, and through
every contract, plan and frame with two runs and the first two profiles (the constraint `Explored`), which is
also all `governed_replay` has.

`ExternalWrites` has a step before its exports, two exports to different files, and one
that overwrites the first; three deaths are one in each export or all in one. `DatasetStore` has
bytes that every mode accepts and bytes that only the permissive mode does, a suffix
with a parser and one without, and one file name of the library; three uploads allow
two of the same bytes with another between, and three faults break all of
them. Only there is symmetry used, over the temporary names, which nothing compares
but for equality; elsewhere the ids are not interchangeable. `Cleaning` has a dataset of at most
three rows with a text and a number (empty, with copies, with variants of a text that become
copies when folded, with nulls), and a second with a date and a column that is a number or a
text; later data loses or gains a column. The extractions and contracts are one per branch of
the resolver, the gate, the mapping and the null policies. `JoinSafety` has keys found, not
found and null on both sides: two rows a side are the least that repeat a key, three
the least with which a deduplicate step meets a tie behind its choice.

Deadlock checking is off where the system may rightly stop: a run nobody was
given the id of, a torn `index.json` (`SessionStore.__init__` raises), a function
that returned, a run whose last step has ended (`cleaning`, `joins`). `exports` and
`governed` leave it on.

**Fairness.** `ExternalWrites!ExportFairSpec`: a worker inside a call proceeds (weak fairness:
Python runs it unless it dies, and deaths are bounded), and a caller keeps
calling `run()` while the run is RUNNING, the recovery the orchestrator's docstring
prescribes; strong fairness, since a request for it is served although
`release()` calls and other writers come in between. Operations succeed or raise
PlatformError there: any other exception ends a call as a death in it does, and one raised
again at each attempt would keep the run RUNNING for ever, which no fairness excludes. The HTTP API itself never calls `run()` a second time, so the
property is about a caller of the orchestrator. `TopologicalOrder!FairSpec`: the function keeps executing.

**Mutants.** Each property of a passing run has a mutant in the module, right before the
definition it replaces: a plausible slip in the code (no resume test, COMPLETED
before the artifact, off by one in a loop, approvals carried over to a new plan, a
link not saved) with which TLC finds the property violated.

## 4. Proofs

| module | theorems |
|---|---|
| `RunOrchestratorProofs` | `TypeCorrect`; `Invariance`, hence `ArtifactSafety`, `OrderSafety`, `CertifiedSafety`, `SourcesSafety`; `FinalSafety`, `ArtifactImmutability`, `TransitionSafety` (action properties) and `Refinement` (`Spec => Lifecycle!Spec`); `RetrySafety`; `ExportsImplementRuns` (`ExportSpec => Spec`), `ExportInvariance`, hence `VerificationSafety`, `DeliverySafety`, and `DeliveredOnceSafety` (an action property) |
| `TopologicalOrderProofs` | `Invariance`, hence `OrderIsValid`, `RefusalsAreRight`; `CanonicalOrder`, `OnlyOrder` |
| `GovernedRunsProofs` | `Invariance`, hence `ProhibitionSafety`, `AccountingSafety`, `ExplanationSafety`, `ScoreSafety`, `DriftSafety` |
| `AnalystSessionProofs` | `Invariance`, hence `ApprovalSafety`, `RunSafety`, `LinkSafety`, and `VerdictSafety` (an action property) |
| `DatasetStoreProofs` | `Invariance`, hence `SnapshotSafety`, `FrameSafety`, `AnswerSafety` |
| `FramesProofs` | lemmas only: positions, finite sets, sums, and the operators of `Frames` |
| `CleaningProofs` | `IntakeInvariance`, hence `NoGuessSafety`, `FitnessSafety`; `ChainInvariance`, hence `TypeCorrectness`, `CleanedSafety`, `CopiesSafety`, `ReadOnceSafety`, `UnifiedSafety` |
| `JoinSafetyProofs` | `JoinInvariance`, hence `JoinTypeCorrectness`, `DecisionsSafety`, `MultiplicationSafety`, `DeduplicationSafety`, `SumsSafety` |

Every invariant and action property the passing runs check is the conclusion of one of these.

**RunOrchestrator.** `TypeCorrect` holds of every instance, overlapping calls
included. The others assume `~MayOverlap`: one call at a time, as in one API process. Without it
they fail: two overlapping calls may execute one step twice,
and `update_run_state()` checks an edge against a state that another caller may change before the
write. The code holds no lock against this.

`Unshared(n)` says that node `n` has a file name of its own and is no source that is listed twice, and
`NamesDistinct` that all nodes have. The code guarantees neither: `save()` maps `:` to `_`, so a
step called `source_orders` writes over the locked source `orders`. `IInv` does not
need it: what a worker does, the order of the records and the states hold whatever the names, and of the files it says only
that an unshared node's is whole. Hence `Invariance`, `OrderSafety`, `SourcesSafety`, `FinalSafety`,
`TransitionSafety` and `ArtifactImmutability`, which speaks of unshared nodes in a workflow where others may collide,
need no premise on names. `ArtifactSafety`, `CertifiedSafety`, `Refinement`, `RetrySafety` and the theorems on exports speak of
every node's file and assume `NamesDistinct`.

The invariants talk of the stores alone and are not
inductive: that `MarkCompleted` may write COMPLETED follows only from where the
worker is. `IInv` therefore adds what each position means: at "complete" the file
is whole, inside the loop all earlier steps are COMPLETED and this one is not, a
pending `update_run_state` has its justification (`Justified`), `release()` has
read what is still true, and at most one worker is in a call. The proof goes by action;
those that leave the stores alone share `LookingStep`, and `Assemble` puts the
acting worker's position and the others' idleness together. Beside these
the proofs use the module's assumptions on its constants; `OrderAssumption` is
the one with content, and is `OrderIsValid` of `TopologicalOrder`.

**Its steps and the refinement.** From `IInv`. The actions are
classified once by what they write: some only look, some only write a file, some only a
record, some only the run state. A file or record is written only for a node
that is not COMPLETED or is a source listed twice (`MayBeSaved`, which gives `FinalSafety` and, of unshared nodes,
`ArtifactImmutability`); a state is written only along an edge that
`Justified` supports (`TransitionSafety`). The mapping takes `done` to the nodes with
a COMPLETED record: their artifacts are whole by `CompletedHasArtifact`. Then
a source's record is `Seed`, `MarkCompleted` is `Finish`, `CreateRun` is `Create`,
a state write is `Advance`, and every other step, deaths included, stutters.

**TopologicalOrder.** `IInv` says that emitted and remaining ids split the
workflow, that what was emitted is in order, and that a layer waits for nothing that remains,
its own members included; the last is what lets the ids of one layer be emitted
in any order. `OrderIsCanonical` compares depths, and needs to know which layer is
emitted: `OrderInv` says that some `l` is (`LayerIs`): what was emitted is at `l` at
most, what is ready waits for something at `l - 1`, and what is not ready for something at
`l` or left. `Depth` is recursive over positions; `DepthUnique` shows that its equation has
one solution, `AppendDepth` what one more id does to it. `OnlyOrder` is why "canonical" is
the word: two orders of one graph give each step the same depth (`SameDepth`), and two
sorted listings of the same steps agree at each position (`OrdersAgree`). So what
`run()` computes at a resume is what the interrupted call computed. Assumed are
that `Before` is a strict total order on ids, as sorting strings is, and that ids and
source references differ.

**AnalystSession.** `IInv` adds that memory and file agree outside a save, that
links name existing runs, that inside `/start` the latest run is unjudged and,
before it is executed, linked, and that a judged run is in a final state. Only the
bounds being natural numbers is assumed. `VerdictSafety` is the action property
of `VerdictsStand`, from the same invariant.

**GovernedRuns.** `IInv` keeps, of a released run, what the gate saw when it decided:
no prohibited operation, no uncovered metric, reconciliation PASS. It stays true because a
run that is over keeps its plan, records and frames. `ReleaseMeans` and `NoDefectMeans` read
it off the decision; `AccountingSafety` then needs that the last position to claim a metric is
the step the reconciliation looks up (`LastClaimCovers`), `ExplanationSafety` that the first one is the step
`explain()` takes (`FirstIsStep`), and `DriftSafety` that a comparison without a
breaking or reviewable change bounds the new profile by the old one
(`PassedDataHonours`) and that the baseline of an automation stays the one it was built with
(`BaselineIsAgreed`). Assumed are plans that `validate_dag()` accepts and that have
a step (`WorkflowsAssumption`) and that counts are numbers; frames, contracts and profiles
are otherwise arbitrary.

**DatasetStore.** `IInv` adds what each place of an upload means: which file is torn while
it is written and which is whole once the next step begins (`CopyMade`, `FrameMade`), and that
a record is made only for a frame that is (`Places`). Assumed are that temporary names and file
names differ and that the fault bound is a number; bytes, requests and parsers are
arbitrary.

**IncidentRecovery.** Under the assumptions of `RunOrchestrator`, from its `IInv` and one
strengthening proved first (`StepsNeedAnId`: a step has a record only in a run whose id
was returned, whose sources are therefore stored). `RetriedAreStalled` reads off the table that a
RETRY is answered only where nothing failed; `StalledIsNext` that the stalled step is the
first that is not COMPLETED, and its inputs earlier ones or sources.

**ExternalWrites.** Each of its actions is one of `RunOrchestrator` or leaves its variables
(`ExportStepIsStep`), so `ExportSpec => Spec` without any assumption, and `IInv` carries
over where calls are serialised. `ExportInv` adds what `wrote` and `sum` mean where a worker is:
the file it closed is its product until it is hashed (`Writing`), from there to the
record it holds the checksum of its own product (`Holding`), and a torn file is the trace of
an export that has not completed (`TornIsUnfinished`). A destination does not tell who
wrote it, so that a completed export is delivered follows only from where its worker
was. Assumed, beside the orchestrator's, is that a product is none of the other contents
(`ExportAssumption`: the checksum tells them apart).

**Frames.** Rows are sequences, rules are folded over a plan, amounts are summed: what
these compute holds for data of any size. The library's induction theorems
take an operator and cannot be instantiated, so `FramesProofs` has its own, on sets: a set that
has 0 and with each position the next has all of them (`Stepwise`, from a least
counterexample), and one that has the empty set and with each subset one element more
has them all (`Subsetwise`). `Sums(f)[S]` is the function the fold of a sum chooses
(`SumExists`, `SumsUnique`); sums of disjoint sets, of renamed elements and of groups
follow. `RowsAtFacts` and `DeduplicatedFacts` say that selected rows keep their order and which
row of a duplicate group stays.

**Cleaning.** Two invariants. `IntakeInv` says where contract, profiles and the last review
come from: an API contract is what `Compile` made of an extraction, but for its status, and
an approved one passed the validator; a review is of this plan and these
approvals. `NothingGuessed` and `UnblockedIsFit` are read off it. `ChainInv` says that the workflow
is the planned one with the approved rules as a chain between each source and its readers
(`Chained`, `Feed`), and that a node holds what the chain makes of its dataset up to there
(`FramesOfNodes`, `Cleaned`); its hard step is `ApproveCleaningRules`, a fold over a batch of ids that
moves every reader once per rule, and the one after it `ExecuteStep`, which may take any
step whose inputs are there. `CopiesSafety`, `ReadOnceSafety` and `UnifiedSafety` then are about rows: a cleaning
step folds texts, a deduplicate keeps one row of each group of its keys, the columns of the profile. Whatever columns the
data has now, each source row has a kept one that agrees with it on every profiled column
(`KeptAfter`, by the length of the chain), since a deduplicate step runs only where all of them are
there (`NodesAccepted`, an invariant of its own beside `ChainInv`). The API runs on the data it
profiled: there the rows a reader sees are the folded rows of the source (`RowsCleaned`), copies are dropped
before any text is folded (in `ApprovedOK`), which is why the readers'
frame is as high as the source has distinct rows (`HeightOfRule`), and each of its rows comes from one of them. Assumed are that frames are frames
(`IsFrame`: columns and rows fit), that datasets, definitions and policies are finitely many, and
that readers read known datasets.

**JoinSafety.** `JoinInv` says that review, join and totals are what the reviewer, the
operation and the aggregate compute of the data they were given, and that the data is
fixed once the run has started. The rest is about one join: that the reviewer's uniqueness,
from the distinct count of a profile, and the run's, from duplicate groups, are the same, null keys
included; that unique keys give a row one partner at most (`OnePartner`), so that the joined pairs
of a left join are a renaming of the left rows (`KeepsAmounts`); and that the groups of an aggregate
add up (`GroupsAddUp`). Assumed are frames (`SidesAssumption`), and what pydantic takes for a
join, with a total over a column of numbers (`WorkflowsAssumption`). Negative amounts
are among them: they showed that the clause "its latest row" of `DeduplicatedKeysAreUnique`
compared nulls as zeros, true of the instance and false in general. It now says that the
row kept has a value, not below any other, wherever a row of its key has one.

**Proved, and not repeated by a run.** The inductive invariants, the type invariants of
`TopologicalOrder`, `AnalystSession`, `GovernedRuns`, `DatasetStore` and `ExternalWrites`, `SourcesLocked`, `LegalTransitions` (of serialised calls) and `ReleasedScoresAreFull`: the same formulas hold of
every instance, so no passing run spends states on them.

**Model-checked only.** Liveness: `RunResolves` and `Answers` need
fairness, and `ENABLED` is beyond the provers. The disagreements of section 3 are counterexamples.

## 5. Not modelled

Texts, narration and wording carry no control and are left out; frames, evidence and
profiles are kept as far as a property tells them apart. Beyond that:

- Overlapping `run()` calls on one run, and two processes over one session store
  (`api/store.py:12` accepts last write wins): only `TypeCorrect` speaks of the former, and the
  other properties fail there.
- Two runs with one export destination, or a file that changes while an export
  hashes it.
- A source file that changes between the hash and the copy of `ingest_file()`
  (`ingestion/snapshot.py:52-61`), datasets with one name (`api/app.py:274`), raw
  copies of refused uploads and temporary files that stay behind, and the
  `ParseReport`, which the record does not keep.
- A torn SQLite transaction: SQLite is atomic per statement. A torn parquet file is
  modelled.
- The other operations of the registry (cast, derive, filter, pivot ...): each wraps one
  Polars expression and has no control of its own. What the security guard refuses is the set
  `Refused`.
- The workflow planner and the LLM clients: the plan a model proposes is any workflow;
  what is checked of it is `TopologicalOrder` and `Registered`.
- Agents that only classify or describe (PII, ML suitability, analytics, operation selection,
  charts, explanations): no step of a run reads their answer.
- The desktop wrapper: a thread that serves the API and a wait for `/health` with a
  deadline.

**Known gaps of the code that no property covers.** The models have all of them; the properties are worded
so that they hold beside them.

- A step with the id `source_<name>` writes over the locked source `<name>`
  (`workflow/artifact_store.py:28`). Unshared nodes keep their files whatever the names.
- Of two overlapping calls on one run, each may undo what the other relies on (`workflow/store.py:137`).
- A later step that refers to the metric an aggregate computed, an export or a sort, makes the
  reconciliation pass the metric over, and a result with unbalanced subtotals may be
  released (`compiler/reconciliation_agent.py:104-106`, against its lines 28-31). `ReleasedIsAccountedFor`
  speaks of metrics an aggregate is the last to claim.
- A deduplicate step compares the columns of the profile (`workflow/orchestrator.py:438`); of data that has
  gained a column, rows that differ in that column alone are dropped, against
  `compiler/cleaning_strategy_agent.py:210`. `OnlyCopiesAreDropped` says what is kept of the profiled columns.
- A second upload of known bytes writes their frame again in place (`api/store.py:87`). When it breaks
  off, the frame is torn until such an upload is answered; `FramesAreWhole` leaves that time out.
- Of an empty left side with a right or outer join, `validation/checks/join_safety.py:65` reports a factor 0.0 and
  `registry/operations/join.py:94` infinity, against "identical math" in `workflow/orchestrator.py:242-244`.

## 6. Plan

What is left:

1. **Overlapping calls**: what the stores still guarantee without `~MayOverlap`, beyond types: a record is
   only ever of a step whose inputs could be loaded.
2. **Composition**: `TopologicalOrder` with `OrderAssumption` as a theorem instead of two
   properties stated alike.
