--------------------------- MODULE RunOrchestrator ---------------------------
(***************************************************************************)
(* The durable life of ONE workflow run (workflow/orchestrator.py), step   *)
(* by step: start_run(), run() and release() as they read and write the    *)
(* run store (SQLite, autocommit per call) and the artifact store (one     *)
(* parquet file per node).  An action is one durable read or write, or one *)
(* in-memory decision between two of them; a worker (a process executing   *)
(* one call) may die between any two actions and loses only its own        *)
(* memory.                                                                 *)
(*                                                                         *)
(* Abstracted: frames, evidence and errors.  A parquet file is the node    *)
(* whose save() finished last at its path, or Torn while it is written.    *)
(***************************************************************************)
EXTENDS Naturals, Sequences

CONSTANTS
    Steps,        \* step ids of the workflow
    Sources,      \* its source nodes ("source:<name>")
    Deps,         \* Deps[s]: the nodes named by step.inputs
    Order,        \* workflow.execution_order()
    SourceOrder,  \* workflow.sources
    Paths,        \* file names of a run's artifact directory
    PathOf,       \* ArtifactStore.path_for, node -> file name
    Registered,   \* steps whose operation the registry has
    ArityOK,      \* steps with as many inputs as their operation takes
    Refused,      \* exports whose destination the security guard blocks
    Outcomes,     \* Outcomes[s]: what executing s may do, see OutcomeKinds
    Verdicts,     \* what the release checks outside this module may say
    Workers,      \* processes calling the orchestrator
    MayOverlap,   \* FALSE: calls are serialised, as in one API process
    MaxCrashes    \* bound on worker deaths

VARIABLES
    runState,     \* runs.state, or NoRun
    handedOut,    \* start_run() returned the run id to its caller
    rec,          \* step_runs.status of each node, "NONE" without a row
    file,         \* content of each artifact path
    pc,           \* where each worker is
    cursor,       \* position of a worker in SourceOrder or Order
    target,       \* new_state of a worker's update_run_state() call
    held,         \* run.state as read at the start of release()
    crashes       \* worker deaths so far

vars == <<runState, handedOut, rec, file, pc, cursor, target, held, crashes>>

Nodes == Steps \cup Sources

NoRun  == "NO_RUN"
Absent == "absent"
Torn   == "torn"

(* "platform_error": a PlatformError, which run() turns into a FAILED step;*)
(* "exception": anything else, which leaves run() as it is.                *)
OutcomeKinds == {"ok", "platform_error", "exception"}

ASSUME WorkflowAssumption ==
    /\ Steps \cap Sources = {}
    /\ {Absent, Torn} \cap Nodes = {}
    /\ Deps \in [Steps -> SUBSET Nodes]
    /\ SourceOrder \in Seq(Sources)
    /\ \A n \in Sources : \E i \in 1..Len(SourceOrder) : SourceOrder[i] = n

(* What validate_dag() and execution_order() establish before a run        *)
(* exists (module TopologicalOrder).                                       *)
ASSUME OrderAssumption ==
    /\ Order \in Seq(Steps)
    /\ \A s \in Steps : \E i \in 1..Len(Order) : Order[i] = s
    /\ \A i, j \in 1..Len(Order) : Order[i] = Order[j] => i = j
    /\ \A i \in 1..Len(Order) : \A d \in Deps[Order[i]] \cap Steps :
          \E j \in 1..(i-1) : Order[j] = d

ASSUME EnvironmentAssumption ==
    /\ PathOf \in [Nodes -> Paths]
    /\ Registered \subseteq Steps /\ ArityOK \subseteq Steps
    /\ Refused \subseteq Steps
    /\ Outcomes \in [Steps -> (SUBSET OutcomeKinds) \ {{}}]
    /\ Verdicts \in (SUBSET BOOLEAN) \ {{}}
    /\ MayOverlap \in BOOLEAN
    /\ MaxCrashes \in Nat

(* What keeps two saves apart, and nothing in the code enforces: path_for()*)
(* maps ":" to "_", so a step "source_x" beside a source "x" shares its    *)
(* file, and validate_dag() does not look for a source listed twice.       *)
Unshared(n) ==
    /\ \A m \in Nodes : PathOf[m] = PathOf[n] => m = n
    /\ \A i, j \in 1..Len(SourceOrder) :
          SourceOrder[i] = n /\ SourceOrder[j] = n => i = j

NamesDistinct == \A n \in Nodes : Unshared(n)

-----------------------------------------------------------------------------
(* The run state machine.                                                  *)

Lifecycle == INSTANCE RunLifecycle WITH
    done <- {n \in Nodes : rec[n] = "COMPLETED" /\ file[PathOf[n]] = n}

ReleaseTerminal == {"RELEASED", "QUARANTINED", "ROLLED_BACK"}

Statuses == {"NONE", "RUNNING", "COMPLETED", "FAILED"}

StartPcs == {"create", "seed", "seed_save", "seed_record"}
LoopPcs  == {"next", "load", "mark", "exec", "save", "saving", "complete",
             "fail"}
ReleasePcs == {"reconcile", "decide"}
UpdatePcs == {"check", "write"}
Pcs == {"idle"} \cup StartPcs \cup LoopPcs \cup ReleasePcs \cup UpdatePcs

Readable(n) == file[PathOf[n]] \notin {Absent, Torn}

(* The step or source a worker in its loop is at.                          *)
Step(w)   == Order[cursor[w]]
Source(w) == SourceOrder[cursor[w]]

Goto(w, label) == pc' = [pc EXCEPT ![w] = label]

(* Enter update_run_state(run_id, state).                                  *)
Update(w, state) == /\ target' = [target EXCEPT ![w] = state]
                    /\ Goto(w, "check")

(* upsert_step_run(): whatever row was there is replaced.                  *)
Put(n, status) == rec' = [rec EXCEPT ![n] = status]

(* ArtifactStore.save(): write_parquet truncates the file, then fills it.  *)
Truncate(n) == file' = [file EXCEPT ![PathOf[n]] = Torn]
Fill(n)     == file' = [file EXCEPT ![PathOf[n]] = n]

Init == /\ runState = NoRun
        /\ handedOut = FALSE
        /\ rec = [n \in Nodes |-> "NONE"]
        /\ file = [p \in Paths |-> Absent]
        /\ pc = [w \in Workers |-> "idle"]
        /\ cursor = [w \in Workers |-> 1]
        /\ target = [w \in Workers |-> "APPROVED"]
        /\ held = [w \in Workers |-> NoRun]
        /\ crashes = 0

(* A new call may begin: the API's handlers never yield inside a call, so  *)
(* one process runs them one after the other; two processes overlap.       *)
MayCall(w) == /\ pc[w] = "idle"
              /\ MayOverlap \/ \A v \in Workers : pc[v] = "idle"
-----------------------------------------------------------------------------
(* update_run_state(): read and check, then write.                         *)

CheckTransition(w) ==
    /\ pc[w] = "check"
    /\ Goto(w, IF Lifecycle!Allowed(runState, target[w]) THEN "write"
                                                         ELSE "idle")
    /\ UNCHANGED <<runState, handedOut, rec, file, cursor, target, held, crashes>>

WriteState(w) ==
    /\ pc[w] = "write"
    /\ runState' = target[w]
    /\ CASE target[w] = "APPROVED" -> /\ Update(w, "RUNNING")
                                      /\ UNCHANGED cursor
         [] target[w] = "RUNNING"  -> /\ Goto(w, "seed")
                                      /\ cursor' = [cursor EXCEPT ![w] = 1]
                                      /\ UNCHANGED target
         [] OTHER                  -> /\ Goto(w, "idle")
                                      /\ UNCHANGED <<cursor, target>>
    /\ UNCHANGED <<handedOut, rec, file, held, crashes>>
-----------------------------------------------------------------------------
(* start_run(): everything that may refuse the workflow comes first and    *)
(* leaves no trace, so the call is modelled from the point where it will   *)
(* create the run.                                                         *)

StartRun(w) ==
    /\ MayCall(w)
    /\ runState = NoRun
    /\ \A v \in Workers : pc[v] # "create"
    /\ Goto(w, "create")
    /\ UNCHANGED <<runState, handedOut, rec, file, cursor, target, held, crashes>>

CreateRun(w) ==
    /\ pc[w] = "create"
    /\ runState' = "DRAFT"
    /\ Update(w, "APPROVED")
    /\ UNCHANGED <<handedOut, rec, file, cursor, held, crashes>>

SaveSource(w) ==
    /\ pc[w] = "seed"
    /\ cursor[w] <= Len(SourceOrder)
    /\ Truncate(Source(w))
    /\ Goto(w, "seed_save")
    /\ UNCHANGED <<runState, handedOut, rec, cursor, target, held, crashes>>

SourceSaved(w) ==
    /\ pc[w] = "seed_save"
    /\ Fill(Source(w))
    /\ Goto(w, "seed_record")
    /\ UNCHANGED <<runState, handedOut, rec, cursor, target, held, crashes>>

RecordSource(w) ==
    /\ pc[w] = "seed_record"
    /\ Put(Source(w), "COMPLETED")
    /\ cursor' = [cursor EXCEPT ![w] = @ + 1]
    /\ Goto(w, "seed")
    /\ UNCHANGED <<runState, handedOut, file, target, held, crashes>>

ReturnRunId(w) ==
    /\ pc[w] = "seed"
    /\ cursor[w] > Len(SourceOrder)
    /\ handedOut' = TRUE
    /\ Goto(w, "idle")
    /\ UNCHANGED <<runState, rec, file, cursor, target, held, crashes>>
-----------------------------------------------------------------------------
(* run(): the id is a fresh uuid, so only a caller start_run() answered    *)
(* can name the run.  In any other state the call returns the record.      *)

CallRun(w) ==
    /\ MayCall(w)
    /\ handedOut
    /\ runState = "RUNNING"
    /\ cursor' = [cursor EXCEPT ![w] = 1]
    /\ Goto(w, "next")
    /\ UNCHANGED <<runState, handedOut, rec, file, target, held, crashes>>

(* Mutant: any existing row counts as done.                                *)
SkipRecorded(w) ==
    /\ pc[w] = "next"
    /\ cursor[w] <= Len(Order)
    /\ rec[Step(w)] # "NONE"
    /\ cursor' = [cursor EXCEPT ![w] = @ + 1]
    /\ UNCHANGED <<runState, handedOut, rec, file, pc, target, held, crashes>>

SkipCompleted(w) ==
    /\ pc[w] = "next"
    /\ cursor[w] <= Len(Order)
    /\ rec[Step(w)] = "COMPLETED"
    /\ cursor' = [cursor EXCEPT ![w] = @ + 1]
    /\ UNCHANGED <<runState, handedOut, rec, file, pc, target, held, crashes>>

(* Mutant: the resume test is missing, completed steps run again.          *)
LookUpEveryStep(w) ==
    /\ pc[w] = "next"
    /\ cursor[w] <= Len(Order)
    /\ Goto(w, IF Step(w) \notin Registered THEN "idle"
               ELSE IF Step(w) \notin ArityOK THEN "fail" ELSE "load")
    /\ UNCHANGED <<runState, handedOut, rec, file, cursor, target, held, crashes>>

(* registry.get() raises for an unknown operation and nobody catches it.   *)
LookUp(w) ==
    /\ pc[w] = "next"
    /\ cursor[w] <= Len(Order)
    /\ rec[Step(w)] # "COMPLETED"
    /\ Goto(w, IF Step(w) \notin Registered THEN "idle"
               ELSE IF Step(w) \notin ArityOK THEN "fail" ELSE "load")
    /\ UNCHANGED <<runState, handedOut, rec, file, cursor, target, held, crashes>>

(* load_by_ids() raises when a file is missing or unreadable; the export   *)
(* guard comes after the load and before the RUNNING record.               *)
LoadInputs(w) ==
    /\ pc[w] = "load"
    /\ Goto(w, IF \E d \in Deps[Step(w)] : ~Readable(d) THEN "idle"
               ELSE IF Step(w) \in Refused THEN "fail" ELSE "mark")
    /\ UNCHANGED <<runState, handedOut, rec, file, cursor, target, held, crashes>>

MarkRunning(w) ==
    /\ pc[w] = "mark"
    /\ Put(Step(w), "RUNNING")
    /\ Goto(w, "exec")
    /\ UNCHANGED <<runState, handedOut, file, cursor, target, held, crashes>>

(* Mutant: the COMPLETED record is written before the artifact.            *)
ExecuteRecordingFirst(w) ==
    /\ pc[w] = "exec"
    /\ \/ "ok" \in Outcomes[Step(w)] /\ Put(Step(w), "COMPLETED") /\ Goto(w, "save")
       \/ "platform_error" \in Outcomes[Step(w)] /\ Goto(w, "fail") /\ UNCHANGED rec
       \/ "exception" \in Outcomes[Step(w)] /\ Goto(w, "idle") /\ UNCHANGED rec
    /\ UNCHANGED <<runState, handedOut, file, cursor, target, held, crashes>>

Execute(w) ==
    /\ pc[w] = "exec"
    /\ \/ "ok" \in Outcomes[Step(w)] /\ Goto(w, "save")
       \/ "platform_error" \in Outcomes[Step(w)] /\ Goto(w, "fail")
       \/ "exception" \in Outcomes[Step(w)] /\ Goto(w, "idle")
    /\ UNCHANGED <<runState, handedOut, rec, file, cursor, target, held, crashes>>

(* Mutant: a step's result is written over the files it read.              *)
SaveInPlace(w) ==
    /\ pc[w] = "save"
    /\ file' = [p \in Paths |->
          IF \E n \in Deps[Step(w)] \cup {Step(w)} : PathOf[n] = p
          THEN Torn ELSE file[p]]
    /\ Goto(w, "saving")
    /\ UNCHANGED <<runState, handedOut, rec, cursor, target, held, crashes>>

SaveArtifact(w) ==
    /\ pc[w] = "save"
    /\ Truncate(Step(w))
    /\ Goto(w, "saving")
    /\ UNCHANGED <<runState, handedOut, rec, cursor, target, held, crashes>>

ArtifactSaved(w) ==
    /\ pc[w] = "saving"
    /\ Fill(Step(w))
    /\ Goto(w, "complete")
    /\ UNCHANGED <<runState, handedOut, rec, cursor, target, held, crashes>>

MarkCompleted(w) ==
    /\ pc[w] = "complete"
    /\ Put(Step(w), "COMPLETED")
    /\ cursor' = [cursor EXCEPT ![w] = @ + 1]
    /\ Goto(w, "next")
    /\ UNCHANGED <<runState, handedOut, file, target, held, crashes>>

(* Mutant: a failed step throws its inputs away.                           *)
RecordFailureDroppingInputs(w) ==
    /\ pc[w] = "fail"
    /\ rec' = [n \in Nodes |-> IF n = Step(w) THEN "FAILED"
                               ELSE IF n \in Deps[Step(w)] THEN "NONE"
                               ELSE rec[n]]
    /\ Update(w, "QUARANTINED")
    /\ UNCHANGED <<runState, handedOut, file, cursor, held, crashes>>

(* Mutant: the step is FAILED, the run stays RUNNING.                      *)
RecordFailureOnly(w) ==
    /\ pc[w] = "fail"
    /\ Put(Step(w), "FAILED")
    /\ Goto(w, "idle")
    /\ UNCHANGED <<runState, handedOut, file, cursor, target, held, crashes>>

(* Mutant: the state of the run is written into the row of the step.       *)
RecordFailureAsRunState(w) ==
    /\ pc[w] = "fail"
    /\ Put(Step(w), "QUARANTINED")
    /\ Update(w, "QUARANTINED")
    /\ UNCHANGED <<runState, handedOut, file, cursor, held, crashes>>

(* A PlatformError, or _fail_step_and_quarantine().                        *)
RecordFailure(w) ==
    /\ pc[w] = "fail"
    /\ Put(Step(w), "FAILED")
    /\ Update(w, "QUARANTINED")
    /\ UNCHANGED <<runState, handedOut, file, cursor, held, crashes>>

(* Mutant: off by one, VERIFYING before the last step.                     *)
AllButLastStepDone(w) ==
    /\ pc[w] = "next"
    /\ cursor[w] >= Len(Order)
    /\ Update(w, "VERIFYING")
    /\ UNCHANGED <<runState, handedOut, rec, file, cursor, held, crashes>>

AllStepsDone(w) ==
    /\ pc[w] = "next"
    /\ cursor[w] > Len(Order)
    /\ Update(w, "VERIFYING")
    /\ UNCHANGED <<runState, handedOut, rec, file, cursor, held, crashes>>
-----------------------------------------------------------------------------
(* release()                                                               *)

CallRelease(w) ==
    /\ MayCall(w)
    /\ handedOut
    /\ held' = [held EXCEPT ![w] = runState]
    /\ Goto(w, "reconcile")
    /\ UNCHANGED <<runState, handedOut, rec, file, cursor, target, crashes>>

(* The artifacts validate() and reconcile() load: every step's output and  *)
(* every input a step declares.                                            *)
ReconciledRefs == Steps \cup UNION {Deps[s] : s \in Steps}

(* Both catch PlatformError only; a missing file raises something else.    *)
Reconcile(w) ==
    /\ pc[w] = "reconcile"
    /\ Goto(w, IF \A n \in ReconciledRefs : Readable(n) THEN "decide"
                                                        ELSE "idle")
    /\ UNCHANGED <<runState, handedOut, rec, file, cursor, target, held, crashes>>

(* IndependentVerifier.verify and ReleaseGate.decide.  verdict stands for  *)
(* their conditions on the contract, the evidence and the reports.         *)
Verified(w, verdict) == /\ held[w] = "VERIFYING"
                        /\ \A s \in Steps : rec[s] = "COMPLETED"
                        /\ verdict

Decide(w) ==
    /\ pc[w] = "decide"
    /\ \E verdict \in Verdicts :
          IF held[w] \in ReleaseTerminal
          THEN Goto(w, "idle") /\ UNCHANGED target
          ELSE Update(w, IF Verified(w, verdict) THEN "RELEASED"
                                                 ELSE "QUARANTINED")
    /\ UNCHANGED <<runState, handedOut, rec, file, cursor, held, crashes>>
-----------------------------------------------------------------------------
(* The process of a worker dies: everything it wrote stays.                *)
Crash(w) ==
    /\ pc[w] # "idle"
    /\ crashes < MaxCrashes
    /\ crashes' = crashes + 1
    /\ Goto(w, "idle")
    /\ UNCHANGED <<runState, handedOut, rec, file, cursor, target, held>>

(* What a worker does by itself once it is in a call.                      *)
Work(w) == \/ CheckTransition(w) \/ WriteState(w)
           \/ CreateRun(w) \/ SaveSource(w) \/ SourceSaved(w)
           \/ RecordSource(w) \/ ReturnRunId(w)
           \/ SkipCompleted(w) \/ LookUp(w) \/ LoadInputs(w)
           \/ MarkRunning(w) \/ Execute(w) \/ SaveArtifact(w)
           \/ ArtifactSaved(w) \/ MarkCompleted(w) \/ RecordFailure(w)
           \/ AllStepsDone(w)
           \/ Reconcile(w) \/ Decide(w)

Call(w) == StartRun(w) \/ CallRun(w) \/ CallRelease(w)

Next == \E w \in Workers : Work(w) \/ Call(w) \/ Crash(w)

Spec == Init /\ [][Next]_vars
-----------------------------------------------------------------------------
TypeOK ==
    /\ runState \in Lifecycle!RunStates \cup {NoRun}
    /\ handedOut \in BOOLEAN
    /\ rec \in [Nodes -> Statuses]
    /\ file \in [Paths -> Nodes \cup {Absent, Torn}]
    /\ pc \in [Workers -> Pcs]
    /\ cursor \in [Workers -> Nat \ {0}]
    /\ target \in [Workers -> Lifecycle!RunStates]
    /\ held \in [Workers -> Lifecycle!RunStates \cup {NoRun}]
    /\ crashes \in 0..MaxCrashes

(* A COMPLETED record always has its artifact, whole, on disk: the record  *)
(* is written after the file and survives any later crash or retry.        *)
CompletedHasArtifact ==
    \A n \in Nodes : rec[n] = "COMPLETED" => file[PathOf[n]] = n

(* Records appear strictly in execution order across all crashes and       *)
(* resumes: a step has a row only if every earlier step COMPLETED.  Hence  *)
(* at most one step is unfinished, it is the one run() takes up next, and  *)
(* no step ever ran before its inputs were final.                          *)
RecordsFollowOrder ==
    \A i \in 1..Len(Order) : rec[Order[i]] # "NONE" =>
        \A j \in 1..(i-1) : rec[Order[j]] = "COMPLETED"

(* A run that callers know of has all its sources locked and stored, so a  *)
(* resumed run() never needs the in-memory frames again (start_run's       *)
(* docstring).                                                             *)
SourcesLocked ==
    handedOut => \A n \in Sources : rec[n] = "COMPLETED"

(* Nothing is VERIFYING or RELEASED with a step missing or its output      *)
(* damaged.                                                                *)
CertifiedMeansDone ==
    runState \in {"VERIFYING", "RELEASED"} =>
        \A s \in Steps : rec[s] = "COMPLETED" /\ file[PathOf[s]] = s

(* run() re-executes nothing that already finished: a COMPLETED record is  *)
(* never replaced.                                                         *)
CompletedIsFinal ==
    [][\A n \in Nodes : rec[n] = "COMPLETED" => rec'[n] = "COMPLETED"]_vars

(* The file of a COMPLETED node that shares its name with no other is      *)
(* never written again, whatever names the others have.                    *)
ArtifactsImmutable ==
    [][\A n \in Nodes : Unshared(n) /\ rec[n] = "COMPLETED" =>
          file'[PathOf[n]] = file[PathOf[n]]]_vars

(* Only the listed edges of the state machine are ever written.            *)
LegalTransitions ==
    [][runState' # runState =>
          \/ runState = NoRun /\ runState' = "DRAFT"
          \/ Lifecycle!Allowed(runState, runState')]_vars

(* The run store, seen through its final records, behaves like the         *)
(* abstract run.                                                           *)
ImplementsLifecycle == Lifecycle!Spec

(* A run that its caller keeps resuming leaves RUNNING.                    *)
RunResolves == (handedOut /\ runState = "RUNNING") ~> runState # "RUNNING"
-----------------------------------------------------------------------------
(* The inductive invariant of serialised calls.  The properties above talk *)
(* of the stores only; to survive a step they need what a worker knows     *)
(* from its own position in a call.                                        *)

Unstarted == {NoRun, "DRAFT", "APPROVED"}

AllDone == \A s \in Steps : rec[s] = "COMPLETED"

OneCall == \A v, w \in Workers : pc[v] # "idle" /\ pc[w] # "idle" => v = w

(* Nothing is recorded, and the id is not handed out, before RUNNING.      *)
NothingBefore ==
    runState \in Unstarted => ~handedOut /\ \A n \in Nodes : rec[n] = "NONE"

(* CompletedHasArtifact, of the nodes with a file name of their own.       *)
ArtifactsWhole ==
    \A n \in Nodes :
        Unshared(n) /\ rec[n] = "COMPLETED" => file[PathOf[n]] = n

CertifiedSteps == runState \in {"VERIFYING", "RELEASED"} => AllDone

(* What holds of the stores alone.                                         *)
Stores == /\ NothingBefore
          /\ ArtifactsWhole
          /\ RecordsFollowOrder
          /\ SourcesLocked
          /\ CertifiedSteps

(* A worker past the test of its loop has a source or a step at hand.      *)
CursorOK ==
    \A w \in Workers :
        /\ pc[w] \in {"seed_save", "seed_record"} => cursor[w] <= Len(SourceOrder)
        /\ pc[w] \in LoopPcs \ {"next"} => cursor[w] <= Len(Order)

Seeding(w) ==
    pc[w] \in {"seed", "seed_save", "seed_record"} =>
        /\ runState = "RUNNING" /\ ~handedOut
        /\ pc[w] = "seed_record" => file[PathOf[Source(w)]] = Source(w)
        /\ \A i \in 1..Len(SourceOrder) :
              rec[SourceOrder[i]] =
                  IF \E j \in 1..Len(SourceOrder) :
                        j < cursor[w] /\ SourceOrder[j] = SourceOrder[i]
                  THEN "COMPLETED" ELSE "NONE"

Looping(w) ==
    pc[w] \in LoopPcs =>
        /\ runState = "RUNNING" /\ handedOut
        /\ \A i \in 1..Len(Order) :
              i < cursor[w] => rec[Order[i]] = "COMPLETED"
        /\ pc[w] # "next" => rec[Step(w)] # "COMPLETED"
        /\ pc[w] = "complete" => file[PathOf[Step(w)]] = Step(w)

Releasing(w) == pc[w] \in ReleasePcs => held[w] = runState /\ handedOut

(* What justifies a worker's pending update_run_state(state).              *)
Justified(state) ==
    \/ state = "APPROVED" /\ runState = "DRAFT" /\ ~handedOut
    \/ state = "RUNNING" /\ runState = "APPROVED" /\ ~handedOut
    \/ state = "VERIFYING" /\ runState = "RUNNING" /\ AllDone
    \/ state = "RELEASED" /\ runState = "VERIFYING" /\ AllDone
    \/ state = "QUARANTINED" /\ handedOut

Updating(w) ==
    pc[w] \in UpdatePcs =>
        /\ Justified(target[w])
        /\ pc[w] = "write" => Lifecycle!Allowed(runState, target[w])

Position(w) == /\ pc[w] = "create" => runState = NoRun
               /\ Seeding(w)
               /\ Looping(w)
               /\ Releasing(w)
               /\ Updating(w)

IInv == /\ TypeOK
        /\ CursorOK
        /\ OneCall
        /\ Stores
        /\ \A w \in Workers : Position(w)
=============================================================================
