--------------------------- MODULE AnalystSession ---------------------------
(***************************************************************************)
(* The life of ONE requirement contract behind the HTTP API (api/app.py)   *)
(* and its session store (api/store.py): revise, approve, plan, approve    *)
(* cleaning rules, start, release.  The handlers never await, so one       *)
(* process runs them one after the other; it may die anywhere inside one,  *)
(* or an exception may end a handler half-way with the process alive.  The *)
(* store keeps its index in memory and rewrites index.json, not            *)
(* atomically, at the end of each update.                                  *)
(*                                                                         *)
(* Abstracted: what contracts and plans say.  A contract is its version    *)
(* and what keeps it from being ready, a workflow the contract version it  *)
(* was planned from and the cleaning steps put on top of it; runs are      *)
(* detailed in RunOrchestrator.                                            *)
(***************************************************************************)
EXTENDS Naturals, Sequences

CONSTANTS
    Rules,         \* ids of the lossy cleaning rules a plan may propose
    MaxRevisions,  \* bound on /revise calls
    MaxPlans,      \* bound on /plan calls
    MaxRuns,       \* bound on /start calls
    MaxFaults      \* bound on deaths of the process and failed writes

ASSUME BoundsAssumption ==
    {MaxRevisions, MaxPlans, MaxRuns, MaxFaults} \subseteq Nat

VARIABLES
    index,     \* the store's record of the contract, in memory
    disk,      \* index.json: an index, or Torn
    runs,      \* the runs created so far, in RunStore
    pc,        \* where the process is
    faults     \* deaths and failed writes so far

vars == <<index, disk, runs, pc, faults>>

NoWorkflow == [from |-> 0, plan |-> 0, cleaning |-> {}]

Torn == [torn |-> TRUE]

(* RequirementContract, after _enforce_no_guessing.                        *)
Contract(version, wanted, open, sourced) ==
    [version |-> version, open |-> open, sourced |-> sourced,
     status |-> IF open \/ ~sourced THEN "BLOCKED" ELSE wanted]

Ready(contract) == contract.status = "APPROVED"

Planned == index.workflow # NoWorkflow

(* Rules whose approval the store holds.  An approval is kept with the     *)
(* plan it was given for; the code keeps the rule alone.                   *)
ApprovedRules(ix) == {a[1] : a \in ix.approved}

(* _unapproved_required_cleaning_rules                                     *)
Unresolved(ix) == ix.proposed \ ApprovedRules(ix)

(* update_contract(): the memory first, then _save(), which opens          *)
(* index.json and so truncates it, if it gets that far.                    *)
Commit(ix, next) == /\ index' = ix
                    /\ disk' \in {disk, Torn}
                    /\ pc' = next

Init == /\ \E open, sourced \in BOOLEAN :
              index = [contract |-> Contract(1, "DRAFT", open, sourced),
                       workflow |-> NoWorkflow, proposed |-> {},
                       approved |-> {}, linked |-> {}]
        /\ disk = index
        /\ runs = <<>>
        /\ pc = "idle"
        /\ faults = 0
-----------------------------------------------------------------------------
(* update_contract(contract=...) keeps workflow, plan and approvals.       *)
ReviseRequirement ==
    /\ pc = "idle"
    /\ index.contract.version <= MaxRevisions
    /\ \E open \in BOOLEAN :
          Commit([index EXCEPT !.contract =
                    Contract(@.version + 1, "DRAFT", open, @.sourced)], "save")
    /\ UNCHANGED <<runs, faults>>

ApproveRequirement ==
    /\ pc = "idle"
    /\ ~index.contract.open
    /\ LET approved == [index.contract EXCEPT !.status =
                          Contract(@, "APPROVED", FALSE, index.contract.sourced).status]
       IN  /\ Ready(approved)
           /\ Commit([index EXCEPT !.contract = approved], "save")
    /\ UNCHANGED <<runs, faults>>

(* Mutant: the approvals of the old plan are carried over.                 *)
PlanKeepingApprovals ==
    /\ pc = "idle"
    /\ Ready(index.contract)
    /\ index.workflow.plan < MaxPlans
    /\ \E proposed \in SUBSET Rules :
          Commit([index EXCEPT !.workflow = [from |-> index.contract.version,
                                             plan |-> @.plan + 1,
                                             cleaning |-> {}],
                               !.proposed = proposed], "save")
    /\ UNCHANGED <<runs, faults>>

(* A new plan takes the place of the old one and of its approvals.         *)
PlanRequirement ==
    /\ pc = "idle"
    /\ Ready(index.contract)
    /\ index.workflow.plan < MaxPlans
    /\ \E proposed \in SUBSET Rules :
          Commit([index EXCEPT !.workflow = [from |-> index.contract.version,
                                             plan |-> @.plan + 1,
                                             cleaning |-> {}],
                               !.proposed = proposed,
                               !.approved = {}], "save")
    /\ UNCHANGED <<runs, faults>>

(* apply_cleaning_rules(): one step per rule id, put on top of the         *)
(* workflow it is given; validate_dag() refuses a step id used twice.      *)
CanApply(workflow, rules) == rules \cap workflow.cleaning = {}

ApplyCleaningRules(workflow, rules) ==
    [workflow EXCEPT !.cleaning = @ \cup rules]

(* It is given the stored workflow, and all approvals, old and new.        *)
ApproveCleaningRules ==
    /\ pc = "idle"
    /\ Planned
    /\ \E requested \in SUBSET index.proposed :
          LET rules == ApprovedRules(index) \cup requested
          IN  /\ CanApply(index.workflow, rules)
              /\ Commit([index EXCEPT
                    !.workflow = ApplyCleaningRules(@, rules),
                    !.approved = @ \cup (requested \X {index.workflow.plan})],
                    "save")
    /\ UNCHANGED <<runs, faults>>
-----------------------------------------------------------------------------
(* /start: nothing but the workflow and the rules is looked at.            *)
NewRun == [workflow |-> index.workflow,
           required |-> index.proposed,
           approved |-> index.approved,
           state    |-> "RUNNING",
           executed |-> FALSE,
           judged   |-> 0]

(* Mutant: /start does not look at the unresolved rules.                   *)
StartUnresolved ==
    /\ pc = "idle"
    /\ Planned
    /\ Len(runs) < MaxRuns
    /\ runs' = Append(runs, NewRun)
    /\ pc' = "link"
    /\ UNCHANGED <<index, disk, faults>>

(* Mutant: the run is executed before the record knows of it.              *)
StartUnlinked ==
    /\ pc = "idle"
    /\ Planned
    /\ Unresolved(index) = {}
    /\ Len(runs) < MaxRuns
    /\ \E state \in {"VERIFYING", "QUARANTINED"} :
          runs' = Append(runs, [NewRun EXCEPT !.state = state,
                                              !.executed = TRUE])
    /\ pc' = "link"
    /\ UNCHANGED <<index, disk, faults>>

StartRun ==
    /\ pc = "idle"
    /\ Planned
    /\ Unresolved(index) = {}
    /\ Len(runs) < MaxRuns
    /\ runs' = Append(runs, NewRun)
    /\ pc' = "link"
    /\ UNCHANGED <<index, disk, faults>>

(* start_run() raises after it created the run (a write fails): the run    *)
(* stays where it was, and nothing will ever link to it.                   *)
StartRaises ==
    /\ pc = "idle"
    /\ Planned
    /\ Unresolved(index) = {}
    /\ Len(runs) < MaxRuns
    /\ \E state \in {"DRAFT", "APPROVED", "RUNNING"} :
          runs' = Append(runs, [NewRun EXCEPT !.state = state])
    /\ UNCHANGED <<index, disk, pc, faults>>

LinkRun ==
    /\ pc = "link"
    /\ Commit([index EXCEPT !.linked = @ \cup {Len(runs)}], "save_link")
    /\ UNCHANGED <<runs, faults>>

(* run(): finishes, fails, or raises and leaves the run RUNNING.  executed *)
(* marks the runs it took up.                                              *)
ExecuteRun ==
    /\ pc = "run"
    /\ \E state \in {"VERIFYING", "QUARANTINED", "RUNNING"} :
          runs' = [runs EXCEPT ![Len(runs)].state = state,
                               ![Len(runs)].executed = TRUE]
    /\ pc' = "idle"
    /\ UNCHANGED <<index, disk, faults>>

(* index.json is complete.                                                 *)
Saved ==
    /\ pc \in {"save", "save_link"}
    /\ disk' = index
    /\ pc' = IF pc = "save" THEN "idle" ELSE "run"
    /\ UNCHANGED <<index, runs, faults>>

(* write_text() raises: the handler ends there, the memory keeps what the  *)
(* caller is told has failed, and a run whose link was being saved is not  *)
(* executed.                                                               *)
SaveFails ==
    /\ pc \in {"save", "save_link"}
    /\ faults < MaxFaults
    /\ faults' = faults + 1
    /\ pc' = "idle"
    /\ UNCHANGED <<index, disk, runs>>

(* Mutant: a quarantined run may be released once its contract is ready.   *)
ReleaseAgain ==
    /\ pc = "idle"
    /\ \E r \in index.linked, verdict \in BOOLEAN :
          /\ runs[r].state # "RELEASED"
          /\ index.workflow.cleaning \subseteq runs[r].workflow.cleaning
          /\ runs' = [runs EXCEPT
                ![r].state = IF verdict /\ Ready(index.contract)
                             THEN "RELEASED" ELSE "QUARANTINED",
                ![r].judged = index.contract.version]
    /\ UNCHANGED <<index, disk, pc, faults>>

(* /release: the run is judged by the contract and the workflow the record *)
(* holds now.  A cleaning step the run never had has no artifact, and the  *)
(* call raises before it decides; verdict stands for the other checks.     *)
ReleaseRun ==
    /\ pc = "idle"
    /\ \E r \in index.linked, verdict \in BOOLEAN :
          /\ runs[r].state \in {"RUNNING", "VERIFYING"}
          /\ index.workflow.cleaning \subseteq runs[r].workflow.cleaning
          /\ runs' = [runs EXCEPT
                ![r].state = IF /\ @ = "VERIFYING" /\ verdict
                                /\ Ready(index.contract)
                             THEN "RELEASED" ELSE "QUARANTINED",
                ![r].judged = index.contract.version]
    /\ UNCHANGED <<index, disk, pc, faults>>
-----------------------------------------------------------------------------
Crash ==
    /\ pc # "down"
    /\ faults < MaxFaults
    /\ faults' = faults + 1
    /\ pc' = "down"
    /\ UNCHANGED <<index, disk, runs>>

(* SessionStore.__init__ fails on a truncated file.                        *)
Restart ==
    /\ pc = "down"
    /\ disk # Torn
    /\ index' = disk
    /\ pc' = "idle"
    /\ UNCHANGED <<disk, runs, faults>>

Next == \/ ReviseRequirement \/ ApproveRequirement \/ PlanRequirement
        \/ ApproveCleaningRules
        \/ StartRun \/ StartRaises \/ LinkRun \/ ExecuteRun \/ ReleaseRun
        \/ Saved \/ SaveFails
        \/ Crash \/ Restart

Spec == Init /\ [][Next]_vars
-----------------------------------------------------------------------------
Versions == 1..(MaxRevisions + 1)
Plans == 0..MaxPlans
RunStates == {"DRAFT", "APPROVED", "RUNNING", "VERIFYING", "QUARANTINED", "RELEASED"}

Workflows == [from : 0..(MaxRevisions + 1), plan : Plans,
              cleaning : SUBSET Rules]
Contracts == [version : Versions, open : BOOLEAN, sourced : BOOLEAN,
              status : {"BLOCKED", "DRAFT", "APPROVED"}]
Approvals == SUBSET (Rules \X Plans)
Indexes == [contract : Contracts, workflow : Workflows,
            proposed : SUBSET Rules, approved : Approvals,
            linked : SUBSET (1..MaxRuns)]
Runs == [workflow : Workflows, required : SUBSET Rules,
         approved : Approvals, state : RunStates, executed : BOOLEAN,
         judged : 0..(MaxRevisions + 1)]

TypeOK == /\ index \in Indexes
          /\ disk \in Indexes \cup {Torn}
          /\ runs \in Seq(Runs) /\ Len(runs) <= MaxRuns
          /\ pc \in {"idle", "save", "link", "save_link", "run", "down"}
          /\ faults \in 0..MaxFaults

(* The approvals on record and the steps of the workflow never diverge,    *)
(* and every approval was given for the plan it now stands beside          *)
(* (update_contract's comment), across re-plans and restarts.              *)
Agrees(ix) ==
    /\ ix.workflow.cleaning = ApprovedRules(ix)
    /\ \A a \in ix.approved : a[1] \in ix.proposed /\ a[2] = ix.workflow.plan

ApprovalsAreCurrent == Agrees(index) /\ (disk # Torn => Agrees(disk))

(* Every run there ever was had each of its plan's lossy rules approved by *)
(* a human for that very plan, and put into its steps.                     *)
RunsHonourApprovals ==
    \A r \in 1..Len(runs) : \A rule \in runs[r].required :
        /\ rule \in runs[r].workflow.cleaning
        /\ <<rule, runs[r].workflow.plan>> \in runs[r].approved

(* A run that run() took up is on record, so /release and /explain find    *)
(* it: no failed write, crash or restart forgets it, whichever handler     *)
(* they end (start_requirement_run links and saves before it executes).    *)
ExecutedRunsAreLinked ==
    \A r \in 1..Len(runs) : runs[r].executed =>
        /\ pc # "down" => r \in index.linked
        /\ disk # Torn => r \in disk.linked

(* A judged run is never judged again: the verdict stands whatever is      *)
(* revised, planned or released afterwards.                                *)
VerdictsStand ==
    [][\A r \in 1..Len(runs) :
          runs[r].judged # 0 => runs'[r] = runs[r]]_vars
-----------------------------------------------------------------------------
(* The inductive invariant: besides the above, what the position inside a  *)
(* handler says of the file and of the latest run.                         *)
LinksExist ==
    /\ index.linked \subseteq 1..Len(runs)
    /\ disk # Torn => disk.linked \subseteq 1..Len(runs)

Starting ==
    /\ pc \in {"link", "save_link", "run"} =>
          Len(runs) > 0 /\ runs[Len(runs)].judged = 0
    /\ pc \in {"save_link", "run"} => Len(runs) \in index.linked
    /\ pc = "run" => disk = index

Judged == \A r \in 1..Len(runs) :
             runs[r].judged # 0 => runs[r].state \in {"QUARANTINED", "RELEASED"}

IInv == /\ TypeOK
        /\ ApprovalsAreCurrent
        /\ RunsHonourApprovals
        /\ ExecutedRunsAreLinked
        /\ LinksExist /\ Starting /\ Judged
-----------------------------------------------------------------------------
(* What the documentation says and the API does not keep.                  *)

(* A released run satisfies the contract it was planned from, which the    *)
(* verifier is to decide (independent_verifier.py).                        *)
ReleasedForItsContract ==
    \A r \in 1..Len(runs) : runs[r].state = "RELEASED" =>
        runs[r].judged = runs[r].workflow.from

(* "Each approved rule becomes a step": a rule still to be approved can be *)
(* (apply_cleaning_rules).                                                 *)
UnresolvedCanBeApproved ==
    Planned => \A rule \in Unresolved(index) :
        CanApply(index.workflow, ApprovedRules(index) \cup {rule})
=============================================================================
