------------------------ MODULE AnalystSessionProofs ------------------------
(***************************************************************************)
(* The safety of the session store for any set of rules and any number of  *)
(* revisions, plans, runs, deaths of the process and failed writes.         *)
(***************************************************************************)
EXTENDS AnalystSession, TLAPS

LEMMA AppendFacts ==
    ASSUME NEW S, NEW seq \in Seq(S), NEW e \in S
    PROVE  /\ Append(seq, e) \in Seq(S)
           /\ Len(Append(seq, e)) = Len(seq) + 1
           /\ Append(seq, e)[Len(seq) + 1] = e
           /\ \A i \in 1..Len(seq) : Append(seq, e)[i] = seq[i]
OBVIOUS

LEMMA UpdateFacts ==
    ASSUME NEW S, NEW seq \in Seq(S), NEW k \in 1..Len(seq), NEW e \in S
    PROVE  /\ [seq EXCEPT ![k] = e] \in Seq(S)
           /\ Len([seq EXCEPT ![k] = e]) = Len(seq)
           /\ \A i \in 1..Len(seq) :
                 [seq EXCEPT ![k] = e][i] = IF i = k THEN e ELSE seq[i]
OBVIOUS

LEMMA ContractTyped ==
    ASSUME NEW v \in Versions, NEW wanted \in {"BLOCKED", "DRAFT", "APPROVED"},
           NEW open \in BOOLEAN, NEW sourced \in BOOLEAN
    PROVE  Contract(v, wanted, open, sourced) \in Contracts
BY DEF Contract, Contracts

-----------------------------------------------------------------------------
(* A handler that ends in update_contract() and _save(): what the new      *)
(* index must satisfy, whatever the handler.                               *)
Fit(ix) == /\ ix \in Indexes
           /\ Agrees(ix)
           /\ index.linked \subseteq ix.linked
           /\ ix.linked \subseteq 1..Len(runs)

LEMMA CommitStep ==
    ASSUME IInv, NEW ix \in Indexes, Fit(ix),
           UNCHANGED <<runs, faults>>,
           \/ pc = "idle" /\ Commit(ix, "save")
           \/ /\ pc = "link" /\ Commit(ix, "save_link")
              /\ Len(runs) \in ix.linked
    PROVE  IInv'
<1>1. /\ index' = ix /\ disk' \in {disk, Torn} /\ pc' \in {"save", "save_link"}
      /\ runs' = runs /\ faults' = faults /\ pc \in {"idle", "link"}
  BY DEF Commit
<1>2. TypeOK'
  BY <1>1 DEF IInv, TypeOK
<1>3. ApprovalsAreCurrent'
  BY <1>1 DEF IInv, ApprovalsAreCurrent, Fit, Agrees, ApprovedRules
<1>4. RunsHonourApprovals' /\ Judged'
  BY <1>1 DEF IInv, RunsHonourApprovals, Judged
<1>5. ExecutedRunsAreLinked'
  BY <1>1 DEF IInv, ExecutedRunsAreLinked, Fit
<1>6. LinksExist'
  BY <1>1 DEF IInv, LinksExist, Fit
<1>7. Starting'
  BY <1>1 DEF IInv, Starting, Commit
<1> QED BY <1>2, <1>3, <1>4, <1>5, <1>6, <1>7 DEF IInv

LEMMA ReviseStep == IInv /\ ReviseRequirement => IInv'
<1> SUFFICES ASSUME IInv, ReviseRequirement PROVE IInv'
  OBVIOUS
<1>1. PICK open \in BOOLEAN :
         Commit([index EXCEPT !.contract =
                   Contract(@.version + 1, "DRAFT", open, @.sourced)], "save")
  BY DEF ReviseRequirement
<1> DEFINE c  == Contract(index.contract.version + 1, "DRAFT", open, index.contract.sourced)
           ix == [index EXCEPT !.contract = c]
<1>2. index \in Indexes /\ index.contract \in Contracts
  BY DEF IInv, TypeOK, Indexes
<1>3. index.contract.version + 1 \in Versions /\ index.contract.sourced \in BOOLEAN
  BY <1>2, BoundsAssumption DEF ReviseRequirement, Contracts, Versions
<1>4. c \in Contracts
  BY <1>3, ContractTyped
<1>5. ix \in Indexes
  BY <1>2, <1>4 DEF Indexes
<1>6. /\ ix.workflow = index.workflow /\ ix.approved = index.approved
      /\ ix.proposed = index.proposed /\ ix.linked = index.linked
  BY <1>2 DEF Indexes
<1>7. Fit(ix)
  BY <1>5, <1>6 DEF IInv, Fit, ApprovalsAreCurrent, Agrees, ApprovedRules, LinksExist
<1>8. pc = "idle" /\ Commit(ix, "save") /\ UNCHANGED <<runs, faults>>
  BY <1>1 DEF ReviseRequirement
<1> HIDE DEF ix
<1> QED BY <1>5, <1>7, <1>8, CommitStep

LEMMA ApproveStep == IInv /\ ApproveRequirement => IInv'
<1> SUFFICES ASSUME IInv, ApproveRequirement PROVE IInv'
  OBVIOUS
<1> DEFINE st == Contract(index.contract.status, "APPROVED", FALSE, index.contract.sourced).status
           c  == [index.contract EXCEPT !.status = st]
           ix == [index EXCEPT !.contract = c]
<1>2. index \in Indexes /\ index.contract \in Contracts
  BY DEF IInv, TypeOK, Indexes
<1>4. c \in Contracts
  BY <1>2 DEF Contracts, Contract
<1>5. ix \in Indexes
  BY <1>2, <1>4 DEF Indexes
<1>6. /\ ix.workflow = index.workflow /\ ix.approved = index.approved
      /\ ix.proposed = index.proposed /\ ix.linked = index.linked
  BY <1>2 DEF Indexes
<1>7. Fit(ix)
  BY <1>5, <1>6 DEF IInv, Fit, ApprovalsAreCurrent, Agrees, ApprovedRules, LinksExist
<1>8. pc = "idle" /\ Commit(ix, "save") /\ UNCHANGED <<runs, faults>>
  BY DEF ApproveRequirement
<1> HIDE DEF ix
<1> QED BY <1>5, <1>7, <1>8, CommitStep

LEMMA PlanStep == IInv /\ PlanRequirement => IInv'
<1> SUFFICES ASSUME IInv, PlanRequirement PROVE IInv'
  OBVIOUS
<1>1. PICK proposed \in SUBSET Rules :
         Commit([index EXCEPT !.workflow = [from |-> index.contract.version,
                                            plan |-> @.plan + 1,
                                            cleaning |-> {}],
                              !.proposed = proposed,
                              !.approved = {}], "save")
  BY DEF PlanRequirement
<1> DEFINE wf == [from |-> index.contract.version,
                  plan |-> index.workflow.plan + 1, cleaning |-> {}]
           ix == [index EXCEPT !.workflow = wf, !.proposed = proposed, !.approved = {}]
<1>2. /\ index \in Indexes /\ index.contract \in Contracts
      /\ index.workflow \in Workflows
  BY DEF IInv, TypeOK, Indexes
<1>3. /\ index.contract.version \in Versions /\ index.workflow.plan \in Plans
      /\ index.workflow.plan < MaxPlans
  BY <1>2 DEF PlanRequirement, Contracts, Workflows
<1>4. wf \in Workflows
  BY <1>3, BoundsAssumption DEF Workflows, Versions, Plans
<1>5. ix \in Indexes
  BY <1>2, <1>4 DEF Indexes, Approvals
<1>6. /\ ix.workflow.cleaning = {} /\ ix.approved = {} /\ ix.linked = index.linked
  BY <1>2 DEF Indexes
<1>7. Fit(ix)
  BY <1>5, <1>6 DEF IInv, Fit, Agrees, ApprovedRules, LinksExist
<1>8. pc = "idle" /\ Commit(ix, "save") /\ UNCHANGED <<runs, faults>>
  BY <1>1 DEF PlanRequirement
<1> HIDE DEF ix
<1> QED BY <1>5, <1>7, <1>8, CommitStep

LEMMA CleaningStep == IInv /\ ApproveCleaningRules => IInv'
<1> SUFFICES ASSUME IInv, ApproveCleaningRules PROVE IInv'
  OBVIOUS
<1> DEFINE given(requested) == ApprovedRules(index) \cup requested
           wf(requested) == ApplyCleaningRules(index.workflow, given(requested))
           new(requested) == index.approved \cup (requested \X {index.workflow.plan})
           ixOf(requested) == [index EXCEPT !.workflow = wf(requested),
                                            !.approved = new(requested)]
<1>1. PICK requested \in SUBSET index.proposed : Commit(ixOf(requested), "save")
  BY DEF ApproveCleaningRules
<1> DEFINE ix == ixOf(requested)
<1>2. /\ index \in Indexes /\ index.workflow \in Workflows
      /\ index.proposed \subseteq Rules /\ index.approved \subseteq Rules \X Plans
      /\ index.workflow.plan \in Plans /\ index.workflow.cleaning \subseteq Rules
  BY DEF IInv, TypeOK, Indexes, Workflows, Approvals
<1>3. Agrees(index)
  BY DEF IInv, ApprovalsAreCurrent
<1>4. given(requested) \subseteq Rules
  BY <1>2 DEF ApprovedRules
<1>5. /\ wf(requested) \in Workflows
      /\ wf(requested).plan = index.workflow.plan
      /\ wf(requested).cleaning = index.workflow.cleaning \cup given(requested)
  BY <1>2, <1>4 DEF Workflows, ApplyCleaningRules
<1>6. new(requested) \in Approvals
  BY <1>2 DEF Approvals
<1>7. ix \in Indexes
  BY <1>2, <1>5, <1>6 DEF Indexes
<1>8. /\ ix.workflow = wf(requested) /\ ix.approved = new(requested)
      /\ ix.proposed = index.proposed /\ ix.linked = index.linked
  BY <1>2 DEF Indexes
<1>9. ApprovedRules(ix) = given(requested)
  <2>1. {a[1] : a \in requested \X {index.workflow.plan}} = requested
    <3>1. ASSUME NEW q \in requested
          PROVE  q \in {a[1] : a \in requested \X {index.workflow.plan}}
      <4>1. <<q, index.workflow.plan>> \in requested \X {index.workflow.plan}
        OBVIOUS
      <4>2. <<q, index.workflow.plan>>[1] = q
        OBVIOUS
      <4> QED BY <4>1, <4>2
    <3> QED BY <3>1
  <2>2. {a[1] : a \in new(requested)} =
        {a[1] : a \in index.approved} \cup {a[1] : a \in requested \X {index.workflow.plan}}
    OBVIOUS
  <2> QED BY <2>1, <2>2, <1>8 DEF ApprovedRules
<1>10. ix.workflow.cleaning = ApprovedRules(ix)
  BY <1>3, <1>5, <1>8, <1>9 DEF Agrees
<1>11. \A a \in ix.approved : a[1] \in ix.proposed /\ a[2] = ix.workflow.plan
  BY <1>3, <1>5, <1>8 DEF Agrees
<1>12. Fit(ix)
  BY <1>7, <1>8, <1>10, <1>11 DEF IInv, Fit, Agrees, LinksExist
<1>13. pc = "idle" /\ Commit(ix, "save") /\ UNCHANGED <<runs, faults>>
  BY <1>1 DEF ApproveCleaningRules
<1> HIDE DEF ix
<1> QED BY <1>7, <1>12, <1>13, CommitStep

LEMMA LinkStep == IInv /\ LinkRun => IInv'
<1> SUFFICES ASSUME IInv, LinkRun PROVE IInv'
  OBVIOUS
<1> DEFINE ix == [index EXCEPT !.linked = @ \cup {Len(runs)}]
<1>1. index \in Indexes /\ Len(runs) \in 1..MaxRuns /\ index.linked \subseteq 1..MaxRuns
  BY BoundsAssumption DEF IInv, TypeOK, Starting, LinkRun, Indexes
<1>2. ix \in Indexes
  BY <1>1 DEF Indexes
<1>3. /\ ix.workflow = index.workflow /\ ix.approved = index.approved
      /\ ix.proposed = index.proposed
      /\ ix.linked = index.linked \cup {Len(runs)}
  BY <1>1 DEF Indexes
<1>4. Agrees(ix)
  BY <1>3 DEF IInv, ApprovalsAreCurrent, Agrees, ApprovedRules
<1>5. Fit(ix)
  BY <1>1, <1>2, <1>3, <1>4 DEF IInv, Fit, LinksExist
<1>6. /\ pc = "link" /\ Commit(ix, "save_link") /\ UNCHANGED <<runs, faults>>
      /\ Len(runs) \in ix.linked
  BY <1>3 DEF LinkRun
<1> HIDE DEF ix
<1> QED BY <1>2, <1>5, <1>6, CommitStep
-----------------------------------------------------------------------------
(* The steps that change the runs.                                         *)

(* A run is created, whether start_run() returns its id or raises.         *)
LEMMA CreateRun ==
    ASSUME IInv, pc = "idle", Unresolved(index) = {}, Len(runs) < MaxRuns,
           NEW e \in Runs, e.workflow = index.workflow,
           e.required = index.proposed, e.approved = index.approved,
           e.judged = 0, ~e.executed, runs' = Append(runs, e),
           pc' \in {"idle", "link"}, UNCHANGED <<index, disk, faults>>
    PROVE  IInv'
<1>2. index \in Indexes /\ runs \in Seq(Runs) /\ Len(runs) \in Nat
  BY DEF IInv, TypeOK
<1>4. /\ runs' \in Seq(Runs) /\ Len(runs') = Len(runs) + 1
      /\ runs'[Len(runs) + 1] = e
      /\ \A i \in 1..Len(runs) : runs'[i] = runs[i]
  BY <1>2, AppendFacts
<1>5. \A i \in 1..Len(runs') : i \in 1..Len(runs) \/ i = Len(runs) + 1
  BY <1>2, <1>4
<1>6. TypeOK'
  BY <1>2, <1>4, BoundsAssumption DEF IInv, TypeOK
<1>7. ApprovalsAreCurrent'
  BY DEF IInv, ApprovalsAreCurrent, Agrees, ApprovedRules
<1>8. RunsHonourApprovals'
  <2>1. ASSUME NEW rule \in e.required
        PROVE  /\ rule \in e.workflow.cleaning
               /\ <<rule, e.workflow.plan>> \in e.approved
    <3>1. rule \in index.proposed /\ rule \in ApprovedRules(index)
      BY <2>1 DEF Unresolved
    <3>2. PICK a \in index.approved : rule = a[1]
      BY <3>1 DEF ApprovedRules
    <3>3. a[2] = index.workflow.plan /\ index.workflow.cleaning = ApprovedRules(index)
      BY <3>2 DEF IInv, ApprovalsAreCurrent, Agrees
    <3>4. a \in Rules \X Plans
      BY <3>2, <1>2 DEF Indexes, Approvals
    <3>5. a = <<a[1], a[2]>>
      BY <3>4
    <3> QED BY <3>1, <3>2, <3>3, <3>5
  <2> QED BY <2>1, <1>4, <1>5 DEF IInv, RunsHonourApprovals
<1>9. Judged'
  BY <1>4, <1>5 DEF IInv, Judged
<1>10. ExecutedRunsAreLinked'
  BY <1>4, <1>5 DEF IInv, ExecutedRunsAreLinked
<1>11. LinksExist'
  BY <1>2, <1>4 DEF IInv, LinksExist
<1>12. Starting'
  <2>1. pc' # "save_link" /\ pc' # "run"
    OBVIOUS
  <2>2. Len(runs') > 0 /\ runs'[Len(runs')].judged = 0
    BY <1>2, <1>4
  <2> QED BY <2>1, <2>2 DEF Starting
<1> QED BY <1>6, <1>7, <1>8, <1>9, <1>10, <1>11, <1>12 DEF IInv

LEMMA NewRunFacts ==
    ASSUME IInv, NEW state \in {"DRAFT", "APPROVED", "RUNNING"}
    PROVE  LET e == [NewRun EXCEPT !.state = state]
           IN  /\ NewRun \in Runs /\ e \in Runs
               /\ e.workflow = index.workflow /\ e.required = index.proposed
               /\ e.approved = index.approved /\ e.judged = 0 /\ ~e.executed
<1>1. index \in Indexes
  BY DEF IInv, TypeOK
<1>2. NewRun \in Runs
  BY <1>1, BoundsAssumption DEF NewRun, Runs, Indexes, RunStates
<1> DEFINE e == [NewRun EXCEPT !.state = state]
<1>3. /\ e \in Runs /\ e.workflow = NewRun.workflow
      /\ e.required = NewRun.required /\ e.approved = NewRun.approved
      /\ e.judged = NewRun.judged /\ e.executed = NewRun.executed
  BY <1>2 DEF Runs, RunStates
<1> QED BY <1>2, <1>3 DEF NewRun

LEMMA StartStep == IInv /\ StartRun => IInv'
<1> SUFFICES ASSUME IInv, StartRun PROVE IInv'
  OBVIOUS
<1>1. /\ pc = "idle" /\ Unresolved(index) = {} /\ Len(runs) < MaxRuns
      /\ runs' = Append(runs, NewRun) /\ pc' = "link"
      /\ UNCHANGED <<index, disk, faults>>
  BY DEF StartRun
<1>2. /\ NewRun.workflow = index.workflow /\ NewRun.required = index.proposed
      /\ NewRun.approved = index.approved /\ NewRun.judged = 0
      /\ ~NewRun.executed
  BY DEF NewRun
<1> QED BY <1>1, <1>2, NewRunFacts, CreateRun

LEMMA StartRaisesStep == IInv /\ StartRaises => IInv'
<1> SUFFICES ASSUME IInv, StartRaises PROVE IInv'
  OBVIOUS
<1>1. PICK state \in {"DRAFT", "APPROVED", "RUNNING"} :
         runs' = Append(runs, [NewRun EXCEPT !.state = state])
  BY DEF StartRaises
<1>2. /\ pc = "idle" /\ Unresolved(index) = {} /\ Len(runs) < MaxRuns
      /\ pc' = "idle" /\ UNCHANGED <<index, disk, faults>>
  BY DEF StartRaises
<1> QED BY <1>1, <1>2, NewRunFacts, CreateRun

(* A run gets a new state, or a new state and a judgement.                 *)
LEMMA ChangeRun ==
    ASSUME IInv, NEW r \in 1..Len(runs), NEW e \in Runs,
           e.workflow = runs[r].workflow, e.required = runs[r].required,
           e.approved = runs[r].approved,
           e.judged # 0 => e.state \in {"QUARANTINED", "RELEASED"},
           e.executed => (runs[r].executed \/ disk = index),
           runs' = [runs EXCEPT ![r] = e],
           pc' = "idle", pc \in {"idle", "run"}, r \in index.linked,
           UNCHANGED <<index, disk, faults>>
    PROVE  IInv'
<1>1. runs \in Seq(Runs) /\ Len(runs) \in Nat /\ Len(runs) <= MaxRuns
  BY DEF IInv, TypeOK
<1>2. /\ runs' \in Seq(Runs) /\ Len(runs') = Len(runs)
      /\ \A i \in 1..Len(runs) : runs'[i] = IF i = r THEN e ELSE runs[i]
  BY <1>1, UpdateFacts
<1>3. TypeOK'
  BY <1>1, <1>2 DEF IInv, TypeOK
<1>4. ApprovalsAreCurrent'
  BY DEF IInv, ApprovalsAreCurrent, Agrees, ApprovedRules
<1>5. RunsHonourApprovals'
  BY <1>2 DEF IInv, RunsHonourApprovals
<1>6. Judged'
  BY <1>2 DEF IInv, Judged
<1>7. LinksExist'
  BY <1>2 DEF IInv, LinksExist
<1>8. ExecutedRunsAreLinked'
  BY <1>2 DEF IInv, ExecutedRunsAreLinked
<1>9. Starting'
  BY DEF Starting
<1> QED BY <1>3, <1>4, <1>5, <1>6, <1>7, <1>8, <1>9 DEF IInv

LEMMA ExecuteStep == IInv /\ ExecuteRun => IInv'
<1> SUFFICES ASSUME IInv, ExecuteRun PROVE IInv'
  OBVIOUS
<1>1. PICK state \in {"VERIFYING", "QUARANTINED", "RUNNING"} :
         runs' = [runs EXCEPT ![Len(runs)].state = state,
                              ![Len(runs)].executed = TRUE]
  BY DEF ExecuteRun
<1>2. /\ Len(runs) \in 1..Len(runs) /\ runs[Len(runs)].judged = 0
      /\ Len(runs) \in index.linked /\ disk = index
  BY DEF IInv, TypeOK, Starting, ExecuteRun
<1> DEFINE e == [runs[Len(runs)] EXCEPT !.state = state, !.executed = TRUE]
<1>3. runs[Len(runs)] \in Runs
  BY <1>2 DEF IInv, TypeOK
<1>4. /\ e \in Runs /\ e.workflow = runs[Len(runs)].workflow
      /\ e.required = runs[Len(runs)].required
      /\ e.approved = runs[Len(runs)].approved /\ e.judged = 0
  BY <1>2, <1>3 DEF Runs, RunStates
<1>5. runs' = [runs EXCEPT ![Len(runs)] = e]
  BY <1>1, <1>2, <1>3 DEF IInv, TypeOK
<1>6. pc = "run" /\ pc' = "idle" /\ UNCHANGED <<index, disk, faults>>
  BY DEF ExecuteRun
<1> HIDE DEF e
<1> QED BY <1>2, <1>4, <1>5, <1>6, ChangeRun

LEMMA ReleaseStep == IInv /\ ReleaseRun => IInv'
<1> SUFFICES ASSUME IInv, ReleaseRun PROVE IInv'
  OBVIOUS
<1>1. PICK r \in index.linked, verdict \in BOOLEAN :
         runs' = [runs EXCEPT
                ![r].state = IF /\ @ = "VERIFYING" /\ verdict
                                /\ Ready(index.contract)
                             THEN "RELEASED" ELSE "QUARANTINED",
                ![r].judged = index.contract.version]
  BY DEF ReleaseRun
<1>2. r \in 1..Len(runs)
  BY DEF IInv, LinksExist
<1>3. /\ runs[r] \in Runs /\ runs \in Seq(Runs)
      /\ index.contract.version \in 0..(MaxRevisions + 1)
  BY <1>2, BoundsAssumption DEF IInv, TypeOK, Indexes, Contracts, Versions
<1> DEFINE s == IF runs[r].state = "VERIFYING" /\ verdict /\ Ready(index.contract)
                THEN "RELEASED" ELSE "QUARANTINED"
           e == [runs[r] EXCEPT !.state = s, !.judged = index.contract.version]
<1>4. s \in {"RELEASED", "QUARANTINED"}
  OBVIOUS
<1>5. runs' = [runs EXCEPT ![r] = e]
  BY <1>1, <1>2, <1>3
<1> HIDE DEF s
<1>6. /\ e \in Runs /\ e.workflow = runs[r].workflow
      /\ e.required = runs[r].required /\ e.approved = runs[r].approved
      /\ e.executed = runs[r].executed
      /\ e.state \in {"RELEASED", "QUARANTINED"}
  BY <1>3, <1>4 DEF Runs, RunStates
<1>7. pc = "idle" /\ pc' = "idle" /\ UNCHANGED <<index, disk, faults>>
  BY DEF ReleaseRun
<1> HIDE DEF e
<1> QED BY <1>2, <1>5, <1>6, <1>7, ChangeRun
-----------------------------------------------------------------------------
(* The steps that change nothing but the file, the memory and the pc.      *)

LEMMA SavedStep == IInv /\ Saved => IInv'
<1> SUFFICES ASSUME IInv, Saved PROVE IInv'
  OBVIOUS
<1>1. /\ pc \in {"save", "save_link"} /\ disk' = index /\ index' = index
      /\ pc' \in {"idle", "run"}
      /\ pc' = "run" => pc = "save_link"
      /\ runs' = runs /\ faults' = faults
  BY DEF Saved
<1>2. TypeOK'
  BY <1>1 DEF IInv, TypeOK
<1>3. ApprovalsAreCurrent'
  BY <1>1 DEF IInv, ApprovalsAreCurrent, Agrees, ApprovedRules
<1>4. RunsHonourApprovals' /\ Judged'
  BY <1>1 DEF IInv, RunsHonourApprovals, Judged
<1>5. ExecutedRunsAreLinked'
  BY <1>1 DEF IInv, ExecutedRunsAreLinked
<1>6. LinksExist' /\ Starting'
  BY <1>1 DEF IInv, LinksExist, Starting
<1> QED BY <1>2, <1>3, <1>4, <1>5, <1>6 DEF IInv

LEMMA SaveFailsStep == IInv /\ SaveFails => IInv'
<1> SUFFICES ASSUME IInv, SaveFails PROVE IInv'
  OBVIOUS
<1>1. /\ pc \in {"save", "save_link"} /\ pc' = "idle" /\ disk' = disk
      /\ index' = index /\ runs' = runs
      /\ faults < MaxFaults /\ faults' = faults + 1
  BY DEF SaveFails
<1>2. TypeOK'
  BY <1>1, BoundsAssumption DEF IInv, TypeOK
<1>3. ApprovalsAreCurrent'
  BY <1>1 DEF IInv, ApprovalsAreCurrent, Agrees, ApprovedRules
<1>4. RunsHonourApprovals' /\ Judged'
  BY <1>1 DEF IInv, RunsHonourApprovals, Judged
<1>5. ExecutedRunsAreLinked'
  BY <1>1 DEF IInv, ExecutedRunsAreLinked
<1>6. LinksExist' /\ Starting'
  BY <1>1 DEF IInv, LinksExist, Starting
<1> QED BY <1>2, <1>3, <1>4, <1>5, <1>6 DEF IInv

LEMMA CrashStep == IInv /\ Crash => IInv'
<1> SUFFICES ASSUME IInv, Crash PROVE IInv'
  OBVIOUS
<1>1. /\ pc' = "down" /\ disk' = disk /\ index' = index /\ runs' = runs
      /\ faults < MaxFaults /\ faults' = faults + 1
  BY DEF Crash
<1>2. TypeOK'
  BY <1>1, BoundsAssumption DEF IInv, TypeOK
<1>3. ApprovalsAreCurrent'
  BY <1>1 DEF IInv, ApprovalsAreCurrent, Agrees, ApprovedRules
<1>4. RunsHonourApprovals' /\ Judged'
  BY <1>1 DEF IInv, RunsHonourApprovals, Judged
<1>5. ExecutedRunsAreLinked'
  BY <1>1 DEF IInv, ExecutedRunsAreLinked
<1>6. LinksExist' /\ Starting'
  BY <1>1 DEF IInv, LinksExist, Starting
<1> QED BY <1>2, <1>3, <1>4, <1>5, <1>6 DEF IInv

LEMMA RestartStep == IInv /\ Restart => IInv'
<1> SUFFICES ASSUME IInv, Restart PROVE IInv'
  OBVIOUS
<1>1. /\ pc = "down" /\ pc' = "idle" /\ disk # Torn /\ disk' = disk
      /\ index' = disk /\ runs' = runs /\ faults' = faults
  BY DEF Restart
<1>2. TypeOK'
  BY <1>1 DEF IInv, TypeOK
<1>3. ApprovalsAreCurrent'
  BY <1>1 DEF IInv, ApprovalsAreCurrent, Agrees, ApprovedRules
<1>4. RunsHonourApprovals' /\ Judged'
  BY <1>1 DEF IInv, RunsHonourApprovals, Judged
<1>5. ExecutedRunsAreLinked'
  BY <1>1 DEF IInv, ExecutedRunsAreLinked
<1>6. LinksExist' /\ Starting'
  BY <1>1 DEF IInv, LinksExist, Starting
<1> QED BY <1>2, <1>3, <1>4, <1>5, <1>6 DEF IInv

LEMMA StutterStep == IInv /\ UNCHANGED vars => IInv'
<1> SUFFICES ASSUME IInv, UNCHANGED vars PROVE IInv'
  OBVIOUS
<1>1. /\ pc' = pc /\ disk' = disk /\ index' = index /\ runs' = runs
      /\ faults' = faults
  BY DEF vars
<1>2. TypeOK'
  BY <1>1 DEF IInv, TypeOK
<1>3. ApprovalsAreCurrent'
  BY <1>1 DEF IInv, ApprovalsAreCurrent, Agrees, ApprovedRules
<1>4. RunsHonourApprovals' /\ Judged' /\ ExecutedRunsAreLinked'
  BY <1>1 DEF IInv, RunsHonourApprovals, Judged, ExecutedRunsAreLinked
<1>5. LinksExist' /\ Starting'
  BY <1>1 DEF IInv, LinksExist, Starting
<1> QED BY <1>2, <1>3, <1>4, <1>5 DEF IInv

LEMMA Initially == Init => IInv
<1> SUFFICES ASSUME Init PROVE IInv
  OBVIOUS
<1>1. PICK open \in BOOLEAN, sourced \in BOOLEAN :
        index = [contract |-> Contract(1, "DRAFT", open, sourced),
                 workflow |-> NoWorkflow, proposed |-> {},
                 approved |-> {}, linked |-> {}]
  BY DEF Init
<1>2. /\ disk = index /\ runs = <<>> /\ pc = "idle" /\ faults = 0
  BY DEF Init
<1>3. Contract(1, "DRAFT", open, sourced) \in Contracts
  BY ContractTyped, BoundsAssumption DEF Versions
<1>4. NoWorkflow \in Workflows
  BY BoundsAssumption DEF NoWorkflow, Workflows, Plans
<1>5. index \in Indexes
  BY <1>1, <1>3, <1>4 DEF Indexes, Approvals
<1>6. /\ index.workflow.cleaning = {} /\ index.approved = {} /\ index.linked = {}
  BY <1>1 DEF NoWorkflow
<1>7. TypeOK
  BY <1>2, <1>5, BoundsAssumption DEF TypeOK
<1>8. ApprovalsAreCurrent
  BY <1>2, <1>6 DEF ApprovalsAreCurrent, Agrees, ApprovedRules
<1>9. RunsHonourApprovals /\ Judged /\ ExecutedRunsAreLinked
  BY <1>2 DEF RunsHonourApprovals, Judged, ExecutedRunsAreLinked
<1>10. LinksExist /\ Starting
  BY <1>2, <1>6 DEF LinksExist, Starting
<1> QED BY <1>7, <1>8, <1>9, <1>10 DEF IInv

LEMMA Inductive == IInv /\ [Next]_vars => IInv'
BY ReviseStep, ApproveStep, PlanStep, CleaningStep, LinkStep, StartStep,
   StartRaisesStep, ExecuteStep, ReleaseStep, SavedStep, SaveFailsStep,
   CrashStep, RestartStep, StutterStep
   DEF Next
-----------------------------------------------------------------------------
(* The inductive invariant holds in every reachable state.                 *)
THEOREM Invariance == Spec => []IInv
BY Initially, Inductive, PTL DEF Spec

(* Approvals, plan and workflow of the record never diverge, in memory or  *)
(* on disk.                                                                *)
THEOREM ApprovalSafety == Spec => []ApprovalsAreCurrent
<1>1. IInv => ApprovalsAreCurrent
  BY DEF IInv
<1> QED BY <1>1, Invariance, PTL

(* No run ever starts with a lossy rule of its plan unapproved or missing  *)
(* from its steps.                                                         *)
THEOREM RunSafety == Spec => []RunsHonourApprovals
<1>1. IInv => RunsHonourApprovals
  BY DEF IInv
<1> QED BY <1>1, Invariance, PTL

(* No failed write and no crash makes the record forget a run that run()   *)
(* took up.                                                                *)
THEOREM LinkSafety == Spec => []ExecutedRunsAreLinked
<1>1. IInv => ExecutedRunsAreLinked
  BY DEF IInv
<1> QED BY <1>1, Invariance, PTL

(* A judgement is final.                                                   *)
THEOREM VerdictSafety == Spec => VerdictsStand
<1>1. IInv /\ [Next]_vars =>
         [\A r \in 1..Len(runs) : runs[r].judged # 0 => runs'[r] = runs[r]]_vars
  <2> SUFFICES ASSUME IInv, Next, NEW r \in 1..Len(runs), runs[r].judged # 0
               PROVE  runs'[r] = runs[r]
    OBVIOUS
  <2>0. runs \in Seq(Runs) /\ runs[r].state \in {"QUARANTINED", "RELEASED"}
    BY DEF IInv, TypeOK, Judged
  <2>1. CASE StartRun
    <3>1. runs' = Append(runs, NewRun)
      BY <2>1 DEF StartRun
    <3> QED BY <3>1, <2>0
  <2>5. CASE StartRaises
    <3>1. \E e : runs' = Append(runs, e)
      BY <2>5 DEF StartRaises
    <3> QED BY <3>1, <2>0
  <2>2. CASE ExecuteRun
    <3>1. r # Len(runs)
      BY <2>2 DEF IInv, Starting, ExecuteRun
    <3> QED BY <3>1, <2>0, <2>2 DEF ExecuteRun
  <2>3. CASE ReleaseRun
    <3>1. PICK q \in index.linked :
             /\ runs[q].state \in {"RUNNING", "VERIFYING"}
             /\ \E s, v : runs' = [runs EXCEPT ![q].state = s, ![q].judged = v]
      BY <2>3 DEF ReleaseRun
    <3>2. q # r
      BY <3>1, <2>0
    <3> QED BY <3>1, <3>2, <2>0
  <2>4. CASE ~(StartRun \/ StartRaises \/ ExecuteRun \/ ReleaseRun)
    <3>1. runs' = runs
      BY <2>4 DEF Next, ReviseRequirement, ApproveRequirement,
         PlanRequirement, ApproveCleaningRules, LinkRun, Saved, SaveFails, Crash, Restart
    <3> QED BY <3>1
  <2> QED BY <2>1, <2>2, <2>3, <2>4, <2>5
<1> QED BY <1>1, Invariance, PTL DEF Spec, VerdictsStand
=============================================================================
