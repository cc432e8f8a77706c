-------------------------- MODULE GovernedRunsProofs -------------------------
(***************************************************************************)
(* Proofs about GovernedRuns, for any contracts, plans, profiles, frames   *)
(* and approvals.                                                          *)
(***************************************************************************)
EXTENDS GovernedRuns, WellFoundedInduction, TLAPS

-----------------------------------------------------------------------------
(* Drift lets data pass only when it honours the baseline.                 *)
LEMMA ContinueMeansNone ==
    ASSUME NEW changes, AutomationAction(DriftStatus(changes)) = "CONTINUE"
    PROVE  changes \cap (Breaking \cup ReviewRequired) = {}
<1>1. changes \cap Breaking = {}
  BY DEF AutomationAction, DriftStatus
<1>2. changes \cap ReviewRequired = {}
  BY <1>1 DEF AutomationAction, DriftStatus
<1>3. QED
  BY <1>1, <1>2

LEMMA NoColumnChange ==
    ASSUME NEW before, NEW now, ColumnChanges(before, now) = {},
           before.nulls \in Nat, now.nulls \in Nat,
           before.latest \in Nat, now.latest \in Nat
    PROVE  /\ now.type = before.type
           /\ before.key => now.key
           /\ now.nulls <= before.nulls + NullRateThreshold
           /\ (before.type \in TemporalTypes
                 /\ before.latest # 0 /\ now.latest # 0)
                 => now.latest >= before.latest
<1> DEFINE Kinds == Breaking \cup ReviewRequired
<1>1. /\ "dtype_changed" \in Kinds
      /\ "key_uniqueness_lost" \in Kinds
      /\ "null_rate_increased" \in Kinds
      /\ "date_coverage_regressed" \in Kinds
  BY DEF Breaking, ReviewRequired
<1>2. now.type = before.type
  BY <1>1 DEF ColumnChanges
<1>3. before.key => now.key
  BY <1>1 DEF ColumnChanges
<1>4. ~(now.nulls - before.nulls > NullRateThreshold)
  BY <1>1 DEF ColumnChanges
<1>5. ~(/\ before.type \in TemporalTypes
        /\ before.latest # 0 /\ now.latest # 0
        /\ now.latest < before.latest)
  BY <1>1 DEF ColumnChanges
<1>6. QED
  BY <1>2, <1>3, <1>4, <1>5 DEF NullRateThreshold

LEMMA PassedDataHonours ==
    ASSUME NEW baseline \in Profiles, NEW current \in Profiles,
           AutomationAction(DriftStatus(Changes(baseline, current))) = "CONTINUE"
    PROVE  Honours(baseline, current)
<1> DEFINE changes == Changes(baseline, current)
           Common == DOMAIN baseline.columns \cap DOMAIN current.columns
<1>1. changes \cap (Breaking \cup ReviewRequired) = {}
  BY ContinueMeansNone
<1>2. DOMAIN baseline.columns \subseteq DOMAIN current.columns
  <2>1. "column_removed" \in Breaking
    BY DEF Breaking
  <2>2. QED
    BY <1>1, <2>1 DEF Changes
<1>3. ASSUME NEW name \in Common
      PROVE  ColumnChanges(baseline.columns[name], current.columns[name]) = {}
  <2>1. ColumnChanges(baseline.columns[name], current.columns[name])
          \subseteq changes
    BY DEF Changes, ChangesOfColumns
  <2>2. ColumnChanges(baseline.columns[name], current.columns[name])
          \subseteq Breaking \cup ReviewRequired
    BY DEF ColumnChanges
  <2>3. QED
    BY <1>1, <2>1, <2>2
<1>4. ~RowCountShifted(baseline, current)
  <2>1. "row_count_shift" \in ReviewRequired
    BY DEF ReviewRequired
  <2>2. ASSUME RowCountShifted(baseline, current)
        PROVE  "row_count_shift" \in changes
    <3>1. "row_count_shift" \in RowCountChanges(baseline, current)
      BY <2>2 DEF RowCountChanges
    <3>2. RowCountChanges(baseline, current) \subseteq changes
      BY DEF Changes
    <3>3. QED
      BY <3>1, <3>2
  <2>3. QED
    BY <1>1, <2>1, <2>2
<1>5. ASSUME NEW name \in DOMAIN baseline.columns
      PROVE  /\ name \in DOMAIN current.columns
             /\ LET before == baseline.columns[name]
                    now    == current.columns[name]
                IN  /\ now.type = before.type
                    /\ before.key => now.key
                    /\ now.nulls <= before.nulls + NullRateThreshold
                    /\ (before.type \in TemporalTypes
                          /\ before.latest # 0 /\ now.latest # 0)
                          => now.latest >= before.latest
  <2>1. name \in Common
    BY <1>2
  <2>2. QED
    BY <1>3, <2>1, NoColumnChange, ProfilesAssumption
<1>6. baseline.rows > 0 => /\ 2 * current.rows >= baseline.rows
                           /\ 2 * current.rows <= 3 * baseline.rows
  BY <1>4, ProfilesAssumption DEF RowCountShifted, Distance
<1>7. QED
  BY <1>5, <1>6 DEF Honours
-----------------------------------------------------------------------------
(* Positions in a plan.                                                    *)
LEMMA LeastPosition ==
    ASSUME NEW T, T \subseteq Nat, T # {}
    PROVE  \E i \in T : \A j \in T : i <= j
<1>1. PICK i \in T : \A j \in T : <<j, i>> \notin OpToRel(<, Nat)
  BY WFMin, NatLessThanWellFounded
<1>2. ASSUME NEW j \in T
      PROVE  i <= j
  <2>1. i \in Nat /\ j \in Nat
    OBVIOUS
  <2>2. ~(j < i)
    BY <1>1, <2>1 DEF OpToRel
  <2>3. QED
    BY <2>1, <2>2
<1>3. QED
  BY <1>2

LEMMA Positions ==
    ASSUME NEW w \in Workflows
    PROVE  /\ Len(w.steps) \in Nat
           /\ DOMAIN w.steps = 1 .. Len(w.steps)
  BY WorkflowsAssumption

LEMMA IdsDistinct ==
    ASSUME NEW w \in Workflows
    PROVE  \A i, j \in DOMAIN w.steps : w.steps[i].id = w.steps[j].id => i = j
  BY ZenonT(30), WorkflowsAssumption

LEMMA StepAt ==
    ASSUME NEW w, NEW i \in DOMAIN w.steps
    PROVE  w.steps[i] \in StepsOf(w) /\ w.steps[i].id \in Ids(w)
  BY DEF StepsOf, Ids

LEMMA InputIsKnown ==
    ASSUME NEW w \in Workflows, NEW s \in StepsOf(w), Len(s.inputs) = 1
    PROVE  s.inputs[1] \in Ids(w) \cup w.sources
<1>1. s.inputs \in Seq(w.sources \cup Ids(w))
  BY WorkflowsAssumption
<1>2. 1 \in DOMAIN s.inputs
  BY <1>1
<1>3. QED
  BY <1>1, <1>2

LEMMA FirstIsStep ==
    ASSUME NEW w \in Workflows, NEW m, Covering(w, m) # {}
    PROVE  FirstCovering(w, m).id \in Ids(w)
<1>1. Covering(w, m) \subseteq DOMAIN w.steps
  BY DEF Covering
<1>2. Covering(w, m) \subseteq Nat
  BY <1>1, Positions
<1>3. PICK i \in Covering(w, m) : \A j \in Covering(w, m) : i <= j
  BY <1>2, LeastPosition
<1> DEFINE first == CHOOSE k \in Covering(w, m) : \A j \in Covering(w, m) : k <= j
<1>4. first \in Covering(w, m)
  BY <1>3
<1>5. FirstCovering(w, m) = w.steps[first]
  BY DEF FirstCovering
<1>6. QED
  BY <1>1, <1>4, <1>5, StepAt

LEMMA NextIsStep ==
    ASSUME NEW r, r.workflow \in Workflows, Unfinished(r)
    PROVE  NextStep(r).id \in Ids(r.workflow)
<1> DEFINE w == r.workflow
           Open == {i \in DOMAIN w.steps : w.steps[i].id \notin r.done}
           IsNext(i) == /\ w.steps[i].id \notin r.done
                        /\ \A j \in 1 .. i - 1 : w.steps[j].id \in r.done
           next == CHOOSE i \in DOMAIN w.steps : IsNext(i)
<1>1. Open # {}
  BY DEF Unfinished, Ids, StepsOf
<1>2. DOMAIN w.steps = 1 .. Len(w.steps) /\ Len(w.steps) \in Nat
  BY Positions
<1>3. Open \subseteq Nat
  BY <1>2
<1>4. PICK i \in Open : \A j \in Open : i <= j
  BY <1>1, <1>3, LeastPosition
<1>5. ASSUME NEW j \in 1 .. i - 1
      PROVE  w.steps[j].id \in r.done
  <2>1. i \in 1 .. Len(w.steps)
    BY <1>2
  <2>2. j \in DOMAIN w.steps /\ ~(i <= j)
    BY <1>2, <2>1
  <2>3. QED
    BY <1>4, <2>2
<1>6. i \in DOMAIN w.steps /\ IsNext(i)
  BY <1>5
<1>7. next \in DOMAIN w.steps
  BY <1>6
<1>8. NextStep(r) = w.steps[next]
  BY DEF NextStep
<1>9. QED
  BY <1>7, <1>8, StepAt

LEMMA LastClaimCovers ==
    ASSUME NEW w \in Workflows, NEW m, NEW i \in Covering(w, m),
           \A j \in Covering(w, m) : j <= i
    PROVE  LastCovering(w, m) = w.steps[i]
<1>1. \A j \in Covering(w, m) : j \in Nat
  BY Positions DEF Covering
<1>2. \A k \in Covering(w, m) : (\A j \in Covering(w, m) : j <= k) => k = i
  BY <1>1
<1>3. (CHOOSE k \in Covering(w, m) : \A j \in Covering(w, m) : j <= k) = i
  BY <1>2
<1>4. QED
  BY <1>3 DEF LastCovering
-----------------------------------------------------------------------------
(* What a RELEASE rests on.                                                *)
LEMMA ReleaseMeans ==
    ASSUME NEW c, NEW w, NEW r, Decision(c, w, r) = "RELEASE"
    PROVE  /\ r.state = "VERIFYING"
           /\ Defects(c, w, r) = {}
           /\ Failing(c, w, r.frames) = {}
           /\ ReconciliationStatus(c, w, r.frames) = "PASS"
           /\ ReadyForPlanning(c)
<1>1. Reasons(c, w, r) = {}
  BY DEF Decision
<1>2. ReasonsOfRun(c, w, r) = {}
  BY <1>1 DEF Reasons
<1>3. r.state = "VERIFYING" /\ ReadyForPlanning(c)
  BY <1>2 DEF ReasonsOfRun
<1>4. Verdict(c, w, r) = "PASS"
  BY <1>2 DEF ReasonsOfRun
<1>5. Defects(c, w, r) = {}
  BY <1>4 DEF Verdict
<1>6. /\ Failing(c, w, r.frames) = {}
      /\ ReconciliationStatus(c, w, r.frames) = "PASS"
  BY <1>1 DEF Reasons
<1>7. QED
  BY <1>3, <1>5, <1>6

LEMMA NoDefectMeans ==
    ASSUME NEW c, NEW w, NEW r, Defects(c, w, r) = {}
    PROVE  /\ \A s \in StepsOf(w) : s.id \in r.done
           /\ Uncovered(c, w, r.done) = {}
           /\ c.prohibited \cap OperationsOf(w) = {}
           /\ ~c.open
<1>1. EvidenceDefects(c, w, r) = {}
  BY DEF Defects
<1>2. \A s \in StepsOf(w) : s.id \in r.done
  BY <1>1 DEF EvidenceDefects
<1>3. Uncovered(c, w, r.done) = {}
  BY <1>1 DEF EvidenceDefects
<1>4. c.prohibited \cap OperationsOf(w) = {}
  BY DEF Defects
<1>5. ~c.open
  BY DEF Defects
<1>6. QED
  BY <1>2, <1>3, <1>4, <1>5

LEMMA ReleaseHasFullScores ==
    ASSUME NEW c, NEW w, NEW r, Decision(c, w, r) = "RELEASE"
    PROVE  FullScores(c, w, r) = Dimensions
<1>1. ~Blocked(c)
  BY ReleaseMeans DEF ReadyForPlanning, Status
<1>2. c.unclear = {} /\ ~c.open /\ c.sources # {}
  BY <1>1 DEF Blocked
<1>3. \A s \in StepsOf(w) : s.id \in r.done
  BY ReleaseMeans, NoDefectMeans
<1>4. QED
  BY <1>2, <1>3, ReleaseMeans DEF FullScores, Dimensions
-----------------------------------------------------------------------------
(* The invariant initially, and in what each action writes.                *)
LEMMA InitInv == Init => IInv
<1> SUFFICES ASSUME Init
             PROVE  IInv
  OBVIOUS
<1>1. TypeOK
  BY BoundAssumption DEF Init, TypeOK
<1>2. run.state = "none" /\ answer.decision = "none" /\ ~spec.kept
  BY DEF Init, NoRun, NoAnswer, NoSpec
<1>3. QED
  BY <1>1, <1>2 DEF IInv, ReleasedPassed, ReleasedScoresAreFull,
                    BaselineIsAgreed, ReplayedOnApprovedData

LEMMA Idle == NoRun.state = "none" /\ NoAnswer.decision = "none"
  BY DEF NoRun, NoAnswer

LEMMA PartialUse ==
    ASSUME NEW S, NEW T, NEW f \in Partial(S, T)
    PROVE  /\ DOMAIN f \subseteq S
           /\ \A x \in DOMAIN f : f[x] \in T
  BY DEF Partial

LEMMA PartialIntro ==
    ASSUME NEW S, NEW T, NEW D \in SUBSET S, NEW f \in [D -> T]
    PROVE  f \in Partial(S, T)
  BY DEF Partial

LEMMA IdsAreNodes ==
    ASSUME NEW w \in Workflows
    PROVE  Ids(w) \subseteq Nodes /\ w.sources \subseteq Nodes
  BY WorkflowsAssumption DEF Nodes

(* start_run(), whatever the entry point.                                  *)
LEMMA StartKeeps ==
    ASSUME IInv, NEW terms, NEW granted,
           NEW baseline \in Partial(Sources, Profiles),
           NEW approved \in Workflows,
           Start(terms, granted, baseline, approved, baseline),
           UNCHANGED spec
    PROVE  IInv'
<1> USE DEF Start
<1>1. TypeOK
  BY DEF IInv
<1>2. PICK f \in [workflow.sources -> Frames] :
        run' = [state |-> "RUNNING", workflow |-> workflow,
                locked |-> workflow.sources, done |-> {}, frames |-> f,
                approved |-> approved, agreed |-> baseline, data |-> data]
  OBVIOUS
<1>3. workflow \in Workflows /\ data \in [Sources -> Profiles]
  BY <1>1 DEF TypeOK
<1>4. f \in Partial(Nodes, Frames)
  BY <1>3, IdsAreNodes, PartialIntro
<1>5. run' \in Runs
  BY <1>2, <1>3, <1>4, WorkflowsAssumption DEF Runs
<1>6. started' \in 0 .. MaxRuns
  BY <1>1, BoundAssumption DEF TypeOK
<1>7. TypeOK'
  <2>1. run'.done \subseteq Ids(run'.workflow)
    BY <1>2
  <2>2. run'.done \cup run'.workflow.sources \subseteq DOMAIN run'.frames
    BY <1>2
  <2>3. run'.state = "RUNNING"
    BY <1>2
  <2>4. QED
    BY <1>1, <1>5, <1>6, <2>1, <2>2, <2>3 DEF TypeOK
<1>8. ReleasedPassed' /\ ReleasedScoresAreFull'
  BY <1>2, Idle DEF ReleasedPassed, ReleasedScoresAreFull
<1>9. ASSUME NEW s \in DOMAIN baseline
      PROVE  Honours(baseline[s], data[s])
  <2>1. baseline[s] \in Profiles /\ data[s] \in Profiles
    BY <1>3, PartialUse
  <2>2. AutomationAction(DriftStatus(Changes(baseline[s], data[s]))) = "CONTINUE"
    BY DEF Drifted
  <2>3. QED
    BY <2>1, <2>2, PassedDataHonours
<1>10. ReplayedOnApprovedData'
  BY <1>2, <1>9 DEF ReplayedOnApprovedData
<1>11. BaselineIsAgreed'
  BY DEF IInv, BaselineIsAgreed
<1>12. QED
  BY <1>7, <1>8, <1>10, <1>11 DEF IInv

(* A step of run() writes done, frames or state, and RELEASED is no state  *)
(* it writes.                                                              *)
LEMMA RunStepKeeps ==
    ASSUME IInv, run # NoRun, run' \in Runs,
           run'.workflow = run.workflow, run'.agreed = run.agreed,
           run'.data = run.data, run'.state # "RELEASED",
           run'.done \subseteq Ids(run.workflow),
           run'.done \cup run.workflow.sources \subseteq DOMAIN run'.frames,
           run'.state = "VERIFYING" => Ids(run.workflow) \subseteq run'.done,
           UNCHANGED <<contract, workflow, data, spec, answer, started>>
    PROVE  IInv'
<1>1. TypeOK
  BY DEF IInv
<1>2. TypeOK'
  BY <1>1 DEF TypeOK, Unfinished
<1>3. ReleasedPassed'
  BY DEF ReleasedPassed
<1>4. ReleasedScoresAreFull'
  BY DEF IInv, ReleasedScoresAreFull
<1>5. run.state # "none"
  BY <1>1 DEF TypeOK, Runs
<1>6. ReplayedOnApprovedData'
  BY <1>5 DEF IInv, ReplayedOnApprovedData
<1>7. BaselineIsAgreed'
  BY DEF IInv, BaselineIsAgreed
<1>8. QED
  BY <1>2, <1>3, <1>4, <1>6, <1>7 DEF IInv
-----------------------------------------------------------------------------
(* One lemma per action.                                                   *)
LEMMA RunIsTyped ==
    ASSUME TypeOK, run.state # "none"
    PROVE  /\ run # NoRun
           /\ run \in Runs
           /\ run.workflow \in Workflows
  BY Idle DEF TypeOK, Runs

LEMMA StartRunKeeps == IInv /\ StartRun => IInv'
<1> SUFFICES ASSUME IInv, StartRun
             PROVE  IInv'
  OBVIOUS
<1>1. PICK terms \in {NoTerms, Terms(contract)}, granted \in Grants :
        Start(terms, granted, NoBaseline, workflow, NoBaseline)
  BY DEF StartRun
<1>2. workflow \in Workflows
  BY DEF IInv, TypeOK
<1>3. NoBaseline \in Partial(Sources, Profiles)
  <2>1. NoBaseline \in [{} -> Profiles]
    BY DEF NoBaseline
  <2>2. {} \in SUBSET Sources
    OBVIOUS
  <2>3. QED
    BY <2>1, <2>2, PartialIntro
<1>4. UNCHANGED spec
  BY DEF StartRun
<1>5. QED
  BY <1>1, <1>2, <1>3, <1>4, StartKeeps

LEMMA StartAutomatedRunKeeps == IInv /\ StartAutomatedRun => IInv'
<1> SUFFICES ASSUME IInv, StartAutomatedRun
             PROVE  IInv'
  OBVIOUS
<1>1. PICK terms \in {NoTerms, Terms(contract)}, granted \in Grants :
        Start(terms, granted, spec.baseline, spec.from, spec.agreed)
  BY DEF StartAutomatedRun, AutomatedStart
<1>2. spec # NoSpec /\ UNCHANGED spec
  BY DEF StartAutomatedRun, AutomatedStart, NoSpec
<1>3. spec.from \in Workflows /\ spec.baseline \in Partial(Sources, Profiles)
  BY <1>2 DEF IInv, TypeOK
<1>4. spec.agreed = spec.baseline
  BY DEF IInv, BaselineIsAgreed, StartAutomatedRun, AutomatedStart
<1>5. Start(terms, granted, spec.baseline, spec.from, spec.baseline)
  BY <1>1, <1>4
<1>6. QED
  BY <1>2, <1>3, <1>5, StartKeeps

LEMMA SaveStepKeeps == IInv /\ SaveStep => IInv'
<1> SUFFICES ASSUME IInv, SaveStep
             PROVE  IInv'
  OBVIOUS
<1> USE DEF SaveStep
<1>1. TypeOK
  BY DEF IInv
<1>2. run # NoRun /\ run \in Runs /\ run.workflow \in Workflows
  BY <1>1, RunIsTyped
<1> DEFINE id == NextStep(run).id
           Nodes1 == DOMAIN run.frames \cup {id}
           With(f) == [n \in Nodes1 |-> IF n = id THEN f ELSE run.frames[n]]
<1>3. PICK f \in Frames : run' = [run EXCEPT !.frames = With(f)]
  OBVIOUS
<1>4. id \in Nodes
  BY <1>2, NextIsStep, IdsAreNodes
<1>5. run.frames \in Partial(Nodes, Frames)
  BY <1>2 DEF Runs
<1>6. With(f) \in Partial(Nodes, Frames)
  <2>1. DOMAIN run.frames \subseteq Nodes
        /\ \A n \in DOMAIN run.frames : run.frames[n] \in Frames
    BY <1>5, PartialUse
  <2>2. Nodes1 \in SUBSET Nodes
    BY <1>4, <2>1
  <2>3. With(f) \in [Nodes1 -> Frames]
    BY <2>1
  <2> HIDE DEF With, Nodes1
  <2>4. QED
    BY <2>2, <2>3, PartialIntro
<1>7. DOMAIN run.frames \subseteq DOMAIN With(f)
  OBVIOUS
<1> HIDE DEF With
<1>8. run' \in Runs
  BY <1>2, <1>3, <1>6 DEF Runs
<1>9. /\ run'.workflow = run.workflow /\ run'.agreed = run.agreed
      /\ run'.data = run.data /\ run'.state = "RUNNING"
      /\ run'.done = run.done /\ run'.frames = With(f)
  BY <1>2, <1>3 DEF Runs
<1>10. /\ run.done \subseteq Ids(run.workflow)
       /\ run.done \cup run.workflow.sources \subseteq DOMAIN run.frames
  BY <1>1, <1>2 DEF TypeOK
<1>11. QED
  BY <1>2, <1>7, <1>8, <1>9, <1>10, RunStepKeeps

LEMMA CompleteStepKeeps == IInv /\ CompleteStep => IInv'
<1> SUFFICES ASSUME IInv, CompleteStep
             PROVE  IInv'
  OBVIOUS
<1> USE DEF CompleteStep
<1>1. TypeOK
  BY DEF IInv
<1>2. run # NoRun /\ run \in Runs /\ run.workflow \in Workflows
  BY <1>1, RunIsTyped
<1> DEFINE id == NextStep(run).id
<1>3. id \in Ids(run.workflow) /\ id \in Nodes
  BY <1>2, NextIsStep, IdsAreNodes
<1>4. id \in DOMAIN run.frames
  OBVIOUS
<1>5. run' = [run EXCEPT !.done = run.done \cup {id}]
  OBVIOUS
<1> HIDE DEF id
<1>6. run' \in Runs
  BY <1>2, <1>3, <1>5 DEF Runs
<1>7. /\ run'.workflow = run.workflow /\ run'.agreed = run.agreed
      /\ run'.data = run.data /\ run'.state = "RUNNING"
      /\ run'.done = run.done \cup {id} /\ run'.frames = run.frames
  BY <1>2, <1>5 DEF Runs
<1>8. /\ run.done \subseteq Ids(run.workflow)
      /\ run.done \cup run.workflow.sources \subseteq DOMAIN run.frames
  BY <1>1, <1>2 DEF TypeOK
<1>9. QED
  BY <1>2, <1>3, <1>4, <1>6, <1>7, <1>8, RunStepKeeps

LEMMA FailStepKeeps == IInv /\ FailStep => IInv'
<1> SUFFICES ASSUME IInv, FailStep
             PROVE  IInv'
  OBVIOUS
<1> USE DEF FailStep
<1>1. TypeOK
  BY DEF IInv
<1>2. run # NoRun /\ run \in Runs
  BY <1>1, RunIsTyped
<1>3. run' \in Runs
  BY <1>2 DEF Runs
<1>4. /\ run'.workflow = run.workflow /\ run'.agreed = run.agreed
      /\ run'.data = run.data /\ run'.state = "QUARANTINED"
      /\ run'.done = run.done /\ run'.frames = run.frames
  BY <1>2 DEF Runs
<1>5. /\ run.done \subseteq Ids(run.workflow)
      /\ run.done \cup run.workflow.sources \subseteq DOMAIN run.frames
  BY <1>1, <1>2 DEF TypeOK
<1>6. QED
  BY <1>2, <1>3, <1>4, <1>5, RunStepKeeps

LEMMA FinishRunKeeps == IInv /\ FinishRun => IInv'
<1> SUFFICES ASSUME IInv, FinishRun
             PROVE  IInv'
  OBVIOUS
<1> USE DEF FinishRun
<1>1. TypeOK
  BY DEF IInv
<1>2. run # NoRun /\ run \in Runs
  BY <1>1, RunIsTyped
<1>3. run' \in Runs
  BY <1>2 DEF Runs
<1>4. /\ run'.workflow = run.workflow /\ run'.agreed = run.agreed
      /\ run'.data = run.data /\ run'.state = "VERIFYING"
      /\ run'.done = run.done /\ run'.frames = run.frames
  BY <1>2 DEF Runs
<1>5. /\ run.done \subseteq Ids(run.workflow)
      /\ run.done \cup run.workflow.sources \subseteq DOMAIN run.frames
  BY <1>1, <1>2 DEF TypeOK
<1>6. Ids(run.workflow) \subseteq run.done
  BY DEF Unfinished
<1>7. QED
  BY <1>2, <1>3, <1>4, <1>5, <1>6, RunStepKeeps

(* release() decides on the run as it was before the transition, and a run *)
(* that is over keeps its state.                                           *)
LEMMA ReleaseKeeps == IInv /\ Release => IInv'
<1> SUFFICES ASSUME IInv, Release
             PROVE  IInv'
  OBVIOUS
<1> DEFINE decision == Decision(contract, run.workflow, run)
           full == FullScores(contract, run.workflow, run)
           over == run.state \in Over
           verdict == IF decision = "RELEASE" THEN "RELEASED" ELSE "QUARANTINED"
<1>1. /\ answer' = [decision |-> decision, full |-> full]
      /\ run' = IF over THEN run ELSE [run EXCEPT !.state = verdict]
      /\ run # NoRun
      /\ UNCHANGED <<contract, workflow, data, spec, started>>
  BY DEF Release
<1>2. TypeOK
  BY DEF IInv
<1>3. run \in Runs
  BY <1>1, <1>2 DEF TypeOK
<1>4. decision \in {"RELEASE", "QUARANTINE"} /\ full \subseteq Dimensions
  BY DEF Decision, FullScores
<1>5. decision = "RELEASE" =>
        /\ run.state = "VERIFYING"
        /\ Defects(contract, run.workflow, run) = {}
        /\ ReconciliationStatus(contract, run.workflow, run.frames) = "PASS"
        /\ full = Dimensions
  BY ReleaseMeans, ReleaseHasFullScores
<1>6. /\ run'.workflow = run.workflow /\ run'.agreed = run.agreed
      /\ run'.data = run.data /\ run'.done = run.done
      /\ run'.frames = run.frames
      /\ run' \in Runs
      /\ run'.state = IF over THEN run.state ELSE verdict
  <2> HIDE DEF decision, over
  <2>1. CASE over
    BY <1>1, <1>3, <2>1
  <2>2. CASE ~over
    BY <1>1, <1>3, <2>2 DEF Runs
  <2>3. QED
    BY <2>1, <2>2
<1>7. run'.state \in {"VERIFYING", "RELEASED"} => ~Unfinished(run)
  <2>1. ASSUME run'.state \in {"VERIFYING", "RELEASED"}
        PROVE  run.state \in {"VERIFYING", "RELEASED"}
    BY <1>5, <1>6, <2>1
  <2>2. QED
    BY <1>1, <1>2, <2>1 DEF TypeOK
<1> HIDE DEF decision, full
<1>8. TypeOK'
  <2>1. /\ run.done \subseteq Ids(run.workflow)
        /\ run.done \cup run.workflow.sources \subseteq DOMAIN run.frames
    BY <1>1, <1>2 DEF TypeOK
  <2>2. run' # NoRun =>
          /\ run'.done \subseteq Ids(run'.workflow)
          /\ run'.done \cup run'.workflow.sources \subseteq DOMAIN run'.frames
          /\ run'.state \in {"VERIFYING", "RELEASED"} => ~Unfinished(run')
    BY <1>6, <1>7, <2>1 DEF Unfinished
  <2>3. answer'.decision \in {"RELEASE", "QUARANTINE"}
        /\ answer'.full \subseteq Dimensions
    BY <1>1, <1>4
  <2>4. QED
    BY <1>1, <1>2, <1>6, <2>2, <2>3 DEF TypeOK
<1>9. ReleasedPassed'
  <2> SUFFICES ASSUME run'.state = "RELEASED"
               PROVE  /\ contract.prohibited \cap OperationsOf(run.workflow) = {}
                      /\ Uncovered(contract, run.workflow, run.done) = {}
                      /\ ReconciliationStatus(contract, run.workflow, run.frames)
                            = "PASS"
    BY <1>1, <1>6 DEF ReleasedPassed
  <2>1. CASE over
    BY <1>6, <2>1 DEF IInv, ReleasedPassed
  <2>2. CASE ~over
    <3>1. decision = "RELEASE"
      BY <1>6, <2>2
    <3>2. QED
      BY <1>5, <3>1, NoDefectMeans
  <2>3. QED
    BY <2>1, <2>2
<1>10. ReleasedScoresAreFull'
  BY <1>1, <1>5 DEF ReleasedScoresAreFull
<1>11. ReplayedOnApprovedData'
  <2>1. run.state # "none"
    BY <1>3 DEF Runs
  <2>2. QED
    BY <1>6, <2>1 DEF IInv, ReplayedOnApprovedData
<1>12. BaselineIsAgreed'
  BY <1>1 DEF IInv, BaselineIsAgreed
<1>13. QED
  BY <1>8, <1>9, <1>10, <1>11, <1>12 DEF IInv

LEMMA BuildAutomationKeeps == IInv /\ BuildAutomation => IInv'
<1> SUFFICES ASSUME IInv, BuildAutomation
             PROVE  IInv'
  OBVIOUS
<1>1. TypeOK /\ run.state = "RELEASED"
  BY DEF IInv, BuildAutomation
<1>2. run \in Runs /\ run.workflow \in Workflows
  BY <1>1, RunIsTyped
<1>3. PICK watched \in SUBSET run.workflow.sources :
        spec' = [kept |-> TRUE, pins |-> Pins(run.workflow),
                 baseline |-> [s \in watched |-> run.data[s]],
                 from |-> run.workflow,
                 agreed |-> [s \in watched |-> run.data[s]]]
  BY DEF BuildAutomation
<1>4. watched \in SUBSET Sources
  BY <1>2, WorkflowsAssumption
<1>5. [s \in watched |-> run.data[s]] \in [watched -> Profiles]
  BY <1>2, <1>4 DEF Runs
<1>6. /\ spec'.baseline \in Partial(Sources, Profiles)
      /\ spec'.agreed = spec'.baseline
  BY <1>3, <1>4, <1>5, PartialIntro
<1>7. spec'.kept /\ spec'.from \in Workflows
  BY <1>2, <1>3
<1>8. UNCHANGED <<contract, workflow, data, run, answer, started>>
  BY DEF BuildAutomation
<1>9. TypeOK'
  BY <1>1, <1>6, <1>7, <1>8 DEF TypeOK, Unfinished
<1>10. QED
  BY <1>6, <1>8, <1>9 DEF IInv, ReleasedPassed, ReleasedScoresAreFull,
                          BaselineIsAgreed, ReplayedOnApprovedData

LEMMA ReplanKeeps == IInv /\ Replan => IInv'
<1> SUFFICES ASSUME IInv, Replan
             PROVE  IInv'
  OBVIOUS
<1>1. /\ workflow' \in Workflows
      /\ UNCHANGED <<contract, data, spec, run, answer, started>>
  BY DEF Replan
<1>2. TypeOK'
  BY <1>1 DEF IInv, TypeOK, Unfinished
<1>3. QED
  BY <1>1, <1>2 DEF IInv, ReleasedPassed, ReleasedScoresAreFull,
                    BaselineIsAgreed, ReplayedOnApprovedData

LEMMA SourceChangesKeeps == IInv /\ SourceChanges => IInv'
<1> SUFFICES ASSUME IInv, SourceChanges
             PROVE  IInv'
  OBVIOUS
<1>1. UNCHANGED <<contract, workflow, spec, run, answer, started>>
  BY DEF SourceChanges
<1>2. data' \in [Sources -> Profiles]
  <2>1. data \in [Sources -> Profiles]
    BY DEF IInv, TypeOK
  <2>2. PICK s \in Sources, p \in Profiles : data' = [data EXCEPT ![s] = p]
    BY DEF SourceChanges
  <2>3. QED
    BY <2>1, <2>2
<1>3. TypeOK'
  BY <1>1, <1>2 DEF IInv, TypeOK, Unfinished
<1>4. QED
  BY <1>1, <1>3 DEF IInv, ReleasedPassed, ReleasedScoresAreFull,
                    BaselineIsAgreed, ReplayedOnApprovedData

LEMMA StutterKeeps == IInv /\ UNCHANGED vars => IInv'
  BY DEF vars, IInv, TypeOK, Unfinished, ReleasedPassed,
         ReleasedScoresAreFull, BaselineIsAgreed, ReplayedOnApprovedData
-----------------------------------------------------------------------------
(* Types, what a released run passed, the scores of a RELEASE and the data *)
(* of an automated run, at every step.                                     *)
THEOREM Invariance == Spec => []IInv
<1>1. Init => IInv
  BY InitInv
<1>2. IInv /\ [Next]_vars => IInv'
  <2> SUFFICES ASSUME IInv, [Next]_vars
               PROVE  IInv'
    OBVIOUS
  <2>1. CASE StartRun
    BY <2>1, StartRunKeeps
  <2>2. CASE StartAutomatedRun
    BY <2>2, StartAutomatedRunKeeps
  <2>3. CASE SaveStep
    BY <2>3, SaveStepKeeps
  <2>4. CASE CompleteStep
    BY <2>4, CompleteStepKeeps
  <2>5. CASE FailStep
    BY <2>5, FailStepKeeps
  <2>6. CASE FinishRun
    BY <2>6, FinishRunKeeps
  <2>7. CASE Release
    BY <2>7, ReleaseKeeps
  <2>8. CASE BuildAutomation
    BY <2>8, BuildAutomationKeeps
  <2>9. CASE Replan
    BY <2>9, ReplanKeeps
  <2>10. CASE SourceChanges
    BY <2>10, SourceChangesKeeps
  <2>11. CASE UNCHANGED vars
    BY <2>11, StutterKeeps
  <2>12. QED
    BY <2>1, <2>2, <2>3, <2>4, <2>5, <2>6, <2>7, <2>8, <2>9, <2>10, <2>11
       DEF Next
<1>3. QED
  BY <1>1, <1>2, PTL DEF Spec

(* No run of release() lets a result out whose plan has an operation that  *)
(* its contract prohibits, whether or not the policy gate saw the contract.*)
THEOREM ProhibitionSafety == Spec => []ProhibitedNeverReleased
<1>1. IInv => ProhibitedNeverReleased
  BY DEF IInv, ReleasedPassed, ProhibitedNeverReleased
<1>2. QED
  BY <1>1, Invariance, PTL

(* What a released run's frames add up to: reconcile() looked at every     *)
(* conserving step and at every sum metric an aggregate is the last to     *)
(* claim.                                                                  *)
LEMMA PassedIsAccountedFor == IInv => ReleasedIsAccountedFor
<1> SUFFICES ASSUME IInv, run.state = "RELEASED"
             PROVE  /\ \A s \in StepsOf(run.workflow) :
                          (s.op \in ConservingOps /\ Len(s.inputs) = 1) =>
                              run.frames[s.id].rows >= run.frames[s.inputs[1]].rows
                    /\ \A m \in contract.sums :
                       \A i \in Covering(run.workflow, m) :
                          (/\ run.workflow.steps[i].op = "aggregate"
                           /\ \A j \in Covering(run.workflow, m) : j <= i)
                          => m \notin
                               run.frames[run.workflow.steps[i].id].unbalanced
  BY DEF ReleasedIsAccountedFor
<1> DEFINE w == run.workflow
           c == contract
           frames == run.frames
<1>1. TypeOK
  BY DEF IInv
<1>2. w \in Workflows /\ run \in Runs /\ run # NoRun
  BY <1>1, RunIsTyped
<1>3. ReconciliationStatus(c, w, frames) = "PASS"
  BY DEF IInv, ReleasedPassed
<1>4. /\ RowsLost(w, frames) = {}
      /\ Unbalanced(c, w, frames) = {}
      /\ Aggregated(c, w) \subseteq Reconcilable(c, w)
  BY <1>3 DEF ReconciliationStatus
<1>5. \A n \in DOMAIN frames : frames[n].rows \in Nat
  <2>1. frames \in Partial(Nodes, Frames)
    BY <1>2 DEF Runs
  <2>2. QED
    BY <2>1, PartialUse, FramesAssumption
<1>6. Ids(w) \cup w.sources \subseteq DOMAIN frames
  BY <1>1, <1>2 DEF TypeOK, Unfinished
<1>7. ASSUME NEW s \in StepsOf(w), s.op \in ConservingOps, Len(s.inputs) = 1
      PROVE  frames[s.id].rows >= frames[s.inputs[1]].rows
  <2>1. ~(frames[s.id].rows < frames[s.inputs[1]].rows)
    BY <1>4, <1>7 DEF RowsLost, RowTests
  <2>2. s.id \in DOMAIN frames
    BY <1>6 DEF Ids
  <2>3. s.inputs[1] \in DOMAIN frames
    BY <1>2, <1>6, <1>7, InputIsKnown
  <2>4. QED
    BY <1>5, <2>1, <2>2, <2>3
<1>8. ASSUME NEW m \in c.sums, NEW i \in Covering(w, m),
             w.steps[i].op = "aggregate", \A j \in Covering(w, m) : j <= i
      PROVE  m \notin frames[w.steps[i].id].unbalanced
  <2>1. Covering(w, m) # {} /\ LastCovering(w, m) = w.steps[i]
    BY <1>2, <1>8, LastClaimCovers
  <2>2. m \in Reconcilable(c, w)
    BY <1>4, <1>8, <2>1 DEF Aggregated
  <2>3. QED
    BY <1>4, <2>1, <2>2 DEF Unbalanced
<1>9. QED
  BY <1>7, <1>8

(* A released run lost no row in a conserving step, and the subtotals of a *)
(* sum metric that an aggregate is the last to claim add up, whatever the  *)
(* operations wrote (reconcile() and the gate's reconciliation reason).    *)
THEOREM AccountingSafety == Spec => []ReleasedIsAccountedFor
  BY PassedIsAccountedFor, Invariance, PTL

(* Every metric of a released run is explained, though explain() looks at  *)
(* the first step that refers to it and the verifier at any.               *)
THEOREM ExplanationSafety == Spec => []ExplainsEveryMetric
<1>1. IInv => ExplainsEveryMetric
  <2> SUFFICES ASSUME IInv, run.state = "RELEASED", NEW m \in contract.metrics
               PROVE  /\ Covering(run.workflow, m) # {}
                      /\ FirstCovering(run.workflow, m).id \in run.done
    BY DEF ExplainsEveryMetric, Explained
  <2>1. TypeOK
    BY DEF IInv
  <2>2. run # NoRun /\ run.workflow \in Workflows
    BY <2>1, RunIsTyped
  <2>3. Ids(run.workflow) \subseteq run.done
    BY <2>1, <2>2 DEF TypeOK, Unfinished
  <2>4. Covering(run.workflow, m) # {}
    BY DEF IInv, ReleasedPassed, Uncovered
  <2>5. QED
    BY <2>2, <2>3, <2>4, FirstIsStep
<1>2. QED
  BY <1>1, Invariance, PTL

(* score() gives 1.0 to every dimension of a run that decide() releases.   *)
THEOREM ScoreSafety == Spec => []ReleasedScoresAreFull
<1>1. IInv => ReleasedScoresAreFull
  BY DEF IInv
<1>2. QED
  BY <1>1, Invariance, PTL

(* check_drift() compares with the baseline that was kept, not with the    *)
(* last run: drift does not accumulate over automated runs.                *)
THEOREM DriftSafety == Spec => []ReplayedOnApprovedData
<1>1. IInv => ReplayedOnApprovedData
  BY DEF IInv
<1>2. QED
  BY <1>1, Invariance, PTL
=============================================================================
