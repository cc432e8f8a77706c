------------------------ MODULE RunOrchestratorProofs ------------------------
(***************************************************************************)
(* Theorems about RunOrchestrator, and about the two modules that extend   *)
(* it, IncidentRecovery and ExternalWrites: for every workflow, every      *)
(* number of workers and of crashes.  The theorems of the first two parts  *)
(* rest on RunOrchestrator's assumptions alone; ExportAssumption is cited  *)
(* where exports are meant.                                                *)
(*                                                                         *)
(*   1. the inductive invariant of the orchestrator                        *)
(*   2. what a step may change; RunOrchestrator implements RunLifecycle    *)
(*   3. the incident agent's RETRY                                         *)
(*   4. exports under deaths and retries                                   *)
(***************************************************************************)
EXTENDS IncidentRecovery, ExternalWrites, TLAPS

(***************************************************************************)
(* 1. The inductive invariant of the orchestrator.                         *)
(***************************************************************************)

(* What the assumptions say of the two sequences a worker walks along.     *)
LEMMA SourceFacts ==
    /\ Len(SourceOrder) \in Nat
    /\ \A i \in 1..Len(SourceOrder) :
          SourceOrder[i] \in Sources /\ SourceOrder[i] \in Nodes
    /\ \A n \in Sources :
          n \in Nodes /\ \E i \in 1..Len(SourceOrder) : SourceOrder[i] = n
BY WorkflowAssumption DEF Nodes

LEMMA OrderFacts ==
    /\ Len(Order) \in Nat
    /\ \A i \in 1..Len(Order) : Order[i] \in Steps /\ Order[i] \in Nodes
    /\ \A s \in Steps : s \in Nodes /\ \E i \in 1..Len(Order) : Order[i] = s
    /\ \A i, j \in 1..Len(Order) : Order[i] = Order[j] => i = j
BY OrderAssumption DEF Nodes

LEMMA StepsAreNoSources == \A s \in Steps : s \notin Sources
BY WorkflowAssumption

LEMMA CursorIsPositive ==
    ASSUME TypeOK, NEW w \in Workers
    PROVE  cursor[w] \in Nat \ {0}
BY DEF TypeOK

(* A worker past the test of its loop has a step, or a source, at hand.    *)
LEMMA StepIsStep ==
    ASSUME TypeOK, CursorOK, NEW w \in Workers, pc[w] \in LoopPcs \ {"next"}
    PROVE  Step(w) \in Steps /\ cursor[w] \in 1..Len(Order)
BY OrderFacts, CursorIsPositive DEF CursorOK, Step

LEMMA SourceIsSource ==
    ASSUME TypeOK, CursorOK, NEW w \in Workers,
           pc[w] \in {"seed_save", "seed_record"}
    PROVE  Source(w) \in Sources /\ cursor[w] \in 1..Len(SourceOrder)
BY SourceFacts, CursorIsPositive DEF CursorOK, Source

(* What one assignment of an action does to the types.                     *)
LEMMA GotoPc ==
    ASSUME TypeOK, NEW w \in Workers, NEW label \in Pcs, Goto(w, label)
    PROVE  /\ pc' \in [Workers -> Pcs]
           /\ pc'[w] = label
           /\ \A v \in Workers \ {w} : pc'[v] = pc[v]
BY DEF TypeOK, Goto

LEMMA UpdatePc ==
    ASSUME TypeOK, NEW w \in Workers, NEW state \in Lifecycle!RunStates,
           Update(w, state)
    PROVE  /\ pc' \in [Workers -> Pcs]
           /\ pc'[w] = "check"
           /\ \A v \in Workers \ {w} : pc'[v] = pc[v]
           /\ target' \in [Workers -> Lifecycle!RunStates]
           /\ target'[w] = state
<1>1. "check" \in Pcs
  BY DEF Pcs, UpdatePcs
<1>2. QED
  BY <1>1, GotoPc DEF TypeOK, Update

LEMMA PutRec ==
    ASSUME TypeOK, NEW n \in Nodes, NEW status \in Statuses, Put(n, status)
    PROVE  /\ rec' \in [Nodes -> Statuses]
           /\ rec'[n] = status
           /\ \A m \in Nodes \ {n} : rec'[m] = rec[m]
BY DEF TypeOK, Put

LEMMA SaveFile ==
    ASSUME TypeOK, NEW n \in Nodes, Truncate(n) \/ Fill(n)
    PROVE  file' \in [Paths -> Nodes \cup {Absent, Torn}]
BY EnvironmentAssumption DEF TypeOK, Truncate, Fill

LEMMA AdvanceCursor ==
    ASSUME TypeOK, NEW w \in Workers, cursor' = [cursor EXCEPT ![w] = @ + 1]
    PROVE  /\ cursor' \in [Workers -> Nat \ {0}]
           /\ cursor'[w] = cursor[w] + 1
           /\ \A v \in Workers \ {w} : cursor'[v] = cursor[v]
BY DEF TypeOK

LEMMA ResetCursor ==
    ASSUME TypeOK, NEW w \in Workers, cursor' = [cursor EXCEPT ![w] = 1]
    PROVE  /\ cursor' \in [Workers -> Nat \ {0}]
           /\ cursor'[w] = 1
           /\ \A v \in Workers \ {w} : cursor'[v] = cursor[v]
BY DEF TypeOK

LEMMA LabelsArePcs ==
    /\ "idle" \in Pcs /\ "idle" \notin LoopPcs
    /\ "create" \in Pcs /\ "create" \notin LoopPcs
    /\ "seed" \in Pcs /\ "seed" \notin LoopPcs
    /\ "seed_save" \in Pcs /\ "seed_save" \notin LoopPcs
    /\ "seed_record" \in Pcs /\ "seed_record" \notin LoopPcs
    /\ "reconcile" \in Pcs /\ "reconcile" \notin LoopPcs
    /\ "decide" \in Pcs /\ "decide" \notin LoopPcs
    /\ "check" \in Pcs /\ "check" \notin LoopPcs
    /\ "write" \in Pcs /\ "write" \notin LoopPcs
    /\ "next" \in Pcs /\ "next" \in LoopPcs
    /\ "load" \in Pcs /\ "load" \in LoopPcs
    /\ "mark" \in Pcs /\ "mark" \in LoopPcs
    /\ "exec" \in Pcs /\ "exec" \in LoopPcs
    /\ "save" \in Pcs /\ "save" \in LoopPcs
    /\ "saving" \in Pcs /\ "saving" \in LoopPcs
    /\ "complete" \in Pcs /\ "complete" \in LoopPcs
    /\ "fail" \in Pcs /\ "fail" \in LoopPcs
BY DEF Pcs, StartPcs, LoopPcs, ReleasePcs, UpdatePcs

LEMMA StatesAreStates ==
    /\ "DRAFT" \in Lifecycle!RunStates
    /\ "APPROVED" \in Lifecycle!RunStates
    /\ "RUNNING" \in Lifecycle!RunStates
    /\ "VERIFYING" \in Lifecycle!RunStates
    /\ "RELEASED" \in Lifecycle!RunStates
    /\ "QUARANTINED" \in Lifecycle!RunStates
BY DEF Lifecycle!RunStates

(* Going to a label keeps the types if the label may be entered here.      *)
LEMMA TypedGoto ==
    ASSUME TypeOK, CursorOK, NEW w \in Workers, NEW label \in Pcs,
           Goto(w, label),
           label \in {"seed_save", "seed_record"} => cursor[w] <= Len(SourceOrder),
           label \in LoopPcs \ {"next"} => cursor[w] <= Len(Order),
           UNCHANGED <<runState, cursor, target, held, crashes>>,
           handedOut' \in BOOLEAN,
           rec' \in [Nodes -> Statuses],
           file' \in [Paths -> Nodes \cup {Absent, Torn}]
    PROVE  TypeOK' /\ CursorOK'
<1>1. /\ pc' \in [Workers -> Pcs] /\ pc'[w] = label
      /\ \A v \in Workers \ {w} : pc'[v] = pc[v]
  BY GotoPc
<1>2. TypeOK'
  BY <1>1 DEF TypeOK
<1>3. CursorOK'
  BY <1>1 DEF CursorOK
<1>4. QED
  BY <1>2, <1>3

LEMMA TypedUpdate ==
    ASSUME TypeOK, CursorOK, NEW w \in Workers,
           NEW state \in Lifecycle!RunStates, Update(w, state),
           UNCHANGED <<handedOut, file, cursor, held, crashes>>,
           runState' \in Lifecycle!RunStates \cup {NoRun},
           rec' \in [Nodes -> Statuses]
    PROVE  TypeOK' /\ CursorOK'
<1>1. /\ pc' \in [Workers -> Pcs] /\ pc'[w] = "check"
      /\ \A v \in Workers \ {w} : pc'[v] = pc[v]
      /\ target' \in [Workers -> Lifecycle!RunStates]
  BY UpdatePc
<1>2. TypeOK'
  BY <1>1 DEF TypeOK
<1>3. CursorOK'
  BY <1>1, LabelsArePcs DEF CursorOK
<1>4. QED
  BY <1>2, <1>3

(* Values keep their types and cursors stay within their sequences,        *)
(* whatever overlaps.                                                      *)
LEMMA TypeStep == TypeOK /\ CursorOK /\ [Next]_vars => TypeOK' /\ CursorOK'
<1> SUFFICES ASSUME TypeOK, CursorOK, [Next]_vars PROVE TypeOK' /\ CursorOK'
  OBVIOUS
<1> USE LabelsArePcs
<1>0. /\ handedOut \in BOOLEAN /\ rec \in [Nodes -> Statuses]
      /\ file \in [Paths -> Nodes \cup {Absent, Torn}]
      /\ runState \in Lifecycle!RunStates \cup {NoRun}
  BY DEF TypeOK
<1>1. ASSUME NEW w \in Workers, CheckTransition(w) PROVE TypeOK' /\ CursorOK'
  BY <1>1, GotoPc DEF CheckTransition, TypeOK, CursorOK
<1>2. ASSUME NEW w \in Workers, WriteState(w) PROVE TypeOK' /\ CursorOK'
  <2>1. CASE target[w] = "APPROVED"
    BY <1>2, <2>1, UpdatePc, StatesAreStates DEF WriteState, TypeOK, CursorOK
  <2>2. CASE target[w] = "RUNNING"
    <3>1. pc' \in [Workers -> Pcs] /\ pc'[w] = "seed"
          /\ \A v \in Workers \ {w} : pc'[v] = pc[v]
      BY <1>2, <2>2, GotoPc DEF WriteState
    <3>2. /\ cursor' \in [Workers -> Nat \ {0}]
          /\ \A v \in Workers \ {w} : cursor'[v] = cursor[v]
      BY <1>2, <2>2, ResetCursor DEF WriteState
    <3>3. QED
      BY <1>2, <2>2, <3>1, <3>2 DEF WriteState, TypeOK, CursorOK
  <2>3. CASE target[w] \notin {"APPROVED", "RUNNING"}
    BY <1>2, <2>3, GotoPc DEF WriteState, TypeOK, CursorOK
  <2>4. QED
    BY <2>1, <2>2, <2>3
<1>3. ASSUME NEW w \in Workers, CreateRun(w) PROVE TypeOK' /\ CursorOK'
  BY <1>0, <1>3, TypedUpdate, StatesAreStates DEF CreateRun
<1>4. ASSUME NEW w \in Workers, SaveSource(w) PROVE TypeOK' /\ CursorOK'
  <2>1. Source(w) \in Nodes
    BY <1>4, SourceFacts, CursorIsPositive DEF SaveSource, Source
  <2>2. QED
    BY <1>0, <1>4, <2>1, SaveFile, TypedGoto DEF SaveSource
<1>5. ASSUME NEW w \in Workers, SourceSaved(w) PROVE TypeOK' /\ CursorOK'
  <2>1. Source(w) \in Nodes /\ cursor[w] <= Len(SourceOrder)
    BY <1>5, SourceIsSource, SourceFacts DEF SourceSaved, Source
  <2>2. QED
    BY <1>0, <1>5, <2>1, SaveFile, TypedGoto DEF SourceSaved
<1>6. ASSUME NEW w \in Workers, RecordSource(w) PROVE TypeOK' /\ CursorOK'
  <2>1. rec' \in [Nodes -> Statuses]
    BY <1>6, SourceIsSource, PutRec DEF RecordSource, Nodes, Statuses
  <2>2. QED
    BY <1>6, <2>1, AdvanceCursor, GotoPc DEF RecordSource, TypeOK, CursorOK
<1>7. ASSUME NEW w \in Workers, ReturnRunId(w) PROVE TypeOK' /\ CursorOK'
  BY <1>0, <1>7, TypedGoto DEF ReturnRunId
<1>8. ASSUME NEW w \in Workers, SkipCompleted(w) PROVE TypeOK' /\ CursorOK'
  BY <1>8, AdvanceCursor DEF SkipCompleted, TypeOK, CursorOK
<1>9. ASSUME NEW w \in Workers, LookUp(w) PROVE TypeOK' /\ CursorOK'
  <2>1. PICK label \in {"idle", "fail", "load"} : Goto(w, label)
    BY <1>9 DEF LookUp
  <2>2. QED
    BY <1>0, <1>9, <2>1, TypedGoto DEF LookUp
<1>10. ASSUME NEW w \in Workers, LoadInputs(w) PROVE TypeOK' /\ CursorOK'
  <2>1. PICK label \in {"idle", "fail", "mark"} : Goto(w, label)
    BY <1>10 DEF LoadInputs
  <2>2. cursor[w] <= Len(Order)
    BY <1>10 DEF LoadInputs, CursorOK
  <2>3. QED
    BY <1>0, <1>10, <2>1, <2>2, TypedGoto DEF LoadInputs
<1>11. ASSUME NEW w \in Workers, MarkRunning(w) PROVE TypeOK' /\ CursorOK'
  <2>1. rec' \in [Nodes -> Statuses]
    BY <1>11, StepIsStep, PutRec DEF MarkRunning, Nodes, Statuses
  <2>2. QED
    <3>1. cursor[w] <= Len(Order)
      BY <1>11 DEF MarkRunning, CursorOK
    <3>2. QED
      BY <1>0, <1>11, <2>1, <3>1, TypedGoto DEF MarkRunning
<1>12. ASSUME NEW w \in Workers, Execute(w) PROVE TypeOK' /\ CursorOK'
  <2>1. PICK label \in {"save", "fail", "idle"} : Goto(w, label)
    BY <1>12 DEF Execute
  <2>2. QED
    <3>1. cursor[w] <= Len(Order)
      BY <1>12 DEF Execute, CursorOK
    <3>2. QED
      BY <1>0, <1>12, <2>1, <3>1, TypedGoto DEF Execute
<1>13. ASSUME NEW w \in Workers, SaveArtifact(w) PROVE TypeOK' /\ CursorOK'
  <2>1. Step(w) \in Nodes /\ cursor[w] <= Len(Order)
    BY <1>13, StepIsStep, OrderFacts DEF SaveArtifact
  <2>2. QED
    BY <1>0, <1>13, <2>1, SaveFile, TypedGoto DEF SaveArtifact
<1>14. ASSUME NEW w \in Workers, ArtifactSaved(w) PROVE TypeOK' /\ CursorOK'
  <2>1. Step(w) \in Nodes /\ cursor[w] <= Len(Order)
    BY <1>14, StepIsStep, OrderFacts DEF ArtifactSaved
  <2>2. QED
    BY <1>0, <1>14, <2>1, SaveFile, TypedGoto DEF ArtifactSaved
<1>15. ASSUME NEW w \in Workers, MarkCompleted(w) PROVE TypeOK' /\ CursorOK'
  <2>1. rec' \in [Nodes -> Statuses]
    BY <1>15, StepIsStep, PutRec DEF MarkCompleted, Nodes, Statuses
  <2>2. QED
    BY <1>15, <2>1, AdvanceCursor, GotoPc DEF MarkCompleted, TypeOK, CursorOK
<1>16. ASSUME NEW w \in Workers, RecordFailure(w) PROVE TypeOK' /\ CursorOK'
  <2>1. rec' \in [Nodes -> Statuses]
    BY <1>16, StepIsStep, PutRec DEF RecordFailure, Nodes, Statuses
  <2>2. QED
    BY <1>0, <1>16, <2>1, TypedUpdate, StatesAreStates DEF RecordFailure
<1>17. ASSUME NEW w \in Workers, AllStepsDone(w) PROVE TypeOK' /\ CursorOK'
  BY <1>0, <1>17, TypedUpdate, StatesAreStates DEF AllStepsDone
<1>18. ASSUME NEW w \in Workers, Reconcile(w) PROVE TypeOK' /\ CursorOK'
  <2>1. PICK label \in {"decide", "idle"} : Goto(w, label)
    BY <1>18 DEF Reconcile
  <2>2. QED
    BY <1>0, <1>18, <2>1, TypedGoto DEF Reconcile
<1>19. ASSUME NEW w \in Workers, Decide(w) PROVE TypeOK' /\ CursorOK'
  <2>1. CASE Goto(w, "idle") /\ UNCHANGED target
    BY <1>0, <1>19, <2>1, TypedGoto DEF Decide
  <2>2. CASE \E state \in {"RELEASED", "QUARANTINED"} : Update(w, state)
    BY <1>0, <1>19, <2>2, TypedUpdate, StatesAreStates DEF Decide
  <2>3. QED
    BY <1>19, <2>1, <2>2 DEF Decide
<1>20. ASSUME NEW w \in Workers, Call(w) PROVE TypeOK' /\ CursorOK'
  <2>1. CASE StartRun(w)
    BY <1>0, <2>1, TypedGoto DEF StartRun
  <2>2. CASE CallRun(w)
    BY <2>2, GotoPc, ResetCursor DEF CallRun, TypeOK, CursorOK
  <2>3. CASE CallRelease(w)
    <3>1. held' \in [Workers -> Lifecycle!RunStates \cup {NoRun}]
      BY <2>3 DEF CallRelease, TypeOK
    <3>2. TypeOK'
      BY <2>3, <3>1, GotoPc DEF CallRelease, TypeOK
    <3>3. CursorOK'
      BY <2>3, GotoPc DEF CallRelease, CursorOK
    <3>4. QED
      BY <3>2, <3>3
  <2>4. QED
    BY <1>20, <2>1, <2>2, <2>3 DEF Call
<1>21. ASSUME NEW w \in Workers, Crash(w) PROVE TypeOK' /\ CursorOK'
  BY <1>21, GotoPc, EnvironmentAssumption DEF Crash, TypeOK, CursorOK
<1>22. CASE UNCHANGED vars
  BY <1>22 DEF vars, TypeOK, CursorOK
<1>23. QED
  BY <1>1, <1>2, <1>3, <1>4, <1>5, <1>6, <1>7, <1>8, <1>9, <1>10, <1>11,
     <1>12, <1>13, <1>14, <1>15, <1>16, <1>17, <1>18, <1>19, <1>20, <1>21,
     <1>22 DEF Next, Work

LEMMA TypeInit == Init => TypeOK /\ CursorOK
<1> SUFFICES ASSUME Init PROVE TypeOK /\ CursorOK
  OBVIOUS
<1>1. pc \in [Workers -> Pcs] /\ rec \in [Nodes -> Statuses]
  BY LabelsArePcs DEF Init, Statuses
<1>2. cursor \in [Workers -> Nat \ {0}]
  BY DEF Init
<1>3. /\ target \in [Workers -> Lifecycle!RunStates]
      /\ held \in [Workers -> Lifecycle!RunStates \cup {NoRun}]
  BY StatesAreStates DEF Init
<1>4. file \in [Paths -> Nodes \cup {Absent, Torn}]
  BY DEF Init
<1>5. CursorOK
  BY LabelsArePcs DEF Init, CursorOK
<1>6. crashes \in 0..MaxCrashes
  BY EnvironmentAssumption DEF Init
<1>7. runState = NoRun /\ handedOut \in BOOLEAN
  BY DEF Init
<1>8. QED
  BY <1>1, <1>2, <1>3, <1>4, <1>5, <1>6, <1>7 DEF TypeOK

(* Every variable keeps its type, under overlapping calls too.             *)
THEOREM TypeCorrect == Spec => []TypeOK
<1>1. TypeOK /\ CursorOK /\ [Next]_vars => (TypeOK /\ CursorOK)'
  BY TypeStep
<1>2. QED
  BY <1>1, TypeInit, PTL DEF Spec
-----------------------------------------------------------------------------
(* Serialised calls.  All of what follows is about one call at a time:     *)
(* while a worker acts the others are idle, so an action has to preserve   *)
(* what holds of the stores and re-establish the position of its worker.   *)

LEMMA OthersIdle ==
    ASSUME OneCall, NEW w \in Workers, pc[w] # "idle"
    PROVE  \A v \in Workers \ {w} : pc[v] = "idle"
BY DEF OneCall

LEMMA AtIdle ==
    ASSUME NEW v \in Workers, pc'[v] = "idle"
    PROVE  Position(v)'
BY LabelsArePcs
   DEF Position, Seeding, Looping, Releasing, Updating, ReleasePcs, UpdatePcs

LEMMA AtSeed ==
    ASSUME NEW w \in Workers, pc'[w] \in {"seed", "seed_save", "seed_record"},
           Seeding(w)'
    PROVE  Position(w)'
BY LabelsArePcs DEF Position, Looping, Releasing, Updating, ReleasePcs, UpdatePcs

LEMMA AtLoop ==
    ASSUME NEW w \in Workers, pc'[w] \in LoopPcs, Looping(w)'
    PROVE  Position(w)'
BY DEF Position, Seeding, Releasing, Updating, ReleasePcs, UpdatePcs, LoopPcs

LEMMA AtRelease ==
    ASSUME NEW w \in Workers, pc'[w] \in ReleasePcs, Releasing(w)'
    PROVE  Position(w)'
BY DEF Position, Seeding, Looping, Updating, ReleasePcs, UpdatePcs, LoopPcs

LEMMA AtUpdate ==
    ASSUME NEW w \in Workers, pc'[w] \in UpdatePcs, Updating(w)'
    PROVE  Position(w)'
BY DEF Position, Seeding, Looping, Releasing, ReleasePcs, UpdatePcs, LoopPcs

LEMMA StoresKept ==
    ASSUME Stores, UNCHANGED <<runState, handedOut, rec, file>>
    PROVE  Stores'
BY DEF Stores, NothingBefore, ArtifactsWhole, RecordsFollowOrder,
       SourcesLocked, CertifiedSteps, AllDone

(* Changing pc of one worker while the others are idle.                    *)
LEMMA Assemble ==
    ASSUME IInv, [Next]_vars, NEW w \in Workers,
           \A v \in Workers \ {w} : pc[v] = "idle" /\ pc'[v] = pc[v],
           Stores', Position(w)'
    PROVE  IInv'
<1>1. TypeOK' /\ CursorOK'
  BY TypeStep DEF IInv
<1>2. OneCall'
  BY DEF OneCall
<1>3. \A v \in Workers : Position(v)'
  BY AtIdle
<1>4. QED
  BY <1>1, <1>2, <1>3 DEF IInv

-----------------------------------------------------------------------------
(* Steps that only look: the stores stay as they are.                      *)

LEMMA LookingStep ==
    ASSUME ~MayOverlap, IInv, NEW w \in Workers,
           \/ CheckTransition(w) \/ LookUp(w) \/ LoadInputs(w)
           \/ Execute(w) \/ Reconcile(w) \/ Decide(w) \/ AllStepsDone(w)
           \/ SkipCompleted(w) \/ StartRun(w) \/ CallRun(w)
           \/ CallRelease(w) \/ Crash(w)
    PROVE  Position(w)'
<1> USE LabelsArePcs DEF IInv
<1>1. CASE CheckTransition(w)
  <2>1. pc[w] = "check" /\ Updating(w)
    BY <1>1 DEF CheckTransition, Position
  <2>2. CASE Lifecycle!Allowed(runState, target[w])
    <3>1. pc'[w] = "write"
      BY <1>1, <2>2, GotoPc DEF CheckTransition
    <3>2. Updating(w)'
      BY <1>1, <2>1, <2>2, <3>1
         DEF CheckTransition, Updating, Justified, UpdatePcs, AllDone,
             Lifecycle!Allowed
    <3>3. QED
      BY <3>1, <3>2, AtUpdate DEF UpdatePcs
  <2>3. CASE ~Lifecycle!Allowed(runState, target[w])
    BY <1>1, <2>3, GotoPc, AtIdle DEF CheckTransition
  <2>4. QED
    BY <2>2, <2>3
<1>2. CASE LookUp(w) \/ LoadInputs(w) \/ Execute(w)
  <2>1. /\ pc[w] \in LoopPcs /\ pc[w] # "complete" /\ Looping(w)
        /\ rec[Step(w)] # "COMPLETED"
        /\ UNCHANGED <<runState, handedOut, rec, cursor>>
    BY <1>2 DEF LookUp, LoadInputs, Execute, Position, Looping
  <2>2. \E l \in {"idle", "fail", "load", "mark", "save"} : pc'[w] = l
    BY <1>2, GotoPc DEF LookUp, LoadInputs, Execute
  <2>3. CASE pc'[w] # "idle"
    <3>1. pc'[w] \in LoopPcs /\ pc'[w] # "complete"
      BY <2>2, <2>3
    <3>2. Looping(w)'
      BY <2>1, <3>1 DEF Looping, Step
    <3>3. QED
      BY <3>1, <3>2, AtLoop
  <2>4. QED
    BY <2>3, AtIdle
<1>3. CASE Reconcile(w)
  <2>1. /\ Releasing(w) /\ pc[w] = "reconcile"
        /\ UNCHANGED <<runState, handedOut, held>>
    BY <1>3 DEF Reconcile, Position
  <2>2. pc'[w] = "decide" \/ pc'[w] = "idle"
    BY <1>3, GotoPc DEF Reconcile
  <2>3. CASE pc'[w] = "decide"
    BY <2>1, <2>3, AtRelease DEF Releasing, ReleasePcs
  <2>4. QED
    BY <2>2, <2>3, AtIdle
<1>4. CASE Decide(w)
  <2>1. /\ pc[w] = "decide" /\ held[w] = runState /\ handedOut
        /\ UNCHANGED <<runState, handedOut, rec>>
    BY <1>4 DEF Decide, Position, Releasing, ReleasePcs
  <2>2. CASE Goto(w, "idle")
    BY <2>2, GotoPc, AtIdle
  <2>3. CASE \E verdict \in Verdicts :
               Update(w, IF Verified(w, verdict) THEN "RELEASED"
                                                 ELSE "QUARANTINED")
    <3>1. PICK verdict \in Verdicts :
               Update(w, IF Verified(w, verdict) THEN "RELEASED"
                                                 ELSE "QUARANTINED")
      BY <2>3
    <3>2. pc'[w] = "check"
      BY <3>1, UpdatePc, StatesAreStates
    <3>3. CASE Verified(w, verdict)
      <4>1. target'[w] = "RELEASED"
        BY <3>1, <3>3, UpdatePc, StatesAreStates
      <4>2. runState = "VERIFYING" /\ AllDone
        BY <2>1, <3>3 DEF Verified, AllDone
      <4>3. Updating(w)'
        BY <2>1, <3>2, <4>1, <4>2 DEF Updating, Justified, AllDone
      <4>4. QED
        BY <3>2, <4>3, AtUpdate DEF UpdatePcs
    <3>4. CASE ~Verified(w, verdict)
      <4>1. target'[w] = "QUARANTINED"
        BY <3>1, <3>4, UpdatePc, StatesAreStates
      <4>2. Updating(w)'
        BY <2>1, <3>2, <4>1 DEF Updating, Justified
      <4>3. QED
        BY <3>2, <4>2, AtUpdate DEF UpdatePcs
    <3>5. QED
      BY <3>3, <3>4
  <2>4. QED
    BY <1>4, <2>2, <2>3 DEF Decide
<1>5. CASE AllStepsDone(w)
  <2>1. /\ pc[w] = "next" /\ Looping(w) /\ cursor[w] > Len(Order)
        /\ UNCHANGED <<runState, handedOut, rec>>
    BY <1>5 DEF AllStepsDone, Position
  <2>2. pc'[w] = "check" /\ target'[w] = "VERIFYING"
    BY <1>5, UpdatePc, StatesAreStates DEF AllStepsDone
  <2>3. AllDone
    <3>1. \A i \in 1..Len(Order) : rec[Order[i]] = "COMPLETED"
      BY <2>1, OrderFacts, CursorIsPositive DEF Looping
    <3>2. QED
      BY <3>1, OrderFacts DEF AllDone
  <2>4. Updating(w)'
    BY <2>1, <2>2, <2>3 DEF Updating, Justified, AllDone, Looping
  <2>5. QED
    BY <2>2, <2>4, AtUpdate DEF UpdatePcs
<1>6. CASE SkipCompleted(w)
  <2>1. /\ pc[w] = "next" /\ pc'[w] = "next" /\ Looping(w)
        /\ rec[Order[cursor[w]]] = "COMPLETED"
        /\ cursor'[w] = cursor[w] + 1
        /\ UNCHANGED <<runState, handedOut, rec>>
    BY <1>6, AdvanceCursor DEF SkipCompleted, Position, Step
  <2>2. Looping(w)'
    BY <2>1 DEF Looping, TypeOK
  <2>3. QED
    BY <2>1, <2>2, AtLoop
<1>7. CASE StartRun(w)
  <2>1. pc'[w] = "create" /\ runState' = NoRun
    BY <1>7, GotoPc DEF StartRun
  <2>2. QED
    BY <2>1 DEF Position, Seeding, Looping, Releasing, Updating, ReleasePcs,
                UpdatePcs
<1>8. CASE CallRun(w)
  <2>1. /\ pc'[w] = "next" /\ cursor'[w] = 1
        /\ runState' = "RUNNING" /\ handedOut'
    BY <1>8, GotoPc, ResetCursor DEF CallRun
  <2>2. Looping(w)'
    BY <2>1 DEF Looping
  <2>3. QED
    BY <2>1, <2>2, AtLoop
<1>9. CASE CallRelease(w)
  <2>1. pc'[w] = "reconcile" /\ held'[w] = runState' /\ handedOut'
    BY <1>9, GotoPc DEF CallRelease, TypeOK
  <2>2. QED
    BY <2>1, AtRelease DEF Releasing, ReleasePcs
<1>10. CASE Crash(w)
  BY <1>10, GotoPc, AtIdle DEF Crash
<1>11. QED
  BY <1>1, <1>2, <1>3, <1>4, <1>5, <1>6, <1>7, <1>8, <1>9, <1>10
-----------------------------------------------------------------------------
(* Steps that move the run: its state, or who knows it.                    *)

LEMMA CreateStep ==
    ASSUME IInv, NEW w \in Workers, CreateRun(w)
    PROVE  Stores' /\ Position(w)'
<1> USE LabelsArePcs DEF IInv
<1>1. /\ runState = NoRun /\ runState' = "DRAFT" /\ pc'[w] = "check"
      /\ target'[w] = "APPROVED" /\ UNCHANGED <<handedOut, rec, file>>
  BY UpdatePc, StatesAreStates DEF CreateRun, Position
<1>2. ~handedOut
  BY <1>1 DEF Stores, NothingBefore, Unstarted
<1>3. Stores'
  BY <1>1, <1>2 DEF Stores, NothingBefore, Unstarted, ArtifactsWhole,
                    RecordsFollowOrder, SourcesLocked, CertifiedSteps
<1>4. Updating(w)'
  BY <1>1, <1>2 DEF Updating, Justified
<1>5. QED
  BY <1>1, <1>3, <1>4, AtUpdate DEF UpdatePcs

LEMMA WriteStep ==
    ASSUME IInv, NEW w \in Workers, WriteState(w)
    PROVE  Stores' /\ Position(w)'
<1> USE LabelsArePcs DEF IInv
<1>1. /\ pc[w] = "write" /\ runState' = target[w]
      /\ UNCHANGED <<handedOut, rec, file>>
      /\ Justified(target[w]) /\ Lifecycle!Allowed(runState, target[w])
  BY DEF WriteState, Position, Updating, UpdatePcs
<1>2. Stores'
  <2>1. NothingBefore'
    BY <1>1 DEF Stores, NothingBefore, Unstarted, Justified, NoRun
  <2>2. CertifiedSteps'
    BY <1>1 DEF CertifiedSteps, Justified, AllDone
  <2>3. QED
    BY <1>1, <2>1, <2>2 DEF Stores, ArtifactsWhole, RecordsFollowOrder,
                            SourcesLocked
<1>3. CASE target[w] = "APPROVED"
  <2>1. pc'[w] = "check" /\ target'[w] = "RUNNING"
    BY <1>3, UpdatePc, StatesAreStates DEF WriteState
  <2>2. Updating(w)'
    BY <1>1, <1>3, <2>1 DEF Updating, Justified
  <2>3. QED
    BY <1>2, <2>1, <2>2, AtUpdate DEF UpdatePcs
<1>4. CASE target[w] = "RUNNING"
  <2>1. pc'[w] = "seed" /\ cursor'[w] = 1
    BY <1>4, GotoPc, ResetCursor DEF WriteState
  <2>2. \A n \in Nodes : rec[n] = "NONE"
    BY <1>1, <1>4 DEF Justified, Stores, NothingBefore, Unstarted
  <2>3. \A i \in 1..Len(SourceOrder) : SourceOrder[i] \in Nodes
    BY WorkflowAssumption DEF Nodes
  <2>4. Seeding(w)'
    BY <1>1, <1>4, <2>1, <2>2, <2>3 DEF Seeding, Justified
  <2>5. QED
    BY <1>2, <2>1, <2>4, AtSeed
<1>5. CASE target[w] \notin {"APPROVED", "RUNNING"}
  BY <1>2, <1>5, GotoPc, AtIdle DEF WriteState
<1>6. QED
  BY <1>3, <1>4, <1>5

LEMMA ReturnStep ==
    ASSUME IInv, NEW w \in Workers, ReturnRunId(w)
    PROVE  Stores' /\ Position(w)'
<1> USE LabelsArePcs DEF IInv
<1>1. /\ runState = "RUNNING" /\ UNCHANGED <<runState, rec, file>>
      /\ cursor[w] > Len(SourceOrder)
      /\ \A i \in 1..Len(SourceOrder) :
            i < cursor[w] => rec[SourceOrder[i]] = "COMPLETED"
  BY DEF ReturnRunId, Position, Seeding
<1>2. SourcesLocked'
  <2>1. \A i \in 1..Len(SourceOrder) : rec'[SourceOrder[i]] = "COMPLETED"
    BY <1>1, SourceFacts, CursorIsPositive
  <2>2. QED
    BY <2>1, SourceFacts DEF SourcesLocked
<1>3. Stores'
  BY <1>1, <1>2 DEF Stores, NothingBefore, Unstarted, NoRun,
                    ArtifactsWhole, RecordsFollowOrder, CertifiedSteps
<1>4. QED
  BY <1>3, GotoPc, AtIdle DEF ReturnRunId
-----------------------------------------------------------------------------
(* Steps that write a file: that of a COMPLETED node only if it shares it. *)

LEMMA OtherFilesKept ==
    ASSUME TypeOK, NEW n \in Nodes, Truncate(n) \/ Fill(n)
    PROVE  /\ \A m \in Nodes \ {n} :
                 Unshared(m) => file'[PathOf[m]] = file[PathOf[m]]
           /\ Fill(n) => file'[PathOf[n]] = n
BY EnvironmentAssumption DEF TypeOK, Unshared, Truncate, Fill

MayBeSaved(n) == rec[n] # "COMPLETED" \/ ~Unshared(n)

LEMMA SavingKeepsStores ==
    ASSUME IInv, NEW n \in Nodes, MayBeSaved(n),
           Truncate(n) \/ Fill(n), UNCHANGED <<runState, handedOut, rec>>
    PROVE  Stores'
<1>1. \A m \in Nodes : Unshared(m) /\ rec[m] = "COMPLETED" =>
          file'[PathOf[m]] = file[PathOf[m]]
  BY OtherFilesKept DEF IInv, MayBeSaved
<1>2. ArtifactsWhole'
  BY <1>1 DEF IInv, Stores, ArtifactsWhole
<1>3. QED
  BY <1>2 DEF IInv, Stores, NothingBefore, RecordsFollowOrder,
              SourcesLocked, CertifiedSteps, AllDone

(* A source a second time in the list was recorded the first time.         *)
LEMMA SeededTwice ==
    ASSUME IInv, NEW w \in Workers, cursor[w] \in 1..Len(SourceOrder),
           pc[w] \in {"seed", "seed_save", "seed_record"}
    PROVE  Source(w) \in Nodes /\ MayBeSaved(Source(w))
<1>1. /\ Source(w) \in Nodes /\ Source(w) = SourceOrder[cursor[w]]
      /\ Seeding(w)
  BY SourceFacts DEF Source, IInv, Position
<1>2. CASE rec[Source(w)] = "COMPLETED"
  <2>1. PICK j \in 1..Len(SourceOrder) :
            j < cursor[w] /\ SourceOrder[j] = Source(w)
    BY <1>1, <1>2 DEF Seeding
  <2>2. j # cursor[w]
    BY <2>1
  <2>3. QED
    BY <1>1, <2>1, <2>2 DEF Unshared, MayBeSaved
<1>3. QED
  BY <1>1, <1>2 DEF MayBeSaved

LEMMA SaveStep ==
    ASSUME IInv, NEW w \in Workers,
           \/ SaveSource(w) \/ SourceSaved(w)
           \/ SaveArtifact(w) \/ ArtifactSaved(w)
    PROVE  Stores' /\ Position(w)'
<1> USE LabelsArePcs DEF IInv
<1>1. CASE SaveSource(w) \/ SourceSaved(w)
  <2>1. /\ pc[w] \in {"seed", "seed_save"} /\ Seeding(w)
        /\ cursor[w] \in 1..Len(SourceOrder)
        /\ UNCHANGED <<runState, handedOut, rec, cursor>>
    BY <1>1 DEF SaveSource, SourceSaved, Position, TypeOK, CursorOK
  <2>2. Source(w) \in Nodes /\ MayBeSaved(Source(w))
    BY <2>1, SeededTwice
  <2>3. Stores'
    BY <1>1, <2>1, <2>2, SavingKeepsStores DEF SaveSource, SourceSaved
  <2>4. \/ pc'[w] = "seed_save"
        \/ pc'[w] = "seed_record" /\ file'[PathOf[Source(w)]] = Source(w)
    BY <1>1, <2>2, GotoPc, OtherFilesKept DEF SaveSource, SourceSaved
  <2>5. Seeding(w)'
    BY <2>1, <2>4 DEF Seeding, Source
  <2>6. QED
    BY <2>3, <2>4, <2>5, AtSeed
<1>2. CASE SaveArtifact(w) \/ ArtifactSaved(w)
  <2>1. /\ pc[w] \in {"save", "saving"} /\ Looping(w)
        /\ rec[Step(w)] # "COMPLETED"
        /\ UNCHANGED <<runState, handedOut, rec, cursor>>
    BY <1>2 DEF SaveArtifact, ArtifactSaved, Position, Looping
  <2>2. Step(w) \in Nodes
    BY <2>1, StepIsStep DEF Nodes
  <2>3. Stores'
    BY <1>2, <2>1, <2>2, SavingKeepsStores DEF SaveArtifact, ArtifactSaved, MayBeSaved
  <2>4. \/ pc'[w] = "saving"
        \/ pc'[w] = "complete" /\ file'[PathOf[Step(w)]] = Step(w)
    BY <1>2, <2>2, GotoPc, OtherFilesKept DEF SaveArtifact, ArtifactSaved
  <2>5. Looping(w)'
    BY <2>1, <2>4 DEF Looping, Step
  <2>6. QED
    BY <2>3, <2>4, <2>5, AtLoop
<1>3. QED
  BY <1>1, <1>2
-----------------------------------------------------------------------------
(* Steps that write a record.                                              *)

(* The record written is that of the first step that is not COMPLETED.     *)
LEMMA StepRecordKeepsStores ==
    ASSUME IInv, NEW w \in Workers, pc[w] \in LoopPcs \ {"next"},
           NEW status \in Statuses, status # "NONE", Put(Step(w), status),
           UNCHANGED <<runState, handedOut, file>>,
           status = "COMPLETED" => file[PathOf[Step(w)]] = Step(w)
    PROVE  Stores'
<1> USE DEF IInv
<1>1. /\ Step(w) \in Steps /\ Step(w) \in Nodes
      /\ cursor[w] \in 1..Len(Order) /\ Step(w) = Order[cursor[w]]
  BY StepIsStep DEF Nodes, Step
<1>2. /\ rec'[Step(w)] = status
      /\ \A m \in Nodes \ {Step(w)} : rec'[m] = rec[m]
  BY <1>1, PutRec
<1>3. /\ runState = "RUNNING" /\ handedOut /\ rec[Step(w)] # "COMPLETED"
      /\ \A i \in 1..Len(Order) :
            i < cursor[w] => rec[Order[i]] = "COMPLETED"
  BY DEF Position, Looping
<1>4. RecordsFollowOrder'
  <2> SUFFICES ASSUME NEW i \in 1..Len(Order), rec'[Order[i]] # "NONE",
                      NEW j \in 1..(i-1)
               PROVE  rec'[Order[j]] = "COMPLETED"
    BY DEF RecordsFollowOrder
  <2>1. j \in 1..Len(Order) /\ j < i
    OBVIOUS
  <2>2. Order[i] \in Nodes /\ Order[j] \in Nodes
    BY <2>1, OrderFacts
  <2>3. CASE i = cursor[w]
    <3>1. Order[j] # Step(w) /\ rec[Order[j]] = "COMPLETED"
      BY <1>1, <1>3, <2>1, <2>3
    <3>2. QED
      BY <1>2, <2>2, <3>1
  <2>4. CASE i # cursor[w]
    <3>1. Order[i] # Step(w)
      BY <1>1, <2>4, OrderFacts
    <3>2. rec[Order[j]] = "COMPLETED"
      BY <1>2, <2>2, <3>1 DEF Stores, RecordsFollowOrder
    <3>3. QED
      BY <1>2, <1>3, <2>2, <3>2
  <2>5. QED
    BY <2>3, <2>4
<1>5. ArtifactsWhole'
  BY <1>1, <1>2 DEF Stores, ArtifactsWhole
<1>6. SourcesLocked'
  BY <1>1, <1>2, SourceFacts, StepsAreNoSources DEF Stores, SourcesLocked
<1>7. NothingBefore' /\ CertifiedSteps'
  BY <1>3 DEF NothingBefore, CertifiedSteps, Unstarted, NoRun
<1>8. QED
  BY <1>4, <1>5, <1>6, <1>7 DEF Stores

LEMMA StepRecordStep ==
    ASSUME IInv, NEW w \in Workers,
           MarkRunning(w) \/ MarkCompleted(w) \/ RecordFailure(w)
    PROVE  Stores' /\ Position(w)'
<1> USE LabelsArePcs DEF IInv
<1>1. /\ pc[w] \in {"mark", "complete", "fail"} /\ Looping(w)
      /\ UNCHANGED <<runState, handedOut, file>>
      /\ pc[w] = "complete" => file[PathOf[Step(w)]] = Step(w)
  BY DEF MarkRunning, MarkCompleted, RecordFailure, Position, Looping
<1>2. \E status \in Statuses :
        /\ status # "NONE" /\ Put(Step(w), status)
        /\ status = "COMPLETED" => pc[w] = "complete"
  BY DEF MarkRunning, MarkCompleted, RecordFailure, Statuses
<1>3. Stores'
  BY <1>1, <1>2, StepRecordKeepsStores
<1>4. Step(w) \in Nodes /\ cursor[w] \in 1..Len(Order)
  BY <1>1, StepIsStep DEF Nodes
<1>5. CASE MarkRunning(w)
  <2>1. /\ pc'[w] = "exec" /\ rec'[Step(w)] = "RUNNING"
        /\ \A m \in Nodes \ {Step(w)} : rec'[m] = rec[m]
        /\ UNCHANGED cursor
    BY <1>4, <1>5, GotoPc, PutRec DEF MarkRunning, Statuses
  <2>2. \A i \in 1..Len(Order) :
          i < cursor[w] => Order[i] \in Nodes \ {Step(w)}
    <3>1. \A i \in 1..Len(Order) : Order[i] \in Nodes
      BY OrderFacts
    <3>2. QED
      BY <1>1, <1>5, <3>1 DEF Looping, MarkRunning, LoopPcs
  <2>3. Looping(w)'
    BY <1>1, <2>1, <2>2 DEF Looping, Step
  <2>4. QED
    BY <1>3, <2>1, <2>3, AtLoop
<1>6. CASE MarkCompleted(w)
  <2>1. /\ pc'[w] = "next" /\ rec'[Step(w)] = "COMPLETED"
        /\ \A m \in Nodes \ {Step(w)} : rec'[m] = rec[m]
        /\ cursor'[w] = cursor[w] + 1
    BY <1>4, <1>6, GotoPc, PutRec, AdvanceCursor DEF MarkCompleted, Statuses
  <2>2. \A i \in 1..Len(Order) : Order[i] \in Nodes
    BY OrderFacts
  <2>3. \A i \in 1..Len(Order) :
          i < cursor'[w] => rec'[Order[i]] = "COMPLETED"
    BY <1>1, <1>4, <2>1, <2>2 DEF Looping, Step
  <2>4. Looping(w)'
    BY <1>1, <2>1, <2>3 DEF Looping
  <2>5. QED
    BY <1>3, <2>1, <2>4, AtLoop
<1>7. CASE RecordFailure(w)
  <2>1. pc'[w] = "check" /\ target'[w] = "QUARANTINED" /\ handedOut'
    BY <1>1, <1>7, UpdatePc, StatesAreStates DEF RecordFailure, Looping
  <2>2. QED
    BY <1>3, <2>1, AtUpdate DEF Updating, Justified, UpdatePcs
<1>8. QED
  BY <1>5, <1>6, <1>7

LEMMA RecordSourceStep ==
    ASSUME IInv, NEW w \in Workers, RecordSource(w)
    PROVE  Stores' /\ Position(w)'
<1> USE LabelsArePcs DEF IInv
<1>1. /\ pc[w] = "seed_record" /\ runState = "RUNNING" /\ ~handedOut
      /\ UNCHANGED <<runState, handedOut, file>>
      /\ file[PathOf[Source(w)]] = Source(w) /\ Seeding(w)
  BY DEF RecordSource, Position, Seeding
<1>2. /\ Source(w) \in Sources /\ Source(w) \in Nodes
      /\ cursor[w] \in 1..Len(SourceOrder)
      /\ Source(w) = SourceOrder[cursor[w]]
  BY <1>1, SourceIsSource DEF Nodes, Source
<1>3. /\ pc'[w] = "seed" /\ rec'[Source(w)] = "COMPLETED"
      /\ \A m \in Nodes \ {Source(w)} : rec'[m] = rec[m]
      /\ cursor'[w] = cursor[w] + 1
  <2>1. pc'[w] = "seed"
    BY GotoPc DEF RecordSource
  <2>2. /\ rec'[Source(w)] = "COMPLETED"
        /\ \A m \in Nodes \ {Source(w)} : rec'[m] = rec[m]
    BY <1>2, PutRec DEF RecordSource, Statuses
  <2>3. cursor'[w] = cursor[w] + 1
    BY AdvanceCursor DEF RecordSource
  <2>4. QED
    BY <2>1, <2>2, <2>3
<1>4. \A s \in Steps : s \in Nodes /\ rec'[s] = rec[s]
  BY <1>2, <1>3, OrderFacts, StepsAreNoSources
<1>5. RecordsFollowOrder'
  <2>1. \A i \in 1..Len(Order) : Order[i] \in Steps
    BY OrderFacts
  <2>2. QED
    BY <1>4, <2>1 DEF Stores, RecordsFollowOrder
<1>6. ArtifactsWhole'
  BY <1>1, <1>2, <1>3 DEF Stores, ArtifactsWhole
<1>7. Stores'
  BY <1>1, <1>5, <1>6 DEF Stores, NothingBefore, Unstarted, NoRun,
                          SourcesLocked, CertifiedSteps
<1>8. Seeding(w)'
  <2> DEFINE seeded(i, c) == \E j \in 1..Len(SourceOrder) :
                                 j < c /\ SourceOrder[j] = SourceOrder[i]
  <2>1. ASSUME NEW i \in 1..Len(SourceOrder)
        PROVE  seeded(i, cursor[w] + 1)
                 <=> seeded(i, cursor[w]) \/ SourceOrder[i] = Source(w)
    <3>1. ASSUME NEW j \in 1..Len(SourceOrder)
          PROVE  j < cursor[w] + 1 <=> j < cursor[w] \/ j = cursor[w]
      BY <1>2, SourceFacts
    <3>2. QED
      BY <1>2, <3>1
  <2>2. \A i \in 1..Len(SourceOrder) :
           /\ SourceOrder[i] \in Nodes
           /\ rec[SourceOrder[i]] = IF seeded(i, cursor[w]) THEN "COMPLETED" ELSE "NONE"
    BY <1>1, SourceFacts DEF Seeding
  <2>3. \A i \in 1..Len(SourceOrder) :
           rec'[SourceOrder[i]] =
               IF seeded(i, cursor[w] + 1) THEN "COMPLETED" ELSE "NONE"
    <3> HIDE DEF seeded
    <3> QED
      BY <1>2, <1>3, <2>1, <2>2
  <2>4. QED
    BY <1>1, <1>3, <2>3 DEF Seeding
<1>9. QED
  BY <1>3, <1>7, <1>8, AtSeed
-----------------------------------------------------------------------------
(* The invariant is inductive when calls are serialised.                   *)
LEMMA OnlyOneWorks ==
    ASSUME ~MayOverlap, IInv, NEW w \in Workers, Work(w) \/ Call(w) \/ Crash(w)
    PROVE  \A v \in Workers \ {w} : pc[v] = "idle" /\ pc'[v] = pc[v]
<1> USE LabelsArePcs DEF IInv
<1>1. \A v \in Workers \ {w} : pc[v] = "idle"
  <2>1. CASE Call(w)
    BY <2>1 DEF Call, StartRun, CallRun, CallRelease, MayCall
  <2>2. CASE pc[w] # "idle"
    BY <2>2, OthersIdle
  <2>3. QED
    BY <2>1, <2>2 DEF Work, CheckTransition, WriteState, CreateRun, SaveSource,
       SourceSaved, RecordSource, ReturnRunId, SkipCompleted, LookUp,
       LoadInputs, MarkRunning, Execute, SaveArtifact, ArtifactSaved,
       MarkCompleted, RecordFailure, AllStepsDone, Reconcile, Decide, Crash
<1>2. (\E label \in Pcs : Goto(w, label)) \/ UNCHANGED pc
  BY DEF Work, Call, CheckTransition, WriteState, CreateRun, SaveSource,
       SourceSaved, RecordSource, ReturnRunId, SkipCompleted, LookUp,
       LoadInputs, MarkRunning, Execute, SaveArtifact, ArtifactSaved,
       MarkCompleted, RecordFailure, AllStepsDone, Reconcile, Decide, Crash,
       StartRun, CallRun, CallRelease, Update
<1>3. QED
  BY <1>1, <1>2, GotoPc

LEMMA Inductive ==
    ASSUME ~MayOverlap, IInv, [Next]_vars
    PROVE  IInv'
<1>1. ASSUME NEW w \in Workers, Work(w) \/ Call(w) \/ Crash(w)
      PROVE  Stores' /\ Position(w)'
  <2>1. CASE \/ CheckTransition(w) \/ LookUp(w) \/ LoadInputs(w)
             \/ Execute(w) \/ Reconcile(w) \/ Decide(w) \/ AllStepsDone(w)
             \/ SkipCompleted(w) \/ StartRun(w) \/ CallRun(w)
             \/ CallRelease(w) \/ Crash(w)
    <3>1. UNCHANGED <<runState, handedOut, rec, file>>
      BY <2>1 DEF CheckTransition, LookUp, LoadInputs, Execute, Reconcile,
                  Decide, AllStepsDone, SkipCompleted, StartRun, CallRun,
                  CallRelease, Crash
    <3>2. QED
      BY <2>1, <3>1, StoresKept, LookingStep DEF IInv
  <2>2. CASE CreateRun(w) \/ WriteState(w) \/ ReturnRunId(w)
    BY <2>2, CreateStep, WriteStep, ReturnStep
  <2>3. CASE \/ SaveSource(w) \/ SourceSaved(w)
             \/ SaveArtifact(w) \/ ArtifactSaved(w)
    BY <2>3, SaveStep
  <2>4. CASE \/ RecordSource(w) \/ MarkRunning(w)
             \/ MarkCompleted(w) \/ RecordFailure(w)
    BY <2>4, RecordSourceStep, StepRecordStep
  <2>5. QED
    BY <1>1, <2>1, <2>2, <2>3, <2>4 DEF Work, Call
<1>2. ASSUME NEW w \in Workers, Work(w) \/ Call(w) \/ Crash(w) PROVE IInv'
  BY <1>1, <1>2, OnlyOneWorks, Assemble
<1>3. CASE UNCHANGED vars
  <2>1. TypeOK' /\ CursorOK'
    BY TypeStep DEF IInv
  <2>2. Stores'
    BY <1>3, StoresKept DEF vars, IInv
  <2>3. OneCall' /\ \A w \in Workers : Position(w)'
    BY <1>3 DEF vars, IInv, OneCall, Position, Seeding, Looping, Releasing,
                Updating, Justified, AllDone, Step, Source
  <2>4. QED
    BY <2>1, <2>2, <2>3 DEF IInv
<1>4. QED
  BY <1>2, <1>3 DEF Next

LEMMA Initially == Init => IInv
<1> SUFFICES ASSUME Init PROVE IInv
  OBVIOUS
<1>1. TypeOK /\ CursorOK
  BY TypeInit
<1>2. OneCall
  BY DEF Init, OneCall
<1>3. \A n \in Nodes : rec[n] = "NONE"
  BY DEF Init
<1>4. Stores
  <2>1. RecordsFollowOrder
    BY <1>3, OrderFacts DEF RecordsFollowOrder
  <2>2. QED
    BY <1>3, <2>1 DEF Init, NoRun, Stores, NothingBefore, ArtifactsWhole,
                      SourcesLocked, CertifiedSteps
<1>5. \A w \in Workers : Position(w)
  BY LabelsArePcs DEF Init, Position, Seeding, Looping, Releasing, Updating,
                      ReleasePcs, UpdatePcs
<1>6. QED
  BY <1>1, <1>2, <1>4, <1>5 DEF IInv
-----------------------------------------------------------------------------
(* The theorems.                                                           *)

(* With serialised calls the inductive invariant holds after any number of *)
(* crashes and resumes.                                                    *)
THEOREM Invariance == ASSUME ~MayOverlap PROVE Spec => []IInv
<1>1. IInv /\ [Next]_vars => IInv'
  BY Inductive
<1>2. QED
  BY <1>1, Initially, PTL DEF Spec

(* With a file name for each node its records say what is on disk.         *)
LEMMA OwnFiles ==
    ASSUME NamesDistinct, IInv
    PROVE  CompletedHasArtifact /\ CertifiedMeansDone
<1>1. CompletedHasArtifact
  BY DEF NamesDistinct, IInv, Stores, ArtifactsWhole, CompletedHasArtifact
<1>2. QED
  BY <1>1, OrderFacts DEF IInv, Stores, CertifiedSteps, AllDone,
                          CompletedHasArtifact, CertifiedMeansDone

(* A COMPLETED record always has its whole artifact.                       *)
THEOREM ArtifactSafety ==
    ASSUME ~MayOverlap, NamesDistinct PROVE Spec => []CompletedHasArtifact
<1>1. IInv => CompletedHasArtifact
  BY OwnFiles
<1>2. QED
  BY <1>1, Invariance, PTL

(* Step records appear strictly in execution order.                        *)
THEOREM OrderSafety ==
    ASSUME ~MayOverlap PROVE Spec => []RecordsFollowOrder
<1>1. IInv => RecordsFollowOrder
  BY DEF IInv, Stores
<1>2. QED
  BY <1>1, Invariance, PTL

(* A VERIFYING or RELEASED run has every step COMPLETED and on disk.       *)
THEOREM CertifiedSafety ==
    ASSUME ~MayOverlap, NamesDistinct PROVE Spec => []CertifiedMeansDone
<1>1. IInv => CertifiedMeansDone
  BY OwnFiles
<1>2. QED
  BY <1>1, Invariance, PTL

(* A run whose id is known has all its sources locked and stored.          *)
THEOREM SourcesSafety ==
    ASSUME ~MayOverlap PROVE Spec => []SourcesLocked
<1>1. IInv => SourcesLocked
  BY DEF IInv, Stores
<1>2. QED
  BY <1>1, Invariance, PTL

(***************************************************************************)
(* 2. What a step of RunOrchestrator may change, with serialised calls;    *)
(* and with distinct names too, that it implements RunLifecycle.           *)
(***************************************************************************)

(* The actions, by what they write.                                        *)
Looks(w) ==
    \/ CheckTransition(w) \/ LookUp(w) \/ LoadInputs(w) \/ Execute(w)
    \/ Reconcile(w) \/ Decide(w) \/ AllStepsDone(w) \/ SkipCompleted(w)
    \/ ReturnRunId(w) \/ Call(w) \/ Crash(w)
Saves(w) == \/ SaveSource(w) \/ SourceSaved(w)
            \/ SaveArtifact(w) \/ ArtifactSaved(w)
Records(w) == \/ RecordSource(w) \/ MarkRunning(w)
              \/ MarkCompleted(w) \/ RecordFailure(w)
Moves(w) == CreateRun(w) \/ WriteState(w)

LEMMA FourKinds ==
    ASSUME Next
    PROVE  \E w \in Workers : Looks(w) \/ Saves(w) \/ Records(w) \/ Moves(w)
BY DEF Next, Work, Looks, Saves, Records, Moves

LEMMA LooksChangeNothing ==
    ASSUME NEW w \in Workers, Looks(w)
    PROVE  UNCHANGED <<runState, rec, file>>
BY DEF Looks, CheckTransition, LookUp, LoadInputs, Execute, Reconcile, Decide,
       AllStepsDone, SkipCompleted, ReturnRunId, Call, StartRun, CallRun,
       CallRelease, Crash

(* The file of a COMPLETED node is written only if the node shares it.     *)
LEMMA SavesAreOfUnfinished ==
    ASSUME IInv, NEW w \in Workers, Saves(w)
    PROVE  /\ UNCHANGED <<runState, rec>>
           /\ \E n \in Nodes : MayBeSaved(n) /\ (Truncate(n) \/ Fill(n))
<1>1. CASE SaveSource(w) \/ SourceSaved(w)
  <2>1. /\ pc[w] \in {"seed", "seed_save"}
        /\ cursor[w] \in 1..Len(SourceOrder)
    BY <1>1, CursorIsPositive, SourceFacts
       DEF SaveSource, SourceSaved, IInv, CursorOK
  <2>2. Source(w) \in Nodes /\ MayBeSaved(Source(w))
    BY <2>1, SeededTwice
  <2>3. QED
    BY <1>1, <2>2 DEF SaveSource, SourceSaved
<1>2. CASE SaveArtifact(w) \/ ArtifactSaved(w)
  <2>1. pc[w] \in LoopPcs \ {"next"} /\ Looping(w)
    BY <1>2, LabelsArePcs DEF SaveArtifact, ArtifactSaved, IInv, Position
  <2>2. Step(w) \in Nodes /\ rec[Step(w)] # "COMPLETED"
    BY <2>1, StepIsStep DEF Looping, Nodes, IInv
  <2>3. QED
    BY <1>2, <2>2 DEF SaveArtifact, ArtifactSaved, MayBeSaved
<1>3. QED
  BY <1>1, <1>2 DEF Saves

(* A COMPLETED record is written over by its like only.                    *)
LEMMA RecordsAreOfUnfinished ==
    ASSUME IInv, NEW w \in Workers, Records(w)
    PROVE  /\ UNCHANGED <<runState, file>>
           /\ \E n \in Nodes, status \in Statuses :
                 /\ rec[n] # "COMPLETED" \/ status = "COMPLETED"
                 /\ Put(n, status)
<1>1. CASE RecordSource(w)
  <2>1. Source(w) \in Nodes
    BY <1>1, SourceIsSource, SourceFacts DEF RecordSource, IInv
  <2>2. QED
    BY <1>1, <2>1 DEF RecordSource, Statuses
<1>2. CASE MarkRunning(w) \/ MarkCompleted(w) \/ RecordFailure(w)
  <2>1. pc[w] \in LoopPcs \ {"next"} /\ Looping(w)
    BY <1>2, LabelsArePcs
       DEF MarkRunning, MarkCompleted, RecordFailure, IInv, Position
  <2>2. Step(w) \in Nodes /\ rec[Step(w)] # "COMPLETED"
    BY <2>1, StepIsStep DEF Looping, Nodes, IInv
  <2>3. QED
    BY <1>2, <2>2 DEF MarkRunning, MarkCompleted, RecordFailure, Statuses
<1>3. QED
  BY <1>1, <1>2 DEF Records

LEMMA MovesKeepTheRest ==
    ASSUME NEW w \in Workers, Moves(w)
    PROVE  UNCHANGED <<rec, file>>
BY DEF Moves, CreateRun, WriteState
-----------------------------------------------------------------------------
(* The three action properties.                                            *)

LEMMA FinalStep ==
    ASSUME IInv, [Next]_vars, NEW n \in Nodes, rec[n] = "COMPLETED"
    PROVE  rec'[n] = "COMPLETED"
<1>1. CASE rec' = rec
  BY <1>1
<1>2. ASSUME NEW w \in Workers, Records(w)
      PROVE  rec'[n] = "COMPLETED"
  <2>1. PICK m \in Nodes, status \in Statuses :
            /\ rec[m] # "COMPLETED" \/ status = "COMPLETED"
            /\ Put(m, status)
    BY <1>2, RecordsAreOfUnfinished
  <2>2. n = m => status = "COMPLETED"
    BY <2>1
  <2>3. QED
    BY <2>1, <2>2, PutRec DEF IInv
<1>3. CASE Next
  BY <1>1, <1>2, <1>3, FourKinds, LooksChangeNothing, SavesAreOfUnfinished,
     MovesKeepTheRest
<1>4. CASE UNCHANGED vars
  BY <1>1, <1>4 DEF vars
<1>5. QED
  BY <1>3, <1>4

LEMMA ImmutableStep ==
    ASSUME IInv, [Next]_vars, NEW n \in Nodes, Unshared(n),
           rec[n] = "COMPLETED"
    PROVE  file'[PathOf[n]] = file[PathOf[n]]
<1>1. CASE file' = file
  BY <1>1
<1>2. ASSUME NEW w \in Workers, Saves(w)
      PROVE  file'[PathOf[n]] = file[PathOf[n]]
  <2>1. PICK m \in Nodes : MayBeSaved(m) /\ (Truncate(m) \/ Fill(m))
    BY <1>2, SavesAreOfUnfinished
  <2>2. n # m
    BY <2>1 DEF MayBeSaved
  <2>3. QED
    BY <2>1, <2>2, OtherFilesKept DEF IInv
<1>3. CASE Next
  BY <1>1, <1>2, <1>3, FourKinds, LooksChangeNothing, RecordsAreOfUnfinished,
     MovesKeepTheRest
<1>4. CASE UNCHANGED vars
  BY <1>1, <1>4 DEF vars
<1>5. QED
  BY <1>3, <1>4

(* A state is written by create_run(), or along an edge that was checked   *)
(* and for a reason that still holds.                                      *)
LEMMA MoveStep ==
    ASSUME IInv, NEW w \in Workers, Moves(w)
    PROVE  \/ runState = NoRun /\ runState' = "DRAFT"
           \/ /\ Lifecycle!Allowed(runState, runState')
              /\ runState' \in Lifecycle!RunStates
              /\ runState' \in {"VERIFYING", "RELEASED"} => AllDone
<1>1. CASE CreateRun(w)
  BY <1>1 DEF CreateRun, IInv, Position
<1>2. CASE WriteState(w)
  <2>1. pc[w] = "write" /\ runState' = target[w]
    BY <1>2 DEF WriteState
  <2>2. Justified(target[w]) /\ Lifecycle!Allowed(runState, target[w])
    BY <2>1 DEF IInv, Position, Updating, UpdatePcs
  <2>3. target[w] \in Lifecycle!RunStates
    BY DEF IInv, TypeOK
  <2>4. QED
    BY <2>1, <2>2, <2>3 DEF Justified
<1>3. QED
  BY <1>1, <1>2 DEF Moves

LEMMA LegalStep ==
    ASSUME IInv, [Next]_vars, runState' # runState
    PROVE  \/ runState = NoRun /\ runState' = "DRAFT"
           \/ Lifecycle!Allowed(runState, runState')
<1>1. PICK w \in Workers : Looks(w) \/ Saves(w) \/ Records(w) \/ Moves(w)
  BY FourKinds DEF vars
<1>2. Moves(w)
  BY <1>1, LooksChangeNothing, SavesAreOfUnfinished, RecordsAreOfUnfinished
<1>3. QED
  BY <1>2, MoveStep
-----------------------------------------------------------------------------
(* The refinement.  A final record has its file, so the nodes that are     *)
(* done are those whose record is COMPLETED.                               *)
Done == {n \in Nodes : rec[n] = "COMPLETED" /\ file[PathOf[n]] = n}

LEMMA DoneIsCompleted ==
    ASSUME NamesDistinct, IInv
    PROVE  Done = {n \in Nodes : rec[n] = "COMPLETED"}
BY OwnFiles DEF CompletedHasArtifact, Done

LEMMA DoneKept ==
    ASSUME NamesDistinct, IInv, IInv', rec' = rec
    PROVE  Done' = Done
<1>1. Done' = {n \in Nodes : rec'[n] = "COMPLETED"}
  BY DEF NamesDistinct, IInv, Stores, ArtifactsWhole, Unshared, Done
<1>2. QED
  BY <1>1, DoneIsCompleted

LEMMA DoneGrows ==
    ASSUME NamesDistinct, IInv, IInv', NEW n \in Nodes, Put(n, "COMPLETED")
    PROVE  Done' = Done \cup {n}
<1>1. Done' = {m \in Nodes : rec'[m] = "COMPLETED"}
  BY DEF NamesDistinct, IInv, Stores, ArtifactsWhole, Unshared, Done
<1>2. rec'[n] = "COMPLETED" /\ \A m \in Nodes \ {n} : rec'[m] = rec[m]
  BY PutRec DEF IInv, Statuses
<1>3. QED
  BY <1>1, <1>2, DoneIsCompleted

LEMMA SeedStep ==
    ASSUME NamesDistinct, IInv, IInv', NEW w \in Workers, RecordSource(w)
    PROVE  Lifecycle!Seed
<1>1. pc[w] = "seed_record" /\ Seeding(w) /\ runState = "RUNNING"
  BY DEF RecordSource, IInv, Position, Seeding
<1>2. /\ Source(w) \in Sources /\ Source(w) \in Nodes
      /\ cursor[w] \in 1..Len(SourceOrder)
  BY <1>1, SourceIsSource DEF IInv, Nodes
<1>3. rec[Source(w)] # "COMPLETED"
  BY <1>1, <1>2, SeededTwice DEF MayBeSaved, NamesDistinct
<1>4. Source(w) \notin Done
  BY <1>3 DEF Done
<1>5. Done' = Done \cup {Source(w)} /\ UNCHANGED runState
  BY <1>2, DoneGrows DEF RecordSource
<1>6. QED
  BY <1>1, <1>2, <1>4, <1>5 DEF Lifecycle!Seed, Done

LEMMA FinishStep ==
    ASSUME NamesDistinct, IInv, IInv', NEW w \in Workers, MarkCompleted(w)
    PROVE  Lifecycle!Finish
<1>1. pc[w] = "complete" /\ Looping(w)
  BY LabelsArePcs DEF MarkCompleted, IInv, Position
<1>2. /\ runState = "RUNNING" /\ handedOut /\ rec[Step(w)] # "COMPLETED"
      /\ \A i \in 1..Len(Order) :
            i < cursor[w] => rec[Order[i]] = "COMPLETED"
  BY <1>1, LabelsArePcs DEF Looping
<1>3. /\ Step(w) \in Steps /\ Step(w) \in Nodes
      /\ cursor[w] \in 1..Len(Order) /\ Step(w) = Order[cursor[w]]
  BY <1>1, StepIsStep, LabelsArePcs DEF IInv, Nodes, Step
<1>4. Sources \subseteq Done
  BY <1>2, SourceFacts, DoneIsCompleted DEF IInv, Stores, SourcesLocked
<1>5. Deps[Step(w)] \cap Steps \subseteq Done
  <2> SUFFICES ASSUME NEW d \in Deps[Step(w)] \cap Steps PROVE d \in Done
    OBVIOUS
  <2>1. PICK j \in 1..(cursor[w] - 1) : Order[j] = d
    BY <1>3, OrderAssumption
  <2>2. j \in 1..Len(Order) /\ j < cursor[w]
    BY <1>3, OrderFacts
  <2>3. rec[d] = "COMPLETED" /\ d \in Nodes
    BY <1>2, <2>1, <2>2, OrderFacts
  <2>4. QED
    BY <2>3, DoneIsCompleted
<1>6. Deps[Step(w)] \subseteq Steps \cup Sources
  BY <1>3, WorkflowAssumption DEF Nodes
<1>7. Step(w) \in Steps \ Done
  BY <1>2, <1>3 DEF Done
<1>8. Done' = Done \cup {Step(w)} /\ UNCHANGED runState
  BY <1>3, DoneGrows DEF MarkCompleted
<1>9. Sources \cup Deps[Step(w)] \subseteq Done
  BY <1>4, <1>5, <1>6
<1>10. QED
  BY <1>2, <1>7, <1>8, <1>9 DEF Lifecycle!Finish, Done

LEMMA AdvanceStep ==
    ASSUME NamesDistinct, IInv, IInv', NEW w \in Workers, Moves(w)
    PROVE  Lifecycle!Create \/ Lifecycle!Advance
<1>1. Done' = Done
  BY MovesKeepTheRest, DoneKept
<1>2. CASE runState = NoRun /\ runState' = "DRAFT"
  BY <1>1, <1>2 DEF Lifecycle!Create, Lifecycle!NoRun, NoRun, Done
<1>3. CASE /\ Lifecycle!Allowed(runState, runState')
           /\ runState' \in Lifecycle!RunStates
           /\ runState' \in {"VERIFYING", "RELEASED"} => AllDone
  <2>1. runState' \in {"VERIFYING", "RELEASED"} => Steps \subseteq Done
    BY <1>3, DoneIsCompleted DEF AllDone, Nodes
  <2>2. QED
    BY <1>1, <1>3, <2>1 DEF Lifecycle!Advance, Lifecycle!Certified, Done
<1>4. QED
  BY <1>2, <1>3, MoveStep

(* Every step is a step of RunLifecycle or leaves it alone.                *)
LEMMA StepSimulation ==
    ASSUME NamesDistinct, IInv, IInv', [Next]_vars
    PROVE  [Lifecycle!Next]_(Lifecycle!vars)
<1>1. CASE UNCHANGED runState /\ rec' = rec
  <2>1. Done' = Done
    BY <1>1, DoneKept
  <2>2. QED
    BY <1>1, <2>1 DEF Lifecycle!vars, Done
<1>2. ASSUME NEW w \in Workers, Moves(w)
      PROVE  Lifecycle!Next
  BY <1>2, AdvanceStep DEF Lifecycle!Next
<1>3. ASSUME NEW w \in Workers, Records(w)
      PROVE  [Lifecycle!Next]_(Lifecycle!vars)
  <2>1. CASE RecordSource(w)
    BY <2>1, SeedStep DEF Lifecycle!Next
  <2>2. CASE MarkCompleted(w)
    BY <2>2, FinishStep DEF Lifecycle!Next
  <2>3. CASE MarkRunning(w) \/ RecordFailure(w)
    <3>1. pc[w] \in LoopPcs \ {"next"} /\ Looping(w)
      BY <2>3, LabelsArePcs DEF MarkRunning, RecordFailure, IInv, Position
    <3>2. Step(w) \in Nodes /\ rec[Step(w)] # "COMPLETED"
      BY <3>1, StepIsStep DEF Looping, Nodes, IInv
    <3>3. PICK status \in Statuses \ {"COMPLETED"} : Put(Step(w), status)
      BY <2>3 DEF MarkRunning, RecordFailure, Statuses
    <3>4. /\ rec'[Step(w)] # "COMPLETED"
          /\ \A m \in Nodes \ {Step(w)} : rec'[m] = rec[m]
      BY <3>2, <3>3, PutRec DEF IInv
    <3>5. Done' = {m \in Nodes : rec'[m] = "COMPLETED"}
      BY DEF NamesDistinct, IInv, Stores, ArtifactsWhole, Unshared, Done
    <3>6. Done' = Done
      BY <3>2, <3>4, <3>5, DoneIsCompleted
    <3>7. UNCHANGED runState
      BY <2>3 DEF MarkRunning, RecordFailure
    <3>8. QED
      BY <3>6, <3>7 DEF Lifecycle!vars, Done
  <2>4. QED
    BY <1>3, <2>1, <2>2, <2>3 DEF Records
<1>4. CASE Next
  <2>1. PICK w \in Workers : Looks(w) \/ Saves(w) \/ Records(w) \/ Moves(w)
    BY <1>4, FourKinds
  <2>2. CASE Looks(w)
    BY <1>1, <2>2, LooksChangeNothing
  <2>3. CASE Saves(w)
    BY <1>1, <2>3, SavesAreOfUnfinished
  <2>4. QED
    BY <1>2, <1>3, <2>1, <2>2, <2>3
<1>5. CASE UNCHANGED vars
  BY <1>1, <1>5 DEF vars
<1>6. QED
  BY <1>4, <1>5

LEMMA InitSimulation == Init => Lifecycle!Init
<1> SUFFICES ASSUME Init PROVE Lifecycle!Init
  OBVIOUS
<1>1. \A n \in Nodes : rec[n] # "COMPLETED"
  BY DEF Init
<1>2. runState = NoRun
  BY DEF Init
<1>3. QED
  BY <1>1, <1>2 DEF Lifecycle!Init, Lifecycle!NoRun, NoRun
-----------------------------------------------------------------------------
(* run() re-executes nothing that already finished: a COMPLETED record is  *)
(* never replaced.                                                         *)
THEOREM FinalSafety ==
    ASSUME ~MayOverlap PROVE Spec => CompletedIsFinal
<1>1. IInv /\ [Next]_vars =>
          [\A n \in Nodes : rec[n] = "COMPLETED" => rec'[n] = "COMPLETED"]_vars
  BY FinalStep
<1>2. QED
  BY <1>1, Invariance, PTL DEF Spec, CompletedIsFinal

(* The file of a COMPLETED node, a locked source included, is never        *)
(* written again, unless another node has the same file name.              *)
THEOREM ArtifactImmutability ==
    ASSUME ~MayOverlap PROVE Spec => ArtifactsImmutable
<1>1. IInv /\ [Next]_vars =>
          [\A n \in Nodes : Unshared(n) /\ rec[n] = "COMPLETED" =>
              file'[PathOf[n]] = file[PathOf[n]]]_vars
  BY ImmutableStep
<1>2. QED
  BY <1>1, Invariance, PTL DEF Spec, ArtifactsImmutable

(* The run state moves along the edges of the state machine only.          *)
THEOREM TransitionSafety ==
    ASSUME ~MayOverlap PROVE Spec => LegalTransitions
<1>1. IInv /\ [Next]_vars =>
          [runState' # runState =>
              \/ runState = NoRun /\ runState' = "DRAFT"
              \/ Lifecycle!Allowed(runState, runState')]_vars
  BY LegalStep
<1>2. QED
  BY <1>1, Invariance, PTL DEF Spec, LegalTransitions

(* Seen through its final records, a run behaves as RunLifecycle says,     *)
(* however often and wherever its processes die.                           *)
THEOREM Refinement ==
    ASSUME ~MayOverlap, NamesDistinct PROVE Spec => ImplementsLifecycle
<1>1. IInv /\ IInv' /\ [Next]_vars => [Lifecycle!Next]_(Lifecycle!vars)
  BY StepSimulation
<1>2. QED
  BY <1>1, InitSimulation, Invariance, PTL
     DEF Spec, ImplementsLifecycle, Lifecycle!Spec

(***************************************************************************)
(* 3. The incident agent's RETRY is advice that works, with serialised     *)
(* calls and distinct names.                                               *)
(***************************************************************************)

(* A step gets its first row in run(), which needs an id to be called.     *)
StepsNeedAnId == ~handedOut => \A s \in Steps : rec[s] = "NONE"

LEMMA IdStep ==
    ASSUME IInv, StepsNeedAnId, [Next]_vars
    PROVE  StepsNeedAnId'
<1>1. CASE UNCHANGED vars
  BY <1>1 DEF vars, StepsNeedAnId
<1>2. ASSUME NEW w \in Workers, Looks(w) \/ Saves(w) \/ Moves(w)
      PROVE  StepsNeedAnId'
  <2>1. rec' = rec /\ (handedOut' = handedOut \/ handedOut' = TRUE)
    BY <1>2 DEF Looks, CheckTransition, LookUp, LoadInputs, Execute, Reconcile, Decide,
                AllStepsDone, SkipCompleted, ReturnRunId, Call, StartRun, CallRun,
                CallRelease, Crash, Saves, SaveSource, SourceSaved, SaveArtifact,
                ArtifactSaved, Moves, CreateRun, WriteState
  <2>2. QED
    BY <2>1 DEF StepsNeedAnId
<1>3. ASSUME NEW w \in Workers, RecordSource(w) PROVE StepsNeedAnId'
  <2>1. pc[w] = "seed_record" /\ cursor[w] \in 1..Len(SourceOrder)
    BY <1>3, CursorIsPositive, SourceFacts DEF RecordSource, IInv, CursorOK
  <2>2. Source(w) \in Sources
    BY <2>1, SourceFacts DEF Source
  <2>3. \A s \in Steps : rec'[s] = rec[s]
    BY <1>3, <2>2, StepsAreNoSources, OrderFacts DEF RecordSource, Put, IInv, TypeOK
  <2>4. QED
    BY <1>3, <2>3 DEF RecordSource, StepsNeedAnId
<1>4. ASSUME NEW w \in Workers, MarkRunning(w) \/ MarkCompleted(w) \/ RecordFailure(w)
      PROVE  StepsNeedAnId'
  <2>1. pc[w] \in LoopPcs
    BY <1>4, LabelsArePcs DEF MarkRunning, MarkCompleted, RecordFailure
  <2>2. handedOut
    BY <2>1 DEF IInv, Position, Looping
  <2>3. handedOut' = handedOut
    BY <1>4 DEF MarkRunning, MarkCompleted, RecordFailure
  <2>4. QED
    BY <2>2, <2>3 DEF StepsNeedAnId
<1>5. QED
  BY <1>1, <1>2, <1>3, <1>4, FourKinds DEF Records

(* Only a stalled step is ever retried, and only when none has failed.     *)
LEMMA RetriedAreStalled ==
    ASSUME NEW s \in Retried
    PROVE  s \in StalledSteps /\ FailedSteps = {}
<1>1. PICK a \in Answers : a.action = "RETRY" /\ a.from = s
  BY DEF Retried
<1>2. PICK n \in {0, Threshold}, approved \in BOOLEAN : a \in Diagnoses(n, approved)
  BY <1>1 DEF Answers
<1>3. \A code \in Codes : AdviceOnFailure(code, approved).action # "RETRY"
  BY DEF AdviceOnFailure, Advice
<1>4. a # Advice("ESCALATE", Nowhere) /\ a # Advice("STOP", Nowhere)
  BY <1>1 DEF Advice
<1>5. a \in FirstAdvice(approved)
  BY <1>2, <1>4 DEF Diagnoses
<1>6. FailedSteps = {}
  BY <1>1, <1>3, <1>5 DEF FirstAdvice
<1>7. a \in {Advice("RETRY", t) : t \in StalledSteps}
  BY <1>4, <1>5, <1>6 DEF FirstAdvice
<1>8. PICK t \in StalledSteps : a = Advice("RETRY", t)
  BY <1>7
<1>9. s = t
  BY <1>1, <1>8 DEF Advice
<1>10. QED
  BY <1>6, <1>8, <1>9

(* The row of a stalled step is the last one; those before it COMPLETED.   *)
LEMMA StalledIsNext ==
    ASSUME NamesDistinct, IInv, StepsNeedAnId, NEW s \in StalledSteps
    PROVE  /\ \A n \in Deps[s] : Readable(n)
           /\ \A i \in 1..Len(Order) :
                rec[Order[i]] # "COMPLETED" => \E j \in 1..i : Order[j] = s
<1>1. s \in Steps /\ rec[s] = "RUNNING" /\ handedOut
  BY DEF StalledSteps, StepsNeedAnId
<1>2. PICK k \in 1..Len(Order) : Order[k] = s
  BY <1>1, OrderFacts
<1>3. \A j \in 1..(k-1) : rec[Order[j]] = "COMPLETED"
  BY <1>1, <1>2 DEF IInv, Stores, RecordsFollowOrder
<1>4. ASSUME NEW i \in 1..Len(Order), rec[Order[i]] # "COMPLETED"
      PROVE  \E j \in 1..i : Order[j] = s
  <2>1. ~(i < k)
    BY <1>3, <1>4, OrderFacts
  <2>2. k \in 1..i
    BY <2>1, OrderFacts
  <2>3. QED
    BY <1>2, <2>2
<1>5. ASSUME NEW n \in Deps[s] PROVE Readable(n)
  <2>1. n \in Nodes
    BY <1>1, WorkflowAssumption
  <2>2. rec[n] = "COMPLETED"
    <3>1. CASE n \in Sources
      BY <1>1, <3>1 DEF IInv, Stores, SourcesLocked
    <3>2. CASE n \in Steps
      <4>1. PICK j \in 1..(k-1) : Order[j] = n
        BY <1>2, <1>5, <3>2, OrderAssumption
      <4>2. QED
        BY <1>3, <4>1
    <3>3. QED
      BY <2>1, <3>1, <3>2 DEF Nodes
  <2>3. file[PathOf[n]] = n
    BY <2>1, <2>2, OwnFiles DEF CompletedHasArtifact
  <2>4. QED
    BY <2>1, <2>3, WorkflowAssumption DEF Readable
<1>6. QED
  BY <1>4, <1>5

(* diagnose_incident(): calling run() again takes up the step RETRY names, *)
(* which can load its inputs.                                              *)
THEOREM RetrySafety == ASSUME ~MayOverlap, NamesDistinct PROVE Spec => []RetryResumes
<1>1. Init => StepsNeedAnId
  BY DEF Init, StepsNeedAnId, Nodes
<1>2. IInv /\ StepsNeedAnId /\ [Next]_vars => StepsNeedAnId'
  BY IdStep
<1>3. IInv /\ StepsNeedAnId => RetryResumes
  BY RetriedAreStalled, StalledIsNext DEF RetryResumes
<1>4. QED
  BY <1>1, <1>2, <1>3, Invariance, PTL DEF Spec

(***************************************************************************)
(* 4. Exports under deaths and retries: for any destinations, shared or    *)
(* not, with serialised calls, whatever others do to the files meanwhile.  *)
(* The product of an export is that of its own inputs: names are distinct. *)
(***************************************************************************)

(* Every step of the exports is one of the orchestrator's, or none.        *)
LEMMA ExportStepIsStep ==
    ASSUME [ExportNext]_<<vars, external>>
    PROVE  [Next]_vars
BY DEF ExportNext, Orchestrate, OpenFile, CloseFile, OthersWrite, Next, vars, external

LEMMA ExportsAreSteps ==
    /\ \A s \in Exports : s \in Steps /\ Destination[s] \in Destinations
    /\ \A s \in Exports : /\ Product[s] \notin {Absent, Torn, Foreign, NoSum}
                          /\ Product[s] \in Contents
    /\ Foreign \notin {Absent, Torn}
    /\ {Foreign, Absent, Torn} \subseteq Contents
    /\ Absent # Torn
BY ExportAssumption DEF Contents, Absent, Torn

(* Where a worker is past the tests of its loop, it is at a step that has  *)
(* not completed.                                                          *)
LEMMA AtStep ==
    ASSUME IInv, NEW w \in Workers,
           pc[w] \in {"exec", "save", "saving", "complete"}
    PROVE  /\ Step(w) \in Steps /\ rec[Step(w)] # "COMPLETED"
           /\ runState = "RUNNING"
<1>1. pc[w] \in LoopPcs \ {"next"}
  BY DEF LoopPcs
<1>2. QED
  BY <1>1, StepIsStep DEF IInv, Position, Looping

(* What a step of one worker does to the records of the steps.             *)
RecordsOf(w) ==
    \/ UNCHANGED rec
    \/ \E n \in Sources : Put(n, "COMPLETED")
    \/ pc[w] = "mark" /\ Put(Step(w), "RUNNING") /\ pc'[w] = "exec"
    \/ pc[w] = "complete" /\ Put(Step(w), "COMPLETED") /\ pc'[w] = "next"
    \/ pc[w] = "fail" /\ Put(Step(w), "FAILED") /\ pc'[w] = "check"

LEMMA RecordsKinds ==
    ASSUME IInv, NEW w \in Workers, Work(w) \/ Call(w) \/ Crash(w)
    PROVE  RecordsOf(w)
<1>1. CASE Looks(w) \/ Saves(w) \/ Moves(w)
  BY <1>1, LooksChangeNothing, SavesAreOfUnfinished, MovesKeepTheRest DEF RecordsOf
<1>2. CASE RecordSource(w)
  <2>1. Source(w) \in Sources
    BY <1>2, SourceIsSource DEF RecordSource, IInv
  <2>2. QED
    BY <1>2, <2>1 DEF RecordSource, RecordsOf
<1>3. CASE MarkRunning(w) \/ MarkCompleted(w) \/ RecordFailure(w)
  <2>1. "exec" \in Pcs /\ "next" \in Pcs /\ "QUARANTINED" \in Lifecycle!RunStates
    BY LabelsArePcs, StatesAreStates
  <2>2. QED
    BY <1>3, <2>1, GotoPc, UpdatePc
       DEF MarkRunning, MarkCompleted, RecordFailure, RecordsOf, IInv
<1>4. QED
  BY <1>1, <1>2, <1>3
     DEF Work, Looks, Saves, Moves
LEMMA StepRecords ==
    ASSUME IInv, NEW w \in Workers, Work(w) \/ Call(w) \/ Crash(w), NEW s \in Steps
    PROVE  /\ rec[s] # "NONE" => rec'[s] # "NONE"
           /\ rec[s] = "COMPLETED" => rec'[s] = "COMPLETED"
           /\ rec[s] # "COMPLETED" /\ rec'[s] = "COMPLETED" =>
                pc[w] = "complete" /\ s = Step(w)
<1>1. s \in Nodes /\ s \notin Sources
  BY OrderFacts, StepsAreNoSources
<1>2. RecordsOf(w)
  BY RecordsKinds
<1>3. rec \in [Nodes -> Statuses]
  BY DEF IInv, TypeOK
<1>4. ASSUME pc[w] \in {"mark", "complete", "fail"} PROVE rec[Step(w)] # "COMPLETED"
  <2>1. pc[w] \in LoopPcs \ {"next"}
    BY <1>4 DEF LoopPcs
  <2>2. QED
    BY <2>1 DEF IInv, Position, Looping
<1>5. QED
  BY <1>1, <1>2, <1>3, <1>4 DEF RecordsOf, Put

(* How a worker gets to where it executes a step or holds its result.      *)
LEMMA LoopMoves ==
    ASSUME IInv, NEW w \in Workers, Work(w) \/ Call(w) \/ Crash(w)
    PROVE  /\ pc'[w] = "exec" => MarkRunning(w)
           /\ pc'[w] = "save" => Execute(w)
           /\ pc'[w] = "saving" => SaveArtifact(w)
           /\ pc'[w] = "complete" => ArtifactSaved(w)
<1>1. w \in DOMAIN pc
  BY DEF IInv, TypeOK
<1>2. CASE Call(w) \/ Crash(w)
  BY <1>1, <1>2 DEF Call, StartRun, CallRun, CallRelease, Crash, Goto
<1>3. CASE \/ CheckTransition(w) \/ WriteState(w) \/ CreateRun(w) \/ SaveSource(w)
           \/ SourceSaved(w) \/ RecordSource(w) \/ ReturnRunId(w)
  BY <1>1, <1>3 DEF CheckTransition, WriteState, CreateRun, SaveSource, SourceSaved,
                    RecordSource, ReturnRunId, Goto, Update
<1>4. CASE \/ SkipCompleted(w) \/ LookUp(w) \/ LoadInputs(w) \/ MarkCompleted(w)
           \/ RecordFailure(w) \/ AllStepsDone(w) \/ Reconcile(w) \/ Decide(w)
  BY <1>1, <1>4 DEF SkipCompleted, LookUp, LoadInputs, MarkCompleted, RecordFailure,
                    AllStepsDone, Reconcile, Decide, Goto, Update
<1>5. CASE MarkRunning(w) \/ Execute(w) \/ SaveArtifact(w) \/ ArtifactSaved(w)
  BY <1>1, <1>5 DEF MarkRunning, Execute, SaveArtifact, ArtifactSaved, Goto
<1>6. QED
  BY <1>2, <1>3, <1>4, <1>5 DEF Work

(* The worker that acts, in what it holds and where it writes.             *)
LEMMA ActorStep ==
    ASSUME IInv, ExportInv, NEW w \in Workers, Orchestrate(w)
    PROVE  Writing(w)' /\ Holding(w)'
<1>1. /\ Work(w) \/ Call(w) \/ Crash(w)
      /\ Exporting(w) /\ pc'[w] = "save" => wrote[w] = "closed"
      /\ world' = world /\ wrote'[w] = "no" /\ sum'[w] = ResultSum(w)
  BY DEF Orchestrate, Effects, ExportInv, ExportTypeOK
<1>2. Writing(w) /\ Holding(w)
  BY DEF ExportInv
<1>3. ASSUME pc'[w] = "exec" PROVE rec'[Step(w)'] = "RUNNING"
  <2>1. pc[w] = "mark" /\ Put(Step(w), "RUNNING") /\ cursor' = cursor
    BY <1>1, <1>3, LoopMoves DEF MarkRunning
  <2>2. Step(w) \in Nodes
    BY <2>1, StepIsStep, OrderFacts DEF IInv, LoopPcs
  <2>3. QED
    BY <2>1, <2>2 DEF Put, Step, IInv, TypeOK
<1>4. ASSUME pc'[w] = "save", Step(w)' \in Exports
      PROVE  sum'[w] = Product[Step(w)'] /\ Delivered(Step(w))'
  <2>1. pc[w] = "exec" /\ cursor' = cursor
    BY <1>1, <1>4, LoopMoves DEF Execute
  <2>2. Step(w)' = Step(w) /\ Exporting(w)
    BY <1>4, <2>1 DEF Step, Exporting
  <2>3. world[Destination[Step(w)]] = Product[Step(w)]
    BY <1>1, <1>2, <1>4, <2>2 DEF Writing
  <2>4. QED
    BY <1>1, <1>4, <2>2, <2>3 DEF ResultSum, Delivered
<1>5. ASSUME pc'[w] \in {"saving", "complete"}, Step(w)' \in Exports
      PROVE  sum'[w] = Product[Step(w)'] /\ Delivered(Step(w))'
  <2>1. pc[w] \in {"save", "saving"} /\ cursor' = cursor
    BY <1>1, <1>5, LoopMoves DEF SaveArtifact, ArtifactSaved
  <2>2. Step(w)' = Step(w) /\ ~Exporting(w)
    BY <2>1 DEF Step, Exporting
  <2>3. QED
    BY <1>1, <1>2, <1>5, <2>1, <2>2 DEF ResultSum, Holding, Delivered
<1>6. QED
  BY <1>1, <1>3, <1>4, <1>5 DEF Writing, Holding

LEMMA OrchestrateStep ==
    ASSUME ~MayOverlap, IInv, ExportInv, NEW w \in Workers, Orchestrate(w)
    PROVE  ExportInv'
<1>1. Work(w) \/ Call(w) \/ Crash(w)
  BY DEF Orchestrate
<1>2. /\ world' = world
      /\ wrote' = [wrote EXCEPT ![w] = "no"]
      /\ sum' = [sum EXCEPT ![w] = ResultSum(w)]
      /\ evidence' = [s \in Exports |-> Recorded(w, s)]
  BY DEF Orchestrate, Effects
<1>3. ExportTypeOK /\ Writing(w) /\ Holding(w)
  BY DEF ExportInv
<1>4. ASSUME NEW s \in Exports
      PROVE  /\ s \in Steps /\ Destination[s] \in Destinations
             /\ Product[s] \notin {Absent, Torn, Foreign, NoSum} /\ Product[s] \in Contents
             /\ rec[s] # "NONE" => rec'[s] # "NONE"
             /\ rec[s] = "COMPLETED" => rec'[s] = "COMPLETED"
             /\ rec[s] # "COMPLETED" /\ rec'[s] = "COMPLETED" =>
                  /\ pc[w] = "complete" /\ s = Step(w)
                  /\ sum[w] = Product[s] /\ Delivered(s)
  BY <1>1, <1>3, ExportsAreSteps, StepRecords DEF Holding
<1>5. ExportTypeOK'
  <2>1. ResultSum(w) \in Contents \cup {NoSum}
    BY <1>3, <1>4 DEF ResultSum, Exporting, ExportTypeOK
  <2>2. \A s \in Exports : Recorded(w, s) \in Contents \cup {NoSum}
    BY <1>3 DEF Recorded, ExportTypeOK
  <2>3. QED
    BY <1>2, <1>3, <2>1, <2>2 DEF ExportTypeOK
<1>6. ASSUME NEW v \in Workers \ {w} PROVE Writing(v)' /\ Holding(v)'
  <2>1. pc[v] = "idle" /\ pc'[v] = "idle"
    BY <1>1, OnlyOneWorks
  <2>2. wrote'[v] = "no"
    BY <1>2, <1>3, <2>1 DEF ExportInv, Writing, Exporting, ExportTypeOK
  <2>3. QED
    BY <2>1, <2>2 DEF Writing, Holding
<1>7. EvidenceOfCompleted'
  <2>1. ASSUME NEW s \in Exports
        PROVE  Recorded(w, s) = IF rec'[s] = "COMPLETED" THEN Product[s] ELSE NoSum
    <3>1. rec[s] = "COMPLETED" =>
            /\ evidence[s] = Product[s]
            /\ ~(pc[w] = "complete" /\ s = Step(w))
      BY AtStep DEF ExportInv, EvidenceOfCompleted
    <3>2. QED
      BY <1>4, <3>1 DEF Recorded
  <2>2. QED
    BY <1>2, <2>1 DEF EvidenceOfCompleted
<1>8. CompletedIsDelivered'
  <2>1. ASSUME NEW s \in Exports, rec'[s] = "COMPLETED"
        PROVE  (Delivered(s) \/ Shared(s))'
    <3>1. CASE rec[s] # "COMPLETED"
      BY <1>2, <1>4, <2>1, <3>1 DEF Delivered
    <3>2. CASE rec[s] = "COMPLETED"
      <4>1. Delivered(s) \/ Shared(s)
        BY <3>2 DEF ExportInv, CompletedIsDelivered
      <4>2. QED
        BY <1>2, <1>4, <4>1 DEF Delivered, Shared
    <3>3. QED
      BY <3>1, <3>2
  <2>2. QED
    BY <2>1 DEF CompletedIsDelivered
<1>9. TornIsUnfinished'
  <2>1. ASSUME NEW d \in Destinations, world'[d] = Torn
        PROVE  \E s \in Exports : Destination[s] = d /\ rec'[s] # "COMPLETED"
    <3>1. PICK s \in Exports : Destination[s] = d /\ rec[s] # "COMPLETED"
      BY <1>2, <2>1 DEF ExportInv, TornIsUnfinished
    <3>2. ~Delivered(s)
      BY <1>2, <2>1, <3>1, ExportsAreSteps DEF Delivered
    <3>3. QED
      BY <1>4, <3>1, <3>2
  <2>2. QED
    BY <2>1 DEF TornIsUnfinished
<1>10. QED
  BY <1>5, <1>6, <1>7, <1>8, <1>9, ActorStep DEF ExportInv
(* A write of export Step(w) in progress: half of it, or all of it.        *)
LEMMA WriteExportStep ==
    ASSUME IInv, ExportInv, NEW w \in Workers, Exporting(w), NEW content,
           \/ content = Torn /\ wrote' = [wrote EXCEPT ![w] = "open"]
           \/ content = Product[Step(w)] /\ wrote' = [wrote EXCEPT ![w] = "closed"],
           world' = [world EXCEPT ![Destination[Step(w)]] = content],
           UNCHANGED <<vars, evidence, sum>>
    PROVE  ExportInv'
<1> DEFINE d == Destination[Step(w)]
<1>1. /\ Step(w) \in Exports /\ pc[w] = "exec" /\ d \in Destinations
      /\ content \in Contents /\ rec[Step(w)] = "RUNNING"
  BY ExportsAreSteps DEF Exporting, ExportInv, Writing
<1>2. UNCHANGED <<pc, rec, cursor, evidence, sum>>
  BY DEF vars
<1>3. /\ ExportTypeOK
      /\ \A v \in Workers \ {w} : pc[v] = "idle" /\ wrote[v] = "no"
  <2>1. \A v \in Workers \ {w} : pc[v] = "idle"
    BY <1>1, OthersIdle DEF IInv
  <2>2. QED
    BY <2>1 DEF ExportInv, Writing, Exporting
<1>4. /\ world' \in [Destinations -> Contents] /\ world'[d] = content
      /\ \A e \in Destinations \ {d} : world'[e] = world[e]
  BY <1>1, <1>3 DEF ExportTypeOK
<1>5. /\ wrote' \in [Workers -> {"no", "open", "closed"}]
      /\ \A v \in Workers \ {w} : wrote'[v] = "no"
      /\ wrote'[w] = "closed" => content = Product[Step(w)]
  BY <1>3 DEF ExportTypeOK
<1>6. ExportTypeOK'
  BY <1>2, <1>3, <1>4, <1>5 DEF ExportTypeOK
<1>7. ASSUME NEW v \in Workers PROVE Writing(v)' /\ Holding(v)'
  <2>1. CASE v = w
    BY <1>1, <1>2, <1>4, <1>5, <2>1 DEF Writing, Holding, Exporting, Step
  <2>2. CASE v # w
    BY <1>2, <1>3, <1>5, <2>2 DEF Writing, Holding
  <2>3. QED
    BY <2>1, <2>2
<1>8. EvidenceOfCompleted'
  BY <1>2 DEF ExportInv, EvidenceOfCompleted
<1>9. CompletedIsDelivered'
  <2>1. ASSUME NEW s \in Exports, rec[s] = "COMPLETED"
        PROVE  (Delivered(s) \/ Shared(s))'
    <3>1. CASE Destination[s] = d
      BY <1>1, <1>2, <2>1, <3>1 DEF Shared
    <3>2. CASE Destination[s] # d
      <4>1. world'[Destination[s]] = world[Destination[s]]
        BY <1>4, <3>2, ExportsAreSteps
      <4>2. Delivered(s) \/ Shared(s)
        BY <2>1 DEF ExportInv, CompletedIsDelivered
      <4>3. QED
        BY <1>2, <4>1, <4>2 DEF Delivered, Shared
    <3>3. QED
      BY <3>1, <3>2
  <2>2. QED
    BY <1>2, <2>1 DEF CompletedIsDelivered
<1>10. TornIsUnfinished'
  <2>1. ASSUME NEW e \in Destinations, world'[e] = Torn
        PROVE  \E s \in Exports : Destination[s] = e /\ rec[s] # "COMPLETED"
    BY <1>1, <1>4, <2>1 DEF ExportInv, TornIsUnfinished
  <2>2. QED
    BY <1>2, <2>1 DEF TornIsUnfinished
<1>11. QED
  BY <1>6, <1>7, <1>8, <1>9, <1>10 DEF ExportInv

(* Somebody else replaces or removes a file while no export writes.        *)
LEMMA OthersStep ==
    ASSUME IInv, ExportInv, OthersWrite
    PROVE  ExportInv'
<1>1. PICK d \in Destinations, content \in {Absent, Foreign} :
          world' = [world EXCEPT ![d] = content]
  BY DEF OthersWrite
<1>2. /\ UNCHANGED <<pc, rec, cursor, evidence, wrote, sum>>
      /\ \A v \in Workers : wrote[v] = "no"
  BY DEF OthersWrite, vars
<1>3. /\ world' \in [Destinations -> Contents]
      /\ \A e \in Destinations : world'[e] \in {world[e], Absent, Foreign}
      /\ \A e \in Destinations : world'[e] = Torn => world[e] = Torn
  BY <1>1, ExportsAreSteps DEF ExportInv, ExportTypeOK
<1>4. ExportTypeOK'
  BY <1>2, <1>3 DEF ExportInv, ExportTypeOK
<1>5. ASSUME NEW s \in Exports, Delivered(s) PROVE Delivered(s)'
  BY <1>3, <1>5, ExportsAreSteps DEF Delivered
<1>6. ASSUME NEW v \in Workers PROVE Writing(v)' /\ Holding(v)'
  BY <1>2, <1>5 DEF ExportInv, Writing, Holding, Exporting, Step
<1>7. EvidenceOfCompleted'
  BY <1>2 DEF ExportInv, EvidenceOfCompleted
<1>8. CompletedIsDelivered'
  BY <1>2, <1>5 DEF ExportInv, CompletedIsDelivered, Shared
<1>9. TornIsUnfinished'
  BY <1>2, <1>3 DEF ExportInv, TornIsUnfinished
<1>10. QED
  BY <1>4, <1>6, <1>7, <1>8, <1>9 DEF ExportInv

LEMMA ExportStutter ==
    ASSUME ExportInv, UNCHANGED <<vars, external>>
    PROVE  ExportInv'
BY DEF ExportInv, ExportTypeOK, Writing, Holding, Exporting, Step, Delivered, Shared,
       EvidenceOfCompleted, CompletedIsDelivered, TornIsUnfinished, vars, external

LEMMA ExportInductive ==
    ASSUME ~MayOverlap, IInv, ExportInv, [ExportNext]_<<vars, external>>
    PROVE  ExportInv'
<1>1. ASSUME NEW w \in Workers, OpenFile(w) PROVE ExportInv'
  BY <1>1, WriteExportStep DEF OpenFile
<1>2. ASSUME NEW w \in Workers, CloseFile(w) PROVE ExportInv'
  <2>1. Exporting(w)
    BY <1>2 DEF CloseFile, ExportInv, Writing
  <2>2. QED
    BY <1>2, <2>1, WriteExportStep DEF CloseFile
<1>3. QED
  BY <1>1, <1>2, OrchestrateStep, OthersStep, ExportStutter DEF ExportNext

LEMMA ExportInitially == ExportInit => ExportInv
<1> SUFFICES ASSUME ExportInit PROVE ExportInv
  OBVIOUS
<1>1. /\ \A n \in Nodes : rec[n] = "NONE"
      /\ \A w \in Workers : pc[w] = "idle"
  BY DEF ExportInit, Init
<1>2. \A s \in Exports : s \in Nodes
  BY ExportsAreSteps DEF Nodes
<1>3. ExportTypeOK
  BY ExportsAreSteps DEF ExportInit, ExportTypeOK
<1>4. TornIsUnfinished
  BY ExportsAreSteps DEF ExportInit, TornIsUnfinished
<1>5. QED
  BY <1>1, <1>2, <1>3, <1>4
     DEF ExportInit, ExportInv, Writing, Holding, EvidenceOfCompleted,
         CompletedIsDelivered
-----------------------------------------------------------------------------
(* The exports change nothing of what the run itself does: forgetting the  *)
(* files outside, every behaviour with exports is one of RunOrchestrator,  *)
(* so that each of its theorems holds of runs with exports.                *)
THEOREM ExportsImplementRuns == ExportSpec => Spec
<1>1. ExportInit => Init
  BY DEF ExportInit
<1>2. [ExportNext]_<<vars, external>> => [Next]_vars
  BY ExportStepIsStep
<1>3. QED
  BY <1>1, <1>2, PTL DEF ExportSpec, Spec

(* With serialised calls and distinct names, where an export was when its  *)
(* process died accounts for every file and every checksum.                *)
THEOREM ExportInvariance ==
    ASSUME ~MayOverlap, NamesDistinct PROVE ExportSpec => [](IInv /\ ExportInv)
<1>1. ExportInit => IInv /\ ExportInv
  BY Initially, ExportInitially DEF ExportInit
<1>2. IInv /\ ExportInv /\ [ExportNext]_<<vars, external>> => IInv' /\ ExportInv'
  BY ExportStepIsStep, Inductive, ExportInductive
<1>3. QED
  BY <1>1, <1>2, PTL DEF ExportSpec

(* The planner verifies a write only if the file is the whole product of   *)
(* its step, and refuses the write of a completed step only if others or   *)
(* an export to the same file spoilt it.                                   *)
THEOREM VerificationSafety ==
    ASSUME ~MayOverlap, NamesDistinct PROVE ExportSpec => []VerificationIsRight
<1>1. IInv /\ ExportInv => VerificationIsRight
  <2> SUFFICES ASSUME ExportInv, NEW s \in Exports
      PROVE  /\ WriteVerified(s) => world[Destination[s]] = Product[s]
             /\ rec[s] = "COMPLETED" /\ ~WriteVerified(s) =>
                  world[Destination[s]] \in {Absent, Foreign} \/ Shared(s)
    BY DEF VerificationIsRight
  <2>1. rec[s] = "COMPLETED" => evidence[s] = Product[s]
    BY DEF ExportInv, EvidenceOfCompleted
  <2>2. rec[s] = "COMPLETED" => Delivered(s) \/ Shared(s)
    BY DEF ExportInv, CompletedIsDelivered
  <2>3. QED
    BY <2>1, <2>2, ExportsAreSteps DEF WriteVerified, Delivered
<1>2. QED
  BY <1>1, ExportInvariance, PTL

(* A run that finished its steps has delivered every export: its checksums *)
(* are those of its products and no destination is left half written.      *)
THEOREM DeliverySafety ==
    ASSUME ~MayOverlap, NamesDistinct PROVE ExportSpec => []FinishedRunsDelivered
<1>1. IInv /\ ExportInv => FinishedRunsDelivered
  <2> SUFFICES ASSUME IInv, ExportInv, runState \in {"VERIFYING", "RELEASED"},
                      NEW s \in Exports
      PROVE  evidence[s] = Product[s] /\ world[Destination[s]] # Torn
    BY DEF FinishedRunsDelivered
  <2>1. \A t \in Exports : rec[t] = "COMPLETED"
    BY ExportsAreSteps DEF IInv, Stores, CertifiedSteps, AllDone
  <2>2. QED
    BY <2>1, ExportsAreSteps DEF ExportInv, EvidenceOfCompleted, TornIsUnfinished
<1>2. QED
  BY <1>1, ExportInvariance, PTL

LEMMA DeliveredStep ==
    ASSUME IInv, ExportInv, [ExportNext]_<<vars, external>>,
           NEW s \in Exports, rec[s] = "COMPLETED"
    PROVE  /\ rec'[s] = "COMPLETED"
           /\ \/ world'[Destination[s]] \in {world[Destination[s]], Absent, Foreign}
              \/ Shared(s)
<1>1. s \in Nodes
  BY ExportsAreSteps DEF Nodes
<1>2. rec'[s] = "COMPLETED"
  BY <1>1, ExportStepIsStep, FinalStep
<1>3. ASSUME NEW w \in Workers, OpenFile(w) \/ CloseFile(w)
      PROVE  world'[Destination[s]] = world[Destination[s]] \/ Shared(s)
  <2>1. /\ Step(w) \in Exports /\ rec[Step(w)] = "RUNNING"
        /\ \E content : world' = [world EXCEPT ![Destination[Step(w)]] = content]
    BY <1>3 DEF OpenFile, CloseFile, ExportInv, Writing, Exporting
  <2>2. QED
    BY <2>1, ExportsAreSteps DEF Shared, ExportInv, ExportTypeOK
<1>4. CASE OthersWrite
  BY <1>2, <1>4, ExportsAreSteps DEF OthersWrite, ExportInv, ExportTypeOK
<1>5. QED
  BY <1>2, <1>3, <1>4 DEF ExportNext, Orchestrate, Effects, external

(* No step, no death and no resumption of a run writes the file of a       *)
(* completed export, but an export to the same file.                       *)
THEOREM DeliveredOnceSafety ==
    ASSUME ~MayOverlap, NamesDistinct PROVE ExportSpec => DeliveredOnce
<1>1. IInv /\ ExportInv /\ [ExportNext]_<<vars, external>> =>
        [\A s \in Exports : rec[s] = "COMPLETED" =>
          /\ rec'[s] = "COMPLETED"
          /\ \/ world'[Destination[s]] \in {world[Destination[s]], Absent, Foreign}
             \/ Shared(s)]_<<vars, external>>
  BY DeliveredStep
<1>2. QED
  BY <1>1, ExportInvariance, PTL DEF ExportSpec, DeliveredOnce
=============================================================================
