-------------------------- MODULE TopologicalOrder --------------------------
(***************************************************************************)
(* Workflow.validate_dag() and execution_order() (workflow/dsl.py): refuse *)
(* duplicate ids, unknown inputs and cycles, and otherwise list the step   *)
(* ids layer by layer, sorted by name within a layer.  run() recomputes    *)
(* the order at every resume, so it must depend on nothing but the graph.  *)
(*                                                                         *)
(* A layer is emitted one id at a time, its least id first.                *)
(***************************************************************************)
EXTENDS Naturals, Sequences

CONSTANTS
    Ids,         \* step ids
    SourceRefs,  \* "source:<name>" of the declared sources
    Refs,        \* what an input may name: ids, source refs, anything else
    Workflows,   \* the step lists considered, as sequences of StepRecord
    Before       \* Python's sorted() on ids, as a set of pairs

StepRecord == [id : Ids, inputs : SUBSET Refs]

ASSUME RefsAssumption ==
    /\ Ids \cup SourceRefs \subseteq Refs
    /\ Ids \cap SourceRefs = {}
    /\ Workflows \subseteq Seq(StepRecord)

ASSUME BeforeAssumption ==
    /\ \A s, t \in Ids : s # t <=> <<s, t>> \in Before \/ <<t, s>> \in Before
    /\ \A s, t, u \in Ids :
          <<s, t>> \in Before /\ <<t, u>> \in Before => <<s, u>> \in Before

VARIABLES
    steps,      \* workflow.steps
    remaining,  \* ids not yet in a layer that was emitted
    ready,      \* ids of the current layer still to be emitted
    ordered,    \* the order so far
    status      \* "validate", "layer", "emit", "done" or why it raised

vars == <<steps, remaining, ready, ordered, status>>

StepIds == {steps[i].id : i \in 1..Len(steps)}

(* dependencies[id]: the inputs that are steps.                            *)
Dependencies(s) ==
    UNION {steps[i].inputs \cap StepIds : i \in {j \in 1..Len(steps) : steps[j].id = s}}

Duplicates == \E i, j \in 1..Len(steps) : i # j /\ steps[i].id = steps[j].id

UnknownInputs == \E i \in 1..Len(steps) :
                    ~(steps[i].inputs \subseteq SourceRefs \cup StepIds)

Init == /\ steps \in Workflows
        /\ remaining = {}
        /\ ready = {}
        /\ ordered = <<>>
        /\ status = "validate"

ValidateDag ==
    /\ status = "validate"
    /\ status' = IF Duplicates THEN "duplicate"
                 ELSE IF UnknownInputs THEN "unknown" ELSE "layer"
    /\ remaining' = StepIds
    /\ UNCHANGED <<steps, ready, ordered>>

(* The steps none of whose dependencies remains.                           *)
Unblocked == {s \in remaining : Dependencies(s) \cap remaining = {}}

NextLayer(free, answer) ==
    /\ status = "layer"
    /\ remaining # {}
    /\ ready' = free
    /\ status' = answer
    /\ UNCHANGED <<steps, remaining, ordered>>

CycleIfEmpty(free) == IF free = {} THEN "cycle" ELSE "emit"

(* Mutant: a step is ready as soon as one of its inputs is.                *)
FindHalfReady ==
    LET free == {s \in remaining : ~(Dependencies(s) \subseteq remaining)
                                      \/ Dependencies(s) = {}}
    IN  NextLayer(free, CycleIfEmpty(free))

(* Mutant: what was emitted still counts as a dependency.                  *)
FindIndependent ==
    LET free == {s \in remaining : Dependencies(s) = {}}
    IN  NextLayer(free, CycleIfEmpty(free))

(* Mutant: an empty layer is not noticed.                                  *)
FindWithoutCycle == NextLayer(Unblocked, "emit")

FindReady == NextLayer(Unblocked, CycleIfEmpty(Unblocked))

(* Mutant: the layer is not sorted.                                        *)
EmitAny ==
    /\ status = "emit"
    /\ \E s \in ready :
          /\ ordered' = Append(ordered, s)
          /\ ready' = ready \ {s}
          /\ status' = IF ready' = {} THEN "layer" ELSE "emit"
          /\ remaining' = remaining \ {s}
    /\ UNCHANGED steps

EmitLeast ==
    /\ status = "emit"
    /\ \E s \in ready :
          /\ \A t \in ready \ {s} : <<s, t>> \in Before
          /\ ordered' = Append(ordered, s)
          /\ ready' = ready \ {s}
          /\ status' = IF ready' = {} THEN "layer" ELSE "emit"
          /\ remaining' = remaining \ {s}
    /\ UNCHANGED steps

Finish ==
    /\ status = "layer"
    /\ remaining = {}
    /\ status' = "done"
    /\ UNCHANGED <<steps, remaining, ready, ordered>>

Next == ValidateDag \/ FindReady \/ EmitLeast \/ Finish

Spec == Init /\ [][Next]_vars

FairSpec == Spec /\ WF_vars(Next)
-----------------------------------------------------------------------------
Statuses == {"validate", "layer", "emit", "done",
             "duplicate", "unknown", "cycle"}

TypeOK == /\ steps \in Seq(StepRecord)
          /\ remaining \in SUBSET Ids
          /\ ready \in SUBSET remaining
          /\ ordered \in Seq(Ids)
          /\ status \in Statuses

(* What the orchestrator relies on (OrderAssumption of RunOrchestrator):   *)
(* an accepted order lists every step, once, after all its inputs.         *)
IsExecutionOrder(order) ==
    /\ \A i, j \in 1..Len(order) : order[i] = order[j] => i = j
    /\ {order[i] : i \in 1..Len(order)} = StepIds
    /\ \A i \in 1..Len(order) : \A d \in Dependencies(order[i]) :
          \E j \in 1..(i-1) : order[j] = d

AcceptedOrderIsValid == status = "done" => IsExecutionOrder(ordered)

(* No plan is refused without need: if the steps of a refused workflow can *)
(* be listed at all so that each comes after its inputs, validate_dag()    *)
(* must not call it cyclic.  The lists looked at are all there are, not    *)
(* those the loop would build.                                             *)
RefusedHasNoOrder ==
    status = "cycle" =>
        \A order \in [1..Len(steps) -> StepIds] : ~IsExecutionOrder(order)

(* The order is a function of the graph: by depth, then by name.  A resume *)
(* walks the steps exactly as the interrupted run() did, whatever order    *)
(* the plan lists them in.                                                 *)
Graph == [s \in StepIds |-> Dependencies(s)]

AboveAll(depths) == IF depths = {} THEN 0
                    ELSE 1 + CHOOSE m \in depths : \A n \in depths : n <= m

Behind(graph, order, i) == {k \in 1..(i-1) : order[k] \in graph[order[i]]}

Depth(graph, order) ==
    LET d[i \in 1..Len(order)] == AboveAll({d[j] : j \in Behind(graph, order, i)})
    IN  d

ByDepthThenName ==
    LET d == Depth(Graph, ordered)
    IN  \A i \in 1..(Len(ordered) - 1) :
            \/ d[i] < d[i+1]
            \/ d[i] = d[i+1] /\ <<ordered[i], ordered[i+1]>> \in Before

OrderIsCanonical == status = "done" => ByDepthThenName

(* validate_dag() always answers, cycles included.                         *)
Answers == <>(status \in {"done", "duplicate", "unknown", "cycle"})
-----------------------------------------------------------------------------
(* The inductive invariant: the ids emitted so far and those remaining     *)
(* split the workflow, and the emitted ones are in order already.          *)
Emitted == {ordered[i] : i \in 1..Len(ordered)}

Split == status \in {"layer", "emit", "done", "cycle"} =>
            /\ Emitted \cup remaining = StepIds
            /\ Emitted \cap remaining = {}

InOrder ==
    /\ \A i, j \in 1..Len(ordered) : ordered[i] = ordered[j] => i = j
    /\ \A i \in 1..Len(ordered) : \A d \in Dependencies(ordered[i]) :
          \E j \in 1..(i-1) : ordered[j] = d

(* A layer is non-empty while it is emitted, and only then.                *)
Phase == /\ status = "validate" => ordered = <<>>
         /\ status = "emit" <=> ready # {}

(* What is ready waits for nothing that remains, nor for its own layer.    *)
LayerIsFree == \A s \in ready : Dependencies(s) \cap remaining = {}

Finished == status = "done" => remaining = {}

Stuck == status = "cycle" => remaining # {} /\ Unblocked = {}

IInv == TypeOK /\ Phase /\ Split /\ InOrder /\ LayerIsFree /\ Finished /\ Stuck

(* Depth() is what its equation says: the recursion ends.                  *)
IsDepth(graph, order, d) ==
    /\ d \in [1..Len(order) -> Nat]
    /\ \A i \in 1..Len(order) : d[i] = AboveAll({d[j] : j \in Behind(graph, order, i)})

(* s waits for a step that remains, or for one that was emitted at m - 1.  *)
Waits(s, m) ==
    \/ Dependencies(s) \cap remaining # {}
    \/ \E i \in 1..Len(ordered) : /\ ordered[i] \in Dependencies(s)
                                  /\ Depth(Graph, ordered)[i] + 1 = m

(* Layer l comes next, or is being emitted: those before it are complete,  *)
(* and what is left belongs to it or to a later one.                       *)
LayerIs(l) ==
    /\ \A i \in 1..Len(ordered) :
          LET d == Depth(Graph, ordered)[i]
          IN  /\ d < l \/ (d = l /\ status = "emit")
              /\ d = l => \A s \in ready : /\ <<ordered[i], s>> \in Before
                                         /\ ordered[i] \notin Dependencies(s)
    /\ l = 0 \/ \A s \in IF status = "emit" THEN ready ELSE remaining : Waits(s, l)
    /\ status = "emit" => \A s \in remaining \ ready : Waits(s, l + 1)

Layered == status \in {"layer", "emit"} => \E l \in 0..Len(ordered) : LayerIs(l)

OrderInv == IsDepth(Graph, ordered, Depth(Graph, ordered)) /\ ByDepthThenName /\ Layered
=============================================================================
