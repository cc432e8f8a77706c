----------------------- MODULE TopologicalOrderProofs -----------------------
(***************************************************************************)
(* An accepted order lists every step once and after its inputs, by depth  *)
(* and name, and is the only one of its graph; only a real cycle is        *)
(* refused as one: for any workflow.                                       *)
(***************************************************************************)
EXTENDS TopologicalOrder, WellFoundedInduction, TLAPS

(* What Append does to the emitted ids, as an operator of its own.         *)
LEMMA AppendFacts ==
    ASSUME NEW order \in Seq(Ids), NEW s \in Ids
    PROVE  /\ Append(order, s) \in Seq(Ids)
           /\ Len(Append(order, s)) = Len(order) + 1
           /\ Append(order, s)[Len(order) + 1] = s
           /\ \A i \in 1..Len(order) : Append(order, s)[i] = order[i]
OBVIOUS

LEMMA StepIdsAreIds ==
    ASSUME steps \in Seq(StepRecord)
    PROVE  StepIds \subseteq Ids
<1> SUFFICES ASSUME NEW i \in 1..Len(steps) PROVE steps[i].id \in Ids
  BY DEF StepIds
<1>1. steps[i] \in StepRecord
  OBVIOUS
<1> QED BY <1>1 DEF StepRecord

LEMMA DependenciesAreSteps == ASSUME NEW s PROVE Dependencies(s) \subseteq StepIds
BY DEF Dependencies

(* The graph never changes.                                                *)
LEMMA GraphFixed ==
    ASSUME UNCHANGED steps
    PROVE  /\ StepIds' = StepIds
           /\ \A s : Dependencies(s)' = Dependencies(s)
BY DEF StepIds, Dependencies

(* Nor does the order of what was emitted, while nothing is.               *)
LEMMA InOrderKept ==
    ASSUME InOrder, UNCHANGED <<steps, ordered>>
    PROVE  InOrder'
<1>1. ordered' = ordered /\ \A s : Dependencies(s)' = Dependencies(s)
  BY GraphFixed
<1>2. QED
  BY <1>1 DEF InOrder

LEMMA LayerKept ==
    ASSUME LayerIsFree, UNCHANGED <<steps, ready, remaining>>
    PROVE  LayerIsFree'
<1>1. /\ ready' = ready /\ remaining' = remaining
      /\ \A s : Dependencies(s)' = Dependencies(s)
  BY GraphFixed
<1>2. QED
  BY <1>1 DEF LayerIsFree

LEMMA Initially == Init => IInv
<1> SUFFICES ASSUME Init PROVE IInv
  OBVIOUS
<1>1. TypeOK
  BY RefsAssumption DEF Init, TypeOK, Statuses
<1>2. Phase /\ Split /\ InOrder /\ LayerIsFree /\ Finished /\ Stuck
  BY DEF Init, Phase, Split, InOrder, LayerIsFree, Finished, Stuck
<1> QED BY <1>1, <1>2 DEF IInv

LEMMA ValidateStep == IInv /\ ValidateDag => IInv'
<1> SUFFICES ASSUME IInv, ValidateDag PROVE IInv'
  OBVIOUS
<1>0. StepIds' = StepIds /\ StepIds \subseteq Ids
  BY GraphFixed, StepIdsAreIds DEF IInv, TypeOK, ValidateDag
<1>1. ready' = {} /\ ordered' = <<>> /\ status' \in {"duplicate", "unknown", "layer"}
  BY DEF IInv, Phase, ValidateDag
<1>2. remaining' = StepIds
  BY DEF ValidateDag
<1>3. TypeOK'
  BY <1>0, <1>1, <1>2 DEF IInv, TypeOK, ValidateDag, Statuses
<1>4. Split'
  BY <1>0, <1>1, <1>2 DEF Split, Emitted
<1>5. Phase' /\ InOrder' /\ LayerIsFree' /\ Finished' /\ Stuck'
  BY <1>1 DEF Phase, InOrder, LayerIsFree, Finished, Stuck
<1> QED BY <1>3, <1>4, <1>5 DEF IInv

LEMMA FindStep == IInv /\ FindReady => IInv'
<1> SUFFICES ASSUME IInv, FindReady PROVE IInv'
  OBVIOUS
<1>0. /\ StepIds' = StepIds
      /\ \A s : Dependencies(s)' = Dependencies(s)
  BY GraphFixed DEF FindReady, NextLayer
<1>1. /\ remaining' = remaining /\ ordered' = ordered /\ ready' = Unblocked
      /\ remaining # {} /\ status = "layer"
      /\ status' = IF Unblocked = {} THEN "cycle" ELSE "emit"
  BY DEF FindReady, NextLayer, CycleIfEmpty
<1>2. TypeOK'
  BY <1>1 DEF IInv, TypeOK, FindReady, NextLayer, Unblocked, Statuses
<1>3. Unblocked' = Unblocked
  BY <1>0, <1>1 DEF Unblocked
<1>4. Phase' /\ Finished' /\ Stuck'
  BY <1>1, <1>3 DEF Phase, Finished, Stuck
<1>5. Split'
  BY <1>0, <1>1 DEF IInv, Split, Emitted
<1>6. InOrder'
  <2>1. steps' = steps
    BY DEF FindReady, NextLayer
  <2> QED BY <2>1, <1>0, <1>1 DEF IInv, InOrder, Dependencies
<1>7. LayerIsFree'
  BY <1>0, <1>1 DEF LayerIsFree, Unblocked
<1> QED BY <1>2, <1>4, <1>5, <1>6, <1>7 DEF IInv

(* The one step that extends the order.                                    *)
LEMMA EmitStep == IInv /\ EmitLeast => IInv'
<1> SUFFICES ASSUME IInv, EmitLeast PROVE IInv'
  OBVIOUS
<1>0. /\ StepIds' = StepIds
      /\ \A s : Dependencies(s)' = Dependencies(s)
  BY GraphFixed DEF EmitLeast
<1>1. PICK s \in ready : /\ ordered' = Append(ordered, s)
                         /\ ready' = ready \ {s}
                         /\ status' = IF ready' = {} THEN "layer" ELSE "emit"
                         /\ remaining' = remaining \ {s}
  BY DEF EmitLeast
<1>2. /\ s \in remaining /\ s \in Ids
      /\ status = "emit" /\ ordered \in Seq(Ids)
      /\ remaining \subseteq Ids /\ ready \subseteq remaining
  BY <1>1 DEF IInv, TypeOK, EmitLeast
<1>3. /\ ordered' \in Seq(Ids)
      /\ Len(ordered') = Len(ordered) + 1
      /\ ordered'[Len(ordered) + 1] = s
      /\ \A i \in 1..Len(ordered) : ordered'[i] = ordered[i]
  BY <1>1, <1>2, AppendFacts
<1>4. Len(ordered) \in Nat
  BY <1>2
<1>5. Emitted \cup remaining = StepIds /\ Emitted \cap remaining = {}
  BY <1>2 DEF IInv, Split
<1>6. Emitted' = Emitted \cup {s}
  <2>1. \A i \in 1..Len(ordered') : i \in 1..Len(ordered) \/ i = Len(ordered) + 1
    BY <1>3, <1>4
  <2>2. 1..Len(ordered) \subseteq 1..Len(ordered') /\ Len(ordered) + 1 \in 1..Len(ordered')
    BY <1>3, <1>4
  <2> QED BY <2>1, <2>2, <1>3 DEF Emitted
<1>7. TypeOK'
  <2>1. steps' = steps
    BY DEF EmitLeast
  <2> QED BY <2>1, <1>1, <1>2, <1>3 DEF IInv, TypeOK, Statuses
<1>8. Phase'
  BY <1>1 DEF Phase
<1>9. Split'
  BY <1>0, <1>1, <1>2, <1>5, <1>6 DEF Split
<1>10. Dependencies(s) \subseteq Emitted
  BY <1>1, <1>5, DependenciesAreSteps DEF IInv, LayerIsFree
<1>11. InOrder'
  <2>1. s \notin Emitted
    BY <1>2, <1>5
  <2>2. ASSUME NEW i \in 1..Len(ordered'), NEW j \in 1..Len(ordered'),
               ordered'[i] = ordered'[j]
        PROVE  i = j
    <3>1. CASE i \in 1..Len(ordered) /\ j \in 1..Len(ordered)
      BY <3>1, <2>2, <1>3 DEF IInv, InOrder
    <3>2. CASE i = Len(ordered) + 1 /\ j \in 1..Len(ordered)
      BY <3>2, <2>2, <1>3, <2>1 DEF Emitted
    <3>3. CASE i \in 1..Len(ordered) /\ j = Len(ordered) + 1
      BY <3>3, <2>2, <1>3, <2>1 DEF Emitted
    <3>4. CASE i = Len(ordered) + 1 /\ j = Len(ordered) + 1
      BY <3>4
    <3> QED BY <3>1, <3>2, <3>3, <3>4, <1>3, <1>4
  <2>3. ASSUME NEW i \in 1..Len(ordered'), NEW d \in Dependencies(ordered'[i])
        PROVE  \E j \in 1..(i-1) : ordered'[j] = d
    <3>1. CASE i \in 1..Len(ordered)
      <4>1. PICK j \in 1..(i-1) : ordered[j] = d
        BY <3>1, <2>3, <1>3 DEF IInv, InOrder
      <4>2. j \in 1..Len(ordered)
        BY <3>1, <1>4
      <4> QED BY <4>1, <4>2, <1>3
    <3>2. CASE i = Len(ordered) + 1
      <4>1. d \in Emitted
        BY <3>2, <2>3, <1>3, <1>10
      <4>2. PICK j \in 1..Len(ordered) : ordered[j] = d
        BY <4>1 DEF Emitted
      <4>3. j \in 1..(i-1)
        BY <3>2, <1>4
      <4> QED BY <4>2, <4>3, <1>3
    <3> QED BY <3>1, <3>2, <1>3, <1>4
  <2>4. steps' = steps
    BY DEF EmitLeast
  <2> QED BY <2>2, <2>3, <2>4, <1>0 DEF InOrder, Dependencies
<1>12. LayerIsFree'
  BY <1>0, <1>1 DEF IInv, LayerIsFree
<1>13. Finished' /\ Stuck'
  BY <1>1 DEF Finished, Stuck
<1> QED BY <1>7, <1>8, <1>9, <1>11, <1>12, <1>13 DEF IInv

LEMMA FinishStep == IInv /\ Finish => IInv'
<1> SUFFICES ASSUME IInv, Finish PROVE IInv'
  OBVIOUS
<1>0. /\ StepIds' = StepIds
      /\ \A s : Dependencies(s)' = Dependencies(s)
  BY GraphFixed DEF Finish
<1>1. /\ remaining = {} /\ remaining' = remaining /\ ready' = ready
      /\ ordered' = ordered /\ status = "layer" /\ status' = "done"
      /\ steps' = steps
  BY DEF Finish
<1>2. TypeOK' /\ Phase' /\ Finished' /\ Stuck'
  BY <1>1 DEF IInv, TypeOK, Statuses, Phase, Finished, Stuck
<1>3. Split'
  BY <1>0, <1>1 DEF IInv, Split, Emitted
<1>4. InOrder' /\ LayerIsFree'
  BY <1>1, InOrderKept, LayerKept DEF IInv
<1> QED BY <1>2, <1>3, <1>4 DEF IInv

LEMMA StutterStep == IInv /\ UNCHANGED vars => IInv'
<1> SUFFICES ASSUME IInv, UNCHANGED vars PROVE IInv'
  OBVIOUS
<1>0. /\ StepIds' = StepIds
      /\ \A s : Dependencies(s)' = Dependencies(s)
  BY GraphFixed DEF vars
<1>1. /\ steps' = steps /\ remaining' = remaining /\ ready' = ready
      /\ ordered' = ordered /\ status' = status
  BY DEF vars
<1>2. TypeOK' /\ Phase' /\ Finished'
  BY <1>1 DEF IInv, TypeOK, Phase, Finished
<1>3. Split'
  BY <1>0, <1>1 DEF IInv, Split, Emitted
<1>4. InOrder' /\ LayerIsFree'
  BY <1>1, InOrderKept, LayerKept DEF IInv
<1>5. Stuck'
  BY <1>0, <1>1 DEF IInv, Stuck, Unblocked
<1> QED BY <1>2, <1>3, <1>4, <1>5 DEF IInv

(* The inductive invariant holds of every workflow.                        *)
THEOREM Invariance == Spec => []IInv
<1>1. IInv /\ [Next]_vars => IInv'
  BY ValidateStep, FindStep, EmitStep, FinishStep, StutterStep DEF Next
<1> QED BY <1>1, Initially, PTL DEF Spec

(* execution_order() lists every step once, after all the steps it reads:  *)
(* what RunOrchestrator assumes of Order.                                  *)
THEOREM OrderIsValid == Spec => []AcceptedOrderIsValid
<1>1. IInv => AcceptedOrderIsValid
  BY DEF IInv, Split, InOrder, Finished, Emitted, AcceptedOrderIsValid,
         IsExecutionOrder
<1> QED BY <1>1, Invariance, PTL

Below == {p \in Nat \X Nat : p[1] < p[2]}

(* A position without a smaller one in T, wherever T has any.              *)
LEMMA Least ==
    ASSUME NEW T, T \subseteq Nat, T # {}
    PROVE  \E x \in T : \A y \in T : ~(y < x)
<1>1. IsWellFoundedOn(Below, Nat)
  BY NatLessThanWellFounded DEF Below, OpToRel
<1>2. PICK x \in T : \A y \in T : ~(<<y, x>> \in Below)
  BY <1>1, WFMin
<1>3. QED
  BY <1>2 DEF Below

(* No execution order exists of a workflow that was refused for a cycle:   *)
(* the first remaining step of such an order would wait for nothing.       *)
THEOREM RefusalsAreRight == Spec => []RefusedHasNoOrder
<1>1. IInv => RefusedHasNoOrder
  <2> SUFFICES ASSUME IInv, status = "cycle",
                      NEW order \in [1..Len(steps) -> StepIds],
                      IsExecutionOrder(order)
               PROVE  FALSE
    BY DEF RefusedHasNoOrder
  <2>1. remaining # {} /\ Unblocked = {} /\ remaining \subseteq StepIds
    BY DEF IInv, Stuck, Split
  <2>2. Len(steps) \in Nat /\ Len(order) = Len(steps)
    BY DEF IInv, TypeOK
  <2> DEFINE T == {i \in 1..Len(order) : order[i] \in remaining}
  <2>3. T # {}
    BY <2>1 DEF IsExecutionOrder
  <2>8. T \subseteq Nat
    BY <2>2
  <2>4. PICK i \in T : \A j \in T : ~(j < i)
    <3> HIDE DEF T
    <3> QED BY <2>3, <2>8, Least
  <2>5. PICK d \in Dependencies(order[i]) : d \in remaining
    BY <2>1, <2>4 DEF Unblocked
  <2>6. PICK j \in 1..(i-1) : order[j] = d
    BY <2>4, <2>5 DEF IsExecutionOrder
  <2>7. j \in T /\ j < i
    BY <2>2, <2>4, <2>5, <2>6
  <2> QED BY <2>2, <2>4, <2>7
<1> QED BY <1>1, Invariance, PTL

(* Depth(): the induction is on the positions of the order, by a least     *)
(* counterexample.                                                         *)
Ranks(graph, order, d) ==
    [i \in 1..Len(order) |-> AboveAll({d[j] : j \in Behind(graph, order, i)})]

LEMMA DepthUnique ==
    ASSUME NEW graph, NEW order, Len(order) \in Nat,
           NEW d, d = Ranks(graph, order, d), NEW e, e = Ranks(graph, order, e)
    PROVE  d = e
<1> DEFINE T == {i \in 1..Len(order) : d[i] # e[i]}
<1>1. CASE T = {}
  <2>1. \A i \in 1..Len(order) : d[i] = e[i]
    BY <1>1
  <2>2. d = [i \in 1..Len(order) |-> d[i]] /\ e = [i \in 1..Len(order) |-> e[i]]
    BY DEF Ranks
  <2>3. [i \in 1..Len(order) |-> d[i]] = [i \in 1..Len(order) |-> e[i]]
    BY <2>1
  <2>4. QED
    BY <2>2, <2>3
<1>2. CASE T # {}
  <2>1. IsWellFoundedOn(Below, Nat)
    BY NatLessThanWellFounded DEF Below, OpToRel
  <2>2. T \subseteq Nat
    OBVIOUS
  <2>3. PICK x \in T : \A y \in T : ~(<<y, x>> \in Below)
    BY <1>2, <2>1, <2>2, WFMin
  <2>4. \A j \in Behind(graph, order, x) : d[j] = e[j]
    <3>1. ASSUME NEW j \in Behind(graph, order, x) PROVE d[j] = e[j]
      <4>1. j \in 1..Len(order) /\ j < x /\ j \in Nat /\ x \in Nat
        BY <2>2 DEF Behind
      <4>2. j \notin T
        BY <2>3, <4>1 DEF Below
      <4>3. QED
        BY <4>1, <4>2
    <3>2. QED
      BY <3>1
  <2>5. {d[j] : j \in Behind(graph, order, x)} = {e[j] : j \in Behind(graph, order, x)}
    BY <2>4
  <2>6. /\ d[x] = AboveAll({d[j] : j \in Behind(graph, order, x)})
        /\ e[x] = AboveAll({e[j] : j \in Behind(graph, order, x)})
    BY DEF Ranks
  <2>7. QED
    BY <2>5, <2>6
<1>3. QED
  BY <1>1, <1>2

LEMMA DepthIs ==
    ASSUME NEW graph, NEW order, Len(order) \in Nat, NEW d, IsDepth(graph, order, d)
    PROVE  Depth(graph, order) = d
<1>1. Depth(graph, order) = CHOOSE f : f = Ranks(graph, order, f)
  BY DEF Depth, Ranks
<1>2. d = Ranks(graph, order, d)
  BY DEF IsDepth, Ranks
<1>3. \E f : f = Ranks(graph, order, f)
  BY <1>2
<1>4. Depth(graph, order) = Ranks(graph, order, Depth(graph, order))
  BY <1>1, <1>3
<1>5. QED
  BY <1>2, <1>4, DepthUnique

LEMMA AboveAllIs ==
    ASSUME NEW T, T \subseteq Nat, NEW l \in Nat, \A t \in T : t < l, l = 0 \/ l - 1 \in T
    PROVE  AboveAll(T) = l
<1>1. CASE l = 0
  <2>1. T = {}
    BY <1>1
  <2>2. QED
    BY <1>1, <2>1 DEF AboveAll
<1>2. CASE l # 0
  <2> DEFINE m == CHOOSE x \in T : \A n \in T : n <= x
  <2>1. l - 1 \in T /\ \A n \in T : n <= l - 1
    BY <1>2
  <2>2. m \in T /\ \A n \in T : n <= m
    BY <2>1
  <2>3. AboveAll(T) = 1 + m
    BY <2>1 DEF AboveAll
  <2> HIDE DEF m
  <2>4. m = l - 1
    BY <2>1, <2>2
  <2>5. QED
    BY <2>3, <2>4
<1>3. QED
  BY <1>1, <1>2

(* The depth of one more id, when those it waits for are at most at l - 1. *)
Fits(graph, order, d, s, l) ==
    /\ \A i \in 1..Len(order) : order[i] \in graph[s] => d[i] < l
    /\ l = 0 \/ \E i \in 1..Len(order) : order[i] \in graph[s] /\ d[i] + 1 = l

Deeper(order, d, l) ==
    [i \in 1..(Len(order) + 1) |-> IF i <= Len(order) THEN d[i] ELSE l]

LEMMA AppendDepth ==
    ASSUME NEW graph, NEW order \in Seq(Ids), NEW s \in Ids,
           NEW d, IsDepth(graph, order, d), NEW l \in Nat, Fits(graph, order, d, s, l)
    PROVE  IsDepth(graph, Append(order, s), Deeper(order, d, l))
<1> DEFINE n == Len(order)
           o == Append(order, s)
           e == Deeper(order, d, l)
           B(i) == Behind(graph, o, i)
<1>1. /\ n \in Nat /\ Len(o) = n + 1 /\ o[n + 1] = s
      /\ \A i \in 1..n : o[i] = order[i]
  BY AppendFacts
<1>2. /\ d \in [1..n -> Nat]
      /\ \A i \in 1..n : d[i] = AboveAll({d[j] : j \in Behind(graph, order, i)})
  BY DEF IsDepth
<1>3. e \in [1..Len(o) -> Nat]
  BY <1>1, <1>2 DEF Deeper
<1>4. /\ \A i \in 1..n : e[i] = d[i]
      /\ e[n + 1] = l
  BY <1>1 DEF Deeper
<1> HIDE DEF n, o, e
<1>5. ASSUME NEW i \in 1..n PROVE e[i] = AboveAll({e[j] : j \in B(i)})
  <2>1. i \in Nat /\ \A j \in 1..(i-1) : j \in 1..n
    BY <1>1
  <2>2. B(i) = Behind(graph, order, i) /\ \A j \in B(i) : j \in 1..n
    BY <1>1, <2>1 DEF Behind
  <2>3. {e[j] : j \in B(i)} = {d[j] : j \in Behind(graph, order, i)}
    BY <1>4, <2>2
  <2>4. QED
    BY <1>2, <1>4, <2>3
<1>6. e[n + 1] = AboveAll({e[j] : j \in B(n + 1)})
  <2>1. n + 1 - 1 = n
    BY <1>1
  <2>2. B(n + 1) = {k \in 1..n : order[k] \in graph[s]}
    BY <1>1, <2>1 DEF Behind
  <2>3. {e[j] : j \in B(n + 1)} \subseteq Nat
    BY <1>2, <1>4, <2>2
  <2>4. \A t \in {e[j] : j \in B(n + 1)} : t < l
    BY <1>4, <2>2 DEF Fits, n
  <2>5. l = 0 \/ l - 1 \in {e[j] : j \in B(n + 1)}
    <3>1. ASSUME NEW i \in 1..n, order[i] \in graph[s], d[i] + 1 = l
          PROVE  l - 1 \in {e[j] : j \in B(n + 1)}
      <4>1. i \in B(n + 1) /\ e[i] = d[i] /\ d[i] \in Nat
        BY <1>2, <1>4, <2>2, <3>1
      <4>2. l - 1 = e[i]
        BY <3>1, <4>1
      <4>3. QED
        BY <4>1, <4>2
    <3>2. QED
      BY <3>1 DEF Fits, n
  <2>6. QED
    BY <1>4, <2>3, <2>4, <2>5, AboveAllIs
<1>7. \A i \in 1..Len(o) : i \in 1..n \/ i = n + 1
  BY <1>1
<1>8. IsDepth(graph, o, e)
  BY <1>3, <1>5, <1>6, <1>7 DEF IsDepth
<1>9. QED
  BY <1>8 DEF n, o, e

(* The order by depth and name, as an invariant of every step.             *)
LEMMA GraphIs ==
    ASSUME UNCHANGED steps
    PROVE  /\ Graph' = Graph
           /\ \A s : Dependencies(s)' = Dependencies(s)
           /\ \A s \in StepIds : Graph[s] = Dependencies(s)
BY GraphFixed DEF Graph

LEMMA SameOrder ==
    ASSUME OrderInv, UNCHANGED <<steps, ordered>>
    PROVE  /\ IsDepth(Graph, ordered, Depth(Graph, ordered))'
           /\ ByDepthThenName'
           /\ Depth(Graph, ordered)' = Depth(Graph, ordered)
<1>1. Graph' = Graph /\ ordered' = ordered
  BY GraphIs
<1>2. QED
  BY <1>1 DEF OrderInv, ByDepthThenName

LEMMA OrderInitially == Init => OrderInv
<1> SUFFICES ASSUME Init PROVE OrderInv
  OBVIOUS
<1>1. ordered = <<>> /\ Len(ordered) = 0 /\ status = "validate"
  BY DEF Init
<1>2. IsDepth(Graph, ordered, [i \in 1..Len(ordered) |-> 0])
  BY <1>1 DEF IsDepth
<1>3. IsDepth(Graph, ordered, Depth(Graph, ordered))
  BY <1>1, <1>2, DepthIs
<1>4. ByDepthThenName /\ Layered
  BY <1>1 DEF ByDepthThenName, Layered
<1>5. QED
  BY <1>3, <1>4 DEF OrderInv

LEMMA OrderValidate == IInv /\ OrderInv /\ ValidateDag => OrderInv'
<1> SUFFICES ASSUME IInv, OrderInv, ValidateDag PROVE OrderInv'
  OBVIOUS
<1>1. UNCHANGED <<steps, ordered>> /\ Len(ordered') = 0
  BY DEF ValidateDag, IInv, Phase
<1>2. status' \in {"duplicate", "unknown", "layer"}
  BY DEF ValidateDag
<1>3. LayerIs(0)'
  BY <1>1, <1>2 DEF LayerIs
<1>4. Layered'
  BY <1>1, <1>3 DEF Layered
<1>5. QED
  BY <1>1, <1>4, SameOrder DEF OrderInv

LEMMA OrderFind == IInv /\ OrderInv /\ FindReady => OrderInv'
<1> SUFFICES ASSUME IInv, OrderInv, FindReady PROVE OrderInv'
  OBVIOUS
<1> DEFINE d == Depth(Graph, ordered)
<1>1. /\ steps' = steps /\ ordered' = ordered /\ remaining' = remaining
      /\ ready' = Unblocked /\ status = "layer"
      /\ status' = IF Unblocked = {} THEN "cycle" ELSE "emit"
  BY DEF FindReady, NextLayer, CycleIfEmpty
<1>2. /\ \A s : Dependencies(s)' = Dependencies(s)
      /\ Depth(Graph, ordered)' = d
  BY <1>1, GraphIs, SameOrder
<1>3. \A s, m : Waits(s, m)' <=> Waits(s, m)
  BY <1>1, <1>2 DEF Waits
<1>4. PICK l \in 0..Len(ordered) : LayerIs(l)
  BY <1>1 DEF OrderInv, Layered
<1>5. ASSUME status' = "emit" PROVE LayerIs(l)'
  <2>1. /\ \A i \in 1..Len(ordered) : d[i] < l
        /\ l = 0 \/ \A s \in remaining : Waits(s, l)
    BY <1>1, <1>4 DEF LayerIs
  <2>2. Len(ordered) \in Nat /\ l \in Nat /\ \A i \in 1..Len(ordered) : d[i] \in Nat
    BY <1>4 DEF IInv, TypeOK, OrderInv, IsDepth
  <2>3. \A i \in 1..Len(ordered) : d[i] < l /\ d[i] # l
    BY <2>1, <2>2
  <2>4. Unblocked \subseteq remaining
    BY DEF Unblocked
  <2>5. \A s \in remaining \ Unblocked : Waits(s, l + 1)
    BY DEF Unblocked, Waits
  <2>6. /\ \A i \in 1..Len(ordered') :
              /\ Depth(Graph, ordered)'[i] < l
              /\ Depth(Graph, ordered)'[i] # l
        /\ l = 0 \/ \A s \in ready' : Waits(s, l)'
        /\ \A s \in remaining' \ ready' : Waits(s, l + 1)'
    BY <1>1, <1>2, <1>3, <2>1, <2>3, <2>4, <2>5
  <2>7. QED
    BY <1>5, <2>6 DEF LayerIs
<1>6. Layered'
  BY <1>1, <1>4, <1>5 DEF Layered
<1>7. QED
  BY <1>1, <1>6, SameOrder DEF OrderInv

LEMMA OrderFinish == IInv /\ OrderInv /\ (Finish \/ UNCHANGED vars) => OrderInv'
<1> SUFFICES ASSUME IInv, OrderInv, Finish \/ UNCHANGED vars PROVE OrderInv'
  OBVIOUS
<1>1. UNCHANGED <<steps, ordered, ready, remaining>> /\ status' \in {"done", status}
  BY DEF Finish, vars
<1>2. /\ \A s : Dependencies(s)' = Dependencies(s)
      /\ Depth(Graph, ordered)' = Depth(Graph, ordered)
  BY <1>1, GraphIs, SameOrder
<1>3. ASSUME status' = "done" PROVE Layered'
  BY <1>3 DEF Layered
<1>4. ASSUME status' = status PROVE Layered'
  <2>1. \A s, m : Waits(s, m)' <=> Waits(s, m)
    BY <1>1, <1>2 DEF Waits
  <2>2. ASSUME NEW l, LayerIs(l) PROVE LayerIs(l)'
    BY <1>1, <1>2, <1>4, <2>1, <2>2 DEF LayerIs
  <2>3. QED
    BY <1>1, <1>4, <2>2 DEF OrderInv, Layered
<1>5. Layered'
  BY <1>1, <1>3, <1>4
<1>6. QED
  BY <1>1, <1>5, SameOrder DEF OrderInv

(* The least id of a layer goes after those of its layer emitted before it *)
(* and after every earlier layer.                                          *)
LEMMA OrderEmit == IInv /\ OrderInv /\ EmitLeast => OrderInv'
<1> SUFFICES ASSUME IInv, OrderInv, EmitLeast PROVE OrderInv'
  OBVIOUS
<1> DEFINE n == Len(ordered)
           d == Depth(Graph, ordered)
<1>1. PICK s \in ready : /\ \A t \in ready \ {s} : <<s, t>> \in Before
                         /\ ordered' = Append(ordered, s)
                         /\ ready' = ready \ {s}
                         /\ status' = IF ready' = {} THEN "layer" ELSE "emit"
                         /\ remaining' = remaining \ {s}
  BY DEF EmitLeast
<1>2. /\ s \in remaining /\ s \in Ids /\ s \in StepIds /\ ready \subseteq remaining
      /\ status = "emit" /\ ordered \in Seq(Ids) /\ steps' = steps
      /\ Dependencies(s) \cap remaining = {}
  BY <1>1 DEF IInv, TypeOK, EmitLeast, Split, LayerIsFree
<1>3. /\ n \in Nat /\ Len(ordered') = n + 1 /\ ordered'[n + 1] = s
      /\ \A i \in 1..n : ordered'[i] = ordered[i]
  BY <1>1, <1>2, AppendFacts
<1>4. /\ Graph' = Graph /\ Graph[s] = Dependencies(s)
      /\ \A t : Dependencies(t)' = Dependencies(t)
  BY <1>2, GraphIs
<1>5. PICK l \in 0..n : LayerIs(l)
  BY <1>2 DEF OrderInv, Layered
<1>6. IsDepth(Graph, ordered, d) /\ \A i \in 1..n : d[i] \in Nat
  BY DEF OrderInv, IsDepth
<1>7. /\ l \in Nat
      /\ \A i \in 1..n : /\ d[i] <= l
                         /\ d[i] = l => \A t \in ready : /\ <<ordered[i], t>> \in Before
                                                         /\ ordered[i] \notin Dependencies(t)
      /\ l = 0 \/ \A t \in ready : Waits(t, l)
      /\ \A t \in remaining \ ready : Waits(t, l + 1)
  BY <1>2, <1>3, <1>5, <1>6 DEF LayerIs
<1> DEFINE e == Deeper(ordered, d, l)
<1>8. IsDepth(Graph, ordered', e)
  <2>1. \A i \in 1..n : ordered[i] \in Graph[s] => d[i] < l
    <3> HIDE DEF d, n
    <3>1. ASSUME NEW i \in 1..n, ordered[i] \in Graph[s] PROVE d[i] < l
      <4>1. d[i] # l
        BY <1>1, <1>4, <1>7, <3>1
      <4>2. QED
        BY <1>6, <1>7, <4>1
    <3>2. QED
      BY <3>1
  <2>2. l = 0 \/ \E i \in 1..n : ordered[i] \in Graph[s] /\ d[i] + 1 = l
    BY <1>1, <1>2, <1>4, <1>7 DEF Waits
  <2>3. Fits(Graph, ordered, d, s, l)
    BY <2>1, <2>2 DEF Fits
  <2> HIDE DEF d
  <2>4. IsDepth(Graph, Append(ordered, s), e)
    BY <1>2, <1>6, <1>7, <2>3, AppendDepth
  <2>5. QED
    BY <1>1, <2>4
<1>9. Depth(Graph, ordered)' = e /\ IsDepth(Graph, ordered, Depth(Graph, ordered))'
  <2>1. Depth(Graph, ordered') = e
    <3> HIDE DEF e
    <3>1. Len(ordered') \in Nat
      BY <1>3
    <3>2. QED
      BY <1>8, <3>1, DepthIs
  <2>2. QED
    BY <1>4, <1>8, <2>1
<1>10. /\ \A i \in 1..n : e[i] = d[i] /\ i \in 1..(n + 1)
       /\ e[n + 1] = l /\ n + 1 \in 1..(n + 1)
       /\ \A i \in 1..(n + 1) : i \in 1..n \/ i = n + 1
  BY <1>3 DEF Deeper
<1> HIDE DEF d, e, n
<1>11. ByDepthThenName'
  <2>1. ASSUME NEW i \in 1..n
        PROVE  \/ e[i] < e[i+1]
               \/ e[i] = e[i+1] /\ <<ordered'[i], ordered'[i+1]>> \in Before
    <3>1. CASE i + 1 \in 1..n
      <4>1. \/ d[i] < d[i+1]
            \/ d[i] = d[i+1] /\ <<ordered[i], ordered[i+1]>> \in Before
        <5>1. i \in 1..(n - 1)
          BY <1>3, <3>1
        <5>2. QED
          BY <5>1 DEF OrderInv, ByDepthThenName, d, n
      <4>2. QED
        BY <1>3, <1>10, <3>1, <4>1
    <3>2. CASE i + 1 = n + 1
      <4>1. e[i] = d[i] /\ e[i+1] = l /\ ordered'[i] = ordered[i] /\ ordered'[i+1] = s
        BY <1>3, <1>10, <3>2
      <4>2. d[i] < l \/ d[i] = l
        BY <1>6, <1>7
      <4>3. d[i] = l => <<ordered[i], s>> \in Before
        BY <1>1, <1>7
      <4>4. QED
        BY <4>1, <4>2, <4>3
    <3>3. QED
      BY <1>3, <3>1, <3>2
  <2>2. Len(ordered') - 1 = n
    BY <1>3
  <2>3. QED
    BY <1>9, <2>1, <2>2 DEF ByDepthThenName
(* What still waits: only on more, and on s if it waited for s.            *)
<1>12. \A i \in 1..n : Depth(Graph, ordered)'[i] = d[i] /\ ordered'[i] = ordered[i]
  BY <1>3, <1>9, <1>10
<1>13. \A t, m : Waits(t, m) /\ Dependencies(t) \cap remaining = {} => Waits(t, m)'
  <2>1. ASSUME NEW t, NEW m, NEW i \in 1..n, ordered[i] \in Dependencies(t), d[i] + 1 = m
        PROVE  Waits(t, m)'
    <3>1. /\ i \in 1..Len(ordered')
          /\ ordered'[i] \in Dependencies(t)'
          /\ Depth(Graph, ordered)'[i] + 1 = m
      BY <1>3, <1>4, <1>10, <1>12, <2>1
    <3>2. QED
      BY <3>1 DEF Waits
  <2>2. QED
    BY <2>1 DEF Waits, d, n
<1>14. \A t : Waits(t, l + 1) => Waits(t, l + 1)'
  <2>1. ASSUME NEW t, s \in Dependencies(t) PROVE Waits(t, l + 1)'
    <3>1. /\ n + 1 \in 1..Len(ordered') /\ ordered'[n + 1] \in Dependencies(t)'
          /\ Depth(Graph, ordered)'[n + 1] + 1 = l + 1
      BY <1>3, <1>4, <1>9, <1>10, <2>1
    <3>2. QED
      BY <3>1 DEF Waits
  <2>2. ASSUME NEW t, s \notin Dependencies(t), Dependencies(t) \cap remaining # {}
        PROVE  Waits(t, l + 1)'
    <3>1. Dependencies(t)' \cap remaining' # {}
      BY <1>1, <1>4, <2>2
    <3>2. QED
      BY <3>1 DEF Waits
  <2>3. QED
    BY <1>13, <2>1, <2>2
<1>15. ASSUME ready' # {} PROVE LayerIs(l)'
  <2>1. status' = "emit" /\ ready' \subseteq ready
    BY <1>1, <1>15
  <2>2. ASSUME NEW i \in 1..Len(ordered')
        PROVE  /\ e[i] < l \/ e[i] = l
               /\ e[i] = l => \A t \in ready' : /\ <<ordered'[i], t>> \in Before
                                               /\ ordered'[i] \notin Dependencies(t)
    <3>1. CASE i \in 1..n
      BY <1>6, <1>7, <1>10, <1>12, <2>1, <3>1
    <3>2. CASE i = n + 1
      <4>1. e[i] = l /\ ordered'[i] = s
        BY <1>3, <1>10, <3>2
      <4>2. \A t \in ready' : <<s, t>> \in Before /\ s \notin Dependencies(t)
        BY <1>1, <1>2 DEF IInv, LayerIsFree
      <4>3. QED
        BY <4>1, <4>2
    <3>3. QED
      BY <1>3, <1>10, <3>1, <3>2
  <2>3. l = 0 \/ \A t \in ready' : Waits(t, l)'
    BY <1>7, <1>13, <2>1 DEF IInv, LayerIsFree
  <2>4. \A t \in remaining' \ ready' : Waits(t, l + 1)'
    BY <1>1, <1>7, <1>14
  <2>5. QED
    BY <1>4, <1>9, <2>1, <2>2, <2>3, <2>4 DEF LayerIs
<1>16. ASSUME ready' = {} PROVE LayerIs(l + 1)'
  <2>1. status' = "layer" /\ \A t \in remaining' : t \in remaining \ ready
    BY <1>1, <1>16
  <2>2. \A i \in 1..Len(ordered') : e[i] < l + 1
    BY <1>3, <1>6, <1>7, <1>10
  <2>3. \A t \in remaining' : Waits(t, l + 1)'
    BY <1>7, <1>14, <2>1
  <2>4. QED
    BY <1>9, <1>16, <2>1, <2>2, <2>3 DEF LayerIs
<1>17. Layered'
  <2>1. l \in 0..Len(ordered') /\ l + 1 \in 0..Len(ordered')
    BY <1>3, <1>5 DEF n
  <2>2. QED
    BY <1>15, <1>16, <2>1 DEF Layered
<1>18. QED
  BY <1>9, <1>11, <1>17 DEF OrderInv

(* execution_order() lists the steps by depth, and by name where the depth *)
(* is the same.                                                            *)
THEOREM CanonicalOrder == Spec => []OrderIsCanonical
<1>1. IInv /\ OrderInv /\ [Next]_vars => OrderInv'
  BY OrderValidate, OrderFind, OrderEmit, OrderFinish DEF Next
<1>2. OrderInv => OrderIsCanonical
  BY DEF OrderInv, OrderIsCanonical
<1>3. QED
  BY <1>1, <1>2, OrderInitially, Invariance, PTL DEF Spec

(* What makes an order the order of a graph.                               *)
IsOrderOf(graph, order) ==
    /\ order \in Seq(Ids)
    /\ {order[i] : i \in 1..Len(order)} = DOMAIN graph
    /\ \A i, j \in 1..Len(order) : order[i] = order[j] => i = j
    /\ \A i \in 1..Len(order) : \A t \in graph[order[i]] :
          \E j \in 1..(i-1) : order[j] = t
    /\ IsDepth(graph, order, Depth(graph, order))
    /\ \A i \in 1..(Len(order) - 1) :
          LET d == Depth(graph, order)
          IN  \/ d[i] < d[i+1]
              \/ d[i] = d[i+1] /\ <<order[i], order[i+1]>> \in Before

(* The depth of a step is the same in every order of the graph.            *)
LEMMA SameDepth ==
    ASSUME NEW graph, NEW a, NEW b, IsOrderOf(graph, a), IsOrderOf(graph, b),
           NEW i \in 1..Len(a), NEW k \in 1..Len(b), a[i] = b[k]
    PROVE  Depth(graph, a)[i] = Depth(graph, b)[k]
<1> DEFINE d == Depth(graph, a)
           e == Depth(graph, b)
           T == {x \in 1..Len(a) : \E y \in 1..Len(b) : a[x] = b[y] /\ d[x] # e[y]}
<1>1. CASE T = {}
  BY <1>1
<1>2. CASE T # {}
  <2>1. PICK x \in T : \A z \in T : ~(z < x)
    <3>1. T \subseteq Nat
      OBVIOUS
    <3> HIDE DEF T
    <3>2. QED
      BY <1>2, <3>1, Least
  <2>2. PICK y \in 1..Len(b) : a[x] = b[y] /\ d[x] # e[y]
    BY <2>1
  <2>3. Len(a) \in Nat /\ Len(b) \in Nat /\ x \in 1..Len(a)
    BY <2>1 DEF IsOrderOf
  <2> DEFINE A == Behind(graph, a, x)
             B == Behind(graph, b, y)
  <2>4. /\ d[x] = AboveAll({d[z] : z \in A})
        /\ e[y] = AboveAll({e[z] : z \in B})
    BY <2>3 DEF IsOrderOf, IsDepth
  <2>5. ASSUME NEW u \in A, NEW v \in 1..Len(b), a[u] = b[v] PROVE d[u] = e[v]
    <3>1. u \in 1..Len(a) /\ u < x
      BY <2>3 DEF Behind
    <3>2. u \notin T
      BY <2>1, <3>1
    <3>3. QED
      BY <2>5, <3>1, <3>2
  <2>6. ASSUME NEW u \in A PROVE \E v \in B : d[u] = e[v]
    <3>1. a[u] \in graph[b[y]]
      BY <2>2 DEF Behind
    <3>2. PICK v \in 1..(y-1) : b[v] = a[u]
      BY <2>3, <3>1 DEF IsOrderOf
    <3>3. v \in B /\ v \in 1..Len(b)
      BY <2>3, <3>1, <3>2 DEF Behind
    <3>4. QED
      BY <2>5, <3>2, <3>3
  <2>7. ASSUME NEW v \in B PROVE \E u \in A : d[u] = e[v]
    <3>1. b[v] \in graph[a[x]] /\ v \in 1..Len(b)
      BY <2>2, <2>3 DEF Behind
    <3>2. PICK u \in 1..(x-1) : a[u] = b[v]
      BY <2>3, <3>1 DEF IsOrderOf
    <3>3. u \in A
      BY <3>1, <3>2 DEF Behind
    <3>4. QED
      BY <2>5, <3>1, <3>2, <3>3
  <2> HIDE DEF A, B, d, e
  <2>8. {d[z] : z \in A} = {e[z] : z \in B}
    BY <2>6, <2>7
  <2>9. QED
    BY <2>2, <2>4, <2>8
<1>3. QED
  BY <1>1, <1>2

(* An order of a graph is sorted by depth and name throughout.             *)
LEMMA Sorted ==
    ASSUME NEW graph, NEW a, IsOrderOf(graph, a),
           NEW i \in 1..Len(a), NEW j \in 1..Len(a), i < j
    PROVE  \/ Depth(graph, a)[i] < Depth(graph, a)[j]
           \/ /\ Depth(graph, a)[i] = Depth(graph, a)[j]
              /\ <<a[i], a[j]>> \in Before
<1> DEFINE d == Depth(graph, a)
           Precedes(k) == d[i] < d[k] \/ (d[i] = d[k] /\ <<a[i], a[k]>> \in Before)
           T == {k \in 1..Len(a) : i < k /\ ~Precedes(k)}
<1>1. /\ Len(a) \in Nat
      /\ \A k \in 1..Len(a) : d[k] \in Nat /\ a[k] \in Ids
      /\ \A k \in 1..(Len(a) - 1) :
            d[k] < d[k+1] \/ (d[k] = d[k+1] /\ <<a[k], a[k+1]>> \in Before)
  BY DEF IsOrderOf, IsDepth
<1> HIDE DEF d
<1>2. CASE T = {}
  <2>1. j \notin T
    BY <1>2
  <2>2. Precedes(j)
    BY <2>1
  <2>3. QED
    BY <2>2 DEF d
<1>3. CASE T # {}
  <2>1. PICK k \in T : \A z \in T : ~(z < k)
    <3>1. T \subseteq Nat
      OBVIOUS
    <3> HIDE DEF T
    <3>2. QED
      BY <1>3, <3>1, Least
  <2>2. k \in 1..Len(a) /\ i < k /\ ~Precedes(k)
    BY <2>1
  <2> DEFINE m == k - 1
  <2>3. m \in 1..(Len(a) - 1) /\ m + 1 = k /\ m \in 1..Len(a) /\ (m = i \/ i < m) /\ m < k
    BY <1>1, <2>2
  <2> HIDE DEF m
  <2>4. m = i \/ Precedes(m)
    BY <2>1, <2>3
  <2>5. d[m] < d[k] \/ (d[m] = d[k] /\ <<a[m], a[k]>> \in Before)
    BY <1>1, <2>3
  <2>6. d[i] \in Nat /\ d[m] \in Nat /\ d[k] \in Nat /\ a[i] \in Ids /\ a[m] \in Ids
        /\ a[k] \in Ids
    BY <1>1, <2>2, <2>3
  <2>7. Precedes(k)
    BY <2>4, <2>5, <2>6, BeforeAssumption
  <2>8. QED
    BY <2>2, <2>7
<1>4. QED
  BY <1>2, <1>3

(* Two orders of a graph list the same steps.                              *)
LEMMA OrdersList ==
    ASSUME NEW graph, NEW a, NEW b, IsOrderOf(graph, a), IsOrderOf(graph, b),
           NEW i \in 1..Len(a)
    PROVE  \E k \in 1..Len(b) : b[k] = a[i]
<1>1. a[i] \in {a[k] : k \in 1..Len(a)}
  OBVIOUS
<1>2. {a[k] : k \in 1..Len(a)} = {b[k] : k \in 1..Len(b)}
  BY DEF IsOrderOf
<1>3. a[i] \in {b[k] : k \in 1..Len(b)}
  BY <1>1, <1>2
<1>4. QED
  BY <1>3

(* A graph has one order.                                                  *)
LEMMA OrdersAgree ==
    ASSUME NEW graph, NEW a, NEW b, IsOrderOf(graph, a), IsOrderOf(graph, b),
           NEW i \in 1..Len(a), i \in 1..Len(b),
           \A z \in 1..(i-1) : a[z] = b[z]
    PROVE  \/ a[i] = b[i]
           \/ Depth(graph, b)[i] < Depth(graph, a)[i]
           \/ /\ Depth(graph, b)[i] = Depth(graph, a)[i]
              /\ <<b[i], a[i]>> \in Before
<1>1. Len(a) \in Nat /\ Len(b) \in Nat
  BY DEF IsOrderOf
<1>2. PICK k \in 1..Len(b) : b[k] = a[i]
  BY OrdersList
<1>3. ~(k < i)
  <2>1. ASSUME k < i PROVE FALSE
    <3>1. k \in 1..(i-1) /\ k \in 1..Len(a)
      BY <1>1, <2>1
    <3>2. a[k] = a[i]
      BY <1>2, <3>1
    <3>3. k = i
      BY <3>1, <3>2 DEF IsOrderOf
    <3>4. QED
      BY <1>1, <2>1, <3>3
  <2>2. QED
    BY <2>1
<1>4. CASE k = i
  BY <1>2, <1>4
<1>5. CASE i < k
  <2>1. \/ Depth(graph, b)[i] < Depth(graph, b)[k]
        \/ /\ Depth(graph, b)[i] = Depth(graph, b)[k]
           /\ <<b[i], b[k]>> \in Before
    BY <1>5, Sorted
  <2>2. Depth(graph, b)[k] = Depth(graph, a)[i]
    BY <1>2, SameDepth
  <2>3. QED
    BY <1>2, <2>1, <2>2
<1>6. QED
  BY <1>1, <1>3, <1>4, <1>5

LEMMA OrderUnique ==
    ASSUME NEW graph, NEW a, NEW b, IsOrderOf(graph, a), IsOrderOf(graph, b)
    PROVE  a = b
<1> DEFINE d == Depth(graph, a)
           e == Depth(graph, b)
           T == {i \in 1..Len(a) : i \in 1..Len(b) /\ a[i] # b[i]}
<1>1. /\ Len(a) \in Nat /\ Len(b) \in Nat
      /\ \A i \in 1..Len(a) : a[i] \in Ids /\ d[i] \in Nat
      /\ \A i \in 1..Len(b) : b[i] \in Ids /\ e[i] \in Nat
      /\ a = [i \in 1..Len(a) |-> a[i]] /\ b = [i \in 1..Len(b) |-> b[i]]
  BY DEF IsOrderOf, IsDepth
<1>2. T = {}
  <2> SUFFICES ASSUME T # {} PROVE FALSE
    OBVIOUS
  <2>1. PICK i \in T : \A z \in T : ~(z < i)
    <3>1. T \subseteq Nat
      OBVIOUS
    <3> HIDE DEF T
    <3>2. QED
      BY <3>1, Least
  <2>2. i \in 1..Len(a) /\ i \in 1..Len(b) /\ a[i] # b[i]
    BY <2>1
  <2>3. \A z \in 1..(i-1) : a[z] = b[z]
    BY <1>1, <2>1, <2>2
  <2>4. \A z \in 1..(i-1) : b[z] = a[z]
    BY <2>3
  <2>5. e[i] < d[i] \/ (e[i] = d[i] /\ <<b[i], a[i]>> \in Before)
    BY <2>2, <2>3, OrdersAgree
  <2>6. d[i] < e[i] \/ (d[i] = e[i] /\ <<a[i], b[i]>> \in Before)
    BY <2>2, <2>4, OrdersAgree
  <2>7. d[i] \in Nat /\ e[i] \in Nat /\ a[i] \in Ids /\ b[i] \in Ids
    BY <1>1, <2>2
  <2> HIDE DEF d, e
  <2>8. <<b[i], a[i]>> \in Before /\ <<a[i], b[i]>> \in Before
    BY <2>5, <2>6, <2>7
  <2>9. <<a[i], a[i]>> \in Before
    BY <2>7, <2>8, BeforeAssumption
  <2>10. QED
    BY <2>7, <2>9, BeforeAssumption
<1>3. ~(Len(a) < Len(b))
  <2> SUFFICES ASSUME Len(a) < Len(b) PROVE FALSE
    OBVIOUS
  <2>1. Len(a) + 1 \in 1..Len(b)
    BY <1>1
  <2>2. PICK k \in 1..Len(a) : a[k] = b[Len(a) + 1]
    BY <2>1, OrdersList
  <2>3. k \in 1..Len(b) /\ b[k] = a[k]
    BY <1>1, <1>2
  <2>4. k = Len(a) + 1
    BY <2>1, <2>2, <2>3 DEF IsOrderOf
  <2>5. QED
    BY <1>1, <2>4
<1>4. ~(Len(b) < Len(a))
  <2> SUFFICES ASSUME Len(b) < Len(a) PROVE FALSE
    OBVIOUS
  <2>1. Len(b) + 1 \in 1..Len(a)
    BY <1>1
  <2>2. PICK k \in 1..Len(b) : b[k] = a[Len(b) + 1]
    BY <2>1, OrdersList
  <2>3. k \in 1..Len(a) /\ b[k] = a[k]
    BY <1>1, <1>2
  <2>4. k = Len(b) + 1
    BY <2>1, <2>2, <2>3 DEF IsOrderOf
  <2>5. QED
    BY <1>1, <2>4
<1>5. Len(a) = Len(b)
  <2> HIDE DEF T, d, e
  <2>1. \A m, n \in Nat : ~(m < n) /\ ~(n < m) => m = n
    OBVIOUS
  <2>2. QED
    BY <1>1, <1>3, <1>4, <2>1
<1>6. \A i \in 1..Len(a) : a[i] = b[i]
  BY <1>2, <1>5
<1>7. [i \in 1..Len(a) |-> a[i]] = [i \in 1..Len(b) |-> b[i]]
  BY <1>5, <1>6
<1>8. QED
  BY <1>1, <1>7

(* execution_order() has no choice: run() recomputes the order at every    *)
(* resume, and whatever order the plan lists the steps in, it gets the one *)
(* order this graph has.                                                   *)
THEOREM OnlyOrder ==
    Spec => [](status = "done" =>
                  /\ IsOrderOf(Graph, ordered)
                  /\ \A order : IsOrderOf(Graph, order) => order = ordered)
<1>1. IInv /\ OrderInv /\ status = "done" => IsOrderOf(Graph, ordered)
  <2> SUFFICES ASSUME IInv, OrderInv, status = "done" PROVE IsOrderOf(Graph, ordered)
    OBVIOUS
  <2>1. ordered \in Seq(Ids) /\ Emitted = StepIds /\ DOMAIN Graph = StepIds
    BY DEF IInv, TypeOK, Split, Finished, Graph
  <2>2. \A i \in 1..Len(ordered) : Graph[ordered[i]] = Dependencies(ordered[i])
    BY <2>1 DEF Graph, Emitted
  <2>3. /\ {ordered[i] : i \in 1..Len(ordered)} = DOMAIN Graph
        /\ \A i, j \in 1..Len(ordered) : ordered[i] = ordered[j] => i = j
    BY <2>1 DEF IInv, InOrder, Emitted
  <2>4. \A i \in 1..Len(ordered) : \A t \in Graph[ordered[i]] :
          \E j \in 1..(i-1) : ordered[j] = t
    <3>1. \A i \in 1..Len(ordered) : \A t \in Dependencies(ordered[i]) :
            \E j \in 1..(i-1) : ordered[j] = t
      BY DEF IInv, InOrder
    <3>2. QED
      BY <2>2, <3>1
  <2>5. QED
    BY <2>1, <2>3, <2>4 DEF OrderInv, ByDepthThenName, IsOrderOf
<1>2. IInv /\ OrderInv /\ [Next]_vars => OrderInv'
  BY OrderValidate, OrderFind, OrderEmit, OrderFinish DEF Next
<1>3. IInv /\ OrderInv =>
        (status = "done" => /\ IsOrderOf(Graph, ordered)
                            /\ \A order : IsOrderOf(Graph, order) => order = ordered)
  BY <1>1, OrderUnique
<1>4. QED
  BY <1>2, <1>3, OrderInitially, Invariance, PTL DEF Spec
=============================================================================
