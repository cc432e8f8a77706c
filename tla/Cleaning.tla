------------------------------ MODULE Cleaning ------------------------------
(***************************************************************************)
(* A requirement on its way to a run: it is compiled from what the model   *)
(* extracted, revised and approved (RequirementIntake), and planned; the   *)
(* plan proposes cleaning rules (DataFitness), a human approves some,      *)
(* orchestrator.apply_cleaning_rules() puts their steps on top of the      *)
(* sources in the workflow, and the run executes them before the steps     *)
(* that read those sources.                                                *)
(*                                                                         *)
(* Callers are the HTTP API, which compiles every contract and takes the   *)
(* profiles of the stored datasets, sorts the approved ids and refuses a   *)
(* start while a required rule is not approved, and library code, which    *)
(* does none of this: it may bring a contract of its own and hold profiles *)
(* older than its data.  Revisions of a planned contract are left to       *)
(* AnalystSession.                                                         *)
(*                                                                         *)
(* A step is [id, op, inputs, column, keys].  A node is a tuple:           *)
(* <<"source", d>>, the id of a rule for the step that applies it,         *)
(* <<"step", name>> for a step of the planned workflow.  The code derives  *)
(* the id of a cleaning step from its dataset and column; the model's ids  *)
(* are distinct for distinct rules.                                        *)
(***************************************************************************)
EXTENDS RequirementIntake, SequencesExt

CONSTANTS
    Readers,     \* planned steps: name -> the datasets it reads, in order
    Extractions, \* what the model may find in a request
    Contracts,   \* requirement contracts of library callers
    Snapshots,   \* dataset -> frames it may hold when it is profiled
    Later        \* dataset -> frames library code may replace it with

Datasets == DOMAIN Snapshots

ASSUME SourcesAssumption ==
    /\ IsFiniteSet(Datasets)
    /\ \A d \in Datasets : \A f \in Snapshots[d] \cup Later[d] : IsFrame(f)

ASSUME ReadersAssumption ==
    /\ IsFiniteSet(DOMAIN Readers)
    /\ \A name \in DOMAIN Readers :
          \A n \in DOMAIN Readers[name] : Readers[name][n] \in Datasets

ASSUME ContractsAssumption ==
    \A given \in Contracts :
        /\ IsFiniteSet(DOMAIN given.policy)
        /\ \A metric \in given.metrics : \A field \in metric.fields : IsField(field)

VARIABLES
    caller,     \* "api" or "library"
    contract,   \* the requirement
    sources,    \* dataset -> frame
    profiles,   \* dataset -> profile taken of it
    plan,       \* the cleaning plan, [rules, items]
    workflow,   \* its steps
    approved,   \* ids of the rules applied, in the order their steps run
    blocking,   \* what the last plan review said
    phase,      \* "new", "drafted", "planned", "running", "failed"
    frames      \* node -> frame, of the sources locked and the steps executed;
                \* of a planned step the frames it read

vars == <<caller, contract, sources, profiles, plan, workflow, approved,
          blocking, phase, frames>>

Source(d) == <<"source", d>>

IsSource(node) == node[1] = "source"

PlannedStep(name) ==
    [id |-> <<"step", name>>, op |-> "planned",
     inputs |-> [n \in DOMAIN Readers[name] |-> Source(Readers[name][n])],
     column |-> Null, keys |-> {}]

PlannedWorkflow == {PlannedStep(name) : name \in DOMAIN Readers}

MappingsNow == Mappings(contract, profiles)

IssuesNow == Issues(contract, MappingsNow, profiles)
-----------------------------------------------------------------------------
(* orchestrator.apply_cleaning_rules()                                     *)
Appliable(rule) == rule[1] \in {"text_clean", "dedup"}

(* The step that applies a rule; rewrite maps the sources to what their    *)
(* readers are to read.                                                    *)
CleaningStep(rule, rewrite) ==
    [id |-> rule, op |-> rule[1], inputs |-> <<rewrite[rule[2]]>>,
     column |-> IF rule[1] = "text_clean" THEN rule[3] ELSE Null,
     keys |-> IF rule[1] = "dedup" THEN Of(profiles, rule[2]) ELSE {}]

Unwritten == [d \in Datasets |-> Source(d)]

AddCleaningStep(acc, rule) ==
    [steps |-> acc.steps \cup {CleaningStep(rule, acc.rewrite)},
     rewrite |-> [acc.rewrite EXCEPT ![rule[2]] = rule]]

Applied(ids) == FoldLeft(AddCleaningStep, [steps |-> {}, rewrite |-> Unwritten], ids)

(* Mutant: only the first input of a step is rewired.                      *)
RewireFirst(step, rewrite) ==
    [step EXCEPT !.inputs = [n \in DOMAIN step.inputs |->
        IF n = 1 /\ IsSource(step.inputs[n]) THEN rewrite[step.inputs[n][2]]
                                             ELSE step.inputs[n]]]

Rewire(step, rewrite) ==
    [step EXCEPT !.inputs = [n \in DOMAIN step.inputs |->
        IF IsSource(step.inputs[n]) THEN rewrite[step.inputs[n][2]]
                                    ELSE step.inputs[n]]]

(* An id the plan does not hold.                                           *)
Unproposed == <<"text_clean", CHOOSE d \in Datasets : TRUE, Null>>

(* Mutant: the ids are applied in any order they arrive in.                *)
UnsortedOrders(ids) == SetToSeqs(ids)

(* The orders approved ids are applied in: sorted() puts "dedup:" before   *)
(* "text_clean:", whatever the dataset; a library caller's list is any.    *)
Orders(ids) ==
    {s \in SetToSeqs(ids) :
        caller = "api" => \A i, j \in DOMAIN s :
                             s[i][1] = "text_clean" /\ s[j][1] = "dedup" => j < i}

CleanedWorkflow(ids) ==
    {Rewire(step, Applied(ids).rewrite) : step \in workflow} \cup Applied(ids).steps

(* Mutant: the workflow may hold a step twice.                             *)
AcceptableTwice(ids, supplied) ==
    /\ Range(ids) \subseteq RuleIds(plan)
    /\ \A i \in DOMAIN ids : Appliable(ids[i])
    /\ supplied \/ \A i \in DOMAIN ids : ids[i][1] # "dedup"

(* Its refusals: an id the plan does not hold, no operation for it, no     *)
(* profile, and validate_dag() of a workflow with a step twice.            *)
Acceptable(ids, supplied) ==
    /\ Range(ids) \subseteq RuleIds(plan)
    /\ \A i \in DOMAIN ids : Appliable(ids[i])
    /\ supplied \/ \A i \in DOMAIN ids : ids[i][1] # "dedup"
    /\ Range(ids) \cap {step.id : step \in workflow} = {}
-----------------------------------------------------------------------------
NoRequest == [metrics |-> <<>>, terms |-> {}, timezone |-> FALSE, range |-> FALSE]

Init == /\ \/ caller = "api" /\ phase = "new" /\ contract = Compile(NoRequest, <<>>, <<>>)
           \/ caller = "library" /\ phase = "drafted" /\ contract \in Contracts
        /\ sources \in {f \in [Datasets -> UNION Range(Snapshots)] :
                          \A d \in Datasets : f[d] \in Snapshots[d]}
        /\ profiles = [d \in Datasets |-> ProfileDataset(sources[d])]
        /\ plan = [rules |-> {}, items |-> {}]
        /\ workflow = {}
        /\ approved = <<>>
        /\ blocking = TRUE
        /\ frames = [n \in {} |-> Null]

ProfileOfFirst(chosen) == [n \in 1 .. Min({1, Len(chosen)}) |-> profiles[chosen[n]]]

(* POST /requirements: the chosen datasets, the profile of the first.      *)
CreateRequirement ==
    /\ phase = "new"
    /\ \E extraction \in Extractions, chosen \in {<<>>} \cup SetToSeqs(Datasets) :
          contract' = Compile(extraction, chosen, ProfileOfFirst(chosen))
    /\ phase' = "drafted"
    /\ UNCHANGED <<caller, sources, profiles, plan, workflow, approved, blocking, frames>>

(* POST /revise compiles the request with more text, over the same sources.*)
ReviseRequirement ==
    /\ phase = "drafted"
    /\ caller = "api"
    /\ \E extraction \in Extractions :
          contract' = Compile(extraction, contract.sources,
                              ProfileOfFirst(contract.sources))
    /\ UNCHANGED <<caller, sources, profiles, plan, workflow, approved, blocking,
                   phase, frames>>

(* POST /approve: a human may approve what has no open question.           *)
ApproveRequirement ==
    /\ phase = "drafted"
    /\ contract.open = {}
    /\ Ready(Validated(contract, "APPROVED"))
    /\ contract' = Validated(contract, "APPROVED")
    /\ UNCHANGED <<caller, sources, profiles, plan, workflow, approved, blocking,
                   phase, frames>>

(* POST /plan; library callers chain the same three agents.                *)
PlanRequirement ==
    /\ phase = "drafted"
    /\ Ready(contract)
    /\ plan' = Propose(contract, IssuesNow)
    /\ workflow' = PlannedWorkflow
    /\ blocking' = PlanBlocking(MappingsNow, IssuesNow, plan', {})
    /\ phase' = "planned"
    /\ UNCHANGED <<caller, contract, sources, profiles, approved, frames>>

(* POST /cleaning/approve: the ids already approved and the new ones, over *)
(* the workflow as it is; library code passes the new ones alone, whose    *)
(* steps come between the source and those it has.  A refusal changes      *)
(* nothing.                                                                *)
ApproveCleaningRules ==
    /\ phase = "planned"
    /\ \E requested \in SUBSET (RuleIds(plan) \cup {Unproposed}),
          supplied \in (IF caller = "api" THEN {TRUE} ELSE BOOLEAN) :
         \E ids \in Orders(requested \cup
                            (IF caller = "api" THEN Range(approved) ELSE {})) :
            /\ ids # <<>>
            /\ Acceptable(ids, supplied)
            /\ workflow' = CleanedWorkflow(ids)
            /\ approved' = IF caller = "api" THEN ids ELSE ids \o approved
    /\ blocking' = PlanBlocking(MappingsNow, IssuesNow, plan, Range(approved'))
    /\ UNCHANGED <<caller, contract, sources, profiles, plan, phase, frames>>

(* Library code reads a newer snapshot than the one it profiled.           *)
SourceChanges ==
    /\ phase = "planned"
    /\ caller = "library"
    /\ \E d \in Datasets : \E f \in Later[d] : sources' = [sources EXCEPT ![d] = f]
    /\ UNCHANGED <<caller, contract, profiles, plan, workflow, approved, blocking,
                   phase, frames>>

(* start_run() locks the sources; POST /start looks at required rules, not *)
(* at the blocking flag.                                                   *)
StartRun ==
    /\ phase = "planned"
    /\ caller = "api" => Unresolved(plan, Range(approved)) = {}
    /\ frames' = [n \in {Source(d) : d \in Datasets} |-> sources[n[2]]]
    /\ phase' = "running"
    /\ UNCHANGED <<caller, contract, sources, profiles, plan, workflow, approved,
                   blocking>>

(* TextCleanOperation with normalize: trim, lower and                      *)
(* allow_identity_collapse.                                                *)
TextClean(f, c) ==
    [f EXCEPT !.rows = [i \in DOMAIN f.rows |->
        [f.rows[i] EXCEPT ![c] = Folded(f.rows[i][c])]]]

(* Mutant: rows are copies when one column agrees.                         *)
FirstKeyOnly(keys) == [keys |-> <<CHOOSE k \in keys : TRUE>>, keep |-> "first",
                       orderBy |-> Null]

FullRow(keys) == [keys |-> SetToSeq(keys), keep |-> "first", orderBy |-> Null]

(* What a step may make of the frames it reads; nothing when it refuses.   *)
Results(step, inputs) ==
    IF step.op = "planned" THEN {inputs}
    ELSE IF step.op = "text_clean"
    THEN IF step.column \in Columns(inputs[1]) THEN {TextClean(inputs[1], step.column)} ELSE {}
    ELSE IF DeduplicateAccepts(inputs[1], FullRow(step.keys))
    THEN Deduplicated(inputs[1], FullRow(step.keys)) ELSE {}

(* The executor takes the steps in topological order.                      *)
ExecuteStep(step) ==
    /\ phase = "running"
    /\ step.id \notin DOMAIN frames
    /\ Range(step.inputs) \subseteq DOMAIN frames
    /\ LET inputs  == [n \in DOMAIN step.inputs |-> frames[step.inputs[n]]]
           results == Results(step, inputs)
       IN \/ /\ results = {}
             /\ phase' = "failed"
             /\ frames' = frames
          \/ \E out \in results :
             /\ frames' = [n \in DOMAIN frames \cup {step.id} |->
                             IF n = step.id THEN out ELSE frames[n]]
             /\ phase' = phase
    /\ UNCHANGED <<caller, contract, sources, profiles, plan, workflow, approved,
                   blocking>>

Next == \/ CreateRequirement \/ ReviseRequirement \/ ApproveRequirement
        \/ PlanRequirement \/ ApproveCleaningRules \/ SourceChanges \/ StartRun
        \/ \E step \in workflow : ExecuteStep(step)

Spec == Init /\ [][Next]_vars
-----------------------------------------------------------------------------
Executed(step) == step.id \in DOMAIN frames

(* What the planned steps read of each dataset.                            *)
ReadOf(d) == UNION {{frames[<<"step", name>>][n] : n \in {m \in DOMAIN Readers[name] :
                                                         Readers[name][m] = d}} :
                name \in {reader \in DOMAIN Readers : <<"step", reader>> \in DOMAIN frames}}

TypeOK == /\ phase \in {"new", "drafted", "planned", "running", "failed"}
          /\ workflow \in {{}, PlannedWorkflow} \/ approved # <<>>
          /\ Range(approved) \subseteq RuleIds(plan)
          /\ Cardinality(workflow)
               = IF phase \in {"new", "drafted"} THEN 0
                 ELSE Cardinality(DOMAIN Readers) + Len(approved)
          /\ \A step \in workflow : \A n \in DOMAIN step.inputs :
                IsSource(step.inputs[n]) \/ step.inputs[n] \in Range(approved)

(* A plan the API made is of a requirement nothing was guessed in: every   *)
(* metric has one governed definition, or a formula of the user's for a    *)
(* term that is not material and that fewer than two columns of the first  *)
(* source could mean; date buckets have a timezone.                        *)
NothingGuessed ==
    caller = "api" /\ phase \notin {"new", "drafted"} =>
        Unguessed(contract, profiles[contract.sources[1]])

(* One rule over the frame before it.                                      *)
Clean(f, rule) ==
    IF rule[1] = "text_clean" THEN TextClean(f, rule[3])
    ELSE CHOOSE out \in Deduplicated(f, FullRow(Of(profiles, rule[2]))) : TRUE

(* Every planned step reads its datasets cleaned by all the rules approved *)
(* for them, each applied to the result of the one before, and by no       *)
(* other: "nothing downstream can still see the unclean column".           *)
CleanedAsApproved ==
    \A d \in Datasets : \A f \in ReadOf(d) :
        f = FoldLeft(LAMBDA g, rule : IF rule[2] = d THEN Clean(g, rule) ELSE g,
                     sources[d], approved)

FoldRow(r, d) == [c \in DOMAIN r |-> IF <<"text_clean", d, c>> \in Range(approved)
                                     THEN Folded(r[c]) ELSE r[c]]

(* Cleaning drops nothing but copies: whatever data the run is given, its  *)
(* readers get no row it did not have, and for each of its rows one that   *)
(* agrees in every column it was profiled with, up to case and blanks of   *)
(* the columns whose rule was approved.  When that is all its columns, no  *)
(* row is lost: "keeping the first occurrence per full-row match".         *)
OnlyCopiesAreDropped ==
    \A d \in Datasets : \A f \in ReadOf(d) :
        /\ Rows(f) \subseteq {FoldRow(r, d) : r \in Rows(sources[d])}
        /\ \A r \in Rows(sources[d]) : \E kept \in Rows(f) :
              \A c \in Of(profiles, d) \cap DOMAIN r : kept[c] = FoldRow(r, d)[c]

(* A run the API started reads each different row of a dataset, up to case *)
(* and blanks of the columns whose rule was approved, exactly once: no row *)
(* is counted twice and none is lost ("duplicate rows silently inflate any *)
(* additive aggregate").  Rows that differ in such a column alone stay two *)
(* rows, although they look the same once the texts are unified.           *)
EachRowIsReadOnce ==
    caller = "api" =>
        \A d \in Datasets : \A f \in ReadOf(d) :
            \E origin \in Bijection(1 .. Height(f), Rows(sources[d])) :
                \A i \in 1 .. Height(f) : f.rows[i] = FoldRow(origin[i], d)

(* "post-clean distinct_count ... must equal the pre-clean                 *)
(* trimmed_lowercase_distinct_count reported by profiling": of every text  *)
(* column the requirement is mapped to, whether a rule was proposed for it *)
(* or it had no variants, in each run the API started.                     *)
TextsAreUnified ==
    caller = "api" =>
        \A d \in Datasets : \A f \in ReadOf(d) :
            \A place \in Places(MappingsNow) : place[1] = d =>
                ColumnOf(profiles, place).folded \in
                    {Null, ProfileDataset(f).columns[place[2]].distinct}

(* A plan review that does not block speaks of data that fits: each        *)
(* concept has one column of its own, amounts are numbers, no column that  *)
(* is used misses values without a policy or more than half of them, and a *)
(* time range has dates to apply to.                                       *)
UnblockedIsFit ==
    ~blocking =>
        LET ms == MappingsNow
            f(place) == ColumnOf(profiles, place)
        IN /\ \A m \in ms : m.status = "MAPPED"
           /\ \A m, n \in ms : m.place = n.place => m.concept = n.concept
           /\ \A t \in contract.terms : t \notin DOMAIN Dimensions =>
                Cardinality({d \in Datasets : t \in Of(profiles, d)}) = 1
           /\ \A m \in ms : /\ m.concept \in MoneyTerms => f(m.place).dtype = "int"
                            /\ f(m.place).nulls > 0 =>
                                 /\ m.place[2] \in DOMAIN contract.policy
                                 /\ 2 * f(m.place).nulls <= profiles[m.place[1]].rows
           /\ contract.range => HasDateColumn(profiles)
-----------------------------------------------------------------------------
(* The inductive invariant: where the requirement, the profiles and the    *)
(* last review come from.                                                  *)

Planned == phase \notin {"new", "drafted"}

Profiled == /\ profiles = [d \in Datasets |-> profiles[d]]
            /\ \A d \in Datasets : \E f \in Snapshots[d] : profiles[d] = ProfileDataset(f)

(* What the API plans is what it compiled, but for its status, and an      *)
(* approved contract has passed the validator.                             *)
Compiled ==
    caller = "api" /\ phase # "new" =>
        /\ \E extraction \in Extractions, chosen \in {<<>>} \cup SetToSeqs(Datasets) :
              contract = [Compile(extraction, chosen, ProfileOfFirst(chosen))
                             EXCEPT !.status = contract.status]
        /\ Ready(contract) => ~Blocked(contract)

ContractOK ==
    /\ IsFiniteSet(DOMAIN contract.policy)
    /\ \A metric \in contract.metrics : \A field \in metric.fields : IsField(field)

(* The last review was of this requirement, these profiles and this plan.  *)
ReviewedPlan ==
    IF Planned
    THEN /\ Ready(contract)
         /\ plan = Propose(contract, IssuesNow)
         /\ blocking = PlanBlocking(MappingsNow, IssuesNow, plan, Range(approved))
    ELSE approved = <<>> /\ blocking /\ workflow = {}

IntakeInv == /\ caller \in {"api", "library"}
             /\ phase \in {"new", "drafted", "planned", "running", "failed"}
             /\ Profiled
             /\ Compiled
             /\ ContractOK
             /\ ReviewedPlan

(* The node that holds dataset d once the first i rules of a list ran.     *)
Feed(ids, d, i) ==
    LET own == {j \in 1 .. i : ids[j][2] = d}
    IN IF own = {} THEN Source(d) ELSE ids[Max(own)]

Fed(ids, i) == [d \in Datasets |-> Feed(ids, d, i)]

(* The approved rules are steps of their own, in a chain from each source  *)
(* to its readers.                                                         *)
ApprovedOK ==
    /\ approved \in Seq(RuleIds(plan))
    /\ \A i, j \in DOMAIN approved : approved[i] = approved[j] => i = j
    /\ \A i \in DOMAIN approved : Appliable(approved[i])
    /\ caller = "api" => \A i, j \in DOMAIN approved :
          approved[i][1] = "text_clean" /\ approved[j][1] = "dedup" => j < i

Chained ==
    Planned => workflow = {Rewire(step, Fed(approved, Len(approved))) :
                              step \in PlannedWorkflow}
                          \cup {CleaningStep(approved[i], Fed(approved, i - 1)) :
                              i \in DOMAIN approved}

(* A dataset as the first i approved rules leave it.                       *)
Cleaned(d) ==
    LET after[i \in 0 .. Len(approved)] ==
          IF i = 0 THEN sources[d]
          ELSE IF approved[i][2] = d THEN Clean(after[i - 1], approved[i])
          ELSE after[i - 1]
    IN after

Running == phase \in {"running", "failed"}

FramesOfNodes ==
    IF ~Running THEN DOMAIN frames = {}
    ELSE /\ \A d \in Datasets :
              Source(d) \in DOMAIN frames /\ frames[Source(d)] = sources[d]
         /\ \A i \in DOMAIN approved : approved[i] \in DOMAIN frames =>
              frames[approved[i]] = Cleaned(approved[i][2])[i]
         /\ \A name \in DOMAIN Readers : <<"step", name>> \in DOMAIN frames =>
              frames[<<"step", name>>] = [n \in DOMAIN Readers[name] |->
                  Cleaned(Readers[name][n])[Len(approved)]]

(* The API knows the data it starts with, and what has to be cleaned of it.*)
SourcesOK ==
    /\ sources = [d \in Datasets |-> sources[d]]
    /\ \A d \in Datasets : IsFrame(sources[d])
    /\ caller = "api" => \A d \in Datasets : profiles[d] = ProfileDataset(sources[d])
    /\ caller = "api" /\ Running => Unresolved(plan, Range(approved)) = {}

ChainInv == /\ IntakeInv
            /\ SourcesOK
            /\ ApprovedOK
            /\ Chained
            /\ FramesOfNodes
=============================================================================
