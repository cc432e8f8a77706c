----------------------------- MODULE JoinSafety -----------------------------
(***************************************************************************)
(* A join step from its review to its use: JoinSafetyReviewer and          *)
(* orchestrator.review_joins() look at the data the caller profiled, the   *)
(* sources may change, and the run then executes deduplicate, join and     *)
(* aggregate (registry/operations/) on the data as it is by then.          *)
(*                                                                         *)
(* A workflow is [join, dedup, total]:                                     *)
(*   join   [left, right, how, expected, allow]: the key columns of each   *)
(*          side, the kind of join, expected_cardinality (Null when        *)
(*          undeclared) and allow_many_to_many;                            *)
(*   dedup  the deduplicate step between the right source and the join, or *)
(*          Null;                                                          *)
(*   total  the aggregate step after it: [groupBy, sum, control], one sum  *)
(*          of a left column by columns of the right side, control its     *)
(*          reconcile_to or Null.                                          *)
(* Names and sampled evidence are left out; an issue is its severity and   *)
(* code.                                                                   *)
(***************************************************************************)
EXTENDS Frames

CONSTANTS
    Workflows,     \* workflows to review and run
    LeftFrames,    \* the left source when it is profiled
    RightFrames,   \* the right source when it is profiled
    LaterLeft,     \* frames the left source may be replaced with
    LaterRight,    \* frames the right source may be replaced with
    Requests       \* [evidence, given]: what the caller of review_joins() says
                   \* of the keys and the sides it supplies data frames of

ASSUME SidesAssumption ==
    \A f \in LeftFrames \cup RightFrames \cup LaterLeft \cup LaterRight : IsFrame(f)

(* What pydantic takes for a join step, and the column an aggregate adds   *)
(* up: numbers of the left source.                                         *)
ASSUME WorkflowsAssumption ==
    \A w \in Workflows :
        /\ w.join.left \in Seq(Range(w.join.left))
        /\ w.join.right \in Seq(Range(w.join.right))
        /\ w.join.expected \in {Null, "one_to_one", "one_to_many", "many_to_one",
                                "many_to_many"}
        /\ \A f \in LeftFrames \cup LaterLeft :
              /\ w.total.sum \in Columns(f)
              /\ \A v \in Values(f, w.total.sum) : v = Null \/ v \in Int

VARIABLES
    workflow,   \* the workflow
    left,       \* the left source
    right,      \* the right source
    input,      \* what the join reads on its right: a frame, or Null
    review,     \* the answer of review_joins()
    joined,     \* what the join step did
    totals      \* what the aggregate step did

vars == <<workflow, left, right, input, review, joined, totals>>

NotYet == [status |-> "none"]

Step == workflow.join

MustBeUniqueLeft(join) == join.expected \in {"one_to_one", "one_to_many"}

MustBeUniqueRight(join) == join.expected \in {"one_to_one", "many_to_one"}
-----------------------------------------------------------------------------
(* JoinSafetyReviewer.review(): the profiles are those of frames l and r,  *)
(* given says which of the two frames come with them.                      *)
Blocking(code) == [severity |-> "BLOCKING", code |-> code]
Unclear(code)  == [severity |-> "NEEDS_CLARIFICATION", code |-> code]
Warning(code)  == [severity |-> "WARNING", code |-> code]

When(condition, issue) == IF condition THEN {issue} ELSE {}

KeysExist(join, l, r) == /\ Range(join.left) \subseteq Columns(l)
                         /\ Range(join.right) \subseteq Columns(r)

KeysResolved(join, l, r) == /\ join.left # <<>>
                            /\ Len(join.left) = Len(join.right)
                            /\ KeysExist(join, l, r)

(* zip() stops with the shorter list.                                      *)
DtypesDiffer(join, l, r) ==
    \E n \in DOMAIN join.left \cap DOMAIN join.right :
        l.dtype[join.left[n]] # r.dtype[join.right[n]]

KeyIssues(join, l, r) ==
    LET empty == <<>> \in {join.left, join.right}
    IN When(empty, Blocking("NO_JOIN_KEYS"))
       \cup When(~empty /\ Len(join.left) # Len(join.right),
                 Blocking("KEY_COUNT_MISMATCH"))
       \cup When(~KeysExist(join, l, r), Blocking("KEY_MISSING"))
       \cup When(KeysResolved(join, l, r) /\ DtypesDiffer(join, l, r),
                 Blocking("KEY_DTYPE_MISMATCH"))

(* review_joins() never passes ambiguous_key_candidates.                   *)
EvidenceIssues(evidence) == When(evidence = "NAME_SIMILARITY_ONLY",
                                 Blocking("NAME_SIMILARITY_ONLY"))

CardinalityIssues(join) ==
    When(join.expected = Null, Unclear("CARDINALITY_UNDECLARED"))
      \cup When(join.expected = "many_to_many" /\ ~join.allow,
                Blocking("UNAPPROVED_MANY_TO_MANY"))

(* _uniqueness_issues(): the frame decides, else the profile of a single   *)
(* key.                                                                    *)
UniquenessIssues(f, keys, given) ==
    IF given
    THEN When(DuplicateGroups(f, keys) # {}, Blocking("DUPLICATE_KEY"))
    ELSE When(~(Len(keys) = 1 /\ CandidateKey(f, keys[1])),
              Unclear("UNIQUENESS_UNVERIFIED"))

SidesIssues(join, l, r, given) ==
    (IF MustBeUniqueLeft(join)
     THEN UniquenessIssues(l, join.left, "left" \in given) ELSE {})
    \cup (IF MustBeUniqueRight(join)
          THEN UniquenessIssues(r, join.right, "right" \in given) ELSE {})

(* check_join_match_rate()                                                 *)
CheckedRate(join, l, r) ==
    IF Height(l) = 0 THEN <<1, 1>>
    ELSE <<Height(l) - Cardinality(UnmatchedLeft(l, r, join.left, join.right)),
           Height(l)>>

(* check_join_multiplication_factor()                                      *)
CheckedFactor(join, l, r) ==
    IF Height(l) = 0 THEN <<0, 1>>
    ELSE <<Cardinality(Joined(l, r, join.left, join.right, join.how)), Height(l)>>

(* _DEFAULT_MIN_MATCH_RATE and _DEFAULT_MAX_MULTIPLICATION_FACTOR          *)
RateIssues(join, l, r) ==
    When(~AtMost(<<1, 2>>, CheckedRate(join, l, r)), Warning("LOW_MATCH_RATE"))
      \cup When(~AtMost(CheckedFactor(join, l, r), <<2, 1>>),
                Warning("AMPLIFICATION_RISK"))

Severities(issues) == {i.severity : i \in issues}

Decision(issues) ==
    IF "BLOCKING" \in Severities(issues) THEN "REJECT"
    ELSE IF "NEEDS_CLARIFICATION" \in Severities(issues) THEN "CLARIFY"
    ELSE "APPROVE"

(* The rates are observed when both frames are there and the keys are      *)
(* found.  Polars refuses to join keys of different types, so the review   *)
(* of such a step over data raises instead of returning its verdict.       *)
Review(join, request, l, r) ==
    LET measured == /\ KeysResolved(join, l, r)
                    /\ request.given = {"left", "right"}
        issues == KeyIssues(join, l, r)
                    \cup EvidenceIssues(request.evidence)
                    \cup CardinalityIssues(join)
                    \cup (IF KeysResolved(join, l, r) /\ join.expected # Null
                          THEN SidesIssues(join, l, r, request.given) ELSE {})
                    \cup (IF measured THEN RateIssues(join, l, r) ELSE {})
    IN IF measured /\ DtypesDiffer(join, l, r) /\ Height(l) > 0
       THEN [status |-> "raised", cause |-> "SchemaError"]
       ELSE [status |-> "reviewed", decision |-> Decision(issues),
             issues |-> issues, evidence |-> request.evidence,
             measured |-> measured,
             rate |-> IF measured THEN CheckedRate(join, l, r) ELSE Null,
             factor |-> IF measured THEN CheckedFactor(join, l, r) ELSE Null,
             left |-> l, right |-> r]
-----------------------------------------------------------------------------
(* JoinOperation: Params, check_preconditions_join(), run_join().          *)
ParamsValid(join) == /\ join.expected # Null
                     /\ Len(join.left) = Len(join.right)

(* Mutant: the opt-in of a many-to-many join is not asked for.             *)
JoinAcceptsFanOut(join, l, r) ==
    KeysExist(join, l, r) /\ ~DtypesDiffer(join, l, r)

JoinAccepts(join, l, r) ==
    /\ KeysExist(join, l, r)
    /\ ~DtypesDiffer(join, l, r)
    /\ join.expected = "many_to_many" => join.allow

(* _block_on_unexpected_duplicates()                                       *)
UnexpectedDuplicates(join, l, r) ==
    \/ MustBeUniqueLeft(join) /\ DuplicateGroups(l, join.left) # {}
    \/ MustBeUniqueRight(join) /\ DuplicateGroups(r, join.right) # {}

Rate(unmatched, height) ==
    IF height = 0 THEN <<1, 1>> ELSE <<height - Cardinality(unmatched), height>>

Factor(out, in) == IF in > 0 THEN <<out, in>>
                   ELSE IF out = 0 THEN <<0, 1>> ELSE <<1, 0>>

RunJoin(join, l, r) ==
    LET rows == Joined(l, r, join.left, join.right, join.how)
    IN [status |-> "ok", rows |-> rows, left |-> l, right |-> r,
        rate |-> Rate(UnmatchedLeft(l, r, join.left, join.right), Height(l)),
        rateRight |-> Rate(UnmatchedRight(l, r, join.left, join.right), Height(r)),
        factor |-> Factor(Cardinality(rows), Height(l))]

Failed(code) == [status |-> "failed", code |-> code]

(* execute_join(): pydantic's refusal and Polars' of an empty key list are *)
(* no PlatformErrors.                                                      *)
ExecuteJoin(join, l, r) ==
    IF ~ParamsValid(join) THEN Failed("exception")
    ELSE IF ~JoinAccepts(join, l, r) THEN Failed("VALIDATION_FAIL")
    ELSE IF join.left = <<>> THEN Failed("exception")
    ELSE IF UnexpectedDuplicates(join, l, r) THEN Failed("DATA_QUALITY_BLOCK")
    ELSE RunJoin(join, l, r)
-----------------------------------------------------------------------------
(* AggregateOperation over the joined rows.                                *)
JoinedValue(j, pair, c) ==
    IF c \in Columns(j.left)
    THEN IF pair[1] = 0 THEN Null ELSE Value(j.left, pair[1], c)
    ELSE IF pair[2] = 0 THEN Null ELSE Value(j.right, pair[2], c)

Group(j, pair, groupBy) == [n \in DOMAIN groupBy |-> JoinedValue(j, pair, groupBy[n])]

SumOver(j, pairs, c) ==
    MapThenSumSet(LAMBDA pair : Number(JoinedValue(j, pair, c)), pairs)

(* Mutant: rows without a group are dropped.                               *)
GroupSumsOfMatched(j, t) ==
    [g \in {Group(j, pair, t.groupBy) : pair \in {p \in j.rows : p[2] # 0}} |->
        SumOver(j, {pair \in j.rows : Group(j, pair, t.groupBy) = g}, t.sum)]

(* group_by().agg(): the rows without a group form one of their own.       *)
GroupSums(j, t) ==
    [g \in {Group(j, pair, t.groupBy) : pair \in j.rows} |->
        SumOver(j, {pair \in j.rows : Group(j, pair, t.groupBy) = g}, t.sum)]

(* Polars and DuckDB add up the same numbers: the dual computation agrees. *)
Aggregate(j, t) ==
    IF ~(Range(t.groupBy) \cup {t.sum} \subseteq Columns(j.left) \cup Columns(j.right))
    THEN Failed("VALIDATION_FAIL")
    ELSE IF t.control \notin {Null, SumOver(j, j.rows, t.sum)}
    THEN Failed("RECONCILIATION_FAIL")
    ELSE [status |-> "ok", groups |-> GroupSums(j, t)]

(* check_conservation(agg="sum") and check_row_count_conservation(), from  *)
(* the left source to the joined frame.                                    *)
SumConserved(j, c) == SumOver(j, j.rows, c) = Total(j.left, c)

RowsConserved(j) == Cardinality(j.rows) >= Height(j.left)
-----------------------------------------------------------------------------
Init == /\ workflow \in Workflows
        /\ left \in LeftFrames
        /\ right \in RightFrames
        /\ input = Null
        /\ review = NotYet
        /\ joined = NotYet
        /\ totals = NotYet

(* The run has not read its sources yet.                                   *)
NotStarted == input = Null /\ joined = NotYet

(* What a deduplicate step may answer; empty when it refuses.              *)
DedupResults == IF DeduplicateAccepts(right, workflow.dedup)
                THEN Deduplicated(right, workflow.dedup) ELSE {}

(* What the join may read on its right.                                    *)
Inputs == IF workflow.dedup = Null THEN {right} ELSE DedupResults

(* orchestrator.review_joins(), once, before the start.  The caller holds  *)
(* the profiles of the sources; of another step's output only if it made   *)
(* one itself.  A step whose inputs are not both profiled is skipped.      *)
ReviewJoins ==
    /\ NotStarted
    /\ review = NotYet
    /\ \E request \in Requests :
         \/ /\ workflow.dedup # Null
            /\ review' = [status |-> "skipped"]
         \/ \E r \in Inputs :
              review' = IF request.evidence = Null
                        THEN [status |-> "raised", cause |-> "SCHEMA_MISSING"]
                        ELSE Review(Step, request, left, r)
    /\ UNCHANGED <<workflow, left, right, input, joined, totals>>

(* A new snapshot of a source after the review and before the start.       *)
SourceChanges ==
    /\ NotStarted
    /\ review # NotYet
    /\ \/ left' \in LaterLeft /\ right' = right
       \/ right' \in LaterRight /\ left' = left
    /\ UNCHANGED <<workflow, input, review, joined, totals>>

(* From here on the sources are locked.                                    *)
Deduplicate ==
    /\ NotStarted
    /\ workflow.dedup # Null
    /\ \/ DedupResults = {} /\ joined' = Failed("VALIDATION_FAIL") /\ input' = input
       \/ input' \in DedupResults /\ joined' = joined
    /\ UNCHANGED <<workflow, left, right, review, totals>>

Join ==
    /\ joined = NotYet
    /\ workflow.dedup # Null => input # Null
    /\ input' = IF workflow.dedup = Null THEN right ELSE input
    /\ joined' = ExecuteJoin(Step, left, input')
    /\ UNCHANGED <<workflow, left, right, review, totals>>

AggregateJoined ==
    /\ joined.status = "ok"
    /\ totals = NotYet
    /\ totals' = Aggregate(joined, workflow.total)
    /\ UNCHANGED <<workflow, left, right, input, review, joined>>

Next == ReviewJoins \/ SourceChanges \/ Deduplicate \/ Join \/ AggregateJoined

Spec == Init /\ [][Next]_vars
-----------------------------------------------------------------------------
TypeOK == /\ workflow \in Workflows
          /\ left \in LeftFrames \cup LaterLeft
          /\ right \in RightFrames \cup LaterRight
          /\ review.status \in {"none", "skipped", "raised", "reviewed"}
          /\ joined.status \in {"none", "ok", "failed"}
          /\ totals.status \in {"none", "ok", "failed"}
          /\ totals # NotYet => joined.status = "ok"
          /\ joined.status = "ok" =>
               joined.rows \subseteq ((0 .. Height(left)) \X (0 .. Height(input)))

Reviewed == review.status = "reviewed"

Executed == joined.status = "ok"

(* The join reads what the reviewer saw.                                   *)
AsReviewed == joined # NotYet /\ input # Null
                /\ review.left = left /\ review.right = input

(* What the reviewer says holds of the run: on the data it saw, an         *)
(* approved join runs, and one rejected for more than the way its keys     *)
(* were chosen does not.  The reviewer proves uniqueness from profiles,    *)
(* the run from groups.                                                    *)
DecisionsHold ==
    Reviewed /\ AsReviewed =>
        /\ review.decision = "APPROVE" => Executed
        /\ Executed /\ review.evidence # "NAME_SIMILARITY_ONLY" =>
             review.decision # "REJECT"

PartnersOf(i) == {pair \in joined.rows : pair[1] = i}

Partners(j) == {pair \in joined.rows : pair[2] = j}

(* Rows multiply only as the step declares, whatever became of the data    *)
(* since the review.  A side declared unique multiplies no row of the      *)
(* other, and both sides repeat rows only in a join opted in to            *)
(* many-to-many: a one-to-many join that hit duplicates on its one side    *)
(* failed before it wrote a row.                                           *)
RowsMultiplyAsDeclared ==
    Executed =>
        /\ MustBeUniqueRight(Step) =>
             \A i \in DOMAIN left.rows : Cardinality(PartnersOf(i)) <= 1
        /\ MustBeUniqueLeft(Step) =>
             \A j \in DOMAIN input.rows : Cardinality(Partners(j)) <= 1
        /\ \/ Step.expected = "many_to_many" /\ Step.allow
           \/ \A i \in DOMAIN left.rows : Cardinality(PartnersOf(i)) <= 1
           \/ \A j \in DOMAIN input.rows : Cardinality(Partners(j)) <= 1

(* A left join to a unique side keeps every row and every amount of the    *)
(* left source, and the groups of an aggregate behind any join that        *)
(* reconciled with a control total add up to it: amounts lost or           *)
(* multiplied on the way are never reported under the total of the source. *)
SumsSurviveTheJoin ==
    LET sum == MapThenSumSet(LAMBDA g : totals.groups[g], DOMAIN totals.groups)
        keeps == Executed /\ MustBeUniqueRight(Step) /\ Step.how = "left"
    IN /\ keeps => /\ SumConserved(joined, workflow.total.sum)
                   /\ RowsConserved(joined)
                   /\ \A i \in DOMAIN left.rows : PartnersOf(i) # {}
                   /\ Height(left) > 0 => SameRate(joined.factor, <<1, 1>>)
       /\ totals.status = "ok" =>
             /\ workflow.total.control \in {Null, sum}
             /\ sum = IF keeps THEN Total(left, workflow.total.sum)
                             ELSE SumOver(joined, joined.rows, workflow.total.sum)

(* A deduplicate step on the join's right keys is enough for the join to   *)
(* find that side unique, keeps each key the source has, and the latest    *)
(* row of it when it is asked to order by a column and keep the last.      *)
DeduplicatedKeysAreUnique ==
    LET dedup == workflow.dedup
        latest(r) == \A i \in WithKey(right, dedup.keys,
                                      [n \in DOMAIN dedup.keys |-> r[dedup.keys[n]]]) :
                        \/ Value(right, i, dedup.orderBy) = Null
                        \/ /\ r[dedup.orderBy] # Null
                           /\ Value(right, i, dedup.orderBy) <= r[dedup.orderBy]
    IN dedup # Null /\ input # Null =>
        /\ dedup.keys = Step.right /\ Executed =>
             \A i \in DOMAIN left.rows : Cardinality(PartnersOf(i)) <= 1
        /\ joined = Failed("DATA_QUALITY_BLOCK") =>
             DuplicateGroups(left, Step.left) # {} \/ dedup.keys # Step.right
        /\ KeysOf(input, dedup.keys) = KeysOf(right, dedup.keys)
        /\ dedup.orderBy # Null /\ dedup.keep = "last" =>
             \A r \in Rows(input) : latest(r)
-----------------------------------------------------------------------------
(* The inductive invariant: where the review, the join and the totals come *)
(* from, and that the data does not change once the run has started.       *)

SourcesOK == /\ workflow \in Workflows
             /\ left \in LeftFrames \cup LaterLeft
             /\ right \in RightFrames \cup LaterRight

ReviewOK ==
    /\ review.status \in {"none", "skipped", "raised", "reviewed"}
    /\ Reviewed =>
          /\ IsFrame(review.left) /\ IsFrame(review.right)
          /\ \E request \in Requests :
                review = Review(Step, request, review.left, review.right)

JoinedOK ==
    \/ joined = NotYet /\ (input = Null \/ input \in Inputs)
    \/ joined = Failed("VALIDATION_FAIL") /\ input = Null /\ workflow.dedup # Null
    \/ joined = ExecuteJoin(Step, left, input) /\ input \in Inputs

TotalsOK == totals # NotYet => Executed /\ totals = Aggregate(joined, workflow.total)

JoinInv == SourcesOK /\ ReviewOK /\ JoinedOK /\ TotalsOK
=============================================================================
