--------------------------- MODULE JoinSafetyProofs ---------------------------
(***************************************************************************)
(* What a join review promises and a join keeps: for every workflow, every *)
(* pair of sources and every later snapshot of them.                       *)
(***************************************************************************)
EXTENDS JoinSafety, FramesProofs

(* What is read and what is answered.                                      *)
LEMMA SidesAreFrames ==
    ASSUME SourcesOK
    PROVE  IsFrame(left) /\ IsFrame(right)
BY SidesAssumption DEF SourcesOK

LEMMA InputsAreFrames ==
    ASSUME SourcesOK, NEW r \in Inputs
    PROVE  IsFrame(r)
<1>1. CASE workflow.dedup = Null
  BY <1>1, SidesAreFrames DEF Inputs
<1>2. CASE workflow.dedup # Null
  <2>1. r \in Deduplicated(right, workflow.dedup)
    BY <1>2 DEF Inputs, DedupResults
  <2>2. IsFrame(right)
    BY SidesAreFrames
  <2>3. PICK P \in SUBSET (DOMAIN right.rows) : r = RowsAt(right, P)
    BY <2>1, <2>2, DeduplicatedFacts
  <2>4. QED
    BY <2>2, <2>3, RowsAtFacts
<1>3. QED
  BY <1>1, <1>2

LEMMA ReviewIs ==
    ASSUME NEW join, NEW request, NEW l, NEW r
    PROVE  LET answer == Review(join, request, l, r)
           IN  /\ answer.status \in {"raised", "reviewed"}
               /\ answer.status = "reviewed" => answer.left = l /\ answer.right = r
BY DEF Review

(* The inductive invariant, one lemma for each action.                     *)
LEMMA JoinInit == Init => JoinInv
BY DEF Init, JoinInv, SourcesOK, ReviewOK, JoinedOK, TotalsOK, NotYet, Reviewed

LEMMA ReviewStep == JoinInv /\ ReviewJoins => JoinInv'
<1> SUFFICES ASSUME JoinInv, ReviewJoins PROVE JoinInv'
  OBVIOUS
<1>1. SourcesOK' /\ JoinedOK' /\ TotalsOK'
  BY DEF JoinInv, ReviewJoins, SourcesOK, JoinedOK, TotalsOK, Inputs, DedupResults, Step,
         Executed
<1>2. ReviewOK'
  <2>1. PICK request \in Requests :
          \/ review' = [status |-> "skipped"]
          \/ \E r \in Inputs :
               review' = IF request.evidence = Null
                         THEN [status |-> "raised", cause |-> "SCHEMA_MISSING"]
                         ELSE Review(Step, request, left, r)
    BY DEF ReviewJoins
  <2>2. CASE review'.status \in {"skipped", "raised"}
    BY <2>2 DEF ReviewOK, Reviewed
  <2>3. ASSUME NEW r \in Inputs, review' = Review(Step, request, left, r) PROVE ReviewOK'
    <3>1. IsFrame(left) /\ IsFrame(r)
      BY SidesAreFrames, InputsAreFrames DEF JoinInv
    <3>2. workflow' = workflow
      BY DEF ReviewJoins
    <3>3. /\ review'.status \in {"raised", "reviewed"}
          /\ review'.status = "reviewed" => review'.left = left /\ review'.right = r
      BY <2>3, ReviewIs
    <3>4. QED
      BY <2>3, <3>1, <3>2, <3>3 DEF ReviewOK, Reviewed, Step
  <2>4. QED
    BY <2>1, <2>2, <2>3
<1>3. QED
  BY <1>1, <1>2 DEF JoinInv

LEMMA SourceStep == JoinInv /\ SourceChanges => JoinInv'
BY DEF JoinInv, SourceChanges, NotStarted, SourcesOK, ReviewOK, JoinedOK, TotalsOK,
       Reviewed, Executed, Step, NotYet, Failed, RunJoin, ExecuteJoin

LEMMA DeduplicateStep == JoinInv /\ Deduplicate => JoinInv'
BY DEF JoinInv, Deduplicate, NotStarted, SourcesOK, ReviewOK, JoinedOK, TotalsOK,
       Reviewed, Executed, Step, Inputs, DedupResults, NotYet

LEMMA JoinStep == JoinInv /\ Join => JoinInv'
BY DEF JoinInv, Join, SourcesOK, ReviewOK, JoinedOK, TotalsOK,
       Reviewed, Executed, Step, Inputs, DedupResults, NotYet

LEMMA AggregateStep == JoinInv /\ AggregateJoined => JoinInv'
BY DEF JoinInv, AggregateJoined, SourcesOK, ReviewOK, JoinedOK, TotalsOK,
       Reviewed, Executed, Step, Inputs, DedupResults

LEMMA JoinInductive == JoinInv /\ [Next]_vars => JoinInv'
<1> SUFFICES ASSUME JoinInv, [Next]_vars PROVE JoinInv'
  OBVIOUS
<1>1. CASE UNCHANGED vars
  BY <1>1 DEF vars, JoinInv, SourcesOK, ReviewOK, JoinedOK, TotalsOK, Reviewed, Executed,
              Step, Inputs, DedupResults
<1>2. CASE Next
  BY <1>2, ReviewStep, SourceStep, DeduplicateStep, JoinStep, AggregateStep DEF Next
<1>3. QED
  BY <1>1, <1>2

(* The review, the join and the totals are of the data they were given,    *)
(* and the data does not change between them once the run has started.     *)
THEOREM JoinInvariance == Spec => []JoinInv
BY JoinInit, JoinInductive, PTL DEF Spec
-----------------------------------------------------------------------------
(* What a join ran on.                                                     *)
LEMMA RunFacts ==
    ASSUME JoinInv, Executed
    PROVE  /\ joined = RunJoin(Step, left, input) /\ input \in Inputs
           /\ IsFrame(left) /\ IsFrame(right) /\ IsFrame(input)
           /\ ParamsValid(Step) /\ JoinAccepts(Step, left, input)
           /\ Step.left # <<>> /\ ~UnexpectedDuplicates(Step, left, input)
<1>1. joined = ExecuteJoin(Step, left, input) /\ input \in Inputs
  BY DEF JoinInv, JoinedOK, Executed, NotYet, Failed
<1>2. /\ ParamsValid(Step) /\ JoinAccepts(Step, left, input)
      /\ Step.left # <<>> /\ ~UnexpectedDuplicates(Step, left, input)
      /\ joined = RunJoin(Step, left, input)
  BY <1>1 DEF ExecuteJoin, Executed, Failed
<1>3. QED
  BY <1>1, <1>2, SidesAreFrames, InputsAreFrames DEF JoinInv

LEMMA ExecutedFacts ==
    ASSUME JoinInv, Executed
    PROVE  /\ joined.rows = Joined(left, input, Step.left, Step.right, Step.how)
           /\ joined.left = left /\ joined.right = input
           /\ joined.rate = Rate(UnmatchedLeft(left, input, Step.left, Step.right),
                                 Height(left))
           /\ joined.factor = Factor(Cardinality(joined.rows), Height(left))
BY RunFacts DEF RunJoin

(* The rows of a join.                                                     *)
LEMMA JoinedPairs ==
    ASSUME NEW l, IsFrame(l), NEW r, IsFrame(r), NEW lk, NEW rk, NEW how,
           NEW pair \in Joined(l, r, lk, rk, how)
    PROVE  /\ pair = <<pair[1], pair[2]>>
           /\ pair \in (0 .. Height(l)) \X (0 .. Height(r))
           /\ \/ /\ pair[1] \in DOMAIN l.rows /\ pair[2] \in DOMAIN r.rows
                 /\ Key(l, pair[1], lk) = Key(r, pair[2], rk)
                 /\ pair \in Matched(l, r, lk, rk)
              \/ pair[1] \in UnmatchedLeft(l, r, lk, rk) /\ pair[2] = 0
              \/ pair[1] = 0 /\ pair[2] \in UnmatchedRight(l, r, lk, rk) /\ how # "left"
<1> DEFINE L == DOMAIN l.rows
           R == DOMAIN r.rows
<1>1. /\ Height(l) \in Nat /\ L = 1 .. Height(l)
      /\ Height(r) \in Nat /\ R = 1 .. Height(r)
  BY FrameFacts
<1>2. /\ L \subseteq 0 .. Height(l) /\ 0 \in 0 .. Height(l)
      /\ R \subseteq 0 .. Height(r) /\ 0 \in 0 .. Height(r)
  BY <1>1
<1>3. CASE pair \in Matched(l, r, lk, rk)
  BY <1>2, <1>3 DEF Matched
<1>4. CASE pair \in UnmatchedLeft(l, r, lk, rk) \X {0}
  BY <1>2, <1>4 DEF UnmatchedLeft
<1>5. CASE pair \in {0} \X UnmatchedRight(l, r, lk, rk) /\ how # "left"
  BY <1>2, <1>5 DEF UnmatchedRight
<1>6. QED
  BY <1>3, <1>4, <1>5 DEF Joined

LEMMA JoinInvTypeOK == JoinInv => TypeOK
<1> SUFFICES ASSUME JoinInv PROVE TypeOK
  OBVIOUS
<1>1. joined.status \in {"none", "ok", "failed"}
  BY DEF JoinInv, JoinedOK, NotYet, Failed, ExecuteJoin, RunJoin
<1>2. totals.status \in {"none", "ok", "failed"}
  BY DEF JoinInv, TotalsOK, NotYet, Aggregate, Failed
<1>3. ASSUME Executed
      PROVE  joined.rows \subseteq ((0 .. Height(left)) \X (0 .. Height(input)))
  BY <1>3, RunFacts, ExecutedFacts, JoinedPairs
<1>4. QED
  BY <1>1, <1>2, <1>3 DEF TypeOK, JoinInv, SourcesOK, ReviewOK, TotalsOK, Executed

(* The types, and that a join pairs rows of the sides it reads.            *)
THEOREM JoinTypeCorrectness == Spec => []TypeOK
BY JoinInvTypeOK, JoinInvariance, PTL
-----------------------------------------------------------------------------
(* Unique keys.                                                            *)
UniqueKeys(f, keys) ==
    \A i, j \in DOMAIN f.rows : Key(f, i, keys) = Key(f, j, keys) => i = j

LEMMA UniqueIsNoDuplicates ==
    ASSUME NEW f, IsFrame(f), NEW keys
    PROVE  UniqueKeys(f, keys) <=> DuplicateGroups(f, keys) = {}
<1>1. IsFiniteSet(DOMAIN f.rows)
  BY FrameFacts
<1>2. \A k : IsFiniteSet(WithKey(f, keys, k))
  BY <1>1, FS_Subset DEF WithKey
<1>3. ASSUME DuplicateGroups(f, keys) = {}, NEW i \in DOMAIN f.rows, NEW j \in DOMAIN f.rows,
             Key(f, i, keys) = Key(f, j, keys)
      PROVE  i = j
  <2> DEFINE group == WithKey(f, keys, Key(f, i, keys))
  <2>1. i \in group /\ j \in group
    BY <1>3 DEF WithKey
  <2>2. ~(Cardinality(group) > 1)
    BY <1>3 DEF DuplicateGroups, KeysOf
  <2>3. IsFiniteSet(group)
    BY <1>2
  <2> HIDE DEF group
  <2>4. \E x : group = {x}
    BY <2>1, <2>2, <2>3, AtMostOneElement
  <2>5. QED
    BY <2>1, <2>4
<1>4. ASSUME UniqueKeys(f, keys), NEW k \in DuplicateGroups(f, keys) PROVE FALSE
  <2>1. PICK i \in DOMAIN f.rows : k = Key(f, i, keys)
    BY DEF DuplicateGroups, KeysOf
  <2>2. WithKey(f, keys, k) = {i}
    BY <1>4, <2>1 DEF UniqueKeys, WithKey
  <2>3. Cardinality(WithKey(f, keys, k)) = 1
    BY <2>2, FS_Singleton
  <2>4. QED
    BY <2>3 DEF DuplicateGroups
<1>5. QED
  BY <1>3, <1>4 DEF UniqueKeys

(* What the profile calls a candidate key has as many values as rows.      *)
LEMMA CandidateIsUnique ==
    ASSUME NEW f, IsFrame(f), NEW keys, keys \in Seq(Range(keys)), Len(keys) = 1,
           CandidateKey(f, keys[1])
    PROVE  UniqueKeys(f, keys)
<1> DEFINE positions == 1 .. Height(f)
           value == [i \in positions |-> f.rows[i][keys[1]]]
<1>1. Height(f) \in Nat /\ DOMAIN f.rows = positions /\ IsFiniteSet(positions)
      /\ Rows(f) = {f.rows[i] : i \in positions}
  BY FrameFacts
<1>2. Cardinality(positions) = Height(f)
  BY <1>1, FS_Interval
<1>3. Values(f, keys[1]) = {value[i] : i \in positions}
  BY <1>1 DEF Values
<1>4. value = [i \in positions |-> value[i]]
  OBVIOUS
<1>5. \A i \in positions : value[i] = f.rows[i][keys[1]]
  OBVIOUS
<1>6. Cardinality(Values(f, keys[1])) = Height(f)
  BY DEF CandidateKey
<1> HIDE DEF value, positions
<1>7. Cardinality({value[i] : i \in positions}) = Cardinality(positions)
  BY <1>2, <1>3, <1>6
<1>8. \A i, j \in positions : value[i] = value[j] => i = j
  BY <1>1, <1>4, <1>7, FiniteImage
<1>9. ASSUME NEW i \in positions, NEW j \in positions, Key(f, i, keys) = Key(f, j, keys)
      PROVE  i = j
  <2>1. 1 \in DOMAIN keys
    OBVIOUS
  <2>2. Key(f, i, keys)[1] = value[i] /\ Key(f, j, keys)[1] = value[j]
    BY <1>5, <2>1 DEF Key, Value
  <2>3. QED
    BY <1>8, <1>9, <2>2
<1>10. QED
  BY <1>1, <1>9 DEF UniqueKeys

(* Deduplication leaves one row of each key, that of a row which may stay. *)
LEMMA DeduplicatedIsUnique ==
    ASSUME NEW f, IsFrame(f), NEW p, NEW out \in Deduplicated(f, p)
    PROVE  /\ IsFrame(out) /\ UniqueKeys(out, p.keys)
           /\ KeysOf(out, p.keys) = KeysOf(f, p.keys)
           /\ \A r \in Rows(out) : \E i \in DOMAIN f.rows : r = f.rows[i] /\ MayBeKept(f, p, i)
<1>1. PICK P \in SUBSET (DOMAIN f.rows) :
          /\ out = RowsAt(f, P)
          /\ \A i \in P : MayBeKept(f, p, i)
          /\ \A i \in DOMAIN f.rows : \E j \in P : Key(f, j, p.keys) = Key(f, i, p.keys)
          /\ \A i, j \in P : Key(f, i, p.keys) = Key(f, j, p.keys) => i = j
  BY DeduplicatedFacts
<1> DEFINE n == Cardinality(P)
<1>2. /\ IsFrame(out) /\ Height(out) = n /\ Rows(out) = {f.rows[i] : i \in P}
      /\ \E at \in [1 .. n -> P] :
           \A m \in 1 .. n : /\ out.rows[m] = f.rows[at[m]]
                             /\ \A i \in 1 .. n : at[i] = at[m] => i = m
  BY <1>1, RowsAtFacts
<1>3. DOMAIN out.rows = 1 .. n
  BY <1>2, FrameFacts
<1> HIDE DEF n
<1>4. PICK at \in [1 .. n -> P] :
          \A m \in 1 .. n : /\ out.rows[m] = f.rows[at[m]]
                            /\ \A i \in 1 .. n : at[i] = at[m] => i = m
  BY <1>2
<1>5. \A m \in 1 .. n : at[m] \in P /\ Key(out, m, p.keys) = Key(f, at[m], p.keys)
  BY <1>4 DEF Key, Value
<1>6. UniqueKeys(out, p.keys)
  <2>1. ASSUME NEW i \in 1 .. n, NEW m \in 1 .. n, Key(out, i, p.keys) = Key(out, m, p.keys)
        PROVE  i = m
    <3>1. at[i] = at[m]
      BY <1>1, <1>5, <2>1
    <3>2. QED
      BY <1>4, <3>1
  <2>2. QED
    BY <1>3, <2>1 DEF UniqueKeys
<1>7. KeysOf(out, p.keys) = KeysOf(f, p.keys)
  <2>1. ASSUME NEW k \in KeysOf(out, p.keys) PROVE k \in KeysOf(f, p.keys)
    BY <1>3, <1>5 DEF KeysOf
  <2>2. ASSUME NEW k \in KeysOf(f, p.keys) PROVE k \in KeysOf(out, p.keys)
    <3>1. PICK j \in P : k = Key(f, j, p.keys)
      BY <1>1 DEF KeysOf
    <3>2. f.rows[j] \in Rows(out)
      BY <1>2
    <3>3. PICK m \in DOMAIN out.rows : out.rows[m] = f.rows[j]
      BY <3>2 DEF Rows, Range
    <3>4. Key(out, m, p.keys) = k
      BY <3>1, <3>3 DEF Key, Value
    <3>5. QED
      BY <3>4 DEF KeysOf
  <2>3. QED
    BY <2>1, <2>2
<1>8. \A r \in Rows(out) : \E i \in DOMAIN f.rows : r = f.rows[i] /\ MayBeKept(f, p, i)
  BY <1>1, <1>2
<1>9. QED
  BY <1>2, <1>6, <1>7, <1>8
-----------------------------------------------------------------------------
(* The review speaks of the run.                                           *)
LEMMA ReviewedFacts ==
    ASSUME JoinInv, Reviewed, AsReviewed
    PROVE  \E request \in Requests :
              /\ review = Review(Step, request, left, input)
              /\ review.status = "reviewed"
BY DEF JoinInv, ReviewOK, Reviewed, AsReviewed

LEMMA DecisionFacts ==
    ASSUME NEW issues
    PROVE  /\ Decision(issues) = "APPROVE" =>
                \A i \in issues : i.severity \notin {"BLOCKING", "NEEDS_CLARIFICATION"}
           /\ Decision(issues) = "REJECT" => \E i \in issues : i.severity = "BLOCKING"
BY DEF Decision, Severities

LEMMA InvDecisionsHold == JoinInv => DecisionsHold
<1> SUFFICES ASSUME JoinInv, Reviewed, AsReviewed
             PROVE  /\ review.decision = "APPROVE" => Executed
                    /\ Executed /\ review.evidence # "NAME_SIMILARITY_ONLY" =>
                         review.decision # "REJECT"
  BY DEF DecisionsHold
<1>1. PICK request \in Requests :
          review = Review(Step, request, left, input) /\ review.status = "reviewed"
  BY ReviewedFacts
<1> DEFINE join     == Step
           resolved == KeysResolved(join, left, input)
           sides    == IF resolved /\ join.expected # Null
                       THEN SidesIssues(join, left, input, request.given) ELSE {}
           rates    == IF resolved /\ request.given = {"left", "right"}
                       THEN RateIssues(join, left, input) ELSE {}
           issues   == KeyIssues(join, left, input) \cup EvidenceIssues(request.evidence)
                         \cup CardinalityIssues(join) \cup sides \cup rates
<1>2. review.decision = Decision(issues) /\ review.evidence = request.evidence
  BY <1>1 DEF Review
<1>3. input \in Inputs /\ IsFrame(left) /\ IsFrame(input)
  <2>1. input \in Inputs
    BY DEF AsReviewed, JoinInv, JoinedOK
  <2>2. QED
    BY <2>1, SidesAreFrames, InputsAreFrames DEF JoinInv
<1>4. join.left \in Seq(Range(join.left)) /\ join.right \in Seq(Range(join.right))
  BY WorkflowsAssumption DEF Step, JoinInv, SourcesOK
<1>5. ASSUME review.decision = "APPROVE" PROVE Executed
  <2>1. \A i \in issues : i.severity \notin {"BLOCKING", "NEEDS_CLARIFICATION"}
    BY <1>2, <1>5, DecisionFacts
  <2>2. /\ KeyIssues(join, left, input) = {} /\ CardinalityIssues(join) = {}
    BY <2>1 DEF KeyIssues, CardinalityIssues, When, Blocking, Unclear
  <2>3. join.expected # Null /\ (join.expected = "many_to_many" => join.allow)
    BY <2>2 DEF CardinalityIssues, When, Unclear, Blocking
  <2>4. /\ join.left # <<>> /\ Len(join.left) = Len(join.right)
        /\ KeysExist(join, left, input)
    BY <2>2 DEF KeyIssues, When, Blocking
  <2>5. resolved /\ ~DtypesDiffer(join, left, input)
    BY <2>2, <2>4 DEF KeyIssues, KeysResolved, When, Blocking
  <2>6. \A i \in SidesIssues(join, left, input, request.given) :
            i.severity \notin {"BLOCKING", "NEEDS_CLARIFICATION"}
    BY <2>1, <2>3, <2>5
  <2>7. ASSUME NEW f, IsFrame(f), NEW keys, keys \in Seq(Range(keys)), NEW given,
               \A i \in UniquenessIssues(f, keys, given) :
                  i.severity \notin {"BLOCKING", "NEEDS_CLARIFICATION"}
        PROVE  DuplicateGroups(f, keys) = {}
    <3>1. CASE given
      BY <2>7, <3>1 DEF UniquenessIssues, When, Blocking
    <3>2. CASE ~given
      <4>1. Len(keys) = 1 /\ CandidateKey(f, keys[1])
        BY <2>7, <3>2 DEF UniquenessIssues, When, Unclear
      <4>2. QED
        BY <2>7, <4>1, CandidateIsUnique, UniqueIsNoDuplicates
    <3>3. QED
      BY <3>1, <3>2
  <2>8. MustBeUniqueLeft(join) => DuplicateGroups(left, join.left) = {}
    BY <1>3, <1>4, <2>6, <2>7 DEF SidesIssues
  <2>9. MustBeUniqueRight(join) => DuplicateGroups(input, join.right) = {}
    BY <1>3, <1>4, <2>6, <2>7 DEF SidesIssues
  <2>10. /\ ParamsValid(join) /\ JoinAccepts(join, left, input)
         /\ ~UnexpectedDuplicates(join, left, input)
    BY <2>3, <2>4, <2>5, <2>8, <2>9 DEF ParamsValid, JoinAccepts, UnexpectedDuplicates
  <2>11. ExecuteJoin(join, left, input).status = "ok"
    BY <2>4, <2>10 DEF ExecuteJoin, RunJoin
  <2>12. joined = ExecuteJoin(join, left, input)
    BY DEF AsReviewed, JoinInv, JoinedOK
  <2>13. QED
    BY <2>11, <2>12 DEF Executed
<1>6. ASSUME Executed, review.evidence # "NAME_SIMILARITY_ONLY"
      PROVE  review.decision # "REJECT"
  <2>1. /\ ParamsValid(join) /\ JoinAccepts(join, left, input)
        /\ join.left # <<>> /\ ~UnexpectedDuplicates(join, left, input)
    BY <1>6, RunFacts
  <2>2. \A i \in KeyIssues(join, left, input) : i.severity # "BLOCKING"
    <3>1. join.right # <<>>
      BY <1>4, <2>1 DEF ParamsValid
    <3>2. QED
      BY <2>1, <3>1 DEF KeyIssues, When, Blocking, ParamsValid, JoinAccepts, KeysResolved
  <2>3. \A i \in EvidenceIssues(request.evidence) : i.severity # "BLOCKING"
    BY <1>2, <1>6 DEF EvidenceIssues, When
  <2>4. \A i \in CardinalityIssues(join) : i.severity # "BLOCKING"
    BY <2>1 DEF CardinalityIssues, When, Unclear, Blocking, JoinAccepts
  <2>5. \A i \in sides : i.severity # "BLOCKING"
    BY <2>1 DEF SidesIssues, UniquenessIssues, When, Unclear, Blocking, UnexpectedDuplicates
  <2>6. \A i \in rates : i.severity # "BLOCKING"
    BY DEF RateIssues, When, Warning
  <2>7. \A i \in issues : i.severity # "BLOCKING"
    BY <2>2, <2>3, <2>4, <2>5, <2>6
  <2>8. QED
    BY <1>2, <2>7, DecisionFacts
<1>7. QED
  BY <1>5, <1>6

(* An approved join runs on the data that was reviewed, and one rejected   *)
(* for more than its evidence does not.                                    *)
THEOREM DecisionsSafety == Spec => []DecisionsHold
BY InvDecisionsHold, JoinInvariance, PTL

-----------------------------------------------------------------------------
(* A side with unique keys gives a row of the other one partner at most.   *)
LEMMA AtMostOne == ASSUME NEW S, \A x, y \in S : x = y PROVE Cardinality(S) <= 1
<1>1. CASE S = {}
  BY <1>1, FS_EmptySet
<1>2. CASE S # {}
  <2>1. PICK x \in S : S = {x}
    BY <1>2
  <2>2. Cardinality(S) = 1
    BY <2>1, FS_Singleton
  <2>3. QED
    BY <2>2
<1>3. QED
  BY <1>1, <1>2

LEMMA OnePartner ==
    ASSUME NEW l, IsFrame(l), NEW r, IsFrame(r), NEW lk, NEW rk, NEW how,
           UniqueKeys(r, rk), NEW i \in DOMAIN l.rows
    PROVE  \A p, q \in Joined(l, r, lk, rk, how) : p[1] = i /\ q[1] = i => p = q
<1> SUFFICES ASSUME NEW p \in Joined(l, r, lk, rk, how), NEW q \in Joined(l, r, lk, rk, how),
                    p[1] = i, q[1] = i
             PROVE  p = q
  OBVIOUS
<1>1. i # 0
  <2>1. DOMAIN l.rows = 1 .. Height(l)
    BY FrameFacts
  <2>2. QED
    BY <2>1
<1> DEFINE Kind(t) == \/ /\ t[1] \in DOMAIN l.rows /\ t[2] \in DOMAIN r.rows
                         /\ Key(l, t[1], lk) = Key(r, t[2], rk)
                         /\ t \in Matched(l, r, lk, rk)
                      \/ t[1] \in UnmatchedLeft(l, r, lk, rk) /\ t[2] = 0
<1>2. /\ p = <<p[1], p[2]>> /\ q = <<q[1], q[2]>>
      /\ Kind(p) /\ Kind(q)
  BY <1>1, JoinedPairs
<1>3. p[2] = q[2]
  BY <1>2 DEF UniqueKeys, UnmatchedLeft
<1>4. QED
  BY <1>2, <1>3

LEMMA OnePartnerLeft ==
    ASSUME NEW l, IsFrame(l), NEW r, IsFrame(r), NEW lk, NEW rk, NEW how,
           UniqueKeys(l, lk), NEW j \in DOMAIN r.rows
    PROVE  \A p, q \in Joined(l, r, lk, rk, how) : p[2] = j /\ q[2] = j => p = q
<1> SUFFICES ASSUME NEW p \in Joined(l, r, lk, rk, how), NEW q \in Joined(l, r, lk, rk, how),
                    p[2] = j, q[2] = j
             PROVE  p = q
  OBVIOUS
<1>1. j # 0
  <2>1. DOMAIN r.rows = 1 .. Height(r)
    BY FrameFacts
  <2>2. QED
    BY <2>1
<1> DEFINE Kind(t) == \/ /\ t[1] \in DOMAIN l.rows /\ t[2] \in DOMAIN r.rows
                         /\ Key(l, t[1], lk) = Key(r, t[2], rk)
                         /\ t \in Matched(l, r, lk, rk)
                      \/ t[1] = 0 /\ t[2] \in UnmatchedRight(l, r, lk, rk)
<1>2. /\ p = <<p[1], p[2]>> /\ q = <<q[1], q[2]>>
      /\ Kind(p) /\ Kind(q)
  BY <1>1, JoinedPairs
<1>3. p[1] = q[1]
  BY <1>2 DEF UniqueKeys, UnmatchedRight
<1>4. QED
  BY <1>2, <1>3

LEMMA SidesUnique ==
    ASSUME JoinInv, Executed
    PROVE  /\ MustBeUniqueLeft(Step) => UniqueKeys(left, Step.left)
           /\ MustBeUniqueRight(Step) => UniqueKeys(input, Step.right)
BY RunFacts, UniqueIsNoDuplicates DEF UnexpectedDuplicates

LEMMA PartnersFacts ==
    ASSUME JoinInv, Executed
    PROVE  /\ UniqueKeys(input, Step.right) =>
                \A i \in DOMAIN left.rows : Cardinality(PartnersOf(i)) <= 1
           /\ UniqueKeys(left, Step.left) =>
                \A j \in DOMAIN input.rows : Cardinality(Partners(j)) <= 1
<1>1. ASSUME UniqueKeys(input, Step.right), NEW i \in DOMAIN left.rows
      PROVE  Cardinality(PartnersOf(i)) <= 1
  <2>1. \A p, q \in PartnersOf(i) : p = q
    BY <1>1, RunFacts, ExecutedFacts, OnePartner DEF PartnersOf
  <2>2. QED
    BY <2>1, AtMostOne
<1>2. ASSUME UniqueKeys(left, Step.left), NEW j \in DOMAIN input.rows
      PROVE  Cardinality(Partners(j)) <= 1
  <2>1. \A p, q \in Partners(j) : p = q
    BY <1>2, RunFacts, ExecutedFacts, OnePartnerLeft DEF Partners
  <2>2. QED
    BY <2>1, AtMostOne
<1>3. QED
  BY <1>1, <1>2

LEMMA InvRowsMultiply == JoinInv => RowsMultiplyAsDeclared
<1> SUFFICES ASSUME JoinInv, Executed
             PROVE  /\ MustBeUniqueRight(Step) =>
                         \A i \in DOMAIN left.rows : Cardinality(PartnersOf(i)) <= 1
                    /\ MustBeUniqueLeft(Step) =>
                         \A j \in DOMAIN input.rows : Cardinality(Partners(j)) <= 1
                    /\ \/ Step.expected = "many_to_many" /\ Step.allow
                       \/ \A i \in DOMAIN left.rows : Cardinality(PartnersOf(i)) <= 1
                       \/ \A j \in DOMAIN input.rows : Cardinality(Partners(j)) <= 1
  BY DEF RowsMultiplyAsDeclared
<1>1. \/ Step.expected = "many_to_many" /\ Step.allow
      \/ MustBeUniqueLeft(Step) \/ MustBeUniqueRight(Step)
  <2>1. Step.expected \in {"one_to_one", "one_to_many", "many_to_one", "many_to_many"}
    BY RunFacts, WorkflowsAssumption DEF ParamsValid, JoinInv, SourcesOK, Step
  <2>2. Step.expected = "many_to_many" => Step.allow
    BY RunFacts DEF JoinAccepts
  <2>3. QED
    BY <2>1, <2>2 DEF MustBeUniqueLeft, MustBeUniqueRight
<1>2. QED
  BY <1>1, SidesUnique, PartnersFacts

(* Rows multiply only as the step declares, whatever became of the data    *)
(* since the review.                                                       *)
THEOREM MultiplicationSafety == Spec => []RowsMultiplyAsDeclared
BY InvRowsMultiply, JoinInvariance, PTL
-----------------------------------------------------------------------------
LEMMA InvDeduplicated == JoinInv => DeduplicatedKeysAreUnique
<1> DEFINE dedup == workflow.dedup
<1> SUFFICES ASSUME JoinInv, dedup # Null, input # Null
             PROVE  /\ dedup.keys = Step.right /\ Executed =>
                         \A i \in DOMAIN left.rows : Cardinality(PartnersOf(i)) <= 1
                    /\ joined = Failed("DATA_QUALITY_BLOCK") =>
                         DuplicateGroups(left, Step.left) # {} \/ dedup.keys # Step.right
                    /\ KeysOf(input, dedup.keys) = KeysOf(right, dedup.keys)
                    /\ dedup.orderBy # Null /\ dedup.keep = "last" =>
                         \A r \in Rows(input) : \A i \in WithKey(right, dedup.keys,
                                      [n \in DOMAIN dedup.keys |-> r[dedup.keys[n]]]) :
                            \/ Value(right, i, dedup.orderBy) = Null
                            \/ /\ r[dedup.orderBy] # Null
                               /\ Value(right, i, dedup.orderBy) <= r[dedup.orderBy]
  BY DEF DeduplicatedKeysAreUnique
<1>1. input \in Inputs /\ IsFrame(right)
  BY SidesAreFrames DEF JoinInv, JoinedOK
<1>2. input \in Deduplicated(right, dedup)
  BY <1>1 DEF Inputs, DedupResults
<1>3. /\ IsFrame(input) /\ UniqueKeys(input, dedup.keys)
      /\ KeysOf(input, dedup.keys) = KeysOf(right, dedup.keys)
      /\ \A r \in Rows(input) : \E i \in DOMAIN right.rows :
            r = right.rows[i] /\ MayBeKept(right, dedup, i)
  BY <1>1, <1>2, DeduplicatedIsUnique
<1>4. ASSUME joined = Failed("DATA_QUALITY_BLOCK"), dedup.keys = Step.right
      PROVE  DuplicateGroups(left, Step.left) # {}
  <2>1. joined = ExecuteJoin(Step, left, input)
    BY <1>4 DEF JoinInv, JoinedOK, Failed, NotYet
  <2>2. UnexpectedDuplicates(Step, left, input)
    BY <1>4, <2>1 DEF ExecuteJoin, Failed, RunJoin
  <2>3. DuplicateGroups(input, Step.right) = {}
    BY <1>3, <1>4, UniqueIsNoDuplicates
  <2>4. QED
    BY <2>2, <2>3 DEF UnexpectedDuplicates
<1>5. ASSUME dedup.orderBy # Null, dedup.keep = "last", NEW r \in Rows(input),
             NEW i \in WithKey(right, dedup.keys,
                               [n \in DOMAIN dedup.keys |-> r[dedup.keys[n]]])
      PROVE  \/ Value(right, i, dedup.orderBy) = Null
             \/ /\ r[dedup.orderBy] # Null
                /\ Value(right, i, dedup.orderBy) <= r[dedup.orderBy]
  <2>1. PICK j \in DOMAIN right.rows : r = right.rows[j] /\ MayBeKept(right, dedup, j)
    BY <1>3
  <2>2. Key(right, j, dedup.keys) = [n \in DOMAIN dedup.keys |-> r[dedup.keys[n]]]
        /\ Value(right, j, dedup.orderBy) = r[dedup.orderBy]
    BY <2>1 DEF Key, Value
  <2>3. MayPrecede(right, dedup.orderBy, i, j)
    BY <1>5, <2>1, <2>2 DEF MayBeKept
  <2>4. QED
    BY <1>5, <2>2, <2>3 DEF MayPrecede
<1>6. QED
  BY <1>3, <1>4, <1>5, PartnersFacts

(* A deduplicate step on the right keys is enough for the join to find     *)
(* that side unique, keeps every key and, where asked to, its latest row.  *)
THEOREM DeduplicationSafety == Spec => []DeduplicatedKeysAreUnique
BY InvDeduplicated, JoinInvariance, PTL
-----------------------------------------------------------------------------
(* The amounts of a join: of each left row, and of each joined row.        *)
Amounts == [i \in DOMAIN left.rows |-> Number(Value(left, i, workflow.total.sum))]

JoinedAmounts ==
    [pair \in joined.rows |-> Number(JoinedValue(joined, pair, workflow.total.sum))]

LEMMA AmountsFacts ==
    ASSUME JoinInv, Executed
    PROVE  /\ Amounts \in [DOMAIN left.rows -> Int]
           /\ JoinedAmounts \in [joined.rows -> Int]
           /\ \A pair \in joined.rows : pair[1] # 0 =>
                pair[1] \in DOMAIN left.rows /\ JoinedAmounts[pair] = Amounts[pair[1]]
<1> DEFINE c == workflow.total.sum
<1>1. /\ IsFrame(left) /\ IsFrame(input)
      /\ joined.rows = Joined(left, input, Step.left, Step.right, Step.how)
      /\ joined.left = left
  BY RunFacts, ExecutedFacts
<1>2. c \in Columns(left) /\ \A v \in Values(left, c) : v = Null \/ v \in Int
  BY WorkflowsAssumption DEF JoinInv, SourcesOK
<1>3. \A i \in DOMAIN left.rows : Number(Value(left, i, c)) \in Int
  <2>1. ASSUME NEW i \in DOMAIN left.rows PROVE Number(Value(left, i, c)) \in Int
    <3>1. left.rows[i] \in Rows(left)
      BY DEF Rows, Range
    <3>2. Value(left, i, c) \in Values(left, c)
      BY <3>1 DEF Value, Values
    <3>3. QED
      BY <1>2, <3>2 DEF Number
  <2>2. QED
    BY <2>1
<1>4. \A pair \in joined.rows : pair[1] = 0 \/ pair[1] \in DOMAIN left.rows
  BY <1>1, JoinedPairs DEF UnmatchedLeft
<1>5. \A pair \in joined.rows :
        JoinedValue(joined, pair, c)
          = IF pair[1] = 0 THEN Null ELSE Value(left, pair[1], c)
  BY <1>1, <1>2 DEF JoinedValue
<1>6. \A pair \in joined.rows : /\ JoinedAmounts[pair] \in Int
                                /\ pair[1] # 0 => JoinedAmounts[pair] = Amounts[pair[1]]
  BY <1>3, <1>4, <1>5 DEF JoinedAmounts, Amounts, Number
<1>7. QED
  BY <1>3, <1>4, <1>6 DEF Amounts, JoinedAmounts

LEMMA RowsFinite == ASSUME JoinInv, Executed PROVE IsFiniteSet(joined.rows)
<1> DEFINE L == 0 .. Height(left)
           R == 0 .. Height(input)
<1>1. Height(left) \in Nat /\ Height(input) \in Nat
  BY RunFacts, FrameFacts
<1>2. IsFiniteSet(L) /\ IsFiniteSet(R)
  BY <1>1, FS_Interval
<1>3. joined.rows \subseteq L \X R
  BY JoinInvTypeOK DEF TypeOK, Executed
<1> HIDE DEF L, R
<1>4. IsFiniteSet(L \X R)
  BY <1>2, FS_Product
<1>5. QED
  BY <1>3, <1>4, FS_Subset

LEMMA SumOverIs ==
    ASSUME JoinInv, Executed, NEW A \in SUBSET joined.rows
    PROVE  SumOver(joined, A, workflow.total.sum) = Sums(JoinedAmounts)[A]
<1> DEFINE c      == workflow.total.sum
           amount == [pair \in A |-> JoinedAmounts[pair]]
           Body(g, s) == IF s = {} THEN 0
                         ELSE Number(JoinedValue(joined, CHOOSE x \in s : TRUE, c))
                                + g[s \ {CHOOSE x \in s : TRUE}]
           chosen == CHOOSE g : g = [s \in SUBSET A |-> Body(g, s)]
<1>1. SumOver(joined, A, c) = chosen[A]
  BY DEF SumOver, MapThenSumSet, MapThenFoldSet
<1>2. \A pair \in A : amount[pair] = Number(JoinedValue(joined, pair, c))
  BY DEF JoinedAmounts
<1>3. IsFiniteSet(joined.rows) /\ IsFiniteSet(A)
  BY RowsFinite, FS_Subset
<1>4. JoinedAmounts \in [joined.rows -> Int] /\ amount \in [A -> Int]
  BY AmountsFacts
<1>5. Sums(amount)[A] = Sums(JoinedAmounts)[A]
  BY <1>3, <1>4, SumsWithin
<1> HIDE DEF amount
<1>6. ASSUME NEW g, NEW s \in SUBSET A PROVE Body(g, s) = SumOn(g, amount, s)
  <2>1. CASE s = {}
    BY <2>1 DEF SumOn
  <2>2. CASE s # {}
    <3> DEFINE x == CHOOSE y \in s : TRUE
    <3>1. x \in s
      BY <2>2
    <3>2. Body(g, s) = Number(JoinedValue(joined, x, c)) + g[s \ {x}]
          /\ SumOn(g, amount, s) = amount[x] + g[s \ {x}]
      BY <2>2 DEF SumOn
    <3> HIDE DEF x
    <3>3. amount[x] = Number(JoinedValue(joined, x, c))
      BY <1>2, <3>1
    <3> HIDE DEF Body
    <3>4. QED
      BY <3>2, <3>3
  <2>3. QED
    BY <2>1, <2>2
<1> HIDE DEF Body
<1>7. PICK g : g = [s \in SUBSET A |-> Body(g, s)]
  <2>1. PICK g : IsSum(g, amount, A)
    BY <1>3, SumExists
  <2>2. [s \in SUBSET A |-> SumOn(g, amount, s)] = [s \in SUBSET A |-> Body(g, s)]
    BY <1>6
  <2>3. QED
    BY <2>1, <2>2 DEF IsSum
<1>8. chosen = [s \in SUBSET A |-> Body(chosen, s)]
  BY <1>7
<1> HIDE DEF chosen
<1>9. IsSum(chosen, amount, A)
  BY <1>6, <1>8 DEF IsSum
<1>10. chosen[A] = Sums(amount)[A]
  BY <1>3, <1>4, <1>9, SumsAre
<1>11. QED
  BY <1>1, <1>5, <1>10

LEMMA TotalOfLeft ==
    ASSUME JoinInv, Executed
    PROVE  Total(left, workflow.total.sum) = Sums(Amounts)[DOMAIN left.rows]
<1>1. IsFrame(left) /\ Amounts \in [DOMAIN left.rows -> Int]
  BY RunFacts, AmountsFacts
<1>2. QED
  BY <1>1, TotalIs DEF Amounts

(* A left join to a unique side has one row for each of the left source.   *)
Keeps == Executed /\ MustBeUniqueRight(Step) /\ Step.how = "left"

LEMMA KeepsFacts ==
    ASSUME JoinInv, Keeps
    PROVE  /\ \A pair \in joined.rows : pair[1] \in DOMAIN left.rows
           /\ \A p, q \in joined.rows : p[1] = q[1] => p = q
           /\ \A i \in DOMAIN left.rows : \E pair \in joined.rows : pair[1] = i
<1>1. /\ IsFrame(left) /\ IsFrame(input)
      /\ joined.rows = Joined(left, input, Step.left, Step.right, Step.how)
      /\ UniqueKeys(input, Step.right) /\ Step.how = "left"
  BY RunFacts, ExecutedFacts, SidesUnique DEF Keeps
<1>2. \A pair \in joined.rows : pair[1] \in DOMAIN left.rows
  BY <1>1, JoinedPairs DEF UnmatchedLeft
<1>3. ASSUME NEW i \in DOMAIN left.rows PROVE \E pair \in joined.rows : pair[1] = i
  <2>1. CASE \E p \in Matched(left, input, Step.left, Step.right) : p[1] = i
    BY <1>1, <2>1 DEF Joined
  <2>2. CASE ~\E p \in Matched(left, input, Step.left, Step.right) : p[1] = i
    <3>1. i \in UnmatchedLeft(left, input, Step.left, Step.right)
      BY <2>2 DEF UnmatchedLeft
    <3>2. <<i, 0>> \in joined.rows
      BY <1>1, <3>1 DEF Joined
    <3>3. QED
      BY <3>2
  <2>3. QED
    BY <2>1, <2>2
<1>4. ASSUME NEW p \in joined.rows, NEW q \in joined.rows, p[1] = q[1] PROVE p = q
  BY <1>1, <1>2, <1>4, OnePartner
<1>5. QED
  BY <1>2, <1>3, <1>4

LEMMA KeepsAmounts ==
    ASSUME JoinInv, Keeps
    PROVE  Sums(JoinedAmounts)[joined.rows] = Sums(Amounts)[DOMAIN left.rows]
<1> DEFINE S == joined.rows
           D == DOMAIN left.rows
           b == [pair \in S |-> pair[1]]
<1>1. IsFrame(left) /\ IsFiniteSet(S) /\ IsFiniteSet(D)
  BY RunFacts, RowsFinite, FrameFacts DEF Keeps
<1>2. /\ \A pair \in S : pair[1] \in D
      /\ \A p, q \in S : p[1] = q[1] => p = q
      /\ \A i \in D : \E pair \in S : pair[1] = i
  BY KeepsFacts
<1>3. 0 \notin D
  <2>1. D = 1 .. Height(left)
    BY <1>1, FrameFacts
  <2>2. QED
    BY <2>1
<1>4. /\ Amounts \in [D -> Int] /\ JoinedAmounts = [x \in S |-> JoinedAmounts[x]]
      /\ \A pair \in S : pair[1] # 0 => JoinedAmounts[pair] = Amounts[pair[1]]
  BY AmountsFacts DEF Keeps
<1> HIDE DEF S, D
<1>5. b \in [S -> D] /\ (\A x, y \in S : b[x] = b[y] => x = y)
      /\ (\A d \in D : \E x \in S : b[x] = d)
  BY <1>2
<1>6. \A x \in S : JoinedAmounts[x] = Amounts[b[x]]
  BY <1>2, <1>3, <1>4
<1> HIDE DEF b
<1>7. JoinedAmounts = [x \in S |-> Amounts[b[x]]]
  BY <1>4, <1>6
<1>8. Sums(JoinedAmounts)[S] = Sums(Amounts)[D]
  BY <1>1, <1>4, <1>5, <1>7, SumsRenamed
<1>9. QED
  BY <1>8 DEF S, D

LEMMA KeepsHeight ==
    ASSUME JoinInv, Keeps
    PROVE  Cardinality(joined.rows) = Height(left) /\ Height(left) \in Nat
<1> DEFINE S == joined.rows
           D == DOMAIN left.rows
           b == [pair \in S |-> pair[1]]
<1>1. IsFrame(left) /\ IsFiniteSet(S) /\ D = 1 .. Height(left) /\ Height(left) \in Nat
  BY RunFacts, RowsFinite, FrameFacts DEF Keeps
<1>2. Cardinality(D) = Height(left)
  BY <1>1, FS_Interval
<1>3. /\ \A pair \in S : pair[1] \in D
      /\ \A p, q \in S : p[1] = q[1] => p = q
      /\ \A i \in D : \E pair \in S : pair[1] = i
  BY KeepsFacts
<1> HIDE DEF S, D
<1>4. {b[x] : x \in S} = D /\ b = [x \in S |-> b[x]] /\ \A x, y \in S : b[x] = b[y] => x = y
  BY <1>3
<1> HIDE DEF b
<1>5. Cardinality({b[x] : x \in S}) = Cardinality(S)
  BY <1>1, <1>4, FiniteImage
<1>6. QED
  BY <1>1, <1>2, <1>4, <1>5 DEF S

(* The groups of an aggregate add up to the sum over all rows.             *)
LEMMA GroupsAddUp ==
    ASSUME JoinInv, totals.status = "ok"
    PROVE  /\ Executed
           /\ workflow.total.control
                \in {Null, SumOver(joined, joined.rows, workflow.total.sum)}
           /\ MapThenSumSet(LAMBDA g : totals.groups[g], DOMAIN totals.groups)
                = SumOver(joined, joined.rows, workflow.total.sum)
<1> DEFINE t == workflow.total
           S == joined.rows
           p == [pair \in S |-> Group(joined, pair, t.groupBy)]
           K == {p[x] : x \in S}
           k == totals.groups
<1>1. Executed /\ totals = Aggregate(joined, t)
  BY DEF JoinInv, TotalsOK, NotYet
<1>2. t.control \in {Null, SumOver(joined, S, t.sum)} /\ k = GroupSums(joined, t)
  BY <1>1 DEF Aggregate, Failed
<1>3. IsFiniteSet(S) /\ JoinedAmounts \in [S -> Int]
  BY <1>1, RowsFinite, AmountsFacts
<1>4. \A y : {pair \in S : Group(joined, pair, t.groupBy) = y} = {x \in S : p[x] = y}
  OBVIOUS
<1>5. K = {Group(joined, pair, t.groupBy) : pair \in S}
  OBVIOUS
<1>6. k = [y \in K |-> SumOver(joined, {x \in S : p[x] = y}, t.sum)]
  BY <1>2, <1>4, <1>5 DEF GroupSums
<1>7. AreGroups(k, JoinedAmounts, p, K, S)
  <2>1. ASSUME NEW y \in K
        PROVE  SumOver(joined, {x \in S : p[x] = y}, t.sum)
                 = Sums(JoinedAmounts)[{x \in S : p[x] = y}]
    BY <1>1, SumOverIs
  <2>2. QED
    BY <1>6, <2>1 DEF AreGroups
<1> HIDE DEF p, S
<1>8. k \in [K -> Int]
  <2>1. \A y \in K : Sums(JoinedAmounts)[{x \in S : p[x] = y}] \in Int
    BY <1>3, SumsFacts
  <2>2. k = [y \in K |-> k[y]]
    BY <1>6
  <2>3. QED
    BY <1>7, <2>1, <2>2 DEF AreGroups
<1> HIDE DEF k
<1>9. Sums(k)[K] = Sums(JoinedAmounts)[S]
  <2>1. K = {p[x] : x \in S}
    OBVIOUS
  <2> HIDE DEF K
  <2>2. QED
    BY <1>3, <1>7, <1>8, <2>1, SumsRegrouped
<1>10. MapThenSumSet(LAMBDA g : k[g], DOMAIN k) = Sums(k)[DOMAIN k]
  BY DEF MapThenSumSet, MapThenFoldSet, SumOn, IsSum, Sums
<1>11. DOMAIN k = K
  BY <1>8
<1>12. SumOver(joined, S, t.sum) = Sums(JoinedAmounts)[S]
  BY <1>1, SumOverIs DEF S
<1>13. QED
  BY <1>1, <1>2, <1>9, <1>10, <1>11, <1>12 DEF k, S

LEMMA InvSums == JoinInv => SumsSurviveTheJoin
<1> DEFINE c   == workflow.total.sum
           sum == MapThenSumSet(LAMBDA g : totals.groups[g], DOMAIN totals.groups)
<1> SUFFICES ASSUME JoinInv
             PROVE  /\ Keeps => /\ SumConserved(joined, c)
                                /\ RowsConserved(joined)
                                /\ \A i \in DOMAIN left.rows : PartnersOf(i) # {}
                                /\ Height(left) > 0 => SameRate(joined.factor, <<1, 1>>)
                    /\ totals.status = "ok" =>
                         /\ workflow.total.control \in {Null, sum}
                         /\ sum = IF Keeps THEN Total(left, c)
                                  ELSE SumOver(joined, joined.rows, c)
  BY DEF SumsSurviveTheJoin, Keeps
<1>1. ASSUME Executed
      PROVE  SumOver(joined, joined.rows, c) = Sums(JoinedAmounts)[joined.rows]
  BY <1>1, SumOverIs
<1>2. ASSUME Keeps PROVE SumOver(joined, joined.rows, c) = Total(left, c)
  BY <1>1, <1>2, KeepsAmounts, TotalOfLeft DEF Keeps
<1>3. ASSUME Keeps
      PROVE  /\ SumConserved(joined, c) /\ RowsConserved(joined)
             /\ \A i \in DOMAIN left.rows : PartnersOf(i) # {}
             /\ Height(left) > 0 => SameRate(joined.factor, <<1, 1>>)
  <2>1. joined.left = left
        /\ joined.factor = Factor(Cardinality(joined.rows), Height(left))
    BY <1>3, ExecutedFacts DEF Keeps
  <2>2. Cardinality(joined.rows) = Height(left) /\ Height(left) \in Nat
    BY <1>3, KeepsHeight
  <2>3. \A i \in DOMAIN left.rows : PartnersOf(i) # {}
    BY <1>3, KeepsFacts DEF PartnersOf
  <2>4. Height(left) > 0 => SameRate(joined.factor, <<1, 1>>)
    BY <2>1, <2>2 DEF Factor, SameRate
  <2>5. SumConserved(joined, c) /\ RowsConserved(joined)
    BY <1>2, <1>3, <2>1, <2>2 DEF SumConserved, RowsConserved
  <2>6. QED
    BY <2>3, <2>4, <2>5
<1>4. ASSUME totals.status = "ok"
      PROVE  /\ workflow.total.control \in {Null, sum}
             /\ sum = IF Keeps THEN Total(left, c) ELSE SumOver(joined, joined.rows, c)
  BY <1>2, <1>4, GroupsAddUp
<1>5. QED
  BY <1>3, <1>4

(* A left join to a unique side loses and multiplies no row and no amount, *)
(* and the groups of an aggregate behind a join add up to what they are    *)
(* reported under.                                                         *)
THEOREM SumsSafety == Spec => []SumsSurviveTheJoin
BY InvSums, JoinInvariance, PTL
=============================================================================
