---------------------------- MODULE CleaningProofs ----------------------------
(***************************************************************************)
(* A requirement from its compilation to the run: no guess gets into a     *)
(* plan, an unblocked plan is of data that fits, the cleaning steps form   *)
(* one chain from each source to its readers, which read it cleaned by     *)
(* every approved rule and by nothing else, and a run the API starts reads *)
(* clean data.  For every request, governed definition, dictionary, set of *)
(* datasets and frames, and every order of approvals.                      *)
(***************************************************************************)
EXTENDS Cleaning, FramesProofs

(* What a profile counts.                                                  *)
LEMMA ProfileFacts ==
    ASSUME NEW f, IsFrame(f)
    PROVE  /\ DOMAIN ProfileDataset(f).columns = Columns(f)
           /\ ProfileDataset(f).rows \in Nat
           /\ \A c \in Columns(f) : ProfileDataset(f).columns[c].nulls \in Nat
<1>1. f.rows \in Seq(Rows(f))
  BY DEF IsFrame
<1>2. Height(f) \in Nat /\ DOMAIN f.rows = 1 .. Height(f)
  BY <1>1 DEF Height
<1>3. ASSUME NEW c \in Columns(f) PROVE NullCount(f, c) \in Nat
  <2>1. IsFiniteSet(1 .. Height(f))
    BY <1>2, FS_Interval
  <2>2. IsFiniteSet({i \in DOMAIN f.rows : Value(f, i, c) = Null})
    BY <1>2, <2>1, FS_Subset
  <2>3. QED
    BY <2>2, FS_CardinalityType DEF NullCount
<1>4. QED
  BY <1>2, <1>3 DEF ProfileDataset, ColumnProfile

LEMMA ProfilesFacts ==
    ASSUME Profiled
    PROVE  /\ DOMAIN profiles = Datasets
           /\ \A d \in Datasets :
                /\ IsFiniteSet(Of(profiles, d)) /\ profiles[d].rows \in Nat
                /\ \A c \in Of(profiles, d) : profiles[d].columns[c].nulls \in Nat
<1>1. ASSUME NEW d \in Datasets
      PROVE  /\ IsFiniteSet(Of(profiles, d)) /\ profiles[d].rows \in Nat
             /\ \A c \in Of(profiles, d) : profiles[d].columns[c].nulls \in Nat
  <2>1. PICK f \in Snapshots[d] : profiles[d] = ProfileDataset(f)
    BY DEF Profiled
  <2>2. IsFrame(f)
    BY SourcesAssumption
  <2>3. QED
    BY <2>1, <2>2, ProfileFacts DEF Of, IsFrame
<1>2. QED
  BY <1>1 DEF Profiled
-----------------------------------------------------------------------------
(* A validated contract without open questions has no guess in it.         *)
LEMMA MetricOf ==
    ASSUME NEW m, ~Blocking(BuildMetric(m))
    PROVE  \/ /\ Cardinality(Candidates(m.term)) = 1
              /\ Resolution(m.term) = "GOVERNED"
           \/ Resolution(m.term) = "UNGOVERNED" /\ BuildMetric(m).status = "EXPLICIT"
BY DEF Blocking, BuildMetric, Resolution

LEMMA GovernedFields ==
    ASSUME NEW m, Resolution(m.term) = "GOVERNED", Cardinality(Candidates(m.term)) = 1
    PROVE  \E id \in DOMAIN Definitions :
              /\ Candidates(m.term) = {id}
              /\ BuildMetric(m).fields = Definitions[id].fields
<1>1. IsFiniteSet(Candidates(m.term)) /\ Candidates(m.term) \subseteq DOMAIN Definitions
  BY DefinitionsAssumption, FS_Subset DEF Candidates
<1>2. PICK id : Candidates(m.term) = {id}
  BY <1>1, OneElement
<1>3. {i \in Candidates(m.term) : Resolution(m.term) = "GOVERNED"} = {id}
  BY <1>2
<1>4. BuildMetric(m).fields = UNION {Definitions[i].fields : i \in {id}}
  BY <1>3 DEF BuildMetric
<1>5. QED
  BY <1>1, <1>2, <1>4

LEMMA CompiledUnguessed ==
    ASSUME Profiled, NEW extraction, NEW chosen \in {<<>>} \cup SetToSeqs(Datasets),
           NEW approvedContract,
           approvedContract = [Compile(extraction, chosen, ProfileOfFirst(chosen))
                                  EXCEPT !.status = approvedContract.status],
           ~Blocked(approvedContract)
    PROVE  Unguessed(approvedContract, profiles[approvedContract.sources[1]])
<1> DEFINE open == Clarifications(extraction, chosen, ProfileOfFirst(chosen))
<1>1. /\ approvedContract.metrics = {BuildMetric(m) : m \in Range(extraction.metrics)}
      /\ approvedContract.terms = extraction.terms
      /\ approvedContract.timezone = extraction.timezone
      /\ approvedContract.sources = chosen
      /\ approvedContract.open = open
  BY DEF Compile, Validated
<1>2. /\ open = {} /\ chosen # <<>>
      /\ \A m \in Range(extraction.metrics) : ~Blocking(BuildMetric(m))
  BY <1>1 DEF Blocked
<1>3. chosen[1] \in Datasets /\ ProfileOfFirst(chosen)[1] = profiles[chosen[1]]
      /\ 1 \in DOMAIN ProfileOfFirst(chosen)
  <2>1. PICK n \in Nat : n = Cardinality(Datasets)
    BY SourcesAssumption, FS_CardinalityType
  <2>2. chosen \in [1 .. n -> Datasets]
    BY <1>2, <2>1 DEF SetToSeqs
  <2>3. Len(chosen) = n /\ n # 0
    BY <1>2, <2>2
  <2>4. \A y \in {1, n} : 1 <= y
    BY <2>1, <2>3
  <2>5. Min({1, n}) \in {1, n} /\ \A y \in {1, n} : Min({1, n}) <= y
    BY <2>4 DEF Min
  <2>6. Min({1, n}) = 1
    BY <2>1, <2>3, <2>5
  <2>7. QED
    BY <2>1, <2>2, <2>3, <2>6 DEF ProfileOfFirst
<1>4. extraction.terms \cap DateBuckets # {} => extraction.timezone
  BY <1>2 DEF Clarifications
<1>5. ASSUME NEW m \in Range(extraction.metrics)
      PROVE  \/ \E id \in DOMAIN Definitions :
                   /\ Candidates(BuildMetric(m).name) = {id}
                   /\ BuildMetric(m).fields = Definitions[id].fields
             \/ /\ BuildMetric(m).status = "EXPLICIT"
                /\ Normal(BuildMetric(m).name) \notin MaterialTerms
                /\ Cardinality(Plausible(BuildMetric(m).name, profiles[chosen[1]])) < 2
  <2>1. BuildMetric(m).name = m.term
    BY DEF BuildMetric
  <2>2. CASE Resolution(m.term) = "GOVERNED" /\ Cardinality(Candidates(m.term)) = 1
    BY <2>1, <2>2, GovernedFields
  <2>3. CASE Resolution(m.term) = "UNGOVERNED" /\ BuildMetric(m).status = "EXPLICIT"
    <3>1. m.term \in Ungoverned(extraction)
      BY <2>3 DEF Ungoverned, TermsOf, Range
    <3>2. Normal(m.term) \notin MaterialTerms
      <4>1. ASSUME Normal(m.term) \in MaterialTerms PROVE FALSE
        <5>1. m.term \in {t \in Ungoverned(extraction) :
                      Normal(t) \in MaterialTerms \/ ~HasFormula(extraction, t)}
          BY <3>1, <4>1
        <5>2. <<"definition", m.term>> \in open
          BY <5>1 DEF Clarifications
        <5>3. QED
          BY <1>2, <5>2
      <4>2. QED
        BY <4>1
    <3>3. ~(Cardinality(Plausible(m.term, profiles[chosen[1]])) >= 2)
      <4>1. ASSUME Cardinality(Plausible(m.term, profiles[chosen[1]])) >= 2 PROVE FALSE
        <5>1. m.term \in {t \in Ungoverned(extraction) :
                      \E i \in DOMAIN ProfileOfFirst(chosen) :
                         Cardinality(Plausible(t, ProfileOfFirst(chosen)[i])) >= 2}
          BY <1>3, <3>1, <4>1
        <5>2. <<"columns", m.term>> \in open
          BY <5>1 DEF Clarifications
        <5>3. QED
          BY <1>2, <5>2
      <4>2. QED
        BY <4>1
    <3>4. Cardinality(Plausible(m.term, profiles[chosen[1]])) \in Nat
      <4>1. IsFiniteSet(DOMAIN profiles[chosen[1]].columns)
        BY <1>3, ProfilesFacts DEF Of
      <4>2. IsFiniteSet(Plausible(m.term, profiles[chosen[1]]))
        BY <4>1, FS_Subset DEF Plausible
      <4>3. QED
        BY <4>2, FS_CardinalityType
    <3>5. QED
      BY <2>1, <2>3, <3>2, <3>3, <3>4
  <2>4. QED
    BY <1>2, <2>2, <2>3, MetricOf
<1>6. ASSUME NEW metric \in approvedContract.metrics
      PROVE  \/ \E id \in DOMAIN Definitions :
                   /\ Candidates(metric.name) = {id}
                   /\ metric.fields = Definitions[id].fields
             \/ /\ metric.status = "EXPLICIT"
                /\ Normal(metric.name) \notin MaterialTerms
                /\ Cardinality(Plausible(metric.name, profiles[chosen[1]])) < 2
  <2>1. PICK m \in Range(extraction.metrics) : metric = BuildMetric(m)
    BY <1>1
  <2>2. QED
    BY <1>5, <2>1, Zenon
<1>7. approvedContract.terms \cap DateBuckets # {} => approvedContract.timezone
  BY <1>1, <1>4
<1>8. QED
  BY <1>1, <1>2, <1>6, <1>7, Zenon DEF Unguessed
-----------------------------------------------------------------------------
(* What a mapping found: one column of a profiled dataset.                 *)
IsPlace(place) == /\ place = <<place[1], place[2]>>
                  /\ place[1] \in Datasets
                  /\ place[2] \in Of(profiles, place[1])

LEMMA HitsFacts ==
    ASSUME Profiled, NEW field, IsField(field)
    PROVE  /\ IsFiniteSet(Hits(field, profiles))
           /\ \A place \in Hits(field, profiles) : IsPlace(place)
<1>1. DOMAIN profiles = Datasets
  BY ProfilesFacts
<1>2. CASE field = <<field[1], field[2]>>
  <2>1. Len(field) = 2
    BY <1>2
  <2>2. Hits(field, profiles) \subseteq {field}
    BY <2>1 DEF Hits
  <2>3. IsFiniteSet(Hits(field, profiles))
    BY <2>2, FS_Singleton, FS_Subset
  <2>4. QED
    BY <1>1, <1>2, <2>1, <2>3 DEF Hits, IsPlace
<1>3. CASE field = <<field[1]>>
  <2> DEFINE holders == {d \in DOMAIN profiles : field[1] \in Of(profiles, d)}
             place(d) == <<d, field[1]>>
  <2>1. Len(field) # 2
    BY <1>3
  <2>2. Hits(field, profiles) = {place(d) : d \in holders}
    BY <2>1 DEF Hits
  <2>3. IsFiniteSet(holders)
    BY <1>1, SourcesAssumption, FS_Subset
  <2>4. IsFiniteSet(Hits(field, profiles))
    <3> DEFINE f == [d \in holders |-> place(d)]
    <3>1. f \in Surjection(holders, Hits(field, profiles))
      BY <2>2 DEF Surjection
    <3>2. QED
      BY <2>3, <3>1, FS_Surjection
  <2>5. QED
    BY <1>1, <2>2, <2>4 DEF IsPlace
<1>4. QED
  BY <1>2, <1>3 DEF IsField

LEMMA ResolveFacts ==
    ASSUME Profiled, NEW concept, NEW field, IsField(field)
    PROVE  LET m == Resolve(concept, field, profiles)
           IN  m.status = "MAPPED" =>
                 /\ m.concept = concept /\ IsPlace(m.place)
                 /\ Hits(field, profiles) = {m.place}
                 /\ concept \in MoneyTerms => ColumnOf(profiles, m.place).dtype = "int"
<1> DEFINE hits == Hits(field, profiles)
           place == CHOOSE p \in hits : TRUE
           m == Resolve(concept, field, profiles)
<1> SUFFICES ASSUME m.status = "MAPPED"
             PROVE  /\ m.concept = concept /\ IsPlace(m.place) /\ hits = {m.place}
                    /\ concept \in MoneyTerms => ColumnOf(profiles, m.place).dtype = "int"
  OBVIOUS
<1>1. /\ hits # {} /\ ~(Cardinality(hits) > 1)
      /\ m = Finalize(concept, place, profiles)
  BY DEF Resolve, Unmapped
<1>2. /\ m.concept = concept /\ m.place = place
      /\ concept \in MoneyTerms => ColumnOf(profiles, place).dtype = "int"
  BY <1>1 DEF Finalize, Unmapped
<1>3. hits = {place}
  BY <1>1, HitsFacts, AtMostOneElement
<1>4. QED
  BY <1>2, <1>3, HitsFacts

LEMMA ResolveTermFacts ==
    ASSUME Profiled, NEW term
    PROVE  LET m == ResolveTerm(term, profiles)
           IN  m.status = "MAPPED" =>
                 /\ m.concept = term /\ IsPlace(m.place)
                 /\ term \in MoneyTerms => ColumnOf(profiles, m.place).dtype = "int"
                 /\ term \notin DOMAIN Dimensions => Hits(<<term>>, profiles) = {m.place}
<1>1. IsField(<<term>>)
  BY DEF IsField
<1>2. CASE ResolveTerm(term, profiles) = Resolve(term, <<term>>, profiles)
  BY <1>1, <1>2, ResolveFacts
<1>3. ASSUME term \in DOMAIN Dimensions, Dimensions[term] # {},
             ResolveTerm(term, profiles)
               = Resolve(term, CHOOSE field \in Dimensions[term] : TRUE, profiles)
      PROVE  LET m == ResolveTerm(term, profiles)
             IN  m.status = "MAPPED" =>
                   /\ m.concept = term /\ IsPlace(m.place)
                   /\ term \in MoneyTerms => ColumnOf(profiles, m.place).dtype = "int"
  <2>1. IsField(CHOOSE field \in Dimensions[term] : TRUE)
    BY <1>3, DictionaryAssumption
  <2>2. QED
    BY <1>3, <2>1, ResolveFacts
<1>4. CASE ResolveTerm(term, profiles) = Unmapped(term, "AMBIGUOUS")
  BY <1>4 DEF Unmapped
<1>5. \/ ResolveTerm(term, profiles) = Unmapped(term, "AMBIGUOUS")
      \/ ResolveTerm(term, profiles) = Resolve(term, <<term>>, profiles)
      \/ /\ term \in DOMAIN Dimensions /\ Dimensions[term] # {}
         /\ ResolveTerm(term, profiles)
               = Resolve(term, CHOOSE field \in Dimensions[term] : TRUE, profiles)
  BY DEF ResolveTerm
<1>6. QED
  BY <1>2, <1>3, <1>4, <1>5

LEMMA MappingFacts ==
    ASSUME Profiled, ContractOK, NEW m \in MappingsNow, m.status = "MAPPED"
    PROVE  /\ IsPlace(m.place)
           /\ m.concept \in MoneyTerms => ColumnOf(profiles, m.place).dtype = "int"
<1>1. CASE \E term \in contract.terms : m = ResolveTerm(term, profiles)
  BY <1>1, ResolveTermFacts
<1>2. ASSUME NEW metric \in contract.metrics, NEW field \in metric.fields,
             m = Resolve(metric.name, field, profiles)
      PROVE  /\ IsPlace(m.place)
             /\ m.concept \in MoneyTerms => ColumnOf(profiles, m.place).dtype = "int"
  BY <1>2, ResolveFacts DEF ContractOK
<1>3. \/ \E term \in contract.terms : m = ResolveTerm(term, profiles)
      \/ \E metric \in contract.metrics : \E field \in metric.fields :
            m = Resolve(metric.name, field, profiles)
  BY DEF MappingsNow, Mappings, MappedMetrics
<1>4. QED
  BY <1>1, <1>2, <1>3

(* A term no dictionary entry explains is a column of one dataset only.    *)
LEMMA OneDataset ==
    ASSUME Profiled, NEW term, term \notin DOMAIN Dimensions,
           ResolveTerm(term, profiles).status = "MAPPED"
    PROVE  Cardinality({d \in Datasets : term \in Of(profiles, d)}) = 1
<1> DEFINE place == ResolveTerm(term, profiles).place
<1>1. Hits(<<term>>, profiles) = {place}
  BY ResolveTermFacts
<1>2. Hits(<<term>>, profiles)
        = {<<d, term>> : d \in {e \in Datasets : term \in Of(profiles, e)}}
  BY ProfilesFacts DEF Hits
<1>3. ASSUME NEW d \in Datasets
      PROVE  term \in Of(profiles, d) <=> <<d, term>> = place
  <2>1. term \in Of(profiles, d) <=> <<d, term>> \in Hits(<<term>>, profiles)
    BY <1>2
  <2>2. QED
    BY <1>1, <2>1
<1>4. IsPlace(place)
  BY ResolveTermFacts
<1>5. \E d \in Datasets : <<d, term>> = place
  BY <1>1, <1>2
<1>6. {d \in Datasets : term \in Of(profiles, d)} = {place[1]}
  BY <1>3, <1>4, <1>5 DEF IsPlace
<1>7. QED
  BY <1>6, FS_Singleton
-----------------------------------------------------------------------------
(* A review that does not block saw data that fits.                        *)
LEMMA TriplesConcatenate ==
    ASSUME NEW a, NEW b, NEW c
    PROVE  <<a>> \o <<b, c>> = <<a, b, c>>
<1> DEFINE S == {a, b, c}
           s == <<a>> \o <<b, c>>
<1>1. <<a>> \in Seq(S) /\ <<b, c>> \in Seq(S) /\ Len(<<a>>) = 1 /\ Len(<<b, c>>) = 2
  OBVIOUS
<1>2. s \in Seq(S) /\ Len(s) = 3
  BY <1>1
<1>3. s[1] = a /\ s[2] = b /\ s[3] = c
  BY <1>1
<1>4. <<a, b, c>> \in Seq(S) /\ Len(<<a, b, c>>) = 3
  OBVIOUS
<1>5. \A i \in 1 .. Len(s) : s[i] = <<a, b, c>>[i]
  BY <1>2, <1>3
<1> HIDE DEF s
<1>6. QED
  BY <1>2, <1>4, <1>5, SeqEqual DEF s

LEMMA PlaceConcatenates ==
    ASSUME NEW place, IsPlace(place), NEW kind
    PROVE  <<kind>> \o place = <<kind, place[1], place[2]>>
<1> DEFINE a == place[1]
           b == place[2]
<1>1. place = <<a, b>>
  BY DEF IsPlace
<1> HIDE DEF a, b
<1>2. <<kind>> \o <<a, b>> = <<kind, a, b>>
  BY TriplesConcatenate
<1>3. <<kind>> \o place = <<kind, a, b>>
  BY <1>1, <1>2
<1>4. QED
  BY <1>3 DEF a, b

LEMMA CompletenessDecided ==
    ASSUME Profiled, ContractOK, ~PlanBlocking(MappingsNow, IssuesNow, plan, Range(approved)),
           plan = Propose(contract, IssuesNow),
           NEW m \in MappingsNow, m.status = "MAPPED", ColumnOf(profiles, m.place).nulls > 0
    PROVE  /\ m.place[2] \in DOMAIN contract.policy
           /\ 2 * ColumnOf(profiles, m.place).nulls <= profiles[m.place[1]].rows
<1> DEFINE half == MoreThanHalf(ColumnOf(profiles, m.place).nulls,
                                profiles[m.place[1]].rows)
           rule == <<"completeness">> \o m.place
           issue == Issue(IF half THEN "BLOCKING" ELSE "REQUIRES_RULE", rule)
<1>1. IsPlace(m.place)
  BY MappingFacts
<1>2. rule = <<"completeness", m.place[1], m.place[2]>>
  BY <1>1, PlaceConcatenates
<1>3. issue \in IssuesNow
  <2>1. m.place \in Places(MappingsNow)
    BY DEF Places, Mapped
  <2>2. issue \in CompletenessIssues(MappingsNow, profiles)
    BY <2>1 DEF CompletenessIssues
  <2>3. QED
    BY <2>2 DEF IssuesNow, Issues
<1>4. ~half
  <2>1. \A i \in IssuesNow : i.severity # "BLOCKING"
    BY DEF PlanBlocking, Fitness
  <2>2. QED
    BY <1>3, <2>1 DEF Issue
<1>5. m.place[2] \in DOMAIN contract.policy
  <2>1. issue \in Actionable(IssuesNow) /\ issue.rule = rule
    BY <1>3, <1>4 DEF Actionable, Issue
  <2>2. rule \in OfKind(IssuesNow, "completeness")
    <3>1. issue.rule[1] = "completeness"
      <4>1. rule[1] = "completeness"
        BY <1>2
      <4> HIDE DEF issue, rule
      <4>2. QED
        BY <2>1, <4>1
    <3> HIDE DEF issue, rule
    <3>2. QED
      BY <2>1, <3>1 DEF OfKind
  <2>3. CompletenessItems(contract, IssuesNow) \subseteq plan.items
    BY DEF Propose
  <2>4. plan.items = {}
    BY DEF PlanBlocking
  <2>5. rule[3] = m.place[2]
    BY <1>2
  <2>6. QED
    BY <2>2, <2>3, <2>4, <2>5 DEF CompletenessItems
<1>6. ColumnOf(profiles, m.place).nulls \in Nat /\ profiles[m.place[1]].rows \in Nat
  BY <1>1, ProfilesFacts DEF IsPlace, ColumnOf
<1>7. QED
  BY <1>4, <1>5, <1>6 DEF MoreThanHalf

LEMMA ReviewFacts ==
    ASSUME Profiled, ContractOK, ~PlanBlocking(MappingsNow, IssuesNow, plan, Range(approved)),
           plan = Propose(contract, IssuesNow)
    PROVE  /\ \A m \in MappingsNow : m.status = "MAPPED"
           /\ \A m, n \in MappingsNow : m.place = n.place => m.concept = n.concept
           /\ \A t \in contract.terms : t \notin DOMAIN Dimensions =>
                Cardinality({d \in Datasets : t \in Of(profiles, d)}) = 1
           /\ contract.range => HasDateColumn(profiles)
<1>1. ~MappingBlocked(MappingsNow)
  BY DEF PlanBlocking
<1>2. \A m \in MappingsNow : m.status = "MAPPED"
  BY <1>1 DEF MappingBlocked
<1>3. \A m, n \in MappingsNow : m.place = n.place => m.concept = n.concept
  BY <1>1, <1>2 DEF MappingBlocked, Mapped
<1>4. \A t \in contract.terms : ResolveTerm(t, profiles) \in MappingsNow
  BY DEF MappingsNow, Mappings
<1>5. contract.range => HasDateColumn(profiles)
  <2>1. ASSUME contract.range, ~HasDateColumn(profiles) PROVE FALSE
    <3>1. Issue("BLOCKING", <<"time_coverage">>) \in TimeIssues(contract, profiles)
      BY <2>1 DEF TimeIssues
    <3>2. Issue("BLOCKING", <<"time_coverage">>) \in IssuesNow
      BY <3>1 DEF IssuesNow, Issues
    <3>3. QED
      BY <3>2 DEF PlanBlocking, Fitness, Issue
  <2>2. QED
    BY <2>1
<1>6. QED
  BY <1>2, <1>3, <1>4, <1>5, OneDataset

LEMMA IntakeInvFits == IntakeInv => UnblockedIsFit
<1> SUFFICES ASSUME IntakeInv, ~blocking PROVE UnblockedIsFit
  BY DEF UnblockedIsFit
<1>1. /\ plan = Propose(contract, IssuesNow)
      /\ ~PlanBlocking(MappingsNow, IssuesNow, plan, Range(approved))
      /\ Profiled /\ ContractOK
  BY DEF IntakeInv, ReviewedPlan
<1>2. \A m \in MappingsNow : m.status = "MAPPED"
  BY <1>1, ReviewFacts
<1>3. \A m \in MappingsNow :
          /\ m.concept \in MoneyTerms => ColumnOf(profiles, m.place).dtype = "int"
          /\ ColumnOf(profiles, m.place).nulls > 0 =>
                /\ m.place[2] \in DOMAIN contract.policy
                /\ 2 * ColumnOf(profiles, m.place).nulls <= profiles[m.place[1]].rows
  BY <1>1, <1>2, MappingFacts, CompletenessDecided
<1>4. QED
  BY <1>1, <1>2, <1>3, ReviewFacts, Zenon DEF UnblockedIsFit

LEMMA IntakeInvUnguessed == IntakeInv => NothingGuessed
<1> SUFFICES ASSUME IntakeInv, caller = "api", phase \notin {"new", "drafted"}
             PROVE  Unguessed(contract, profiles[contract.sources[1]])
  BY DEF NothingGuessed
<1>1. Profiled /\ Compiled /\ Ready(contract)
  BY DEF IntakeInv, ReviewedPlan, Planned
<1>2. QED
  BY <1>1, CompiledUnguessed DEF Compiled
-----------------------------------------------------------------------------
(* The invariant is inductive.                                             *)
LEMMA CompileFacts ==
    ASSUME NEW extraction, NEW chosen, NEW profiled
    PROVE  LET made == Compile(extraction, chosen, profiled)
           IN  /\ made = [made EXCEPT !.status = made.status]
               /\ ~Ready(made)
               /\ IsFiniteSet(DOMAIN made.policy)
               /\ \A metric \in made.metrics : \A field \in metric.fields : IsField(field)
<1> DEFINE made == Compile(extraction, chosen, profiled)
<1>1. /\ made = [made EXCEPT !.status = made.status]
      /\ made.status \in {"DRAFT", "BLOCKED"}
      /\ made.metrics = {BuildMetric(m) : m \in Range(extraction.metrics)}
      /\ DOMAIN made.policy = {}
  BY DEF Compile, Validated
<1>2. ASSUME NEW m, NEW field \in BuildMetric(m).fields PROVE IsField(field)
  <2>1. \E id \in Candidates(m.term) : field \in Definitions[id].fields
    BY <1>2 DEF BuildMetric
  <2>2. QED
    BY <2>1, DefinitionsAssumption DEF Candidates
<1>3. QED
  BY <1>1, <1>2, FS_EmptySet DEF Ready

LEMMA IntakeInit == Init => IntakeInv
<1> SUFFICES ASSUME Init PROVE IntakeInv
  OBVIOUS
<1>1. Profiled
  BY DEF Init, Profiled
<1>2. caller = "api" => phase = "new" /\ contract = Compile(NoRequest, <<>>, <<>>)
  BY DEF Init
<1>3. ContractOK
  BY <1>2, CompileFacts, ContractsAssumption DEF Init, ContractOK
<1>4. QED
  BY <1>1, <1>2, <1>3 DEF Init, IntakeInv, Compiled, ReviewedPlan, Planned

LEMMA DraftStep ==
    ASSUME IntakeInv, CreateRequirement \/ ReviseRequirement
    PROVE  IntakeInv'
<1>1. PICK extraction \in Extractions, chosen \in {<<>>} \cup SetToSeqs(Datasets) :
          contract' = Compile(extraction, chosen, ProfileOfFirst(chosen))
  <2>1. CASE CreateRequirement
    BY <2>1 DEF CreateRequirement
  <2>2. CASE ReviseRequirement
    <3>1. caller = "api" /\ phase = "drafted"
      BY <2>2 DEF ReviseRequirement
    <3>2. PICK before \in Extractions, chosen \in {<<>>} \cup SetToSeqs(Datasets) :
              contract = [Compile(before, chosen, ProfileOfFirst(chosen))
                             EXCEPT !.status = contract.status]
      BY <3>1 DEF IntakeInv, Compiled
    <3>3. contract.sources = chosen
      BY <3>2 DEF Compile, Validated
    <3>4. QED
      BY <2>2, <3>3 DEF ReviseRequirement
  <2>3. QED
    BY <2>1, <2>2
<1>2. /\ phase' = "drafted" /\ phase \in {"new", "drafted"}
      /\ UNCHANGED <<caller, profiles, plan, workflow, approved, blocking>>
  BY DEF CreateRequirement, ReviseRequirement
<1>3. Profiled' /\ ProfileOfFirst(chosen)' = ProfileOfFirst(chosen)
  BY <1>2 DEF IntakeInv, Profiled, ProfileOfFirst
<1>4. Compiled' /\ ContractOK'
  BY <1>1, <1>3, CompileFacts DEF Compiled, ContractOK
<1>5. QED
  BY <1>2, <1>3, <1>4 DEF IntakeInv, ReviewedPlan, Planned

LEMMA ApprovalStep ==
    ASSUME IntakeInv, ApproveRequirement
    PROVE  IntakeInv'
<1>1. /\ contract' = Validated(contract, "APPROVED") /\ phase = "drafted"
      /\ Ready(contract')
      /\ UNCHANGED <<caller, profiles, plan, workflow, approved, blocking, phase>>
  BY DEF ApproveRequirement
<1>2. /\ ~Blocked(contract)
      /\ contract' = [contract EXCEPT !.status = "APPROVED"]
  BY <1>1 DEF Validated, Ready
<1>3. Profiled'
  BY <1>1 DEF IntakeInv, Profiled
<1>4. ASSUME caller = "api" PROVE Compiled'
  <2>1. PICK extraction \in Extractions, chosen \in {<<>>} \cup SetToSeqs(Datasets) :
            contract = [Compile(extraction, chosen, ProfileOfFirst(chosen))
                           EXCEPT !.status = contract.status]
    BY <1>1, <1>4 DEF IntakeInv, Compiled
  <2>2. /\ contract' = [Compile(extraction, chosen, ProfileOfFirst(chosen))
                           EXCEPT !.status = contract'.status]
        /\ UNCHANGED <<contract.metrics, contract.open, contract.sources>>
    BY <1>2, <2>1 DEF Compile, Validated
  <2>3. ~Blocked(contract')
    BY <1>2, <2>2 DEF Blocked
  <2>4. ProfileOfFirst(chosen)' = ProfileOfFirst(chosen)
    BY <1>1 DEF ProfileOfFirst
  <2>5. QED
    BY <2>2, <2>3, <2>4 DEF Compiled
<1>5. ContractOK'
  <2>1. contract'.metrics = contract.metrics /\ contract'.policy = contract.policy
    BY <1>2
  <2>2. QED
    BY <2>1 DEF IntakeInv, ContractOK
<1>6. QED
  BY <1>1, <1>3, <1>4, <1>5 DEF IntakeInv, Compiled, ReviewedPlan, Planned

LEMMA PlanStep ==
    ASSUME IntakeInv, PlanRequirement
    PROVE  IntakeInv'
<1>1. /\ phase = "drafted" /\ phase' = "planned" /\ Ready(contract)
      /\ plan' = Propose(contract, IssuesNow)
      /\ blocking' = PlanBlocking(MappingsNow, IssuesNow, plan', {})
      /\ UNCHANGED <<caller, contract, profiles, approved>>
  BY DEF PlanRequirement
<1>2. Range(approved) = {}
  BY <1>1 DEF IntakeInv, ReviewedPlan, Planned, Range
<1>3. MappingsNow' = MappingsNow /\ IssuesNow' = IssuesNow /\ Range(approved)' = {}
  BY <1>1, <1>2 DEF MappingsNow, IssuesNow
<1>4. ReviewedPlan'
  BY <1>1, <1>3 DEF ReviewedPlan, Planned
<1>5. \A chosen : ProfileOfFirst(chosen)' = ProfileOfFirst(chosen)
  BY <1>1 DEF ProfileOfFirst
<1>6. QED
  BY <1>1, <1>4, <1>5 DEF IntakeInv, Profiled, Compiled, ContractOK

(* What leaves the requirement and its plan as they are.                   *)
LEMMA LaterStep ==
    ASSUME IntakeInv, Planned, Planned', phase' \in {"planned", "running", "failed"},
           UNCHANGED <<caller, contract, profiles, plan>>,
           \/ UNCHANGED <<blocking, approved>>
           \/ blocking' = PlanBlocking(MappingsNow, IssuesNow, plan, Range(approved'))
    PROVE  IntakeInv'
<1>1. MappingsNow' = MappingsNow /\ IssuesNow' = IssuesNow
  BY DEF MappingsNow, IssuesNow
<1>2. \A chosen : ProfileOfFirst(chosen)' = ProfileOfFirst(chosen)
  BY DEF ProfileOfFirst
<1>3. ReviewedPlan'
  BY <1>1 DEF IntakeInv, ReviewedPlan
<1>4. QED
  BY <1>2, <1>3 DEF IntakeInv, Profiled, Compiled, ContractOK, Planned

LEMMA IntakeInductive ==
    ASSUME IntakeInv, [Next]_vars
    PROVE  IntakeInv'
<1>1. CASE ApproveCleaningRules
  BY <1>1, LaterStep DEF ApproveCleaningRules, Planned
<1>2. CASE SourceChanges
  BY <1>2, LaterStep DEF SourceChanges, Planned
<1>3. CASE StartRun
  BY <1>3, LaterStep DEF StartRun, Planned
<1>4. ASSUME NEW step \in workflow, ExecuteStep(step) PROVE IntakeInv'
  <2>1. /\ phase = "running" /\ phase' \in {"running", "failed"}
        /\ UNCHANGED <<caller, contract, profiles, plan, blocking, approved>>
    BY <1>4 DEF ExecuteStep
  <2>2. QED
    BY <2>1, LaterStep DEF Planned
<1>5. CASE UNCHANGED vars
  <2>1. UNCHANGED <<caller, contract, profiles, plan, workflow, approved, blocking, phase>>
    BY <1>5 DEF vars
  <2>2. QED
    <3>1. Profiled' /\ ContractOK'
      BY <2>1 DEF IntakeInv, Profiled, ContractOK
    <3>2. Compiled'
      BY <2>1 DEF IntakeInv, Compiled, ProfileOfFirst
    <3>3. ReviewedPlan'
      BY <2>1 DEF IntakeInv, ReviewedPlan, Planned, MappingsNow, IssuesNow
    <3>4. QED
      BY <2>1, <3>1, <3>2, <3>3 DEF IntakeInv
<1>6. QED
  BY <1>1, <1>2, <1>3, <1>4, <1>5, DraftStep, ApprovalStep, PlanStep DEF Next

(* Where the requirement, the profiles and the last review come from.      *)
THEOREM IntakeInvariance == Spec => []IntakeInv
<1>1. QED
  BY IntakeInit, IntakeInductive, PTL DEF Spec

(* A plan the API made is of a requirement in which every metric has one   *)
(* governed definition or an unmistakable formula of the user's: the gate  *)
(* and the validator together let no guess through.                        *)
THEOREM NoGuessSafety == Spec => []NothingGuessed
<1>1. QED
  BY IntakeInvUnguessed, IntakeInvariance, PTL

(* A review of a plan that does not block speaks of data that fits, in     *)
(* every order of approvals.                                               *)
THEOREM FitnessSafety == Spec => []UnblockedIsFit
<1>1. QED
  BY IntakeInvFits, IntakeInvariance, PTL
-----------------------------------------------------------------------------
(* The node that holds a dataset, rule by rule.                            *)
LEMMA FeedStart == ASSUME NEW ids, NEW d PROVE Feed(ids, d, 0) = Source(d)
BY DEF Feed

LEMMA FeedNext ==
    ASSUME NEW ids, NEW d, NEW i \in Nat \ {0}
    PROVE  Feed(ids, d, i) = IF ids[i][2] = d THEN ids[i] ELSE Feed(ids, d, i - 1)
<1> DEFINE own(k) == {j \in 1 .. k : ids[j][2] = d}
<1>1. CASE ids[i][2] = d
  <2>1. i \in own(i) /\ own(i) \subseteq 1 .. i
    BY <1>1
  <2>2. Max(own(i)) = i
    BY <2>1, HasMax
  <2>3. QED
    BY <1>1, <2>1, <2>2 DEF Feed
<1>2. CASE ids[i][2] # d
  <2>1. own(i) = own(i - 1)
    BY <1>2
  <2>2. QED
    BY <1>2, <2>1 DEF Feed
<1>3. QED
  BY <1>1, <1>2

(* It is the source or a rule of the dataset's own.                        *)
LEMMA FeedKinds ==
    ASSUME NEW ids, NEW d, NEW i \in Nat
    PROVE  \/ Feed(ids, d, i) = Source(d)
           \/ \E j \in 1 .. i : Feed(ids, d, i) = ids[j] /\ ids[j][2] = d
<1> DEFINE own == {j \in 1 .. i : ids[j][2] = d}
<1>1. CASE own = {}
  BY <1>1 DEF Feed
<1>2. CASE own # {}
  <2>1. Max(own) \in own
    BY <1>2, HasMax
  <2>2. QED
    BY <1>2, <2>1 DEF Feed
<1>3. QED
  BY <1>1, <1>2

LEMMA FeedAgrees ==
    ASSUME NEW ids, NEW more, NEW i \in Nat, \A j \in 1 .. i : ids[j] = more[j], NEW d
    PROVE  Feed(ids, d, i) = Feed(more, d, i)
<1> DEFINE own == {j \in 1 .. i : ids[j][2] = d}
<1>1. own = {j \in 1 .. i : more[j][2] = d}
  OBVIOUS
<1>2. own # {} => ids[Max(own)] = more[Max(own)]
  BY HasMax
<1>3. QED
  BY <1>1, <1>2 DEF Feed

(* Rules put in front of a list: a node that was the source is now what    *)
(* they made of it.                                                        *)
LEMMA FeedBehind ==
    ASSUME NEW R, NEW ids \in Seq(R), NEW later \in Seq(R), NEW d,
           \A i \in 1 .. Len(later) : ~IsSource(later[i]),
           NEW k \in 0 .. Len(later)
    PROVE  Feed(ids \o later, d, Len(ids) + k)
             = IF IsSource(Feed(later, d, k)) THEN Feed(ids, d, Len(ids))
                                             ELSE Feed(later, d, k)
<1> DEFINE m == Len(ids)
           n == Len(later)
           all == ids \o later
           Q(i) == Feed(all, d, m + i) = IF IsSource(Feed(later, d, i)) THEN Feed(ids, d, m)
                                                                       ELSE Feed(later, d, i)
           S == {i \in Nat : Q(i)}
<1>1. m \in Nat /\ n \in Nat
  OBVIOUS
<1>2. /\ \A i \in 1 .. m : all[i] = ids[i]
      /\ \A i \in 1 .. n : all[m + i] = later[i]
  OBVIOUS
<1> HIDE DEF all, m, n
<1>3. 0 \in S
  <2>1. Feed(all, d, m) = Feed(ids, d, m)
    <3>1. \A j \in 1 .. m : all[j] = ids[j]
      BY <1>2
    <3>2. QED
      BY <1>1, <3>1, FeedAgrees
  <2>2. QED
    BY <1>1, <2>1, FeedStart DEF IsSource, Source
<1>4. ASSUME NEW i \in 0 .. (n - 1), i \in S PROVE i + 1 \in S
  <2>1. i \in Nat /\ i + 1 \in 1 .. n /\ Q(i)
    BY <1>1, <1>4
  <2>2. Feed(later, d, i + 1) = IF later[i + 1][2] = d THEN later[i + 1] ELSE Feed(later, d, i)
    BY <2>1, FeedNext
  <2>3. Feed(all, d, m + i + 1)
          = IF all[m + i + 1][2] = d THEN all[m + i + 1] ELSE Feed(all, d, m + i)
    BY <1>1, <2>1, FeedNext
  <2>4. all[m + i + 1] = later[i + 1] /\ ~IsSource(later[i + 1])
    BY <1>1, <1>2, <2>1 DEF n
  <2>5. QED
    BY <1>1, <2>1, <2>2, <2>3, <2>4
<1> HIDE DEF S
<1>5. \A i \in 0 .. n : i \in S
  BY <1>1, <1>3, <1>4, Stepwise
<1>6. QED
  BY <1>5 DEF S, n, m, all
-----------------------------------------------------------------------------
(* What the folds over a list of rules compute.  A fold is defined by a    *)
(* recursive function on the sets of positions; it exists on 1 .. n by     *)
(* induction on n.                                                         *)
NoSteps == [steps |-> {}, rewrite |-> Unwritten]

ApplyOn(g, ids, s) ==
    IF s = {} THEN NoSteps ELSE AddCleaningStep(g[s \ {Max(s)}], ids[Max(s)])

LEMMA ApplyIter ==
    ASSUME NEW ids, NEW n \in Nat
    PROVE  \E g : g = [s \in SUBSET (1 .. n) |-> ApplyOn(g, ids, s)]
<1> DEFINE S == {k \in Nat : \E g : g = [s \in SUBSET (1 .. k) |-> ApplyOn(g, ids, s)]}
<1>1. 0 \in S
  <2> DEFINE g == [s \in SUBSET (1 .. 0) |-> NoSteps]
  <2>1. SUBSET (1 .. 0) = {{}}
    <3>1. 1 .. 0 = {}
      OBVIOUS
    <3>2. QED
      BY <3>1
  <2>2. g = [s \in SUBSET (1 .. 0) |-> ApplyOn(g, ids, s)]
    BY <2>1 DEF ApplyOn
  <2>3. QED
    BY <2>2
<1>2. ASSUME NEW k \in 0 .. (n - 1), k \in S PROVE k + 1 \in S
  <2>1. PICK g : g = [s \in SUBSET (1 .. k) |-> ApplyOn(g, ids, s)]
    BY <1>2
  <2> DEFINE h == [s \in SUBSET (1 .. (k + 1)) |-> ApplyOn(g, ids, s)]
  <2>2. ASSUME NEW t \in SUBSET (1 .. k) PROVE h[t] = g[t]
    <3>1. t \in SUBSET (1 .. (k + 1))
      OBVIOUS
    <3>2. QED
      BY <2>1, <3>1
  <2>3. ASSUME NEW s \in SUBSET (1 .. (k + 1)) PROVE h[s] = ApplyOn(h, ids, s)
    <3>1. CASE s = {}
      BY <3>1 DEF ApplyOn
    <3>2. CASE s # {}
      <4>1. s \ {Max(s)} \in SUBSET (1 .. k)
        BY <3>2, WithoutMax
      <4>2. h[s \ {Max(s)}] = g[s \ {Max(s)}]
        BY <2>2, <4>1
      <4>3. QED
        BY <4>2 DEF ApplyOn
    <3>3. QED
      BY <3>1, <3>2
  <2>4. h = [s \in SUBSET (1 .. (k + 1)) |-> h[s]]
    OBVIOUS
  <2> HIDE DEF h
  <2>5. h = [s \in SUBSET (1 .. (k + 1)) |-> ApplyOn(h, ids, s)]
    BY <2>3, <2>4
  <2>6. k + 1 \in Nat
    BY <1>2
  <2>7. QED
    BY <2>5, <2>6
<1>3. QED
  <2> HIDE DEF S
  <2>1. n \in S
    BY <1>1, <1>2, Stepwise
  <2>2. QED
    BY <2>1 DEF S

LEMMA AppliedTrace ==
    ASSUME NEW R, NEW ids \in Seq(R)
    PROVE  \E g : /\ g = [s \in SUBSET (1 .. Len(ids)) |-> ApplyOn(g, ids, s)]
                  /\ Applied(ids) = g[1 .. Len(ids)]
<1>1. Len(ids) \in Nat /\ DOMAIN ids = 1 .. Len(ids)
  OBVIOUS
<1>2. \E g : g = [s \in SUBSET (DOMAIN ids) |-> ApplyOn(g, ids, s)]
  <2>1. \E g : g = [s \in SUBSET (1 .. Len(ids)) |-> ApplyOn(g, ids, s)]
    BY <1>1, ApplyIter
  <2>2. QED
    BY <1>1, <2>1
<1>3. Applied(ids)
        = (CHOOSE g : g = [s \in SUBSET (DOMAIN ids) |->
              IF s = {} THEN NoSteps
              ELSE AddCleaningStep(g[s \ {Max(s)}], ids[Max(s)])])[DOMAIN ids]
  BY DEF Applied, FoldLeft, MapThenFoldSet, NoSteps
<1>4. Applied(ids) = (CHOOSE g : g = [s \in SUBSET (DOMAIN ids) |->
                                         ApplyOn(g, ids, s)])[DOMAIN ids]
  BY <1>3 DEF ApplyOn
<1>5. QED
  BY <1>1, <1>2, <1>4

(* apply_cleaning_rules() makes one step of each rule, chained behind the  *)
(* rules of its dataset before it.                                         *)
LEMMA AppliedIs ==
    ASSUME NEW R, NEW ids \in Seq(R)
    PROVE  Applied(ids) =
             [steps |-> {CleaningStep(ids[i], Fed(ids, i - 1)) : i \in 1 .. Len(ids)},
              rewrite |-> Fed(ids, Len(ids))]
<1> DEFINE n == Len(ids)
           made(k) == [steps |-> {CleaningStep(ids[i], Fed(ids, i - 1)) : i \in 1 .. k},
                       rewrite |-> Fed(ids, k)]
<1>1. PICK g : /\ g = [s \in SUBSET (1 .. n) |-> ApplyOn(g, ids, s)]
               /\ Applied(ids) = g[1 .. n]
  BY AppliedTrace
<1> DEFINE S == {k \in 0 .. n : g[1 .. k] = made(k)}
<1>2. n \in Nat
  OBVIOUS
<1> HIDE DEF n
<1>3. 0 \in S
  <2>1. 1 .. 0 = {}
    OBVIOUS
  <2>2. g[1 .. 0] = NoSteps
    BY <1>1, <2>1 DEF ApplyOn
  <2>3. Fed(ids, 0) = Unwritten
    BY FeedStart DEF Fed, Unwritten
  <2>4. {CleaningStep(ids[i], Fed(ids, i - 1)) : i \in 1 .. 0} = {}
    BY <2>1
  <2>5. g[1 .. 0] = made(0)
    BY <2>2, <2>3, <2>4 DEF NoSteps
  <2>6. QED
    BY <1>2, <2>5
<1>4. ASSUME NEW k \in 0 .. (n - 1), k \in S PROVE k + 1 \in S
  <2>1. k \in Nat /\ k + 1 \in 1 .. n /\ k + 1 \in Nat \ {0}
    BY <1>2
  <2>2. /\ 1 .. (k + 1) \in SUBSET (1 .. n) /\ 1 .. (k + 1) # {}
        /\ (1 .. (k + 1)) \ {k + 1} = 1 .. k /\ 1 .. (k + 1) = (1 .. k) \cup {k + 1}
    <3>1. (k + 1) - 1 = k
      BY <2>1
    <3>2. 1 .. (k + 1) # {} /\ (1 .. (k + 1)) \ {k + 1} = 1 .. k
          /\ 1 .. (k + 1) = (1 .. k) \cup {k + 1}
      BY <2>1, <3>1, IntervalSplit
    <3>3. 1 .. (k + 1) \in SUBSET (1 .. n)
      BY <1>2, <2>1
    <3>4. QED
      BY <3>2, <3>3
  <2>3. Max(1 .. (k + 1)) = k + 1
    BY <2>1, MaxOfInterval
  <2>4. g[1 .. (k + 1)] = AddCleaningStep(g[1 .. k], ids[k + 1])
    BY <1>1, <2>2, <2>3 DEF ApplyOn
  <2>5. g[1 .. k] = made(k)
    BY <1>4
  <2>6. [Fed(ids, k) EXCEPT ![ids[k + 1][2]] = ids[k + 1]] = Fed(ids, k + 1)
    <3>1. ASSUME NEW d \in Datasets
          PROVE  Feed(ids, d, k + 1) = IF ids[k + 1][2] = d THEN ids[k + 1]
                                                           ELSE Feed(ids, d, k)
      BY <2>1, FeedNext
    <3>2. QED
      BY <3>1 DEF Fed
  <2>7. made(k + 1).steps
          = made(k).steps \cup {CleaningStep(ids[k + 1], Fed(ids, k))}
    <3>1. (k + 1) - 1 = k
      BY <2>1
    <3>2. QED
      BY <2>2, <3>1
  <2>8. made(k).rewrite = Fed(ids, k) /\ made(k + 1).rewrite = Fed(ids, k + 1)
    OBVIOUS
  <2>9. made(k + 1) = [steps |-> made(k + 1).steps, rewrite |-> made(k + 1).rewrite]
    OBVIOUS
  <2> HIDE DEF made
  <2>10. g[1 .. (k + 1)] = made(k + 1)
    BY <2>4, <2>5, <2>6, <2>7, <2>8, <2>9 DEF AddCleaningStep
  <2>11. k + 1 \in 0 .. n
    BY <1>2, <2>1
  <2>12. QED
    BY <2>10, <2>11
<1> HIDE DEF S
<1>5. n \in S
  <2>1. \A i \in 0 .. n : i \in S
    BY <1>2, <1>3, <1>4, Stepwise
  <2>2. QED
    BY <1>2, <2>1
<1>6. QED
  BY <1>1, <1>5 DEF S, n
-----------------------------------------------------------------------------
CleanOwn(d, f, rule) == IF rule[2] = d THEN Clean(f, rule) ELSE f

CleanOn(g, d, s) ==
    IF s = {} THEN sources[d] ELSE CleanOwn(d, g[s \ {Max(s)}], approved[Max(s)])

LEMMA CleanIter ==
    ASSUME NEW d, NEW n \in Nat
    PROVE  \E g : g = [s \in SUBSET (1 .. n) |-> CleanOn(g, d, s)]
<1> DEFINE S == {k \in Nat : \E g : g = [s \in SUBSET (1 .. k) |-> CleanOn(g, d, s)]}
<1>1. 0 \in S
  <2> DEFINE g == [s \in SUBSET (1 .. 0) |-> sources[d]]
  <2>1. SUBSET (1 .. 0) = {{}}
    <3>1. 1 .. 0 = {}
      OBVIOUS
    <3>2. QED
      BY <3>1
  <2>2. g = [s \in SUBSET (1 .. 0) |-> CleanOn(g, d, s)]
    BY <2>1 DEF CleanOn
  <2>3. QED
    BY <2>2
<1>2. ASSUME NEW k \in 0 .. (n - 1), k \in S PROVE k + 1 \in S
  <2>1. PICK g : g = [s \in SUBSET (1 .. k) |-> CleanOn(g, d, s)]
    BY <1>2
  <2> DEFINE h == [s \in SUBSET (1 .. (k + 1)) |-> CleanOn(g, d, s)]
  <2>2. ASSUME NEW t \in SUBSET (1 .. k) PROVE h[t] = g[t]
    <3>1. t \in SUBSET (1 .. (k + 1))
      OBVIOUS
    <3>2. QED
      BY <2>1, <3>1
  <2>3. ASSUME NEW s \in SUBSET (1 .. (k + 1)) PROVE h[s] = CleanOn(h, d, s)
    <3>1. CASE s = {}
      BY <3>1 DEF CleanOn
    <3>2. CASE s # {}
      <4>1. s \ {Max(s)} \in SUBSET (1 .. k)
        BY <3>2, WithoutMax
      <4>2. h[s \ {Max(s)}] = g[s \ {Max(s)}]
        BY <2>2, <4>1
      <4>3. QED
        BY <4>2 DEF CleanOn
    <3>3. QED
      BY <3>1, <3>2
  <2>4. h = [s \in SUBSET (1 .. (k + 1)) |-> h[s]]
    OBVIOUS
  <2> HIDE DEF h
  <2>5. h = [s \in SUBSET (1 .. (k + 1)) |-> CleanOn(h, d, s)]
    BY <2>3, <2>4
  <2>6. k + 1 \in Nat
    BY <1>2
  <2>7. QED
    BY <2>5, <2>6
<1>3. QED
  <2> HIDE DEF S
  <2>1. n \in S
    BY <1>1, <1>2, Stepwise
  <2>2. QED
    BY <2>1 DEF S

(* The recursion of Cleaned, and the fold it is.                           *)
LEMMA CleanedIs ==
    ASSUME NEW R, approved \in Seq(R), NEW d
    PROVE  /\ Cleaned(d)[0] = sources[d]
           /\ \A i \in 1 .. Len(approved) :
                Cleaned(d)[i] = CleanOwn(d, Cleaned(d)[i - 1], approved[i])
           /\ Cleaned(d)[Len(approved)]
                = FoldLeft(LAMBDA g, rule : IF rule[2] = d THEN Clean(g, rule) ELSE g,
                           sources[d], approved)
<1> DEFINE n == Len(approved)
           After(a, i) == IF i = 0 THEN sources[d] ELSE CleanOwn(d, a[i - 1], approved[i])
           fold == FoldLeft(LAMBDA g, rule : IF rule[2] = d THEN Clean(g, rule) ELSE g,
                            sources[d], approved)
<1>1. n \in Nat /\ DOMAIN approved = 1 .. n
  OBVIOUS
<1>2. \E g : g = [s \in SUBSET (DOMAIN approved) |-> CleanOn(g, d, s)]
  <2> HIDE DEF n
  <2>1. \E g : g = [s \in SUBSET (1 .. n) |-> CleanOn(g, d, s)]
    BY <1>1, CleanIter
  <2>2. QED
    BY <1>1, <2>1
<1>3. fold = (CHOOSE g : g = [s \in SUBSET (DOMAIN approved) |->
                CleanOn(g, d, s)])[DOMAIN approved]
  <2>1. fold = (CHOOSE g : g = [s \in SUBSET (DOMAIN approved) |->
                  IF s = {} THEN sources[d]
                  ELSE IF approved[Max(s)][2] = d
                  THEN Clean(g[s \ {Max(s)}], approved[Max(s)])
                  ELSE g[s \ {Max(s)}]])[DOMAIN approved]
    BY DEF FoldLeft, MapThenFoldSet
  <2>2. QED
    BY <2>1 DEF CleanOn, CleanOwn
<1>4. PICK g : /\ g = [s \in SUBSET (1 .. n) |-> CleanOn(g, d, s)]
               /\ fold = g[1 .. n]
  BY <1>1, <1>2, <1>3
<1> HIDE DEF n, fold
<1> DEFINE a == [i \in 0 .. n |-> g[1 .. i]]
<1>5. ASSUME NEW i \in 0 .. n PROVE a[i] = After(a, i)
  <2>1. CASE i = 0
    <3>1. 1 .. 0 = {}
      OBVIOUS
    <3>2. QED
      BY <1>1, <1>4, <2>1, <3>1 DEF CleanOn
  <2>2. CASE i # 0
    <3>1. i \in Nat \ {0} /\ i - 1 \in 0 .. n /\ 1 .. i \in SUBSET (1 .. n)
      BY <1>1, <2>2
    <3>0. 1 .. i # {} /\ (1 .. i) \ {i} = 1 .. (i - 1)
      BY <3>1, IntervalSplit
    <3>2. Max(1 .. i) = i
      BY <3>1, MaxOfInterval
    <3>3. g[1 .. i] = CleanOwn(d, g[1 .. (i - 1)], approved[i])
      BY <1>4, <3>0, <3>1, <3>2 DEF CleanOn
    <3>4. a[i] = g[1 .. i] /\ a[i - 1] = g[1 .. (i - 1)]
      BY <3>1
    <3>5. QED
      BY <2>2, <3>3, <3>4
  <2>3. QED
    BY <2>1, <2>2
<1>6. a = [i \in 0 .. n |-> After(a, i)]
  <2> HIDE DEF a
  <2>1. a = [i \in 0 .. n |-> a[i]]
    BY DEF a
  <2>2. QED
    BY <1>5, <2>1
<1>7. Cleaned(d) = CHOOSE b : b = [i \in 0 .. n |-> After(b, i)]
  BY DEF Cleaned, CleanOwn, n
<1>8. Cleaned(d) = [i \in 0 .. n |-> After(Cleaned(d), i)]
  <2> HIDE DEF a, After
  <2>1. \E b : b = [i \in 0 .. n |-> After(b, i)]
    BY <1>6
  <2>2. QED
    BY <1>7, <2>1
<1>9. \A i \in 0 .. n : Cleaned(d)[i] = a[i]
  <2> DEFINE S == {i \in 0 .. n : Cleaned(d)[i] = a[i]}
  <2> HIDE DEF a
  <2>1. 0 \in S
    BY <1>1, <1>5, <1>8
  <2>2. ASSUME NEW i \in 0 .. (n - 1), i \in S PROVE i + 1 \in S
    <3>1. i + 1 \in 0 .. n /\ i + 1 # 0 /\ (i + 1) - 1 = i
      BY <1>1
    <3>2. a[i + 1] = After(a, i + 1) /\ Cleaned(d)[i + 1] = After(Cleaned(d), i + 1)
      BY <1>5, <1>8, <3>1
    <3>3. QED
      BY <2>2, <3>1, <3>2
  <2> HIDE DEF S
  <2>3. \A i \in 0 .. n : i \in S
    BY <1>1, <2>1, <2>2, Stepwise
  <2>4. QED
    BY <2>3 DEF S
<1>10. Cleaned(d)[n] = fold
  <2>1. n \in 0 .. n /\ a[n] = g[1 .. n]
    BY <1>1
  <2>2. QED
    BY <1>4, <1>9, <2>1
<1>11. /\ Cleaned(d)[0] = sources[d]
       /\ \A i \in 1 .. n : Cleaned(d)[i] = CleanOwn(d, Cleaned(d)[i - 1], approved[i])
  BY <1>1, <1>8
<1>12. QED
  BY <1>10, <1>11 DEF n, fold
-----------------------------------------------------------------------------
(* The rules a plan proposes that have an operation: the text of a column  *)
(* or the copies of a dataset.                                             *)
IsRule(rule) == /\ rule[2] \in Datasets
                /\ \/ rule = <<"dedup", rule[2]>>
                   \/ /\ rule = <<"text_clean", rule[2], rule[3]>>
                      /\ rule[3] \in Of(profiles, rule[2])

LEMMA PlacesFacts ==
    ASSUME Profiled, ContractOK, NEW place \in Places(MappingsNow)
    PROVE  IsPlace(place)
BY MappingFacts DEF Places, Mapped

LEMMA IssueFacts ==
    ASSUME Profiled, ContractOK, NEW issue \in IssuesNow
    PROVE  /\ issue.rule[1] = "duplicates" =>
                \E d \in Datasets : issue.rule = <<"duplicates", d>>
           /\ issue.rule[1] = "text_formatting" =>
                \E place : IsPlace(place)
                    /\ issue.rule = <<"text_formatting", place[1], place[2]>>
<1>1. ASSUME NEW place \in Places(MappingsNow), NEW kind
      PROVE  IsPlace(place) /\ <<kind>> \o place = <<kind, place[1], place[2]>>
  BY <1>1, PlacesFacts, PlaceConcatenates
<1>2. CASE issue \in CompletenessIssues(MappingsNow, profiles)
  <2>1. PICK place \in Places(MappingsNow) : issue.rule = <<"completeness">> \o place
    BY <1>2 DEF CompletenessIssues, Issue
  <2>2. QED
    BY <1>1, <2>1
<1>3. CASE issue \in TextFormattingIssues(MappingsNow, profiles)
  <2>1. PICK place \in Places(MappingsNow) : issue.rule = <<"text_formatting">> \o place
    BY <1>3 DEF TextFormattingIssues, Issue
  <2>2. QED
    BY <1>1, <2>1
<1>4. CASE issue \in DuplicateIssues(profiles)
  BY <1>4, ProfilesFacts DEF DuplicateIssues, Issue
<1>5. CASE issue \in UniquenessWarnings(profiles)
  BY <1>5 DEF UniquenessWarnings, Issue
<1>6. CASE issue \in CrossSourceDtypeWarnings(profiles)
  BY <1>6 DEF CrossSourceDtypeWarnings, Issue
<1>7. CASE issue \in CurrencyIssues(contract, MappingsNow)
  BY <1>7 DEF CurrencyIssues, Issue
<1>8. CASE issue \in TimeIssues(contract, profiles)
  BY <1>8 DEF TimeIssues, Issue
<1>9. QED
  BY <1>2, <1>3, <1>4, <1>5, <1>6, <1>7, <1>8 DEF IssuesNow, Issues

LEMMA RuleFacts ==
    ASSUME Profiled, ContractOK, plan = Propose(contract, IssuesNow),
           NEW rule \in RuleIds(plan)
    PROVE  \/ rule \in {<<"null_policy", c>> : c \in DOMAIN contract.policy}
           \/ IsRule(rule)
<1>1. CASE \E r \in PolicyRules(contract) : rule = r.id
  BY <1>1 DEF PolicyRules, Rule
<1>2. ASSUME NEW r \in OfKind(IssuesNow, "duplicates"), rule = <<"dedup", r[2]>>
      PROVE  IsRule(rule)
  <2>1. PICK issue \in IssuesNow : issue.rule = r /\ r[1] = "duplicates"
    BY DEF OfKind, Actionable
  <2>2. QED
    BY <1>2, <2>1, IssueFacts DEF IsRule
<1>3. ASSUME NEW r \in OfKind(IssuesNow, "text_formatting"),
             rule = <<"text_clean", r[2], r[3]>>
      PROVE  IsRule(rule)
  <2>1. PICK issue \in IssuesNow : issue.rule = r /\ r[1] = "text_formatting"
    BY DEF OfKind, Actionable
  <2>2. PICK place : IsPlace(place) /\ r = <<"text_formatting", place[1], place[2]>>
    BY <2>1, IssueFacts
  <2>3. QED
    BY <1>3, <2>2 DEF IsRule, IsPlace
<1>4. QED
  BY <1>1, <1>2, <1>3 DEF RuleIds, Propose, Rule

LEMMA AppliableFacts ==
    ASSUME NEW rule, Appliable(rule),
           \/ rule \in {<<"null_policy", c>> : c \in DOMAIN contract.policy}
           \/ IsRule(rule)
    PROVE  IsRule(rule) /\ ~IsSource(rule) /\ rule[1] # "step"
BY DEF Appliable, IsRule, IsSource

LEMMA FiniteRules ==
    ASSUME Profiled, ContractOK, plan = Propose(contract, IssuesNow)
    PROVE  IsFiniteSet(RuleIds(plan))
<1> DEFINE columns == UNION {Of(profiles, d) : d \in Datasets}
           policy  == [c \in DOMAIN contract.policy |-> <<"null_policy", c>>]
           dedup   == [d \in Datasets |-> <<"dedup", d>>]
           pairs   == Datasets \X columns
           clean   == [p \in pairs |-> <<"text_clean", p[1], p[2]>>]
           all     == {policy[c] : c \in DOMAIN contract.policy}
                        \cup {dedup[d] : d \in Datasets} \cup {clean[p] : p \in pairs}
<1>1. IsFiniteSet(Datasets) /\ IsFiniteSet(DOMAIN contract.policy)
  BY SourcesAssumption DEF ContractOK
<1>2. IsFiniteSet(columns)
  <2> DEFINE of == [d \in Datasets |-> Of(profiles, d)]
  <2>1. IsFiniteSet({of[d] : d \in Datasets})
    <3>1. of = [d \in Datasets |-> of[d]]
      OBVIOUS
    <3> HIDE DEF of
    <3>2. QED
      BY <1>1, <3>1, FiniteImage
  <2>2. \A T \in {of[d] : d \in Datasets} : IsFiniteSet(T)
    BY ProfilesFacts
  <2>3. IsFiniteSet(UNION {of[d] : d \in Datasets})
    BY <2>1, <2>2, FS_UNION
  <2>4. QED
    BY <2>3
<1>3. IsFiniteSet(pairs)
  BY <1>1, <1>2, FS_Product
<1>4. /\ IsFiniteSet({policy[c] : c \in DOMAIN contract.policy})
      /\ IsFiniteSet({dedup[d] : d \in Datasets})
  <2>1. /\ policy = [c \in DOMAIN contract.policy |-> policy[c]]
        /\ dedup = [d \in Datasets |-> dedup[d]]
    OBVIOUS
  <2> HIDE DEF policy, dedup
  <2>2. QED
    BY <1>1, <2>1, FiniteImage
<1>5. IsFiniteSet({clean[p] : p \in pairs})
  <2>1. clean = [p \in pairs |-> clean[p]]
    OBVIOUS
  <2> HIDE DEF clean, pairs
  <2>2. QED
    BY <1>3, <2>1, FiniteImage
<1>6. IsFiniteSet(all)
  <2> HIDE DEF policy, dedup, clean, pairs
  <2>1. QED
    BY <1>4, <1>5, FS_Union
<1>7. ASSUME NEW rule \in RuleIds(plan) PROVE rule \in all
  <2>1. CASE rule \in {<<"null_policy", c>> : c \in DOMAIN contract.policy}
    BY <2>1
  <2>2. CASE IsRule(rule)
    <3>1. CASE rule = <<"dedup", rule[2]>>
      BY <2>2, <3>1 DEF IsRule
    <3>2. CASE rule # <<"dedup", rule[2]>>
      <4> DEFINE p == <<rule[2], rule[3]>>
      <4>1. rule = <<"text_clean", p[1], p[2]>> /\ p \in pairs
        BY <2>2, <3>2 DEF IsRule
      <4>2. rule = clean[p]
        BY <4>1
      <4> HIDE DEF p, clean, pairs, policy, dedup
      <4>3. QED
        BY <4>1, <4>2
    <3>3. QED
      BY <3>1, <3>2
  <2>3. QED
    BY <2>1, <2>2, RuleFacts
<1>8. QED
  <2> HIDE DEF all
  <2>1. RuleIds(plan) \in SUBSET all
    BY <1>7
  <2>2. QED
    BY <1>6, <2>1, FS_Subset
-----------------------------------------------------------------------------
(* apply_cleaning_rules() puts the new steps between the sources and what  *)
(* read them.                                                              *)
LEMMA SetToSeqsFacts ==
    ASSUME NEW S, IsFiniteSet(S), NEW s \in SetToSeqs(S)
    PROVE  /\ s \in Seq(S) /\ Range(s) = S /\ DOMAIN s = 1 .. Len(s)
           /\ \A i, j \in DOMAIN s : s[i] = s[j] => i = j
<1> DEFINE n == Cardinality(S)
<1>1. n \in Nat
  BY FS_CardinalityType
<1>2. s \in [1 .. n -> S] /\ \A i, j \in 1 .. n : i # j => s[i] # s[j]
  BY DEF SetToSeqs
<1>3. Cardinality(1 .. n) = n
  BY <1>1, FS_Interval
<1>4. s \in Injection(1 .. n, S)
  BY <1>2 DEF Injection, IsInjective
<1>5. s \in Surjection(1 .. n, S)
  BY <1>3, <1>4, FS_Injection
<1> HIDE DEF n
<1>6. QED
  BY <1>1, <1>2, <1>5 DEF Surjection, Range

RewireNode(node, rewrite) == IF IsSource(node) THEN rewrite[node[2]] ELSE node

LEMMA RewiredPlan ==
    ASSUME NEW name, NEW rewrite
    PROVE  Rewire(PlannedStep(name), rewrite) =
             [id |-> <<"step", name>>, op |-> "planned",
              inputs |-> [n \in DOMAIN Readers[name] |-> rewrite[Readers[name][n]]],
              column |-> Null, keys |-> {}]
<1> DEFINE step == PlannedStep(name)
           inputs == [n \in DOMAIN step.inputs |->
                        IF IsSource(step.inputs[n]) THEN rewrite[step.inputs[n][2]]
                                                    ELSE step.inputs[n]]
           read == [n \in DOMAIN Readers[name] |-> rewrite[Readers[name][n]]]
<1>1. step.inputs = [n \in DOMAIN Readers[name] |-> Source(Readers[name][n])]
  BY DEF PlannedStep
<1>2. inputs = read
  BY <1>1 DEF IsSource, Source
<1>3. Rewire(step, rewrite) = [step EXCEPT !.inputs = inputs]
  BY DEF Rewire
<1> HIDE DEF inputs, read
<1>4. [step EXCEPT !.inputs = read] = [id |-> <<"step", name>>, op |-> "planned",
                                       inputs |-> read, column |-> Null, keys |-> {}]
  <2>1. step = [id |-> <<"step", name>>, op |-> "planned", inputs |-> step.inputs,
                column |-> Null, keys |-> {}]
    BY DEF PlannedStep
  <2> HIDE DEF step
  <2>2. QED
    BY <2>1
<1>5. QED
  BY <1>2, <1>3, <1>4 DEF read

LEMMA RewiredClean ==
    ASSUME NEW rule, NEW rewrite, NEW front, NEW behind,
           behind[rule[2]] = RewireNode(rewrite[rule[2]], front)
    PROVE  Rewire(CleaningStep(rule, rewrite), front) = CleaningStep(rule, behind)
<1> DEFINE step == CleaningStep(rule, rewrite)
           node == rewrite[rule[2]]
           inputs == [n \in DOMAIN step.inputs |->
                        IF IsSource(step.inputs[n]) THEN front[step.inputs[n][2]]
                                                    ELSE step.inputs[n]]
<1>1. step.inputs = <<node>>
  BY DEF CleaningStep
<1>2. DOMAIN inputs = 1 .. 1 /\ inputs[1] = behind[rule[2]]
  BY <1>1 DEF RewireNode
<1>3. inputs = <<behind[rule[2]]>>
  <2>1. inputs \in Seq({behind[rule[2]]}) /\ Len(inputs) = 1
    <3>1. inputs = [n \in 1 .. 1 |-> inputs[n]] /\ \A n \in 1 .. 1 : inputs[n] = behind[rule[2]]
      BY <1>2
    <3> HIDE DEF inputs
    <3>2. inputs \in [1 .. 1 -> {behind[rule[2]]}]
      BY <3>1
    <3>3. \A k \in Nat : inputs \in [1 .. k -> {behind[rule[2]]}] =>
              inputs \in Seq({behind[rule[2]]}) /\ Len(inputs) = k
      OBVIOUS
    <3>4. QED
      BY <3>2, <3>3
  <2> HIDE DEF inputs
  <2>2. \A i \in 1 .. Len(inputs) : inputs[i] = <<behind[rule[2]]>>[i]
    BY <1>2, <2>1
  <2>3. QED
    BY <2>1, <2>2, SeqEqual
<1>4. Rewire(step, front) = [step EXCEPT !.inputs = inputs]
  BY DEF Rewire
<1> HIDE DEF inputs
<1>5. QED
  BY <1>3, <1>4 DEF CleaningStep

LEMMA FedBehind ==
    ASSUME NEW R, NEW ids \in Seq(R), NEW later \in Seq(R),
           \A i \in 1 .. Len(later) : ~IsSource(later[i]),
           NEW k \in 0 .. Len(later), NEW d \in Datasets
    PROVE  Fed(ids \o later, Len(ids) + k)[d]
             = RewireNode(Fed(later, k)[d], Fed(ids, Len(ids)))
<1>1. Feed(ids \o later, d, Len(ids) + k)
        = IF IsSource(Feed(later, d, k)) THEN Feed(ids, d, Len(ids)) ELSE Feed(later, d, k)
  BY FeedBehind, ZenonT(40)
<1>2. IsSource(Feed(later, d, k)) => Feed(later, d, k) = Source(d)
  <2>1. k \in Nat /\ 1 .. k \subseteq 1 .. Len(later)
    OBVIOUS
  <2>2. QED
    BY <2>1, FeedKinds
<1>3. QED
  BY <1>1, <1>2 DEF RewireNode, Fed, Source

ChainOf(ids) ==
    {Rewire(step, Fed(ids, Len(ids))) : step \in PlannedWorkflow}
      \cup {CleaningStep(ids[i], Fed(ids, i - 1)) : i \in 1 .. Len(ids)}

LEMMA NewChain ==
    ASSUME NEW R, NEW ids \in Seq(R), approved \in Seq(R),
           \A i \in 1 .. Len(approved) : ~IsSource(approved[i]) /\ approved[i][2] \in Datasets,
           \A name \in DOMAIN Readers : \A n \in DOMAIN Readers[name] :
              Readers[name][n] \in Datasets,
           workflow = ChainOf(approved)
    PROVE  CleanedWorkflow(ids) = ChainOf(ids \o approved)
<1> DEFINE m == Len(ids)
           n == Len(approved)
           all == ids \o approved
           front == Fed(ids, m)
<1>1. /\ m \in Nat /\ n \in Nat /\ Len(all) = m + n
      /\ \A i \in 1 .. m : all[i] = ids[i]
      /\ \A i \in 1 .. n : all[m + i] = approved[i]
  OBVIOUS
<1>2. ASSUME NEW k \in 0 .. n, NEW d \in Datasets
      PROVE  Fed(all, m + k)[d] = RewireNode(Fed(approved, k)[d], front)
  BY FedBehind
<1>3. Applied(ids).rewrite = front
      /\ Applied(ids).steps = {CleaningStep(ids[i], Fed(ids, i - 1)) : i \in 1 .. m}
  BY AppliedIs
<1> HIDE DEF m, n, all, front
<1>4. ASSUME NEW name \in DOMAIN Readers
      PROVE  Rewire(Rewire(PlannedStep(name), Fed(approved, n)), front)
               = Rewire(PlannedStep(name), Fed(all, m + n))
  <2> DEFINE step == Rewire(PlannedStep(name), Fed(approved, n))
             nodes(rw) == [i \in DOMAIN Readers[name] |-> rw[Readers[name][i]]]
  <2>1. step = [id |-> <<"step", name>>, op |-> "planned", inputs |-> nodes(Fed(approved, n)),
                column |-> Null, keys |-> {}]
    BY RewiredPlan
  <2>2. \A i \in DOMAIN Readers[name] :
          Fed(all, m + n)[Readers[name][i]]
            = RewireNode(Fed(approved, n)[Readers[name][i]], front)
    BY <1>1, <1>2
  <2>3. [i \in DOMAIN step.inputs |-> IF IsSource(step.inputs[i])
                                       THEN front[step.inputs[i][2]] ELSE step.inputs[i]]
          = nodes(Fed(all, m + n))
    BY <2>1, <2>2 DEF RewireNode
  <2>4. Rewire(step, front) = [step EXCEPT !.inputs = nodes(Fed(all, m + n))]
    BY <2>3 DEF Rewire
  <2> HIDE DEF step
  <2>5. Rewire(step, front) =
          [id |-> <<"step", name>>, op |-> "planned", inputs |-> nodes(Fed(all, m + n)),
           column |-> Null, keys |-> {}]
    BY <2>1, <2>4
  <2>6. QED
    BY <2>5, RewiredPlan DEF step
<1>5. ASSUME NEW i \in 1 .. n
      PROVE  Rewire(CleaningStep(approved[i], Fed(approved, i - 1)), front)
               = CleaningStep(all[m + i], Fed(all, (m + i) - 1))
  <2>1. i - 1 \in 0 .. n /\ (m + i) - 1 = m + (i - 1) /\ approved[i][2] \in Datasets
    BY <1>1 DEF n
  <2>2. Fed(all, m + (i - 1))[approved[i][2]]
          = RewireNode(Fed(approved, i - 1)[approved[i][2]], front)
    BY <1>2, <2>1
  <2>3. Rewire(CleaningStep(approved[i], Fed(approved, i - 1)), front)
          = CleaningStep(approved[i], Fed(all, m + (i - 1)))
    BY <2>2, RewiredClean
  <2>4. QED
    BY <1>1, <2>1, <2>3
<1>6. ASSUME NEW i \in 1 .. m
      PROVE  CleaningStep(ids[i], Fed(ids, i - 1)) = CleaningStep(all[i], Fed(all, i - 1))
  <2>1. i - 1 \in Nat /\ \A j \in 1 .. (i - 1) : ids[j] = all[j]
    BY <1>1
  <2>2. \A d : Feed(ids, d, i - 1) = Feed(all, d, i - 1)
    BY <2>1, FeedAgrees
  <2>3. QED
    BY <1>1, <2>2 DEF Fed
<1>7. CleanedWorkflow(ids) =
        {Rewire(step, front) : step \in workflow}
          \cup {CleaningStep(ids[i], Fed(ids, i - 1)) : i \in 1 .. m}
  BY <1>3 DEF CleanedWorkflow
<1>8. {Rewire(step, front) : step \in workflow}
        = {Rewire(step, Fed(all, m + n)) : step \in PlannedWorkflow}
            \cup {CleaningStep(all[m + i], Fed(all, (m + i) - 1)) : i \in 1 .. n}
  <2>1. {Rewire(step, front) : step \in workflow}
          = {Rewire(Rewire(step, Fed(approved, n)), front) : step \in PlannedWorkflow}
              \cup {Rewire(CleaningStep(approved[i], Fed(approved, i - 1)), front) :
                      i \in 1 .. n}
    BY DEF ChainOf, n
  <2>2. \A step \in PlannedWorkflow :
          Rewire(Rewire(step, Fed(approved, n)), front) = Rewire(step, Fed(all, m + n))
    BY <1>4 DEF PlannedWorkflow
  <2>3. QED
    BY <1>5, <2>1, <2>2
<1>9. {CleaningStep(all[i], Fed(all, i - 1)) : i \in 1 .. (m + n)}
        = {CleaningStep(all[i], Fed(all, i - 1)) : i \in 1 .. m}
            \cup {CleaningStep(all[m + i], Fed(all, (m + i) - 1)) : i \in 1 .. n}
  <2> DEFINE at(i) == CleaningStep(all[i], Fed(all, i - 1))
  <2>1. ASSUME NEW i \in 1 .. (m + n)
        PROVE  i \in 1 .. m \/ \E j \in 1 .. n : i = m + j
    <3>1. i \in 1 .. m \/ (i - m \in 1 .. n /\ i = m + (i - m))
      BY <1>1
    <3>2. QED
      BY <3>1
  <2>2. (\A i \in 1 .. m : i \in 1 .. (m + n)) /\ \A j \in 1 .. n : m + j \in 1 .. (m + n)
    BY <1>1
  <2> HIDE DEF at
  <2>3. {at(i) : i \in 1 .. (m + n)} = {at(i) : i \in 1 .. m} \cup {at(m + j) : j \in 1 .. n}
    BY <2>1, <2>2
  <2>4. QED
    BY <2>3 DEF at
<1>10. {CleaningStep(ids[i], Fed(ids, i - 1)) : i \in 1 .. m}
         = {CleaningStep(all[i], Fed(all, i - 1)) : i \in 1 .. m}
  BY <1>6
<1>11. CleanedWorkflow(ids)
         = {Rewire(step, Fed(all, m + n)) : step \in PlannedWorkflow}
             \cup {CleaningStep(all[i], Fed(all, i - 1)) : i \in 1 .. (m + n)}
  BY <1>7, <1>8, <1>9, <1>10, Zenon
<1>12. QED
  BY <1>1, <1>11 DEF ChainOf, all
-----------------------------------------------------------------------------
(* What a rule makes of a frame.                                           *)
LEMMA TextCleanFacts ==
    ASSUME NEW f, IsFrame(f), NEW c
    PROVE  LET g == TextClean(f, c)
           IN  /\ IsFrame(g) /\ g.dtype = f.dtype /\ Height(g) = Height(f)
               /\ Rows(g) = {[r EXCEPT ![c] = Folded(r[c])] : r \in Rows(f)}
<1> DEFINE g == TextClean(f, c)
           n == Height(f)
           row == [i \in 1 .. n |-> [f.rows[i] EXCEPT ![c] = Folded(f.rows[i][c])]]
<1>1. n \in Nat /\ DOMAIN f.rows = 1 .. n /\ f = [dtype |-> f.dtype, rows |-> f.rows]
      /\ IsFiniteSet(Columns(f)) /\ Rows(f) = {f.rows[i] : i \in 1 .. n}
  BY FrameFacts
<1>2. ASSUME NEW i \in 1 .. n PROVE f.rows[i] = [b \in Columns(f) |-> f.rows[i][b]]
  BY FrameFacts
<1>3. g = [f EXCEPT !.rows = row]
  BY <1>1 DEF TextClean
<1> HIDE DEF n
<1>4. \A i \in 1 .. n : row[i] = [f.rows[i] EXCEPT ![c] = Folded(f.rows[i][c])]
  OBVIOUS
<1>5. row = [i \in 1 .. n |-> row[i]]
  OBVIOUS
<1> HIDE DEF row, g
<1>6. g.dtype = f.dtype /\ g.rows = row /\ g = [dtype |-> g.dtype, rows |-> g.rows]
  BY <1>1, <1>3
<1>7. \A i \in 1 .. n : row[i] = [b \in Columns(f) |-> row[i][b]]
  BY <1>2, <1>4
<1>8. IsFrame(g) /\ Height(g) = n /\ Rows(g) = {g.rows[i] : i \in 1 .. n}
  BY <1>1, <1>5, <1>6, <1>7, IsFrameOf DEF Columns
<1>9. Rows(g) = {[r EXCEPT ![c] = Folded(r[c])] : r \in Rows(f)}
  <2> DEFINE folded(r) == [r EXCEPT ![c] = Folded(r[c])]
  <2>1. \A i \in 1 .. n : row[i] = folded(f.rows[i])
    BY <1>4
  <2> HIDE DEF folded
  <2>2. Rows(g) = {folded(r) : r \in Rows(f)}
    BY <1>1, <1>6, <1>8, <2>1
  <2>3. QED
    BY <2>2 DEF folded
<1>10. QED
  BY <1>6, <1>8, <1>9 DEF g, n

LEMMA DedupFacts ==
    ASSUME NEW f, IsFrame(f), NEW rule, rule[1] # "text_clean"
    PROVE  LET p == FullRow(Of(profiles, rule[2]))
           IN  /\ Deduplicated(f, p) = {Clean(f, rule)}
               /\ Clean(f, rule) = RowsAt(f, FirstOfEach(f, p.keys))
<1> DEFINE p == FullRow(Of(profiles, rule[2]))
<1>1. p.keep = "first" /\ p.orderBy = Null
  BY DEF FullRow
<1> HIDE DEF p
<1>2. Deduplicated(f, p) = {RowsAt(f, FirstOfEach(f, p.keys))}
  BY <1>1, FirstRowsStay
<1>3. Clean(f, rule) = CHOOSE out \in Deduplicated(f, p) : TRUE
  BY DEF Clean, p
<1>4. QED
  BY <1>2, <1>3 DEF p

LEMMA CleanFrame ==
    ASSUME NEW f, IsFrame(f), NEW rule
    PROVE  IsFrame(Clean(f, rule)) /\ Clean(f, rule).dtype = f.dtype
<1>1. CASE rule[1] = "text_clean"
  BY <1>1, TextCleanFacts DEF Clean
<1>2. CASE rule[1] # "text_clean"
  <2>1. FirstOfEach(f, FullRow(Of(profiles, rule[2])).keys) \in SUBSET (DOMAIN f.rows)
    BY DEF FirstOfEach
  <2>2. QED
    BY <1>2, <2>1, DedupFacts, RowsAtFacts
<1>3. QED
  BY <1>1, <1>2

LEMMA CleanedFrames ==
    ASSUME SourcesOK, NEW R, approved \in Seq(R), NEW d \in Datasets
    PROVE  \A k \in 0 .. Len(approved) :
              IsFrame(Cleaned(d)[k]) /\ Cleaned(d)[k].dtype = sources[d].dtype
<1> DEFINE S == {k \in Nat : IsFrame(Cleaned(d)[k]) /\ Cleaned(d)[k].dtype = sources[d].dtype}
<1>1. Len(approved) \in Nat
  OBVIOUS
<1>2. 0 \in S
  BY CleanedIs DEF SourcesOK
<1>3. ASSUME NEW k \in 0 .. (Len(approved) - 1), k \in S PROVE k + 1 \in S
  <2>1. k + 1 \in 1 .. Len(approved) /\ (k + 1) - 1 = k /\ k + 1 \in Nat
    BY <1>1
  <2>2. Cleaned(d)[k + 1] = CleanOwn(d, Cleaned(d)[k], approved[k + 1])
    BY <2>1, CleanedIs
  <2>3. QED
    BY <1>3, <2>1, <2>2, CleanFrame DEF CleanOwn
<1> HIDE DEF S
<1>4. \A k \in 0 .. Len(approved) : k \in S
  BY <1>1, <1>2, <1>3, Stepwise
<1>5. QED
  BY <1>4 DEF S

(* The frame a node holds is its dataset, cleaned that far.                *)
LEMMA FeedFrame ==
    ASSUME FramesOfNodes, Running, NEW R, approved \in Seq(R), NEW d \in Datasets
    PROVE  \A k \in 0 .. Len(approved) : Feed(approved, d, k) \in DOMAIN frames =>
              frames[Feed(approved, d, k)] = Cleaned(d)[k]
<1> DEFINE S == {k \in Nat : Feed(approved, d, k) \in DOMAIN frames =>
                                frames[Feed(approved, d, k)] = Cleaned(d)[k]}
<1>1. Len(approved) \in Nat /\ DOMAIN approved = 1 .. Len(approved)
  OBVIOUS
<1>2. 0 \in S
  <2>1. Cleaned(d)[0] = sources[d]
    BY CleanedIs
  <2>2. Feed(approved, d, 0) = Source(d) /\ frames[Source(d)] = sources[d]
    BY FeedStart DEF FramesOfNodes
  <2>3. QED
    BY <2>1, <2>2
<1>3. ASSUME NEW k \in 0 .. (Len(approved) - 1), k \in S PROVE k + 1 \in S
  <2>1. k + 1 \in 1 .. Len(approved) /\ (k + 1) - 1 = k /\ k + 1 \in Nat \ {0}
    BY <1>1
  <2>2. Cleaned(d)[k + 1] = CleanOwn(d, Cleaned(d)[k], approved[k + 1])
    BY <2>1, CleanedIs
  <2>3. Feed(approved, d, k + 1) = IF approved[k + 1][2] = d THEN approved[k + 1]
                                                            ELSE Feed(approved, d, k)
    BY <2>1, FeedNext
  <2>4. CASE approved[k + 1][2] = d
    BY <1>1, <2>1, <2>3, <2>4 DEF FramesOfNodes
  <2>5. CASE approved[k + 1][2] # d
    BY <1>3, <2>1, <2>2, <2>3, <2>5 DEF CleanOwn
  <2>6. QED
    BY <2>4, <2>5
<1> HIDE DEF S
<1>4. \A k \in 0 .. Len(approved) : k \in S
  BY <1>1, <1>2, <1>3, Stepwise
<1>5. QED
  BY <1>4 DEF S
-----------------------------------------------------------------------------
(* The chain of cleaning steps, from approval to execution, is inductive.  *)
LEMMA ApprovedFacts ==
    ASSUME ChainInv, Planned
    PROVE  /\ Profiled /\ ContractOK /\ plan = Propose(contract, IssuesNow)
           /\ approved \in Seq(RuleIds(plan))
           /\ Len(approved) \in Nat /\ DOMAIN approved = 1 .. Len(approved)
           /\ \A i \in 1 .. Len(approved) :
                IsRule(approved[i]) /\ ~IsSource(approved[i]) /\ approved[i][1] # "step"
           /\ workflow = ChainOf(approved)
<1>1. Profiled /\ ContractOK /\ plan = Propose(contract, IssuesNow)
  BY DEF ChainInv, IntakeInv, ReviewedPlan
<1>2. approved \in Seq(RuleIds(plan))
  BY DEF ChainInv, ApprovedOK
<1>3. Len(approved) \in Nat /\ DOMAIN approved = 1 .. Len(approved)
  BY <1>2
<1>4. ASSUME NEW i \in 1 .. Len(approved)
      PROVE  IsRule(approved[i]) /\ ~IsSource(approved[i]) /\ approved[i][1] # "step"
  <2>1. approved[i] \in RuleIds(plan) /\ Appliable(approved[i])
    BY <1>2, <1>3 DEF ChainInv, ApprovedOK
  <2>2. QED
    BY <1>1, <2>1, RuleFacts, AppliableFacts
<1>5. QED
  BY <1>1, <1>2, <1>3, <1>4 DEF ChainInv, Chained, ChainOf

LEMMA Unapproved ==
    ASSUME ChainInv, ~Planned
    PROVE  /\ approved = <<>> /\ ~Running /\ workflow = {}
           /\ phase \in {"new", "drafted"}
BY DEF ChainInv, IntakeInv, ReviewedPlan, Planned, Running

LEMMA ChainInit == Init => ChainInv
<1> SUFFICES ASSUME Init PROVE ChainInv
  OBVIOUS
<1>1. IntakeInv
  BY IntakeInit
<1>2. SourcesOK
  <2>1. /\ sources \in [Datasets -> UNION Range(Snapshots)]
        /\ \A d \in Datasets : sources[d] \in Snapshots[d]
        /\ \A d \in Datasets : profiles[d] = ProfileDataset(sources[d])
        /\ phase \in {"new", "drafted"}
    BY DEF Init
  <2>2. QED
    BY <2>1, SourcesAssumption DEF SourcesOK, Running
<1>3. approved = <<>> /\ phase \in {"new", "drafted"} /\ DOMAIN frames = {}
  BY DEF Init
<1>4. ApprovedOK
  BY <1>3, EmptySeq DEF ApprovedOK
<1>5. QED
  BY <1>1, <1>2, <1>3, <1>4 DEF ChainInv, Chained, Planned, FramesOfNodes, Running

LEMMA ChainDraft ==
    ASSUME ChainInv, CreateRequirement \/ ReviseRequirement \/ ApproveRequirement, IntakeInv'
    PROVE  ChainInv'
<1>1. /\ phase' = "drafted" /\ phase \in {"new", "drafted"}
      /\ UNCHANGED <<caller, sources, profiles, plan, workflow, approved, frames>>
  BY DEF CreateRequirement, ReviseRequirement, ApproveRequirement
<1>2. QED
  BY <1>1 DEF ChainInv, SourcesOK, ApprovedOK, Chained, Planned, FramesOfNodes, Running

(* Without rules it is the planned workflow.                               *)
LEMMA NoRulesNoChange == ChainOf(<<>>) = PlannedWorkflow
<1>1. Fed(<<>>, 0) = Unwritten
  BY FeedStart DEF Fed, Unwritten
<1>2. ASSUME NEW name \in DOMAIN Readers
      PROVE  Rewire(PlannedStep(name), Unwritten) = PlannedStep(name)
  <2>1. \A n \in DOMAIN Readers[name] : Readers[name][n] \in Datasets
    BY ReadersAssumption
  <2>2. \A n \in DOMAIN Readers[name] : Unwritten[Readers[name][n]] = Source(Readers[name][n])
    BY <2>1 DEF Unwritten
  <2>3. QED
    BY <2>2, RewiredPlan DEF PlannedStep
<1>3. {Rewire(step, Unwritten) : step \in PlannedWorkflow} = PlannedWorkflow
  BY <1>2 DEF PlannedWorkflow
<1>4. Len(<<>>) = 0 /\ 1 .. 0 = {}
  OBVIOUS
<1>5. QED
  BY <1>1, <1>3, <1>4 DEF ChainOf

LEMMA ChainPlan ==
    ASSUME ChainInv, PlanRequirement, IntakeInv'
    PROVE  ChainInv'
<1>1. /\ phase = "drafted" /\ phase' = "planned" /\ workflow' = PlannedWorkflow
      /\ UNCHANGED <<caller, sources, profiles, approved, frames>>
  BY DEF PlanRequirement
<1>2. approved' = <<>>
  BY <1>1, Unapproved DEF Planned
<1>3. ApprovedOK'
  BY <1>2, EmptySeq DEF ApprovedOK
<1>4. Chained'
  <2>1. workflow' = ChainOf(<<>>) /\ DOMAIN approved' = 1 .. Len(approved')
    BY <1>1, <1>2, NoRulesNoChange
  <2>2. QED
    BY <1>2, <2>1 DEF Chained, ChainOf
<1>5. QED
  BY <1>1, <1>3, <1>4 DEF ChainInv, SourcesOK, FramesOfNodes, Running

LEMMA ChainStart ==
    ASSUME ChainInv, StartRun, IntakeInv'
    PROVE  ChainInv'
<1>1. /\ phase = "planned" /\ phase' = "running"
      /\ caller = "api" => Unresolved(plan, Range(approved)) = {}
      /\ frames' = [n \in {Source(d) : d \in Datasets} |-> sources[n[2]]]
      /\ UNCHANGED <<caller, contract, sources, profiles, plan, workflow, approved>>
  BY DEF StartRun
<1>2. Planned /\ Planned' /\ Running'
  BY <1>1 DEF Planned, Running
<1>3. FramesOfNodes'
  <2>1. \A d \in Datasets : Source(d) \in DOMAIN frames' /\ frames'[Source(d)] = sources[d]
    BY <1>1 DEF Source
  <2>2. \A n \in DOMAIN frames' : IsSource(n)
    BY <1>1 DEF IsSource, Source
  <2>3. \A i \in DOMAIN approved : approved[i] \notin DOMAIN frames'
    BY <1>2, <2>2, ApprovedFacts
  <2>4. \A name : <<"step", name>> \notin DOMAIN frames'
    BY <2>2 DEF IsSource
  <2>5. QED
    BY <1>1, <1>2, <2>1, <2>3, <2>4 DEF FramesOfNodes
<1>4. QED
  BY <1>1, <1>2, <1>3 DEF ChainInv, SourcesOK, ApprovedOK, Chained, Planned, CleaningStep

LEMMA ChainSourceChanges ==
    ASSUME ChainInv, SourceChanges, IntakeInv'
    PROVE  ChainInv'
<1>0. PICK d \in Datasets : \E f \in Later[d] : sources' = [sources EXCEPT ![d] = f]
  BY DEF SourceChanges
<1>1. PICK f \in Later[d] : sources' = [sources EXCEPT ![d] = f]
  BY <1>0
<1>2. /\ phase = "planned" /\ phase' = "planned" /\ caller = "library"
      /\ UNCHANGED <<caller, contract, profiles, plan, workflow, approved, frames>>
  BY DEF SourceChanges
<1>3. SourcesOK'
  <2>1. IsFrame(f)
    BY SourcesAssumption
  <2>2. QED
    BY <1>1, <1>2, <2>1 DEF ChainInv, SourcesOK
<1>4. QED
  BY <1>2, <1>3 DEF ChainInv, ApprovedOK, Chained, Planned, CleaningStep, FramesOfNodes, Running

LEMMA StepIds ==
    ASSUME ChainInv, Planned
    PROVE  {step.id : step \in workflow}
             = {<<"step", name>> : name \in DOMAIN Readers} \cup Range(approved)
<1>1. \A name, rewrite : Rewire(PlannedStep(name), rewrite).id = <<"step", name>>
  BY RewiredPlan
<1>2. \A rule, rewrite : CleaningStep(rule, rewrite).id = rule
  BY DEF CleaningStep
<1>3. workflow = ChainOf(approved) /\ DOMAIN approved = 1 .. Len(approved)
  BY ApprovedFacts
<1>4. {step.id : step \in workflow}
        = {Rewire(PlannedStep(name), Fed(approved, Len(approved))).id : name \in DOMAIN Readers}
            \cup {CleaningStep(approved[i], Fed(approved, i - 1)).id : i \in DOMAIN approved}
  BY <1>3 DEF ChainOf, PlannedWorkflow
<1>5. {Rewire(PlannedStep(name), Fed(approved, Len(approved))).id : name \in DOMAIN Readers}
        = {<<"step", name>> : name \in DOMAIN Readers}
  BY <1>1
<1>6. {CleaningStep(approved[i], Fed(approved, i - 1)).id : i \in DOMAIN approved}
        = {approved[i] : i \in DOMAIN approved}
  BY <1>2
<1>7. QED
  BY <1>4, <1>5, <1>6, Zenon DEF Range

LEMMA ChainApprove ==
    ASSUME ChainInv, ApproveCleaningRules, IntakeInv'
    PROVE  ChainInv'
<1> DEFINE before == IF caller = "api" THEN Range(approved) ELSE {}
<1>1. /\ phase = "planned" /\ phase' = "planned"
      /\ UNCHANGED <<caller, contract, sources, profiles, plan, frames>>
  BY DEF ApproveCleaningRules
<1>2. Planned /\ ~Running'
  BY <1>1 DEF Planned, Running
<1>3. PICK requested \in SUBSET (RuleIds(plan) \cup {Unproposed}) :
        \E supplied \in BOOLEAN : \E ids \in Orders(requested \cup before) :
          /\ Acceptable(ids, supplied)
          /\ workflow' = CleanedWorkflow(ids)
          /\ approved' = IF caller = "api" THEN ids ELSE ids \o approved
  BY DEF ApproveCleaningRules
<1>4. PICK supplied \in BOOLEAN, ids \in Orders(requested \cup before) :
          /\ Acceptable(ids, supplied)
          /\ workflow' = CleanedWorkflow(ids)
          /\ approved' = IF caller = "api" THEN ids ELSE ids \o approved
  BY <1>3
<1> DEFINE R == RuleIds(plan)
           m == Len(ids)
           n == Len(approved)
<1>5. /\ Profiled /\ ContractOK /\ plan = Propose(contract, IssuesNow)
      /\ approved \in Seq(R) /\ n \in Nat /\ DOMAIN approved = 1 .. n
      /\ \A i \in 1 .. n : IsRule(approved[i]) /\ ~IsSource(approved[i])
      /\ workflow = ChainOf(approved)
  BY <1>2, ApprovedFacts
<1>6. /\ ids \in Seq(requested \cup before) /\ Range(ids) = requested \cup before
      /\ DOMAIN ids = 1 .. m /\ \A i, j \in DOMAIN ids : ids[i] = ids[j] => i = j
      /\ caller = "api" => \A i, j \in DOMAIN ids :
            ids[i][1] = "text_clean" /\ ids[j][1] = "dedup" => j < i
  <2>1. Range(approved) \subseteq R
    BY <1>5 DEF Range
  <2>2. IsFiniteSet(R \cup {Unproposed})
    BY <1>5, FiniteRules, FS_AddElement
  <2>3. requested \cup before \in SUBSET (R \cup {Unproposed})
    BY <2>1
  <2>4. IsFiniteSet(requested \cup before)
    BY <2>2, <2>3, FS_Subset
  <2>5. ids \in SetToSeqs(requested \cup before)
    BY DEF Orders
  <2> HIDE DEF before
  <2>6. QED
    BY <2>4, <2>5, SetToSeqsFacts DEF Orders
<1>7. /\ Range(ids) \subseteq R /\ \A i \in DOMAIN ids : Appliable(ids[i])
      /\ Range(ids) \cap Range(approved) = {}
  <2>1. Range(approved) \subseteq {step.id : step \in workflow}
    BY <1>2, StepIds
  <2>2. QED
    BY <1>4, <2>1 DEF Acceptable
<1>8. ids \in Seq(R) /\ m \in Nat
  <2>1. \A i \in 1 .. m : ids[i] \in R
    BY <1>6, <1>7 DEF Range
  <2>2. ids \in [1 .. m -> R] /\ m \in Nat
    BY <1>6, <2>1
  <2> HIDE DEF m, R
  <2>3. QED
    BY <2>2
<1>9. caller = "api" => approved = <<>>
  <2>1. caller = "api" => Range(approved) = {}
    BY <1>6, <1>7
  <2>2. CASE caller = "api"
    <3>1. n = 0
      <4>1. n # 0 => 1 \in DOMAIN approved /\ approved[1] \in Range(approved)
        BY <1>5 DEF Range
      <4>2. QED
        BY <2>1, <2>2, <4>1
    <3>2. QED
      BY <1>5, <3>1
  <2>3. QED
    BY <2>2
<1>10. approved' = ids \o approved
  BY <1>4, <1>8, <1>9, ConcatEmptySeq
<1>11. /\ Len(approved') = m + n /\ DOMAIN approved' = 1 .. (m + n) /\ approved' \in Seq(R)
       /\ \A i \in 1 .. m : approved'[i] = ids[i]
       /\ \A i \in 1 .. n : approved'[m + i] = approved[i]
  <2> HIDE DEF R
  <2>1. QED
    BY <1>5, <1>8, <1>10
<1>12. \A i \in 1 .. (m + n) : i \in 1 .. m \/ (i - m \in 1 .. n /\ i = m + (i - m))
  BY <1>5, <1>8
<1> HIDE DEF m, n, before
<1>13. ASSUME NEW i \in 1 .. (m + n), NEW j \in 1 .. (m + n), approved'[i] = approved'[j]
       PROVE  i = j
  <2>1. \A x \in 1 .. m : approved'[x] \in Range(ids)
    BY <1>6, <1>11 DEF Range
  <2>2. \A x \in 1 .. n : approved'[m + x] \in Range(approved)
    BY <1>5, <1>11 DEF Range
  <2>3. CASE i \in 1 .. m /\ j \in 1 .. m
    BY <1>6, <1>11, <1>13, <2>3
  <2>4. CASE i - m \in 1 .. n /\ i = m + (i - m) /\ j - m \in 1 .. n /\ j = m + (j - m)
    <3>1. approved[i - m] = approved[j - m]
      BY <1>11, <1>13, <2>4
    <3>2. i - m = j - m
      BY <1>5, <2>4, <3>1 DEF ChainInv, ApprovedOK
    <3>3. QED
      BY <2>4, <3>2
  <2>5. QED
    BY <1>7, <1>12, <1>13, <2>1, <2>2, <2>3, <2>4
<1>14. \A i \in 1 .. (m + n) : Appliable(approved'[i])
  <2>1. \A i \in 1 .. m : Appliable(approved'[i])
    BY <1>6, <1>7, <1>11
  <2>2. \A i \in 1 .. n : Appliable(approved'[m + i])
    BY <1>5, <1>11 DEF ChainInv, ApprovedOK
  <2>3. QED
    BY <1>12, <2>1, <2>2
<1>15. ApprovedOK'
  <2>1. RuleIds(plan)' = R
    BY <1>1
  <2>2. caller = "api" => approved' = ids
    BY <1>4
  <2>3. (caller = "api" => \A i, j \in DOMAIN approved :
          approved[i][1] = "text_clean" /\ approved[j][1] = "dedup" => j < i)'
    BY <1>1, <1>6, <2>2
  <2>4. QED
    BY <1>11, <1>13, <1>14, <2>1, <2>3 DEF ApprovedOK
<1>16. Chained'
  <2>1. \A i \in 1 .. n : ~IsSource(approved[i]) /\ approved[i][2] \in Datasets
    BY <1>5 DEF IsRule
  <2>2. \A name \in DOMAIN Readers : \A k \in DOMAIN Readers[name] :
          Readers[name][k] \in Datasets
    BY ReadersAssumption
  <2> HIDE DEF R
  <2>3. workflow' = ChainOf(ids \o approved)
    BY <1>4, <1>5, <1>8, <2>1, <2>2, NewChain DEF n
  <2>4. ASSUME NEW rule, NEW rewrite PROVE CleaningStep(rule, rewrite)' = CleaningStep(rule, rewrite)
    BY <1>1 DEF CleaningStep
  <2>5. workflow' = {Rewire(step, Fed(approved', Len(approved'))) : step \in PlannedWorkflow}
                      \cup {CleaningStep(approved'[i], Fed(approved', i - 1)) :
                              i \in DOMAIN approved'}
    BY <1>10, <1>11, <2>3 DEF ChainOf
  <2>6. QED
    BY <1>1, <2>5 DEF Chained, CleaningStep
<1>17. SourcesOK' /\ FramesOfNodes'
  BY <1>1, <1>2 DEF ChainInv, SourcesOK, FramesOfNodes, Running
<1>18. QED
  BY <1>15, <1>16, <1>17 DEF ChainInv

(* A step that failed leaves the frames as they are; one that did not adds *)
(* its own.                                                                *)
LEMMA ExecutedStep ==
    ASSUME NEW step, ExecuteStep(step)
    PROVE  LET inputs == [n \in DOMAIN step.inputs |-> frames[step.inputs[n]]]
           IN  /\ phase = "running" /\ phase' \in {"running", "failed"}
               /\ UNCHANGED <<caller, contract, sources, profiles, plan, workflow, approved>>
               /\ step.id \notin DOMAIN frames /\ Range(step.inputs) \subseteq DOMAIN frames
               /\ \/ frames' = frames
                  \/ \E out \in Results(step, inputs) :
                        frames' = [n \in DOMAIN frames \cup {step.id} |->
                                     IF n = step.id THEN out ELSE frames[n]]
BY DEF ExecuteStep

LEMMA RuleResult ==
    ASSUME ChainInv, Running, NEW i \in 1 .. Len(approved),
           NEW inputs, NEW out \in Results(CleaningStep(approved[i], Fed(approved, i - 1)), inputs),
           Feed(approved, approved[i][2], i - 1) \in DOMAIN frames,
           inputs[1] = frames[Feed(approved, approved[i][2], i - 1)]
    PROVE  out = Cleaned(approved[i][2])[i]
<1> DEFINE rule == approved[i]
           d == rule[2]
           f == Cleaned(d)[i - 1]
           step == CleaningStep(rule, Fed(approved, i - 1))
<1>1. Planned /\ approved \in Seq(RuleIds(plan)) /\ IsRule(rule) /\ d \in Datasets
      /\ Len(approved) \in Nat
  <2>1. Planned
    BY DEF Running, Planned
  <2>2. QED
    BY <2>1, ApprovedFacts DEF IsRule
<1>2. i - 1 \in 0 .. Len(approved)
  BY <1>1
<1>3. inputs[1] = f /\ IsFrame(f)
  <2>1. frames[Feed(approved, d, i - 1)] = Cleaned(d)[i - 1]
    BY <1>1, <1>2, FeedFrame DEF ChainInv
  <2>2. IsFrame(Cleaned(d)[i - 1])
    BY <1>1, <1>2, CleanedFrames DEF ChainInv
  <2>3. QED
    BY <2>1, <2>2
<1>4. Cleaned(d)[i] = Clean(f, rule)
  <2>1. Cleaned(d)[i] = CleanOwn(d, Cleaned(d)[i - 1], approved[i])
    BY <1>1, CleanedIs
  <2>2. QED
    BY <2>1 DEF CleanOwn
<1>5. step.op = rule[1] /\ (rule[1] = "text_clean" => step.column = rule[3])
      /\ (rule[1] = "dedup" => step.keys = Of(profiles, d))
  BY DEF CleaningStep
<1>6. CASE rule[1] = "text_clean"
  <2>1. out = TextClean(f, rule[3])
    BY <1>3, <1>5, <1>6 DEF Results
  <2>2. QED
    BY <1>4, <1>6, <2>1 DEF Clean
<1>7. CASE rule[1] = "dedup"
  <2>1. out \in Deduplicated(f, FullRow(Of(profiles, d)))
    BY <1>3, <1>5, <1>7 DEF Results
  <2>2. rule[1] # "text_clean"
    BY <1>7
  <2> HIDE DEF f, rule
  <2>3. Deduplicated(f, FullRow(Of(profiles, rule[2]))) = {Clean(f, rule)}
    BY <1>3, <2>2, DedupFacts
  <2>4. QED
    BY <1>4, <2>1, <2>3 DEF f, rule
<1>8. QED
  BY <1>1, <1>6, <1>7 DEF IsRule

LEMMA StepOfRule ==
    ASSUME ChainInv, Planned, NEW step \in workflow, NEW i \in 1 .. Len(approved),
           approved[i] = step.id
    PROVE  step = CleaningStep(approved[i], Fed(approved, i - 1))
<1>1. /\ workflow = ChainOf(approved) /\ DOMAIN approved = 1 .. Len(approved)
      /\ approved[i][1] # "step"
  BY ApprovedFacts
<1>2. \A name, rewrite : Rewire(PlannedStep(name), rewrite).id = <<"step", name>>
  BY RewiredPlan
<1>3. PICK j \in 1 .. Len(approved) : step = CleaningStep(approved[j], Fed(approved, j - 1))
  BY <1>1, <1>2 DEF ChainOf, PlannedWorkflow
<1>4. approved[j] = approved[i]
  BY <1>3 DEF CleaningStep
<1>5. i = j
  BY <1>1, <1>4 DEF ChainInv, ApprovedOK
<1>6. QED
  BY <1>3, <1>5

LEMMA StepOfReader ==
    ASSUME ChainInv, Planned, NEW step \in workflow, NEW name \in DOMAIN Readers,
           <<"step", name>> = step.id
    PROVE  /\ step.op = "planned"
           /\ step.inputs = [n \in DOMAIN Readers[name] |->
                               Fed(approved, Len(approved))[Readers[name][n]]]
<1>1. /\ workflow = ChainOf(approved)
      /\ \A i \in 1 .. Len(approved) : approved[i][1] # "step"
  BY ApprovedFacts
<1>2. \A i \in 1 .. Len(approved) : CleaningStep(approved[i], Fed(approved, i - 1)).id # step.id
  BY <1>1 DEF CleaningStep
<1>3. PICK other \in DOMAIN Readers :
          step = Rewire(PlannedStep(other), Fed(approved, Len(approved)))
  BY <1>1, <1>2 DEF ChainOf, PlannedWorkflow
<1>4. step.id = <<"step", other>>
  BY <1>3, RewiredPlan
<1>5. other = name
  BY <1>4
<1>6. QED
  BY <1>3, <1>5, RewiredPlan

LEMMA ChainExecute ==
    ASSUME ChainInv, NEW step \in workflow, ExecuteStep(step), IntakeInv'
    PROVE  ChainInv'
<1> DEFINE inputs == [n \in DOMAIN step.inputs |-> frames[step.inputs[n]]]
<1>1. /\ phase = "running" /\ phase' \in {"running", "failed"}
      /\ UNCHANGED <<caller, contract, sources, profiles, plan, workflow, approved>>
      /\ step.id \notin DOMAIN frames /\ Range(step.inputs) \subseteq DOMAIN frames
      /\ \/ frames' = frames
         \/ \E out \in Results(step, inputs) :
               frames' = [n \in DOMAIN frames \cup {step.id} |->
                            IF n = step.id THEN out ELSE frames[n]]
  BY ExecutedStep
<1>2. Planned /\ Planned' /\ Running /\ Running'
  BY <1>1 DEF Planned, Running
<1>3. /\ approved \in Seq(RuleIds(plan)) /\ Len(approved) \in Nat
      /\ DOMAIN approved = 1 .. Len(approved)
      /\ \A i \in 1 .. Len(approved) :
           IsRule(approved[i]) /\ ~IsSource(approved[i]) /\ approved[i][1] # "step"
      /\ workflow = ChainOf(approved)
  BY <1>2, ApprovedFacts
<1>4. \A d : Cleaned(d)' = Cleaned(d)
  <2>1. \A f, rule : Clean(f, rule)' = Clean(f, rule)
    BY <1>1 DEF Clean
  <2>2. QED
    BY <1>1, <2>1 DEF Cleaned
<1>5. SourcesOK' /\ ApprovedOK' /\ Chained'
  BY <1>1, <1>2 DEF ChainInv, SourcesOK, ApprovedOK, Chained, CleaningStep
<1>6. CASE frames' = frames
  <2>1. FramesOfNodes'
    BY <1>1, <1>2, <1>4, <1>6 DEF ChainInv, FramesOfNodes
  <2>2. QED
    BY <1>5, <2>1 DEF ChainInv
<1>7. ASSUME NEW out \in Results(step, inputs),
             frames' = [n \in DOMAIN frames \cup {step.id} |->
                          IF n = step.id THEN out ELSE frames[n]]
      PROVE  FramesOfNodes'
  <2>1. DOMAIN frames' = DOMAIN frames \cup {step.id} /\ frames'[step.id] = out
        /\ \A n \in DOMAIN frames : frames'[n] = frames[n]
    BY <1>1, <1>7
  <2>2. \A d \in Datasets : Source(d) \in DOMAIN frames' /\ frames'[Source(d)] = sources[d]
    BY <1>2, <2>1 DEF ChainInv, FramesOfNodes
  <2>3. ASSUME NEW i \in 1 .. Len(approved), approved[i] = step.id
        PROVE  out = Cleaned(approved[i][2])[i]
    <3> DEFINE node == Feed(approved, approved[i][2], i - 1)
    <3>1. step = CleaningStep(approved[i], Fed(approved, i - 1))
      BY <1>2, <2>3, StepOfRule
    <3>2. approved[i][2] \in Datasets
      BY <1>3 DEF IsRule
    <3>3. step.inputs = <<node>>
      BY <3>1, <3>2 DEF CleaningStep, Fed
    <3>4. node \in DOMAIN frames /\ inputs[1] = frames[node]
      BY <1>1, <3>3 DEF Range
    <3> HIDE DEF inputs, node
    <3>5. QED
      BY <1>2, <1>7, <3>1, <3>4, RuleResult DEF node
  <2>4. ASSUME NEW i \in 1 .. Len(approved), approved[i] \in DOMAIN frames'
        PROVE  frames'[approved[i]] = Cleaned(approved[i][2])[i]
    <3>1. CASE approved[i] = step.id
      BY <2>1, <2>3, <3>1
    <3>2. CASE approved[i] # step.id
      BY <1>2, <1>3, <2>1, <2>4, <3>2 DEF ChainInv, FramesOfNodes
    <3>3. QED
      BY <3>1, <3>2
  <2>5. ASSUME NEW name \in DOMAIN Readers, <<"step", name>> = step.id
        PROVE  out = [n \in DOMAIN Readers[name] |->
                        Cleaned(Readers[name][n])[Len(approved)]]
    <3>2. /\ step.op = "planned"
          /\ step.inputs = [n \in DOMAIN Readers[name] |->
                              Fed(approved, Len(approved))[Readers[name][n]]]
      BY <1>2, <2>5, StepOfReader
    <3>3. out = inputs
      BY <1>7, <3>2 DEF Results
    <3>4. ASSUME NEW n \in DOMAIN Readers[name]
          PROVE  inputs[n] = Cleaned(Readers[name][n])[Len(approved)]
      <4> DEFINE d == Readers[name][n]
      <4>1. d \in Datasets
        BY ReadersAssumption
      <4>2. step.inputs[n] = Feed(approved, d, Len(approved)) /\ n \in DOMAIN step.inputs
        BY <3>2, <4>1 DEF Fed
      <4>3. Feed(approved, d, Len(approved)) \in DOMAIN frames
        BY <1>1, <4>2 DEF Range
      <4>4. Len(approved) \in 0 .. Len(approved)
        BY <1>3
      <4>5. frames[Feed(approved, d, Len(approved))] = Cleaned(d)[Len(approved)]
        BY <1>2, <1>3, <4>1, <4>3, <4>4, FeedFrame DEF ChainInv
      <4>6. QED
        BY <4>2, <4>5
    <3>5. DOMAIN inputs = DOMAIN Readers[name] /\ inputs = [n \in DOMAIN inputs |-> inputs[n]]
      BY <3>2
    <3> HIDE DEF inputs
    <3>6. QED
      BY <3>3, <3>4, <3>5
  <2>6. ASSUME NEW name \in DOMAIN Readers, <<"step", name>> \in DOMAIN frames'
        PROVE  frames'[<<"step", name>>] = [n \in DOMAIN Readers[name] |->
                  Cleaned(Readers[name][n])[Len(approved)]]
    <3>1. CASE <<"step", name>> = step.id
      BY <2>1, <2>5, <3>1
    <3>2. CASE <<"step", name>> # step.id
      BY <1>2, <2>1, <2>6, <3>2 DEF ChainInv, FramesOfNodes
    <3>3. QED
      BY <3>1, <3>2
  <2>7. QED
    BY <1>1, <1>2, <1>3, <1>4, <2>2, <2>4, <2>6 DEF FramesOfNodes
<1>8. QED
  BY <1>1, <1>5, <1>6, <1>7 DEF ChainInv

LEMMA ChainInductive ==
    ASSUME ChainInv, [Next]_vars
    PROVE  ChainInv'
<1>1. IntakeInv'
  BY IntakeInductive DEF ChainInv
<1>2. CASE UNCHANGED vars
  <2>1. UNCHANGED <<caller, sources, profiles, plan, workflow, approved, phase, frames>>
    BY <1>2 DEF vars
  <2>2. \A d : Cleaned(d)' = Cleaned(d)
    BY <2>1 DEF Cleaned, Clean
  <2>3. QED
    BY <1>1, <2>1, <2>2 DEF ChainInv, SourcesOK, ApprovedOK, Chained, Planned,
                            CleaningStep, FramesOfNodes, Running
<1>3. QED
  BY <1>1, <1>2, ChainDraft, ChainPlan, ChainApprove, ChainSourceChanges, ChainStart,
     ChainExecute DEF Next

(* The approved rules are a chain of steps between each source and its     *)
(* readers, and every node holds what the chain makes of its dataset.      *)
THEOREM ChainInvariance == Spec => []ChainInv
BY ChainInit, ChainInductive, PTL DEF Spec
-----------------------------------------------------------------------------
(* What a planned step has read of a dataset.                              *)
LEMMA ReadFacts ==
    ASSUME ChainInv, NEW d \in Datasets, NEW f \in ReadOf(d)
    PROVE  Running /\ Planned /\ f = Cleaned(d)[Len(approved)]
<1>0. PICK name \in DOMAIN Readers : \E n \in DOMAIN Readers[name] :
          /\ Readers[name][n] = d /\ <<"step", name>> \in DOMAIN frames
          /\ f = frames[<<"step", name>>][n]
  BY DEF ReadOf
<1>1. PICK n \in DOMAIN Readers[name] :
          /\ Readers[name][n] = d /\ <<"step", name>> \in DOMAIN frames
          /\ f = frames[<<"step", name>>][n]
  BY <1>0
<1>2. Running
  BY <1>1 DEF ChainInv, FramesOfNodes
<1>3. QED
  BY <1>1, <1>2 DEF ChainInv, FramesOfNodes, Running, Planned

LEMMA ChainInvCleaned == ChainInv => CleanedAsApproved
<1> SUFFICES ASSUME ChainInv, NEW d \in Datasets, NEW f \in ReadOf(d)
             PROVE  f = FoldLeft(LAMBDA g, rule : IF rule[2] = d THEN Clean(g, rule) ELSE g,
                                 sources[d], approved)
  BY DEF CleanedAsApproved
<1>1. f = Cleaned(d)[Len(approved)] /\ approved \in Seq(RuleIds(plan))
  BY ReadFacts, ApprovedFacts
<1>2. QED
  BY <1>1, CleanedIs

(* Nothing downstream sees an unclean column: a planned step reads its     *)
(* datasets cleaned by all the rules approved for them, in the order of    *)
(* their approval, whoever approved them and in however many calls.        *)
THEOREM CleanedSafety == Spec => []CleanedAsApproved
BY ChainInvCleaned, ChainInvariance, PTL
-----------------------------------------------------------------------------
(* The workflow has its planned steps and one step of every approved rule. *)
LEMMA WorkflowSize ==
    ASSUME ChainInv, Planned
    PROVE  Cardinality(workflow) = Cardinality(DOMAIN Readers) + Len(approved)
<1> DEFINE n == Len(approved)
           planned == [name \in DOMAIN Readers |-> Rewire(PlannedStep(name), Fed(approved, n))]
           clean == [i \in 1 .. n |-> CleaningStep(approved[i], Fed(approved, i - 1))]
           A == {planned[name] : name \in DOMAIN Readers}
           B == {clean[i] : i \in 1 .. n}
<1>1. /\ n \in Nat /\ workflow = ChainOf(approved)
      /\ \A i \in 1 .. n : approved[i][1] # "step"
      /\ \A i, j \in 1 .. n : approved[i] = approved[j] => i = j
  BY ApprovedFacts DEF ChainInv, ApprovedOK
<1>2. workflow = A \cup B
  BY <1>1 DEF ChainOf, PlannedWorkflow
<1>3. \A name \in DOMAIN Readers : planned[name].id = <<"step", name>>
  BY RewiredPlan
<1>4. \A i \in 1 .. n : clean[i].id = approved[i]
  BY DEF CleaningStep
<1>5. planned = [name \in DOMAIN Readers |-> planned[name]] /\ clean = [i \in 1 .. n |-> clean[i]]
  OBVIOUS
<1> HIDE DEF planned, clean, n
<1>6. IsFiniteSet(A) /\ Cardinality(A) = Cardinality(DOMAIN Readers)
  <2>1. \A x, y \in DOMAIN Readers : planned[x] = planned[y] => x = y
    BY <1>3
  <2>2. QED
    BY <1>5, <2>1, FiniteImage, ReadersAssumption
<1>7. IsFiniteSet(B) /\ Cardinality(B) = n
  <2>1. \A x, y \in 1 .. n : clean[x] = clean[y] => x = y
    BY <1>1, <1>4
  <2>2. IsFiniteSet(1 .. n) /\ Cardinality(1 .. n) = n
    BY <1>1, FS_Interval
  <2> DEFINE positions == 1 .. n
  <2> HIDE DEF positions
  <2>3. IsFiniteSet(positions) /\ Cardinality(positions) = n
        /\ clean = [i \in positions |-> clean[i]]
        /\ \A x, y \in positions : clean[x] = clean[y] => x = y
    BY <1>5, <2>1, <2>2 DEF positions
  <2>4. /\ IsFiniteSet({clean[i] : i \in positions})
        /\ Cardinality({clean[i] : i \in positions}) = n
    BY <2>3, FiniteImage
  <2>5. QED
    BY <2>4 DEF positions
<1>8. A \cap B = {}
  BY <1>1, <1>3, <1>4
<1> HIDE DEF A, B
<1>9. Cardinality(A \cup B) = Cardinality(A) + Cardinality(B) - Cardinality(A \cap B)
  BY <1>6, <1>7, FS_Union
<1>10. Cardinality(A) \in Nat /\ Cardinality(A \cap B) = 0
  BY <1>6, <1>8, FS_CardinalityType, FS_EmptySet
<1>11. QED
  BY <1>1, <1>2, <1>6, <1>7, <1>9, <1>10 DEF n

LEMMA ChainInvTypeOK == ChainInv => TypeOK
<1> SUFFICES ASSUME ChainInv PROVE TypeOK
  OBVIOUS
<1>1. phase \in {"new", "drafted", "planned", "running", "failed"}
  BY DEF ChainInv, IntakeInv
<1>2. CASE ~Planned
  <2>1. approved = <<>> /\ workflow = {} /\ phase \in {"new", "drafted"}
    BY <1>2, Unapproved
  <2>2. Range(approved) = {} /\ Cardinality(workflow) = 0
    BY <2>1, FS_EmptySet DEF Range
  <2>3. QED
    BY <1>1, <2>1, <2>2 DEF TypeOK
<1>3. CASE Planned
  <2>1. /\ approved \in Seq(RuleIds(plan)) /\ Len(approved) \in Nat
        /\ DOMAIN approved = 1 .. Len(approved) /\ workflow = ChainOf(approved)
    BY <1>3, ApprovedFacts
  <2>2. workflow = PlannedWorkflow \/ approved # <<>>
    BY <2>1, NoRulesNoChange
  <2>3. Range(approved) \subseteq RuleIds(plan)
    BY <2>1 DEF Range
  <2>4. Cardinality(workflow) = Cardinality(DOMAIN Readers) + Len(approved)
        /\ phase \notin {"new", "drafted"}
    BY <1>3, WorkflowSize DEF Planned
  <2>5. ASSUME NEW d, NEW k \in 0 .. Len(approved)
        PROVE  IsSource(Feed(approved, d, k)) \/ Feed(approved, d, k) \in Range(approved)
    <3>1. \/ Feed(approved, d, k) = Source(d)
          \/ \E j \in 1 .. k : Feed(approved, d, k) = approved[j]
      BY FeedKinds
    <3>2. \A j \in 1 .. k : j \in DOMAIN approved
      BY <2>1
    <3>3. QED
      BY <3>1, <3>2 DEF Range, IsSource, Source
  <2>6. ASSUME NEW name \in DOMAIN Readers, NEW n \in DOMAIN Readers[name]
        PROVE  LET node == Rewire(PlannedStep(name), Fed(approved, Len(approved))).inputs[n]
               IN  IsSource(node) \/ node \in Range(approved)
    <3>1. Rewire(PlannedStep(name), Fed(approved, Len(approved))).inputs[n]
            = Fed(approved, Len(approved))[Readers[name][n]]
      BY RewiredPlan
    <3>2. Readers[name][n] \in Datasets
      BY ReadersAssumption
    <3>3. Fed(approved, Len(approved))[Readers[name][n]]
            = Feed(approved, Readers[name][n], Len(approved))
      BY <3>2 DEF Fed
    <3>4. Len(approved) \in 0 .. Len(approved)
      BY <2>1
    <3>5. QED
      BY <2>5, <3>1, <3>3, <3>4
  <2>7. ASSUME NEW i \in 1 .. Len(approved)
        PROVE  LET step == CleaningStep(approved[i], Fed(approved, i - 1))
               IN  /\ DOMAIN step.inputs = 1 .. 1
                   /\ IsSource(step.inputs[1]) \/ step.inputs[1] \in Range(approved)
    <3>1. approved[i][2] \in Datasets /\ i - 1 \in 0 .. Len(approved)
      BY <1>3, <2>1, ApprovedFacts DEF IsRule
    <3>2. CleaningStep(approved[i], Fed(approved, i - 1)).inputs
            = <<Feed(approved, approved[i][2], i - 1)>>
      BY <3>1 DEF CleaningStep, Fed
    <3>3. QED
      BY <2>5, <3>1, <3>2
  <2>8. \A name \in DOMAIN Readers :
          DOMAIN Rewire(PlannedStep(name), Fed(approved, Len(approved))).inputs
            = DOMAIN Readers[name]
    BY RewiredPlan
  <2>9. \A step \in workflow : \A n \in DOMAIN step.inputs :
          IsSource(step.inputs[n]) \/ step.inputs[n] \in Range(approved)
    BY <2>1, <2>6, <2>7, <2>8 DEF ChainOf, PlannedWorkflow
  <2>10. QED
    BY <1>1, <2>2, <2>3, <2>4, <2>9 DEF TypeOK
<1>4. QED
  BY <1>2, <1>3

(* The types, and that approvals only ever add steps of their own, which   *)
(* read a source or an approved rule's step.                               *)
THEOREM TypeCorrectness == Spec => []TypeOK
BY ChainInvTypeOK, ChainInvariance, PTL
-----------------------------------------------------------------------------
(* Deduplication over all columns: the distinct rows, each once.           *)
LEMMA SetToSeqFacts ==
    ASSUME NEW S, IsFiniteSet(S)
    PROVE  \A x \in S : \E n \in DOMAIN SetToSeq(S) : SetToSeq(S)[n] = x
<1> DEFINE n == Cardinality(S)
<1>1. n \in Nat /\ ExistsBijection(1 .. n, S)
  BY FS_CardinalityType
<1>2. \E f \in [1 .. n -> S] : IsInjective(f)
  BY <1>1 DEF ExistsBijection, Bijection, Injection
<1>3. SetToSeq(S) \in [1 .. n -> S] /\ IsInjective(SetToSeq(S))
  BY <1>2 DEF SetToSeq
<1>4. SetToSeq(S) \in Injection(1 .. n, S)
  BY <1>3 DEF Injection
<1>5. Cardinality(1 .. n) = n
  BY <1>1, FS_Interval
<1>6. SetToSeq(S) \in Surjection(1 .. n, S)
  BY <1>4, <1>5, FS_Injection
<1>7. QED
  BY <1>3, <1>6 DEF Surjection

LEMMA CopiesDropped ==
    ASSUME NEW f, IsFrame(f), NEW rule, rule[1] # "text_clean",
           Of(profiles, rule[2]) = Columns(f)
    PROVE  /\ Rows(Clean(f, rule)) = Rows(f)
           /\ Height(Clean(f, rule)) = Cardinality(Rows(f))
<1> DEFINE keys == SetToSeq(Columns(f))
           first == FirstOfEach(f, keys)
           row == [i \in first |-> f.rows[i]]
<1>1. FullRow(Of(profiles, rule[2])).keys = keys
  BY DEF FullRow
<1>2. Clean(f, rule) = RowsAt(f, first)
  BY <1>1, DedupFacts
<1>3. \A c \in Columns(f) : \E n \in DOMAIN keys : keys[n] = c
  BY FrameFacts, SetToSeqFacts
<1>4. /\ \A i \in DOMAIN f.rows : \E j \in first : Key(f, j, keys) = Key(f, i, keys)
      /\ \A i, j \in first : Key(f, i, keys) = Key(f, j, keys) => i = j
  <2> DEFINE p == FullRow(Of(profiles, rule[2]))
  <2>1. p.keep = "first" /\ p.orderBy = Null
    BY DEF FullRow
  <2> HIDE DEF p
  <2>2. /\ \A i \in DOMAIN f.rows : \E j \in FirstOfEach(f, p.keys) :
              Key(f, j, p.keys) = Key(f, i, p.keys)
        /\ \A i, j \in FirstOfEach(f, p.keys) : Key(f, i, p.keys) = Key(f, j, p.keys) => i = j
    BY <2>1, FirstRowsStay
  <2>3. QED
    BY <1>1, <2>2 DEF p
<1> HIDE DEF keys
<1>5. first \in SUBSET (DOMAIN f.rows) /\ DOMAIN f.rows = 1 .. Height(f)
  BY FrameFacts DEF FirstOfEach
<1>6. ASSUME NEW i \in DOMAIN f.rows, NEW j \in DOMAIN f.rows
      PROVE  Key(f, i, keys) = Key(f, j, keys) <=> f.rows[i] = f.rows[j]
  <2>1. ASSUME Key(f, i, keys) = Key(f, j, keys) PROVE f.rows[i] = f.rows[j]
    <3>1. \A n \in DOMAIN keys : f.rows[i][keys[n]] = f.rows[j][keys[n]]
      BY <2>1 DEF Key, Value
    <3>2. \A c \in Columns(f) : f.rows[i][c] = f.rows[j][c]
      BY <1>3, <3>1
    <3>3. f.rows[i] = [c \in Columns(f) |-> f.rows[i][c]]
          /\ f.rows[j] = [c \in Columns(f) |-> f.rows[j][c]]
      BY <1>5, FrameFacts
    <3>4. QED
      BY <3>2, <3>3
  <2>2. QED
    BY <2>1 DEF Key, Value
<1> HIDE DEF first
<1>7. {f.rows[i] : i \in first} = Rows(f)
  <2>1. Rows(f) = {f.rows[i] : i \in DOMAIN f.rows}
    BY DEF Rows, Range
  <2>2. \A i \in DOMAIN f.rows : \E j \in first : f.rows[j] = f.rows[i]
    BY <1>4, <1>5, <1>6
  <2>3. QED
    BY <1>5, <2>1, <2>2
<1>8. /\ Rows(RowsAt(f, first)) = {f.rows[i] : i \in first}
      /\ Height(RowsAt(f, first)) = Cardinality(first)
  <2>1. first \in SUBSET (DOMAIN f.rows)
    BY <1>5
  <2>2. Height(RowsAt(f, first)) = Cardinality(first)
    BY <2>1, RowsAtFacts
  <2>3. Rows(RowsAt(f, first)) = {f.rows[i] : i \in first}
    BY <2>1, RowsAtFacts
  <2>4. QED
    BY <2>2, <2>3
<1>9. Cardinality({row[i] : i \in first}) = Cardinality(first)
  <2>1. IsFiniteSet(first)
    BY <1>5, FrameFacts, FS_Subset
  <2>2. \A i, j \in first : row[i] = row[j] => i = j
    BY <1>4, <1>5, <1>6
  <2>3. row = [i \in first |-> row[i]]
    OBVIOUS
  <2> HIDE DEF row
  <2>4. QED
    BY <2>1, <2>2, <2>3, FiniteImage
<1>10. {row[i] : i \in first} = {f.rows[i] : i \in first}
  OBVIOUS
<1>11. QED
  BY <1>2, <1>7, <1>8, <1>9, <1>10

(* Over the columns of a profile: whole rows, one for each combination.    *)
LEMMA KeysKept ==
    ASSUME NEW f, IsFrame(f), NEW rule, rule[1] # "text_clean",
           Of(profiles, rule[2]) \subseteq Columns(f)
    PROVE  /\ Rows(Clean(f, rule)) \subseteq Rows(f)
           /\ \A r \in Rows(f) : \E kept \in Rows(Clean(f, rule)) :
                 \A c \in Of(profiles, rule[2]) : kept[c] = r[c]
<1> DEFINE profiled == Of(profiles, rule[2])
           keys == SetToSeq(profiled)
           first == FirstOfEach(f, keys)
<1>1. FullRow(profiled).keys = keys
  BY DEF FullRow
<1>2. Clean(f, rule) = RowsAt(f, first)
  BY <1>1, DedupFacts
<1>3. \A c \in profiled : \E n \in DOMAIN keys : keys[n] = c
  <2>1. IsFiniteSet(profiled)
    BY FrameFacts, FS_Subset
  <2> HIDE DEF profiled
  <2>2. QED
    BY <2>1, SetToSeqFacts
<1>4. \A i \in DOMAIN f.rows : \E j \in first : Key(f, j, keys) = Key(f, i, keys)
  <2> DEFINE p == FullRow(profiled)
  <2>1. p.keep = "first" /\ p.orderBy = Null
    BY DEF FullRow
  <2> HIDE DEF p
  <2>2. \A i \in DOMAIN f.rows : \E j \in FirstOfEach(f, p.keys) :
            Key(f, j, p.keys) = Key(f, i, p.keys)
    BY <2>1, FirstRowsStay
  <2>3. QED
    BY <1>1, <2>2 DEF p
<1>5. first \in SUBSET (DOMAIN f.rows)
  BY DEF FirstOfEach
<1> HIDE DEF keys, first, profiled
<1>6. ASSUME NEW i, NEW j, Key(f, j, keys) = Key(f, i, keys), NEW c \in profiled
      PROVE  f.rows[j][c] = f.rows[i][c]
  <2>1. PICK n \in DOMAIN keys : keys[n] = c
    BY <1>3
  <2>2. Key(f, j, keys)[n] = f.rows[j][c] /\ Key(f, i, keys)[n] = f.rows[i][c]
    BY <2>1 DEF Key, Value
  <2>3. QED
    BY <1>6, <2>2
<1>7. Rows(RowsAt(f, first)) = {f.rows[i] : i \in first}
  BY <1>5, RowsAtFacts
<1>8. Rows(f) = {f.rows[i] : i \in DOMAIN f.rows}
  BY DEF Rows, Range
<1>9. ASSUME NEW r \in Rows(f)
      PROVE  \E kept \in Rows(RowsAt(f, first)) : \A c \in profiled : kept[c] = r[c]
  <2>1. PICK i \in DOMAIN f.rows : r = f.rows[i]
    BY <1>8
  <2>2. PICK j \in first : Key(f, j, keys) = Key(f, i, keys)
    BY <1>4
  <2>3. \A c \in profiled : f.rows[j][c] = r[c]
    BY <1>6, <2>1, <2>2
  <2>4. QED
    BY <1>7, <2>3
<1>10. Rows(RowsAt(f, first)) \subseteq Rows(f)
  BY <1>5, <1>7, <1>8
<1>11. QED
  BY <1>2, <1>9, <1>10 DEF profiled

(* The rows of a dataset after the first k rules, up to the order and      *)
(* number of copies.                                                       *)
FoldedBy(r, d, k) ==
    [c \in DOMAIN r |-> IF \E j \in 1 .. k : approved[j] = <<"text_clean", d, c>>
                        THEN Folded(r[c]) ELSE r[c]]

LEMMA FoldedOnce ==
    ASSUME ChainInv, Planned, NEW d, NEW k \in 0 .. (Len(approved) - 1), NEW r
    PROVE  FoldedBy(r, d, k + 1) =
             IF \E c \in DOMAIN r : approved[k + 1] = <<"text_clean", d, c>>
             THEN [FoldedBy(r, d, k) EXCEPT ![approved[k + 1][3]] =
                      Folded(FoldedBy(r, d, k)[approved[k + 1][3]])]
             ELSE FoldedBy(r, d, k)
<1>1. /\ k + 1 \in 1 .. Len(approved) /\ \A j \in 1 .. k : j \in 1 .. Len(approved) /\ j # k + 1
      /\ \A j : j \in 1 .. (k + 1) <=> j \in 1 .. k \/ j = k + 1
      /\ \A i, j \in 1 .. Len(approved) : approved[i] = approved[j] => i = j
  <2>1. Len(approved) \in Nat /\ DOMAIN approved = 1 .. Len(approved)
    BY ApprovedFacts
  <2>2. QED
    BY <2>1 DEF ChainInv, ApprovedOK
<1>2. ASSUME NEW c \in DOMAIN r
      PROVE  (\E j \in 1 .. (k + 1) : approved[j] = <<"text_clean", d, c>>)
               <=> \/ \E j \in 1 .. k : approved[j] = <<"text_clean", d, c>>
                   \/ approved[k + 1] = <<"text_clean", d, c>>
  BY <1>1
<1>3. CASE \E c \in DOMAIN r : approved[k + 1] = <<"text_clean", d, c>>
  <2>1. PICK c \in DOMAIN r : approved[k + 1] = <<"text_clean", d, c>>
    BY <1>3
  <2>2. approved[k + 1][3] = c /\ \A j \in 1 .. k : approved[j] # <<"text_clean", d, c>>
    BY <1>1, <2>1
  <2>3. FoldedBy(r, d, k)[c] = r[c] /\ FoldedBy(r, d, k + 1)[c] = Folded(r[c])
    BY <1>2, <2>1, <2>2 DEF FoldedBy
  <2>4. \A b \in DOMAIN r : b # c => FoldedBy(r, d, k + 1)[b] = FoldedBy(r, d, k)[b]
    <3>1. \A b : <<"text_clean", d, b>> = <<"text_clean", d, c>> => b = c
      OBVIOUS
    <3>2. QED
      BY <1>2, <2>1, <3>1 DEF FoldedBy
  <2>5. /\ FoldedBy(r, d, k + 1) = [b \in DOMAIN r |-> FoldedBy(r, d, k + 1)[b]]
        /\ DOMAIN FoldedBy(r, d, k) = DOMAIN r
    BY DEF FoldedBy
  <2>6. QED
    BY <1>3, <2>1, <2>2, <2>3, <2>4, <2>5
<1>4. CASE ~\E c \in DOMAIN r : approved[k + 1] = <<"text_clean", d, c>>
  <2>1. \A c \in DOMAIN r : (\E j \in 1 .. (k + 1) : approved[j] = <<"text_clean", d, c>>)
                              <=> \E j \in 1 .. k : approved[j] = <<"text_clean", d, c>>
    BY <1>2, <1>4
  <2>2. FoldedBy(r, d, k + 1) = FoldedBy(r, d, k)
    BY <2>1 DEF FoldedBy
  <2>3. QED
    BY <1>4, <2>2
<1>5. QED
  BY <1>3, <1>4

LEMMA FoldedByAll ==
    ASSUME DOMAIN approved = 1 .. Len(approved), NEW d, NEW r
    PROVE  FoldedBy(r, d, Len(approved)) = FoldRow(r, d)
<1>1. \A x : x \in Range(approved) <=> \E j \in 1 .. Len(approved) : approved[j] = x
  BY DEF Range
<1>2. QED
  BY <1>1 DEF FoldedBy, FoldRow

CleanRow(r, c) == [r EXCEPT ![c] = Folded(r[c])]

(* One row less its blanks and capitals, whether or not it has the column. *)
LEMMA FoldedNext ==
    ASSUME ChainInv, Planned, NEW d, NEW k \in 0 .. (Len(approved) - 1), NEW r, NEW c,
           approved[k + 1] = <<"text_clean", d, c>>
    PROVE  FoldedBy(r, d, k + 1) = CleanRow(FoldedBy(r, d, k), c)
<1>1. FoldedBy(r, d, k + 1) =
        IF \E e \in DOMAIN r : approved[k + 1] = <<"text_clean", d, e>>
        THEN [FoldedBy(r, d, k) EXCEPT ![approved[k + 1][3]] =
                 Folded(FoldedBy(r, d, k)[approved[k + 1][3]])]
        ELSE FoldedBy(r, d, k)
  BY FoldedOnce
<1>2. approved[k + 1][3] = c
  OBVIOUS
<1>3. CASE c \in DOMAIN r
  BY <1>1, <1>2, <1>3 DEF CleanRow
<1>4. CASE c \notin DOMAIN r
  <2>1. FoldedBy(r, d, k + 1) = FoldedBy(r, d, k)
    BY <1>1, <1>2, <1>4
  <2>2. CleanRow(FoldedBy(r, d, k), c) = FoldedBy(r, d, k)
    BY <1>4 DEF CleanRow, FoldedBy
  <2>3. QED
    BY <2>1, <2>2
<1>5. QED
  BY <1>3, <1>4

(* What the first k rules leave of a dataset: rows it had, and for each of *)
(* them one that agrees in the profiled columns.  Its copies can be        *)
(* dropped when it has all these columns.                                  *)
KeptAfter(d, k) ==
    /\ Rows(Cleaned(d)[k]) \subseteq {FoldedBy(r, d, k) : r \in Rows(sources[d])}
    /\ \A r \in Rows(sources[d]) : \E kept \in Rows(Cleaned(d)[k]) :
          \A c \in Of(profiles, d) \cap DOMAIN r : kept[c] = FoldedBy(r, d, k)[c]

Accepts(d, k) ==
    \A j \in 1 .. k : approved[j] = <<"dedup", d>> =>
        Of(profiles, d) \subseteq Columns(sources[d])

LEMMA KeptOfRule ==
    ASSUME ChainInv, Planned, NEW d \in Datasets, NEW k \in 0 .. (Len(approved) - 1),
           Accepts(d, k + 1), KeptAfter(d, k)
    PROVE  KeptAfter(d, k + 1)
<1> DEFINE g    == Cleaned(d)[k]
           out  == Cleaned(d)[k + 1]
           s    == sources[d]
           rule == approved[k + 1]
<1>1. /\ Len(approved) \in Nat /\ k \in 0 .. Len(approved) /\ k + 1 \in 1 .. Len(approved)
      /\ (k + 1) - 1 = k /\ k + 1 \in 1 .. (k + 1)
  BY ApprovedFacts
<1>2. IsRule(rule)
  BY <1>1, ApprovedFacts
<1>3. out = CleanOwn(d, g, rule)
  <2>1. approved \in Seq(RuleIds(plan))
    BY ApprovedFacts
  <2>2. \A i \in 1 .. Len(approved) :
          Cleaned(d)[i] = CleanOwn(d, Cleaned(d)[i - 1], approved[i])
    BY <2>1, CleanedIs
  <2>3. QED
    BY <1>1, <2>2
<1>4. IsFrame(g) /\ Columns(g) = Columns(s)
  <2>1. approved \in Seq(RuleIds(plan)) /\ SourcesOK
    BY ApprovedFacts DEF ChainInv
  <2>2. IsFrame(g) /\ g.dtype = s.dtype
    BY <1>1, <2>1, CleanedFrames
  <2>3. QED
    BY <2>2 DEF Columns
<1>5. /\ \A r \in Rows(s) : DOMAIN r = Columns(s)
      /\ \A r \in Rows(g) : DOMAIN r = Columns(s)
  <2>1. \A r \in Rows(s) : r = [c \in Columns(s) |-> r[c]]
    BY DEF ChainInv, SourcesOK, IsFrame
  <2>2. \A r \in Rows(g) : r = [c \in Columns(g) |-> r[c]]
    <3> HIDE DEF g
    <3>1. QED
      BY <1>4 DEF IsFrame
  <2>3. QED
    BY <1>4, <2>1, <2>2
<1> DEFINE past(r) == FoldedBy(r, d, k)
           next(r) == FoldedBy(r, d, k + 1)
           common(r) == Of(profiles, d) \cap DOMAIN r
<1>6. /\ Rows(g) \subseteq {past(r) : r \in Rows(s)}
      /\ \A r \in Rows(s) : \E kept \in Rows(g) : \A c \in common(r) : kept[c] = past(r)[c]
  BY DEF KeptAfter
<1>7. SUFFICES /\ Rows(out) \subseteq {next(r) : r \in Rows(s)}
               /\ \A r \in Rows(s) : \E kept \in Rows(out) :
                     \A c \in common(r) : kept[c] = next(r)[c]
  BY DEF KeptAfter
<1>8. CASE rule[2] # d
  <2>1. \A r : next(r) = past(r)
    <3>1. \A c : rule # <<"text_clean", d, c>>
      BY <1>8
    <3>2. QED
      BY <3>1, FoldedOnce
  <2>2. out = g
    BY <1>3, <1>8 DEF CleanOwn
  <2> HIDE DEF g, out, s, past, next, common
  <2>3. QED
    BY <1>6, <2>1, <2>2
<1>9. CASE rule[2] = d /\ rule[1] # "text_clean"
  <2>1. rule = <<"dedup", d>>
    BY <1>2, <1>9 DEF IsRule
  <2>2. \A r : next(r) = past(r)
    <3>1. \A c : rule # <<"text_clean", d, c>>
      BY <1>9
    <3>2. QED
      BY <3>1, FoldedOnce
  <2>3. Of(profiles, d) \subseteq Columns(g)
    BY <1>1, <1>4, <2>1 DEF Accepts
  <2>4. /\ Rows(Clean(g, rule)) \subseteq Rows(g)
        /\ \A r \in Rows(g) : \E kept \in Rows(Clean(g, rule)) :
              \A c \in Of(profiles, d) : kept[c] = r[c]
    <3> HIDE DEF g, rule
    <3>1. QED
      BY <1>4, <1>9, <2>3, KeysKept
  <2>5. out = Clean(g, rule)
    BY <1>3, <1>9 DEF CleanOwn
  <2>6. \A r \in Rows(s) : common(r) \subseteq Of(profiles, d)
    OBVIOUS
  <2> HIDE DEF g, out, s, rule, past, next, common
  <2>7. ASSUME NEW r \in Rows(s)
        PROVE  \E kept \in Rows(out) : \A c \in common(r) : kept[c] = next(r)[c]
    <3>1. PICK old \in Rows(g) : \A c \in common(r) : old[c] = past(r)[c]
      BY <1>6
    <3>2. PICK kept \in Rows(out) : \A c \in Of(profiles, d) : kept[c] = old[c]
      BY <2>4, <2>5
    <3>3. QED
      BY <2>2, <2>6, <3>1, <3>2
  <2>8. Rows(out) \subseteq {next(r) : r \in Rows(s)}
    BY <1>6, <2>2, <2>4, <2>5
  <2>9. QED
    BY <2>7, <2>8
<1>10. CASE rule[2] = d /\ rule[1] = "text_clean"
  <2>1. PICK c : rule = <<"text_clean", d, c>> /\ rule[3] = c
    BY <1>2, <1>10 DEF IsRule
  <2>2. \A r : next(r) = CleanRow(past(r), c)
    BY <2>1, FoldedNext
  <2>3. Rows(out) = {CleanRow(r, c) : r \in Rows(g)}
    <3>1. out = TextClean(g, c)
      BY <1>3, <1>10, <2>1 DEF CleanOwn, Clean
    <3> HIDE DEF g, out
    <3>2. Rows(TextClean(g, c)) = {[r EXCEPT ![c] = Folded(r[c])] : r \in Rows(g)}
      BY <1>4, TextCleanFacts
    <3>3. QED
      BY <3>1, <3>2 DEF CleanRow
  <2>4. ASSUME NEW r \in Rows(s)
        PROVE  \E kept \in Rows(out) : \A b \in common(r) : kept[b] = next(r)[b]
    <3>1. PICK old \in Rows(g) : \A b \in common(r) : old[b] = past(r)[b]
      <4> HIDE DEF g, s, past, common
      <4>1. QED
        BY <1>6
    <3>2. /\ DOMAIN old = Columns(s) /\ DOMAIN r = Columns(s)
          /\ DOMAIN past(r) = Columns(s) /\ common(r) \subseteq Columns(s)
      <4>1. DOMAIN old = Columns(s) /\ DOMAIN r = Columns(s)
        BY <1>5
      <4>2. QED
        BY <4>1 DEF FoldedBy
    <3> HIDE DEF g, out, s, past, next, common
    <3>3. \A b \in common(r) : CleanRow(old, c)[b] = CleanRow(past(r), c)[b]
      BY <3>1, <3>2 DEF CleanRow
    <3>4. QED
      BY <2>2, <2>3, <3>3
  <2>5. Rows(out) \subseteq {next(r) : r \in Rows(s)}
    <3> HIDE DEF g, out, s, past, next, common
    <3>1. QED
      BY <1>6, <2>2, <2>3
  <2>6. QED
    BY <2>4, <2>5
<1>11. QED
  BY <1>8, <1>9, <1>10

LEMMA KeptAll ==
    ASSUME ChainInv, Planned, NEW d \in Datasets, Accepts(d, Len(approved))
    PROVE  \A k \in 0 .. Len(approved) : KeptAfter(d, k)
<1> DEFINE S == {k \in Nat : KeptAfter(d, k)}
<1>1. Len(approved) \in Nat /\ approved \in Seq(RuleIds(plan))
  BY ApprovedFacts
<1>2. 0 \in S
  <2>1. Cleaned(d)[0] = sources[d]
    BY <1>1, CleanedIs
  <2>2. ASSUME NEW r \in Rows(sources[d]) PROVE FoldedBy(r, d, 0) = r
    <3>1. r = [c \in Columns(sources[d]) |-> r[c]]
      BY DEF ChainInv, SourcesOK, IsFrame
    <3>2. r = [c \in DOMAIN r |-> r[c]]
      BY <3>1
    <3>3. 1 .. 0 = {}
      OBVIOUS
    <3>4. FoldedBy(r, d, 0) = [c \in DOMAIN r |-> r[c]]
      BY <3>3 DEF FoldedBy
    <3>5. QED
      BY <3>2, <3>4
  <2>3. QED
    BY <2>1, <2>2 DEF KeptAfter
<1>3. ASSUME NEW k \in 0 .. (Len(approved) - 1), k \in S PROVE k + 1 \in S
  <2>1. k + 1 \in Nat /\ \A j \in 1 .. (k + 1) : j \in 1 .. Len(approved)
    BY <1>1
  <2>2. Accepts(d, k + 1)
    BY <2>1 DEF Accepts
  <2>3. KeptAfter(d, k + 1)
    BY <1>3, <2>2, KeptOfRule
  <2>4. QED
    BY <2>1, <2>3
<1> HIDE DEF S
<1>4. \A k \in 0 .. Len(approved) : k \in S
  BY <1>1, <1>2, <1>3, Stepwise
<1>5. QED
  BY <1>4 DEF S

(* With the columns it was profiled with, all its rows.                    *)
LEMMA RowsCleaned ==
    ASSUME ChainInv, Planned, NEW d \in Datasets, Columns(sources[d]) = Of(profiles, d)
    PROVE  \A k \in 0 .. Len(approved) :
              Rows(Cleaned(d)[k]) = {FoldedBy(r, d, k) : r \in Rows(sources[d])}
<1> SUFFICES ASSUME NEW k \in 0 .. Len(approved)
             PROVE  Rows(Cleaned(d)[k]) = {FoldedBy(r, d, k) : r \in Rows(sources[d])}
  OBVIOUS
<1> DEFINE g == Cleaned(d)[k]
           s == sources[d]
<1>1. KeptAfter(d, k)
  <2>1. Accepts(d, Len(approved))
    BY DEF Accepts
  <2>2. QED
    BY <2>1, KeptAll
<1>2. \A r \in Rows(g) : r = [c \in Columns(s) |-> r[c]]
  <2>1. approved \in Seq(RuleIds(plan)) /\ SourcesOK
    BY ApprovedFacts DEF ChainInv
  <2>2. IsFrame(g) /\ g.dtype = s.dtype
    BY <2>1, CleanedFrames
  <2> HIDE DEF g
  <2>3. QED
    BY <2>2 DEF IsFrame, Columns
<1>3. ASSUME NEW r \in Rows(s) PROVE FoldedBy(r, d, k) \in Rows(g)
  <2>1. PICK kept \in Rows(g) :
          \A c \in Of(profiles, d) \cap DOMAIN r : kept[c] = FoldedBy(r, d, k)[c]
    BY <1>1 DEF KeptAfter
  <2>2. r = [c \in Columns(s) |-> r[c]]
    BY DEF ChainInv, SourcesOK, IsFrame
  <2>3. DOMAIN r = Columns(s)
    BY <2>2
  <2>4. FoldedBy(r, d, k) = [c \in Columns(s) |-> FoldedBy(r, d, k)[c]]
    BY <2>3 DEF FoldedBy
  <2> HIDE DEF g
  <2>5. kept = FoldedBy(r, d, k)
    BY <1>2, <2>1, <2>3, <2>4
  <2>6. QED
    BY <2>1, <2>5
<1>4. Rows(g) \subseteq {FoldedBy(r, d, k) : r \in Rows(s)}
  BY <1>1 DEF KeptAfter
<1>5. QED
  BY <1>3, <1>4
-----------------------------------------------------------------------------
(* A node behind a deduplicate step exists only when the data had all the  *)
(* columns of the profile: the operation refuses otherwise.                *)
NodesAccepted ==
    Running =>
        /\ \A i \in 1 .. Len(approved) :
              approved[i] \in DOMAIN frames => Accepts(approved[i][2], i)
        /\ \A name \in DOMAIN Readers : <<"step", name>> \in DOMAIN frames =>
              \A n \in DOMAIN Readers[name] : Accepts(Readers[name][n], Len(approved))

LEMMA FeedAccepts ==
    ASSUME NodesAccepted, Running, NEW R, approved \in Seq(R), NEW d \in Datasets
    PROVE  \A k \in 0 .. Len(approved) :
              Feed(approved, d, k) \in DOMAIN frames => Accepts(d, k)
<1> DEFINE S == {k \in Nat : Feed(approved, d, k) \in DOMAIN frames => Accepts(d, k)}
<1>1. Len(approved) \in Nat /\ DOMAIN approved = 1 .. Len(approved)
  OBVIOUS
<1>2. 0 \in S
  BY DEF Accepts
<1>3. ASSUME NEW k \in 0 .. (Len(approved) - 1), k \in S PROVE k + 1 \in S
  <2>1. k + 1 \in 1 .. Len(approved) /\ (k + 1) - 1 = k /\ k + 1 \in Nat \ {0}
        /\ \A j \in 1 .. (k + 1) : j \in 1 .. k \/ j = k + 1
    BY <1>1
  <2>2. Feed(approved, d, k + 1) = IF approved[k + 1][2] = d THEN approved[k + 1]
                                                            ELSE Feed(approved, d, k)
    BY <2>1, FeedNext
  <2>3. CASE approved[k + 1][2] = d
    BY <2>1, <2>2, <2>3 DEF NodesAccepted
  <2>4. CASE approved[k + 1][2] # d
    <3>1. approved[k + 1] # <<"dedup", d>>
      BY <2>4
    <3>2. Accepts(d, k) => Accepts(d, k + 1)
      BY <2>1, <3>1 DEF Accepts
    <3>3. QED
      BY <1>3, <2>1, <2>2, <2>4, <3>2
  <2>5. QED
    BY <2>3, <2>4
<1> HIDE DEF S
<1>4. \A k \in 0 .. Len(approved) : k \in S
  BY <1>1, <1>2, <1>3, Stepwise
<1>5. QED
  BY <1>4 DEF S

LEMMA AcceptedRule ==
    ASSUME ChainInv, NodesAccepted, Running, NEW i \in 1 .. Len(approved), NEW step,
           step = CleaningStep(approved[i], Fed(approved, i - 1)), ExecuteStep(step),
           frames' # frames
    PROVE  Accepts(approved[i][2], i)
<1> DEFINE d == approved[i][2]
           node == Feed(approved, d, i - 1)
           f == Cleaned(d)[i - 1]
           inputs == [n \in DOMAIN step.inputs |-> frames[step.inputs[n]]]
<1>1. Planned
  BY DEF Running, Planned
<1>2. /\ approved \in Seq(RuleIds(plan)) /\ IsRule(approved[i]) /\ d \in Datasets
      /\ Len(approved) \in Nat /\ i - 1 \in 0 .. Len(approved)
      /\ Profiled /\ SourcesOK /\ FramesOfNodes
  BY <1>1, ApprovedFacts DEF IsRule, ChainInv
<1>3. step.inputs = <<node>>
  BY <1>2 DEF CleaningStep, Fed
<1>4. node \in DOMAIN frames /\ inputs[1] = frames[node]
  <2>1. Range(step.inputs) \subseteq DOMAIN frames
    BY ExecutedStep
  <2>2. QED
    BY <1>3, <2>1 DEF Range
<1>5. Accepts(d, i - 1)
  BY <1>2, <1>4, FeedAccepts
<1>6. \A j \in 1 .. i : j \in 1 .. (i - 1) \/ j = i
  BY <1>2
<1>7. CASE approved[i] # <<"dedup", d>>
  BY <1>5, <1>6, <1>7 DEF Accepts
<1>8. CASE approved[i] = <<"dedup", d>>
  <2>1. inputs[1] = f /\ Columns(f) = Columns(sources[d])
    <3>1. frames[node] = f
      BY <1>2, <1>4, FeedFrame
    <3>2. f.dtype = sources[d].dtype
      BY <1>2, CleanedFrames
    <3>3. QED
      BY <1>4, <3>1, <3>2 DEF Columns
  <2>2. \E out : out \in Results(step, inputs)
    BY ExecutedStep
  <2>3. step.op = "dedup" /\ step.keys = Of(profiles, d)
    BY <1>8 DEF CleaningStep
  <2>4. DeduplicateAccepts(f, FullRow(Of(profiles, d)))
    <3> HIDE DEF inputs, f
    <3>1. QED
      BY <2>1, <2>2, <2>3 DEF Results
  <2>5. FullRow(Of(profiles, d)).keys = SetToSeq(Of(profiles, d))
    BY DEF FullRow
  <2>6. Range(SetToSeq(Of(profiles, d))) \subseteq Columns(f)
    BY <2>4, <2>5 DEF DeduplicateAccepts
  <2>7. \A c \in Of(profiles, d) :
          \E n \in DOMAIN SetToSeq(Of(profiles, d)) : SetToSeq(Of(profiles, d))[n] = c
    BY <1>2, ProfilesFacts, SetToSeqFacts
  <2>8. Of(profiles, d) \subseteq Columns(sources[d])
    BY <2>1, <2>6, <2>7 DEF Range
  <2>9. QED
    BY <2>8 DEF Accepts
<1>9. QED
  BY <1>7, <1>8

LEMMA AcceptedExecute ==
    ASSUME ChainInv, NodesAccepted, NEW step \in workflow, ExecuteStep(step)
    PROVE  NodesAccepted'
<1>1. /\ phase = "running" /\ phase' \in {"running", "failed"}
      /\ UNCHANGED <<profiles, sources, approved>>
      /\ Range(step.inputs) \subseteq DOMAIN frames
      /\ frames' = frames \/ DOMAIN frames' = DOMAIN frames \cup {step.id}
  BY ExecutedStep
<1>2. Running /\ Planned
  BY <1>1 DEF Running, Planned
<1>3. /\ approved \in Seq(RuleIds(plan)) /\ Len(approved) \in Nat
      /\ Len(approved) \in 0 .. Len(approved)
  BY <1>2, ApprovedFacts
<1>4. \A d, k : Accepts(d, k)' <=> Accepts(d, k)
  BY <1>1 DEF Accepts
<1>5. CASE frames' = frames
  BY <1>1, <1>2, <1>4, <1>5 DEF NodesAccepted
<1>6. CASE frames' # frames
  <2>1. ASSUME NEW i \in 1 .. Len(approved), approved[i] = step.id
        PROVE  Accepts(approved[i][2], i)
    <3>1. step = CleaningStep(approved[i], Fed(approved, i - 1))
      BY <1>2, <2>1, StepOfRule
    <3>2. QED
      BY <1>2, <1>6, <3>1, AcceptedRule
  <2>2. ASSUME NEW name \in DOMAIN Readers, <<"step", name>> = step.id,
               NEW n \in DOMAIN Readers[name]
        PROVE  Accepts(Readers[name][n], Len(approved))
    <3> DEFINE d == Readers[name][n]
    <3>1. d \in Datasets
      BY ReadersAssumption
    <3>2. step.inputs[n] = Feed(approved, d, Len(approved)) /\ n \in DOMAIN step.inputs
      <4>1. step.inputs = [m \in DOMAIN Readers[name] |->
                             Fed(approved, Len(approved))[Readers[name][m]]]
        BY <1>2, <2>2, StepOfReader
      <4>2. QED
        BY <3>1, <4>1 DEF Fed
    <3>3. Feed(approved, d, Len(approved)) \in DOMAIN frames
      BY <1>1, <3>2 DEF Range
    <3>4. QED
      BY <1>2, <1>3, <3>1, <3>3, FeedAccepts
  <2>3. QED
    BY <1>1, <1>2, <1>4, <1>6, <2>1, <2>2 DEF NodesAccepted
<1>7. QED
  BY <1>5, <1>6

LEMMA AcceptedInductive ==
    ASSUME ChainInv, NodesAccepted, [Next]_vars
    PROVE  NodesAccepted'
<1>1. CASE \/ CreateRequirement \/ ReviseRequirement \/ ApproveRequirement
           \/ PlanRequirement \/ ApproveCleaningRules \/ SourceChanges
  BY <1>1 DEF NodesAccepted, Running, CreateRequirement, ReviseRequirement,
              ApproveRequirement, PlanRequirement, ApproveCleaningRules, SourceChanges
<1>2. CASE StartRun
  <2>1. /\ UNCHANGED approved /\ Planned
        /\ \A n \in DOMAIN frames' : IsSource(n)
    BY <1>2 DEF StartRun, Planned, IsSource, Source
  <2>2. \A i \in 1 .. Len(approved) : ~IsSource(approved[i])
    BY <2>1, ApprovedFacts
  <2>3. \A name : ~IsSource(<<"step", name>>)
    BY DEF IsSource
  <2>4. QED
    BY <2>1, <2>2, <2>3 DEF NodesAccepted
<1>3. CASE UNCHANGED vars
  BY <1>3 DEF vars, NodesAccepted, Running, Accepts
<1>4. QED
  BY <1>1, <1>2, <1>3, AcceptedExecute DEF Next

LEMMA AcceptedInvariance == Spec => [](ChainInv /\ NodesAccepted)
<1>1. Init => NodesAccepted
  BY DEF Init, NodesAccepted, Running
<1>2. QED
  BY <1>1, ChainInit, ChainInductive, AcceptedInductive, PTL DEF Spec

LEMMA ReadAccepted ==
    ASSUME ChainInv, NodesAccepted, NEW d \in Datasets, NEW f \in ReadOf(d)
    PROVE  Accepts(d, Len(approved))
<1>1. PICK name \in DOMAIN Readers : \E n \in DOMAIN Readers[name] :
          Readers[name][n] = d /\ <<"step", name>> \in DOMAIN frames
  BY DEF ReadOf
<1>2. Running
  BY ReadFacts
<1>3. QED
  BY <1>1, <1>2 DEF NodesAccepted

LEMMA ChainInvCopies == ChainInv /\ NodesAccepted => OnlyCopiesAreDropped
<1> SUFFICES ASSUME ChainInv, NodesAccepted, NEW d \in Datasets, NEW f \in ReadOf(d)
             PROVE  /\ Rows(f) \subseteq {FoldRow(r, d) : r \in Rows(sources[d])}
                    /\ \A r \in Rows(sources[d]) : \E kept \in Rows(f) :
                          \A c \in Of(profiles, d) \cap DOMAIN r :
                              kept[c] = FoldRow(r, d)[c]
  BY DEF OnlyCopiesAreDropped
<1>1. f = Cleaned(d)[Len(approved)] /\ Planned
  BY ReadFacts
<1>2. Len(approved) \in Nat /\ DOMAIN approved = 1 .. Len(approved)
  BY <1>1, ApprovedFacts
<1>3. KeptAfter(d, Len(approved))
  BY <1>1, <1>2, ReadAccepted, KeptAll
<1>4. \A r : FoldedBy(r, d, Len(approved)) = FoldRow(r, d)
  BY <1>2, FoldedByAll
<1>5. QED
  BY <1>1, <1>3, <1>4 DEF KeptAfter

(* Cleaning loses no row but copies: whatever data a run is given, its     *)
(* readers get rows it had, and for each of them one that agrees in all    *)
(* profiled columns, up to case and blanks where a rule was approved.      *)
THEOREM CopiesSafety == Spec => []OnlyCopiesAreDropped
BY ChainInvCopies, AcceptedInvariance, PTL
-----------------------------------------------------------------------------
(* What the API starts is clean.                                           *)
LEMMA RequiredRules ==
    ASSUME ChainInv, caller = "api", Running, NEW d \in Datasets
    PROVE  /\ profiles[d].duplicates > 0 => <<"dedup", d>> \in Range(approved)
           /\ \A place \in Places(MappingsNow) :
                place[1] = d /\ HasVariants(ColumnOf(profiles, place)) =>
                    <<"text_clean", d, place[2]>> \in Range(approved)
<1>1. /\ Planned /\ Profiled /\ ContractOK /\ plan = Propose(contract, IssuesNow)
      /\ Unresolved(plan, Range(approved)) = {}
  BY ApprovedFacts DEF Running, Planned, ChainInv, SourcesOK
<1>2. \A rule \in plan.rules : rule.required => rule.id \in Range(approved)
  BY <1>1 DEF Unresolved
<1>3. ASSUME NEW issue \in IssuesNow, issue.severity # "WARNING",
             issue.rule[1] \in {"duplicates", "text_formatting"}
      PROVE  IF issue.rule[1] = "duplicates"
             THEN <<"dedup", issue.rule[2]>> \in Range(approved)
             ELSE <<"text_clean", issue.rule[2], issue.rule[3]>> \in Range(approved)
  <2>1. issue.rule \in OfKind(IssuesNow, issue.rule[1])
    BY <1>3 DEF OfKind, Actionable
  <2>2. CASE issue.rule[1] = "duplicates"
    <3>1. Rule(<<"dedup", issue.rule[2]>>, TRUE) \in plan.rules
      BY <1>1, <2>1, <2>2 DEF Propose
    <3>2. QED
      BY <1>2, <2>2, <3>1 DEF Rule
  <2>3. CASE issue.rule[1] = "text_formatting"
    <3>1. Rule(<<"text_clean", issue.rule[2], issue.rule[3]>>, TRUE) \in plan.rules
      BY <1>1, <2>1, <2>3 DEF Propose
    <3>2. QED
      BY <1>2, <2>3, <3>1 DEF Rule
  <2>4. QED
    BY <1>3, <2>2, <2>3
<1>4. ASSUME profiles[d].duplicates > 0 PROVE <<"dedup", d>> \in Range(approved)
  <2> DEFINE severity == IF MoreThanHalf(profiles[d].duplicates, profiles[d].rows)
                         THEN "BLOCKING" ELSE "REQUIRES_RULE"
  <2>1. d \in DOMAIN profiles
    BY <1>1 DEF Profiled
  <2>2. Issue(severity, <<"duplicates", d>>) \in DuplicateIssues(profiles)
    BY <1>4, <2>1 DEF DuplicateIssues
  <2>3. Issue(severity, <<"duplicates", d>>) \in IssuesNow
    BY <2>2 DEF IssuesNow, Issues
  <2>4. severity # "WARNING"
    OBVIOUS
  <2> HIDE DEF severity
  <2> DEFINE issue == Issue(severity, <<"duplicates", d>>)
  <2>5. issue.severity = severity /\ issue.rule[1] = "duplicates" /\ issue.rule[2] = d
    BY DEF Issue
  <2>6. issue \in IssuesNow
    BY <2>3
  <2> HIDE DEF issue
  <2>7. QED
    BY <1>3, <2>4, <2>5, <2>6
<1>5. ASSUME NEW place \in Places(MappingsNow), place[1] = d,
             HasVariants(ColumnOf(profiles, place))
      PROVE  <<"text_clean", d, place[2]>> \in Range(approved)
  <2>1. place = <<d, place[2]>>
    BY <1>1, <1>5, PlacesFacts DEF IsPlace
  <2>2. <<"text_formatting">> \o place = <<"text_formatting", d, place[2]>>
    BY <2>1, TriplesConcatenate
  <2>3. Issue("REQUIRES_RULE", <<"text_formatting">> \o place)
          \in TextFormattingIssues(MappingsNow, profiles)
    BY <1>5 DEF TextFormattingIssues
  <2>4. Issue("REQUIRES_RULE", <<"text_formatting", d, place[2]>>) \in IssuesNow
    BY <2>2, <2>3 DEF IssuesNow, Issues
  <2> DEFINE issue == Issue("REQUIRES_RULE", <<"text_formatting", d, place[2]>>)
  <2>5. /\ issue.severity = "REQUIRES_RULE" /\ issue.rule[1] = "text_formatting"
        /\ issue.rule[2] = d /\ issue.rule[3] = place[2]
    BY DEF Issue
  <2>6. issue \in IssuesNow
    BY <2>4
  <2> HIDE DEF issue
  <2>7. QED
    BY <1>3, <2>5, <2>6
<1>6. QED
  BY <1>4, <1>5

(* A dataset is as high as it was until its copies are dropped, and they   *)
(* are dropped before any of its texts is changed.                         *)
HeightAfter(d, k) ==
    IF \E j \in 1 .. k : approved[j] = <<"dedup", d>>
    THEN Cardinality(Rows(sources[d])) ELSE Height(sources[d])

LEMMA HeightOfRule ==
    ASSUME ChainInv, Planned, caller = "api", NEW d \in Datasets,
           Columns(sources[d]) = Of(profiles, d),
           NEW k \in 0 .. (Len(approved) - 1),
           Height(Cleaned(d)[k]) = HeightAfter(d, k)
    PROVE  Height(Cleaned(d)[k + 1]) = HeightAfter(d, k + 1)
<1> DEFINE g    == Cleaned(d)[k]
           rule == approved[k + 1]
<1>1. /\ Len(approved) \in Nat /\ k \in 0 .. Len(approved) /\ k + 1 \in 1 .. Len(approved)
      /\ (k + 1) - 1 = k /\ \A j : j \in 1 .. (k + 1) <=> j \in 1 .. k \/ j = k + 1
      /\ \A j \in 1 .. k : j \in 1 .. Len(approved) /\ j # k + 1 /\ ~(k + 1 < j)
  BY ApprovedFacts
<1>2. IsRule(rule)
  BY <1>1, ApprovedFacts
<1>3. Cleaned(d)[k + 1] = CleanOwn(d, g, rule)
  <2>1. approved \in Seq(RuleIds(plan))
    BY ApprovedFacts
  <2>2. \A i \in 1 .. Len(approved) :
          Cleaned(d)[i] = CleanOwn(d, Cleaned(d)[i - 1], approved[i])
    BY <2>1, CleanedIs
  <2>3. QED
    BY <1>1, <2>2
<1>4. IsFrame(g) /\ Columns(g) = Of(profiles, d)
  <2>1. approved \in Seq(RuleIds(plan)) /\ SourcesOK
    BY ApprovedFacts DEF ChainInv
  <2>2. IsFrame(g) /\ g.dtype = sources[d].dtype
    BY <1>1, <2>1, CleanedFrames
  <2>3. QED
    BY <2>2 DEF Columns
<1>5. /\ \A i, j \in 1 .. Len(approved) : approved[i] = approved[j] => i = j
      /\ \A i, j \in 1 .. Len(approved) :
            approved[i][1] = "text_clean" /\ approved[j][1] = "dedup" => j < i
  BY ApprovedFacts DEF ChainInv, ApprovedOK
<1>6. CASE rule = <<"dedup", d>>
  <2>1. rule[1] = "dedup" /\ rule[1] # "text_clean" /\ rule[2] = d
    BY <1>6
  <2>2. \A j \in 1 .. k : approved[j][1] # "text_clean"
    BY <1>1, <1>5, <2>1
  <2>3. \A r \in Rows(sources[d]) : FoldedBy(r, d, k) = r
    <3>1. ASSUME NEW r \in Rows(sources[d]) PROVE FoldedBy(r, d, k) = r
      <4>1. r = [c \in Columns(sources[d]) |-> r[c]]
        BY DEF ChainInv, SourcesOK, IsFrame
      <4>2. \A j \in 1 .. k : \A c : approved[j] # <<"text_clean", d, c>>
        BY <2>2
      <4>3. FoldedBy(r, d, k) = [c \in DOMAIN r |-> r[c]]
        BY <4>2 DEF FoldedBy
      <4>4. QED
        BY <4>1, <4>3
    <3>2. QED
      BY <3>1
  <2>4. Rows(g) = Rows(sources[d])
    <3>1. Rows(g) = {FoldedBy(r, d, k) : r \in Rows(sources[d])}
      BY <1>1, RowsCleaned
    <3>2. QED
      BY <2>3, <3>1
  <2>5. Height(Clean(g, rule)) = Cardinality(Rows(g))
    <3> HIDE DEF g, rule
    <3>1. QED
      BY <1>4, <2>1, CopiesDropped
  <2>6. HeightAfter(d, k + 1) = Cardinality(Rows(sources[d]))
    BY <1>1, <1>6 DEF HeightAfter
  <2>7. QED
    BY <1>3, <2>1, <2>4, <2>5, <2>6 DEF CleanOwn
<1>7. CASE rule # <<"dedup", d>>
  <2>1. HeightAfter(d, k + 1) = HeightAfter(d, k)
    <3>1. (\E j \in 1 .. (k + 1) : approved[j] = <<"dedup", d>>)
            <=> \E j \in 1 .. k : approved[j] = <<"dedup", d>>
      BY <1>1, <1>7
    <3>2. QED
      BY <3>1 DEF HeightAfter
  <2>2. Height(Cleaned(d)[k + 1]) = Height(g)
    <3>1. CASE rule[2] # d
      BY <1>3, <3>1 DEF CleanOwn
    <3>2. CASE rule[2] = d
      <4>1. rule[1] = "text_clean"
        BY <1>2, <1>7, <3>2 DEF IsRule
      <4>2. Height(TextClean(g, rule[3])) = Height(g)
        <5> HIDE DEF g, rule
        <5>1. QED
          BY <1>4, TextCleanFacts
      <4>3. QED
        BY <1>3, <3>2, <4>1, <4>2 DEF CleanOwn, Clean
    <3>3. QED
      BY <3>1, <3>2
  <2>3. QED
    BY <2>1, <2>2
<1>8. QED
  BY <1>6, <1>7

LEMMA HeightCleaned ==
    ASSUME ChainInv, Planned, caller = "api", NEW d \in Datasets,
           Columns(sources[d]) = Of(profiles, d)
    PROVE  \A k \in 0 .. Len(approved) : Height(Cleaned(d)[k]) = HeightAfter(d, k)
<1> DEFINE S == {k \in Nat : Height(Cleaned(d)[k]) = HeightAfter(d, k)}
<1>1. Len(approved) \in Nat /\ approved \in Seq(RuleIds(plan))
  BY ApprovedFacts
<1>2. 0 \in S
  <2>1. Cleaned(d)[0] = sources[d]
    BY <1>1, CleanedIs
  <2>2. HeightAfter(d, 0) = Height(sources[d])
    BY DEF HeightAfter
  <2>3. QED
    BY <2>1, <2>2
<1>3. ASSUME NEW k \in 0 .. (Len(approved) - 1), k \in S PROVE k + 1 \in S
  <2>1. Height(Cleaned(d)[k]) = HeightAfter(d, k)
    BY <1>3
  <2>2. Height(Cleaned(d)[k + 1]) = HeightAfter(d, k + 1)
    BY <2>1, HeightOfRule
  <2>3. k + 1 \in Nat
    OBVIOUS
  <2>4. QED
    BY <2>2, <2>3
<1> HIDE DEF S
<1>4. \A k \in 0 .. Len(approved) : k \in S
  BY <1>1, <1>2, <1>3, Stepwise
<1>5. QED
  BY <1>4 DEF S

(* No more rows than the frame is high.                                    *)
LEMMA NoMoreRows ==
    ASSUME NEW f, IsFrame(f)
    PROVE  Height(f) \in Nat /\ Cardinality(Rows(f)) \in Nat
           /\ Cardinality(Rows(f)) <= Height(f)
<1> DEFINE positions == 1 .. Height(f)
           row == [i \in positions |-> f.rows[i]]
<1>1. Height(f) \in Nat /\ IsFiniteSet(Rows(f)) /\ Rows(f) = {row[i] : i \in positions}
  <2>1. Rows(f) = {f.rows[i] : i \in positions}
    BY FrameFacts
  <2>2. {row[i] : i \in positions} = {f.rows[i] : i \in positions}
    OBVIOUS
  <2>3. QED
    BY <2>1, <2>2, FrameFacts
<1>2. Cardinality(positions) = Height(f) /\ IsFiniteSet(positions)
  BY <1>1, FS_Interval
<1>3. row = [i \in positions |-> row[i]]
  OBVIOUS
<1> HIDE DEF row, positions
<1>4. Cardinality(Rows(f)) <= Height(f)
  BY <1>1, <1>2, <1>3, FiniteImage
<1>5. QED
  BY <1>1, <1>4, FS_CardinalityType

(* The distinct values of a column, and what is left of them.              *)
LEMMA ValuesFacts ==
    ASSUME NEW f, IsFrame(f), NEW c
    PROVE  /\ IsFiniteSet(Values(f, c)) /\ Cardinality(Values(f, c)) \in Nat
           /\ Cardinality({Folded(v) : v \in Values(f, c)}) \in Nat
           /\ Cardinality({Folded(v) : v \in Values(f, c)}) <= Cardinality(Values(f, c))
<1> DEFINE value == [r \in Rows(f) |-> r[c]]
           fold  == [v \in Values(f, c) |-> Folded(v)]
<1>1. IsFiniteSet(Values(f, c))
  <2>1. IsFiniteSet(Rows(f)) /\ value = [r \in Rows(f) |-> value[r]]
    BY FrameFacts
  <2>2. Values(f, c) = {value[r] : r \in Rows(f)}
    BY DEF Values
  <2> HIDE DEF value
  <2>3. QED
    BY <2>1, <2>2, FiniteImage
<1>2. {fold[v] : v \in Values(f, c)} = {Folded(v) : v \in Values(f, c)}
      /\ \A v \in Values(f, c) : fold[v] = Folded(v)
  OBVIOUS
<1>3. fold = [v \in Values(f, c) |-> fold[v]]
  OBVIOUS
<1> HIDE DEF fold
<1>4. /\ IsFiniteSet({fold[v] : v \in Values(f, c)})
      /\ Cardinality({fold[v] : v \in Values(f, c)}) <= Cardinality(Values(f, c))
  BY <1>1, <1>3, FiniteImage
<1>5. QED
  BY <1>1, <1>2, <1>4, FS_CardinalityType

(* The rows a dataset consists of after the first k rules, traced back to  *)
(* the rows of the source they come from.                                  *)
Traced(d, k, origin) ==
    /\ origin \in Surjection(1 .. Height(Cleaned(d)[k]), Rows(sources[d]))
    /\ \A i \in 1 .. Height(Cleaned(d)[k]) :
          Cleaned(d)[k].rows[i] = FoldedBy(origin[i], d, k)

LEMMA TextCleanRows ==
    ASSUME NEW f, IsFrame(f), NEW c
    PROVE  \A i \in 1 .. Height(f) : TextClean(f, c).rows[i] = CleanRow(f.rows[i], c)
<1> SUFFICES ASSUME NEW i \in 1 .. Height(f)
             PROVE  TextClean(f, c).rows[i] = CleanRow(f.rows[i], c)
  OBVIOUS
<1>1. i \in DOMAIN f.rows /\ f = [dtype |-> f.dtype, rows |-> f.rows]
  BY FrameFacts
<1>2. TextClean(f, c).rows =
        [j \in DOMAIN f.rows |-> [f.rows[j] EXCEPT ![c] = Folded(f.rows[j][c])]]
  BY <1>1 DEF TextClean
<1>3. QED
  BY <1>1, <1>2 DEF CleanRow

LEMMA TracedOnce ==
    ASSUME ChainInv, Planned, caller = "api", NEW d \in Datasets,
           Columns(sources[d]) = Of(profiles, d),
           NEW k \in 0 .. (Len(approved) - 1), NEW origin, Traced(d, k, origin)
    PROVE  \E next : Traced(d, k + 1, next)
<1> DEFINE g    == Cleaned(d)[k]
           out  == Cleaned(d)[k + 1]
           s    == sources[d]
           rule == approved[k + 1]
<1>1. /\ Len(approved) \in Nat /\ k \in 0 .. Len(approved) /\ k + 1 \in 1 .. Len(approved)
      /\ k + 1 \in 0 .. Len(approved) /\ (k + 1) - 1 = k
      /\ \A j \in 1 .. k : j \in 1 .. Len(approved) /\ ~(k + 1 < j)
  BY ApprovedFacts
<1>2. IsRule(rule)
  BY <1>1, ApprovedFacts
<1>3. out = CleanOwn(d, g, rule)
  <2>1. approved \in Seq(RuleIds(plan))
    BY ApprovedFacts
  <2>2. \A i \in 1 .. Len(approved) :
          Cleaned(d)[i] = CleanOwn(d, Cleaned(d)[i - 1], approved[i])
    BY <2>1, CleanedIs
  <2>3. QED
    BY <1>1, <2>2
<1>4. /\ IsFrame(g) /\ Columns(g) = Of(profiles, d)
      /\ IsFrame(out) /\ IsFrame(s)
  <2>1. approved \in Seq(RuleIds(plan)) /\ SourcesOK
    BY ApprovedFacts DEF ChainInv
  <2>2. IsFrame(g) /\ g.dtype = s.dtype /\ IsFrame(out)
    BY <1>1, <2>1, CleanedFrames
  <2>3. QED
    BY <2>1, <2>2 DEF Columns, SourcesOK
<1>5. \A r \in Rows(s) : DOMAIN r = Of(profiles, d) /\ r = [c \in DOMAIN r |-> r[c]]
  BY DEF ChainInv, SourcesOK, IsFrame
<1>6. \A i \in 1 .. Height(g) : origin[i] \in Rows(s)
  BY DEF Traced, Surjection
<1>7. CASE rule[2] # d
  <2>1. out = g
    BY <1>3, <1>7 DEF CleanOwn
  <2>2. \A r \in Rows(s) : FoldedBy(r, d, k + 1) = FoldedBy(r, d, k)
    <3>1. \A c : rule # <<"text_clean", d, c>>
      BY <1>7
    <3>2. QED
      BY <3>1, FoldedOnce
  <2>3. Traced(d, k + 1, origin)
    BY <1>6, <2>1, <2>2 DEF Traced
  <2>4. QED
    BY <2>3
<1>8. CASE rule[2] = d /\ rule[1] = "text_clean"
  <2>1. PICK c \in Of(profiles, d) : rule = <<"text_clean", d, c>> /\ rule[3] = c
    BY <1>2, <1>8 DEF IsRule
  <2>2. out = TextClean(g, c)
    BY <1>3, <1>8, <2>1 DEF CleanOwn, Clean
  <2>3. Height(out) = Height(g)
        /\ \A i \in 1 .. Height(g) : out.rows[i] = CleanRow(g.rows[i], c)
    <3> HIDE DEF g, out
    <3>1. Height(out) = Height(g)
      BY <1>4, <2>2, TextCleanFacts
    <3>2. \A i \in 1 .. Height(g) : out.rows[i] = CleanRow(g.rows[i], c)
      BY <1>4, <2>2, TextCleanRows
    <3>3. QED
      BY <3>1, <3>2
  <2>4. ASSUME NEW r \in Rows(s)
        PROVE  FoldedBy(r, d, k + 1) = CleanRow(FoldedBy(r, d, k), c)
    <3>1. c \in DOMAIN r /\ approved[k + 1] = <<"text_clean", d, c>> /\ approved[k + 1][3] = c
      BY <1>5, <2>1
    <3>2. FoldedBy(r, d, k + 1) =
            IF \E e \in DOMAIN r : approved[k + 1] = <<"text_clean", d, e>>
            THEN [FoldedBy(r, d, k) EXCEPT ![approved[k + 1][3]] =
                     Folded(FoldedBy(r, d, k)[approved[k + 1][3]])]
            ELSE FoldedBy(r, d, k)
      BY FoldedOnce
    <3>3. QED
      BY <3>1, <3>2 DEF CleanRow
  <2>5. \A i \in 1 .. Height(g) : out.rows[i] = FoldedBy(origin[i], d, k + 1)
    <3>1. \A i \in 1 .. Height(g) : g.rows[i] = FoldedBy(origin[i], d, k)
      BY DEF Traced
    <3> HIDE DEF g, out, s
    <3>2. QED
      BY <1>6, <2>3, <2>4, <3>1
  <2>6. Traced(d, k + 1, origin)
    BY <2>3, <2>5 DEF Traced
  <2>7. QED
    BY <2>6
<1>9. CASE rule[2] = d /\ rule[1] # "text_clean"
  <2>1. rule[1] = "dedup"
    BY <1>2, <1>9 DEF IsRule
  <2>2. \A j \in 1 .. (k + 1) : approved[j][1] # "text_clean"
    <3>1. \A i, j \in 1 .. Len(approved) :
            approved[i][1] = "text_clean" /\ approved[j][1] = "dedup" => j < i
      BY ApprovedFacts DEF ChainInv, ApprovedOK
    <3>2. \A j \in 1 .. k : approved[j][1] # "text_clean"
      BY <1>1, <2>1, <3>1
    <3>3. \A j \in 1 .. (k + 1) : j \in 1 .. k \/ j = k + 1
      BY <1>1
    <3>4. QED
      BY <1>9, <3>2, <3>3
  <2>3. \A r \in Rows(s) : FoldedBy(r, d, k + 1) = r /\ FoldedBy(r, d, k) = r
    <3>1. ASSUME NEW r \in Rows(s)
          PROVE  FoldedBy(r, d, k + 1) = r /\ FoldedBy(r, d, k) = r
      <4>1. /\ \A j \in 1 .. (k + 1) : \A c : approved[j] # <<"text_clean", d, c>>
            /\ \A j \in 1 .. k : j \in 1 .. (k + 1)
        BY <1>1, <2>2
      <4>2. /\ FoldedBy(r, d, k + 1) = [c \in DOMAIN r |-> r[c]]
            /\ FoldedBy(r, d, k) = [c \in DOMAIN r |-> r[c]]
        BY <4>1 DEF FoldedBy
      <4>3. QED
        BY <1>5, <4>2
    <3>2. QED
      BY <3>1
  <2>4. Rows(out) = Rows(s)
    <3>1. Rows(g) = {FoldedBy(r, d, k) : r \in Rows(s)}
      BY <1>1, RowsCleaned
    <3>2. Rows(g) = Rows(s)
      BY <2>3, <3>1
    <3>3. Rows(Clean(g, rule)) = Rows(g)
      <4> HIDE DEF g, rule
      <4>1. QED
        BY <1>4, <1>9, CopiesDropped
    <3>4. QED
      BY <1>3, <1>9, <3>2, <3>3 DEF CleanOwn
  <2>5. out.rows \in Surjection(1 .. Height(out), Rows(s))
    <3> HIDE DEF out, s
    <3>1. /\ out.rows = [i \in 1 .. Height(out) |-> out.rows[i]]
          /\ Rows(s) = {out.rows[i] : i \in 1 .. Height(out)}
      BY <1>4, <2>4, FrameFacts
    <3>2. QED
      BY <3>1 DEF Surjection
  <2>6. \A i \in 1 .. Height(out) : out.rows[i] = FoldedBy(out.rows[i], d, k + 1)
    <3>1. \A i \in 1 .. Height(out) : out.rows[i] \in Rows(s)
      BY <2>5 DEF Surjection
    <3> HIDE DEF out
    <3>2. QED
      BY <2>3, <3>1
  <2>7. Traced(d, k + 1, out.rows)
    BY <2>5, <2>6 DEF Traced
  <2>8. QED
    BY <2>7
<1>10. QED
  BY <1>7, <1>8, <1>9

LEMMA TracedAll ==
    ASSUME ChainInv, Planned, caller = "api", NEW d \in Datasets,
           Columns(sources[d]) = Of(profiles, d)
    PROVE  \A k \in 0 .. Len(approved) : \E origin : Traced(d, k, origin)
<1> DEFINE S == {k \in Nat : \E origin : Traced(d, k, origin)}
<1>1. Len(approved) \in Nat /\ approved \in Seq(RuleIds(plan))
  BY ApprovedFacts
<1>2. 0 \in S
  <2>1. Cleaned(d)[0] = sources[d] /\ IsFrame(sources[d])
    BY <1>1, CleanedIs DEF ChainInv, SourcesOK
  <2>2. \A r \in Rows(sources[d]) : FoldedBy(r, d, 0) = r
    <3>1. ASSUME NEW r \in Rows(sources[d]) PROVE FoldedBy(r, d, 0) = r
      <4>1. r = [c \in Columns(sources[d]) |-> r[c]]
        BY <2>1 DEF IsFrame
      <4>2. r = [c \in DOMAIN r |-> r[c]] /\ 1 .. 0 = {}
        BY <4>1
      <4>3. FoldedBy(r, d, 0) = [c \in DOMAIN r |-> r[c]]
        BY <4>2 DEF FoldedBy
      <4>4. QED
        BY <4>2, <4>3
    <3>2. QED
      BY <3>1
  <2>3. /\ sources[d].rows = [i \in 1 .. Height(sources[d]) |-> sources[d].rows[i]]
        /\ Rows(sources[d]) = {sources[d].rows[i] : i \in 1 .. Height(sources[d])}
    BY <2>1, FrameFacts
  <2>4. sources[d].rows \in Surjection(1 .. Height(sources[d]), Rows(sources[d]))
    BY <2>3 DEF Surjection
  <2>5. Traced(d, 0, sources[d].rows)
    BY <2>1, <2>2, <2>3, <2>4 DEF Traced
  <2>6. QED
    BY <2>5
<1>3. ASSUME NEW k \in 0 .. (Len(approved) - 1), k \in S PROVE k + 1 \in S
  <2>1. PICK origin : Traced(d, k, origin)
    BY <1>3
  <2>2. \E next : Traced(d, k + 1, next)
    BY <2>1, TracedOnce
  <2>3. k + 1 \in Nat
    OBVIOUS
  <2>4. QED
    BY <2>2, <2>3
<1> HIDE DEF S
<1>4. \A k \in 0 .. Len(approved) : k \in S
  BY <1>1, <1>2, <1>3, Stepwise
<1>5. QED
  BY <1>4 DEF S

LEMMA ReadFrame ==
    ASSUME ChainInv, caller = "api", NEW d \in Datasets, NEW f \in ReadOf(d)
    PROVE  /\ Running /\ Planned /\ f = Cleaned(d)[Len(approved)]
           /\ Len(approved) \in Nat /\ DOMAIN approved = 1 .. Len(approved)
           /\ Len(approved) \in 0 .. Len(approved) /\ approved \in Seq(RuleIds(plan))
           /\ Profiled /\ ContractOK
           /\ profiles[d] = ProfileDataset(sources[d]) /\ IsFrame(sources[d])
           /\ Columns(sources[d]) = Of(profiles, d)
<1>1. Running /\ Planned /\ f = Cleaned(d)[Len(approved)]
  BY ReadFacts
<1>2. /\ Len(approved) \in Nat /\ DOMAIN approved = 1 .. Len(approved)
      /\ Len(approved) \in 0 .. Len(approved) /\ approved \in Seq(RuleIds(plan))
      /\ Profiled /\ ContractOK
  BY <1>1, ApprovedFacts
<1>3. profiles[d] = ProfileDataset(sources[d]) /\ IsFrame(sources[d])
  BY DEF ChainInv, SourcesOK
<1>4. Columns(sources[d]) = Of(profiles, d)
  BY <1>3 DEF ProfileDataset, Of
<1>5. QED
  BY <1>1, <1>2, <1>3, <1>4

LEMMA ChainInvOnce == ChainInv => EachRowIsReadOnce
<1> SUFFICES ASSUME ChainInv, caller = "api", NEW d \in Datasets, NEW f \in ReadOf(d)
             PROVE  \E origin \in Bijection(1 .. Height(f), Rows(sources[d])) :
                       \A i \in 1 .. Height(f) : f.rows[i] = FoldRow(origin[i], d)
  BY DEF EachRowIsReadOnce
<1> DEFINE s == sources[d]
           n == Len(approved)
<1>1. /\ Running /\ Planned /\ f = Cleaned(d)[n] /\ n \in Nat /\ n \in 0 .. n
      /\ DOMAIN approved = 1 .. n /\ IsFrame(s) /\ Columns(s) = Of(profiles, d)
      /\ profiles[d] = ProfileDataset(s)
  BY ReadFrame
<1>2. PICK origin : Traced(d, n, origin)
  BY <1>1, TracedAll
<1>3. Height(f) = Cardinality(Rows(s)) /\ Height(f) \in Nat
  <2>1. Height(f) = HeightAfter(d, n)
    BY <1>1, HeightCleaned
  <2>2. Height(s) \in Nat /\ Cardinality(Rows(s)) \in Nat /\ Cardinality(Rows(s)) <= Height(s)
    BY <1>1, NoMoreRows
  <2>3. profiles[d].duplicates = Height(s) - Cardinality(Rows(s))
    BY <1>1 DEF ProfileDataset
  <2>4. CASE profiles[d].duplicates > 0
    <3>1. <<"dedup", d>> \in Range(approved)
      BY <1>1, <2>4, RequiredRules
    <3>2. QED
      BY <1>1, <2>1, <2>2, <3>1 DEF HeightAfter, Range
  <2>5. CASE ~(profiles[d].duplicates > 0)
    BY <2>1, <2>2, <2>3, <2>5 DEF HeightAfter
  <2>6. QED
    BY <2>4, <2>5
<1>4. origin \in Surjection(1 .. Height(f), Rows(s))
  BY <1>1, <1>2 DEF Traced
<1>5. IsFiniteSet(1 .. Height(f)) /\ Cardinality(1 .. Height(f)) = Height(f)
  BY <1>3, FS_Interval
<1>6. origin \in Injection(1 .. Height(f), Rows(s))
  BY <1>3, <1>4, <1>5, FS_Surjection
<1>7. \A r : FoldedBy(r, d, n) = FoldRow(r, d)
  BY <1>1, FoldedByAll
<1>8. \A i \in 1 .. Height(f) : f.rows[i] = FoldRow(origin[i], d)
  BY <1>1, <1>2, <1>7 DEF Traced
<1>9. QED
  BY <1>4, <1>6, <1>8 DEF Bijection

LEMMA ChainInvUnified == ChainInv => TextsAreUnified
<1> SUFFICES ASSUME ChainInv, caller = "api", NEW d \in Datasets, NEW f \in ReadOf(d),
                    NEW place \in Places(MappingsNow), place[1] = d,
                    ColumnOf(profiles, place).folded # Null
             PROVE  ColumnOf(profiles, place).folded
                      = ProfileDataset(f).columns[place[2]].distinct
  BY DEF TextsAreUnified
<1> DEFINE s == sources[d]
           n == Len(approved)
           c == place[2]
           folded == {Folded(v) : v \in Values(s, c)}
<1>1. /\ Running /\ Planned /\ f = Cleaned(d)[n] /\ n \in Nat /\ n \in 0 .. n
      /\ DOMAIN approved = 1 .. n
      /\ approved \in Seq(RuleIds(plan)) /\ IsFrame(s) /\ Columns(s) = Of(profiles, d)
      /\ profiles[d] = ProfileDataset(s) /\ Profiled /\ ContractOK
  BY ReadFrame
<1>2. c \in Columns(s)
  BY <1>1, PlacesFacts DEF IsPlace
<1>3. ColumnOf(profiles, place) = ColumnProfile(s, c)
  BY <1>1, <1>2 DEF ColumnOf, ProfileDataset
<1>4. ColumnOf(profiles, place).folded = Cardinality(folded)
      /\ ColumnOf(profiles, place).distinct = Cardinality(Values(s, c))
  BY <1>3 DEF ColumnProfile, FoldedDistinct
<1>5. f.dtype = s.dtype /\ IsFrame(f)
  <2>1. SourcesOK
    BY DEF ChainInv
  <2>2. QED
    BY <1>1, <2>1, CleanedFrames
<1>6. ProfileDataset(f).columns[c].distinct = Cardinality(Values(f, c))
  BY <1>2, <1>5 DEF ProfileDataset, ColumnProfile, Columns
<1>7. Rows(f) = {FoldRow(r, d) : r \in Rows(s)}
  <2>1. Rows(f) = {FoldedBy(r, d, n) : r \in Rows(s)}
    BY <1>1, RowsCleaned
  <2>2. \A r : FoldedBy(r, d, n) = FoldRow(r, d)
    BY <1>1, FoldedByAll
  <2>3. QED
    BY <2>1, <2>2
<1>8. \A r \in Rows(s) : c \in DOMAIN r
  BY <1>1, <1>2 DEF IsFrame
<1>9. CASE <<"text_clean", d, c>> \in Range(approved)
  <2>1. \A r \in Rows(s) : FoldRow(r, d)[c] = Folded(r[c])
    BY <1>8, <1>9 DEF FoldRow
  <2>2. Values(f, c) = folded
    BY <1>7, <2>1 DEF Values
  <2>3. QED
    BY <1>4, <1>6, <2>2
<1>10. CASE <<"text_clean", d, c>> \notin Range(approved)
  <2>1. \A r \in Rows(s) : FoldRow(r, d)[c] = r[c]
    BY <1>8, <1>10 DEF FoldRow
  <2>2. Values(f, c) = Values(s, c)
    BY <1>7, <2>1 DEF Values
  <2>3. ~HasVariants(ColumnOf(profiles, place))
    BY <1>1, <1>10, RequiredRules
  <2>4. ~(Cardinality(folded) < Cardinality(Values(s, c)))
    BY <1>4, <2>3 DEF HasVariants
  <2>5. Cardinality(folded) = Cardinality(Values(s, c))
    BY <1>1, <2>4, ValuesFacts
  <2>6. QED
    BY <1>4, <1>6, <2>2, <2>5
<1>11. QED
  BY <1>9, <1>10

(* A run the API started reads each different row of its data once, up to  *)
(* case and blanks of the columns whose rule was approved.                 *)
THEOREM ReadOnceSafety == Spec => []EachRowIsReadOnce
BY ChainInvOnce, ChainInvariance, PTL

(* The mapped text columns such a run reads hold as many values as the     *)
(* profile announced without their variants.                               *)
THEOREM UnifiedSafety == Spec => []TextsAreUnified
BY ChainInvUnified, ChainInvariance, PTL
=============================================================================
