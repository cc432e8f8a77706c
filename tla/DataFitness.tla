---------------------------- MODULE DataFitness -----------------------------
(***************************************************************************)
(* Whether profiled sources fit a requirement, and what would have to be   *)
(* cleaned first: SchemaMappingAgent, DataQualityAssessor and              *)
(* CleaningStrategyAgent (compiler/), as functions of                      *)
(*                                                                         *)
(*   a contract  [metrics, terms, policy, currency, range]: metrics are    *)
(*               [name, status, fields], terms its dimensions and        *)
(*               group_by, policy its null_policy (a column's name to      *)
(*               "error", "ignore", "fill" or another text), currency and  *)
(*               range say whether units.currency and time.range are set;  *)
(*   profiles    dataset name -> profile (Frames!ProfileDataset).          *)
(*                                                                         *)
(* A field is <<dataset, column>> or <<column>>; issues and rules are      *)
(* named by tuples, <<"text_clean", "orders", "region">>.                  *)
(***************************************************************************)
EXTENDS Frames

CONSTANTS
    MoneyTerms,   \* the names _MONEY_TERM_PATTERN finds
    Dimensions    \* semantic dictionary: term -> source fields that match it

IsField(field) == field = <<field[1]>> \/ field = <<field[1], field[2]>>

ASSUME DictionaryAssumption ==
    \A term \in DOMAIN Dimensions : \A field \in Dimensions[term] : IsField(field)

Of(profiles, d) == DOMAIN profiles[d].columns

ColumnOf(profiles, place) == profiles[place[1]].columns[place[2]]
-----------------------------------------------------------------------------
(* SchemaMappingAgent.  The places a field may stand for.                  *)
Hits(field, profiles) ==
    IF Len(field) = 2
    THEN {place \in {field} : /\ place[1] \in DOMAIN profiles
                              /\ place[2] \in Of(profiles, place[1])}
    ELSE {<<d, field[1]>> : d \in {e \in DOMAIN profiles : field[1] \in Of(profiles, e)}}

Unmapped(concept, status) == [concept |-> concept, status |-> status, place |-> <<>>]

(* _finalize(): an amount has to be a number.                              *)
Finalize(concept, place, profiles) ==
    IF concept \in MoneyTerms /\ ColumnOf(profiles, place).dtype # "int"
    THEN Unmapped(concept, "MISSING")
    ELSE [concept |-> concept, status |-> "MAPPED", place |-> place]

(* _resolve_field()                                                        *)
Resolve(concept, field, profiles) ==
    IF Hits(field, profiles) = {} THEN Unmapped(concept, "MISSING")
    ELSE IF Cardinality(Hits(field, profiles)) > 1 THEN Unmapped(concept, "AMBIGUOUS")
    ELSE Finalize(concept, CHOOSE place \in Hits(field, profiles) : TRUE, profiles)

(* _resolve_dimension().  Two dimensions with one source_field are one     *)
(* field here and AMBIGUOUS in the code, which lets less through.  A term  *)
(* with a dot, dataset.column, has that field in Dimensions.               *)
ResolveTerm(term, profiles) ==
    LET governed == IF term \in DOMAIN Dimensions THEN Dimensions[term] ELSE {}
    IN IF Cardinality(governed) > 1 THEN Unmapped(term, "AMBIGUOUS")
       ELSE IF governed = {} THEN Resolve(term, <<term>>, profiles)
       ELSE Resolve(term, CHOOSE field \in governed : TRUE, profiles)

(* The concepts map() resolves, each with its fields.                      *)
MappedMetrics(contract) ==
    {m \in contract.metrics : m.status \notin {"AMBIGUOUS", "MISSING"}}

Mappings(contract, profiles) ==
    {Resolve(pair[1].name, pair[2], profiles) :
        pair \in {p \in MappedMetrics(contract)
                          \X UNION {m.fields : m \in contract.metrics} :
                    p[2] \in p[1].fields}}
    \cup {ResolveTerm(term, profiles) : term \in contract.terms}

Mapped(mappings) == {m \in mappings : m.status = "MAPPED"}

Places(mappings) == {m.place : m \in Mapped(mappings)}

(* _blocking_items(): a concept without a place, a place of two concepts.  *)
MappingBlocked(mappings) ==
    \/ \E m \in mappings : m.status # "MAPPED"
    \/ \E m, n \in Mapped(mappings) : m.place = n.place /\ m.concept # n.concept
-----------------------------------------------------------------------------
(* DataQualityAssessor.assess(), given the mapping.                        *)
Issue(severity, rule) == [severity |-> severity, rule |-> rule]

MoreThanHalf(count, of) == 2 * count > of

CompletenessIssues(mappings, profiles) ==
    {Issue(IF MoreThanHalf(ColumnOf(profiles, place).nulls, profiles[place[1]].rows)
           THEN "BLOCKING" ELSE "REQUIRES_RULE",
           <<"completeness">> \o place) :
        place \in {p \in Places(mappings) : ColumnOf(profiles, p).nulls > 0}}

(* Mutant: a single variant is let through.                                *)
HasManyVariants(column) == column.folded # Null /\ column.folded + 1 < column.distinct

HasVariants(column) == column.folded # Null /\ column.folded < column.distinct

TextFormattingIssues(mappings, profiles) ==
    {Issue("REQUIRES_RULE", <<"text_formatting">> \o place) :
        place \in {p \in Places(mappings) : HasVariants(ColumnOf(profiles, p))}}

UniquenessWarnings(profiles) ==
    {Issue("WARNING", <<"uniqueness", d>>) :
        d \in {e \in DOMAIN profiles :
                 /\ profiles[e].rows > 0
                 /\ \A c \in Of(profiles, e) : ~profiles[e].columns[c].candidate}}

DuplicateIssues(profiles) ==
    {Issue(IF MoreThanHalf(profiles[d].duplicates, profiles[d].rows)
           THEN "BLOCKING" ELSE "REQUIRES_RULE",
           <<"duplicates", d>>) :
        d \in {e \in DOMAIN profiles : profiles[e].duplicates > 0}}

CrossSourceDtypeWarnings(profiles) ==
    {Issue("WARNING", <<"cross_source_dtype", c>>) :
        c \in {n \in UNION {Of(profiles, d) : d \in DOMAIN profiles} :
                 \E d, e \in DOMAIN profiles :
                    /\ n \in Of(profiles, d) \cap Of(profiles, e)
                    /\ profiles[d].columns[n].dtype # profiles[e].columns[n].dtype}}

(* The monetary concepts are those mapped, or else the metrics by name.    *)
CurrencyIssues(contract, mappings) ==
    LET mapped == {m.concept : m \in Mapped(mappings)} \cap MoneyTerms
        money  == IF mapped # {} THEN mapped
                  ELSE {m.name : m \in contract.metrics} \cap MoneyTerms
    IN {Issue("REQUIRES_RULE", <<"currency_policy">>) :
            any \in {m \in money : ~contract.currency}}

HasDateColumn(profiles) ==
    \E d \in DOMAIN profiles : \E c \in Of(profiles, d) :
        profiles[d].columns[c].dtype = "date"

TimeIssues(contract, profiles) ==
    {i \in {Issue("BLOCKING", <<"time_coverage">>)} :
        contract.range /\ ~HasDateColumn(profiles)}

Issues(contract, mappings, profiles) ==
    UNION {CompletenessIssues(mappings, profiles), UniquenessWarnings(profiles),
           DuplicateIssues(profiles), CrossSourceDtypeWarnings(profiles),
           CurrencyIssues(contract, mappings), TimeIssues(contract, profiles),
           TextFormattingIssues(mappings, profiles)}

Fitness(issues) ==
    IF \E i \in issues : i.severity = "BLOCKING" THEN "FAIL"
    ELSE IF \E i \in issues : i.severity = "REQUIRES_RULE" THEN "CONDITIONAL"
    ELSE "PASS"
-----------------------------------------------------------------------------
(* CleaningStrategyAgent.propose(): [rules, items], rules being [id,       *)
(* required], required that a human has to approve it.                     *)
Rule(id, required) == [id |-> id, required |-> required]

PolicyRules(contract) ==
    {Rule(<<"null_policy", c>>, contract.policy[c] = "fill") :
        c \in {n \in DOMAIN contract.policy :
                 contract.policy[n] \in {"error", "ignore", "fill"}}}

PolicyItems(contract) ==
    {<<c>> : c \in {n \in DOMAIN contract.policy :
                      contract.policy[n] \notin {"error", "ignore", "fill"}}}

(* Warnings are left alone.                                                *)
Actionable(issues) == {i \in issues : i.severity # "WARNING"}

OfKind(issues, kind) == {i.rule : i \in {j \in Actionable(issues) : j.rule[1] = kind}}

ContractLevel == {"cross_source_dtype", "currency_policy", "time_coverage"}

(* Mutant: nulls are fine whether a policy says so or not.                 *)
UnaskedItems(contract, issues) == {}

(* _handle_completeness_issue(): nulls in a used column without a policy.  *)
CompletenessItems(contract, issues) ==
    {rule \in OfKind(issues, "completeness") : rule[3] \notin DOMAIN contract.policy}

Propose(contract, issues) ==
    [rules |-> PolicyRules(contract)
                 \cup {Rule(<<"dedup", rule[2]>>, TRUE) :
                         rule \in OfKind(issues, "duplicates")}
                 \cup {Rule(<<"text_clean", rule[2], rule[3]>>, TRUE) :
                         rule \in OfKind(issues, "text_formatting")},
     items |-> PolicyItems(contract)
                 \cup CompletenessItems(contract, issues)
                 \cup UNION {OfKind(issues, kind) : kind \in ContractLevel}]

RuleIds(plan) == {r.id : r \in plan.rules}

(* _unapproved_required_cleaning_rules()                                   *)
Unresolved(plan, approved) == {r.id : r \in {q \in plan.rules : q.required}} \ approved

(* _plan_blocking()                                                        *)
PlanBlocking(mappings, issues, plan, approved) ==
    \/ MappingBlocked(mappings)
    \/ Fitness(issues) = "FAIL"
    \/ plan.items # {}
    \/ Unresolved(plan, approved) # {}
=============================================================================
