-------------------------- MODULE RequirementIntake ---------------------------
(***************************************************************************)
(* From what the language model extracted of a request to a requirement    *)
(* contract: SemanticResolver, AmbiguityGate and RequirementCompiler       *)
(* (compiler/) and the validator of RequirementContract, the two layers    *)
(* that are to keep a guess out of a plan.                                 *)
(*                                                                         *)
(*   an extraction  [metrics, terms, timezone, range]: metrics a sequence  *)
(*                  of [term, formula], terms its dimensions and group_by; *)
(*                  formula, timezone, range: whether the model found one; *)
(*   a contract     DataFitness's, with [sources, open, timezone, status]: *)
(*                  open is its clarifications, each named by its kind and *)
(*                  the term it asks about.                                *)
(***************************************************************************)
EXTENDS DataFitness

CONSTANTS
    Definitions,     \* governed metrics: semantic id -> [names, fields]
    MaterialTerms,   \* MATERIAL_TERMS
    DateBuckets,     \* the terms that are a _DATE_BUCKET_WORD
    Normal(_),       \* a term without its case, underscores and spacing
    Mentions(_, _)   \* a column's normalized name contains a term's

ASSUME DefinitionsAssumption ==
    /\ IsFiniteSet(DOMAIN Definitions)
    /\ \A id \in DOMAIN Definitions :
          \A field \in Definitions[id].fields : IsField(field)

Blocking(metric) == metric.status \in {"AMBIGUOUS", "MISSING"}

(* _enforce_no_guessing(): the status a contract gets when wanted is asked *)
(* for.                                                                    *)
Blocked(contract) == \/ \E metric \in contract.metrics : Blocking(metric)
                     \/ contract.open # {}
                     \/ contract.sources = <<>>

(* Mutant: the validator leaves metrics to the gate.                       *)
ValidatedByGate(contract, wanted) ==
    [contract EXCEPT !.status =
        IF contract.open # {} \/ contract.sources = <<>> THEN "BLOCKED" ELSE wanted]

Validated(contract, wanted) ==
    [contract EXCEPT !.status = IF Blocked(contract) THEN "BLOCKED" ELSE wanted]

Ready(contract) == contract.status = "APPROVED"
-----------------------------------------------------------------------------
(* find_metric_candidates(): definitions whose name or alias the term is.  *)
Candidates(term) ==
    {id \in DOMAIN Definitions :
        Normal(term) \in {Normal(name) : name \in Definitions[id].names}}

(* resolve_metric()                                                        *)
Resolution(term) == IF Cardinality(Candidates(term)) = 1 THEN "GOVERNED"
                    ELSE IF Candidates(term) = {} THEN "UNGOVERNED" ELSE "AMBIGUOUS"

(* formula_by_term: the last metric of a term decides.                     *)
HasFormula(extraction, term) ==
    \E i \in DOMAIN extraction.metrics :
        /\ extraction.metrics[i].term = term
        /\ extraction.metrics[i].formula
        /\ \A j \in DOMAIN extraction.metrics :
              extraction.metrics[j].term = term => j <= i

TermsOf(extraction) == {extraction.metrics[i].term : i \in DOMAIN extraction.metrics}

Ungoverned(extraction) ==
    {term \in TermsOf(extraction) : Resolution(term) = "UNGOVERNED"}

Plausible(term, profile) == {c \in DOMAIN profile.columns : Mentions(c, term)}

(* AmbiguityGate.evaluate(): its clarifications.  profiled is the sequence *)
(* of at most one profile that compile() is given.                         *)
Clarifications(extraction, sources, profiled) ==
    {<<"definitions", term>> :
        term \in {t \in TermsOf(extraction) : Resolution(t) = "AMBIGUOUS"}}
    \cup {<<"definition", term>> :
        term \in {t \in Ungoverned(extraction) :
                    Normal(t) \in MaterialTerms \/ ~HasFormula(extraction, t)}}
    \cup {<<"sources">> : none \in {s \in {sources} : s = <<>>}}
    \cup {<<"timezone">> :
        t \in {b \in extraction.terms \cap DateBuckets : ~extraction.timezone}}
    \cup {<<"columns", term>> :
        term \in {t \in Ungoverned(extraction) : \E i \in DOMAIN profiled :
                    Cardinality(Plausible(t, profiled[i])) >= 2}}

(* _build_metric()                                                         *)
BuildMetric(metric) ==
    [name   |-> metric.term,
     status |-> IF Resolution(metric.term) # "UNGOVERNED" THEN Resolution(metric.term)
                ELSE IF metric.formula THEN "EXPLICIT" ELSE "MISSING",
     fields |-> UNION {Definitions[id].fields :
                    id \in {i \in Candidates(metric.term) :
                              Resolution(metric.term) = "GOVERNED"}}]

(* compile(): a draft; it sets no null policy and no currency.             *)
Compile(extraction, sources, profiled) ==
    Validated([metrics  |-> {BuildMetric(m) : m \in Range(extraction.metrics)},
               terms    |-> extraction.terms,
               policy   |-> [column \in {} |-> "error"],
               currency |-> FALSE,
               range    |-> extraction.range,
               timezone |-> extraction.timezone,
               sources  |-> sources,
               open     |-> Clarifications(extraction, sources, profiled),
               status   |-> "DRAFT"], "DRAFT")
-----------------------------------------------------------------------------
(* What no guess means of a contract whose first source has this profile.  *)
Unguessed(contract, profile) ==
    /\ contract.sources # <<>>
    /\ contract.terms \cap DateBuckets # {} => contract.timezone
    /\ \A metric \in contract.metrics :
          \/ \E id \in DOMAIN Definitions :
                Candidates(metric.name) = {id} /\ metric.fields = Definitions[id].fields
          \/ /\ metric.status = "EXPLICIT"
             /\ Normal(metric.name) \notin MaterialTerms
             /\ Cardinality(Plausible(metric.name, profile)) < 2
=============================================================================
