-------------------------- MODULE MCRunOrchestrator --------------------------
(***************************************************************************)
(* Instances of RunOrchestrator for TLC: a join pipeline over two sources, *)
(* clean(orders) -> join(clean, customers) -> export(join).                *)
(***************************************************************************)
EXTENDS IncidentRecovery

PipelineSteps   == {"clean", "join", "export"}
PipelineSources == {"source:orders", "source:customers"}
PipelineOrder   == <<"clean", "join", "export">>
PipelineSourceOrder == <<"source:orders", "source:customers">>
PipelineDeps == [clean  |-> {"source:orders"},
                 join   |-> {"clean", "source:customers"},
                 export |-> {"join"}]

(* One file per node.                                                      *)
PipelinePaths  == PipelineSteps \cup {"source_orders", "source_customers"}
PipelinePathOf == [n \in PipelineSteps \cup PipelineSources |->
    CASE n = "source:orders"    -> "source_orders"
      [] n = "source:customers" -> "source_customers"
      [] OTHER                  -> n]

(* Every operation may succeed, refuse its input, or raise something else. *)
AnyOutcome == [s \in PipelineSteps |-> {"ok", "platform_error", "exception"}]

(* Steps the registry, the input counts or the security guard single out.  *)
NoSteps == {}
=============================================================================
