--------------------------- MODULE MCExternalWrites ---------------------------
(***************************************************************************)
(* Instances of ExternalWrites for TLC: the cleaned orders are exported    *)
(* twice, as CSV and as JSON, and then once more over the CSV file.        *)
(***************************************************************************)
EXTENDS ExternalWrites

ReportSteps == {"clean", "csv", "json", "again"}

OrdersOnly == {"source:orders"}

ReportOrder == <<"clean", "csv", "json", "again">>

OneSource == <<"source:orders">>

ReportDeps == [s \in ReportSteps |-> IF s = "clean" THEN {"source:orders"} ELSE {"clean"}]

(* One file per node.                                                      *)
ReportPaths == ReportSteps \cup {"source_orders"}

ReportPathOf == [n \in ReportSteps \cup OrdersOnly |->
                    IF n = "source:orders" THEN "source_orders" ELSE n]

(* An operation that raises anything else ends the call as a death in it   *)
(* does; raised for ever, the run stays RUNNING for ever.                  *)
HandledOutcome == [s \in ReportSteps |-> {"ok", "platform_error"}]

NoSteps == {}

ReportExports == {"csv", "json", "again"}

ReportFiles == {"orders.csv", "orders.json"}

ReportDestination == [csv |-> "orders.csv", json |-> "orders.json", again |-> "orders.csv"]

ReportProduct == [csv |-> "clean as csv", json |-> "clean as json", again |-> "clean as json"]
=============================================================================
