---------------------------- MODULE DriftMonitor ----------------------------
(***************************************************************************)
(* SchemaDriftMonitor.compare() (compiler/schema_drift_monitor.py) over    *)
(* profiles of a source (ingestion/profiling.py).  A profile is            *)
(*   [columns |-> [name -> [type, key, nulls, latest]], rows |-> n]        *)
(* where nulls is the null rate in percent, key says that the column is a  *)
(* candidate key and latest is the greatest value, 0 when there is none.   *)
(* Names, types and texts are abstract.  start_run() hands compare() no    *)
(* dictionaries, so _semantic_changes() never runs and is left out.        *)
(***************************************************************************)
EXTENDS Integers

CONSTANTS TemporalTypes   \* dtypes with a Date, Datetime or Time marker

(* null_rate_review_threshold by default, in percent.                      *)
NullRateThreshold == 5

Distance(a, b) == IF a > b THEN a - b ELSE b - a

(* row_count_review_ratio is one half by default.                          *)
RowCountShifted(baseline, current) ==
    /\ baseline.rows > 0
    /\ 2 * Distance(current.rows, baseline.rows) > baseline.rows

RowCountChanges(baseline, current) ==
    IF RowCountShifted(baseline, current) THEN {"row_count_shift"} ELSE {}

Breaking == {"column_removed", "dtype_changed", "key_uniqueness_lost"}

ReviewRequired == {"null_rate_increased", "date_coverage_regressed",
                   "row_count_shift"}

(* _column_changes() of a column that both profiles have.                  *)
ColumnChanges(baseline, current) ==
    {kind \in Breaking \cup ReviewRequired :
        \/ kind = "dtype_changed" /\ baseline.type # current.type
        \/ kind = "key_uniqueness_lost" /\ baseline.key /\ ~current.key
        \/ kind = "null_rate_increased"
             /\ current.nulls - baseline.nulls > NullRateThreshold
        \/ kind = "date_coverage_regressed"
             /\ baseline.type \in TemporalTypes
             /\ baseline.latest # 0 /\ current.latest # 0
             /\ current.latest < baseline.latest}

(* What changed in the columns there are.                                  *)
ChangesOfColumns(baseline, current) ==
    {"column_added" : name \in DOMAIN current.columns \ DOMAIN baseline.columns}
    \cup UNION {ColumnChanges(baseline.columns[name], current.columns[name]) :
                name \in DOMAIN baseline.columns \cap DOMAIN current.columns}

(* A removed column is never matched with an added one.                    *)
Changes(baseline, current) ==
    ChangesOfColumns(baseline, current)
    \cup RowCountChanges(baseline, current)
    \cup {"column_removed" :
            name \in DOMAIN baseline.columns \ DOMAIN current.columns}

(* _aggregate_status()                                                     *)
DriftStatus(changes) ==
    IF changes = {} THEN "NONE"
    ELSE IF changes \cap Breaking # {} THEN "BREAKING"
    ELSE IF changes \cap ReviewRequired # {} THEN "REVIEW_REQUIRED"
    ELSE "COMPATIBLE"

(* _AUTOMATION_ACTION                                                      *)
AutomationAction(status) ==
    IF status = "BREAKING" THEN "STOP"
    ELSE IF status = "REVIEW_REQUIRED" THEN "QUARANTINE"
    ELSE "CONTINUE"
-----------------------------------------------------------------------------
(* What a reader of the baseline may rely on in data that was let pass.    *)
Honours(baseline, current) ==
    /\ \A name \in DOMAIN baseline.columns :
          /\ name \in DOMAIN current.columns
          /\ LET before == baseline.columns[name]
                 now    == current.columns[name]
             IN  /\ now.type = before.type
                 /\ before.key => now.key
                 /\ now.nulls <= before.nulls + NullRateThreshold
                 /\ (before.type \in TemporalTypes
                       /\ before.latest # 0 /\ now.latest # 0)
                       => now.latest >= before.latest
    /\ baseline.rows > 0 => /\ 2 * current.rows >= baseline.rows
                            /\ 2 * current.rows <= 3 * baseline.rows
=============================================================================
