--------------------------- MODULE MCGovernedRuns ---------------------------
(* Small instances of GovernedRuns.                                        *)
EXTENDS GovernedRuns

Step(id, op, inputs, refs) ==
    [id |-> id, op |-> op, ver |-> "1.0", inputs |-> inputs, refs |-> refs,
     columns |-> refs, summed |-> refs, grouped |-> TRUE]

Plan(steps) == [version |-> 1, sources |-> {"orders"}, steps |-> steps,
                gates |-> {}, tests |-> {"checked"}]

Totals == Step("agg", "aggregate", <<"clean">>, {"revenue"})

Clean == Step("clean", "cast", <<"orders">>, {})

(* A plan as asked for, one that also exports, one whose clean-up is a     *)
(* schema check that claims the metric too, and one without it.            *)
MCWorkflows ==
    {Plan(<<Clean, Totals>>),
     Plan(<<[Totals EXCEPT !.inputs = <<"orders">>],
            Step("out", "export", <<"agg">>, {})>>),
     Plan(<<Step("clean", "validate_schema", <<"orders">>, {"revenue"}), Totals>>),
     Plan(<<[Totals EXCEPT !.refs = {}, !.inputs = <<"orders">>]>>)}

Agreed == [metrics |-> {"revenue"}, sums |-> {"revenue"}, unclear |-> {},
           open |-> FALSE, sources |-> {"orders"}, status |-> "APPROVED",
           notNull |-> TRUE, prohibited |-> {}, approvals |-> {},
           effects |-> {}, tests |-> {"checked"}]

(* As agreed, with a prohibition, without a sum or a null policy but with a *)
(* side effect, and with a question open.                                  *)
MCContracts ==
    {Agreed,
     [Agreed EXCEPT !.prohibited = {"export"}],
     [Agreed EXCEPT !.sums = {}, !.notNull = FALSE, !.effects = {"mail"}],
     [Agreed EXCEPT !.open = TRUE]}

Column(type, key, nulls, latest) ==
    [type |-> type, key |-> key, nulls |-> nulls, latest |-> latest]

Profile(columns, rows) == [columns |-> columns, rows |-> rows]

Days(nulls, rows, name) ==
    Profile([c \in {"day", name} |->
                IF c = "day" THEN Column("Date", FALSE, nulls, 5)
                             ELSE Column("Int64", TRUE, 0, 0)], rows)

(* A baseline and the same with as many more nulls and rows as are let     *)
(* pass.                                                                   *)
First == Days(0, 4, "seq")

Limit == Days(5, 6, "seq")

(* Further on from the limit in the null rate alone and in the rows alone, *)
(* rows lost, a column renamed, a key that repeats, and dates that end     *)
(* earlier.                                                                *)
MCProfiles ==
    {First, Limit, Days(10, 6, "seq"), Days(5, 9, "seq"), Days(0, 1, "seq"),
     Days(0, 4, "num"),
     [First EXCEPT !.columns["seq"].key = FALSE],
     [First EXCEPT !.columns["day"].latest = 4]}

TwoProfiles == {First, Limit}

Frame(rows, faults, unbalanced) ==
    [rows |-> rows, faults |-> faults, unbalanced |-> unbalanced]

Sound == Frame(2, {}, {})

MCFrames == {Sound, Frame(1, {"null_rate", "schema"}, {}),
             Frame(2, {"revenue"}, {"revenue"})}

(* Three runs over every profile are explored for the contract as agreed,  *)
(* its plan and operations that write what they should, since the drift of *)
(* the data looks at none of these; the rest with two runs and profiles.   *)
SoundRuns ==
    /\ contract = Agreed
    /\ workflow = Plan(<<Clean, Totals>>)
    /\ run # NoRun => \A n \in DOMAIN run.frames : run.frames[n] = Sound

Explored == SoundRuns \/ (data \in [Sources -> TwoProfiles] /\ started <= 2)
=============================================================================
