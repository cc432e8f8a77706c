-------------------------- MODULE MCAnalystSession --------------------------
(***************************************************************************)
(* Instances of AnalystSession for TLC: a data set whose region column     *)
(* needs normalising and whose rows repeat, so two rules may be proposed.  *)
(***************************************************************************)
EXTENDS AnalystSession

OrdersRules == {"dedup", "text_clean"}
=============================================================================
