---------------------------- MODULE RunLifecycle ----------------------------
(***************************************************************************)
(* What a workflow run promises, whatever crashes and retries happen       *)
(* underneath: its state moves only along the edges of the run state       *)
(* machine (workflow/state_machine.py), every step takes effect once and   *)
(* only on finished inputs, and nothing reaches VERIFYING or RELEASED      *)
(* before every step has taken effect.                                     *)
(*                                                                         *)
(* RunOrchestrator is the detailed specification that implements this one. *)
(***************************************************************************)

CONSTANTS
    Steps,      \* ids of the workflow's steps
    Sources,    \* ids of its sources ("source:<name>" nodes)
    Deps        \* Deps[s]: the nodes step s reads

VARIABLES
    runState,   \* state of the run, or NoRun before it is created
    done        \* nodes whose result is final

vars == <<runState, done>>

NoRun == "NO_RUN"

RunStates == {"DRAFT", "NEEDS_CLARIFICATION", "APPROVED", "RUNNING",
              "VERIFYING", "RELEASED", "QUARANTINED", "ROLLED_BACK"}

(* _ALLOWED_TRANSITIONS: the edges, as pairs of current and target state.  *)
AllowedTransitions ==
    { <<"DRAFT", "NEEDS_CLARIFICATION">>, <<"DRAFT", "APPROVED">>,
      <<"NEEDS_CLARIFICATION", "APPROVED">>,
      <<"APPROVED", "RUNNING">>,
      <<"RUNNING", "VERIFYING">>, <<"RUNNING", "QUARANTINED">>,
      <<"VERIFYING", "RELEASED">>, <<"VERIFYING", "QUARANTINED">>,
      <<"RELEASED", "ROLLED_BACK">> }

(* transition() raises exactly when this is false.                         *)
Allowed(current, target) == <<current, target>> \in AllowedTransitions

-----------------------------------------------------------------------------

Init == /\ runState = NoRun
        /\ done = {}

Create == /\ runState = NoRun
          /\ runState' = "DRAFT"
          /\ UNCHANGED done

(* States that certify the whole workflow.                                 *)
Certified == {"VERIFYING", "RELEASED"}

Advance == \E target \in RunStates :
              /\ Allowed(runState, target)
              /\ target \in Certified => Steps \subseteq done
              /\ runState' = target
              /\ UNCHANGED done

Seed == \E n \in Sources \ done :
              /\ runState = "RUNNING"
              /\ done' = done \cup {n}
              /\ UNCHANGED runState

Finish == \E s \in Steps \ done :
              /\ runState = "RUNNING"
              /\ Sources \cup Deps[s] \subseteq done
              /\ done' = done \cup {s}
              /\ UNCHANGED runState

Next == Create \/ Advance \/ Seed \/ Finish

Spec == Init /\ [][Next]_vars
=============================================================================
