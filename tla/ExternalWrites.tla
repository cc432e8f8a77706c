---------------------------- MODULE ExternalWrites ----------------------------
(***************************************************************************)
(* What a run writes outside its artifact store, on top of RunOrchestrator:*)
(* the export operation (registry/operations/export.py), the checksum it   *)
(* leaves in the evidence of its step, and the ConnectorWritePlanner that  *)
(* verifies the writes of a run (compiler/connector_planner.py).           *)
(*                                                                         *)
(* A destination holds the product of an export, a file of someone else's  *)
(* (Foreign), Torn while it is written, or is Absent.  A checksum is the   *)
(* content it was taken of.  Others may replace or remove a file at any    *)
(* time but between the moments an export opens its file and hashes it.    *)
(***************************************************************************)
EXTENDS RunOrchestrator

CONSTANTS
    Exports,        \* the steps with a connector, those that run "export"
    Destinations,   \* files outside the artifact store
    Destination,    \* Destination[s]: the file export s is to write
    Product,        \* Product[s]: what it writes, its input in its format
    Foreign         \* what someone else writes

NoSum == "no_checksum"

ASSUME ExportAssumption ==
    /\ Exports \subseteq Steps
    /\ Destination \in [Exports -> Destinations]
    /\ \A s \in Exports : Product[s] \notin {Absent, Torn, Foreign, NoSum}
    /\ Foreign \notin {Absent, Torn}

VARIABLES
    world,      \* content of each destination
    evidence,   \* the checksum in the record of a COMPLETED export
    wrote,      \* where a worker is inside an export: "no", "open", "closed"
    sum         \* the checksum in the result a worker holds

external == <<world, evidence, wrote, sum>>

Contents == {Product[s] : s \in Exports} \cup {Foreign, Absent, Torn}

ExportInit == /\ Init
              /\ world \in [Destinations -> {Absent, Foreign}]
              /\ evidence = [s \in Exports |-> NoSum]
              /\ wrote = [w \in Workers |-> "no"]
              /\ sum = [w \in Workers |-> NoSum]

Exporting(w) == pc[w] = "exec" /\ Step(w) \in Exports

(* ExportOperation.run(): the file is truncated, written, then hashed.     *)
OpenFile(w) ==
    /\ Exporting(w)
    /\ wrote[w] = "no"
    /\ world' = [world EXCEPT ![Destination[Step(w)]] = Torn]
    /\ wrote' = [wrote EXCEPT ![w] = "open"]
    /\ UNCHANGED <<vars, evidence, sum>>

CloseFile(w) ==
    /\ wrote[w] = "open"
    /\ world' = [world EXCEPT ![Destination[Step(w)]] = Product[Step(w)]]
    /\ wrote' = [wrote EXCEPT ![w] = "closed"]
    /\ UNCHANGED <<vars, evidence, sum>>

(* The result of an export that went well carries the hash of the file.    *)
ResultSum(w) ==
    IF Exporting(w) /\ pc'[w] = "save" THEN world[Destination[Step(w)]] ELSE sum[w]

(* A record replaces the one before it, with its evidence.                 *)
Recorded(w, s) == IF rec'[s] # "COMPLETED" THEN NoSum
                  ELSE IF pc[w] = "complete" /\ s = Step(w) THEN sum[w]
                  ELSE evidence[s]

(* What any step of a worker does to these: an export may fail before, in  *)
(* the middle of and after its write, and a death in it leaves the file as *)
(* it is.                                                                  *)
Effects(w) ==
    /\ Exporting(w) /\ pc'[w] = "save" => wrote[w] = "closed"
    /\ sum' = [sum EXCEPT ![w] = ResultSum(w)]
    /\ evidence' = [s \in Exports |-> Recorded(w, s)]
    /\ wrote' = [wrote EXCEPT ![w] = "no"]
    /\ UNCHANGED world

(* The rest of run(), and everything else a worker does or suffers.        *)
Orchestrate(w) == (Work(w) \/ Call(w) \/ Crash(w)) /\ Effects(w)

OthersWrite ==
    /\ \A w \in Workers : wrote[w] = "no"
    /\ \E d \in Destinations, content \in {Absent, Foreign} :
          world' = [world EXCEPT ![d] = content]
    /\ UNCHANGED <<vars, evidence, wrote, sum>>

ExportNext == \/ \E w \in Workers : OpenFile(w) \/ CloseFile(w) \/ Orchestrate(w)
              \/ OthersWrite

ExportSpec == ExportInit /\ [][ExportNext]_<<vars, external>>

(* A worker in a call proceeds, and a caller keeps calling run() on a run  *)
(* that is RUNNING (the recovery the docstring of the orchestrator         *)
(* prescribes); strong fairness, because its request gets its turn among   *)
(* release() calls and whatever others write.                              *)
Proceed(w) == OpenFile(w) \/ CloseFile(w) \/ (Work(w) /\ Effects(w))

ExportFairSpec ==
    /\ ExportSpec
    /\ \A w \in Workers : WF_<<vars, external>>(Proceed(w))
    /\ SF_<<vars, external>>(\E w \in Workers : CallRun(w) /\ Effects(w))
-----------------------------------------------------------------------------
(* ConnectorWritePlanner._verify_one(), which verify_external_actions()    *)
(* applies to every export of the workflow, at any time.                   *)

(* Mutant: the step's own record is taken at its word.                     *)
VerifiedByRecord(s) == rec[s] = "COMPLETED" /\ evidence[s] # NoSum

WriteVerified(s) == /\ rec[s] = "COMPLETED"
                    /\ evidence[s] # NoSum
                    /\ world[Destination[s]] # Absent
                    /\ world[Destination[s]] = evidence[s]

Shared(s) == \E t \in Exports \ {s} : /\ Destination[t] = Destination[s]
                                      /\ rec[t] # "NONE"

(* A write the planner verifies is the result of its step, whole, in its   *)
(* place; one it does not verify, although the step completed, was spoilt  *)
(* by someone else or by an export to the same destination, never by a     *)
(* crash or a retry of this run.                                           *)
VerificationIsRight ==
    \A s \in Exports :
        /\ WriteVerified(s) => world[Destination[s]] = Product[s]
        /\ rec[s] = "COMPLETED" /\ ~WriteVerified(s) =>
             world[Destination[s]] \in {Absent, Foreign} \/ Shared(s)

(* A run that finished its steps has delivered every export, and holds the *)
(* checksum of what it delivered; no death in the middle of a write leaves *)
(* half a file in a destination of such a run.                             *)
FinishedRunsDelivered ==
    runState \in {"VERIFYING", "RELEASED"} =>
        \A s \in Exports : /\ evidence[s] = Product[s]
                           /\ world[Destination[s]] # Torn

(* No resumption of a run delivers a completed export again: its record    *)
(* stays, and what changes its file is someone else, or an export to the   *)
(* same destination.                                                       *)
DeliveredOnce ==
    [][\A s \in Exports : rec[s] = "COMPLETED" =>
          /\ rec'[s] = "COMPLETED"
          /\ \/ world'[Destination[s]] \in {world[Destination[s]], Absent, Foreign}
             \/ Shared(s)]_<<vars, external>>
-----------------------------------------------------------------------------
(* The inductive invariant of serialised calls, beside RunOrchestrator's.  *)
(* A destination says nothing of who wrote it: that a completed export is  *)
(* delivered follows from where its worker was.                            *)

ExportTypeOK == /\ world \in [Destinations -> Contents]
                /\ evidence \in [Exports -> Contents \cup {NoSum}]
                /\ wrote \in [Workers -> {"no", "open", "closed"}]
                /\ sum \in [Workers -> Contents \cup {NoSum}]

(* Nobody but others touched the file since s wrote it.                    *)
Delivered(s) == world[Destination[s]] \in {Product[s], Absent, Foreign}

(* A worker in the middle of an export; one that holds its result.         *)
Writing(w) ==
    /\ wrote[w] # "no" => Exporting(w)
    /\ wrote[w] = "closed" => world[Destination[Step(w)]] = Product[Step(w)]
    /\ pc[w] = "exec" => rec[Step(w)] = "RUNNING"

Holding(w) ==
    pc[w] \in {"save", "saving", "complete"} /\ Step(w) \in Exports =>
        sum[w] = Product[Step(w)] /\ Delivered(Step(w))

EvidenceOfCompleted ==
    \A s \in Exports :
        evidence[s] = IF rec[s] = "COMPLETED" THEN Product[s] ELSE NoSum

CompletedIsDelivered ==
    \A s \in Exports : rec[s] = "COMPLETED" => Delivered(s) \/ Shared(s)

(* Half a file is the trace of an export that has not completed.           *)
TornIsUnfinished ==
    \A d \in Destinations : world[d] = Torn =>
        \E s \in Exports : Destination[s] = d /\ rec[s] # "COMPLETED"

ExportInv == /\ ExportTypeOK
             /\ \A w \in Workers : Writing(w) /\ Holding(w)
             /\ EvidenceOfCompleted
             /\ CompletedIsDelivered
             /\ TornIsUnfinished
=============================================================================
