--------------------------- MODULE BoundedCommand ---------------------------
(***************************************************************************)
(* What src/src/command_runner.rs promises of an external command, however *)
(* it is run: it has one outcome; success means that everything it wrote   *)
(* was collected; any other outcome leaves no process of its group running.*)
(* CommandRunner and BlockingRunner are the two implementations.           *)
(***************************************************************************)
CONSTANT Proc   \* the processes a command may consist of

VARIABLES
  outcome,   \* "running", "ok" or "failed"
  members,   \* the processes of its group that still run
  whole      \* whether all it will ever write has been collected

vars == <<outcome, members, whole>>

Init ==
  /\ outcome = "running"
  /\ members \in SUBSET Proc
  /\ whole = FALSE

(* Processes fork, leave, write and exit on their own; those of a failed   *)
(* command no longer do.                                                   *)
Progress ==
  /\ members' \in SUBSET Proc
  /\ outcome = "failed" => members' = {}
  /\ whole' \in BOOLEAN
  /\ whole => whole'
  /\ UNCHANGED outcome

Succeed ==
  /\ outcome = "running"
  /\ whole
  /\ outcome' = "ok"
  /\ UNCHANGED <<members, whole>>

Fail ==
  /\ outcome = "running"
  /\ outcome' = "failed"
  /\ members' = {}
  /\ UNCHANGED whole

Next == Progress \/ Succeed \/ Fail

Spec == Init /\ [][Next]_vars
=============================================================================
