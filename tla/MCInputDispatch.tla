-------------------------- MODULE MCInputDispatch ---------------------------
(* The constants of the TLC runs of InputDispatch.                         *)
EXTENDS InputDispatch, TLC

(* One tick of window for this server; the other one never gives back.     *)
Windows == (Me :> 1) @@ (Other :> 0)

(* Every tool.                                                             *)
InputTools ==
  {"click", "modClick", "scroll", "drag", "modDrag", "keys", "type", "set",
   "action", "activate", "read"}

(* The ways a call waits: for the operation lock, for its task, for the    *)
(* pointer's mutex, and for its nested calls.                              *)
LiveTools == {"click", "scroll", "modDrag", "keys", "set", "activate"}
=============================================================================
