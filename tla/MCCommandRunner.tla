-------------------------- MODULE MCCommandRunner ---------------------------
(* The constants of the TLC runs of CommandRunner.                         *)
EXTENDS CommandRunner, TLC

(* A second chunk on one pipe overruns a reader's limit of one; the other  *)
(* pipe is only held.                                                      *)
Overrun == ("out" :> 2) @@ ("err" :> 0)
=============================================================================
