-------------------------- MODULE MCBlockingRunner --------------------------
(* The constants of the TLC runs of BlockingRunner.                        *)
EXTENDS BlockingRunner, TLC

(* Two chunks fill a drain and the limit, and a third overruns it.         *)
Overrun == ("out" :> 3) @@ ("err" :> 1)
=============================================================================
