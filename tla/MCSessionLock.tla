--------------------------- MODULE MCSessionLock ----------------------------
(* The constants of the TLC runs of SessionLock.                           *)
EXTENDS SessionLock, TLC

CONSTANTS a, b, c

(* A window of two ticks, one of a single tick, and a server started with  *)
(* COMPUTER_USE_HYPRLAND_LOCK_IDLE_SECS=0, which never gives back.         *)
Windows == (a :> 2) @@ (b :> 1) @@ (c :> 0)
=============================================================================
