----------------------------- MODULE InputLease -----------------------------
(***************************************************************************)
(* What the machine-wide input lock promises (src/src/session_lock.rs,     *)
(* lines 1-15), without files, descriptors or timer tasks: at most one     *)
(* server holds the lease; it keeps it while an operation runs and for a   *)
(* full window after the last call; a server that stays quiet gives it     *)
(* back at most Lag ticks after the window closed.                         *)
(* SessionLock is the implementation; it is shown to refine this module.   *)
(***************************************************************************)
EXTENDS Naturals

CONSTANTS
  Server,   \* the server processes of one login session
  Guard,    \* identities of InputLeaseGuards, one per running operation
  Idle,     \* per server: ticks without a call before a give back, 0 for never
  Lag,      \* how many ticks late the scheduler may run a due timer
  Nobody    \* not a server

VARIABLES
  holder,   \* the server that holds the lease, or Nobody
  guards,   \* the guards of the holder's running operations
  quiet     \* ticks since the holder's last call, or since its last
            \* operation ended

vars == <<holder, guards, quiet>>

(* quiet stops counting once every comparison with it has been decided.    *)
Cap(s) == Idle[s] + Lag + 1
Older(n, s) == IF n < Cap(s) THEN n + 1 ELSE n

Init ==
  /\ holder = Nobody
  /\ guards = {}
  /\ quiet = 0

(* A server takes the free lease for one operation.                        *)
Take(s, g) ==
  /\ holder = Nobody
  /\ holder' = s
  /\ guards' = {g}
  /\ quiet' = 0

(* Another operation of the holder starts.                                 *)
Join(g) ==
  /\ holder # Nobody
  /\ g \notin guards
  /\ guards' = guards \cup {g}
  /\ quiet' = 0
  /\ UNCHANGED holder

(* An operation of the holder ends.                                        *)
Finish(g) ==
  /\ g \in guards
  /\ guards' = guards \ {g}
  /\ quiet' = 0
  /\ UNCHANGED holder

(* Any call to the holder renews the lease.                                *)
Renew ==
  /\ holder # Nobody
  /\ quiet' = 0
  /\ UNCHANGED <<holder, guards>>

(* The lease is given back: never under an operation, never before the     *)
(* whole window has passed, never by a server configured to keep it.       *)
GiveBack ==
  /\ holder # Nobody
  /\ Idle[holder] > 0
  /\ guards = {}
  /\ quiet >= Idle[holder]
  /\ holder' = Nobody
  /\ quiet' = 0
  /\ UNCHANGED guards

(* The holding process ends, in whatever way.                              *)
Exit ==
  /\ holder # Nobody
  /\ holder' = Nobody
  /\ guards' = {}
  /\ quiet' = 0

(* Time does not pass Idle + Lag under a quiet holder.                     *)
Tick ==
  /\ holder # Nobody
  /\ guards = {} /\ Idle[holder] > 0 => quiet < Idle[holder] + Lag
  /\ quiet' = Older(quiet, holder)
  /\ UNCHANGED <<holder, guards>>

Next ==
  \/ \E s \in Server, g \in Guard : Take(s, g)
  \/ \E g \in Guard : Join(g) \/ Finish(g)
  \/ Renew
  \/ GiveBack
  \/ Exit
  \/ Tick

Spec == Init /\ [][Next]_vars
=============================================================================
