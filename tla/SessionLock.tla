---------------------------- MODULE SessionLock -----------------------------
(***************************************************************************)
(* The machine-wide input lock of src/src/session_lock.rs: several server  *)
(* processes, one lock file, and in each process an InputLock with its     *)
(* lease, its live guards and its release timer.                           *)
(*                                                                         *)
(* An InputLock's `held` mutex makes every method atomic inside a process, *)
(* except acquire() of a free lock, which runs acquire_at() - flock,       *)
(* truncate, write - with the mutex taken: the other processes see its     *)
(* system calls one at a time, so they are separate actions here, and      *)
(* step[s] # "idle" means that the mutex of s is taken.                    *)
(*                                                                         *)
(* Time is relative: age[s] is now - last_used, and a timer is the number  *)
(* of ticks it still sleeps, negative once it is overdue.                  *)
(***************************************************************************)
EXTENDS Integers, FiniteSets

CONSTANTS
  Server,   \* server processes sharing the lock file
  Guard,    \* identities of InputLeaseGuards in a process
  Idle,     \* per server: IdleRelease, the window in ticks, 0 for Never
  Lag,      \* how many ticks late the runtime may poll a due timer
  Nobody    \* no server: a free lock, an empty lock file

ASSUME SessionLockAssumption ==
  /\ Idle \in [Server -> Nat]
  /\ Lag \in Nat
  /\ Nobody \notin Server

VARIABLES
  owner,     \* the process whose descriptor carries the flock
  pidFile,   \* the pid the lock file names, Nobody when it is empty
  step,      \* how far acquire_at() has come in each process
  held,      \* whether InputLock.held is Some
  age,       \* ticks since Lease.last_used
  inFlight,  \* Lease.in_flight
  guards,    \* the InputLeaseGuards alive in each process
  timers,    \* the release timer tasks alive, each by its remaining sleep
  refusal    \* what the last refused acquire() told its caller

lockVars  == <<owner, pidFile>>
leaseVars == <<held, age, inFlight, guards, timers>>
vars      == <<owner, pidFile, step, held, age, inFlight, guards, timers, refusal>>

Steps == {"idle", "locked", "truncated", "refused"}

(* A refusal names a pid and how long to wait, in ticks, 0 for "until that *)
(* session exits".                                                         *)
NotRefused == [pid |-> Nobody, wait |-> 0]
Refusal == [pid : Server \cup {Nobody}, wait : Nat]

Cap(s) == Idle[s] + Lag + 1
Older(n, s) == IF n < Cap(s) THEN n + 1 ELSE n

Init ==
  /\ owner = Nobody
  /\ pidFile = Nobody
  /\ step = [s \in Server |-> "idle"]
  /\ held = [s \in Server |-> FALSE]
  /\ age = [s \in Server |-> 0]
  /\ inFlight = [s \in Server |-> 0]
  /\ guards = [s \in Server |-> {}]
  /\ timers = [s \in Server |-> {}]
  /\ refusal = [s \in Server |-> NotRefused]

-----------------------------------------------------------------------------
(* Mistake: every acquire() spawns a release timer, not only the first.    *)
JoinSpawnsTimer(s, g) ==
  /\ step[s] = "idle"
  /\ held[s]
  /\ g \notin guards[s]
  /\ guards' = [guards EXCEPT ![s] = @ \cup {g}]
  /\ inFlight' = [inFlight EXCEPT ![s] = @ + 1]
  /\ age' = [age EXCEPT ![s] = 0]
  /\ timers' = [timers EXCEPT ![s] = @ \cup {0}]
  /\ UNCHANGED <<lockVars, step, held, refusal>>

(* acquire() and hold() on a lease this process already has.               *)
Join(s, g) ==
  /\ step[s] = "idle"
  /\ held[s]
  /\ g \notin guards[s]
  /\ guards' = [guards EXCEPT ![s] = @ \cup {g}]
  /\ inFlight' = [inFlight EXCEPT ![s] = @ + 1]
  /\ age' = [age EXCEPT ![s] = 0]
  /\ UNCHANGED <<lockVars, step, held, timers, refusal>>

(* Mistake: a shared flock, which never blocks another one.                *)
FlockShared(s) ==
  /\ step[s] = "idle"
  /\ ~held[s]
  /\ owner' = s
  /\ step' = [step EXCEPT ![s] = "locked"]
  /\ refusal' = [refusal EXCEPT ![s] = NotRefused]
  /\ UNCHANGED <<pidFile, leaseVars>>

(* Mistake: the file is opened with truncate(true), before the flock.      *)
FlockTruncates(s) ==
  /\ step[s] = "idle"
  /\ ~held[s]
  /\ pidFile' = Nobody
  /\ IF owner = Nobody
       THEN /\ owner' = s
            /\ step' = [step EXCEPT ![s] = "locked"]
       ELSE /\ step' = [step EXCEPT ![s] = "refused"]
            /\ UNCHANGED owner
  /\ refusal' = [refusal EXCEPT ![s] = NotRefused]
  /\ UNCHANGED leaseVars

(* acquire() without a lease: open the file and flock it without blocking. *)
Flock(s) ==
  /\ step[s] = "idle"
  /\ ~held[s]
  /\ IF owner = Nobody
       THEN /\ owner' = s
            /\ step' = [step EXCEPT ![s] = "locked"]
       ELSE /\ step' = [step EXCEPT ![s] = "refused"]
            /\ UNCHANGED owner
  /\ refusal' = [refusal EXCEPT ![s] = NotRefused]
  /\ UNCHANGED <<pidFile, leaseVars>>

(* EWOULDBLOCK: read the file and word the refusal. The window it quotes   *)
(* is GLOBAL.release, this process's own.                                  *)
ReadPid(s) ==
  /\ step[s] = "refused"
  /\ step' = [step EXCEPT ![s] = "idle"]
  /\ refusal' = [refusal EXCEPT
       ![s] = [pid |-> pidFile, wait |-> Idle[s]]]
  /\ UNCHANGED <<lockVars, leaseVars>>

Truncate(s) ==
  /\ step[s] = "locked"
  /\ step' = [step EXCEPT ![s] = "truncated"]
  /\ pidFile' = Nobody
  /\ UNCHANGED <<owner, leaseVars, refusal>>

(* The pid is written; acquire() stores the lease, spawns the timer when   *)
(* the policy has a window, and returns the first guard.                   *)
WritePid(s, g) ==
  /\ step[s] = "truncated"
  /\ step' = [step EXCEPT ![s] = "idle"]
  /\ pidFile' = s
  /\ held' = [held EXCEPT ![s] = TRUE]
  /\ age' = [age EXCEPT ![s] = 0]
  /\ inFlight' = [inFlight EXCEPT ![s] = 1]
  /\ guards' = [guards EXCEPT ![s] = @ \cup {g}]
  /\ timers' = [timers EXCEPT ![s] = IF Idle[s] > 0 THEN @ \cup {0} ELSE @]
  /\ UNCHANGED <<owner, refusal>>

(* set_len, seek or write fails: the File is dropped, which unlocks it.    *)
WriteFails(s) ==
  /\ step[s] \in {"locked", "truncated"}
  /\ step' = [step EXCEPT ![s] = "idle"]
  /\ owner' = Nobody
  /\ UNCHANGED <<pidFile, leaseVars, refusal>>

(* Mistake: the window counts from the start of the operation.             *)
DropKeepsAge(s, g) ==
  /\ step[s] = "idle"
  /\ g \in guards[s]
  /\ guards' = [guards EXCEPT ![s] = @ \ {g}]
  /\ inFlight' = [inFlight EXCEPT ![s] = IF held[s] /\ @ > 0 THEN @ - 1 ELSE @]
  /\ UNCHANGED <<lockVars, step, held, age, timers, refusal>>

(* InputLeaseGuard::drop.                                                  *)
DropGuard(s, g) ==
  /\ step[s] = "idle"
  /\ g \in guards[s]
  /\ guards' = [guards EXCEPT ![s] = @ \ {g}]
  /\ inFlight' = [inFlight EXCEPT ![s] = IF held[s] /\ @ > 0 THEN @ - 1 ELSE @]
  /\ age' = [age EXCEPT ![s] = 0]
  /\ UNCHANGED <<lockVars, step, held, timers, refusal>>

(* A call arrives that takes no guard, a screenshot for instance.          *)
Touch(s) ==
  /\ step[s] = "idle"
  /\ held[s]
  /\ age' = [age EXCEPT ![s] = 0]
  /\ UNCHANGED <<lockVars, step, held, inFlight, guards, timers, refusal>>

(* Mistake: it sleeps a whole window from whenever it happened to run.     *)
SleepsAWindow(s) == Idle[s]

(* release_if_idle(): the lease is kept while an operation runs or its     *)
(* window is open, and the timer then sleeps this much longer.             *)
StillUsed(s) == held[s] /\ (inFlight[s] > 0 \/ age[s] < Idle[s])
SleepsFor(s) == IF inFlight[s] > 0 THEN Idle[s] ELSE Idle[s] - age[s]

(* Mistake: the timer ends when it finds an operation running.             *)
TimerEndsUnderOperation(s, w) ==
  /\ step[s] = "idle"
  /\ w \in timers[s] /\ w <= 0
  /\ StillUsed(s)
  /\ timers' = [timers EXCEPT ![s] =
       (@ \ {w}) \cup IF inFlight[s] > 0 THEN {} ELSE {SleepsFor(s)}]
  /\ UNCHANGED <<lockVars, step, held, age, inFlight, guards, refusal>>

TimerSleepsAgain(s, w) ==
  /\ step[s] = "idle"
  /\ w \in timers[s] /\ w <= 0
  /\ StillUsed(s)
  /\ timers' = [timers EXCEPT ![s] = (@ \ {w}) \cup {SleepsFor(s)}]
  /\ UNCHANGED <<lockVars, step, held, age, inFlight, guards, refusal>>

(* Otherwise the timer is done, and a lease still held is given back: the  *)
(* descriptor is closed and with it the flock.                             *)
TimerDone(s, w) ==
  /\ step[s] = "idle"
  /\ w \in timers[s] /\ w <= 0
  /\ ~StillUsed(s)
  /\ timers' = [timers EXCEPT ![s] = @ \ {w}]
  /\ owner' = IF held[s] THEN Nobody ELSE owner
  /\ held' = [held EXCEPT ![s] = FALSE]
  /\ age' = [age EXCEPT ![s] = 0]
  /\ inFlight' = [inFlight EXCEPT ![s] = 0]
  /\ UNCHANGED <<pidFile, step, guards, refusal>>

(* The process ends at any point; the kernel closes its descriptor and the *)
(* pid stays in the file. A restarted server is in this same state.        *)
Exit(s) ==
  /\ held[s] \/ step[s] # "idle"
  /\ owner' = IF owner = s THEN Nobody ELSE owner
  /\ step' = [step EXCEPT ![s] = "idle"]
  /\ held' = [held EXCEPT ![s] = FALSE]
  /\ age' = [age EXCEPT ![s] = 0]
  /\ inFlight' = [inFlight EXCEPT ![s] = 0]
  /\ guards' = [guards EXCEPT ![s] = {}]
  /\ timers' = [timers EXCEPT ![s] = {}]
  /\ UNCHANGED <<pidFile, refusal>>

(* One tick. A timer that is due is polled within Lag ticks.               *)
Tick ==
  /\ \E s \in Server : held[s]
  /\ \A s \in Server : \A w \in timers[s] : w > -Lag
  /\ age' = [s \in Server |-> IF held[s] THEN Older(age[s], s) ELSE age[s]]
  /\ timers' = [s \in Server |-> {w - 1 : w \in timers[s]}]
  /\ UNCHANGED <<lockVars, step, held, inFlight, guards, refusal>>

Next ==
  \/ \E s \in Server :
       \/ Flock(s) \/ ReadPid(s) \/ Truncate(s) \/ WriteFails(s)
       \/ \E g \in Guard : Join(s, g) \/ WritePid(s, g) \/ DropGuard(s, g)
       \/ Touch(s)
       \/ \E w \in timers[s] : TimerSleepsAgain(s, w) \/ TimerDone(s, w)
       \/ Exit(s)
  \/ Tick

Spec == Init /\ [][Next]_vars

(* Threads inside acquire_at() and the timer task are scheduled, a running *)
(* operation ends, and time passes. Nothing forces a server to call, exit  *)
(* or fail.                                                                *)
Fairness ==
  /\ WF_vars(Tick)
  /\ \A s \in Server :
       /\ WF_vars(ReadPid(s))
       /\ WF_vars(Truncate(s))
       /\ WF_vars(\E g \in Guard : WritePid(s, g))
       /\ \A g \in Guard : WF_vars(DropGuard(s, g))
       /\ WF_vars(\E w \in timers[s] : TimerSleepsAgain(s, w) \/ TimerDone(s, w))

FairSpec == Spec /\ Fairness

-----------------------------------------------------------------------------
(* The type of every variable of the lock.                                 *)
TypeOK ==
  /\ owner \in Server \cup {Nobody}
  /\ pidFile \in Server \cup {Nobody}
  /\ step \in [Server -> Steps]
  /\ held \in [Server -> BOOLEAN]
  /\ age \in [Server -> Nat]
  /\ inFlight \in [Server -> Nat]
  /\ guards \in [Server -> SUBSET Guard]
  /\ timers \in [Server -> SUBSET Int]
  /\ refusal \in [Server -> Refusal]

(* Who has the flock: a process with a lease, whose pid the file then      *)
(* names, or one on its way through acquire_at().                          *)
LockInv ==
  \A s \in Server :
    /\ held[s] => owner = s /\ step[s] = "idle" /\ pidFile = s
    /\ step[s] \in {"locked", "truncated"} => owner = s
    /\ owner = s => held[s] \/ step[s] \in {"locked", "truncated"}

(* in_flight counts the guards alive, and they need a lease.               *)
GuardInv ==
  \A s \in Server :
    /\ IsFiniteSet(guards[s])
    /\ inFlight[s] = Cardinality(guards[s])
    /\ ~held[s] => guards[s] = {}

(* A lease with a window has one timer, due no later than its window       *)
(* closes unless an operation is running, and at most Lag ticks overdue.   *)
TimerInv ==
  \A s \in Server :
    IF held[s] /\ Idle[s] > 0
      THEN \E w \in timers[s] :
             /\ timers[s] = {w}
             /\ -Lag <= w /\ w <= Idle[s]
             /\ inFlight[s] = 0 => w + age[s] <= Idle[s]
      ELSE timers[s] = {}

(* The inductive invariant: between two calls the lock file, the lease,    *)
(* the counter and the timer of every process agree.                       *)
IInv == LockInv /\ GuardInv /\ TimerInv

(* The lock file and the leases, counters and timers of all processes are  *)
(* well formed and agree, between any two system calls.                    *)
Consistent == TypeOK /\ IInv

(* Two servers never have input operations running at the same time, so    *)
(* their pointer and keyboard events do not interleave: what the lock is   *)
(* for (the module comment of session_lock.rs).                            *)
OneServerOperates ==
  \A s, t \in Server : guards[s] # {} /\ guards[t] # {} => s = t

(* The counter the timer looks at is the number of guards alive, and no    *)
(* guard outlives its lease: a guard dropped late would take one from the  *)
(* count of the next lease, which would then be given back in the middle   *)
(* of an operation.                                                        *)
CountsLiveGuards ==
  \A s \in Server :
    /\ inFlight[s] = Cardinality(guards[s])
    /\ guards[s] # {} => held[s]

(* A lease with a window has one timer task and every other process has    *)
(* none: each acquire() of a free lock spawns a task, so a task that does  *)
(* not end with its lease, or ends before it, is a leak or a lost release. *)
OneTimerPerLease ==
  \A s \in Server :
    Cardinality(timers[s]) = IF held[s] /\ Idle[s] > 0 THEN 1 ELSE 0

(* A late poll of the timer does not stretch the window: no operation      *)
(* running, the lease is gone Lag ticks after Idle quiet ones. The comment *)
(* of release_if_idle() claims it of the deadline.                         *)
WindowNotStretched ==
  \A s \in Server :
    held[s] /\ Idle[s] > 0 /\ guards[s] = {} => age[s] <= Idle[s] + Lag

(* While another server has its lease, a refusal names that server: what   *)
(* a third or a failing process does with the file never changes it.       *)
RefusalNamesLease ==
  [][\A s, t \in Server :
       ReadPid(s) /\ held[t] => refusal'[s].pid = t]_vars

(* A server with a window does not keep the flock for good: from any point *)
(* it is either called again or the lock comes free, so a session that     *)
(* finished without exiting stops blocking the next one.                   *)
IdleLockComesFree ==
  \A s \in Server :
    Idle[s] > 0 => []<>(owner # s \/ age[s] = 0)

(* The holder a reader of the lock file can rely on: a process with a      *)
(* lease. A flock taken by a process still writing its pid is not one yet. *)
LeaseHolder == IF owner # Nobody /\ held[owner] THEN owner ELSE Nobody

Lease == INSTANCE InputLease WITH
  holder <- LeaseHolder,
  guards <- IF LeaseHolder = Nobody THEN {} ELSE guards[LeaseHolder],
  quiet  <- IF LeaseHolder = Nobody THEN 0 ELSE age[LeaseHolder]

(* The lock file, the counters and the timers implement the lease.         *)
ImplementsLease == Lease!Spec
=============================================================================
