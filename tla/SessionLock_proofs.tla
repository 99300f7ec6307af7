------------------------- MODULE SessionLock_proofs -------------------------
(***************************************************************************)
(* Proofs about SessionLock for any set of servers, any windows and any    *)
(* scheduling lag: the inductive invariant, the safety properties that     *)
(* follow from it, and that the lock implements InputLease.                *)
(***************************************************************************)
EXTENDS SessionLock, FiniteSetTheorems, TLAPS

(* Aging never makes a count anything but a natural number, nor adds more  *)
(* than the tick that passed.                                              *)
LEMMA OlderBound ==
  ASSUME NEW s \in Server, NEW n \in Nat
  PROVE  Older(n, s) \in Nat /\ Older(n, s) <= n + 1
  BY SessionLockAssumption DEF Older

(* Every variable of the lock keeps its type, whatever the servers do.     *)
THEOREM TypeCorrect == Spec => []TypeOK
<1>1. Init => TypeOK
  BY SessionLockAssumption DEF Init, TypeOK, Steps, NotRefused, Refusal
<1>2. TypeOK /\ [Next]_vars => TypeOK'
  <2> SUFFICES ASSUME TypeOK, [Next]_vars PROVE TypeOK'
    OBVIOUS
  <2> USE SessionLockAssumption
  <2>1. ASSUME NEW s \in Server, Flock(s) PROVE TypeOK'
    BY <2>1 DEF TypeOK, Flock, leaseVars, Steps, NotRefused, Refusal
  <2>2. ASSUME NEW s \in Server, ReadPid(s) PROVE TypeOK'
    BY <2>2 DEF TypeOK, ReadPid, lockVars, leaseVars, Steps, Refusal
  <2>3. ASSUME NEW s \in Server, Truncate(s) PROVE TypeOK'
    BY <2>3 DEF TypeOK, Truncate, leaseVars, Steps
  <2>4. ASSUME NEW s \in Server, WriteFails(s) PROVE TypeOK'
    BY <2>4 DEF TypeOK, WriteFails, leaseVars, Steps
  <2>5. ASSUME NEW s \in Server, NEW g \in Guard, Join(s, g) PROVE TypeOK'
    BY <2>5 DEF TypeOK, Join, lockVars
  <2>6. ASSUME NEW s \in Server, NEW g \in Guard, WritePid(s, g) PROVE TypeOK'
    BY <2>6 DEF TypeOK, WritePid, Steps
  <2>7. ASSUME NEW s \in Server, NEW g \in Guard, DropGuard(s, g) PROVE TypeOK'
    BY <2>7 DEF TypeOK, DropGuard, lockVars
  <2>8. ASSUME NEW s \in Server, Touch(s) PROVE TypeOK'
    BY <2>8 DEF TypeOK, Touch, lockVars
  <2>9. ASSUME NEW s \in Server, NEW w \in timers[s], TimerSleepsAgain(s, w)
        PROVE TypeOK'
    <3>1. SleepsFor(s) \in Int
      BY DEF TypeOK, SleepsFor
    <3>2. QED
      BY <2>9, <3>1 DEF TypeOK, TimerSleepsAgain, lockVars
  <2>10. ASSUME NEW s \in Server, NEW w \in timers[s], TimerDone(s, w)
         PROVE TypeOK'
    BY <2>10 DEF TypeOK, TimerDone
  <2>11. ASSUME NEW s \in Server, Exit(s) PROVE TypeOK'
    BY <2>11 DEF TypeOK, Exit, Steps
  <2>12. ASSUME Tick PROVE TypeOK'
    <3>1. age' \in [Server -> Nat]
      BY <2>12, OlderBound DEF TypeOK, Tick
    <3>2. timers' \in [Server -> SUBSET Int]
      BY <2>12 DEF TypeOK, Tick
    <3>3. QED
      BY <2>12, <3>1, <3>2 DEF TypeOK, Tick, lockVars
  <2>13. CASE UNCHANGED vars
    BY <2>13 DEF TypeOK, vars
  <2>14. QED
    BY <2>1, <2>2, <2>3, <2>4, <2>5, <2>6, <2>7, <2>8, <2>9, <2>10, <2>11,
       <2>12, <2>13 DEF Next
<1>3. QED
  BY <1>1, <1>2, PTL DEF Spec

-----------------------------------------------------------------------------
(* No step of any process breaks the agreement between flock and lease.    *)
LEMMA LockInvStep ==
  ASSUME TypeOK, LockInv, [Next]_vars PROVE LockInv'
<1>1. ASSUME NEW s \in Server, Flock(s) PROVE LockInv'
  BY <1>1, SessionLockAssumption DEF TypeOK, LockInv, Flock, leaseVars
<1>2. ASSUME NEW s \in Server, ReadPid(s) PROVE LockInv'
  BY <1>2, SessionLockAssumption
  DEF TypeOK, LockInv, ReadPid, lockVars, leaseVars
<1>3. ASSUME NEW s \in Server, Truncate(s) PROVE LockInv'
  BY <1>3, SessionLockAssumption DEF TypeOK, LockInv, Truncate, leaseVars
<1>4. ASSUME NEW s \in Server, WriteFails(s) PROVE LockInv'
  BY <1>4, SessionLockAssumption DEF TypeOK, LockInv, WriteFails, leaseVars
<1>5. ASSUME NEW s \in Server, NEW g \in Guard, Join(s, g) PROVE LockInv'
  BY <1>5, SessionLockAssumption DEF TypeOK, LockInv, Join, lockVars
<1>6. ASSUME NEW s \in Server, NEW g \in Guard, WritePid(s, g) PROVE LockInv'
  BY <1>6, SessionLockAssumption DEF TypeOK, LockInv, WritePid
<1>7. ASSUME NEW s \in Server, NEW g \in Guard, DropGuard(s, g) PROVE LockInv'
  BY <1>7, SessionLockAssumption DEF TypeOK, LockInv, DropGuard, lockVars
<1>8. ASSUME NEW s \in Server, Touch(s) PROVE LockInv'
  BY <1>8, SessionLockAssumption DEF TypeOK, LockInv, Touch, lockVars
<1>9. ASSUME NEW s \in Server, NEW w \in timers[s], TimerSleepsAgain(s, w)
  PROVE LockInv'
  BY <1>9, SessionLockAssumption
  DEF TypeOK, LockInv, TimerSleepsAgain, lockVars
<1>10. ASSUME NEW s \in Server, NEW w \in timers[s], TimerDone(s, w)
  PROVE LockInv'
  BY <1>10, SessionLockAssumption DEF TypeOK, LockInv, TimerDone
<1>11. ASSUME NEW s \in Server, Exit(s) PROVE LockInv'
  BY <1>11, SessionLockAssumption DEF TypeOK, LockInv, Exit
<1>12. ASSUME Tick PROVE LockInv'
  BY <1>12, SessionLockAssumption DEF TypeOK, LockInv, Tick, lockVars
<1>13. CASE UNCHANGED vars
  BY <1>13 DEF LockInv, vars
<1>14. QED
  BY <1>1, <1>2, <1>3, <1>4, <1>5, <1>6, <1>7, <1>8, <1>9, <1>10, <1>11,
     <1>12, <1>13 DEF Next

(* No step leaves the counter different from the number of guards alive.   *)
LEMMA GuardInvStep ==
  ASSUME TypeOK, LockInv, GuardInv, [Next]_vars PROVE GuardInv'
<1>1. ASSUME NEW s \in Server, Flock(s) PROVE GuardInv'
  BY <1>1, FS_EmptySet DEF TypeOK, LockInv, GuardInv, Flock, leaseVars
<1>2. ASSUME NEW s \in Server, ReadPid(s) PROVE GuardInv'
  BY <1>2, FS_EmptySet
  DEF TypeOK, LockInv, GuardInv, ReadPid, lockVars, leaseVars
<1>3. ASSUME NEW s \in Server, Truncate(s) PROVE GuardInv'
  BY <1>3, FS_EmptySet DEF TypeOK, LockInv, GuardInv, Truncate, leaseVars
<1>4. ASSUME NEW s \in Server, WriteFails(s) PROVE GuardInv'
  BY <1>4, FS_EmptySet DEF TypeOK, LockInv, GuardInv, WriteFails, leaseVars
<1>5. ASSUME NEW s \in Server, NEW g \in Guard, Join(s, g) PROVE GuardInv'
  <2>1. /\ \A t \in Server : t # s => guards'[t] = guards[t]
        /\ \A t \in Server : t # s => inFlight'[t] = inFlight[t]
        /\ \A t \in Server : t # s => held'[t] = held[t]
    BY <1>5 DEF TypeOK, Join
  <2>2. /\ held'[s]
        /\ g \notin guards[s] /\ guards'[s] = guards[s] \cup {g}
        /\ inFlight'[s] = inFlight[s] + 1
    BY <1>5 DEF TypeOK, Join
  <2>3. IsFiniteSet(guards[s]) /\ inFlight[s] = Cardinality(guards[s])
    BY DEF GuardInv
  <2>4. /\ IsFiniteSet(guards[s] \cup {g})
        /\ Cardinality(guards[s] \cup {g}) = Cardinality(guards[s]) + 1
    BY <2>2, <2>3, FS_AddElement
  <2>5. QED
    BY <2>1, <2>2, <2>3, <2>4 DEF GuardInv
<1>6. ASSUME NEW s \in Server, NEW g \in Guard, WritePid(s, g) PROVE GuardInv'
  <2>1. /\ \A t \in Server : t # s => guards'[t] = guards[t]
        /\ \A t \in Server : t # s => inFlight'[t] = inFlight[t]
        /\ \A t \in Server : t # s => held'[t] = held[t]
    BY <1>6 DEF TypeOK, WritePid
  <2>2. held'[s] /\ guards'[s] = {g} /\ inFlight'[s] = 1
    BY <1>6 DEF TypeOK, LockInv, GuardInv, WritePid
  <2>3. /\ IsFiniteSet(guards'[s])
        /\ inFlight'[s] = Cardinality(guards'[s])
    BY <2>2, FS_Singleton
  <2>4. QED
    BY <2>1, <2>2, <2>3 DEF GuardInv
<1>7. ASSUME NEW s \in Server, NEW g \in Guard, DropGuard(s, g)
  PROVE GuardInv'
  <2>1. /\ \A t \in Server : t # s => guards'[t] = guards[t]
        /\ \A t \in Server : t # s => inFlight'[t] = inFlight[t]
        /\ \A t \in Server : t # s => held'[t] = held[t]
    BY <1>7 DEF TypeOK, DropGuard
  <2>2. held[s] /\ held'[s] /\ g \in guards[s] /\ guards'[s] = guards[s] \ {g}
    BY <1>7 DEF TypeOK, GuardInv, DropGuard
  <2>3. inFlight[s] \in Nat /\ inFlight[s] > 0
    BY <2>2, FS_CardinalityType, FS_EmptySet DEF TypeOK, GuardInv
  <2>4. inFlight'[s] = inFlight[s] - 1
    BY <1>7, <2>2, <2>3 DEF TypeOK, DropGuard
  <2>5. IsFiniteSet(guards[s]) /\ inFlight[s] = Cardinality(guards[s])
    BY DEF GuardInv
  <2>6. /\ IsFiniteSet(guards[s] \ {g})
        /\ Cardinality(guards[s] \ {g}) = Cardinality(guards[s]) - 1
    BY <2>2, <2>5, FS_RemoveElement
  <2>7. QED
    BY <2>1, <2>2, <2>4, <2>5, <2>6 DEF GuardInv
<1>8. ASSUME NEW s \in Server, Touch(s) PROVE GuardInv'
  BY <1>8, FS_EmptySet DEF TypeOK, LockInv, GuardInv, Touch, lockVars
<1>9. ASSUME NEW s \in Server, NEW w \in timers[s], TimerSleepsAgain(s, w)
  PROVE GuardInv'
  BY <1>9, FS_EmptySet
  DEF TypeOK, LockInv, GuardInv, TimerSleepsAgain, lockVars, StillUsed
<1>10. ASSUME NEW s \in Server, NEW w \in timers[s], TimerDone(s, w)
  PROVE GuardInv'
  BY <1>10, FS_EmptySet DEF TypeOK, LockInv, GuardInv, TimerDone, StillUsed
<1>11. ASSUME NEW s \in Server, Exit(s) PROVE GuardInv'
  BY <1>11, FS_EmptySet DEF TypeOK, LockInv, GuardInv, Exit
<1>12. ASSUME Tick PROVE GuardInv'
  BY <1>12, FS_EmptySet DEF TypeOK, LockInv, GuardInv, Tick, lockVars
<1>13. CASE UNCHANGED vars
  BY <1>13 DEF GuardInv, vars
<1>14. QED
  BY <1>1, <1>2, <1>3, <1>4, <1>5, <1>6, <1>7, <1>8, <1>9, <1>10, <1>11,
     <1>12, <1>13 DEF Next

(* No step loses the timer of a lease, doubles it or lets it sleep past    *)
(* the end of the window.                                                  *)
LEMMA TimerInvStep ==
  ASSUME TypeOK, LockInv, GuardInv, TimerInv, [Next]_vars PROVE TimerInv'
<1>1. ASSUME NEW s \in Server, Flock(s) PROVE TimerInv'
  BY <1>1, SessionLockAssumption
  DEF TypeOK, LockInv, GuardInv, TimerInv, Flock, leaseVars
<1>2. ASSUME NEW s \in Server, ReadPid(s) PROVE TimerInv'
  BY <1>2, SessionLockAssumption
  DEF TypeOK, LockInv, GuardInv, TimerInv, ReadPid, lockVars, leaseVars
<1>3. ASSUME NEW s \in Server, Truncate(s) PROVE TimerInv'
  BY <1>3, SessionLockAssumption
  DEF TypeOK, LockInv, GuardInv, TimerInv, Truncate, leaseVars
<1>4. ASSUME NEW s \in Server, WriteFails(s) PROVE TimerInv'
  BY <1>4, SessionLockAssumption
  DEF TypeOK, LockInv, GuardInv, TimerInv, WriteFails, leaseVars
<1>5. ASSUME NEW s \in Server, NEW g \in Guard, Join(s, g) PROVE TimerInv'
  BY <1>5, SessionLockAssumption
  DEF TypeOK, LockInv, GuardInv, TimerInv, Join, lockVars
<1>6. ASSUME NEW s \in Server, NEW g \in Guard, WritePid(s, g) PROVE TimerInv'
  <2>1. \A t \in Server : t # s =>
          /\ timers'[t] = timers[t] /\ held'[t] = held[t]
          /\ age'[t] = age[t] /\ inFlight'[t] = inFlight[t]
    BY <1>6 DEF TypeOK, WritePid
  <2>2. timers[s] = {}
    BY <1>6 DEF LockInv, TimerInv, WritePid
  <2>3. /\ held'[s] /\ age'[s] = 0
        /\ timers'[s] = IF Idle[s] > 0 THEN {0} ELSE {}
    BY <1>6, <2>2 DEF TypeOK, WritePid
  <2>4. QED
    BY <2>1, <2>3, SessionLockAssumption DEF TimerInv
<1>7. ASSUME NEW s \in Server, NEW g \in Guard, DropGuard(s, g)
  PROVE TimerInv'
  BY <1>7, SessionLockAssumption
  DEF TypeOK, LockInv, GuardInv, TimerInv, DropGuard, lockVars
<1>8. ASSUME NEW s \in Server, Touch(s) PROVE TimerInv'
  BY <1>8, SessionLockAssumption
  DEF TypeOK, LockInv, GuardInv, TimerInv, Touch, lockVars
<1>9. ASSUME NEW s \in Server, NEW w \in timers[s], TimerSleepsAgain(s, w)
  PROVE TimerInv'
  <2>1. held[s] /\ Idle[s] > 0 /\ timers[s] = {w}
    BY <1>9 DEF TimerInv, TimerSleepsAgain, StillUsed
  <2>2. /\ SleepsFor(s) \in Int
        /\ -Lag <= SleepsFor(s) /\ SleepsFor(s) <= Idle[s]
        /\ inFlight[s] = 0 => SleepsFor(s) + age[s] <= Idle[s]
    <3>1. /\ Idle[s] \in Nat /\ Lag \in Nat /\ age[s] \in Nat
          /\ inFlight[s] \in Nat
          /\ inFlight[s] > 0 \/ age[s] < Idle[s]
      BY <1>9, SessionLockAssumption DEF TypeOK, TimerSleepsAgain, StillUsed
    <3>2. CASE inFlight[s] > 0
      BY <3>1, <3>2 DEF SleepsFor
    <3>3. CASE inFlight[s] = 0
      BY <3>1, <3>3 DEF SleepsFor
    <3>4. QED
      BY <3>1, <3>2, <3>3
  <2>3. timers'[s] = {SleepsFor(s)}
    BY <1>9, <2>1 DEF TypeOK, TimerSleepsAgain
  <2>4. \A t \in Server : t # s => timers'[t] = timers[t]
    BY <1>9 DEF TypeOK, TimerSleepsAgain
  <2>5. UNCHANGED <<held, age, inFlight>>
    BY <1>9 DEF TimerSleepsAgain
  <2>6. QED
    BY <2>1, <2>2, <2>3, <2>4, <2>5 DEF TimerInv
<1>10. ASSUME NEW s \in Server, NEW w \in timers[s], TimerDone(s, w)
  PROVE TimerInv'
  BY <1>10, SessionLockAssumption
  DEF TypeOK, LockInv, GuardInv, TimerInv, TimerDone, StillUsed
<1>11. ASSUME NEW s \in Server, Exit(s) PROVE TimerInv'
  BY <1>11, SessionLockAssumption
  DEF TypeOK, LockInv, GuardInv, TimerInv, Exit
<1>12. ASSUME Tick PROVE TimerInv'
  <2>1. UNCHANGED <<held, inFlight>>
    BY <1>12 DEF Tick
  <2>2. ASSUME NEW t \in Server, held[t], Idle[t] > 0
        PROVE  \E w \in timers'[t] :
                 /\ timers'[t] = {w}
                 /\ -Lag <= w /\ w <= Idle[t]
                 /\ inFlight[t] = 0 => w + age'[t] <= Idle[t]
    <3>1. PICK w \in timers[t] :
            /\ timers[t] = {w}
            /\ w <= Idle[t]
            /\ inFlight[t] = 0 => w + age[t] <= Idle[t]
      BY <2>2 DEF TimerInv
    <3>2. w \in Int /\ w > -Lag
      BY <1>12, <3>1 DEF TypeOK, Tick
    <3>3. timers'[t] = {w - 1}
      BY <1>12, <3>1 DEF TypeOK, Tick
    <3>4. age[t] \in Nat /\ age'[t] \in Nat /\ age'[t] <= age[t] + 1
      BY <1>12, <2>2, OlderBound DEF TypeOK, Tick
    <3>5. QED
      BY <3>1, <3>2, <3>3, <3>4, SessionLockAssumption
  <2>3. ASSUME NEW t \in Server, timers[t] = {} PROVE timers'[t] = {}
    BY <1>12, <2>3 DEF TypeOK, Tick
  <2>4. QED
    BY <2>1, <2>2, <2>3 DEF TimerInv
<1>13. CASE UNCHANGED vars
  BY <1>13 DEF TimerInv, vars
<1>14. QED
  BY <1>1, <1>2, <1>3, <1>4, <1>5, <1>6, <1>7, <1>8, <1>9, <1>10, <1>11,
     <1>12, <1>13 DEF Next

-----------------------------------------------------------------------------
(* The inductive invariant holds in every reachable state.                 *)
THEOREM Invariance == Spec => []IInv
<1>1. Init => IInv
  BY SessionLockAssumption, FS_EmptySet
  DEF Init, IInv, LockInv, GuardInv, TimerInv
<1>2. TypeOK /\ IInv /\ [Next]_vars => IInv'
  BY LockInvStep, GuardInvStep, TimerInvStep DEF IInv
<1>3. QED
  BY <1>1, <1>2, TypeCorrect, PTL DEF Spec

(* For any number of servers and operations, only one server at a time has *)
(* an operation running.                                                   *)
THEOREM Exclusion == Spec => []OneServerOperates
<1>1. IInv => OneServerOperates
  BY DEF IInv, LockInv, GuardInv, OneServerOperates
<1>2. QED
  BY <1>1, Invariance, PTL

(* in_flight is the number of guards alive, and every guard has its lease. *)
THEOREM GuardCount == Spec => []CountsLiveGuards
<1>1. IInv => CountsLiveGuards
  BY DEF IInv, GuardInv, CountsLiveGuards
<1>2. QED
  BY <1>1, Invariance, PTL

(* A lease with a window has exactly one timer task, nothing else has any. *)
THEOREM TimerCount == Spec => []OneTimerPerLease
<1>1. IInv => OneTimerPerLease
  <2> SUFFICES ASSUME IInv, NEW s \in Server
               PROVE  Cardinality(timers[s]) =
                        IF held[s] /\ Idle[s] > 0 THEN 1 ELSE 0
    BY DEF OneTimerPerLease
  <2>1. CASE held[s] /\ Idle[s] > 0
    <3>1. PICK w \in timers[s] : timers[s] = {w}
      BY <2>1 DEF IInv, TimerInv
    <3>2. QED
      BY <2>1, <3>1, FS_Singleton
  <2>2. CASE ~(held[s] /\ Idle[s] > 0)
    BY <2>2, FS_EmptySet DEF IInv, TimerInv
  <2>3. QED
    BY <2>1, <2>2
<1>2. QED
  BY <1>1, Invariance, PTL

(* However late the timer is polled, up to Lag ticks, a quiet lease does   *)
(* not outlive its window by more than that.                               *)
THEOREM WindowBound == Spec => []WindowNotStretched
<1>1. TypeOK /\ IInv => WindowNotStretched
  <2> SUFFICES ASSUME TypeOK, IInv, NEW s \in Server,
                      held[s], Idle[s] > 0, guards[s] = {}
               PROVE  age[s] <= Idle[s] + Lag
    BY DEF WindowNotStretched
  <2>1. inFlight[s] = 0
    BY FS_EmptySet DEF IInv, GuardInv
  <2>2. PICK w \in timers[s] : -Lag <= w /\ w + age[s] <= Idle[s]
    BY <2>1 DEF IInv, TimerInv
  <2>3. w \in Int /\ age[s] \in Nat /\ Idle[s] \in Nat /\ Lag \in Nat
    BY SessionLockAssumption DEF TypeOK
  <2>4. QED
    BY <2>2, <2>3
<1>2. QED
  BY <1>1, TypeCorrect, Invariance, PTL

(* While a server has its lease, every refusal names that server.          *)
THEOREM RefusalNames == Spec => RefusalNamesLease
<1>1. TypeOK /\ IInv /\ [Next]_vars =>
        \A s, t \in Server : ReadPid(s) /\ held[t] => refusal'[s].pid = t
  BY DEF TypeOK, IInv, LockInv, ReadPid
<1>2. QED
  BY <1>1, TypeCorrect, Invariance, PTL DEF Spec, RefusalNamesLease

-----------------------------------------------------------------------------
(* The process a reader may take for the holder is the one with a lease.   *)
LEMMA HolderHolds ==
  ASSUME LockInv, NEW s \in Server
  PROVE  LeaseHolder = s <=> held[s]
  BY SessionLockAssumption DEF LockInv, LeaseHolder

(* A step that leaves the leases, their guards and their ages alone is     *)
(* invisible to the abstract lease.                                        *)
LEMMA InvisibleStep ==
  ASSUME TypeOK, LockInv, LockInv', TypeOK', held' = held, guards' = guards, age' = age
  PROVE  UNCHANGED Lease!vars
<1>1. LeaseHolder' = LeaseHolder
  BY SessionLockAssumption DEF TypeOK, LockInv, LeaseHolder
<1>2. QED
  BY <1>1 DEF Lease!vars

(* Every step of the lock is a step of the abstract lease or invisible.    *)
LEMMA StepSimulation ==
  ASSUME TypeOK, IInv, TypeOK', IInv', [Next]_vars
  PROVE  [Lease!Next]_(Lease!vars)
<1> USE DEF IInv
<1>1. ASSUME NEW s \in Server, Flock(s) PROVE UNCHANGED Lease!vars
  BY <1>1, InvisibleStep DEF Flock, leaseVars
<1>2. ASSUME NEW s \in Server, ReadPid(s) PROVE UNCHANGED Lease!vars
  BY <1>2, InvisibleStep DEF ReadPid, leaseVars
<1>3. ASSUME NEW s \in Server, Truncate(s) PROVE UNCHANGED Lease!vars
  BY <1>3, InvisibleStep DEF Truncate, leaseVars
<1>4. ASSUME NEW s \in Server, WriteFails(s) PROVE UNCHANGED Lease!vars
  BY <1>4, InvisibleStep DEF WriteFails, leaseVars
<1>5. ASSUME NEW s \in Server, NEW g \in Guard, Join(s, g)
      PROVE  Lease!Join(g)
  <2>1. LeaseHolder = s /\ LeaseHolder' = s
    BY <1>5, HolderHolds DEF Join, lockVars, LeaseHolder
  <2>2. /\ guards'[s] = guards[s] \cup {g} /\ g \notin guards[s]
        /\ age'[s] = 0
    BY <1>5 DEF TypeOK, Join
  <2>3. s # Nobody
    BY SessionLockAssumption
  <2>4. QED
    BY <2>1, <2>2, <2>3 DEF Lease!Join
<1>6. ASSUME NEW s \in Server, NEW g \in Guard, WritePid(s, g)
      PROVE  Lease!Take(s, g)
  <2>1. owner = s /\ owner' = s /\ ~held[s] /\ held'[s]
    BY <1>6 DEF TypeOK, LockInv, WritePid
  <2>2. guards'[s] = {g} /\ age'[s] = 0
    BY <1>6, <2>1 DEF TypeOK, GuardInv, WritePid
  <2>3. s # Nobody
    BY SessionLockAssumption
  <2>4. LeaseHolder = Nobody /\ LeaseHolder' = s
    BY <2>1, <2>3 DEF LeaseHolder
  <2>5. QED
    BY <2>2, <2>3, <2>4 DEF Lease!Take
<1>7. ASSUME NEW s \in Server, NEW g \in Guard, DropGuard(s, g)
      PROVE  Lease!Finish(g)
  <2>1. held[s] /\ g \in guards[s]
    BY <1>7 DEF GuardInv, DropGuard
  <2>2. LeaseHolder = s /\ LeaseHolder' = s
    BY <1>7, <2>1, HolderHolds DEF DropGuard, lockVars, LeaseHolder
  <2>3. guards'[s] = guards[s] \ {g} /\ age'[s] = 0
    BY <1>7 DEF TypeOK, DropGuard
  <2>4. s # Nobody
    BY SessionLockAssumption
  <2>5. QED
    BY <2>1, <2>2, <2>3, <2>4 DEF Lease!Finish
<1>8. ASSUME NEW s \in Server, Touch(s) PROVE Lease!Renew
  <2>1. LeaseHolder = s /\ LeaseHolder' = s
    BY <1>8, HolderHolds DEF Touch, lockVars, LeaseHolder
  <2>2. guards' = guards /\ age'[s] = 0 /\ s # Nobody
    BY <1>8, SessionLockAssumption DEF TypeOK, Touch
  <2>3. QED
    BY <2>1, <2>2 DEF Lease!Renew
<1>9. ASSUME NEW s \in Server, NEW w \in timers[s], TimerSleepsAgain(s, w)
      PROVE  UNCHANGED Lease!vars
  BY <1>9, InvisibleStep DEF TimerSleepsAgain
<1>10. ASSUME NEW s \in Server, NEW w \in timers[s], TimerDone(s, w)
       PROVE  Lease!GiveBack
  <2>1. held[s] /\ Idle[s] > 0
    BY <1>10 DEF TimerInv
  <2>2. inFlight[s] = 0 /\ age[s] >= Idle[s]
    <3>1. ~(inFlight[s] > 0 \/ age[s] < Idle[s])
      BY <1>10, <2>1 DEF TimerDone, StillUsed
    <3>2. inFlight[s] \in Nat /\ age[s] \in Nat /\ Idle[s] \in Nat
      BY SessionLockAssumption DEF TypeOK
    <3>3. QED
      BY <3>1, <3>2
  <2>3. guards[s] = {}
    BY <2>2, FS_EmptySet DEF GuardInv
  <2>4. LeaseHolder = s /\ LeaseHolder' = Nobody /\ s # Nobody
    BY <1>10, <2>1, HolderHolds, SessionLockAssumption
    DEF TimerDone, LeaseHolder
  <2>5. QED
    BY <2>1, <2>2, <2>3, <2>4 DEF Lease!GiveBack
<1>11. ASSUME NEW s \in Server, Exit(s)
       PROVE  Lease!Exit \/ UNCHANGED Lease!vars
  <2>1. CASE held[s]
    <3>1. LeaseHolder = s /\ LeaseHolder' = Nobody /\ s # Nobody
      BY <1>11, <2>1, HolderHolds, SessionLockAssumption
      DEF LockInv, Exit, LeaseHolder
    <3>2. QED
      BY <3>1 DEF Lease!Exit
  <2>2. CASE ~held[s]
    <3>1. guards[s] = {} /\ held' = held /\ guards' = guards
      BY <1>11, <2>2 DEF TypeOK, GuardInv, Exit
    <3>2. LeaseHolder' = LeaseHolder /\ LeaseHolder # s
      BY <1>11, <2>2, <3>1, HolderHolds, SessionLockAssumption
      DEF TypeOK, LockInv, Exit, LeaseHolder
    <3>3. LeaseHolder # Nobody => age'[LeaseHolder] = age[LeaseHolder]
      BY <1>11, <3>2 DEF TypeOK, Exit, LeaseHolder
    <3>4. QED
      BY <3>1, <3>2, <3>3 DEF Lease!vars
  <2>3. QED
    BY <2>1, <2>2
<1>12. ASSUME Tick PROVE Lease!Tick
  <2>1. PICK s \in Server : held[s]
    BY <1>12 DEF Tick
  <2>2. LeaseHolder = s /\ LeaseHolder' = s /\ s # Nobody
    BY <1>12, <2>1, HolderHolds, SessionLockAssumption
    DEF Tick, lockVars, LeaseHolder
  <2>3. guards' = guards /\ age'[s] = Older(age[s], s)
    BY <1>12, <2>1 DEF Tick
  <2>4. ASSUME guards[s] = {}, Idle[s] > 0 PROVE age[s] < Idle[s] + Lag
    <3>1. inFlight[s] = 0
      BY <2>4, FS_EmptySet DEF GuardInv
    <3>2. PICK w \in timers[s] : w + age[s] <= Idle[s]
      BY <2>1, <2>4, <3>1 DEF TimerInv
    <3>3. w > -Lag
      BY <1>12, <3>2 DEF Tick
    <3>4. w \in Int /\ age[s] \in Nat /\ Idle[s] \in Nat /\ Lag \in Nat
      BY SessionLockAssumption DEF TypeOK
    <3>5. QED
      BY <3>2, <3>3, <3>4
  <2>5. QED
    BY <2>2, <2>3, <2>4 DEF Lease!Tick, Lease!Older, Lease!Cap, Older, Cap
<1>13. CASE UNCHANGED vars
  BY <1>13, InvisibleStep DEF vars
<1>14. QED
  BY <1>1, <1>2, <1>3, <1>4, <1>5, <1>6, <1>7, <1>8, <1>9, <1>10, <1>11,
     <1>12, <1>13 DEF Next, Lease!Next

(* The lock file, the counters and the timers implement the lease that the *)
(* module comment of session_lock.rs describes.                            *)
THEOREM Refinement == Spec => ImplementsLease
<1>1. Init => Lease!Init
  BY DEF Init, Lease!Init, LeaseHolder
<1>2. QED
  BY <1>1, StepSimulation, TypeCorrect, Invariance, PTL
  DEF Spec, ImplementsLease, Lease!Spec

(* Every state is well formed and its parts agree, for every value of the  *)
(* constants.                                                              *)
THEOREM Consistency == Spec => []Consistent
  BY TypeCorrect, Invariance, PTL DEF Consistent
=============================================================================
