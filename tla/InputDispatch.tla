--------------------------- MODULE InputDispatch ----------------------------
(***************************************************************************)
(* The tool calls of one server process (src/src/server.rs) and how they   *)
(* share the desktop: the machine-wide lease that input_gate() takes, the  *)
(* input_operation_lock inside the process, and the input itself, sent by  *)
(* a detached task (run_cancellation_safe_input) that carries both, or by  *)
(* a blocking thread of the absolute pointer that carries neither.         *)
(*                                                                         *)
(* The lease is the abstract InputLease, which SessionLock implements.     *)
(* Every tool is a straight line of named steps, its Handler; a step that  *)
(* fails returns early, releasing what the call holds.                     *)
(***************************************************************************)
EXTENDS Naturals, Sequences

CONSTANTS
  Call,       \* tool calls of this server that can be under way together
  Kinds,      \* the tools they call
  AbsPointer, \* whether the absolute pointer can be created
  Cancels,    \* whether a caller may be dropped at an await
  Me, Other,  \* this server and another one of the session
  Idle, Lag,  \* the lease's window and the timer's lateness
  Nobody      \* no server, no call: a lock that is free

VARIABLES
  kind,     \* the tool each call runs, NoCall for none
  pc,       \* the step it is at
  job,      \* its input: a detached ydotool task, or a thread of the pointer
  opLock,   \* the owner of input_operation_lock
  mods,     \* the calls holding modifier keys down, "left" for keys left down
  focused,  \* the last call to have focused a window
  holder, guards, quiet   \* the lease

callVars  == <<kind, pc>>
inputVars == <<job, mods, focused>>
leaseVars == <<holder, guards, quiet>>
vars      == <<kind, pc, job, opLock, mods, focused, holder, guards, quiet>>

NoCall == "none"
OwnLease(c)  == <<c, "call">>
TaskLease(c) == <<c, "task">>
OtherLease   == <<Other, "call">>

ASSUME InputDispatchAssumption ==
  /\ Nobody \notin Call \cup {Me, Other}
  /\ Other \notin Call \cup {Me}
  /\ Idle \in [{Me, Other} -> Nat]
  /\ Lag \in Nat
  /\ Cancels \in BOOLEAN
  /\ AbsPointer \in BOOLEAN
  /\ Kinds \subseteq {"click", "modClick", "scroll", "drag", "modDrag", "keys",
                      "type", "set", "action", "activate", "read"}

Lease == INSTANCE InputLease WITH
  Server <- {Me, Other},
  Guard <- (Call \X {"call", "task"}) \cup {OtherLease}

-----------------------------------------------------------------------------
(* What each tool does, in order. "check" is the allow list, "focus" is    *)
(* focus_target_for_input (every call with a "focus" names a window),      *)
(* "hold" and "unhold" press and release modifier keys, "emit" is one      *)
(* stateful operation: a click, a drag, a key or chord, a text, a turn of  *)
(* the wheel. "await" is any other await; "ask" is one on an application   *)
(* (an AT-SPI action, value or focus) or on the portal (the size of the    *)
(* desktop, for a note after it), "pointer" one on the portal for a new    *)
(* pointer or for a note before the input (ensure_abs_pointer and          *)
(* off_screen_note_for_point): those two have no time limit.               *)
(* "move" is where the absolute pointer moves before the wheel turns.      *)

(* Mistake: the window is focused first and the operation lock taken then. *)
ClickFocusesFirst ==
  <<"gate", "check", "focus", "lock", "ask", "pointer", "emit", "unlock", "ask">>

(* click() on an element that may have an AT-SPI action, or on a point.    *)
ClickSteps ==
  <<"gate", "check", "lock", "focus", "ask", "pointer", "emit", "unlock", "ask">>

(* click() with modifiers: they are released when click_at_point() has     *)
(* given the operation lock back.                                          *)
ModClickSteps ==
  <<"gate", "check", "lock", "focus", "hold", "pointer", "emit", "unlock", "unhold", "ask">>

(* scroll() on an element that may have an AT-SPI action, or on a point.   *)
ScrollSteps ==
  <<"gate", "check", "lock", "focus", "ask", "pointer", "move", "emit", "unlock">>

(* drag(): both ends are resolved, and the modifiers held, before          *)
(* drag_inner() takes the operation lock.                                  *)
DragSteps == <<"gate", "check", "focus", "lock", "pointer", "emit", "unlock", "await">>
ModDragSteps ==
  <<"gate", "check", "focus", "hold", "lock", "pointer", "emit", "unlock", "unhold", "await">>

(* Mistake: press_key lets go of the operation lock between two keys.      *)
KeysOneByOne ==
  <<"gate", "check", "lock", "focus", "emit", "unlock", "lock", "emit", "ask", "unlock">>

(* press_key() with a sequence of two keys, and type_text().               *)
KeysSteps == <<"gate", "check", "lock", "focus", "emit", "emit", "ask", "unlock">>
TypeSteps == <<"gate", "check", "lock", "focus", "emit", "ask", "unlock">>

(* Mistake: the keyboard fallback of set_value() takes the operation lock  *)
(* around the press_key() and type_text() it calls, which take it again.   *)
SetLocksAround ==
  <<"gate", "check", "lock", "ask", "check", "lock", "emit", "await", "unlock">>

(* set_value(), with the keyboard fallback's Ctrl+A and text.              *)
SetSteps ==
  <<"gate", "check", "ask", "check", "lock", "emit", "await", "unlock",
                            "check", "lock", "emit", "await", "unlock">>

(* perform_action(), launch_app(), focus_workspace() and the tools that    *)
(* move a window; activate_window(); a tool that only reads.               *)
ActionSteps   == <<"gate", "check", "ask">>
ActivateSteps == <<"focus">>
ReadSteps     == <<"ask">>

Handler ==
  [none     |-> <<>>,
   click    |-> ClickSteps,
   modClick |-> ModClickSteps,
   scroll   |-> ScrollSteps,
   drag     |-> DragSteps,
   modDrag  |-> ModDragSteps,
   keys     |-> KeysSteps,
   type     |-> TypeSteps,
   set      |-> SetSteps,
   action   |-> ActionSteps,
   activate |-> ActivateSteps,
   read     |-> ReadSteps]

Kind    == DOMAIN Handler
Gated   == {k \in Kind : Len(Handler[k]) > 1}
Pointer == {"click", "modClick", "drag", "modDrag"}

Step(c) == IF pc[c] <= Len(Handler[kind[c]]) THEN Handler[kind[c]][pc[c]] ELSE "return"

(* The steps of a handler that run with the operation lock.                *)
Locked(k) ==
  {i \in 1..Len(Handler[k]) :
     \E j \in 1..(i-1) : /\ Handler[k][j] = "lock"
                         /\ \A m \in j..(i-1) : Handler[k][m] # "unlock"}

(* Where an early return from step i goes on: with the release of the      *)
(* modifiers held by then, or at the end.                                  *)
Abort(k, i) ==
  LET n == Len(Handler[k])
      releases == {j \in (i+1)..n : Handler[k][j] = "unhold"}
      holds == {j \in 1..(i-1) : Handler[k][j] = "hold"}
  IN  IF holds # {} /\ releases # {} THEN CHOOSE j \in releases : TRUE ELSE n + 1

(* The awaits, and those of them that nothing limits.                      *)
Awaits    == {"check", "await", "ask", "pointer"}
Unlimited == {"ask", "pointer"}

Active(c)   == kind[c] # NoCall
Asks(c)     == Active(c) /\ Step(c) \in Unlimited
Admitted(c) == kind[c] \in Gated /\ pc[c] > 1

Goto(c, i) == pc' = [pc EXCEPT ![c] = i] /\ UNCHANGED kind
Advance(c) == Goto(c, pc[c] + 1)

Leave(c)   == kind' = [kind EXCEPT ![c] = NoCall] /\ pc' = [pc EXCEPT ![c] = 1]

Free(c)     == IF opLock = c THEN Nobody ELSE opLock
DropLease(c) == IF Admitted(c) THEN Lease!Finish(OwnLease(c)) ELSE UNCHANGED leaseVars

Init ==
  /\ kind = [c \in Call |-> NoCall]
  /\ pc = [c \in Call |-> 1]
  /\ job = [c \in Call |-> "none"]
  /\ opLock = Nobody
  /\ mods = {}
  /\ focused = Nobody
  /\ Lease!Init

-----------------------------------------------------------------------------
(* call_tool(): the lease is renewed and the tool dispatched.              *)
Dispatch(c) ==
  /\ ~Active(c) /\ job[c] = "none"
  /\ \E k \in Kinds : kind' = [kind EXCEPT ![c] = k]
  /\ IF holder = Me THEN Lease!Renew ELSE UNCHANGED leaseVars
  /\ UNCHANGED <<pc, inputVars, opLock>>

(* input_gate() takes the lease, or a hold on the one this process has.    *)
Gate(c) ==
  /\ Active(c) /\ Step(c) = "gate"
  /\ IF holder = Me THEN Lease!Join(OwnLease(c)) ELSE Lease!Take(Me, OwnLease(c))
  /\ Advance(c)
  /\ UNCHANGED <<inputVars, opLock>>

(* It refuses while another process has the lock file.                     *)
Refused(c) ==
  /\ Active(c) /\ Step(c) = "gate"
  /\ holder # Me
  /\ Leave(c)
  /\ UNCHANGED <<inputVars, opLock, leaseVars>>

(* An await that goes well.                                                *)
Passes(c) ==
  /\ Active(c) /\ Step(c) \in Awaits
  /\ Advance(c)
  /\ UNCHANGED <<inputVars, opLock, leaseVars>>

(* The target window is focused and the focus verified.                    *)
Focus(c) ==
  /\ Active(c) /\ Step(c) = "focus"
  /\ focused' = c
  /\ Advance(c)
  /\ UNCHANGED <<job, opLock, mods, leaseVars>>

(* A refusal, an error, or an AT-SPI action that made the pointer          *)
(* unnecessary. Window activation may have happened before the error.      *)
ReturnsEarly(c) ==
  /\ Active(c) /\ Step(c) \in {"check", "await", "ask", "focus"}
  /\ focused' \in IF Step(c) = "focus" THEN {focused, c} ELSE {focused}
  /\ Goto(c, Abort(kind[c], pc[c]))
  /\ opLock' = Free(c)
  /\ UNCHANGED <<job, mods, leaseVars>>

(* input_operation_lock.lock_owned()                                       *)
Lock(c) ==
  /\ Active(c) /\ Step(c) = "lock"
  /\ opLock = Nobody
  /\ opLock' = c
  /\ Advance(c)
  /\ UNCHANGED <<inputVars, leaseVars>>

Unlock(c) ==
  /\ Active(c) /\ Step(c) = "unlock"
  /\ opLock' = Free(c)
  /\ Advance(c)
  /\ UNCHANGED <<inputVars, leaseVars>>

(* The modifier keys are pressed in a ydotool process of their own, by the *)
(* caller itself. When it fails it may have pressed them all the same.     *)
Hold(c) ==
  /\ Active(c) /\ Step(c) = "hold"
  /\ \/ mods' = mods \cup {c} /\ Advance(c) /\ UNCHANGED opLock
     \/ /\ \E left \in SUBSET {"left"} : mods' = mods \cup left
        /\ Goto(c, Len(Handler[kind[c]]) + 1)
        /\ opLock' = Free(c)
  /\ UNCHANGED <<job, focused, leaseVars>>

Unhold(c) ==
  /\ Active(c) /\ Step(c) = "unhold"
  /\ \E left \in SUBSET {"left"} : mods' = (mods \ {c}) \cup left
  /\ Advance(c)
  /\ UNCHANGED <<job, focused, opLock, leaseVars>>

(* Mistake: the task does not hold the session lease.                      *)
StartWithoutLease(c) ==
  /\ job' = [job EXCEPT ![c] = "task"]
  /\ UNCHANGED leaseVars

(* run_cancellation_safe_input(): the input is handed to a detached task   *)
(* with the operation lock and a hold on the lease.                        *)
Start(c) ==
  /\ job' = [job EXCEPT ![c] = "task"]
  /\ Lease!Join(TaskLease(c))

StartTask(c) ==
  /\ Active(c) /\ Step(c) = "emit"
  /\ job[c] = "none"
  /\ Start(c)
  /\ UNCHANGED <<callVars, mods, focused, opLock>>

(* scroll() without a point, or without a pointer to move there.           *)
SkipMove(c) ==
  /\ Active(c) /\ Step(c) = "move"
  /\ job[c] = "none"
  /\ Advance(c)
  /\ UNCHANGED <<inputVars, opLock, leaseVars>>

(* try_abs_click(), try_abs_move() and the first half of drag_inner(): a   *)
(* blocking thread gets the job, and waits for the mutex of the pointer.   *)
QueueAbs(c) ==
  /\ AbsPointer
  /\ Active(c)
  /\ Step(c) = "move" \/ (Step(c) = "emit" /\ kind[c] \in Pointer)
  /\ job[c] = "none"
  /\ job' = [job EXCEPT ![c] = "queued"]
  /\ UNCHANGED <<callVars, mods, focused, opLock, leaseVars>>

AbsBegins(c) ==
  /\ job[c] = "queued"
  /\ \A d \in Call : job[d] # "abs"
  /\ job' = [job EXCEPT ![c] = "abs"]
  /\ UNCHANGED <<callVars, mods, focused, opLock, leaseVars>>

AbsEnds(c) ==
  /\ job[c] = "abs"
  /\ job' = [job EXCEPT ![c] = "none"]
  /\ IF Active(c) THEN Advance(c) ELSE UNCHANGED callVars
  /\ UNCHANGED <<mods, focused, opLock, leaseVars>>

(* The pointer reports an error: a caller still there falls back to        *)
(* ydotool, with a task of its own or, after a move, with the wheel's.     *)
AbsFails(c) ==
  /\ job[c] = "abs"
  /\ IF Active(c) /\ Step(c) = "emit"
       THEN Start(c) /\ UNCHANGED callVars
       ELSE /\ job' = [job EXCEPT ![c] = "none"]
            /\ IF Active(c) THEN Advance(c) ELSE UNCHANGED callVars
            /\ UNCHANGED leaseVars
  /\ UNCHANGED <<mods, focused, opLock>>

(* Mistake: the guard a finished task hands back to nobody is forgotten.   *)
TaskKeepsLock(c) ==
  /\ job[c] = "task"
  /\ job' = [job EXCEPT ![c] = "none"]
  /\ Lease!Finish(TaskLease(c))
  /\ IF Active(c)
       THEN \/ Advance(c) /\ UNCHANGED opLock
            \/ Goto(c, Abort(kind[c], pc[c])) /\ opLock' = Free(c)
       ELSE UNCHANGED <<callVars, opLock>>
  /\ UNCHANGED <<mods, focused>>

(* The task is over. A caller still there gets the operation lock back and *)
(* goes on, or gives up when the input failed; with nobody there to take   *)
(* it, the lock is free.                                                   *)
TaskEnds(c) ==
  /\ job[c] = "task"
  /\ job' = [job EXCEPT ![c] = "none"]
  /\ Lease!Finish(TaskLease(c))
  /\ IF Active(c)
       THEN \/ Advance(c) /\ UNCHANGED opLock
            \/ Goto(c, Abort(kind[c], pc[c])) /\ opLock' = Free(c)
       ELSE UNCHANGED callVars /\ opLock' = Free(c)
  /\ UNCHANGED <<mods, focused>>

(* Mistake: the hold on the lease is leaked when the call returns.         *)
ReturnLeaks(c) ==
  /\ Active(c) /\ Step(c) = "return"
  /\ Leave(c)
  /\ UNCHANGED <<inputVars, opLock, leaseVars>>

Return(c) ==
  /\ Active(c) /\ Step(c) = "return"
  /\ Leave(c)
  /\ DropLease(c)
  /\ UNCHANGED <<inputVars, opLock>>

(* Mistake: the caller keeps the operation lock while its task runs, and   *)
(* gives it up when it is dropped.                                         *)
CancelFreesLock(c) ==
  /\ Cancels /\ Active(c)
  /\ Leave(c)
  /\ DropLease(c)
  /\ opLock' = Free(c)
  /\ \E left \in SUBSET {"left"} : mods' = (mods \ {c}) \cup left
  /\ UNCHANGED <<job, focused>>

(* The caller is dropped at an await. Its lease and its operation lock go, *)
(* but not those of its task; modifiers it held, or was about to press,    *)
(* stay down.                                                              *)
Cancel(c) ==
  /\ Cancels /\ Active(c)
  /\ Leave(c)
  /\ DropLease(c)
  /\ opLock' = IF job[c] = "task" THEN opLock ELSE Free(c)
  /\ \E left \in SUBSET {"left"} :
       /\ c \in mods /\ Step(c) # "unhold" => left # {}
       /\ c \notin mods /\ Step(c) # "hold" => left = {}
       /\ mods' = (mods \ {c}) \cup left
  /\ UNCHANGED <<job, focused>>

(* Another server of the session, the release timer, and time.             *)
OtherServer ==
  /\ \/ Lease!Take(Other, OtherLease)
     \/ /\ holder = Other
        /\ Lease!Join(OtherLease) \/ Lease!Finish(OtherLease) \/ Lease!Exit
  /\ UNCHANGED <<callVars, inputVars, opLock>>
GiveBack == Lease!GiveBack /\ UNCHANGED <<callVars, inputVars, opLock>>
Tick     == Lease!Tick /\ UNCHANGED <<callVars, inputVars, opLock>>

Proceeds(c) ==
  \/ Gate(c) \/ Refused(c) \/ Passes(c) \/ ReturnsEarly(c) \/ Focus(c)
  \/ Hold(c) \/ Unlock(c) \/ Unhold(c) \/ SkipMove(c) \/ StartTask(c) \/ QueueAbs(c)
  \/ Return(c)

JobEnds(c) == AbsEnds(c) \/ AbsFails(c) \/ TaskEnds(c)

Next ==
  \/ \E c \in Call :
       \/ Dispatch(c) \/ Proceeds(c) \/ Lock(c) \/ Cancel(c)
       \/ AbsBegins(c) \/ JobEnds(c)
  \/ OtherServer \/ GiveBack \/ Tick

Spec == Init /\ [][Next]_vars

(* Calls and jobs are scheduled and their awaits end, as each command has  *)
(* a timeout; but nothing makes an application or the portal answer.       *)
(* tokio's Mutex is a queue, so a call that waits for it gets it. Nothing  *)
(* makes a client call, or the other server let go of the lease.           *)
Fairness ==
  /\ \A c \in Call :
       /\ WF_vars(Proceeds(c) /\ Step(c) \notin Unlimited)
       /\ SF_vars(Lock(c))
       /\ SF_vars(AbsBegins(c))
       /\ WF_vars(JobEnds(c))
  /\ WF_vars(Tick /\ holder = Me)
  /\ WF_vars(GiveBack /\ holder = Me)

FairSpec == Spec /\ Fairness

-----------------------------------------------------------------------------
(* The type of every variable; an idle call is at its first step.          *)
TypeOK ==
  /\ kind \in [Call -> Kind]
  /\ pc \in [Call -> Nat]
  /\ \A c \in Call : pc[c] \in 1..(Len(Handler[kind[c]]) + 1)
  /\ job \in [Call -> {"none", "queued", "abs", "task"}]
  /\ opLock \in Call \cup {Nobody}
  /\ mods \subseteq Call \cup {"left"}
  /\ focused \in Call \cup {Nobody}
  /\ holder \in {Me, Other, Nobody}
  /\ guards \subseteq (Call \X {"call", "task"}) \cup {OtherLease}
  /\ quiet \in Nat

(* The operation lock belongs to the call whose handler is in its locked   *)
(* part, or to the task that call has started.                             *)
LockInv ==
  \A c \in Call :
    opLock = c <=> pc[c] \in Locked(kind[c]) \/ job[c] = "task"

(* The holds on the lease are those of the calls past their gate and of    *)
(* the tasks, and while there is one this server has the lease.            *)
LeaseInv ==
  /\ \A c \in Call :
       /\ OwnLease(c) \in guards <=> Admitted(c)
       /\ TaskLease(c) \in guards <=> job[c] = "task"
  /\ holder # Me => guards \subseteq {OtherLease}
  /\ holder # Other => OtherLease \notin guards

(* A caller with a job waits for it.                                       *)
JobInv ==
  \A c \in Call :
    /\ job[c] # "none" /\ Active(c) => Step(c) \in {"emit", "move"}
    /\ job[c] = "task" /\ Active(c) => Step(c) = "emit"
    /\ ~Cancels /\ job[c] # "none" => Active(c)
    /\ job[c] \in {"queued", "abs"} => AbsPointer

(* The inductive invariant: locks, leases, jobs and callers agree.         *)
IInv == LockInv /\ LeaseInv /\ JobInv

(* Locks, lease, jobs and callers are well formed and agree, callers       *)
(* dropped at any await included.                                          *)
Consistent == TypeOK /\ IInv

(* One input at a time: a press and its release, a chord, a text or a drag *)
(* is over before the next input starts, also when its caller was dropped  *)
(* in the middle (run_cancellation_safe_input). Left out: the absolute     *)
(* pointer under a caller that can be dropped: its thread goes on without  *)
(* the lock.                                                               *)
OneInputAtATime ==
  ~(AbsPointer /\ Cancels) =>
    \A c, d \in Call : job[c] # "none" /\ job[d] # "none" => c = d

(* The machine-wide lock is this server's from the gate to the return of a *)
(* call and to the end of its task, so another server's input never falls  *)
(* in between and the idle timer does not free it half-way.                *)
InputUnderLease ==
  \A c \in Call : Admitted(c) \/ job[c] = "task" => holder = Me /\ guards # {}

(* With no call and no input under way nothing is held: no early return,   *)
(* failure or dropped caller leaks a lock or a hold, which would refuse    *)
(* every other server, or hang every later call, for good.                 *)
QuietServerHoldsNothing ==
  (\A c \in Call : ~Admitted(c) /\ job[c] = "none")
    => opLock = Nobody /\ (holder = Me => guards = {})

Emits(c) == job[c] = "none" /\ job'[c] # "none"

(* A key sequence is one piece of input: no other call's input goes        *)
(* between its keys, although the lock is handed to a task and back for    *)
(* every key.                                                              *)
KeysTogether ==
  [][\A c, d \in Call :
       /\ Emits(c)
       /\ kind[d] = "keys" /\ \E i \in 1..(pc[d]-1) : KeysSteps[i] = "emit"
       => c = d \/ \A i \in pc[d]..Len(KeysSteps) : KeysSteps[i] # "emit"]_vars

(* A click, a scroll, a key or a text raises its window only when no other *)
(* call is in the middle of its own: what is raised between the focus of a *)
(* call and its input is raised by a tool that does not take the lock      *)
(* first (drag and activate_window).                                       *)
RaisesInTurn ==
  [][\A c, d \in Call :
       /\ Focus(c) /\ kind[c] \in {"click", "modClick", "scroll", "keys", "type"}
       /\ pc[d] \in Locked(kind[d]) \/ job[d] = "task"
       => c = d]_vars

(* Every call ends, whatever others are under way: the operation lock and  *)
(* the pointer's mutex are never waited for in a circle, nor by a nested   *)
(* call of their owner. Only an application or the portal that never       *)
(* answers holds up a call for ever, and with it those that wait for the   *)
(* operation lock it has.                                                  *)
EveryCallEnds ==
  \A c \in Call :
    Active(c) ~> \/ ~Active(c)
                 \/ \E d \in Call : [](Asks(d) /\ (d = c \/ opLock = d))

(* A server that sends nothing and is not called gives the lease back.     *)
IdleServerGivesBack ==
  []<>(holder # Me \/ quiet = 0 \/ \E c \in Call : Active(c) \/ job[c] # "none")
=============================================================================
