--------------------------- MODULE PointerDevice ---------------------------
(***************************************************************************)
(* What the input tools of one server do to the devices: the absolute      *)
(* uinput pointer (src/src/abs_pointer.rs), created by the first call that *)
(* needs it and used by blocking threads under its own mutex, and ydotool, *)
(* which holds modifiers, sends chords and takes over a click or a drag    *)
(* the absolute pointer could not make.                                    *)
(*                                                                         *)
(* A device event may fail, a ydotool command may be killed between two of *)
(* its events, a caller may be dropped, the compositor may move the cursor *)
(* and a monitor may come or go.                                           *)
(***************************************************************************)
EXTENDS Integers, Sequences, FiniteSets

CONSTANTS
  Call,        \* tool calls that can be under way together
  Kinds,       \* the tools they call
  Aims,        \* the pairs of points they are aimed at, a start and an end
  Desktops,    \* the sizes the desktop may have, <<width, height>>
  Modifiers,   \* the modifiers a click or chord is sent with, a sequence
  ClickCount,  \* how many clicks a click is
  StepPixels, MaxSteps,   \* DRAG_STEP_PIXELS and DRAG_MAX_STEPS
  Cancels,     \* whether a caller may be dropped at an await
  Nobody       \* no call: a lock that is free

ASSUME PointerDeviceAssumption ==
  /\ Nobody \notin Call
  /\ Kinds \subseteq {"click", "sideClick", "modClick", "drag", "modDrag", "chord", "scroll"}
  /\ Aims \subseteq (Int \X Int) \X (Int \X Int)
  /\ Desktops \subseteq (Nat \ {0}) \X (Nat \ {0})
  /\ Modifiers \in Seq({"ctrl", "shift"})
  /\ ClickCount \in Nat \ {0}
  /\ StepPixels \in Nat \ {0} /\ MaxSteps \in Nat \ {0}
  /\ Cancels \in BOOLEAN

VARIABLES
  desktop,   \* the size of the captured desktop
  cursor,    \* where the absolute device has put the pointer, or Elsewhere
  moved,     \* something else moved it since a thread last asked for a point
  slot,      \* the absolute pointer, NoDevice before it is created
  mutex,     \* the thread inside its mutex
  opLock,    \* the owner of input_operation_lock
  pc, kind, aim,   \* each call's step, its tool and the points it is aimed at
  capture,   \* the size of the screenshot it creates the pointer from
  job,       \* its thread or detached ydotool task, and what is still to send
  presses,   \* how often it has pressed the button
  report,    \* how it ended
  ydDown,    \* the keys and buttons down on ydotool's device
  broken     \* what has gone wrong so far

desktopVars == <<desktop, cursor, moved>>
callVars    == <<pc, kind, aim, capture, report>>
deviceVars  == <<slot, mutex, ydDown, presses>>
vars == <<desktop, cursor, moved, slot, mutex, opLock, pc, kind, aim, capture,
          job, presses, report, ydDown, broken>>

NoDevice == [size |-> <<0, 0>>, position |-> <<0, 0>>, down |-> FALSE]
Elsewhere == <<-1, -1>>
NoAim    == << <<0, 0>>, <<0, 0>> >>
NoJob    == [on |-> "none", todo |-> <<>>, ok |-> TRUE]
Keys     == {"ctrl", "shift", "key", "button"}

-----------------------------------------------------------------------------
(* The geometry of the pointer, and the route of a drag.                   *)

Between(low, v, high) == IF v < low THEN low ELSE IF v > high THEN high ELSE v
Magnitude(v) == IF v < 0 THEN -v ELSE v
Larger(a, b) == IF a > b THEN a ELSE b

(* clamp_coordinates(): the last pixel of each axis is its maximum.        *)
Emitted(size, p) == <<Between(0, p[1], size[1] - 1), Between(0, p[2], size[2] - 1)>>

(* neighbor_of(), for a point on the desktop: none on a single pixel.      *)
Neighbors(size, p) ==
  IF size[1] > 1 THEN {<<IF p[1] > 0 THEN p[1] - 1 ELSE p[1] + 1, p[2]>>}
  ELSE IF size[2] > 1 THEN {<<p[1], IF p[2] > 0 THEN p[2] - 1 ELSE p[2] + 1>>}
  ELSE {}

(* Division rounds towards zero, as Rust's does.                           *)
Quotient(a, b) == IF a < 0 THEN -((-a) \div b) ELSE a \div b

DragStepCount(s, e) ==
  LET distance == Larger(Magnitude(e[1] - s[1]), Magnitude(e[2] - s[2]))
  IN  Between(1, (distance + StepPixels - 1) \div StepPixels, MaxSteps)

DragPointAt(s, e, step, steps) ==
  IF step >= steps THEN e
  ELSE <<s[1] + Quotient((e[1] - s[1]) * step, steps),
         s[2] + Quotient((e[2] - s[2]) * step, steps)>>

(* Where the compositor puts the pointer for the axis values p of a device *)
(* of that size: it spreads the axis range over the whole desktop.         *)
Lands(size, p) ==
  <<(p[1] * desktop[1]) \div size[1], (p[2] * desktop[2]) \div size[2]>>

-----------------------------------------------------------------------------
(* Events of a device. The thread of a gesture sends them one by one, a    *)
(* ydotool command is a few of them in one process.                        *)
Move(p) == [do |-> "move", at |-> p]
Down(k) == [do |-> "down", key |-> k]
Up(k)   == [do |-> "up", key |-> k]
Wheel   == [do |-> "wheel"]

(* Mistake: a repeated point is sent as it is.                             *)
MoveToAsIs(device, p) == <<Move(Emitted(device.size, p))>>

(* move_to(): a point the device already holds is nudged through its       *)
(* neighbor, or the kernel would drop it.                                  *)
MoveTo(device, p) ==
  LET e == Emitted(device.size, p)
  IN  IF e = device.position /\ Neighbors(device.size, e) # {}
        THEN <<Move(CHOOSE n \in Neighbors(device.size, e) : TRUE), Move(e)>>
        ELSE <<Move(e)>>

Repeat(s, n) == [i \in 1..(n * Len(s)) |-> s[((i - 1) % Len(s)) + 1]]

(* Mistake: the loop of click() runs once too often.                       *)
ClicksOnceMore == Repeat(<<Down("button"), Up("button")>>, ClickCount + 1)

(* What click() and drag() send to the absolute pointer.                   *)
Clicks == Repeat(<<Down("button"), Up("button")>>, ClickCount)

DragTravel(device, a) ==
  LET s == Emitted(device.size, a[1])
      e == Emitted(device.size, a[2])
      n == DragStepCount(s, e)
  IN  <<Down("button")>> \o [i \in 1..n |-> Move(DragPointAt(s, e, i, n))]
        \o <<Up("button")>>

Travel(c) ==
  CASE kind[c] \in {"drag", "modDrag"} -> DragTravel(slot, aim[c])
    [] kind[c] = "scroll" -> <<>>
    [] OTHER -> Clicks

Gesture(c) == MoveTo(slot, aim[c][1]) \o Travel(c)

(* The ydotool commands of the fallbacks, and of the keyboard. A chord     *)
(* presses its modifiers, its key, and releases in the opposite order.     *)
Backwards(s) == [i \in 1..Len(s) |-> s[Len(s) + 1 - i]]
HoldCommand   == [i \in 1..Len(Modifiers) |-> Down(Modifiers[i])]
UnholdCommand == [i \in 1..Len(Modifiers) |-> Up(Modifiers[i])]

KeySequence ==
  HoldCommand \o <<Down("key"), Up("key")>> \o
    [i \in 1..Len(Modifiers) |-> Up(Backwards(Modifiers)[i])]

ClickCommands(a) == << <<Move(a[1])>>, Clicks >>
DragCommands(a)  ==
  << <<Move(a[1])>>, <<Down("button")>>, <<Move(a[2])>>, <<Up("button")>> >>

Commands(c) ==
  CASE kind[c] = "chord" -> <<KeySequence>>
    [] kind[c] = "scroll" /\ report[c] = "abs" -> << <<Wheel>> >>
    [] kind[c] = "scroll" /\ report[c] # "abs" -> << <<Move(aim[c][1])>>, <<Wheel>> >>
    [] kind[c] \in {"drag", "modDrag"} -> DragCommands(aim[c])
    [] OTHER -> ClickCommands(aim[c])

(* What is down on a device after these events: the last one of a key      *)
(* decides.                                                                *)
Held(down, events) ==
  {k \in Keys :
     LET mine == {i \in DOMAIN events : events[i].do \in {"down", "up"} /\ events[i].key = k}
     IN  IF mine = {} THEN k \in down
         ELSE \E i \in mine : (\A j \in mine : j <= i) /\ events[i].do = "down"}

(* How often they press the button: the kernel drops the press of a button *)
(* that is down already.                                                   *)
PressesIn(down, events) ==
  LET all == {i \in DOMAIN events : events[i] = Down("button")}
  IN  IF all # {} /\ "button" \in down THEN Cardinality(all) - 1 ELSE Cardinality(all)

-----------------------------------------------------------------------------
(* The calls.                                                              *)
Dragging  == {"drag", "modDrag"}
Modified  == {"modClick", "modDrag"}
Clicking  == {"click", "sideClick", "modClick"}

(* Where a call goes once its input has been sent, or could not be.        *)
AfterInput(c) == IF kind[c] \in Modified THEN "unhold" ELSE "return"

(* The modifiers of the call are down, or about to be released.            *)
Holds(c) ==
  /\ kind[c] \in Modified
  /\ \/ pc[c] \in {"ensure", "capture", "create", "store", "abs", "landed",
                    "fallback", "ydotool", "unhold"}
     \/ pc[c] = "lock" /\ kind[c] = "modDrag"

Goto(c, step) == pc' = [pc EXCEPT ![c] = step]
Unlocked(c)   == IF opLock = c THEN Nobody ELSE opLock

Init ==
  /\ desktop \in Desktops
  /\ cursor = Elsewhere /\ moved = FALSE
  /\ slot = NoDevice /\ mutex = Nobody /\ opLock = Nobody
  /\ pc = [c \in Call |-> "idle"]
  /\ kind = [c \in Call |-> "none"]
  /\ aim = [c \in Call |-> NoAim]
  /\ capture = [c \in Call |-> desktop]
  /\ job = [c \in Call |-> NoJob]
  /\ presses = [c \in Call |-> 0]
  /\ report = [c \in Call |-> "none"]
  /\ ydDown = {} /\ broken = {}

(* click(), drag() and press_key() up to the operation lock: a drag holds  *)
(* its modifiers before it.                                                *)
Start(c) ==
  /\ pc[c] = "idle"
  /\ \E k \in Kinds, a \in Aims :
       /\ kind' = [kind EXCEPT ![c] = k]
       /\ aim' = [aim EXCEPT ![c] = a]
       /\ Goto(c, IF k = "modDrag" THEN "hold" ELSE "lock")
  /\ UNCHANGED <<desktopVars, deviceVars, opLock, capture, job, report, broken>>

(* Mistake: a drag goes on to the pointer without the operation lock.      *)
DragUnlocked(c) ==
  /\ pc[c] = "lock" /\ opLock = Nobody
  /\ opLock' = IF kind[c] \in Dragging THEN Nobody ELSE c
  /\ Goto(c, CASE kind[c] = "modClick" -> "hold"
              [] kind[c] \in {"chord", "sideClick"} -> "fallback"
              [] OTHER -> "ensure")
  /\ UNCHANGED <<desktopVars, deviceVars, kind, aim, capture, job, report, broken>>

(* A chord has no use for the pointer, and PointerButton::from_name()      *)
(* knows three buttons only.                                               *)
Lock(c) ==
  /\ pc[c] = "lock" /\ opLock = Nobody
  /\ opLock' = c
  /\ Goto(c, CASE kind[c] = "modClick" -> "hold"
              [] kind[c] \in {"chord", "sideClick"} -> "fallback"
              [] OTHER -> "ensure")
  /\ UNCHANGED <<desktopVars, deviceVars, kind, aim, capture, job, report, broken>>

(* The modifiers are pressed by one command. One that fails may have       *)
(* pressed some, and the call returns without releasing them.              *)
Hold(c) ==
  /\ pc[c] = "hold"
  /\ \/ /\ ydDown' = Held(ydDown, HoldCommand)
        /\ Goto(c, IF kind[c] = "modDrag" THEN "lock" ELSE "ensure")
        /\ UNCHANGED <<opLock, report, broken>>
     \/ /\ \E n \in 0..Len(HoldCommand) :
             ydDown' = Held(ydDown, SubSeq(HoldCommand, 1, n))
        /\ Goto(c, "return")
        /\ opLock' = Unlocked(c)
        /\ report' = [report EXCEPT ![c] = "failed"]
        /\ broken' = broken \cup {"hold"}
  /\ UNCHANGED <<desktopVars, slot, mutex, kind, aim, capture, job, presses>>

(* One that fails, or is killed, may release some of them.                 *)
Unhold(c) ==
  /\ pc[c] = "unhold"
  /\ Goto(c, "return")
  /\ \/ ydDown' = Held(ydDown, UnholdCommand) /\ UNCHANGED broken
     \/ /\ \E n \in 0..Len(UnholdCommand) :
             ydDown' = Held(ydDown, SubSeq(UnholdCommand, 1, n))
        /\ broken' = broken \cup {"unhold"}
  /\ UNCHANGED <<desktopVars, slot, mutex, opLock, kind, aim, capture, job, presses, report>>

(* The call has returned, or its caller is gone and its thread or task has  *)
(* ended.                                                                  *)
Return(c) ==
  /\ pc[c] \in {"return", "gone"} /\ job[c] = NoJob
  /\ Goto(c, "idle")
  /\ kind' = [kind EXCEPT ![c] = "none"]
  /\ aim' = [aim EXCEPT ![c] = NoAim]
  /\ presses' = [presses EXCEPT ![c] = 0]
  /\ report' = [report EXCEPT ![c] = "none"]
  /\ UNCHANGED <<desktopVars, slot, mutex, ydDown, opLock, capture, job, broken>>

-----------------------------------------------------------------------------
(* spawn_blocking(): the thread starts some time later.                    *)
Spawn(c) ==
  /\ job' = [job EXCEPT ![c] = [on |-> "queue", todo |-> <<>>, ok |-> TRUE]]
  /\ Goto(c, "abs")

(* ensure_abs_pointer(): the look at the slot waits for its mutex.         *)
Ensure(c) ==
  /\ pc[c] = "ensure" /\ mutex = Nobody
  /\ IF slot # NoDevice THEN Spawn(c) ELSE Goto(c, "capture") /\ UNCHANGED job
  /\ UNCHANGED <<desktopVars, deviceVars, opLock, kind, aim, capture, report, broken>>

(* A screenshot tells the size of the desktop; without one, or without a   *)
(* device, the call falls back to ydotool.                                 *)
Capture(c) ==
  /\ pc[c] = "capture"
  /\ \/ capture' = [capture EXCEPT ![c] = desktop] /\ Goto(c, "create")
     \/ Goto(c, "fallback") /\ UNCHANGED capture
  /\ UNCHANGED <<desktopVars, deviceVars, opLock, kind, aim, job, report, broken>>

Create(c) ==
  /\ pc[c] = "create"
  /\ \E step \in {"store", "fallback"} : Goto(c, step)
  /\ UNCHANGED <<desktopVars, deviceVars, opLock, kind, aim, capture, job, report, broken>>

Store(c) ==
  /\ pc[c] = "store" /\ mutex = Nobody
  /\ slot' = [size |-> capture[c], position |-> <<0, 0>>, down |-> FALSE]
  /\ Spawn(c)
  /\ UNCHANGED <<desktopVars, mutex, ydDown, presses, opLock, kind, aim, capture,
                 report, broken>>

(* Inside the mutex, the gesture starts from where the device is.          *)
ThreadBegins(c) ==
  /\ job[c].on = "queue" /\ mutex = Nobody
  /\ mutex' = c
  /\ job' = [job EXCEPT ![c] = [on |-> "thread", todo |-> Gesture(c), ok |-> TRUE]]
  /\ UNCHANGED <<desktopVars, slot, ydDown, presses, callVars, opLock, broken>>

(* A motion to the values the axes hold is dropped by the kernel; a press  *)
(* of a button that is down, too.                                          *)
Motion(c, p) ==
  /\ slot' = [slot EXCEPT !.position = p]
  /\ cursor' = IF p = slot.position THEN cursor ELSE Lands(slot.size, p)
  /\ moved' = FALSE
  /\ UNCHANGED <<desktop, presses>>

Button(c, event) ==
  /\ slot' = [slot EXCEPT !.down = (event.do = "down")]
  /\ presses' = [presses EXCEPT
       ![c] = @ + (IF event.do = "down" /\ ~slot.down THEN 1 ELSE 0)]
  /\ UNCHANGED desktopVars

ThreadEmits(c) ==
  /\ job[c].on = "thread" /\ job[c].todo # <<>>
  /\ LET event == Head(job[c].todo)
     IN  IF event.do = "move" THEN Motion(c, event.at) ELSE Button(c, event)
  /\ job' = [job EXCEPT ![c].todo = Tail(@)]
  /\ UNCHANGED <<mutex, ydDown, callVars, opLock, broken>>

(* The thread ends when its gesture is sent or an event fails; a caller    *)
(* that is still there goes on with the landing or the fallback.           *)
ThreadEnds(c) ==
  /\ job[c].on = "thread"
  /\ \/ /\ job[c].todo = <<>>
        /\ IF pc[c] = "abs" THEN Goto(c, "landed") ELSE UNCHANGED pc
        /\ UNCHANGED broken
     \/ /\ job[c].todo # <<>>
        /\ IF pc[c] = "abs" THEN Goto(c, "fallback") ELSE UNCHANGED pc
        /\ broken' = broken \cup {"abs"}
  /\ mutex' = Nobody
  /\ job' = [job EXCEPT ![c] = NoJob]
  /\ UNCHANGED <<desktopVars, slot, ydDown, presses, kind, aim, capture, report, opLock>>

(* The landing is compared with the cursor and reported, and the operation *)
(* lock goes back; a scroll keeps it and turns the wheel through ydotool.  *)
Landed(c) ==
  /\ pc[c] = "landed"
  /\ report' = [report EXCEPT ![c] = "abs"]
  /\ IF kind[c] = "scroll"
       THEN Goto(c, "fallback") /\ UNCHANGED opLock
       ELSE Goto(c, AfterInput(c)) /\ opLock' = Unlocked(c)
  /\ UNCHANGED <<desktopVars, deviceVars, kind, aim, capture, job, broken>>

-----------------------------------------------------------------------------
(* The detached task of run_cancellation_safe_input() takes the operation  *)
(* lock along and runs the ydotool commands.                               *)
Fallback(c) ==
  /\ pc[c] = "fallback"
  /\ job' = [job EXCEPT ![c] = [on |-> "task", todo |-> Commands(c), ok |-> TRUE]]
  /\ Goto(c, "ydotool")
  /\ UNCHANGED <<desktopVars, deviceVars, opLock, kind, aim, capture, report, broken>>

(* The events of one command; ydotool's faked absolute motion may end      *)
(* anywhere.                                                               *)
Sends(c, events) ==
  /\ ydDown' = Held(ydDown, events)
  /\ presses' = [presses EXCEPT ![c] = @ + PressesIn(ydDown, events)]
  /\ IF \E i \in DOMAIN events : events[i].do = "move"
       THEN cursor' = Elsewhere /\ moved' = TRUE
       ELSE UNCHANGED <<cursor, moved>>
  /\ UNCHANGED desktop

(* Mistake: a drag stops at the first command that fails.                  *)
StopThere(c) == <<>>

(* run_ydotool_sequence() stops at the first failure; run_ydotool_drag()   *)
(* releases a button it tried to press.                                    *)
AfterFailure(c) ==
  IF kind[c] \in Dragging /\ Len(job[c].todo) \in {2, 3}
    THEN << <<Up("button")>> >>
    ELSE <<>>

(* What a command that failed was for.                                     *)
Cause(c) ==
  IF job[c].todo[1] = <<Up("button")>> THEN "release"
  ELSE CASE kind[c] = "chord"     -> "chord"
         [] kind[c] = "scroll"    -> "scroll"
         [] kind[c] \in Dragging -> "drag"
         [] OTHER                 -> "click"

CommandRuns(c) ==
  /\ job[c].on = "task" /\ job[c].todo # <<>>
  /\ Sends(c, Head(job[c].todo))
  /\ job' = [job EXCEPT ![c].todo = Tail(@)]
  /\ UNCHANGED <<slot, mutex, opLock, callVars, broken>>

(* ydotool is missing, refuses, or is killed after some of its events.     *)
CommandFails(c) ==
  /\ job[c].on = "task" /\ job[c].todo # <<>>
  /\ \E n \in 0..Len(Head(job[c].todo)) : Sends(c, SubSeq(Head(job[c].todo), 1, n))
  /\ job' = [job EXCEPT ![c].todo = AfterFailure(c), ![c].ok = FALSE]
  /\ broken' = broken \cup {Cause(c)}
  /\ UNCHANGED <<slot, mutex, opLock, callVars>>

(* The lock goes back to a caller that is still there, which drops it at   *)
(* once, or is dropped with the task.                                      *)
TaskEnds(c) ==
  /\ job[c].on = "task" /\ job[c].todo = <<>>
  /\ job' = [job EXCEPT ![c] = NoJob]
  /\ opLock' = Unlocked(c)
  /\ IF pc[c] = "ydotool"
       THEN /\ Goto(c, AfterInput(c))
            /\ report' = [report EXCEPT ![c] = IF job[c].ok THEN "ydotool" ELSE "failed"]
       ELSE UNCHANGED <<pc, report>>
  /\ UNCHANGED <<desktopVars, deviceVars, kind, aim, capture, broken>>

-----------------------------------------------------------------------------
(* The caller is dropped at an await. A thread or task it has started goes *)
(* on; a command that holds or releases modifiers is killed.               *)
Killed(c) ==
  CASE pc[c] = "hold"   -> HoldCommand
    [] pc[c] = "unhold" -> UnholdCommand
    [] OTHER            -> <<>>

Cancel(c) ==
  /\ Cancels
  /\ pc[c] \notin {"idle", "ensure", "store", "return", "gone"}
  /\ Goto(c, "gone")
  /\ \E n \in 0..Len(Killed(c)) : ydDown' = Held(ydDown, SubSeq(Killed(c), 1, n))
  /\ opLock' = IF job[c].on = "task" THEN opLock ELSE Unlocked(c)
  /\ broken' = IF Holds(c) \/ pc[c] = "hold" THEN broken \cup {"cancel"} ELSE broken
  /\ UNCHANGED <<desktopVars, slot, mutex, presses, kind, aim, capture, job, report>>

(* Focusing a window warps the cursor, or the user moves the mouse.        *)
Warp ==
  /\ cursor' = Elsewhere /\ moved' = TRUE
  /\ UNCHANGED <<desktop, deviceVars, opLock, callVars, job, broken>>

(* A monitor is plugged in or removed. The device keeps its size.          *)
Resize ==
  /\ desktop' \in Desktops \ {desktop}
  /\ cursor' = Elsewhere /\ moved' = TRUE
  /\ UNCHANGED <<deviceVars, opLock, callVars, job, broken>>

Proceeds(c) ==
  \/ Start(c) \/ Lock(c) \/ Hold(c) \/ Unhold(c) \/ Return(c)
  \/ Ensure(c) \/ Capture(c) \/ Create(c) \/ Store(c)
  \/ ThreadBegins(c) \/ ThreadEmits(c) \/ ThreadEnds(c) \/ Landed(c)
  \/ Fallback(c) \/ CommandRuns(c) \/ CommandFails(c) \/ TaskEnds(c)

Next ==
  \/ \E c \in Call : Proceeds(c) \/ Cancel(c)
  \/ Warp \/ Resize

Spec == Init /\ [][Next]_vars

-----------------------------------------------------------------------------
(* Properties.                                                             *)
Step == {"idle", "lock", "hold", "ensure", "capture", "create", "store", "abs",
         "landed", "fallback", "ydotool", "unhold", "return", "gone"}
Point == Int \X Int
Event == [do : {"move"}, at : Point] \cup [do : {"down", "up"}, key : Keys] \cup {Wheel}
Job == [on : {"none", "queue"}, todo : {<<>>}, ok : {TRUE}]
         \cup [on : {"thread"}, todo : Seq(Event), ok : {TRUE}]
         \cup [on : {"task"}, todo : Seq(Seq(Event)), ok : BOOLEAN]
Fault == {"abs", "click", "drag", "release", "chord", "scroll", "hold", "unhold", "cancel"}

(* Every variable holds a value the program can give it.                   *)
TypeOK ==
  /\ desktop \in Desktops /\ cursor \in Point /\ moved \in BOOLEAN
  /\ slot \in {NoDevice} \cup
       [size : Desktops, position : Point, down : BOOLEAN]
  /\ mutex \in Call \cup {Nobody} /\ opLock \in Call \cup {Nobody}
  /\ pc \in [Call -> Step] /\ kind \in [Call -> Kinds \cup {"none"}]
  /\ aim \in [Call -> Point \X Point]
  /\ capture \in [Call -> Desktops]
  /\ job \in [Call -> Job]
  /\ presses \in [Call -> Nat]
  /\ report \in [Call -> {"none", "abs", "ydotool", "failed"}]
  /\ ydDown \subseteq Keys /\ broken \subseteq Fault

(* The steps from the operation lock to its return.                        *)
HoldsLock(c) ==
  \/ pc[c] \in {"ensure", "capture", "create", "store", "abs", "landed", "fallback", "ydotool"}
  \/ pc[c] = "hold" /\ kind[c] = "modClick"

(* A call between the lock and its return owns the operation lock, and so  *)
(* does a detached ydotool task; while a call creates the pointer there is *)
(* none, and a thread has one and is alone with it.                        *)
LockInv ==
  /\ \A c \in Call : HoldsLock(c) \/ job[c].on = "task" => opLock = c
  /\ \A c \in Call : pc[c] \in {"capture", "create", "store"} => slot = NoDevice
  /\ \A c \in Call : job[c].on \in {"queue", "thread"} => slot.size # NoDevice.size
  /\ \A c \in Call : job[c].on = "thread" <=> mutex = c
  /\ \A c \in Call :
       CASE pc[c] = "abs"     -> job[c].on \in {"queue", "thread"}
         [] pc[c] = "ydotool" -> job[c].on = "task"
         [] pc[c] = "hold"    -> job[c].on = "none" /\ kind[c] \in Modified
         [] pc[c] = "gone"    -> TRUE
         [] OTHER             -> job[c].on = "none"

(* What a thread has still to send is the end of its gesture: `before`     *)
(* motions that lead to the start, while it is positive, and the travel.   *)
(* The device is where the last motion put it, and so is the cursor at the *)
(* start and, once a drag is about to be released, at its end.             *)
Single == <<1, 1>>

GestureLeft(c) ==
  LET todo   == job[c].todo
      travel == Travel(c)
      before == Len(todo) - Len(travel)
      start  == Emitted(slot.size, aim[c][1])
      end    == Emitted(slot.size, aim[c][2])
  IN  /\ before <= 2
      /\ \A i \in DOMAIN todo : i > before => todo[i] = travel[i - before]
      /\ before = 2 => todo[1].do = "move" /\ todo[1].at # start /\ todo[2] = Move(start)
      /\ before = 1 => todo[1] = Move(start) /\ (slot.position # start \/ slot.size = Single)
      /\ before <= 0 => slot.position =
           IF before < 0 /\ kind[c] \in Dragging
             THEN DragPointAt(start, end, -before - 1, Len(travel) - 2)
             ELSE start
      /\ /\ before = 0 \/ (before < 0 /\ kind[c] \notin Dragging)
              \/ (before < 0 /\ Len(todo) <= 1 /\ start # end)
         /\ ~moved /\ slot.size # Single
         => cursor = Lands(slot.size, slot.position)

GestureInv == \A c \in Call : job[c].on = "thread" => GestureLeft(c)

(* The device's button is down between a press and its release, and before *)
(* the travel only if an event has failed. A click has pressed it once for *)
(* each pair of events that is gone.                                       *)
ButtonLeft(c) ==
  LET left  == Len(job[c].todo)
      all   == Len(Travel(c))
      pairs == IF left < all THEN ClickCount - (left \div 2) ELSE 0
  IN  /\ left < all => (slot.down <=> Travel(c)[all - left].do # "up")
      /\ left >= all /\ "abs" \notin broken => ~slot.down
      /\ kind[c] \in Clicking =>
           presses[c] <= pairs /\ ("abs" \notin broken => presses[c] = pairs)

ButtonInv ==
  /\ mutex = Nobody /\ "abs" \notin broken => ~slot.down
  /\ \A c \in Call : job[c].on = "thread" => ButtonLeft(c)

(* A task has the last commands of its input to run, of a drag that failed *)
(* the release at most.                                                    *)
TaskInv ==
  \A c \in Call : job[c].on = "task" =>
    LET left == Len(job[c].todo)
        all  == Len(Commands(c))
    IN  /\ left <= all
        /\ \A i \in 1..left : job[c].todo[i] = Commands(c)[all - left + i]

(* What is down on ydotool's device, and what it is down for.              *)
KeysInv ==
  /\ "button" \in ydDown /\ broken \cap {"click", "release"} = {} =>
       \E c \in Call : /\ job[c].on = "task" /\ kind[c] \in Dragging
                       /\ Len(job[c].todo) \in {1, 2}
  /\ "key" \in ydDown => "chord" \in broken
  /\ \A k \in ydDown \cap {"ctrl", "shift"} : \E i \in DOMAIN Modifiers : Modifiers[i] = k
  /\ ydDown \cap {"ctrl", "shift"} # {} /\ broken \cap {"chord", "hold", "unhold", "cancel"} = {}
       => \E c \in Call : Holds(c)

(* How often a click has pressed the button by each of its steps, and      *)
(* whether it has reported yet.                                            *)
Clean == broken \subseteq {"hold", "unhold", "cancel"}

Counted(c) ==
  /\ \/ pc[c] \in {"idle", "lock", "hold", "ensure", "capture", "create", "store"}
     \/ job[c].on = "queue"
     => presses[c] = 0 /\ report[c] = "none"
  /\ kind[c] \in Clicking =>
       /\ pc[c] = "fallback" \/ (job[c].on = "task" /\ job[c].todo # <<>>) =>
            presses[c] <= ClickCount /\ (Clean => presses[c] = 0)
       /\ pc[c] = "landed" => presses[c] <= ClickCount /\ (Clean => presses[c] = ClickCount)
       /\ job[c].on = "task" /\ job[c].todo = <<>> =>
            presses[c] <= 2 * ClickCount /\ (Clean => presses[c] = ClickCount)
       /\ pc[c] \in {"unhold", "return", "gone"} /\ job[c].on = "none" =>
            /\ presses[c] <= 2 * ClickCount
            /\ Clean /\ report[c] \in {"abs", "ydotool"} => presses[c] = ClickCount
       /\ pc[c] \in {"fallback", "landed"} \/ job[c].on \in {"thread", "task"} =>
            report[c] = "none"

CountInv == \A c \in Call : Counted(c)

IInv == LockInv /\ GestureInv /\ ButtonInv /\ TaskInv /\ KeysInv /\ CountInv

(* What the calls do together keeps the lock, the slot, the mutex, the     *)
(* jobs, the buttons and the counts of the calls in step, callers dropped  *)
(* at any await included.                                                  *)
Consistent == TypeOK /\ IInv

(* The pointer is created once, though the look at the slot, the capture,  *)
(* the creation and the store of ensure_abs_pointer() are separate steps   *)
(* of calls that may be dropped between them: a second device would        *)
(* replace the first with its position, its pressed button and its mutex.  *)
DeviceCreatedOnce ==
  [][/\ slot.size # NoDevice.size => slot'.size = slot.size
     /\ \A c \in Call : pc[c] = "store" /\ pc'[c] = "abs" => slot = NoDevice]_vars

(* A button or a key is left down, with nothing under way that would       *)
(* release it, only if one of these failed: an event of the absolute       *)
(* pointer, a ydotool click or the release of a drag; a chord; the command *)
(* that holds or releases the modifiers, or a caller dropped around them.  *)
(* Every other failure, such as any earlier command of a drag, lets go.    *)
LeftDownByFailure ==
  /\ slot # NoDevice /\ mutex = Nobody /\ slot.down => "abs" \in broken
  /\ (\A c \in Call : job[c].on # "task") /\ "button" \in ydDown
       => broken \cap {"click", "release"} # {}
  /\ "key" \in ydDown => "chord" \in broken
  /\ (\A c \in Call : ~Holds(c)) /\ ydDown \cap {"ctrl", "shift"} # {}
       => broken \cap {"chord", "hold", "unhold", "cancel"} # {}

(* The thread that holds the mutex presses or releases the button.         *)
Clicked == slot # NoDevice /\ slot' # NoDevice /\ slot'.down # slot.down

(* A press lands on the point of its call, and the release of a drag on    *)
(* its end, clamped to the desktop, unless something else moved the cursor *)
(* since the motion: a pointer that was moved away after an earlier click  *)
(* on the same point is brought back. Only a drag of no length has no      *)
(* motion of its own before its release, and a desktop of a single pixel   *)
(* has no other point.                                                     *)
LandsAt(c, p) == cursor = Emitted(desktop, p) \/ desktop = Single

LandsWhereAimed ==
  [][\A c \in Call :
       (/\ Clicked /\ mutex = c /\ ~moved
        /\ slot.size = desktop)
       => \/ slot'.down /\ LandsAt(c, aim[c][1])
          \/ ~slot'.down /\ kind[c] \notin Dragging
          \/ ~slot'.down /\ LandsAt(c, aim[c][2])
          \/ ~slot'.down /\ Emitted(desktop, aim[c][1]) = Emitted(desktop, aim[c][2])]_vars

(* A click that reports success has pressed as often as it was asked to,   *)
(* through either backend, when nothing failed; and the fallback for a     *)
(* pointer that failed half-way makes it at most twice that.               *)
ClicksAsAsked ==
  \A c \in Call : kind[c] \in Clicking =>
    /\ report[c] \in {"abs", "ydotool"} /\ broken \subseteq {"hold", "unhold", "cancel"}
         => presses[c] = ClickCount
    /\ presses[c] <= 2 * ClickCount

(* abs_pointer.rs says that ABS(x, y) lands at the pixel (x, y) of the     *)
(* screenshot: so the device would have to follow the desktop's size.      *)
AbsLandsAtPixel ==
  [][\A c \in Call :
       Clicked /\ slot'.down /\ mutex = c /\ ~moved => LandsAt(c, aim[c][1])]_vars
=============================================================================
