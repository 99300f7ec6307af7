----------------------- MODULE PointerDevice_proofs ------------------------
(* The proofs about PointerDevice: whatever is dropped, fails or is moved, *)
(* and for any number of calls, desktops, aims, modifiers, clicks and drag *)
(* steps, the pointer is created once, a press and a release land where    *)
(* they are aimed, a click presses as often as it is asked to, and nothing *)
(* is left down but by a failure that explains it.                         *)
(*                                                                         *)
(* The parts of the invariant need each other: what a thread has left says *)
(* where the device is, that the button is down says what is left, and the *)
(* keys are explained by what tasks have left.                             *)
EXTENDS PointerDevice, FiniteSetTheorems, FunctionTheorems, SequenceTheorems, TLAPS

-----------------------------------------------------------------------------
(* What the geometry and the gestures return.                              *)
LEMMA BetweenType ==
  ASSUME NEW a \in Int, NEW v \in Int, NEW b \in Int
  PROVE  Between(a, v, b) \in Int
  BY DEF Between

(* A clamped point is a point.                                             *)
LEMMA EmittedType ==
  ASSUME NEW size \in Desktops, NEW p \in Point
  PROVE  Emitted(size, p) \in Point
<1>1. size[1] \in Int /\ size[2] \in Int /\ p[1] \in Int /\ p[2] \in Int
  BY PointerDeviceAssumption DEF Point
<1>2. Between(0, p[1], size[1] - 1) \in Int /\ Between(0, p[2], size[2] - 1) \in Int
  BY <1>1 DEF Between
<1> QED BY <1>2 DEF Emitted, Point

(* So are its neighbors.                                                   *)
LEMMA NeighborsType ==
  ASSUME NEW size \in Desktops, NEW p \in Point
  PROVE  Neighbors(size, p) \subseteq Point
<1>1. size[1] \in Int /\ size[2] \in Int /\ p[1] \in Int /\ p[2] \in Int
  BY PointerDeviceAssumption DEF Point
<1> QED BY <1>1 DEF Neighbors, Point

(* A quotient is an integer.                                               *)
LEMMA QuotientType ==
  ASSUME NEW a \in Int, NEW b \in Nat \ {0}
  PROVE  Quotient(a, b) \in Int
  BY DEF Quotient

(* A drag has at least one step.                                           *)
LEMMA DragStepCountType ==
  ASSUME NEW s \in Point, NEW e \in Point
  PROVE  DragStepCount(s, e) \in Nat \ {0}
<1> DEFINE d == Larger(Magnitude(e[1] - s[1]), Magnitude(e[2] - s[2]))
<1>1. e[1] - s[1] \in Int /\ e[2] - s[2] \in Int
  BY DEF Point
<1>2. d \in Nat
  BY <1>1 DEF Larger, Magnitude
<1>3. (d + StepPixels - 1) \div StepPixels \in Int
  BY <1>2, PointerDeviceAssumption
<1>4. DragStepCount(s, e) = Between(1, (d + StepPixels - 1) \div StepPixels, MaxSteps)
  BY DEF DragStepCount
<1> HIDE DEF d
<1> QED BY <1>3, <1>4, PointerDeviceAssumption DEF Between

(* Every step of a drag leads to a point.                                  *)
LEMMA DragPointType ==
  ASSUME NEW s \in Point, NEW e \in Point, NEW i \in Nat, NEW n \in Nat \ {0}
  PROVE  DragPointAt(s, e, i, n) \in Point
<1>1. s[1] \in Int /\ s[2] \in Int /\ e[1] \in Int /\ e[2] \in Int
  BY DEF Point
<1>2. (e[1] - s[1]) * i \in Int /\ (e[2] - s[2]) * i \in Int
  BY <1>1
<1>3. Quotient((e[1] - s[1]) * i, n) \in Int /\ Quotient((e[2] - s[2]) * i, n) \in Int
  BY <1>2, QuotientType
<1> QED BY <1>1, <1>3 DEF DragPointAt, Point

(* The events.                                                             *)
LEMMA EventTypes ==
  /\ \A p \in Point : Move(p) \in Event
  /\ \A k \in Keys : Down(k) \in Event /\ Up(k) \in Event
  /\ Wheel \in Event
  BY DEF Event, Move, Down, Up, Wheel

(* A repeated sequence is one of the same elements.                        *)
LEMMA RepeatType ==
  ASSUME NEW S, NEW s \in Seq(S), s # <<>>, NEW n \in Nat
  PROVE  Repeat(s, n) \in Seq(S)
<1>1. Len(s) \in Nat \ {0}
  OBVIOUS
<1>2. n * Len(s) \in Nat
  BY <1>1
<1>3. \A i \in 1..(n * Len(s)) : ((i - 1) % Len(s)) + 1 \in 1..Len(s)
  BY <1>1, <1>2
<1>4. \A i \in 1..(n * Len(s)) : s[((i - 1) % Len(s)) + 1] \in S
  BY <1>3
<1> QED BY <1>2, <1>4 DEF Repeat

(* A gesture is a sequence of events.                                      *)
LEMMA GestureType ==
  ASSUME TypeOK, NEW c \in Call, slot.size \in Desktops, aim[c] \in Point \X Point
  PROVE  Gesture(c) \in Seq(Event)
<1>1. slot.position \in Point /\ aim[c][1] \in Point /\ aim[c][2] \in Point
  BY DEF TypeOK, NoDevice, Point
<1> DEFINE start == Emitted(slot.size, aim[c][1])
           end   == Emitted(slot.size, aim[c][2])
<1>2. start \in Point /\ end \in Point
  BY <1>1, EmittedType
<1>3. MoveTo(slot, aim[c][1]) \in Seq(Event)
  <2>1. Neighbors(slot.size, start) \subseteq Point
    BY <1>2, NeighborsType
  <2>2. CASE start = slot.position /\ Neighbors(slot.size, start) # {}
    <3>1. PICK n \in Point : n = (CHOOSE x \in Neighbors(slot.size, start) : TRUE)
      BY <2>1, <2>2
    <3>2. MoveTo(slot, aim[c][1]) = <<Move(n), Move(start)>>
      BY <2>2, <3>1 DEF MoveTo
    <3> QED BY <3>2, <1>2, EventTypes
  <2>3. CASE ~(start = slot.position /\ Neighbors(slot.size, start) # {})
    <3>1. MoveTo(slot, aim[c][1]) = <<Move(start)>>
      BY <2>3 DEF MoveTo
    <3> QED BY <3>1, <1>2, EventTypes
  <2> QED BY <2>2, <2>3
<1>4. Clicks \in Seq(Event)
  <2>1. <<Down("button"), Up("button")>> \in Seq(Event)
    BY EventTypes DEF Keys
  <2> QED BY <2>1, RepeatType, PointerDeviceAssumption DEF Clicks
<1>5. DragTravel(slot, aim[c]) \in Seq(Event)
  <2> DEFINE n == DragStepCount(start, end)
             travel == [i \in 1..n |-> Move(DragPointAt(start, end, i, n))]
  <2>1. n \in Nat \ {0}
    BY <1>2, DragStepCountType
  <2>2. \A i \in 1..n : Move(DragPointAt(start, end, i, n)) \in Event
    BY <1>2, <2>1, DragPointType, EventTypes
  <2>3. travel \in Seq(Event)
    BY <2>1, <2>2
  <2>4. <<Down("button")>> \in Seq(Event) /\ <<Up("button")>> \in Seq(Event)
    BY EventTypes DEF Keys
  <2>5. DragTravel(slot, aim[c]) = <<Down("button")>> \o travel \o <<Up("button")>>
    BY DEF DragTravel
  <2> HIDE DEF travel
  <2> QED BY <2>3, <2>4, <2>5
<1>6. <<>> \in Seq(Event)
  OBVIOUS
<1> QED BY <1>3, <1>4, <1>5, <1>6 DEF Gesture, Travel

(* The ydotool commands are sequences of events.                           *)
LEMMA CommandTypes ==
  /\ HoldCommand \in Seq(Event) /\ UnholdCommand \in Seq(Event)
  /\ KeySequence \in Seq(Event) /\ Clicks \in Seq(Event)
<1>1. Len(Modifiers) \in Nat /\ \A i \in 1..Len(Modifiers) : Modifiers[i] \in Keys
  BY PointerDeviceAssumption DEF Keys
<1>2. \A i \in 1..Len(Modifiers) : Down(Modifiers[i]) \in Event /\ Up(Modifiers[i]) \in Event
  BY <1>1, EventTypes
<1>3. HoldCommand \in Seq(Event)
  BY <1>1, <1>2 DEF HoldCommand
<1>4. UnholdCommand \in Seq(Event)
  BY <1>1, <1>2 DEF UnholdCommand
<1>5. KeySequence \in Seq(Event)
  <2> DEFINE up == [i \in 1..Len(Modifiers) |-> Up(Backwards(Modifiers)[i])]
  <2>1. \A i \in 1..Len(Modifiers) : Backwards(Modifiers)[i] = Modifiers[Len(Modifiers) + 1 - i]
    BY <1>1 DEF Backwards
  <2>2. \A i \in 1..Len(Modifiers) : Len(Modifiers) + 1 - i \in 1..Len(Modifiers)
    BY <1>1
  <2>3. \A i \in 1..Len(Modifiers) : Up(Backwards(Modifiers)[i]) \in Event
    BY <2>1, <2>2, <1>2
  <2>4. up \in Seq(Event)
    BY <1>1, <2>3
  <2>5. <<Down("key"), Up("key")>> \in Seq(Event)
    BY EventTypes DEF Keys
  <2>6. KeySequence = HoldCommand \o <<Down("key"), Up("key")>> \o up
    BY DEF KeySequence
  <2> HIDE DEF up
  <2> QED BY <2>4, <2>5, <2>6, <1>3
<1>6. Clicks \in Seq(Event)
  <2>1. <<Down("button"), Up("button")>> \in Seq(Event)
    BY EventTypes DEF Keys
  <2> QED BY <2>1, RepeatType, PointerDeviceAssumption DEF Clicks
<1> QED BY <1>3, <1>4, <1>5, <1>6

(* A fallback is a sequence of commands, and so is what a failure leaves.  *)
LEMMA CommandsType ==
  ASSUME NEW c \in Call, aim[c] \in Point \X Point
  PROVE  Commands(c) \in Seq(Seq(Event)) /\ AfterFailure(c) \in Seq(Seq(Event))
<1>1. <<Move(aim[c][1])>> \in Seq(Event) /\ <<Move(aim[c][2])>> \in Seq(Event)
  BY EventTypes
<1>2. <<Down("button")>> \in Seq(Event) /\ <<Up("button")>> \in Seq(Event) /\ <<Wheel>> \in Seq(Event)
  BY EventTypes DEF Keys
<1>3. ClickCommands(aim[c]) \in Seq(Seq(Event))
  BY <1>1, CommandTypes DEF ClickCommands
<1>4. DragCommands(aim[c]) \in Seq(Seq(Event))
  BY <1>1, <1>2 DEF DragCommands
<1>5. Commands(c) \in Seq(Seq(Event))
  BY <1>1, <1>2, <1>3, <1>4, CommandTypes DEF Commands
<1>6. AfterFailure(c) \in Seq(Seq(Event))
  BY <1>2 DEF AfterFailure
<1> QED BY <1>5, <1>6

(* Presses are counted by natural numbers.                                 *)
LEMMA PressesType ==
  ASSUME NEW down, NEW events, NEW n \in Nat, DOMAIN events = 1..n
  PROVE  PressesIn(down, events) \in Nat
<1> DEFINE all == {i \in DOMAIN events : events[i] = Down("button")}
<1>1. IsFiniteSet(all)
  BY FS_Interval, FS_Subset
<1>2. Cardinality(all) \in Nat /\ (all # {} => Cardinality(all) # 0)
  BY <1>1, FS_CardinalityType, FS_EmptySet
<1>3. PressesIn(down, events) =
        IF all # {} /\ "button" \in down THEN Cardinality(all) - 1 ELSE Cardinality(all)
  BY DEF PressesIn
<1> HIDE DEF all
<1> QED BY <1>2, <1>3

-----------------------------------------------------------------------------
(* Type correctness, one actor's step at a time.                           *)
LEMMA JobTypes ==
  /\ NoJob \in Job
  /\ [on |-> "queue", todo |-> <<>>, ok |-> TRUE] \in Job
  /\ \A s \in Seq(Event) : [on |-> "thread", todo |-> s, ok |-> TRUE] \in Job
  /\ \A s \in Seq(Seq(Event)) : [on |-> "task", todo |-> s, ok |-> TRUE] \in Job
  BY DEF Job, NoJob

(* The points a state starts from.                                         *)
LEMMA PointTypes ==
  /\ NoAim \in Point \X Point /\ Elsewhere \in Point /\ <<0, 0>> \in Point
  /\ \A a \in Aims : a \in Point \X Point
  BY PointerDeviceAssumption DEF NoAim, Elsewhere, Point

(* The initial states are well formed, and every lock is free.             *)
LEMMA InitHolds == Init => TypeOK /\ LockInv
<1>1. Init => TypeOK
  <2> SUFFICES ASSUME Init PROVE TypeOK
    OBVIOUS
  <2>1. desktop \in Desktops /\ cursor \in Point /\ moved \in BOOLEAN
    BY PointTypes DEF Init
  <2>2. slot = NoDevice /\ mutex = Nobody /\ opLock = Nobody /\ ydDown = {} /\ broken = {}
    BY DEF Init
  <2>3. pc \in [Call -> Step] /\ kind \in [Call -> Kinds \cup {"none"}]
    BY DEF Init, Step
  <2>4. aim \in [Call -> Point \X Point] /\ job \in [Call -> Job]
    BY JobTypes, PointTypes DEF Init
  <2>5. capture \in [Call -> Desktops] /\ presses \in [Call -> Nat]
    BY <2>1 DEF Init
  <2>6. report \in [Call -> {"none", "abs", "ydotool", "failed"}]
    BY DEF Init
  <2> QED BY <2>1, <2>2, <2>3, <2>4, <2>5, <2>6 DEF TypeOK
<1>2. Init => LockInv
  BY PointerDeviceAssumption DEF Init, LockInv, HoldsLock, NoJob, NoDevice
<1> QED BY <1>1, <1>2

(* The steps of a call outside its thread and its task.                    *)
LEMMA CallKeepsType ==
  ASSUME TypeOK, NEW c \in Call,
         \/ Start(c) \/ Lock(c) \/ Hold(c) \/ Unhold(c) \/ Return(c)
         \/ Ensure(c) \/ Capture(c) \/ Create(c) \/ Store(c) \/ Landed(c)
         \/ Fallback(c) \/ Cancel(c)
  PROVE  TypeOK'
<1> USE JobTypes, PointTypes
    DEF Step, Goto, desktopVars, callVars, deviceVars, Unlocked, Fault, AfterInput
<1>1. CASE Start(c)
  <2>1. PICK k \in Kinds, a \in Aims :
          /\ kind' = [kind EXCEPT ![c] = k]
          /\ aim' = [aim EXCEPT ![c] = a]
          /\ Goto(c, IF k = "modDrag" THEN "hold" ELSE "lock")
    BY <1>1 DEF Start
  <2>2. a \in Point \X Point /\ k \in Kinds \cup {"none"}
    OBVIOUS
  <2> QED BY <1>1, <2>1, <2>2 DEF TypeOK, Start
<1>2. CASE Lock(c)
  BY <1>2 DEF TypeOK, Lock
<1>3. CASE Hold(c)
  BY <1>3 DEF TypeOK, Hold, Held
<1>4. CASE Unhold(c)
  BY <1>4 DEF TypeOK, Unhold, Held
<1>5. CASE Return(c)
  BY <1>5 DEF TypeOK, Return
<1>6. CASE Ensure(c)
  <2>1. CASE slot # NoDevice
    <3>1. Spawn(c)
      BY <1>6, <2>1 DEF Ensure
    <3>2. job' \in [Call -> Job]
      BY <3>1 DEF TypeOK, Spawn
    <3>3. pc' \in [Call -> Step]
      BY <3>1 DEF TypeOK, Spawn
    <3> QED BY <1>6, <3>2, <3>3 DEF TypeOK, Ensure
  <2>2. CASE slot = NoDevice
    BY <1>6, <2>2 DEF TypeOK, Ensure
  <2> QED BY <2>1, <2>2
<1>7. CASE Capture(c)
  <2>1. desktop \in Desktops
    BY DEF TypeOK
  <2>2. capture' \in [Call -> Desktops]
    BY <1>7, <2>1 DEF TypeOK, Capture
  <2>3. pc' \in [Call -> Step]
    BY <1>7 DEF TypeOK, Capture
  <2> QED BY <1>7, <2>2, <2>3 DEF TypeOK, Capture
<1>8. CASE Create(c)
  BY <1>8 DEF TypeOK, Create
<1>9. CASE Store(c)
  BY <1>9 DEF TypeOK, Store, Spawn
<1>10. CASE Landed(c)
  BY <1>10 DEF TypeOK, Landed
<1>11. CASE Fallback(c)
  <2>1. aim[c] \in Point \X Point
    BY DEF TypeOK
  <2>2. Commands(c) \in Seq(Seq(Event))
    BY <2>1, CommandsType
  <2> QED BY <1>11, <2>2 DEF TypeOK, Fallback
<1>12. CASE Cancel(c)
  BY <1>12 DEF TypeOK, Cancel, Held
<1> QED BY <1>1, <1>2, <1>3, <1>4, <1>5, <1>6, <1>7, <1>8, <1>9, <1>10, <1>11, <1>12

(* The steps of a thread and of a task.                                    *)
LEMMA JobKeepsType ==
  ASSUME TypeOK, LockInv, NEW c \in Call,
         \/ ThreadBegins(c) \/ ThreadEmits(c) \/ ThreadEnds(c)
         \/ CommandRuns(c) \/ CommandFails(c) \/ TaskEnds(c)
  PROVE  TypeOK'
<1> USE DEF Step, desktopVars, callVars, deviceVars, Goto
<1>1. job[c] \in Job /\ aim[c] \in Point \X Point
  BY DEF TypeOK
<1>2. job[c].on = "thread" => job[c].todo \in Seq(Event) /\ job[c].ok = TRUE
  BY <1>1 DEF Job
<1>3. job[c].on = "task" => job[c].todo \in Seq(Seq(Event)) /\ job[c].ok \in BOOLEAN
  BY <1>1 DEF Job
<1>4. job[c].on \in {"queue", "thread"} =>
        slot \in [size : Desktops, position : Point, down : BOOLEAN]
  BY DEF TypeOK, LockInv, NoDevice
<1>5. CASE ThreadBegins(c)
  <2>1. Gesture(c) \in Seq(Event)
    BY <1>1, <1>4, <1>5, GestureType DEF ThreadBegins
  <2>2. [on |-> "thread", todo |-> Gesture(c), ok |-> TRUE] \in Job
    BY <2>1 DEF Job
  <2> QED BY <1>5, <2>2 DEF TypeOK, ThreadBegins
<1>6. CASE ThreadEmits(c)
  <2> DEFINE e == Head(job[c].todo)
             rest == [job[c] EXCEPT !.todo = Tail(job[c].todo)]
  <2>1. e \in Event /\ Tail(job[c].todo) \in Seq(Event)
    BY <1>2, <1>6 DEF ThreadEmits
  <2>2. rest \in Job /\ job' = [job EXCEPT ![c] = rest]
    BY <1>1, <1>6, <2>1 DEF ThreadEmits, Job
  <2>3. slot \in [size : Desktops, position : Point, down : BOOLEAN]
    BY <1>4, <1>6 DEF ThreadEmits
  <2>4. slot' \in [size : Desktops, position : Point, down : BOOLEAN]
        /\ cursor' \in Point /\ moved' \in BOOLEAN /\ desktop' = desktop
        /\ presses' \in [Call -> Nat]
    <3>1. CASE e.do = "move"
      <4>1. e.at \in Point
        BY <2>1, <3>1 DEF Event, Wheel
      <4>2. Motion(c, e.at)
        BY <1>6, <3>1 DEF ThreadEmits
      <4>3. Lands(slot.size, e.at) \in Point
        <5>1. /\ e.at[1] \in Int /\ e.at[2] \in Int
              /\ desktop[1] \in Int /\ desktop[2] \in Int
              /\ slot.size[1] \in Nat \ {0} /\ slot.size[2] \in Nat \ {0}
          <6>1. desktop \in Desktops /\ slot.size \in Desktops
            BY <2>3 DEF TypeOK
          <6> QED BY <6>1, <4>1, PointerDeviceAssumption DEF Point
        <5>2. e.at[1] * desktop[1] \in Int /\ e.at[2] * desktop[2] \in Int
          BY <5>1
        <5>3. (e.at[1] * desktop[1]) \div slot.size[1] \in Int
              /\ (e.at[2] * desktop[2]) \div slot.size[2] \in Int
          BY <5>1, <5>2
        <5> QED BY <5>3 DEF Lands, Point
      <4> QED BY <2>3, <4>1, <4>2, <4>3 DEF TypeOK, Motion
    <3>2. CASE e.do # "move"
      <4>1. Button(c, e)
        BY <1>6, <3>2 DEF ThreadEmits
      <4> DEFINE b == e.do = "down"
                 more == IF e.do = "down" /\ ~slot.down THEN 1 ELSE 0
      <4>2. b \in BOOLEAN /\ slot' = [slot EXCEPT !.down = b]
        BY <4>1 DEF Button
      <4>3. more \in Nat /\ presses' = [presses EXCEPT ![c] = @ + more]
        BY <4>1 DEF Button
      <4>4. cursor' = cursor /\ moved' = moved /\ desktop' = desktop
        BY <4>1 DEF Button
      <4> HIDE DEF b, more
      <4>5. slot' \in [size : Desktops, position : Point, down : BOOLEAN]
        BY <2>3, <4>2
      <4>6. presses' \in [Call -> Nat]
        BY <4>3 DEF TypeOK
      <4> QED BY <4>4, <4>5, <4>6 DEF TypeOK
    <3> QED BY <3>1, <3>2
  <2> HIDE DEF rest
  <2>5. job' \in [Call -> Job]
    BY <2>2 DEF TypeOK
  <2>6. UNCHANGED <<mutex, ydDown, callVars, opLock, broken>>
    BY <1>6 DEF ThreadEmits
  <2> QED BY <2>4, <2>5, <2>6 DEF TypeOK
<1>7. CASE ThreadEnds(c)
  BY <1>7, ZenonT(30) DEF TypeOK, ThreadEnds, Job, NoJob, Fault
<1>8. ASSUME NEW events, Sends(c, events), NEW n \in Nat, DOMAIN events = 1..n
      PROVE  /\ desktop' = desktop /\ cursor' \in Point /\ moved' \in BOOLEAN
             /\ ydDown' \subseteq Keys /\ presses' \in [Call -> Nat]
  <2>1. PressesIn(ydDown, events) \in Nat
    BY <1>8, PressesType
  <2>2. presses' \in [Call -> Nat]
    BY <1>8, <2>1 DEF TypeOK, Sends
  <2>3. cursor' \in {cursor, Elsewhere} /\ moved' \in {moved, TRUE} /\ desktop' = desktop
    BY <1>8 DEF Sends
  <2>4. ydDown' \subseteq Keys
    BY <1>8 DEF Sends, Held
  <2> QED BY <2>2, <2>3, <2>4, PointTypes DEF TypeOK
<1>9. CASE CommandRuns(c)
  <2> DEFINE e == Head(job[c].todo)
             rest == [job[c] EXCEPT !.todo = Tail(job[c].todo)]
  <2>1. e \in Seq(Event) /\ Tail(job[c].todo) \in Seq(Seq(Event))
    BY <1>3, <1>9 DEF CommandRuns
  <2>2. rest \in Job /\ job' = [job EXCEPT ![c] = rest]
    BY <1>1, <1>3, <1>9, <2>1 DEF CommandRuns, Job
  <2>3. Len(e) \in Nat /\ DOMAIN e = 1..Len(e) /\ Sends(c, e)
    BY <1>9, <2>1 DEF CommandRuns
  <2> HIDE DEF rest, e
  <2>4. job' \in [Call -> Job]
    BY <2>2 DEF TypeOK
  <2>5. /\ desktop' = desktop /\ cursor' \in Point /\ moved' \in BOOLEAN
        /\ ydDown' \subseteq Keys /\ presses' \in [Call -> Nat]
    BY <1>8, <2>3
  <2>6. UNCHANGED <<slot, mutex, opLock, callVars, broken>>
    BY <1>9 DEF CommandRuns
  <2> QED BY <2>4, <2>5, <2>6 DEF TypeOK
<1>10. CASE CommandFails(c)
  <2> DEFINE e == Head(job[c].todo)
             rest == [job[c] EXCEPT !.todo = AfterFailure(c), !.ok = FALSE]
  <2>1. e \in Seq(Event) /\ AfterFailure(c) \in Seq(Seq(Event))
    BY <1>1, <1>3, <1>10, CommandsType DEF CommandFails
  <2>2. rest \in Job /\ job' = [job EXCEPT ![c] = rest]
    BY <1>1, <1>3, <1>10, <2>1 DEF CommandFails, Job
  <2>3. PICK n \in 0..Len(e) : Sends(c, SubSeq(e, 1, n))
    BY <1>10 DEF CommandFails
  <2>4. n \in Nat /\ DOMAIN SubSeq(e, 1, n) = 1..n
    BY <2>1, <2>3
  <2>5. Cause(c) \in Fault
    BY DEF Cause, Fault
  <2>6. broken' \subseteq Fault
    BY <1>10, <2>5 DEF TypeOK, CommandFails
  <2> HIDE DEF rest, e
  <2>7. job' \in [Call -> Job]
    BY <2>2 DEF TypeOK
  <2>8. /\ desktop' = desktop /\ cursor' \in Point /\ moved' \in BOOLEAN
        /\ ydDown' \subseteq Keys /\ presses' \in [Call -> Nat]
    BY <1>8, <2>3, <2>4
  <2>9. UNCHANGED <<slot, mutex, opLock, callVars>>
    BY <1>10 DEF CommandFails
  <2> QED BY <2>6, <2>7, <2>8, <2>9 DEF TypeOK
<1>11. CASE TaskEnds(c)
  BY <1>11 DEF TypeOK, TaskEnds, Job, NoJob, Unlocked, AfterInput
<1> QED BY <1>5, <1>6, <1>7, <1>9, <1>10, <1>11

(* Every step keeps the types.                                             *)
LEMMA TypeStep ==
  ASSUME TypeOK, LockInv, [Next]_vars
  PROVE  TypeOK'
<1>1. ASSUME NEW c \in Call, Proceeds(c) \/ Cancel(c) PROVE TypeOK'
  BY <1>1, CallKeepsType, JobKeepsType DEF Proceeds
<1>2. CASE Warp
  BY <1>2, PointTypes DEF TypeOK, Warp, deviceVars, callVars
<1>3. CASE Resize
  BY <1>3, PointTypes DEF TypeOK, Resize, deviceVars, callVars
<1>4. CASE UNCHANGED vars
  BY <1>4 DEF TypeOK, vars
<1> QED BY <1>1, <1>2, <1>3, <1>4 DEF Next

-----------------------------------------------------------------------------
(* The lock, the slot, the mutex and the jobs stay in step. Every step is  *)
(* one call's, and leaves the other calls' step, tool and job alone.       *)
LEMMA CallKeepsInv ==
  ASSUME TypeOK, LockInv, NEW c \in Call,
         \/ Start(c) \/ Lock(c) \/ Hold(c) \/ Unhold(c) \/ Return(c)
         \/ Ensure(c) \/ Capture(c) \/ Create(c) \/ Store(c) \/ Landed(c)
         \/ Fallback(c) \/ Cancel(c)
  PROVE  LockInv'
<1> USE PointerDeviceAssumption DEF Goto, desktopVars, callVars, deviceVars, NoJob, Unlocked,
      AfterInput, LockInv, HoldsLock
<1>1. pc \in [Call -> Step] /\ kind \in [Call -> Kinds \cup {"none"}] /\ job \in [Call -> Job]
  BY DEF TypeOK
<1> HIDE PointerDeviceAssumption
<1>2. CASE Start(c)
  BY <1>1, <1>2 DEF Start, Modified
<1>3. CASE Lock(c)
  BY <1>1, <1>3, PointerDeviceAssumption DEF Lock, Modified
<1>4. CASE Hold(c)
  <2>1. pc[c] = "hold" /\ UNCHANGED <<slot, mutex, kind, job>>
    BY <1>4 DEF Hold
  <2>2. \/ pc' = [pc EXCEPT ![c] = IF kind[c] = "modDrag" THEN "lock" ELSE "ensure"]
           /\ opLock' = opLock
        \/ pc' = [pc EXCEPT ![c] = "return"] /\ opLock' = Unlocked(c)
    BY <1>4 DEF Hold
  <2>3. kind[c] \in {"modClick", "modDrag"}
    BY <2>1 DEF Modified
  <2> QED BY <1>1, <2>1, <2>2, <2>3
<1>5. CASE Unhold(c)
  BY <1>1, <1>5 DEF Unhold
<1>6. CASE Return(c)
  BY <1>1, <1>6 DEF Return
<1>7. CASE Ensure(c)
  <2>1. pc[c] = "ensure" /\ job[c].on = "none" /\ UNCHANGED <<slot, mutex, kind, opLock>>
    BY <1>7 DEF Ensure
  <2>2. CASE slot # NoDevice
    <3>1. Spawn(c)
      BY <1>7, <2>2 DEF Ensure
    <3>2. slot.size # NoDevice.size
      <4>1. slot.size \in Desktops
        BY <2>2 DEF TypeOK
      <4> QED BY <4>1, PointerDeviceAssumption DEF NoDevice
    <3> QED BY <1>1, <2>1, <3>1, <3>2 DEF Spawn
  <2>3. CASE slot = NoDevice
    <3>1. pc' = [pc EXCEPT ![c] = "capture"] /\ job' = job
      BY <1>7, <2>3 DEF Ensure
    <3> QED BY <1>1, <2>1, <2>3, <3>1
  <2> QED BY <2>2, <2>3
<1>8. CASE Capture(c)
  BY <1>1, <1>8 DEF Capture
<1>9. CASE Create(c)
  BY <1>1, <1>9 DEF Create
<1>10. CASE Store(c)
  <2>1. /\ pc[c] = "store" /\ job[c].on = "none" /\ opLock = c
        /\ UNCHANGED <<mutex, kind, opLock>>
    BY <1>10 DEF Store
  <2>2. slot'.size # NoDevice.size
    <3>1. slot'.size = capture[c] /\ capture[c] \in Desktops
      BY <1>10 DEF Store, TypeOK
    <3> QED BY <3>1, PointerDeviceAssumption DEF NoDevice
  <2>3. \A d \in Call : pc'[d] \notin {"capture", "create", "store"}
    BY <1>1, <1>10, <2>1 DEF Store, Spawn
  <2>4. /\ pc' = [pc EXCEPT ![c] = "abs"]
        /\ job' = [job EXCEPT ![c] = [on |-> "queue", todo |-> <<>>, ok |-> TRUE]]
    BY <1>10 DEF Store, Spawn
  <2> QED BY <1>1, <2>1, <2>2, <2>3, <2>4
<1>11. CASE Landed(c)
  BY <1>1, <1>11 DEF Landed
<1>12. CASE Fallback(c)
  BY <1>1, <1>12 DEF Fallback
<1>13. CASE Cancel(c)
  BY <1>1, <1>13 DEF Cancel
<1> QED BY <1>2, <1>3, <1>4, <1>5, <1>6, <1>7, <1>8, <1>9, <1>10, <1>11, <1>12, <1>13

(* The steps of a thread and of a task.                                    *)
LEMMA JobKeepsInv ==
  ASSUME TypeOK, LockInv, NEW c \in Call,
         \/ ThreadBegins(c) \/ ThreadEmits(c) \/ ThreadEnds(c)
         \/ CommandRuns(c) \/ CommandFails(c) \/ TaskEnds(c)
  PROVE  LockInv'
<1> USE DEF Goto, desktopVars, callVars, deviceVars, NoJob, Unlocked, AfterInput, LockInv, HoldsLock
<1>1. pc \in [Call -> Step] /\ kind \in [Call -> Kinds \cup {"none"}] /\ job \in [Call -> Job]
  BY DEF TypeOK
<1>2. CASE ThreadBegins(c)
  BY <1>1, <1>2, PointerDeviceAssumption DEF ThreadBegins
<1>3. CASE ThreadEmits(c)
  <2>1. slot \in [size : Desktops, position : Point, down : BOOLEAN]
    BY <1>3 DEF TypeOK, ThreadEmits, NoDevice
  <2>2. slot'.size = slot.size
    BY <1>3, <2>1 DEF ThreadEmits, Motion, Button
  <2>3. \A d \in Call : job'[d].on = job[d].on
    BY <1>1, <1>3 DEF ThreadEmits, Job
  <2>4. UNCHANGED <<pc, kind, opLock, mutex>>
    BY <1>3 DEF ThreadEmits
  <2>5. \A d \in Call : pc[d] \notin {"capture", "create", "store"}
    BY <1>3 DEF ThreadEmits
  <2> QED BY <2>2, <2>3, <2>4, <2>5
<1>4. CASE ThreadEnds(c)
  BY <1>1, <1>4, PointerDeviceAssumption DEF ThreadEnds
<1>5. CASE CommandRuns(c)
  BY <1>1, <1>5 DEF CommandRuns
<1>6. CASE CommandFails(c)
  BY <1>1, <1>6 DEF CommandFails
<1>7. CASE TaskEnds(c)
  BY <1>1, <1>7 DEF TaskEnds
<1> QED BY <1>2, <1>3, <1>4, <1>5, <1>6, <1>7

(* Every step keeps locks, slot, mutex and jobs in step.                   *)
LEMMA InvStep ==
  ASSUME TypeOK, LockInv, [Next]_vars
  PROVE  LockInv'
<1>1. ASSUME NEW c \in Call, Proceeds(c) \/ Cancel(c) PROVE LockInv'
  BY <1>1, CallKeepsInv, JobKeepsInv DEF Proceeds
<1>2. CASE Warp
  BY <1>2 DEF LockInv, HoldsLock, Warp, deviceVars, callVars
<1>3. CASE Resize
  BY <1>3 DEF LockInv, HoldsLock, Resize, deviceVars, callVars
<1>4. CASE UNCHANGED vars
  BY <1>4 DEF LockInv, HoldsLock, vars
<1> QED BY <1>1, <1>2, <1>3, <1>4 DEF Next

(* A point is its own nearest one on the axis, and a product divides back. *)
LEMMA ProductDivides ==
  ASSUME NEW a \in Int, NEW w \in Nat \ {0}
  PROVE  (a * w) \div w = a
  OBVIOUS

(* A device of the desktop's size puts the pointer where its axes say.     *)
LEMMA LandsThere ==
  ASSUME NEW p \in Point, desktop \in Desktops
  PROVE  Lands(desktop, p) = p
<1>1. desktop[1] \in Nat \ {0} /\ desktop[2] \in Nat \ {0} /\ p[1] \in Int /\ p[2] \in Int
  BY PointerDeviceAssumption DEF Point
<1>2. p = <<p[1], p[2]>>
  BY DEF Point
<1> QED BY <1>1, <1>2, ProductDivides DEF Lands

(* Less than the whole of a distance does not make it whole.               *)
LEMMA PartOfDistance ==
  ASSUME NEW a \in Nat \ {0}, NEW n \in Nat \ {0}
  PROVE  (a * (n - 1)) \div n < a
  OBVIOUS

(* Rounded towards zero, a part of a distance is not the whole of it.      *)
LEMMA QuotientPart ==
  ASSUME NEW a \in Int, a # 0, NEW n \in Nat \ {0}
  PROVE  Quotient(a * (n - 1), n) # a
<1>1. CASE a > 0
  <2>1. a * (n - 1) >= 0
    BY <1>1
  <2> QED BY <1>1, <2>1, PartOfDistance DEF Quotient
<1>2. CASE a < 0
  <2>1. -(a * (n - 1)) = (-a) * (n - 1) /\ (-a) * (n - 1) >= 0 /\ -a \in Nat \ {0}
    BY <1>2
  <2>2. ((-a) * (n - 1)) \div n < -a
    BY <2>1, PartOfDistance
  <2>3. CASE a * (n - 1) < 0
    BY <2>1, <2>2, <2>3 DEF Quotient
  <2>4. CASE a * (n - 1) >= 0
    BY <1>2, <2>1, <2>4 DEF Quotient
  <2> QED BY <2>3, <2>4
<1> QED BY <1>1, <1>2

(* So the step before the last has not arrived on an axis that moves.      *)
LEMMA AxisPart ==
  ASSUME NEW a \in Int, NEW b \in Int, a # b, NEW n \in Nat \ {0}
  PROVE  a + Quotient((b - a) * (n - 1), n) # b
<1>1. PICK d \in Int : d = b - a
  OBVIOUS
<1>2. d # 0 /\ d * (n - 1) \in Int
  BY <1>1
<1>3. Quotient(d * (n - 1), n) # d /\ Quotient(d * (n - 1), n) \in Int
  BY <1>2, QuotientPart, QuotientType
<1> QED BY <1>1, <1>3

(* A drag starts from its start and ends at its end, and the step before   *)
(* the last is elsewhere.                                                  *)
LEMMA DragEnds ==
  ASSUME NEW s \in Point, NEW e \in Point, NEW n \in Nat \ {0}
  PROVE  /\ DragPointAt(s, e, 0, n) = s
         /\ \A i \in Nat : i >= n => DragPointAt(s, e, i, n) = e
         /\ s # e => DragPointAt(s, e, n - 1, n) # e
<1>1. /\ s[1] \in Int /\ s[2] \in Int /\ e[1] \in Int /\ e[2] \in Int
      /\ s = <<s[1], s[2]>> /\ e = <<e[1], e[2]>>
  BY DEF Point
<1>2. DragPointAt(s, e, 0, n) = s
  <2>1. (e[1] - s[1]) * 0 = 0 /\ (e[2] - s[2]) * 0 = 0
    BY <1>1
  <2>2. Quotient(0, n) = 0
    BY DEF Quotient
  <2> QED BY <1>1, <2>1, <2>2 DEF DragPointAt
<1>3. \A i \in Nat : i >= n => DragPointAt(s, e, i, n) = e
  BY DEF DragPointAt
<1>4. ASSUME s # e PROVE DragPointAt(s, e, n - 1, n) # e
  <2> DEFINE p == DragPointAt(s, e, n - 1, n)
  <2>1. p = <<s[1] + Quotient((e[1] - s[1]) * (n - 1), n),
              s[2] + Quotient((e[2] - s[2]) * (n - 1), n)>>
    BY DEF DragPointAt
  <2> HIDE DEF p
  <2>2. (e[1] - s[1]) * (n - 1) \in Int /\ (e[2] - s[2]) * (n - 1) \in Int
    BY <1>1
  <2>3. Quotient((e[1] - s[1]) * (n - 1), n) \in Int /\ Quotient((e[2] - s[2]) * (n - 1), n) \in Int
    BY <2>2, QuotientType
  <2>4. e[1] # s[1] \/ e[2] # s[2]
    BY <1>1, <1>4
  <2>5. CASE e[1] # s[1]
    <3>1. s[1] + Quotient((e[1] - s[1]) * (n - 1), n) # e[1]
      BY <1>1, <2>5, AxisPart
    <3> QED BY <1>1, <2>1, <3>1 DEF p
  <2>6. CASE e[2] # s[2]
    <3>1. s[2] + Quotient((e[2] - s[2]) * (n - 1), n) # e[2]
      BY <1>1, <2>6, AxisPart
    <3> QED BY <1>1, <2>1, <3>1 DEF p
  <2> QED BY <2>4, <2>5, <2>6 DEF p
<1> QED BY <1>2, <1>3, <1>4

(* A point has a neighbor but for a desktop of a single pixel, and is not  *)
(* its own.                                                                *)
LEMMA NeighborsApart ==
  ASSUME NEW size \in Desktops, NEW p \in Point
  PROVE  /\ p \notin Neighbors(size, p)
         /\ Neighbors(size, p) = {} => size = Single
<1>1. /\ size[1] \in Nat \ {0} /\ size[2] \in Nat \ {0} /\ size = <<size[1], size[2]>>
      /\ p[1] \in Int /\ p[2] \in Int
  BY PointerDeviceAssumption DEF Point
<1>2. p \notin Neighbors(size, p)
  BY <1>1 DEF Neighbors
<1>3. Neighbors(size, p) = {} => size[1] <= 1 /\ size[2] <= 1
  <2>1. \A x : {x} # {}
    OBVIOUS
  <2>2. size[1] > 1 => Neighbors(size, p) # {}
    BY <2>1 DEF Neighbors
  <2>3. ~(size[1] > 1) /\ size[2] > 1 => Neighbors(size, p) # {}
    BY <2>1 DEF Neighbors
  <2> QED BY <1>1, <2>2, <2>3
<1>4. size[1] <= 1 /\ size[2] <= 1 => size[1] = 1 /\ size[2] = 1
  BY <1>1
<1>5. size[1] = 1 /\ size[2] = 1 => size = Single
  BY <1>1 DEF Single
<1> QED BY <1>2, <1>3, <1>4, <1>5

(* Clicks are presses and releases in turn.                                *)
LEMMA ClicksShape ==
  /\ Clicks \in Seq(Event) /\ Len(Clicks) = 2 * ClickCount
  /\ \A i \in 1..(2 * ClickCount) :
       Clicks[i] = IF i % 2 = 1 THEN Down("button") ELSE Up("button")
<1> DEFINE pair == <<Down("button"), Up("button")>>
<1>1. ClickCount \in Nat \ {0}
  BY PointerDeviceAssumption
<1>2. Len(pair) = 2
  OBVIOUS
<1>3. Clicks = [i \in 1..(ClickCount * 2) |-> pair[((i - 1) % 2) + 1]]
  BY <1>2 DEF Clicks, Repeat
<1>4. ClickCount * 2 = 2 * ClickCount /\ 2 * ClickCount \in Nat
  BY <1>1
<1>5. ASSUME NEW i \in 1..(2 * ClickCount)
      PROVE  Clicks[i] = IF i % 2 = 1 THEN Down("button") ELSE Up("button")
  <2>1. Clicks[i] = pair[((i - 1) % 2) + 1]
    BY <1>3, <1>4
  <2>2. CASE i % 2 = 1
    <3>1. (i - 1) % 2 = 0
      BY <1>4, <2>2
    <3> QED BY <2>1, <2>2, <3>1
  <2>3. CASE i % 2 # 1
    <3>1. (i - 1) % 2 = 1
      BY <1>4, <2>3
    <3> QED BY <2>1, <2>3, <3>1
  <2> QED BY <2>2, <2>3
<1>6. Clicks \in Seq(Event)
  BY CommandTypes
<1>7. DOMAIN Clicks = 1..(2 * ClickCount)
  BY <1>3, <1>4
<1>8. Len(Clicks) = 2 * ClickCount
  BY <1>4, <1>6, <1>7
<1> QED BY <1>5, <1>6, <1>8

(* A drag presses, moves along its steps and releases.                     *)
LEMMA DragShape ==
  ASSUME NEW device, device.size \in Desktops, NEW a \in Point \X Point,
         NEW n, n = DragStepCount(Emitted(device.size, a[1]), Emitted(device.size, a[2]))
  PROVE  LET t == DragTravel(device, a)
         IN  /\ n \in Nat \ {0}
             /\ t \in Seq(Event) /\ Len(t) = n + 2
             /\ t[1] = Down("button") /\ t[n + 2] = Up("button")
             /\ \A i \in 2..(n + 1) :
                  t[i] = Move(DragPointAt(Emitted(device.size, a[1]),
                                          Emitted(device.size, a[2]), i - 1, n))
<1> DEFINE s == Emitted(device.size, a[1])
           e == Emitted(device.size, a[2])
           steps == [i \in 1..n |-> Move(DragPointAt(s, e, i, n))]
           t == DragTravel(device, a)
<1>1. s \in Point /\ e \in Point /\ n \in Nat \ {0}
  BY EmittedType, DragStepCountType
<1>2. \A i \in 1..n : Move(DragPointAt(s, e, i, n)) \in Event
  BY <1>1, DragPointType, EventTypes
<1>3. steps \in Seq(Event) /\ Len(steps) = n
  BY <1>1, <1>2
<1>4. \A i \in 1..n : steps[i] = Move(DragPointAt(s, e, i, n))
  OBVIOUS
<1>5. <<Down("button")>> \in Seq(Event) /\ <<Up("button")>> \in Seq(Event)
  BY EventTypes DEF Keys
<1>6. t = <<Down("button")>> \o steps \o <<Up("button")>>
  BY DEF DragTravel
<1> HIDE DEF s, e, steps, t
<1>7. t \in Seq(Event) /\ Len(t) = n + 2 /\ t[1] = Down("button") /\ t[n + 2] = Up("button")
      /\ \A i \in 2..(n + 1) : t[i] = steps[i - 1]
  BY <1>1, <1>3, <1>5, <1>6
<1>8. \A i \in 2..(n + 1) : i - 1 \in 1..n
  BY <1>1
<1>9. \A i \in 2..(n + 1) : t[i] = Move(DragPointAt(s, e, i - 1, n))
  BY <1>4, <1>7, <1>8
<1> QED BY <1>1, <1>7, <1>9 DEF s, e, t

(* What a gesture does once it is at its start.                            *)
Steps(c) == DragStepCount(Emitted(slot.size, aim[c][1]), Emitted(slot.size, aim[c][2]))

(* The events of a travel, one by one.                                     *)
LEMMA TravelShape ==
  ASSUME TypeOK, NEW c \in Call, slot.size \in Desktops
  PROVE  /\ Travel(c) \in Seq(Event)
         /\ Steps(c) \in Nat \ {0}
         /\ kind[c] = "scroll" => Len(Travel(c)) = 0
         /\ kind[c] \in Dragging =>
              /\ Len(Travel(c)) = Steps(c) + 2
              /\ Travel(c)[1] = Down("button") /\ Travel(c)[Steps(c) + 2] = Up("button")
              /\ \A i \in 2..(Steps(c) + 1) :
                   Travel(c)[i] = Move(DragPointAt(Emitted(slot.size, aim[c][1]),
                                                   Emitted(slot.size, aim[c][2]), i - 1, Steps(c)))
         /\ kind[c] # "scroll" /\ kind[c] \notin Dragging =>
              /\ Len(Travel(c)) = 2 * ClickCount
              /\ \A i \in 1..(2 * ClickCount) :
                   Travel(c)[i] = IF i % 2 = 1 THEN Down("button") ELSE Up("button")
<1>1. aim[c] \in Point \X Point
  BY DEF TypeOK
<1>2. Emitted(slot.size, aim[c][1]) \in Point /\ Emitted(slot.size, aim[c][2]) \in Point
  BY <1>1, EmittedType
<1>3. Steps(c) \in Nat \ {0}
  BY <1>2, DragStepCountType DEF Steps
<1>4. CASE kind[c] = "scroll"
  <2>1. Travel(c) = <<>>
    BY <1>4 DEF Travel
  <2> QED BY <1>3, <1>4, <2>1 DEF Dragging
<1>5. CASE kind[c] \in Dragging
  <2>1. Travel(c) = DragTravel(slot, aim[c]) /\ kind[c] # "scroll"
    BY <1>5 DEF Travel, Dragging
  <2>2. /\ DragTravel(slot, aim[c]) \in Seq(Event)
        /\ Len(DragTravel(slot, aim[c])) = Steps(c) + 2
        /\ DragTravel(slot, aim[c])[1] = Down("button")
        /\ DragTravel(slot, aim[c])[Steps(c) + 2] = Up("button")
        /\ \A i \in 2..(Steps(c) + 1) :
             DragTravel(slot, aim[c])[i] =
               Move(DragPointAt(Emitted(slot.size, aim[c][1]),
                                Emitted(slot.size, aim[c][2]), i - 1, Steps(c)))
    BY <1>1, DragShape DEF Steps
  <2> QED BY <1>3, <1>5, <2>1, <2>2
<1>6. CASE kind[c] # "scroll" /\ kind[c] \notin Dragging
  <2>1. Travel(c) = Clicks
    BY <1>6 DEF Travel, Dragging
  <2> QED BY <1>3, <1>6, <2>1, ClicksShape
<1> QED BY <1>4, <1>5, <1>6

(* The travel depends on the call's tool and aim and on the device's size. *)
LEMMA TravelKept ==
  ASSUME NEW c \in Call, slot'.size = slot.size, kind'[c] = kind[c], aim'[c] = aim[c]
  PROVE  Travel(c)' = Travel(c) /\ Steps(c)' = Steps(c)
  BY DEF Travel, Steps, DragTravel

-----------------------------------------------------------------------------
(* Every step is one call's, and leaves the other calls alone.             *)
LEMMA OthersAlone ==
  ASSUME TypeOK, NEW c \in Call, Proceeds(c) \/ Cancel(c), NEW d \in Call \ {c}
  PROVE  /\ pc'[d] = pc[d] /\ kind'[d] = kind[d] /\ aim'[d] = aim[d]
         /\ job'[d] = job[d] /\ presses'[d] = presses[d] /\ report'[d] = report[d]
<1> USE DEF TypeOK, Goto, callVars, deviceVars
<1>1. CASE Start(c) \/ Lock(c) \/ Hold(c) \/ Unhold(c) \/ Return(c)
  BY <1>1 DEF Start, Lock, Hold, Unhold, Return
<1>2. CASE Ensure(c) \/ Capture(c) \/ Create(c) \/ Store(c)
  BY <1>2 DEF Ensure, Capture, Create, Store, Spawn
<1>3. CASE ThreadBegins(c) \/ ThreadEmits(c) \/ ThreadEnds(c) \/ Landed(c)
  BY <1>3 DEF ThreadBegins, ThreadEmits, ThreadEnds, Landed, Motion, Button
<1>4. CASE Fallback(c) \/ CommandRuns(c) \/ CommandFails(c) \/ TaskEnds(c) \/ Cancel(c)
  BY <1>4 DEF Fallback, CommandRuns, CommandFails, TaskEnds, Cancel, Sends
<1> QED BY <1>1, <1>2, <1>3, <1>4 DEF Proceeds

(* A step of a call that is not its thread's.                              *)
Aside(c) ==
  \/ Start(c) \/ Lock(c) \/ Hold(c) \/ Unhold(c) \/ Return(c)
  \/ Ensure(c) \/ Capture(c) \/ Create(c) \/ Store(c) \/ Landed(c)
  \/ Fallback(c) \/ CommandRuns(c) \/ CommandFails(c) \/ TaskEnds(c) \/ Cancel(c)

(* It leaves a thread and its device alone, and the pointer, or else it    *)
(* notes that the pointer was moved.                                       *)
LEMMA ThreadUndisturbed ==
  ASSUME TypeOK, LockInv, NEW c \in Call, Aside(c)
  PROVE  /\ mutex' = mutex /\ broken \subseteq broken'
         /\ slot' = slot \/ (slot = NoDevice /\ ~slot'.down)
         /\ moved' \/ UNCHANGED <<desktop, cursor, moved>>
         /\ \A d \in Call : job'[d].on = "thread" =>
              /\ job'[d] = job[d] /\ kind'[d] = kind[d] /\ aim'[d] = aim[d]
              /\ presses'[d] = presses[d] /\ slot' = slot
<1> USE DEF Goto, desktopVars, callVars, deviceVars
<1>1. mutex' = mutex /\ broken \subseteq broken'
  BY DEF Aside, Start, Lock, Hold, Unhold, Return, Ensure, Capture, Create, Store, Spawn,
     Landed, Fallback, CommandRuns, CommandFails, TaskEnds, Cancel
<1>2. slot' = slot \/ (slot = NoDevice /\ ~slot'.down)
  <2>1. CASE Store(c)
    BY <2>1 DEF Store, LockInv
  <2>2. CASE ~Store(c)
    BY <2>2 DEF Aside, Start, Lock, Hold, Unhold, Return, Ensure, Capture, Create,
       Landed, Fallback, CommandRuns, CommandFails, TaskEnds, Cancel
  <2> QED BY <2>1, <2>2
<1>3. moved' \/ UNCHANGED <<desktop, cursor, moved>>
  BY DEF Aside, Start, Lock, Hold, Unhold, Return, Ensure, Capture, Create, Store,
     Landed, Fallback, CommandRuns, CommandFails, TaskEnds, Cancel, Sends
<1>4. ASSUME NEW d \in Call, job'[d].on = "thread"
      PROVE  /\ job'[d] = job[d] /\ kind'[d] = kind[d] /\ aim'[d] = aim[d]
             /\ presses'[d] = presses[d] /\ slot' = slot
  <2>1. /\ job \in [Call -> Job] /\ pc \in [Call -> Step]
        /\ kind \in [Call -> Kinds \cup {"none"}] /\ aim \in [Call -> Point \X Point]
        /\ presses \in [Call -> Nat]
    BY DEF TypeOK
  <2>2. /\ job'[d] = job[d] /\ kind'[d] = kind[d] /\ aim'[d] = aim[d]
        /\ presses'[d] = presses[d]
    <3>1. CASE d # c
      <4>1. Proceeds(c) \/ Cancel(c)
        BY DEF Aside, Proceeds
      <4> QED BY <3>1, <4>1, OthersAlone
    <3>2. CASE d = c
      <4>1. CASE Start(c) \/ Return(c)
        <5>1. job'[c] = job[c] /\ (pc[c] = "idle" \/ job[c] = NoJob)
          BY <4>1 DEF Start, Return
        <5>2. job[c].on = "none"
          BY <5>1 DEF LockInv, NoJob
        <5> QED BY <1>4, <3>2, <5>1, <5>2
      <4>2. CASE Lock(c) \/ Hold(c) \/ Unhold(c) \/ Capture(c) \/ Create(c) \/ Landed(c)
                 \/ Cancel(c)
        BY <4>2 DEF Lock, Hold, Unhold, Capture, Create, Landed, Cancel
      <4>3. CASE Ensure(c) \/ Store(c) \/ Fallback(c) \/ TaskEnds(c)
        BY <1>4, <2>1, <3>2, <4>3 DEF Ensure, Store, Spawn, Fallback, TaskEnds, NoJob
      <4>4. CASE CommandRuns(c) \/ CommandFails(c)
        <5>1. job[c].on = "task" /\ job[c] \in Job
          BY <2>1, <4>4 DEF CommandRuns, CommandFails
        <5>2. CASE CommandRuns(c)
          <6>1. job'[c] = [job[c] EXCEPT !.todo = Tail(@)]
            BY <2>1, <5>2 DEF CommandRuns
          <6> QED BY <1>4, <3>2, <5>1, <6>1 DEF Job
        <5>3. CASE CommandFails(c)
          <6>1. job'[c] = [job[c] EXCEPT !.todo = AfterFailure(c), !.ok = FALSE]
            BY <2>1, <5>3 DEF CommandFails
          <6> QED BY <1>4, <3>2, <5>1, <6>1 DEF Job
        <5> QED BY <4>4, <5>2, <5>3
      <4> QED BY <4>1, <4>2, <4>3, <4>4 DEF Aside
    <3> QED BY <3>1, <3>2
  <2>3. slot' = slot
    BY <1>2, <1>4, <2>2 DEF LockInv
  <2> QED BY <2>2, <2>3
<1> QED BY <1>1, <1>2, <1>3, <1>4

(* What is left of a gesture does not change unless its thread steps.      *)
LEMMA AsideKeepsGesture ==
  ASSUME TypeOK, LockInv, GestureInv, ButtonInv,
         \/ \E c \in Call : Aside(c)
         \/ Warp \/ Resize \/ UNCHANGED vars
  PROVE  GestureInv' /\ ButtonInv'
<1>1. /\ mutex' = mutex /\ broken \subseteq broken'
      /\ slot' = slot \/ (slot = NoDevice /\ ~slot'.down)
      /\ moved' \/ UNCHANGED <<desktop, cursor, moved>>
      /\ \A d \in Call : job'[d].on = "thread" =>
           /\ job'[d] = job[d] /\ kind'[d] = kind[d] /\ aim'[d] = aim[d]
           /\ presses'[d] = presses[d] /\ slot' = slot
  <2>1. CASE \E c \in Call : Aside(c)
    BY <2>1, ThreadUndisturbed
  <2>2. CASE Warp \/ Resize \/ UNCHANGED vars
    BY <2>2 DEF Warp, Resize, vars, deviceVars, callVars
  <2> QED BY <2>1, <2>2
<1>2. ASSUME NEW d \in Call, job'[d].on = "thread"
      PROVE  /\ Travel(d)' = Travel(d) /\ job'[d] = job[d] /\ slot' = slot /\ job[d].on = "thread"
             /\ presses'[d] = presses[d] /\ kind'[d] = kind[d] /\ aim'[d] = aim[d]
  BY <1>1, <1>2, TravelKept
<1>3. ASSUME NEW d \in Call, job'[d].on = "thread" PROVE GestureLeft(d)'
  <2>1. GestureLeft(d)
    BY <1>2, <1>3 DEF GestureInv
  <2>2. CASE moved'
    BY <1>2, <1>3, <2>1, <2>2 DEF GestureLeft
  <2>3. CASE UNCHANGED <<desktop, cursor, moved>>
    BY <1>2, <1>3, <2>1, <2>3 DEF GestureLeft, Lands
  <2> QED BY <1>1, <2>2, <2>3
<1>4. GestureInv'
  BY <1>3 DEF GestureInv
<1>5. ButtonInv'
  <2>1. mutex' = Nobody /\ "abs" \notin broken' => ~slot'.down
    BY <1>1 DEF ButtonInv
  <2>2. ASSUME NEW d \in Call, job'[d].on = "thread" PROVE ButtonLeft(d)'
    BY <1>1, <1>2, <2>2 DEF ButtonInv, ButtonLeft
  <2> QED BY <2>1, <2>2 DEF ButtonInv
<1> QED BY <1>4, <1>5

(* A thread that is under way is alone with its device.                    *)
LEMMA ThreadAlone ==
  ASSUME TypeOK, LockInv, NEW c \in Call, job[c].on = "thread"
  PROVE  /\ mutex = c /\ \A d \in Call : job[d].on = "thread" => d = c
         /\ slot \in [size : Desktops, position : Point, down : BOOLEAN]
         /\ job[c].todo \in Seq(Event) /\ aim[c] \in Point \X Point
         /\ Emitted(slot.size, aim[c][1]) \in Point /\ Emitted(slot.size, aim[c][2]) \in Point
<1>1. mutex = c /\ \A d \in Call : job[d].on = "thread" => d = c
  BY DEF LockInv
<1>2. slot \in [size : Desktops, position : Point, down : BOOLEAN]
  BY DEF TypeOK, LockInv, NoDevice
<1>3. job[c] \in Job /\ aim[c] \in Point \X Point
  BY DEF TypeOK
<1>4. job[c].todo \in Seq(Event)
  BY <1>3 DEF Job
<1>5. Emitted(slot.size, aim[c][1]) \in Point /\ Emitted(slot.size, aim[c][2]) \in Point
  BY <1>2, <1>3, EmittedType
<1> QED BY <1>1, <1>2, <1>3, <1>4, <1>5

(* What the next event of a thread is: a motion towards the start, or the  *)
(* event of the travel that is its turn.                                   *)
LEMMA NextEvent ==
  ASSUME TypeOK, LockInv, GestureInv, NEW c \in Call, ThreadEmits(c)
  PROVE  LET todo   == job[c].todo
             before == Len(todo) - Len(Travel(c))
         IN  /\ todo[1] \in Event /\ Len(todo) \in Nat /\ Len(todo) >= 1
             /\ Len(Travel(c)) \in Nat
             /\ IF todo[1].do = "move" THEN Motion(c, todo[1].at) ELSE Button(c, todo[1])
             /\ before <= 0 => /\ 1 - before \in 1..Len(Travel(c))
                               /\ todo[1] = Travel(c)[1 - before]
             /\ before > 0 => todo[1].do = "move"
             /\ job'[c].on = "thread" /\ Len(job'[c].todo) = Len(todo) - 1
             /\ \A i \in 1..(Len(todo) - 1) : job'[c].todo[i] = todo[i + 1]
             /\ UNCHANGED <<mutex, ydDown, pc, kind, aim, capture, report, opLock, broken, desktop>>
             /\ slot'.size = slot.size
<1> DEFINE todo   == job[c].todo
           before == Len(todo) - Len(Travel(c))
<1>1. /\ job[c].on = "thread" /\ todo # <<>>
      /\ UNCHANGED <<mutex, ydDown, pc, kind, aim, capture, report, opLock, broken>>
  BY DEF ThreadEmits, callVars
<1>2. GestureLeft(c) /\ todo \in Seq(Event)
      /\ slot \in [size : Desktops, position : Point, down : BOOLEAN]
  BY <1>1, ThreadAlone DEF GestureInv
<1>3. Travel(c) \in Seq(Event)
  BY <1>2, TravelShape
<1>4. todo[1] = Head(todo) /\ todo[1] \in Event /\ Len(todo) \in Nat /\ Len(todo) >= 1
      /\ Len(Travel(c)) \in Nat /\ DOMAIN todo = 1..Len(todo)
  BY <1>1, <1>2, <1>3
<1>5. IF todo[1].do = "move" THEN Motion(c, todo[1].at) ELSE Button(c, todo[1])
  BY <1>4 DEF ThreadEmits
<1>6. before <= 0 => 1 - before \in 1..Len(Travel(c)) /\ todo[1] = Travel(c)[1 - before]
  <2> SUFFICES ASSUME before <= 0 PROVE 1 - before \in 1..Len(Travel(c)) /\ todo[1] = Travel(c)[1 - before]
    OBVIOUS
  <2>1. 1 \in DOMAIN todo /\ 1 > before /\ before \in Int
    BY <1>4
  <2>2. todo[1] = Travel(c)[1 - before]
    BY <1>2, <2>1 DEF GestureLeft
  <2>3. 1 - before \in Nat /\ 1 <= 1 - before /\ 1 - before <= Len(Travel(c))
    BY <1>4
  <2>4. 1 - before \in 1..Len(Travel(c))
    BY <1>4, <2>3
  <2> QED BY <2>2, <2>4
<1>7. before > 0 => todo[1].do = "move"
  <2>1. before <= 2 /\ before \in Int
    BY <1>2, <1>4 DEF GestureLeft
  <2> QED BY <1>2, <1>4, <2>1 DEF GestureLeft, Move
<1>8. job'[c] = [job[c] EXCEPT !.todo = Tail(todo)] /\ job[c] \in Job
  BY DEF ThreadEmits, TypeOK
<1>9. job'[c].on = "thread" /\ job'[c].todo = Tail(todo)
  BY <1>1, <1>8 DEF Job
<1>10. Len(Tail(todo)) = Len(todo) - 1 /\ \A i \in 1..(Len(todo) - 1) : Tail(todo)[i] = todo[i + 1]
  BY <1>1, <1>2
<1>11. slot'.size = slot.size /\ desktop' = desktop
  BY <1>2, <1>5 DEF Motion, Button, desktopVars
<1> HIDE DEF todo, before
<1>12. Len(job'[c].todo) = Len(todo) - 1 /\ \A i \in 1..(Len(todo) - 1) : job'[c].todo[i] = todo[i + 1]
  BY <1>9, <1>10
<1> QED BY <1>1, <1>4, <1>5, <1>6, <1>7, <1>9, <1>11, <1>12 DEF todo, before

(* Whatever it sends, the rest is the end of its gesture, and the device   *)
(* and the cursor are where that begins.                                   *)
LEMMA EmitsKeepsGesture ==
  ASSUME TypeOK, LockInv, GestureInv, NEW c \in Call, ThreadEmits(c)
  PROVE  GestureInv'
<1> DEFINE todo   == job[c].todo
           travel == Travel(c)
           before == Len(todo) - Len(travel)
           start  == Emitted(slot.size, aim[c][1])
           end    == Emitted(slot.size, aim[c][2])
           n      == Steps(c)
<1>1. /\ todo[1] \in Event /\ Len(todo) \in Nat /\ Len(todo) >= 1 /\ Len(travel) \in Nat
      /\ IF todo[1].do = "move" THEN Motion(c, todo[1].at) ELSE Button(c, todo[1])
      /\ before <= 0 => 1 - before \in 1..Len(travel) /\ todo[1] = travel[1 - before]
      /\ before > 0 => todo[1].do = "move"
      /\ job'[c].on = "thread" /\ Len(job'[c].todo) = Len(todo) - 1
      /\ \A i \in 1..(Len(todo) - 1) : job'[c].todo[i] = todo[i + 1]
      /\ UNCHANGED <<mutex, kind, aim, desktop>>
      /\ slot'.size = slot.size
  BY NextEvent
<1>2. /\ job[c].on = "thread"
      /\ slot \in [size : Desktops, position : Point, down : BOOLEAN]
      /\ todo \in Seq(Event) /\ start \in Point /\ end \in Point
      /\ \A d \in Call : job[d].on = "thread" => d = c
  BY ThreadAlone DEF ThreadEmits
<1>3. GestureLeft(c)
  BY <1>2 DEF GestureInv
<1>4. Travel(c)' = travel /\ Emitted(slot.size, aim[c][1])' = start
      /\ Emitted(slot.size, aim[c][2])' = end
  BY <1>1, TravelKept
<1>5. /\ travel \in Seq(Event) /\ n \in Nat \ {0}
      /\ kind[c] = "scroll" => Len(travel) = 0
      /\ kind[c] \in Dragging =>
           /\ Len(travel) = n + 2
           /\ travel[1] = Down("button") /\ travel[n + 2] = Up("button")
           /\ \A i \in 2..(n + 1) : travel[i] = Move(DragPointAt(start, end, i - 1, n))
      /\ kind[c] # "scroll" /\ kind[c] \notin Dragging =>
           /\ Len(travel) = 2 * ClickCount
           /\ \A i \in 1..(2 * ClickCount) :
                travel[i] = IF i % 2 = 1 THEN Down("button") ELSE Up("button")
  BY <1>2, TravelShape
<1>6. ASSUME NEW d \in Call, job'[d].on = "thread" PROVE d = c
  <2>1. CASE d # c
    <3>1. job'[d] = job[d]
      BY <2>1 DEF ThreadEmits, TypeOK
    <3> QED BY <1>2, <1>6, <3>1
  <2> QED BY <2>1
<1>7. Len(job'[c].todo) - Len(travel) = before - 1 /\ before \in Int /\ before <= 2
  BY <1>1, <1>3 DEF GestureLeft
<1>8. /\ \A i \in DOMAIN todo : i > before => todo[i] = travel[i - before]
      /\ before = 2 => todo[1].do = "move" /\ todo[1].at # start /\ todo[2] = Move(start)
      /\ before = 1 => todo[1] = Move(start) /\ (slot.position # start \/ slot.size = Single)
      /\ before <= 0 => slot.position =
           IF before < 0 /\ kind[c] \in Dragging
             THEN DragPointAt(start, end, -before - 1, Len(travel) - 2)
             ELSE start
      /\ /\ before = 0 \/ (before < 0 /\ kind[c] \notin Dragging)
              \/ (before < 0 /\ Len(todo) <= 1 /\ start # end)
         /\ ~moved /\ slot.size # Single
         => cursor = Lands(slot.size, slot.position)
  BY <1>3 DEF GestureLeft
<1> DEFINE after == before - 1
           rest  == job'[c].todo
<1>9. job' \in [Call -> Job]
  BY TypeStep DEF TypeOK, Next, Proceeds
<1>10. DOMAIN rest = 1..(Len(todo) - 1)
  <2>1. rest \in Seq(Event)
    BY <1>1, <1>9 DEF Job
  <2> QED BY <1>1, <2>1
<1>11. \A i \in DOMAIN rest : i > after => rest[i] = travel[i - after]
  <2> SUFFICES ASSUME NEW i \in DOMAIN rest, i > after PROVE rest[i] = travel[i - after]
    OBVIOUS
  <2>0. i \in 1..(Len(todo) - 1) /\ DOMAIN todo = 1..Len(todo)
    BY <1>2, <1>10
  <2>1. rest[i] = todo[i + 1] /\ i + 1 \in DOMAIN todo
    BY <1>1, <2>0, SMTT(30)
  <2>3. i + 1 > before
    BY <1>7, <2>0
  <2>2. (i + 1) - before = i - after
    BY <1>7, <1>10
  <2> QED BY <1>8, <2>1, <2>2, <2>3
<1>13. after = 1 => rest[1] = Move(start) /\ (slot'.position # start \/ slot'.size = Single)
  <2> SUFFICES ASSUME after = 1
               PROVE  rest[1] = Move(start) /\ slot'.position # start
    OBVIOUS
  <2>1. before = 2 /\ Len(todo) >= 2
    BY <1>1, <1>7
  <2>2. rest[1] = todo[2]
    BY <1>1, <2>1
  <2>3. slot'.position = todo[1].at
    BY <1>1, <1>2, <1>8, <2>1 DEF Motion
  <2> QED BY <1>8, <2>1, <2>2, <2>3
<1>14. ASSUME before = 1
       PROVE  /\ slot'.position = start
              /\ slot'.size # Single => cursor' = Lands(slot.size, start)
  <2>1. Motion(c, start)
    BY <1>1, <1>8, <1>14 DEF Move
  <2>2. slot'.position = start
        /\ cursor' = IF start = slot.position THEN cursor ELSE Lands(slot.size, start)
    BY <1>2, <2>1 DEF Motion
  <2> QED BY <1>1, <1>8, <1>14, <2>2
<1>15. ASSUME before <= 0
       PROVE  /\ slot'.position =
                   IF kind[c] \in Dragging THEN DragPointAt(start, end, -before, Len(travel) - 2)
                   ELSE start
              /\ /\ kind[c] \notin Dragging \/ (Len(rest) <= 1 /\ start # end)
                 /\ ~moved' /\ slot'.size # Single
                 => cursor' = Lands(slot.size, slot'.position)
  <2>1. CASE kind[c] = "scroll"
    <3>1. FALSE
      BY <1>1, <1>5, <1>15, <2>1
    <3> QED BY <3>1
  <2>2. CASE kind[c] # "scroll" /\ kind[c] \notin Dragging
    <3>1. todo[1] \in {Down("button"), Up("button")}
      BY <1>1, <1>5, <1>15, <2>2
    <3>2. Button(c, todo[1])
      BY <1>1, <3>1 DEF Down, Up
    <3>3. slot'.position = slot.position /\ cursor' = cursor /\ moved' = moved
      BY <1>2, <3>2 DEF Button, desktopVars
    <3>4. slot.position = start
      BY <1>8, <1>15, <2>2
    <3>5. before = 0 \/ before < 0
      BY <1>7, <1>15
    <3>6. ~moved /\ slot.size # Single => cursor = Lands(slot.size, slot.position)
      BY <1>8, <2>2, <3>5
    <3> QED BY <1>1, <2>2, <3>3, <3>4, <3>6
  <2>3. CASE kind[c] \in Dragging
    <3> DEFINE k == 1 - before
    <3>1. Len(travel) = n + 2 /\ Len(travel) - 2 = n
      BY <1>5, <2>3
    <3>2. k \in 1..(n + 2) /\ todo[1] = travel[k]
      BY <1>1, <1>15, <3>1
    <3>3. k \in Nat /\ k - 1 = -before /\ before = 1 - k
      BY <1>7, <1>15
    <3>4. Len(rest) = n + 2 - k /\ Len(todo) = n + 3 - k
      <4>1. Len(rest) = Len(todo) - 1 /\ Len(todo) \in Nat
        BY <1>1
      <4>2. Len(rest) - (n + 2) = before - 1
        BY <1>7, <3>1
      <4>3. n \in Nat
        BY <1>5
      <4> HIDE DEF k, n, todo, travel, before, start, end, rest, after
      <4> QED BY <1>7, <3>3, <4>1, <4>2, <4>3
    <3>7. before < 0 => slot.position = DragPointAt(start, end, -before - 1, n)
      <4> HIDE DEF k, n, todo, travel, before, start, end, rest, after
      <4>1. before < 0 => before <= 0
        BY <1>7
      <4>2. before < 0 => slot.position = DragPointAt(start, end, -before - 1, Len(travel) - 2)
        BY <1>8, <2>3, <4>1
      <4> QED BY <3>1, <4>2
    <3> HIDE DEF k, n, todo, travel, before, start, end, rest, after
    <3>5. /\ DragPointAt(start, end, 0, n) = start
          /\ \A i \in Nat : i >= n => DragPointAt(start, end, i, n) = end
          /\ start # end => DragPointAt(start, end, n - 1, n) # end
      BY <1>2, <1>5, DragEnds
    <3>6. slot'.position = DragPointAt(start, end, k - 1, n)
          /\ (Len(rest) <= 1 /\ start # end /\ ~moved' /\ slot'.size # Single =>
                cursor' = Lands(slot.size, slot'.position))
      <4>1. CASE k = 1
        <5>1. Button(c, todo[1])
          BY <1>1, <1>5, <2>3, <3>2, <4>1 DEF Down
        <5>2. slot'.position = slot.position
          BY <1>2, <5>1 DEF Button
        <5>3. before = 0 /\ k - 1 = 0
          BY <3>3, <4>1
        <5>4. Len(rest) > 1
          BY <1>5, <3>4, <4>1
        <5>5. slot.position = start
          BY <1>8, <5>3
        <5> QED BY <1>1, <3>4, <3>5, <5>2, <5>3, <5>4, <5>5
      <4>2. CASE k \in 2..(n + 1)
        <5> DEFINE p == DragPointAt(start, end, k - 1, n)
        <5>1. todo[1] = Move(p)
          BY <1>5, <2>3, <3>2, <4>2
        <5> HIDE DEF p
        <5>2. Motion(c, p)
          BY <1>1, <5>1 DEF Move
        <5>3. slot'.position = p
              /\ cursor' = IF p = slot.position THEN cursor ELSE Lands(slot.size, p)
          BY <1>2, <5>2 DEF Motion
        <5>4. ASSUME Len(rest) <= 1, start # end PROVE p # slot.position
          <6>1. k >= n + 1 /\ k <= n + 1
            BY <1>5, <3>3, <3>4, <4>2, <5>4
          <6>2. k - 1 = n /\ -before - 1 = n - 1 /\ before < 0
            BY <1>5, <3>3, <6>1
          <6>3. n \in Nat /\ n >= n
            BY <1>5
          <6>4. p = end
            BY <3>5, <6>2, <6>3 DEF p
          <6>5. slot.position = DragPointAt(start, end, n - 1, n)
            BY <3>7, <6>2
          <6> QED BY <3>5, <5>4, <6>4, <6>5
        <5> QED BY <5>3, <5>4 DEF p
      <4>3. CASE k = n + 2
        <5>1. Button(c, todo[1])
          BY <1>1, <1>5, <2>3, <3>2, <4>3 DEF Up
        <5>2. slot'.position = slot.position /\ cursor' = cursor /\ moved' = moved
          BY <1>2, <5>1 DEF Button, desktopVars
        <5>3. before < 0 /\ -before - 1 = n
          BY <1>5, <3>3, <4>3
        <5>4. k - 1 = n + 1 /\ n + 1 \in Nat /\ n + 1 >= n /\ n \in Nat /\ n >= n
          BY <1>5, <4>3
        <5>5. Len(todo) <= 1
          BY <1>5, <3>3, <3>4, <4>3
        <5>6. slot.position = DragPointAt(start, end, n, n)
          BY <3>7, <5>3
        <5>7. slot.position = end /\ DragPointAt(start, end, k - 1, n) = end
          BY <3>5, <5>4, <5>6
        <5>8. start # end /\ ~moved /\ slot.size # Single => cursor = Lands(slot.size, slot.position)
          BY <1>8, <5>3, <5>5
        <5> QED BY <1>1, <5>2, <5>7, <5>8
      <4>4. k = 1 \/ k \in 2..(n + 1) \/ k = n + 2
        BY <1>5, <3>2
      <4> QED BY <4>1, <4>2, <4>3, <4>4
    <3> QED BY <2>3, <3>1, <3>3, <3>6
  <2> QED BY <2>1, <2>2, <2>3
<1>16. GestureLeft(c)'
  <2>1. after <= 2 /\ after # 2 /\ Len(rest) - Len(travel) = after
    BY <1>7
  <2>2. after = 1 => before = 2
    BY <1>7
  <2>3. after = 0 <=> before = 1
    BY <1>7
  <2>4. after < 0 <=> before <= 0
    BY <1>7
  <2>5. after <= 0 <=> before <= 0 \/ before = 1
    BY <1>7
  <2>6. -after - 1 = -before
    BY <1>7
  <2> HIDE DEF todo, travel, before, start, end, n, after
  <2>8. after <= 0 => slot'.position =
           IF after < 0 /\ kind[c] \in Dragging
             THEN DragPointAt(start, end, -after - 1, Len(travel) - 2)
             ELSE start
    <3>1. CASE before = 1
      BY <1>14, <2>3, <2>4, <2>5, <3>1
    <3>2. CASE before <= 0
      BY <1>15, <2>4, <2>6, <3>2
    <3> QED BY <2>5, <3>1, <3>2
  <2>9. /\ after = 0 \/ (after < 0 /\ kind[c] \notin Dragging)
              \/ (after < 0 /\ Len(rest) <= 1 /\ start # end)
        /\ ~moved' /\ slot'.size # Single
        => cursor' = Lands(slot.size, slot'.position)
    BY <1>14, <1>15, <2>3, <2>4
  <2>10. Lands(slot.size, slot.position)' = Lands(slot.size, slot'.position)
    BY <1>1 DEF Lands
  <2>11. kind'[c] = kind[c] /\ after # 2
    BY <1>1, <2>1
  <2> QED BY <1>4, <1>11, <1>13, <2>1, <2>8, <2>9, <2>10, <2>11 DEF GestureLeft, rest
<1> QED BY <1>6, <1>16 DEF GestureInv

(* What is left of a click goes down by one pair at every second event.    *)
LEMMA Halves ==
  ASSUME NEW n \in Nat, NEW k \in 1..(2 * n)
  PROVE  /\ k % 2 = 1 => (2 * n - k + 1) \div 2 = (2 * n - k) \div 2 + 1
         /\ k % 2 # 1 => (2 * n - k + 1) \div 2 = (2 * n - k) \div 2
  OBVIOUS

(* The button is down after a press until the release, and pressed once    *)
(* for each pair of a click that is gone.                                  *)
LEMMA EmitsKeepsButton ==
  ASSUME TypeOK, LockInv, GestureInv, ButtonInv, NEW c \in Call, ThreadEmits(c)
  PROVE  ButtonInv'
<1> DEFINE todo   == job[c].todo
           travel == Travel(c)
           left   == Len(todo)
           all    == Len(travel)
           before == left - all
           k      == 1 - before
           n      == Steps(c)
           more   == IF job[c].todo[1].do = "down" /\ ~slot.down THEN 1 ELSE 0
<1>1. /\ todo[1] \in Event /\ left \in Nat /\ left >= 1 /\ all \in Nat
      /\ IF todo[1].do = "move" THEN Motion(c, todo[1].at) ELSE Button(c, todo[1])
      /\ before <= 0 => k \in 1..all /\ todo[1] = travel[k]
      /\ before > 0 => todo[1].do = "move"
      /\ job'[c].on = "thread" /\ Len(job'[c].todo) = left - 1
      /\ UNCHANGED <<mutex, kind, aim, broken>>
      /\ slot'.size = slot.size
  BY NextEvent
<1>2. /\ job[c].on = "thread" /\ mutex = c /\ mutex # Nobody
      /\ slot \in [size : Desktops, position : Point, down : BOOLEAN]
      /\ \A d \in Call : job[d].on = "thread" => d = c
      /\ c # Nobody
  BY ThreadAlone, PointerDeviceAssumption DEF ThreadEmits
<1>3. Travel(c)' = travel
  BY <1>1, TravelKept
<1>4. /\ n \in Nat \ {0}
      /\ kind[c] = "scroll" => all = 0
      /\ kind[c] \in Dragging =>
           /\ all = n + 2
           /\ travel[1] = Down("button") /\ travel[n + 2] = Up("button")
           /\ \A i \in 2..(n + 1) : travel[i].do = "move"
      /\ kind[c] # "scroll" /\ kind[c] \notin Dragging =>
           /\ all = 2 * ClickCount
           /\ \A i \in 1..(2 * ClickCount) :
                travel[i] = IF i % 2 = 1 THEN Down("button") ELSE Up("button")
  <2>1. n \in Nat \ {0}
    BY <1>2, TravelShape
  <2>2. kind[c] = "scroll" => all = 0
    BY <1>2, TravelShape
  <2>3. kind[c] \in Dragging =>
           /\ all = n + 2
           /\ travel[1] = Down("button") /\ travel[n + 2] = Up("button")
           /\ \A i \in 2..(n + 1) :
                travel[i] = Move(DragPointAt(Emitted(slot.size, aim[c][1]),
                                             Emitted(slot.size, aim[c][2]), i - 1, n))
    BY <1>2, TravelShape
  <2>4. \A p : Move(p).do = "move"
    BY DEF Move
  <2>5. kind[c] # "scroll" /\ kind[c] \notin Dragging =>
           /\ all = 2 * ClickCount
           /\ \A i \in 1..(2 * ClickCount) :
                travel[i] = IF i % 2 = 1 THEN Down("button") ELSE Up("button")
    BY <1>2, TravelShape
  <2> QED BY <2>1, <2>2, <2>3, <2>4, <2>5
<1>5. ASSUME NEW d \in Call, job'[d].on = "thread" PROVE d = c
  <2>1. CASE d # c
    <3>1. job'[d] = job[d]
      BY <2>1 DEF ThreadEmits, TypeOK
    <3> QED BY <1>2, <1>5, <3>1
  <2> QED BY <2>1
<1>6. /\ left < all => (slot.down <=> travel[all - left].do # "up")
      /\ left >= all /\ "abs" \notin broken => ~slot.down
      /\ kind[c] \in Clicking =>
           LET pairs == IF left < all THEN ClickCount - (left \div 2) ELSE 0
           IN  presses[c] <= pairs /\ ("abs" \notin broken => presses[c] = pairs)
  BY <1>2 DEF ButtonInv, ButtonLeft
<1>7. /\ todo[1].do = "move" => slot'.down = slot.down /\ presses'[c] = presses[c]
      /\ todo[1].do # "move" => /\ slot'.down <=> todo[1].do = "down"
                                /\ presses'[c] = presses[c] + more
  <2>1. presses \in [Call -> Nat]
    BY DEF TypeOK
  <2>2. CASE todo[1].do = "move"
    BY <1>1, <1>2, <2>1, <2>2 DEF Motion
  <2>3. CASE todo[1].do # "move"
    <3>1. slot' = [slot EXCEPT !.down = (todo[1].do = "down")]
          /\ presses' = [presses EXCEPT ![c] = @ + more]
      BY <1>1, <2>3 DEF Button
    <3> HIDE DEF todo, more, left, all, before, k
    <3>2. slot'.down <=> todo[1].do = "down"
      BY <1>2, <3>1
    <3>3. presses'[c] = presses[c] + more
      BY <2>1, <3>1
    <3> QED BY <2>3, <3>2, <3>3
  <2> QED BY <2>2, <2>3
<1>11. /\ left \in Nat /\ all \in Nat /\ before \in Int /\ k \in Int
       /\ before = left - all /\ k = 1 - before /\ left = all - k + 1
  BY <1>1
<1> HIDE DEF left, all, k, travel, todo, n, before
<1>12. ASSUME /\ left - 1 < all => (slot'.down <=> travel[all - (left - 1)].do # "up")
              /\ left - 1 >= all /\ "abs" \notin broken => ~slot'.down
              /\ kind[c] \in Clicking =>
                   LET pairs == IF left - 1 < all THEN ClickCount - ((left - 1) \div 2) ELSE 0
                   IN  presses'[c] <= pairs /\ ("abs" \notin broken => presses'[c] = pairs)
       PROVE  ButtonInv'
  <2>1. Len(job'[c].todo) = left - 1 /\ Len(Travel(c)') = all /\ Travel(c)' = travel
    BY <1>1, <1>3 DEF all
  <2>2. mutex' # Nobody /\ broken' = broken /\ kind' = kind
    BY <1>1, <1>2
  <2>3. ButtonLeft(c)'
    BY <1>12, <2>1, <2>2 DEF ButtonLeft
  <2> QED BY <1>5, <2>2, <2>3 DEF ButtonInv
<1>8. CASE before > 0
  <2>1. left >= all /\ left - 1 >= all /\ ~(left - 1 < all)
    BY <1>8, <1>11
  <2>2. slot'.down = slot.down /\ presses'[c] = presses[c]
    BY <1>1, <1>7, <1>8
  <2>3. "abs" \notin broken => ~slot'.down
    BY <1>6, <2>1, <2>2
  <2>4. ASSUME kind[c] \in Clicking
        PROVE  presses'[c] <= 0 /\ ("abs" \notin broken => presses'[c] = 0)
    <3>1. ~(left < all)
      BY <1>11, <2>1
    <3> QED BY <1>6, <2>2, <2>4, <3>1
  <2> QED BY <1>12, <2>1, <2>3, <2>4
<1>9. CASE before <= 0
  <2>1. k \in 1..all /\ todo[1] = travel[k] /\ kind[c] # "scroll"
    <3>1. k \in 1..all /\ todo[1] = travel[k]
      BY <1>1, <1>9
    <3>2. all # 0
      BY <3>1
    <3> QED BY <1>4, <3>1, <3>2
  <2>2. left - 1 < all /\ all - (left - 1) = k
    BY <1>9, <1>11
  <2>3. k # 1 => left < all /\ all - left = k - 1
    BY <1>9, <1>11
  <2>4. slot'.down <=> travel[k].do # "up"
    <3>1. CASE kind[c] \in Dragging
      <4>1. CASE k \in 2..(n + 1)
        <5>1. k # 1 /\ k - 1 \in 1..n
          BY <1>4, <1>11, <4>1
        <5>2. travel[k - 1].do # "up"
          <6>1. k - 1 = 1 \/ k - 1 \in 2..(n + 1)
            BY <1>4, <1>11, <5>1
          <6> QED BY <1>4, <3>1, <6>1 DEF Down
        <5>3. slot.down
          BY <1>6, <2>3, <5>1, <5>2
        <5>4. travel[k].do = "move"
          BY <1>4, <3>1, <4>1
        <5> QED BY <1>7, <2>1, <5>3, <5>4
      <4>2. CASE k = 1
        BY <1>4, <1>7, <2>1, <3>1, <4>2 DEF Down
      <4>3. CASE k = n + 2
        BY <1>4, <1>7, <2>1, <3>1, <4>3 DEF Up
      <4>4. k \in 1..(n + 2)
        BY <1>4, <2>1, <3>1
      <4>5. k = 1 \/ k \in 2..(n + 1) \/ k = n + 2
        BY <1>4, <4>4
      <4> QED BY <4>1, <4>2, <4>3, <4>5
    <3>2. CASE kind[c] \notin Dragging
      <4>1. travel[k] \in {Down("button"), Up("button")}
        BY <1>4, <2>1, <3>2
      <4> QED BY <1>7, <2>1, <4>1 DEF Down, Up
    <3> QED BY <3>1, <3>2
  <2>5. ASSUME kind[c] \in Clicking
        PROVE  LET pairs == ClickCount - ((left - 1) \div 2)
               IN  presses'[c] <= pairs /\ ("abs" \notin broken => presses'[c] = pairs)
    <3>1. kind[c] # "scroll" /\ kind[c] \notin Dragging
      BY <2>5 DEF Clicking, Dragging
    <3>2. all = 2 * ClickCount /\ travel[k] = IF k % 2 = 1 THEN Down("button") ELSE Up("button")
      BY <1>4, <2>1, <3>1
    <3>3. ClickCount \in Nat \ {0} /\ presses[c] \in Nat
      BY PointerDeviceAssumption DEF TypeOK
    <3>4. left = 2 * ClickCount - k + 1 /\ left - 1 = 2 * ClickCount - k /\ k \in 1..(2 * ClickCount)
      BY <1>11, <2>1, <3>2, <3>3
    <3> DEFINE h == left \div 2
               h1 == (left - 1) \div 2
    <3>5. k % 2 = 1 => h = h1 + 1
      BY <3>3, <3>4, Halves
    <3>6. k % 2 # 1 => h = h1
      BY <3>3, <3>4, Halves
    <3>7. h \in Int /\ h1 \in Int
      BY <1>11
    <3>8. k = 1 => h = ClickCount
      BY <3>3, <3>4
    <3>9. presses[c] <= ClickCount - h /\ ("abs" \notin broken => presses[c] = ClickCount - h)
      <4>1. CASE k = 1
        <5>1. ~(left < all)
          BY <1>11, <4>1
        <5>2. presses[c] <= 0 /\ ("abs" \notin broken => presses[c] = 0)
          BY <1>6, <2>5, <5>1
        <5> QED BY <3>3, <3>8, <4>1, <5>2
      <4>2. CASE k # 1
        BY <1>6, <2>3, <2>5, <4>2
      <4> QED BY <4>1, <4>2
    <3> HIDE DEF h, h1
    <3>10. CASE k % 2 = 1
      <4>1. travel[k].do = "down"
        BY <3>2, <3>10 DEF Down
      <4>2. presses'[c] = presses[c] + more
        BY <1>7, <2>1, <4>1
      <4>3. more \in {0, 1}
        OBVIOUS
      <4>4. "abs" \notin broken => ~slot.down
        <5>1. CASE k = 1
          <6>1. left >= all
            BY <1>11, <5>1
          <6> QED BY <1>6, <6>1
        <5>2. CASE k # 1
          <6>1. k - 1 \in 1..(2 * ClickCount) /\ (k - 1) % 2 # 1
            BY <3>3, <3>4, <3>10, <5>2
          <6>2. travel[k - 1] = Up("button")
            BY <1>4, <3>1, <6>1
          <6> QED BY <1>6, <2>3, <5>2, <6>2 DEF Up
        <5> QED BY <5>1, <5>2
      <4>5. "abs" \notin broken => more = 1
        BY <2>1, <4>1, <4>4 DEF todo
      <4> HIDE DEF more
      <4>6. h = h1 + 1
        BY <3>5, <3>10
      <4> QED BY <3>3, <3>7, <3>9, <4>2, <4>3, <4>5, <4>6 DEF h1
    <3>11. CASE k % 2 # 1
      <4>1. travel[k].do = "up"
        BY <3>2, <3>11 DEF Up
      <4>2. presses'[c] = presses[c] + more /\ more = 0
        BY <1>7, <2>1, <4>1 DEF todo
      <4> QED BY <3>3, <3>6, <3>9, <3>11, <4>2 DEF h1
    <3> QED BY <3>10, <3>11
  <2>6. ~(left - 1 >= all)
    BY <1>11, <2>2
  <2> QED BY <1>12, <2>2, <2>4, <2>5, <2>6
<1>10. before > 0 \/ before <= 0
  BY <1>11
<1> QED BY <1>8, <1>9, <1>10

(* The way to the start: a motion, or two for a device that is there.      *)
LEMMA MoveToShape ==
  ASSUME slot \in [size : Desktops, position : Point, down : BOOLEAN], NEW p \in Point
  PROVE  LET m     == MoveTo(slot, p)
             start == Emitted(slot.size, p)
         IN  /\ m \in Seq(Event) /\ Len(m) \in {1, 2}
             /\ Len(m) = 2 => m[1].do = "move" /\ m[1].at # start /\ m[2] = Move(start)
             /\ Len(m) = 1 => m[1] = Move(start) /\ (slot.position # start \/ slot.size = Single)
<1> DEFINE start == Emitted(slot.size, p)
<1>1. start \in Point /\ slot.size \in Desktops
  BY EmittedType
<1>2. Neighbors(slot.size, start) \subseteq Point /\ start \notin Neighbors(slot.size, start)
      /\ (Neighbors(slot.size, start) = {} => slot.size = Single)
  BY <1>1, NeighborsType, NeighborsApart
<1>3. CASE start = slot.position /\ Neighbors(slot.size, start) # {}
  <2>1. PICK n \in Neighbors(slot.size, start) : n = (CHOOSE x \in Neighbors(slot.size, start) : TRUE)
    BY <1>3
  <2>2. MoveTo(slot, p) = <<Move(n), Move(start)>>
    BY <1>3, <2>1 DEF MoveTo
  <2>3. n \in Point /\ n # start
    BY <1>2
  <2>4. <<Move(n), Move(start)>> \in Seq(Event)
    BY <1>1, <2>3, EventTypes
  <2>5. Move(n).do = "move" /\ Move(n).at = n
    BY DEF Move
  <2> HIDE DEF start
  <2> QED BY <2>2, <2>3, <2>4, <2>5 DEF start
<1>4. CASE ~(start = slot.position /\ Neighbors(slot.size, start) # {})
  <2>1. MoveTo(slot, p) = <<Move(start)>>
    BY <1>4 DEF MoveTo
  <2>2. <<Move(start)>> \in Seq(Event)
    BY <1>1, EventTypes
  <2>3. slot.position # start \/ slot.size = Single
    BY <1>2, <1>4
  <2> HIDE DEF start
  <2> QED BY <2>1, <2>2, <2>3 DEF start
<1> QED BY <1>3, <1>4

(* A thread that begins has its whole gesture before it, with the button   *)
(* up and not pressed yet.                                                 *)
LEMMA BeginsKeepsGesture ==
  ASSUME TypeOK, LockInv, GestureInv, ButtonInv, CountInv, NEW c \in Call, ThreadBegins(c)
  PROVE  GestureInv' /\ ButtonInv'
<1> DEFINE m      == MoveTo(slot, aim[c][1])
           travel == Travel(c)
           start  == Emitted(slot.size, aim[c][1])
           todo   == job'[c].todo
<1>1. /\ job[c].on = "queue" /\ mutex = Nobody /\ mutex' = c /\ c # Nobody
      /\ UNCHANGED <<slot, kind, aim, broken, presses>>
      /\ job' = [job EXCEPT ![c] = [on |-> "thread", todo |-> Gesture(c), ok |-> TRUE]]
  BY PointerDeviceAssumption DEF ThreadBegins, callVars
<1>2. /\ slot \in [size : Desktops, position : Point, down : BOOLEAN]
      /\ aim[c] \in Point \X Point /\ aim[c][1] \in Point
      /\ job \in [Call -> Job]
  BY <1>1 DEF TypeOK, LockInv, NoDevice
<1>3. Travel(c)' = travel /\ Emitted(slot.size, aim[c][1])' = start
  BY <1>1, TravelKept
<1>4. /\ m \in Seq(Event) /\ Len(m) \in {1, 2}
      /\ Len(m) = 2 => m[1].do = "move" /\ m[1].at # start /\ m[2] = Move(start)
      /\ Len(m) = 1 => m[1] = Move(start) /\ (slot.position # start \/ slot.size = Single)
  BY <1>2, MoveToShape
<1>5. travel \in Seq(Event)
  BY <1>2, TravelShape
<1>6. todo = m \o travel
  BY <1>1, <1>2 DEF Gesture
<1>7. \A d \in Call : job'[d].on = "thread" => d = c
  BY <1>1, <1>2, PointerDeviceAssumption DEF LockInv
<1> HIDE DEF m, travel, start, todo
<1>8. /\ Len(todo) - Len(travel) = Len(m) /\ Len(todo) >= Len(travel)
      /\ Len(todo) \in Nat /\ Len(travel) \in Nat
      /\ \A i \in DOMAIN todo : i > Len(m) => todo[i] = travel[i - Len(m)]
      /\ todo[1] = m[1] /\ (Len(m) = 2 => todo[2] = m[2])
  BY <1>4, <1>5, <1>6
<1>9. GestureLeft(c)'
  <2>1. Len(m) <= 2 /\ ~(Len(m) <= 0) /\ Len(m) # 0 /\ ~(Len(m) < 0)
    <3>1. \A l \in {1, 2} : l <= 2 /\ ~(l <= 0) /\ l # 0 /\ ~(l < 0)
      OBVIOUS
    <3> QED BY <1>4, <3>1
  <2> QED BY <1>1, <1>3, <1>4, <1>8, <2>1 DEF GestureLeft, todo, start, travel
<1>10. ButtonLeft(c)'
  <2>1. "abs" \notin broken => ~slot.down
    BY <1>1 DEF ButtonInv
  <2>2. presses[c] = 0
    BY <1>1 DEF CountInv, Counted
  <2>3. ~(Len(todo) < Len(travel))
    BY <1>8
  <2> QED BY <1>1, <1>3, <2>1, <2>2, <2>3 DEF ButtonLeft, todo, travel
<1> QED BY <1>1, <1>7, <1>9, <1>10 DEF GestureInv, ButtonInv

(* A thread that has sent its gesture leaves the button up.                *)
LEMMA TravelEnds ==
  ASSUME TypeOK, NEW c \in Call, slot.size \in Desktops, Len(Travel(c)) # 0
  PROVE  Travel(c)[Len(Travel(c))] = Up("button")
<1>1. CASE kind[c] = "scroll"
  BY <1>1, TravelShape
<1>2. CASE kind[c] \in Dragging
  BY <1>2, TravelShape
<1>3. CASE kind[c] # "scroll" /\ kind[c] \notin Dragging
  <2>1. 2 * ClickCount \in 1..(2 * ClickCount) /\ (2 * ClickCount) % 2 # 1
    BY PointerDeviceAssumption
  <2> QED BY <1>3, <2>1, TravelShape
<1> QED BY <1>1, <1>2, <1>3

(* A thread that ends leaves the button up, unless an event failed.        *)
LEMMA EndsKeepsGesture ==
  ASSUME TypeOK, LockInv, GestureInv, ButtonInv, NEW c \in Call, ThreadEnds(c)
  PROVE  GestureInv' /\ ButtonInv'
<1>1. /\ job[c].on = "thread" /\ mutex' = Nobody /\ slot' = slot
      /\ job' = [job EXCEPT ![c] = NoJob]
      /\ job[c].todo = <<>> \/ "abs" \in broken'
      /\ broken \subseteq broken'
  BY DEF ThreadEnds
<1>2. job \in [Call -> Job] /\ slot.size \in Desktops
      /\ \A d \in Call : job[d].on = "thread" => d = c
  BY <1>1, ThreadAlone DEF TypeOK
<1>3. \A d \in Call : job'[d].on # "thread"
  BY <1>1, <1>2 DEF NoJob
<1>4. ASSUME "abs" \notin broken' PROVE ~slot.down
  <2>1. Len(job[c].todo) = 0 /\ ButtonLeft(c) /\ "abs" \notin broken
    BY <1>1, <1>4 DEF ButtonInv
  <2>2. Travel(c) \in Seq(Event)
    BY <1>2, TravelShape
  <2>3. CASE Len(Travel(c)) = 0
    <3>1. Len(job[c].todo) >= Len(Travel(c))
      BY <2>1, <2>3
    <3> QED BY <2>1, <3>1 DEF ButtonLeft
  <2>4. CASE Len(Travel(c)) # 0
    <3>1. Travel(c)[Len(Travel(c))].do = "up"
      BY <1>2, <2>4, TravelEnds DEF Up
    <3>2. Len(job[c].todo) < Len(Travel(c)) /\ Len(Travel(c)) - Len(job[c].todo) = Len(Travel(c))
      BY <2>1, <2>2, <2>4
    <3> QED BY <2>1, <3>1, <3>2 DEF ButtonLeft
  <2> QED BY <2>3, <2>4
<1> QED BY <1>1, <1>3, <1>4 DEF GestureInv, ButtonInv

(* So every step keeps what a thread has left, and the button.             *)
LEMMA GestureStep ==
  ASSUME TypeOK, LockInv, GestureInv, ButtonInv, CountInv, [Next]_vars
  PROVE  GestureInv' /\ ButtonInv'
<1>1. CASE \E c \in Call : Aside(c)
  BY <1>1, AsideKeepsGesture
<1>2. CASE Warp \/ Resize \/ UNCHANGED vars
  BY <1>2, AsideKeepsGesture
<1>3. ASSUME NEW c \in Call, ThreadBegins(c) \/ ThreadEmits(c) \/ ThreadEnds(c)
      PROVE  GestureInv' /\ ButtonInv'
  BY <1>3, BeginsKeepsGesture, EmitsKeepsGesture, EmitsKeepsButton, EndsKeepsGesture
<1> QED BY <1>1, <1>2, <1>3 DEF Next, Proceeds, Aside

(* A step that neither starts nor runs a task leaves every task alone.     *)
LEMMA TaskUndisturbed ==
  ASSUME TypeOK, LockInv, NEW c \in Call, Proceeds(c) \/ Cancel(c),
         NEW d \in Call, job'[d].on = "task",
         d = c => ~Fallback(c) /\ ~CommandRuns(c) /\ ~CommandFails(c)
  PROVE  /\ job[d].on = "task" /\ job'[d] = job[d] /\ kind'[d] = kind[d] /\ aim'[d] = aim[d]
         /\ report'[d] = report[d]
<1> USE DEF Goto, callVars, deviceVars
<1>1. /\ job \in [Call -> Job] /\ pc \in [Call -> Step]
      /\ kind \in [Call -> Kinds \cup {"none"}] /\ aim \in [Call -> Point \X Point]
      /\ report \in [Call -> {"none", "abs", "ydotool", "failed"}]
  BY DEF TypeOK
<1>2. CASE d # c
  BY <1>2, OthersAlone
<1>3. CASE d = c
  <2>1. CASE Start(c) \/ Return(c)
    BY <1>1, <1>3, <2>1 DEF Start, Return, LockInv, NoJob
  <2>2. CASE Lock(c) \/ Unhold(c) \/ Capture(c) \/ Create(c) \/ Cancel(c)
    BY <1>3, <2>2 DEF Lock, Unhold, Capture, Create, Cancel
  <2>3. CASE Hold(c) \/ Landed(c)
    BY <1>3, <2>3 DEF Hold, Landed, LockInv
  <2>4. CASE Ensure(c)
    <3>1. CASE slot # NoDevice
      BY <1>1, <1>3, <2>4, <3>1 DEF Ensure, Spawn
    <3>2. CASE slot = NoDevice
      BY <1>3, <2>4, <3>2 DEF Ensure
    <3> QED BY <3>1, <3>2
  <2>5. CASE Store(c)
    BY <1>1, <1>3, <2>5 DEF Store, Spawn
  <2>6. CASE TaskEnds(c) \/ ThreadBegins(c) \/ ThreadEnds(c)
    BY <1>1, <1>3, <2>6 DEF TaskEnds, ThreadBegins, ThreadEnds, NoJob
  <2>7. CASE ThreadEmits(c)
    <3>1. job[c].on = "thread" /\ job[c] \in Job
      BY <1>1, <2>7 DEF ThreadEmits
    <3>2. job'[c] = [job[c] EXCEPT !.todo = Tail(job[c].todo)]
      BY <1>1, <2>7 DEF ThreadEmits
    <3> QED BY <1>3, <3>1, <3>2 DEF Job
  <2> QED BY <1>3, <2>1, <2>2, <2>3, <2>4, <2>5, <2>6, <2>7 DEF Proceeds
<1> QED BY <1>2, <1>3

(* The commands of the fallbacks, one by one.                              *)
LEMMA CommandsShape ==
  ASSUME TypeOK, NEW c \in Call
  PROVE  /\ Len(Commands(c)) \in Nat \ {0} /\ Commands(c) \in Seq(Seq(Event))
         /\ kind[c] \in Dragging =>
              /\ Len(Commands(c)) = 4
              /\ Commands(c)[1] = <<Move(aim[c][1])>> /\ Commands(c)[2] = <<Down("button")>>
              /\ Commands(c)[3] = <<Move(aim[c][2])>> /\ Commands(c)[4] = <<Up("button")>>
         /\ kind[c] = "chord" => Len(Commands(c)) = 1 /\ Commands(c)[1] = KeySequence
         /\ kind[c] = "scroll" =>
              /\ Len(Commands(c)) <= 2
              /\ \A i \in 1..Len(Commands(c)) : Commands(c)[i] \in {<<Wheel>>, <<Move(aim[c][1])>>}
         /\ kind[c] \notin Dragging \cup {"chord", "scroll"} =>
              /\ Len(Commands(c)) = 2
              /\ Commands(c)[1] = <<Move(aim[c][1])>> /\ Commands(c)[2] = Clicks
<1>1. Commands(c) \in Seq(Seq(Event))
  BY CommandsType DEF TypeOK
<1>2. CASE kind[c] \in Dragging
  <2>1. Commands(c) = DragCommands(aim[c]) /\ kind[c] \notin {"chord", "scroll"}
    BY <1>2 DEF Commands, Dragging
  <2> QED BY <1>1, <1>2, <2>1 DEF DragCommands
<1>3. CASE kind[c] = "chord"
  <2>1. Commands(c) = <<KeySequence>> /\ kind[c] \notin Dragging
    BY <1>3 DEF Commands, Dragging
  <2> QED BY <1>1, <1>3, <2>1
<1>4. CASE kind[c] = "scroll"
  <2>1. kind[c] \notin Dragging
    BY <1>4 DEF Dragging
  <2>2. Commands(c) = << <<Wheel>> >> \/ Commands(c) = << <<Move(aim[c][1])>>, <<Wheel>> >>
    BY <1>4 DEF Commands
  <2>3. CASE Commands(c) = << <<Wheel>> >>
    BY <1>1, <1>4, <2>1, <2>3
  <2>4. CASE Commands(c) = << <<Move(aim[c][1])>>, <<Wheel>> >>
    BY <1>1, <1>4, <2>1, <2>4
  <2> QED BY <2>2, <2>3, <2>4
<1>5. CASE kind[c] \notin Dragging \cup {"chord", "scroll"}
  <2>1. Commands(c) = ClickCommands(aim[c])
    BY <1>5 DEF Commands, Dragging
  <2> QED BY <1>1, <1>5, <2>1 DEF ClickCommands
<1> QED BY <1>2, <1>3, <1>4, <1>5

(* A task has the end of its commands to run.                              *)
LEMMA TaskStep ==
  ASSUME TypeOK, LockInv, TaskInv, [Next]_vars
  PROVE  TaskInv'
<1> DEFINE Last(t, all) == Len(t) <= Len(all) /\ \A i \in 1..Len(t) : t[i] = all[Len(all) - Len(t) + i]
<1>1. ASSUME NEW d \in Call, job'[d].on = "task" PROVE Last(job[d].todo, Commands(d))'
  <2>1. CASE Warp \/ Resize \/ UNCHANGED vars
    <3>1. job' = job /\ kind' = kind /\ aim' = aim /\ report' = report
      BY <2>1 DEF Warp, Resize, vars, callVars
    <3>2. Commands(d)' = Commands(d)
      BY <3>1 DEF Commands
    <3>3. Last(job[d].todo, Commands(d))
      BY <1>1, <3>1 DEF TaskInv
    <3> QED BY <3>1, <3>2, <3>3
  <2>2. ASSUME NEW c \in Call, Proceeds(c) \/ Cancel(c) PROVE Last(job[d].todo, Commands(d))'
    <3>1. CASE d = c => ~Fallback(c) /\ ~CommandRuns(c) /\ ~CommandFails(c)
      <4>1. /\ job[d].on = "task" /\ job'[d] = job[d] /\ kind'[d] = kind[d] /\ aim'[d] = aim[d]
            /\ report'[d] = report[d]
        BY <1>1, <2>2, <3>1, TaskUndisturbed
      <4>2. Commands(d)' = Commands(d)
        BY <4>1 DEF Commands
      <4>3. Last(job[d].todo, Commands(d))
        BY <4>1 DEF TaskInv
      <4> QED BY <4>1, <4>2, <4>3
    <3>2. CASE d = c /\ Fallback(c)
      <4>1. job'[c].todo = Commands(c) /\ kind' = kind /\ aim' = aim /\ report' = report
        BY <3>2 DEF Fallback, TypeOK
      <4>2. Commands(c)' = Commands(c)
        BY <4>1 DEF Commands
      <4>3. Commands(c) \in Seq(Seq(Event))
        BY CommandsShape
      <4> QED BY <3>2, <4>1, <4>2, <4>3
    <3>3. CASE d = c /\ (CommandRuns(c) \/ CommandFails(c))
      <4>1. /\ job[c].on = "task" /\ job[c].todo # <<>> /\ job[c] \in Job /\ job \in [Call -> Job]
            /\ kind' = kind /\ aim' = aim /\ report' = report
        BY <3>3 DEF CommandRuns, CommandFails, callVars, TypeOK
      <4>2. Commands(c)' = Commands(c)
        BY <4>1 DEF Commands
      <4>3. Commands(c) \in Seq(Seq(Event)) /\ job[c].todo \in Seq(Seq(Event))
        BY <4>1, CommandsShape DEF Job
      <4>4. Last(job[c].todo, Commands(c))
        BY <4>1 DEF TaskInv
      <4>5. CASE CommandRuns(c)
        <5>1. job'[c] = [job[c] EXCEPT !.todo = Tail(job[c].todo)]
          BY <4>1, <4>5 DEF CommandRuns
        <5>2. job'[c].todo = Tail(job[c].todo)
          BY <4>1, <5>1 DEF Job
        <5> DEFINE t == job[c].todo
                   all == Commands(c)
        <5>3. Len(Tail(t)) = Len(t) - 1 /\ (\A i \in 1..(Len(t) - 1) : Tail(t)[i] = t[i + 1])
              /\ Len(t) \in Nat /\ Len(all) \in Nat
          BY <4>1, <4>3
        <5> HIDE DEF t, all
        <5>4. Len(t) <= Len(all) /\ \A i \in 1..Len(t) : t[i] = all[Len(all) - Len(t) + i]
          BY <4>4 DEF t, all
        <5>5. Len(Tail(t)) <= Len(all)
          BY <5>3, <5>4
        <5>6. ASSUME NEW i \in 1..Len(Tail(t)) PROVE Tail(t)[i] = all[Len(all) - Len(Tail(t)) + i]
          <6>1. i \in 1..(Len(t) - 1) /\ i + 1 \in 1..Len(t) /\ i \in Int
            BY <5>3
          <6>2. \A a, b \in Nat : a - b + (i + 1) = a - (b - 1) + i
            BY <6>1
          <6>3. Len(all) - Len(t) + (i + 1) = Len(all) - Len(Tail(t)) + i
            BY <5>3, <6>2
          <6> QED BY <5>3, <5>4, <6>1, <6>3
        <5> QED BY <3>3, <4>2, <5>2, <5>5, <5>6 DEF t, all
      <4>6. CASE CommandFails(c)
        <5>1. job'[c] = [job[c] EXCEPT !.todo = AfterFailure(c), !.ok = FALSE]
          BY <4>1, <4>6 DEF CommandFails
        <5>2. job'[c].todo = AfterFailure(c)
          BY <4>1, <5>1 DEF Job
        <5>3. CASE AfterFailure(c) = <<>>
          <6>1. Len(AfterFailure(c)) = 0 /\ Len(Commands(c)) \in Nat
            BY <4>3, <5>3
          <6> QED BY <3>3, <4>2, <5>2, <6>1
        <5>4. CASE AfterFailure(c) # <<>>
          <6>1. kind[c] \in Dragging /\ AfterFailure(c) = << <<Up("button")>> >>
            BY <5>4 DEF AfterFailure
          <6>2. Len(Commands(c)) = 4 /\ Commands(c)[4] = <<Up("button")>>
            BY <6>1, CommandsShape
          <6>3. Len(job'[c].todo) = 1 /\ job'[c].todo[1] = <<Up("button")>>
            BY <5>2, <6>1
          <6>4. \A i \in 1..1 : i = 1 /\ 4 - 1 + i = 4
            OBVIOUS
          <6>5. Last(job'[c].todo, Commands(c))
            BY <6>2, <6>3, <6>4
          <6> QED BY <3>3, <4>2, <6>5
        <5> QED BY <5>3, <5>4
      <4> QED BY <3>3, <4>5, <4>6
    <3> QED BY <3>1, <3>2, <3>3
  <2> QED BY <2>1, <2>2 DEF Next
<1> QED BY <1>1 DEF TaskInv

-----------------------------------------------------------------------------
(* What a command leaves down. A key is down after some events only if it  *)
(* was before or one of them presses it, and not if the last one of it     *)
(* releases it.                                                            *)
LEMMA HeldOnlyIf ==
  ASSUME NEW down, NEW events, NEW k \in Held(down, events)
  PROVE  k \in Keys /\ (k \in down \/ \E i \in DOMAIN events : events[i] .do = "down" /\ events[i].key = k)
  BY DEF Held

(* A key whose last event is its release is up.                            *)
LEMMA HeldReleased ==
  ASSUME NEW down, NEW events, NEW k, NEW n \in Nat, DOMAIN events = 1..n,
         NEW j \in 1..n, events[j].do = "up", events[j].key = k,
         \A i \in 1..n : i > j /\ events[i].do = "down" => events[i].key # k
  PROVE  k \notin Held(down, events)
<1>1. SUFFICES ASSUME k \in Held(down, events) PROVE FALSE
  OBVIOUS
<1> DEFINE mine == {i \in DOMAIN events : events[i].do \in {"down", "up"} /\ events[i].key = k}
<1>2. j \in mine
  OBVIOUS
<1>3. PICK i \in mine : (\A l \in mine : l <= i) /\ events[i].do = "down"
  BY <1>1, <1>2 DEF Held
<1>4. j <= i /\ i # j /\ i \in 1..n
  BY <1>2, <1>3
<1>5. i > j
  BY <1>4
<1> QED BY <1>3, <1>4, <1>5

(* Events that press and release nothing leave the keys as they are.       *)
LEMMA HeldUntouched ==
  ASSUME NEW down \in SUBSET Keys, NEW events, \A i \in DOMAIN events : events[i].do \notin {"down", "up"}
  PROVE  Held(down, events) = down
  BY DEF Held

(* The beginning of a command presses nothing else than the command does.  *)
LEMMA Beginning ==
  ASSUME NEW events \in Seq(Event), NEW n \in 0..Len(events)
  PROVE  /\ DOMAIN SubSeq(events, 1, n) = 1..n /\ n \in Nat
         /\ \A i \in 1..n : SubSeq(events, 1, n)[i] = events[i] /\ i \in 1..Len(events)
  OBVIOUS

Mods == {Modifiers[i] : i \in 1..Len(Modifiers)}

(* The modifiers are a sequence of modifier keys.                          *)
LEMMA ModsType ==
  /\ Len(Modifiers) \in Nat /\ DOMAIN Modifiers = 1..Len(Modifiers)
  /\ \A i \in 1..Len(Modifiers) : Modifiers[i] \in {"ctrl", "shift"} /\ Modifiers[i] \in Mods
  /\ Mods \subseteq {"ctrl", "shift"}
  BY PointerDeviceAssumption DEF Mods

(* The modifiers are pressed, or released, one after the other.            *)
LEMMA HoldHeld ==
  ASSUME NEW down, NEW n \in 0..Len(HoldCommand),
         NEW k \in Held(down, SubSeq(HoldCommand, 1, n))
  PROVE  k \in down \/ k \in Mods
<1> DEFINE some == SubSeq(HoldCommand, 1, n)
<1>1. DOMAIN some = 1..n /\ \A i \in 1..n : some[i] = HoldCommand[i] /\ i \in 1..Len(HoldCommand)
  BY CommandTypes, Beginning
<1>2. Len(HoldCommand) = Len(Modifiers)
      /\ \A i \in 1..Len(Modifiers) : HoldCommand[i] = Down(Modifiers[i])
  BY ModsType DEF HoldCommand
<1> HIDE DEF some
<1>3. ASSUME NEW i \in DOMAIN some PROVE some[i].key \in Mods
  <2>1. some[i] = Down(Modifiers[i]) /\ i \in 1..Len(Modifiers)
    BY <1>1, <1>2
  <2>2. Down(Modifiers[i]).key = Modifiers[i]
    BY DEF Down
  <2> QED BY <2>1, <2>2, ModsType
<1>4. k \in Held(down, some)
  BY DEF some
<1>5. k \in down \/ \E i \in DOMAIN some : some[i].do = "down" /\ some[i].key = k
  BY <1>4, HeldOnlyIf
<1> QED BY <1>3, <1>5

(* The whole of a command is one of its beginnings.                        *)
LEMMA WholeCommand ==
  ASSUME NEW events \in Seq(Event)
  PROVE  SubSeq(events, 1, Len(events)) = events /\ Len(events) \in 0..Len(events)
  OBVIOUS

(* Releasing the modifiers leaves down only other keys.                    *)
LEMMA UnholdHeld ==
  ASSUME NEW down
  PROVE  /\ \A n \in 0..Len(UnholdCommand) : Held(down, SubSeq(UnholdCommand, 1, n)) \subseteq down
         /\ Held(down, UnholdCommand) \subseteq down \ Mods
<1>1. Len(UnholdCommand) = Len(Modifiers) /\ DOMAIN UnholdCommand = 1..Len(Modifiers)
      /\ \A i \in 1..Len(Modifiers) : UnholdCommand[i] = Up(Modifiers[i])
  BY ModsType DEF UnholdCommand
<1>2. ASSUME NEW n \in 0..Len(UnholdCommand)
      PROVE  Held(down, SubSeq(UnholdCommand, 1, n)) \subseteq down
  <2> DEFINE some == SubSeq(UnholdCommand, 1, n)
  <2>1. DOMAIN some = 1..n /\ \A i \in 1..n : some[i] = UnholdCommand[i] /\ i \in 1..Len(UnholdCommand)
    BY CommandTypes, Beginning
  <2> HIDE DEF some
  <2>2. \A i \in DOMAIN some : some[i].do # "down"
    BY <1>1, <2>1 DEF Up
  <2>3. Held(down, some) \subseteq down
    BY <2>2, HeldOnlyIf
  <2> QED BY <2>3 DEF some
<1>3. Held(down, UnholdCommand) \subseteq down
  BY <1>2, WholeCommand, CommandTypes
<1>4. ASSUME NEW k \in Mods PROVE k \notin Held(down, UnholdCommand)
  <2>1. PICK j \in 1..Len(Modifiers) : k = Modifiers[j]
    BY <1>4 DEF Mods
  <2>2. UnholdCommand[j].do = "up" /\ UnholdCommand[j].key = k
    BY <1>1, <2>1 DEF Up
  <2>3. \A i \in 1..Len(Modifiers) : UnholdCommand[i].do # "down"
    BY <1>1 DEF Up
  <2> QED BY <1>1, <2>2, <2>3, ModsType, HeldReleased, ZenonT(30)
<1> QED BY <1>2, <1>3, <1>4

(* The elements of two sequences in a row.                                 *)
LEMMA Joined ==
  ASSUME NEW a \in Seq(Event), NEW b \in Seq(Event)
  PROVE  /\ a \o b \in Seq(Event) /\ Len(a \o b) = Len(a) + Len(b)
         /\ \A i \in 1..Len(a) : (a \o b)[i] = a[i]
         /\ \A i \in 1..Len(b) : (a \o b)[Len(a) + i] = b[i]
  OBVIOUS

(* A chord presses its modifiers and its key, and releases them all.       *)
LEMMA KeySequenceShape ==
  LET l == Len(Modifiers)
  IN  /\ KeySequence \in Seq(Event) /\ Len(KeySequence) = 2 * l + 2 /\ l \in Nat
      /\ \A i \in 1..l : KeySequence[i] = Down(Modifiers[i])
      /\ KeySequence[l + 1] = Down("key") /\ KeySequence[l + 2] = Up("key")
      /\ \A i \in (l + 3)..(2 * l + 2) : KeySequence[i] = Up(Modifiers[2 * l + 3 - i])
<1> DEFINE l  == Len(Modifiers)
           up == [i \in 1..l |-> Up(Backwards(Modifiers)[i])]
           key == <<Down("key"), Up("key")>>
<1>1. l \in Nat
  BY ModsType
<1>2. \A i \in 1..l : Backwards(Modifiers)[i] = Modifiers[l + 1 - i] /\ l + 1 - i \in 1..l
  BY <1>1 DEF Backwards
<1>3. \A i \in 1..l : up[i] = Up(Modifiers[l + 1 - i])
  BY <1>2
<1>4. \A i \in 1..l : Up(Modifiers[l + 1 - i]) \in Event
  BY <1>2, ModsType, EventTypes DEF Keys
<1>5. up \in Seq(Event) /\ Len(up) = l
  BY <1>1, <1>3, <1>4
<1>6. HoldCommand \in Seq(Event) /\ Len(HoldCommand) = l
      /\ \A i \in 1..l : HoldCommand[i] = Down(Modifiers[i])
  BY <1>1, CommandTypes DEF HoldCommand
<1>7. key \in Seq(Event) /\ Len(key) = 2 /\ key[1] = Down("key") /\ key[2] = Up("key")
  BY EventTypes DEF Keys
<1>8. KeySequence = HoldCommand \o key \o up
  BY DEF KeySequence
<1> HIDE DEF l, up, key
<1> DEFINE press == HoldCommand \o key
<1>9. /\ press \in Seq(Event) /\ Len(press) = l + 2
      /\ \A i \in 1..l : press[i] = HoldCommand[i]
      /\ press[l + 1] = key[1] /\ press[l + 2] = key[2]
  <2>1. press \in Seq(Event) /\ Len(press) = l + 2
        /\ (\A i \in 1..l : press[i] = HoldCommand[i])
        /\ \A i \in 1..2 : press[l + i] = key[i]
    <3>1. /\ press \in Seq(Event) /\ Len(press) = Len(HoldCommand) + Len(key)
          /\ \A i \in 1..Len(HoldCommand) : press[i] = HoldCommand[i]
          /\ \A i \in 1..Len(key) : press[Len(HoldCommand) + i] = key[i]
      BY <1>6, <1>7, Joined
    <3> HIDE DEF press
    <3> QED BY <1>6, <1>7, <3>1
  <2>2. 1 \in 1..2 /\ 2 \in 1..2
    OBVIOUS
  <2> HIDE DEF press
  <2> QED BY <2>1, <2>2
<1>10. KeySequence = press \o up
  BY <1>8
<1> HIDE DEF press
<1>11. KeySequence \in Seq(Event) /\ Len(KeySequence) = Len(press) + Len(up)
  BY <1>5, <1>9, <1>10
<1>12. 2 * l + 2 = l + 2 + l /\ 2 * l + 2 \in Nat /\ l + 2 \in Nat
  BY <1>1
<1>13. Len(KeySequence) = 2 * l + 2
  BY <1>5, <1>9, <1>11, <1>12
<1>14. \A i \in 1..(l + 2) : KeySequence[i] = press[i]
  BY <1>1, <1>5, <1>9, <1>10
<1>15. \A i \in 1..l : i \in 1..(l + 2)
  BY <1>1
<1>16. l + 1 \in 1..(l + 2) /\ l + 2 \in 1..(l + 2)
  BY <1>1
<1>17. ASSUME NEW i \in (l + 3)..(2 * l + 2)
       PROVE  KeySequence[i] = Up(Modifiers[2 * l + 3 - i])
  <2>1. i - (l + 2) \in 1..l /\ l + 1 - (i - (l + 2)) = 2 * l + 3 - i
    BY <1>1
  <2>2. i \in (Len(press) + 1)..(Len(press) + Len(up)) /\ i - Len(press) = i - (l + 2)
    BY <1>1, <1>5, <1>9
  <2>3. (press \o up)[i] = up[i - Len(press)]
    BY <1>1, <1>5, <1>9, <2>2
  <2> QED BY <1>3, <1>10, <2>1, <2>2, <2>3
<1>18. /\ \A i \in 1..l : KeySequence[i] = Down(Modifiers[i])
       /\ KeySequence[l + 1] = Down("key") /\ KeySequence[l + 2] = Up("key")
  BY <1>6, <1>7, <1>9, <1>14, <1>15, <1>16
<1> QED BY <1>1, <1>11, <1>13, <1>17, <1>18 DEF l

(* A whole chord leaves neither its key nor a modifier down.               *)
LEMMA KeySequenceHeld ==
  ASSUME NEW down
  PROVE  /\ \A n \in 0..Len(KeySequence) :
              Held(down, SubSeq(KeySequence, 1, n)) \subseteq down \cup {"key"} \cup Mods
         /\ Held(down, KeySequence) \subseteq down \ ({"key"} \cup Mods)
         /\ KeySequence # <<Up("button")>>
<1> DEFINE l == Len(Modifiers)
           s == KeySequence
<1>1. /\ s \in Seq(Event) /\ Len(s) = 2 * l + 2 /\ l \in Nat
      /\ \A i \in 1..l : s[i] = Down(Modifiers[i])
      /\ s[l + 1] = Down("key") /\ s[l + 2] = Up("key")
      /\ \A i \in (l + 3)..(2 * l + 2) : s[i] = Up(Modifiers[2 * l + 3 - i])
  BY KeySequenceShape
<1> HIDE DEF l, s
<1>2. DOMAIN s = 1..(2 * l + 2) /\ 2 * l + 2 \in Nat
  BY <1>1
<1>3. \A i \in 1..(2 * l + 2) : i \in 1..l \/ i = l + 1 \/ i = l + 2 \/ i \in (l + 3)..(2 * l + 2)
  BY <1>1
<1>4. ASSUME NEW i \in 1..(2 * l + 2), s[i].do = "down"
      PROVE  s[i].key \in {"key"} \cup Mods /\ i <= l + 1 /\ (i = l + 1 => s[i].key = "key")
             /\ (i # l + 1 => i \in 1..l /\ s[i].key = Modifiers[i])
  <2>1. \A m : Down(m).key = m /\ Up(m).do = "up"
    BY DEF Down, Up
  <2>2. i \in 1..l \/ i = l + 1
    BY <1>1, <1>3, <1>4, <2>1
  <2>3. i <= l + 1
    BY <1>1, <2>2
  <2>4. i \in 1..l => s[i].key = Modifiers[i] /\ Modifiers[i] \in Mods /\ i # l + 1
    BY <1>1, <2>1, ModsType DEF l
  <2>5. i = l + 1 => s[i].key = "key"
    BY <1>1, <2>1
  <2> QED BY <2>2, <2>3, <2>4, <2>5
<1>5. ASSUME NEW n \in 0..Len(s) PROVE Held(down, SubSeq(s, 1, n)) \subseteq down \cup {"key"} \cup Mods
  <2> DEFINE some == SubSeq(s, 1, n)
  <2>1. DOMAIN some = 1..n /\ \A i \in 1..n : some[i] = s[i] /\ i \in 1..Len(s)
    BY <1>1, Beginning
  <2> HIDE DEF some
  <2>2. \A i \in DOMAIN some : some[i].do = "down" => some[i].key \in {"key"} \cup Mods
    BY <1>1, <1>4, <2>1
  <2>3. Held(down, some) \subseteq down \cup {"key"} \cup Mods
    BY <2>2, HeldOnlyIf
  <2> QED BY <2>3 DEF some
<1>6. "key" \notin Held(down, s)
  <2>1. l + 2 \in 1..(2 * l + 2) /\ s[l + 2].do = "up" /\ s[l + 2].key = "key"
    BY <1>1 DEF Up
  <2>2. \A i \in 1..(2 * l + 2) : i > l + 2 /\ s[i].do = "down" => s[i].key # "key"
    BY <1>1, <1>4
  <2> QED BY <1>2, <2>1, <2>2, HeldReleased
<1>7. ASSUME NEW k \in Mods PROVE k \notin Held(down, s)
  <2>1. PICK m \in 1..l : k = Modifiers[m]
    BY <1>7 DEF Mods, l
  <2>2. 2 * l + 3 - m \in (l + 3)..(2 * l + 2) /\ 2 * l + 3 - (2 * l + 3 - m) = m
    BY <1>1
  <2>3. s[2 * l + 3 - m] = Up(k) /\ 2 * l + 3 - m \in 1..(2 * l + 2)
    BY <1>1, <2>1, <2>2
  <2>4. s[2 * l + 3 - m].do = "up" /\ s[2 * l + 3 - m].key = k
    BY <2>3 DEF Up
  <2>5. \A i \in 1..(2 * l + 2) : i > 2 * l + 3 - m /\ s[i].do = "down" => s[i].key # k
    BY <1>1, <1>4, <2>2
  <2> QED BY <1>2, <2>3, <2>4, <2>5, HeldReleased
<1>8. Held(down, s) \subseteq down
  <2>1. SubSeq(s, 1, Len(s)) = s /\ Len(s) \in 0..Len(s)
    BY <1>1, WholeCommand
  <2>2. Held(down, s) \subseteq down \cup {"key"} \cup Mods
    BY <1>5, <2>1
  <2> QED BY <1>6, <1>7, <2>2
<1>9. s # <<Up("button")>>
  <2>1. Len(<<Up("button")>>) = 1 /\ Len(s) # 1
    BY <1>1
  <2> QED BY <2>1
<1> QED BY <1>5, <1>6, <1>7, <1>8, <1>9 DEF s

(* A click leaves the button up, and presses nothing else.                 *)
LEMMA ClicksHeld ==
  ASSUME NEW down
  PROVE  /\ \A n \in 0..Len(Clicks) :
              Held(down, SubSeq(Clicks, 1, n)) \subseteq down \cup {"button"}
         /\ Held(down, Clicks) \subseteq down \ {"button"}
<1> DEFINE l == 2 * ClickCount
<1>1. /\ Clicks \in Seq(Event) /\ Len(Clicks) = l /\ l \in Nat \ {0}
      /\ \A i \in 1..l : Clicks[i] = IF i % 2 = 1 THEN Down("button") ELSE Up("button")
  BY ClicksShape, PointerDeviceAssumption
<1>2. l % 2 # 1 /\ l \in 1..l
  BY PointerDeviceAssumption
<1> HIDE DEF l
<1>3. \A i \in 1..l : Clicks[i].key = "button"
  BY <1>1 DEF Down, Up
<1>4. Clicks[l].do = "up"
  BY <1>1, <1>2 DEF Up
<1>5. ASSUME NEW n \in 0..Len(Clicks)
      PROVE  Held(down, SubSeq(Clicks, 1, n)) \subseteq down \cup {"button"}
  <2> DEFINE some == SubSeq(Clicks, 1, n)
  <2>1. DOMAIN some = 1..n /\ \A i \in 1..n : some[i] = Clicks[i] /\ i \in 1..Len(Clicks)
    BY <1>1, Beginning
  <2> HIDE DEF some
  <2>2. \A i \in DOMAIN some : some[i].key = "button"
    BY <1>1, <1>3, <2>1
  <2>3. Held(down, some) \subseteq down \cup {"button"}
    BY <2>2, HeldOnlyIf
  <2> QED BY <2>3 DEF some
<1>6. "button" \notin Held(down, Clicks)
  <2>1. DOMAIN Clicks = 1..l /\ \A i \in 1..l : ~(i > l)
    BY <1>1
  <2> QED BY <1>1, <1>2, <1>3, <1>4, <2>1, HeldReleased
<1>7. Held(down, Clicks) \subseteq down \cup {"button"}
  BY <1>1, <1>5, WholeCommand
<1> QED BY <1>5, <1>6, <1>7

(* A command of one event is not begun, or done.                           *)
LEMMA OneHeld ==
  ASSUME NEW down \in SUBSET Keys, NEW e \in Event, NEW n \in 0..Len(<<e>>)
  PROVE  /\ e.do \notin {"down", "up"} =>
              Held(down, SubSeq(<<e>>, 1, n)) = down /\ Held(down, <<e>>) = down
         /\ e = Down("button") => Held(down, SubSeq(<<e>>, 1, n)) \subseteq down \cup {"button"}
         /\ e = Up("button") => /\ Held(down, SubSeq(<<e>>, 1, n)) \subseteq down
                                /\ Held(down, <<e>>) = down \ {"button"}
<1> DEFINE some == SubSeq(<<e>>, 1, n)
<1>1. <<e>> \in Seq(Event) /\ Len(<<e>>) = 1 /\ DOMAIN <<e>> = 1..1 /\ <<e>>[1] = e
  OBVIOUS
<1>2. DOMAIN some = 1..n /\ \A i \in 1..n : some[i] = e
  <2>1. DOMAIN some = 1..n /\ \A i \in 1..n : some[i] = <<e>>[i] /\ i \in 1..Len(<<e>>)
    BY <1>1, Beginning
  <2>2. \A i \in 1..1 : i = 1
    OBVIOUS
  <2> QED BY <1>1, <2>1, <2>2
<1>3. \A i \in 1..1 : <<e>>[i] = e
  BY <1>1
<1> HIDE DEF some
<1>4. ASSUME e.do \notin {"down", "up"} PROVE Held(down, some) = down /\ Held(down, <<e>>) = down
  BY <1>1, <1>2, <1>3, <1>4, HeldUntouched
<1>5. ASSUME e = Down("button") PROVE Held(down, some) \subseteq down \cup {"button"}
  <2>1. e.key = "button"
    BY <1>5 DEF Down
  <2> QED BY <1>2, <2>1, HeldOnlyIf
<1>6. ASSUME e = Up("button") PROVE Held(down, some) \subseteq down /\ Held(down, <<e>>) = down \ {"button"}
  <2>1. e.key = "button" /\ e.do = "up"
    BY <1>6 DEF Up
  <2>2. Held(down, some) \subseteq down /\ Held(down, <<e>>) \subseteq down
    BY <1>1, <1>2, <1>3, <2>1, HeldOnlyIf
  <2>3. "button" \notin Held(down, <<e>>)
    <3>1. 1 \in 1..1 /\ 1 \in Nat /\ \A i \in 1..1 : ~(i > 1)
      OBVIOUS
    <3>2. <<e>>[1].do = "up" /\ <<e>>[1].key = "button"
      BY <1>1, <2>1
    <3> QED BY <1>1, <3>1, <3>2, HeldReleased
  <2>4. ASSUME NEW k \in down, k # "button" PROVE k \in Held(down, <<e>>)
    BY <1>1, <1>3, <2>1, <2>4 DEF Held
  <2> QED BY <2>2, <2>3, <2>4
<1> QED BY <1>4, <1>5, <1>6 DEF some

(* The command a task runs next.                                           *)
LEMMA HeadCommand ==
  ASSUME TypeOK, TaskInv, NEW c \in Call, job[c].on = "task", job[c].todo # <<>>
  PROVE  LET todo == job[c].todo
             left == Len(todo)
         IN  /\ todo \in Seq(Seq(Event)) /\ left \in Nat \ {0} /\ job[c] \in Job
             /\ Head(todo) = todo[1] /\ Head(todo) \in Seq(Event)
             /\ kind[c] \in Dragging =>
                  /\ left \in 1..4
                  /\ left = 4 => Head(todo) = <<Move(aim[c][1])>>
                  /\ left = 3 => Head(todo) = <<Down("button")>>
                  /\ left = 2 => Head(todo) = <<Move(aim[c][2])>>
                  /\ left = 1 => Head(todo) = <<Up("button")>>
             /\ kind[c] = "chord" => left = 1 /\ Head(todo) = KeySequence
             /\ kind[c] = "scroll" => Head(todo) \in {<<Wheel>>, <<Move(aim[c][1])>>}
             /\ kind[c] \notin Dragging \cup {"chord", "scroll"} =>
                  /\ left \in 1..2
                  /\ left = 2 => Head(todo) = <<Move(aim[c][1])>>
                  /\ left = 1 => Head(todo) = Clicks
<1> DEFINE todo == job[c].todo
           left == Len(todo)
           all  == Len(Commands(c))
<1>1. job[c] \in Job
  BY DEF TypeOK
<1>2. todo \in Seq(Seq(Event))
  BY <1>1 DEF Job
<1>3. left \in Nat \ {0} /\ Head(todo) = todo[1] /\ Head(todo) \in Seq(Event)
  BY <1>2
<1>4. left <= all /\ \A i \in 1..left : todo[i] = Commands(c)[all - left + i]
  BY DEF TaskInv
<1>5. all \in Nat
  BY CommandsShape
<1> HIDE DEF todo, left, all
<1>6. Head(todo) = Commands(c)[all - left + 1] /\ all - left + 1 \in 1..all
  BY <1>3, <1>4, <1>5
<1>7. CASE kind[c] \in Dragging
  <2>1. all = 4
    BY <1>7, CommandsShape DEF all
  <2>2. left \in 1..4
    BY <1>3, <1>4, <2>1
  <2>3. /\ left = 4 => all - left + 1 = 1
        /\ left = 3 => all - left + 1 = 2
        /\ left = 2 => all - left + 1 = 3
        /\ left = 1 => all - left + 1 = 4
    BY <2>1
  <2>4. /\ left = 4 => Head(todo) = <<Move(aim[c][1])>>
        /\ left = 3 => Head(todo) = <<Down("button")>>
        /\ left = 2 => Head(todo) = <<Move(aim[c][2])>>
        /\ left = 1 => Head(todo) = <<Up("button")>>
    BY <1>6, <1>7, <2>1, CommandsShape
  <2> QED BY <1>1, <1>2, <1>3, <1>7, <2>2, <2>4 DEF Dragging, todo, left
<1>8. CASE kind[c] = "chord"
  <2>1. all = 1 /\ Commands(c)[1] = KeySequence
    BY <1>8, CommandsShape DEF all
  <2>2. left = 1 /\ all - left + 1 = 1
    BY <1>3, <1>4, <2>1
  <2> QED BY <1>1, <1>2, <1>3, <1>6, <1>8, <2>1, <2>2 DEF Dragging, todo, left
<1>9. CASE kind[c] = "scroll"
  <2>1. Head(todo) \in {<<Wheel>>, <<Move(aim[c][1])>>}
    BY <1>6, <1>9, CommandsShape DEF all
  <2> QED BY <1>1, <1>2, <1>3, <1>9, <2>1 DEF Dragging, todo, left
<1>10. CASE kind[c] \notin Dragging \cup {"chord", "scroll"}
  <2>1. all = 2 /\ Commands(c)[1] = <<Move(aim[c][1])>> /\ Commands(c)[2] = Clicks
    BY <1>10, CommandsShape DEF all
  <2>2. left \in 1..2 /\ (left = 2 => all - left + 1 = 1) /\ (left = 1 => all - left + 1 = 2)
    BY <1>3, <1>4, <2>1
  <2> QED BY <1>1, <1>2, <1>3, <1>6, <1>10, <2>1, <2>2 DEF todo, left
<1> QED BY <1>7, <1>8, <1>9, <1>10

(* The commands of a task that are no click and no chord.                  *)
LEMMA TaskEvents ==
  ASSUME NEW c \in Call, TypeOK
  PROVE  /\ \A i \in {1, 2} : Move(aim[c][i]) \in Event /\ Move(aim[c][i]).do \notin {"down", "up"}
         /\ Wheel \in Event /\ Wheel.do \notin {"down", "up"}
         /\ Down("button") \in Event /\ Up("button") \in Event
         /\ Len(<<Wheel>>) = 1 /\ \A e : Len(<<e>>) = 1 /\ 1 \in 0..Len(<<e>>)
<1>1. aim[c][1] \in Point /\ aim[c][2] \in Point
  BY DEF TypeOK
<1>2. \A p : Move(p).do = "move"
  BY DEF Move
<1>3. Wheel.do = "wheel"
  BY DEF Wheel
<1> QED BY <1>1, <1>2, <1>3, EventTypes DEF Keys

(* What a command that runs leaves down, and one that fails.               *)
LEMMA RunsHeld ==
  ASSUME TypeOK, TaskInv, NEW c \in Call, CommandRuns(c)
  PROVE  /\ ydDown' \subseteq ydDown \cup {"button"}
         /\ "button" \in ydDown' =>
              \/ kind[c] \in Dragging /\ Len(job[c].todo) = 3
              \/ "button" \in ydDown /\ (kind[c] \in Dragging => Len(job[c].todo) # 1)
<1> DEFINE h == Head(job[c].todo)
           left == Len(job[c].todo)
<1>1. job[c].on = "task" /\ job[c].todo # <<>> /\ ydDown' = Held(ydDown, h)
  BY DEF CommandRuns, Sends
<1>2. ydDown \in SUBSET Keys
  BY DEF TypeOK
<1>3. \A e \in Event : e.do \notin {"down", "up"} /\ h = <<e>> => ydDown' = ydDown
  <2> SUFFICES ASSUME NEW e \in Event, e.do \notin {"down", "up"}, h = <<e>> PROVE ydDown' = ydDown
    OBVIOUS
  <2>1. Held(ydDown, <<e>>) = ydDown
    BY <1>2, TaskEvents, OneHeld
  <2> QED BY <1>1, <2>1
<1>4. CASE kind[c] \in Dragging
  <2>1. /\ left \in 1..4
        /\ left = 4 => h = <<Move(aim[c][1])>>
        /\ left = 3 => h = <<Down("button")>>
        /\ left = 2 => h = <<Move(aim[c][2])>>
        /\ left = 1 => h = <<Up("button")>>
    BY <1>1, <1>4, HeadCommand
  <2> HIDE DEF left, h
  <2>2. CASE left \in {2, 4}
    <3>1. ydDown' = ydDown
      BY <1>3, <2>1, <2>2, TaskEvents
    <3> QED BY <2>2, <3>1 DEF left
  <2>3. CASE left = 3
    <3>1. Held(ydDown, <<Down("button")>>) \subseteq ydDown \cup {"button"}
      <4>1. SubSeq(<<Down("button")>>, 1, Len(<<Down("button")>>)) = <<Down("button")>>
        <5>1. <<Down("button")>> \in Seq(Event)
          BY TaskEvents
        <5> QED BY <5>1, WholeCommand
      <4>2. Held(ydDown, SubSeq(<<Down("button")>>, 1, 1)) \subseteq ydDown \cup {"button"}
        BY <1>2, TaskEvents, OneHeld
      <4> QED BY <4>1, <4>2, TaskEvents
    <3> QED BY <1>1, <1>4, <2>1, <2>3, <3>1 DEF left
  <2>4. CASE left = 1
    <3>1. Held(ydDown, <<Up("button")>>) = ydDown \ {"button"}
      BY <1>2, TaskEvents, OneHeld
    <3> QED BY <1>1, <2>1, <2>4, <3>1
  <2> QED BY <2>1, <2>2, <2>3, <2>4
<1>5. CASE kind[c] = "chord"
  <2>1. h = KeySequence /\ kind[c] \notin Dragging
    BY <1>1, <1>5, HeadCommand DEF Dragging
  <2>2. ydDown' \subseteq ydDown
    BY <1>1, <2>1, KeySequenceHeld
  <2> QED BY <2>1, <2>2
<1>6. CASE kind[c] = "scroll"
  <2>1. h \in {<<Wheel>>, <<Move(aim[c][1])>>} /\ kind[c] \notin Dragging
    BY <1>1, <1>6, HeadCommand DEF Dragging
  <2>2. ydDown' = ydDown
    BY <1>3, <2>1, TaskEvents
  <2> QED BY <2>1, <2>2
<1>7. CASE kind[c] \notin Dragging \cup {"chord", "scroll"}
  <2>1. h = <<Move(aim[c][1])>> \/ h = Clicks
    <3>1. left \in 1..2 /\ (left = 2 => h = <<Move(aim[c][1])>>) /\ (left = 1 => h = Clicks)
      BY <1>1, <1>7, HeadCommand
    <3> HIDE DEF left, h
    <3> QED BY <3>1
  <2>2. ydDown' \subseteq ydDown
    BY <1>1, <1>3, <2>1, TaskEvents, ClicksHeld
  <2> QED BY <1>7, <2>2
<1> QED BY <1>4, <1>5, <1>6, <1>7

(* What a command that is killed may leave down.                           *)
LEMMA FailsHeld ==
  ASSUME TypeOK, TaskInv, NEW c \in Call, CommandFails(c)
  PROVE  /\ ydDown' \subseteq ydDown \cup {"button", "key"} \cup Mods
         /\ "button" \in ydDown' =>
              "button" \in ydDown \/ (kind[c] \in Dragging /\ Len(job[c].todo) = 3) \/ Cause(c) = "click"
         /\ ydDown' \cap ({"key"} \cup Mods) \subseteq ydDown \/ Cause(c) = "chord"
         /\ kind[c] \in Dragging /\ Len(job[c].todo) = 1 => Cause(c) = "release"
<1> DEFINE h == Head(job[c].todo)
           left == Len(job[c].todo)
<1>1. /\ job[c].on = "task" /\ job[c].todo # <<>> /\ h = job[c].todo[1] /\ h \in Seq(Event)
  BY HeadCommand DEF CommandFails
<1>2. ydDown \in SUBSET Keys
  BY DEF TypeOK
<1>3. PICK n \in 0..Len(h) : ydDown' = Held(ydDown, SubSeq(h, 1, n))
  BY DEF CommandFails, Sends
<1>5. "button" \notin {"key"} \cup Mods
  BY ModsType
<1>6. \A e \in Event : e.do \notin {"down", "up"} /\ h = <<e>> => ydDown' = ydDown
  <2> SUFFICES ASSUME NEW e \in Event, e.do \notin {"down", "up"}, h = <<e>> PROVE ydDown' = ydDown
    OBVIOUS
  <2>1. n \in 0..Len(<<e>>)
    OBVIOUS
  <2>2. Held(ydDown, SubSeq(<<e>>, 1, n)) = ydDown
    BY <1>2, <2>1, OneHeld
  <2> QED BY <1>3, <2>2
<1> HIDE DEF left, h
<1>7. CASE kind[c] \in Dragging
  <2>1. /\ left \in 1..4
        /\ left = 4 => h = <<Move(aim[c][1])>>
        /\ left = 3 => h = <<Down("button")>>
        /\ left = 2 => h = <<Move(aim[c][2])>>
        /\ left = 1 => h = <<Up("button")>>
    BY <1>1, <1>7, HeadCommand DEF left, h
  <2>2. CASE left \in {2, 4}
    <3>1. ydDown' = ydDown
      BY <1>6, <2>1, <2>2, TaskEvents
    <3>2. Len(job[c].todo) # 1
      BY <2>2 DEF left
    <3> QED BY <3>1, <3>2
  <2>3. CASE left = 3
    <3>1. ydDown' \subseteq ydDown \cup {"button"}
      <4>1. n \in 0..Len(<<Down("button")>>)
        BY <2>1, <2>3
      <4>2. Held(ydDown, SubSeq(<<Down("button")>>, 1, n)) \subseteq ydDown \cup {"button"}
        BY <1>2, <4>1, TaskEvents, OneHeld
      <4> QED BY <1>3, <2>1, <2>3, <4>2
    <3>2. ydDown' \cap ({"key"} \cup Mods) \subseteq ydDown
      BY <1>5, <3>1
    <3>3. Len(job[c].todo) = 3 /\ Len(job[c].todo) # 1
      BY <2>3 DEF left
    <3> QED BY <1>7, <3>1, <3>2, <3>3
  <2>4. CASE left = 1
    <3>1. ydDown' \subseteq ydDown
      BY <1>2, <1>3, <2>1, <2>4, TaskEvents, OneHeld
    <3>2. Cause(c) = "release"
      BY <1>1, <2>1, <2>4 DEF Cause
    <3> QED BY <3>1, <3>2
  <2> QED BY <2>1, <2>2, <2>3, <2>4
<1>8. CASE kind[c] = "chord"
  <2>1. h = KeySequence /\ kind[c] \notin Dragging
    BY <1>1, <1>8, HeadCommand DEF Dragging, h
  <2>2. ydDown' \subseteq ydDown \cup {"key"} \cup Mods
    BY <1>3, <2>1, KeySequenceHeld
  <2>3. Cause(c) = "chord"
    BY <1>1, <1>8, <2>1, KeySequenceHeld DEF Cause
  <2> QED BY <1>5, <2>1, <2>2, <2>3
<1>9. CASE kind[c] = "scroll"
  <2>1. h \in {<<Wheel>>, <<Move(aim[c][1])>>} /\ kind[c] \notin Dragging
    BY <1>1, <1>9, HeadCommand DEF Dragging, h
  <2>2. ydDown' = ydDown
    BY <1>6, <2>1, TaskEvents
  <2> QED BY <2>1, <2>2
<1>10. CASE kind[c] \notin Dragging \cup {"chord", "scroll"}
  <2>1. h = <<Move(aim[c][1])>> \/ h = Clicks
    <3>1. left \in 1..2 /\ (left = 2 => h = <<Move(aim[c][1])>>) /\ (left = 1 => h = Clicks)
      BY <1>1, <1>10, HeadCommand DEF left, h
    <3> QED BY <3>1
  <2>2. CASE h = <<Move(aim[c][1])>>
    <3>1. ydDown' = ydDown
      BY <1>6, <2>2, TaskEvents
    <3> QED BY <1>10, <3>1
  <2>3. CASE h = Clicks
    <3>1. ydDown' \subseteq ydDown \cup {"button"}
      BY <1>3, <2>3, ClicksHeld
    <3>2. h # <<Up("button")>>
      <4>1. Clicks[1] = Down("button")
        <5>1. 1 \in 1..(2 * ClickCount) /\ 1 % 2 = 1
          BY PointerDeviceAssumption
        <5> QED BY <5>1, ClicksShape
      <4>2. Down("button").do # Up("button").do
        BY DEF Down, Up
      <4>3. <<Up("button")>>[1] = Up("button")
        OBVIOUS
      <4> QED BY <2>3, <4>1, <4>2, <4>3
    <3>3. Cause(c) = "click"
      BY <1>1, <1>10, <3>2 DEF Cause
    <3> QED BY <1>5, <1>10, <3>1, <3>3
  <2> QED BY <2>1, <2>2, <2>3
<1> QED BY <1>7, <1>8, <1>9, <1>10

-----------------------------------------------------------------------------
(* A call that holds modifiers goes on holding them until it releases them *)
(* or is dropped.                                                          *)
LEMMA HoldsKept ==
  ASSUME TypeOK, LockInv, NEW c \in Call, Proceeds(c), ~Unhold(c), NEW d \in Call, Holds(d)
  PROVE  Holds(d)'
<1> USE DEF Goto, callVars, deviceVars
<1>1. /\ pc \in [Call -> Step] /\ kind \in [Call -> Kinds \cup {"none"}]
      /\ kind[d] \in {"modClick", "modDrag"}
  BY DEF TypeOK, Holds, Modified
<1>2. CASE d # c
  <2>1. pc'[d] = pc[d] /\ kind'[d] = kind[d]
    BY <1>2, OthersAlone
  <2> QED BY <2>1 DEF Holds
<1>3. CASE d = c
  <2>1. CASE Start(c) \/ Hold(c) \/ Return(c)
    BY <1>3, <2>1 DEF Start, Hold, Return, Holds
  <2>2. CASE Lock(c)
    <3>1. kind[c] = "modDrag" /\ pc'[c] = "ensure" /\ kind' = kind
      BY <1>1, <1>3, <2>2 DEF Lock, Holds
    <3> QED BY <1>3, <3>1 DEF Holds, Modified
  <2>3. CASE Ensure(c)
    <3>1. pc'[c] \in {"abs", "capture"} /\ kind' = kind
      BY <1>1, <2>3 DEF Ensure, Spawn
    <3> QED BY <1>3, <3>1 DEF Holds
  <2>4. CASE Capture(c) \/ Create(c)
    <3>1. pc'[c] \in {"create", "fallback", "store"} /\ kind' = kind
      BY <1>1, <2>4 DEF Capture, Create
    <3> QED BY <1>3, <3>1 DEF Holds
  <2>5. CASE Store(c) \/ Fallback(c)
    <3>1. pc'[c] \in {"abs", "ydotool"} /\ kind' = kind
      BY <1>1, <2>5 DEF Store, Spawn, Fallback
    <3> QED BY <1>3, <3>1 DEF Holds
  <2>6. CASE ThreadBegins(c) \/ ThreadEmits(c) \/ CommandRuns(c) \/ CommandFails(c)
    <3>1. pc' = pc /\ kind' = kind
      BY <2>6 DEF ThreadBegins, ThreadEmits, CommandRuns, CommandFails
    <3> QED BY <1>3, <3>1 DEF Holds
  <2>7. CASE ThreadEnds(c) \/ TaskEnds(c)
    <3>1. pc'[c] \in {pc[c], "landed", "fallback", "unhold"} /\ kind' = kind
      BY <1>1, <1>3, <2>7 DEF ThreadEnds, TaskEnds, AfterInput, Modified
    <3> QED BY <1>3, <3>1 DEF Holds
  <2>8. CASE Landed(c)
    <3>1. pc'[c] = "unhold" /\ kind' = kind
      BY <1>1, <1>3, <2>8 DEF Landed, AfterInput, Modified
    <3> QED BY <1>3, <3>1 DEF Holds
  <2> QED BY <1>3, <2>1, <2>2, <2>3, <2>4, <2>5, <2>6, <2>7, <2>8 DEF Proceeds
<1> QED BY <1>2, <1>3

(* The drag that will release the button.                                  *)
Releasing(d) == job[d].on = "task" /\ kind[d] \in Dragging /\ Len(job[d].todo) \in {1, 2}

(* It is still there after any step that runs no command.                  *)
LEMMA ReleasingKept ==
  ASSUME TypeOK, LockInv, NEW c \in Call, Proceeds(c) \/ Cancel(c),
         ~CommandRuns(c), ~CommandFails(c), NEW d \in Call, Releasing(d)
  PROVE  Releasing(d)'
<1> USE DEF Goto, callVars, deviceVars
<1>1. CASE d # c
  <2>1. job'[d] = job[d] /\ kind'[d] = kind[d]
    BY <1>1, OthersAlone
  <2> QED BY <2>1 DEF Releasing
<1>2. CASE d = c
  <2>1. CASE Start(c) \/ Lock(c) \/ Ensure(c) \/ Store(c) \/ Fallback(c) \/ Return(c)
    BY <1>2, <2>1 DEF Releasing, LockInv, Start, Lock, Ensure, Store, Fallback, Return, NoJob
  <2>2. CASE ThreadBegins(c) \/ ThreadEmits(c) \/ ThreadEnds(c) \/ TaskEnds(c)
    <3>1. Len(<<>>) = 0 /\ Len(<<>>) \notin {1, 2}
      OBVIOUS
    <3> QED BY <1>2, <2>2, <3>1 DEF Releasing, ThreadBegins, ThreadEmits, ThreadEnds, TaskEnds
  <2>3. CASE Hold(c) \/ Unhold(c) \/ Capture(c) \/ Create(c) \/ Landed(c) \/ Cancel(c)
    <3>1. job' = job /\ kind' = kind
      BY <2>3 DEF Hold, Unhold, Capture, Create, Landed, Cancel
    <3> QED BY <1>2, <3>1 DEF Releasing
  <2> QED BY <1>2, <2>1, <2>2, <2>3 DEF Proceeds
<1> QED BY <1>1, <1>2

(* The parts of KeysInv.                                                   *)
ButtonExplained ==
  "button" \in ydDown /\ broken \cap {"click", "release"} = {} => \E d \in Call : Releasing(d)
KeyExplained == "key" \in ydDown => "chord" \in broken
ModsExplained == ydDown \cap {"ctrl", "shift"} \subseteq Mods
HeldExplained ==
  ydDown \cap {"ctrl", "shift"} # {} /\ broken \cap {"chord", "hold", "unhold", "cancel"} = {}
    => \E d \in Call : Holds(d)

(* They are all of it, in this state and in the next.                      *)
LEMMA KeysParts == KeysInv <=> ButtonExplained /\ KeyExplained /\ ModsExplained /\ HeldExplained
<1>1. DOMAIN Modifiers = 1..Len(Modifiers)
  BY ModsType
<1>2. ModsExplained <=> \A k \in ydDown \cap {"ctrl", "shift"} : \E i \in DOMAIN Modifiers : Modifiers[i] = k
  BY <1>1 DEF ModsExplained, Mods
<1>3. ButtonExplained <=>
        ("button" \in ydDown /\ broken \cap {"click", "release"} = {} =>
           \E c \in Call : /\ job[c].on = "task" /\ kind[c] \in Dragging
                           /\ Len(job[c].todo) \in {1, 2})
  BY DEF ButtonExplained, Releasing
<1> QED BY <1>2, <1>3 DEF KeysInv, KeyExplained, HeldExplained

LEMMA KeysPartsAfter == (KeysInv <=> ButtonExplained /\ KeyExplained /\ ModsExplained /\ HeldExplained)'
<1>1. DOMAIN Modifiers = 1..Len(Modifiers)
  BY ModsType
<1>2. ModsExplained' <=> \A k \in ydDown' \cap {"ctrl", "shift"} : \E i \in DOMAIN Modifiers : Modifiers[i] = k
  BY <1>1 DEF ModsExplained, Mods
<1>3. ButtonExplained' <=>
        ("button" \in ydDown' /\ broken' \cap {"click", "release"} = {} =>
           \E c \in Call : /\ job'[c].on = "task" /\ kind'[c] \in Dragging
                           /\ Len(job'[c].todo) \in {1, 2})
  BY DEF ButtonExplained, Releasing
<1> QED BY <1>2, <1>3 DEF KeysInv, KeyExplained, HeldExplained

(* Steps that leave ydotool's device alone.                                *)
LEMMA QuietKeepsKeys ==
  ASSUME TypeOK, LockInv, KeysInv, ydDown' = ydDown, broken \subseteq broken',
         \/ \E c \in Call : /\ Proceeds(c) /\ ~Unhold(c)
                            /\ ~CommandRuns(c) /\ ~CommandFails(c)
         \/ Warp \/ Resize \/ UNCHANGED vars
  PROVE  KeysInv'
<1>1. ASSUME NEW d \in Call, Releasing(d) PROVE Releasing(d)'
  <2>1. CASE Warp \/ Resize \/ UNCHANGED vars
    BY <1>1, <2>1 DEF Releasing, Warp, Resize, vars, callVars
  <2>2. CASE \E c \in Call : Proceeds(c) /\ ~Unhold(c) /\ ~CommandRuns(c) /\ ~CommandFails(c)
    BY <1>1, <2>2, ReleasingKept
  <2> QED BY <2>1, <2>2
<1>2. ASSUME NEW d \in Call, Holds(d) PROVE Holds(d)'
  <2>1. CASE Warp \/ Resize \/ UNCHANGED vars
    BY <1>2, <2>1 DEF Holds, Warp, Resize, vars, callVars
  <2>2. CASE \E c \in Call : Proceeds(c) /\ ~Unhold(c) /\ ~CommandRuns(c) /\ ~CommandFails(c)
    BY <1>2, <2>2, HoldsKept
  <2> QED BY <2>1, <2>2
<1>3. ButtonExplained'
  BY <1>1, KeysParts DEF ButtonExplained
<1>4. KeyExplained' /\ ModsExplained'
  BY KeysParts DEF KeyExplained, ModsExplained, Mods
<1>5. HeldExplained'
  BY <1>2, KeysParts DEF HeldExplained
<1> QED BY <1>3, <1>4, <1>5, KeysPartsAfter

(* The command that presses the modifiers.                                 *)
LEMMA HoldKeepsKeys ==
  ASSUME TypeOK, LockInv, KeysInv, NEW c \in Call, Hold(c)
  PROVE  KeysInv'
<1>1. pc[c] = "hold" /\ kind[c] \in Modified /\ kind' = kind /\ pc \in [Call -> Step]
  BY DEF Hold, LockInv, TypeOK
<1>2. broken \subseteq broken' /\ ydDown' \subseteq ydDown \cup Mods
  <2>1. CASE ydDown' = Held(ydDown, HoldCommand) /\ broken' = broken
    <3>1. Held(ydDown, HoldCommand) \subseteq ydDown \cup Mods
      BY WholeCommand, CommandTypes, HoldHeld
    <3> QED BY <2>1, <3>1
  <2>2. CASE broken' = broken \cup {"hold"} /\
             \E n \in 0..Len(HoldCommand) : ydDown' = Held(ydDown, SubSeq(HoldCommand, 1, n))
    BY <2>2, HoldHeld
  <2> QED BY <2>1, <2>2 DEF Hold
<1>3. "hold" \in broken' \/ Holds(c)'
  <2>1. CASE pc' = [pc EXCEPT ![c] = IF kind[c] = "modDrag" THEN "lock" ELSE "ensure"]
    <3>1. pc'[c] = IF kind[c] = "modDrag" THEN "lock" ELSE "ensure"
      BY <1>1, <2>1
    <3> QED BY <1>1, <3>1 DEF Holds, Modified
  <2> QED BY <2>1 DEF Hold, Goto
<1>4. ASSUME NEW d \in Call, Releasing(d) PROVE Releasing(d)'
  BY <1>4 DEF Hold, Releasing
<1>5. Mods \subseteq {"ctrl", "shift"}
  BY ModsType
<1>6. ButtonExplained' /\ KeyExplained' /\ ModsExplained'
  BY <1>2, <1>4, <1>5, KeysParts DEF ButtonExplained, KeyExplained, ModsExplained, Mods
<1>7. HeldExplained'
  BY <1>3 DEF HeldExplained
<1> QED BY <1>6, <1>7, KeysPartsAfter

(* The command that releases them, all or none but by a failure.           *)
LEMMA UnholdKeepsKeys ==
  ASSUME TypeOK, LockInv, KeysInv, NEW c \in Call, Unhold(c)
  PROVE  KeysInv'
<1>1. /\ broken \subseteq broken' /\ ydDown' \subseteq ydDown
      /\ "unhold" \in broken' \/ ydDown' \cap Mods = {}
  BY UnholdHeld DEF Unhold
<1>2. ASSUME NEW d \in Call, Releasing(d) PROVE Releasing(d)'
  BY <1>2 DEF Unhold, Releasing
<1>3. ButtonExplained' /\ KeyExplained' /\ ModsExplained'
  BY <1>1, <1>2, KeysParts DEF ButtonExplained, KeyExplained, ModsExplained, Mods
<1>4. HeldExplained'
  BY <1>1, <1>3 DEF HeldExplained, ModsExplained, Mods
<1> QED BY <1>3, <1>4, KeysPartsAfter

(* A caller that is dropped with its modifiers held is a cause.            *)
LEMMA CancelKeepsKeys ==
  ASSUME TypeOK, LockInv, KeysInv, NEW c \in Call, Cancel(c)
  PROVE  KeysInv'
<1>1. /\ broken \subseteq broken' /\ kind' = kind /\ job' = job
      /\ Holds(c) \/ pc[c] = "hold" => "cancel" \in broken'
  BY DEF Cancel
<1>2. PICK n \in 0..Len(Killed(c)) : ydDown' = Held(ydDown, SubSeq(Killed(c), 1, n))
  BY DEF Cancel
<1>3. ydDown' \subseteq ydDown \cup Mods /\ (pc[c] # "hold" => ydDown' \subseteq ydDown)
  <2>1. CASE pc[c] = "hold"
    <3>1. Killed(c) = HoldCommand
      BY <2>1 DEF Killed
    <3> QED BY <1>2, <2>1, <3>1, HoldHeld
  <2>2. CASE pc[c] = "unhold"
    <3>1. Killed(c) = UnholdCommand
      BY <2>2 DEF Killed
    <3> QED BY <1>2, <2>2, <3>1, UnholdHeld
  <2>3. CASE pc[c] \notin {"hold", "unhold"}
    <3>1. Killed(c) = <<>>
      BY <2>3 DEF Killed
    <3>2. SubSeq(<<>>, 1, n) = <<>> /\ DOMAIN <<>> = {}
      BY <1>2, <3>1
    <3>3. ydDown \in SUBSET Keys
      BY DEF TypeOK
    <3>4. Held(ydDown, <<>>) = ydDown
      BY <3>2, <3>3, HeldUntouched
    <3> QED BY <1>2, <3>1, <3>2, <3>4
  <2> QED BY <2>1, <2>2, <2>3
<1>4. ASSUME NEW d \in Call, Releasing(d) PROVE Releasing(d)'
  BY <1>1, <1>4 DEF Releasing
<1>5. ASSUME NEW d \in Call, Holds(d), d # c PROVE Holds(d)'
  <2>1. pc'[d] = pc[d] /\ kind'[d] = kind[d]
    BY <1>5, OthersAlone
  <2> QED BY <1>5, <2>1 DEF Holds
<1>6. Mods \subseteq {"ctrl", "shift"}
  BY ModsType
<1>7. ButtonExplained' /\ KeyExplained' /\ ModsExplained'
  BY <1>1, <1>3, <1>4, <1>6, KeysParts DEF ButtonExplained, KeyExplained, ModsExplained, Mods
<1>8. HeldExplained'
  <2>1. SUFFICES ASSUME ydDown' \cap {"ctrl", "shift"} # {}, "cancel" \notin broken',
                        broken' \cap {"chord", "hold", "unhold", "cancel"} = {}
                 PROVE  \E d \in Call : Holds(d)'
    BY DEF HeldExplained
  <2>2. ydDown' \subseteq ydDown /\ ~Holds(c)
    BY <1>1, <1>3, <2>1
  <2>3. PICK d \in Call : Holds(d)
    BY <1>1, <2>1, <2>2, KeysParts DEF HeldExplained
  <2> QED BY <1>5, <2>2, <2>3
<1> QED BY <1>7, <1>8, KeysPartsAfter

(* A command that runs keeps what is down explained.                       *)
LEMMA RunsKeepsKeys ==
  ASSUME TypeOK, LockInv, TaskInv, KeysInv, NEW c \in Call, CommandRuns(c)
  PROVE  KeysInv'
<1>1. /\ job[c].on = "task" /\ job[c].todo # <<>> /\ job[c] \in Job /\ job \in [Call -> Job]
      /\ pc' = pc /\ kind' = kind /\ broken' = broken
  BY DEF CommandRuns, TypeOK, callVars
<1>2. job'[c] = [job[c] EXCEPT !.todo = Tail(job[c].todo)]
  BY <1>1 DEF CommandRuns
<1>3. job'[c].todo = Tail(job[c].todo) /\ job'[c].on = "task"
  BY <1>1, <1>2 DEF Job
<1>4. job[c].todo \in Seq(Seq(Event)) /\ Len(job'[c].todo) = Len(job[c].todo) - 1
  <2>1. job[c].todo \in Seq(Seq(Event))
    BY <1>1, HeadCommand
  <2> QED BY <1>1, <1>3, <2>1
<1>5. /\ ydDown' \subseteq ydDown \cup {"button"}
      /\ "button" \in ydDown' =>
           \/ kind[c] \in Dragging /\ Len(job[c].todo) = 3
           \/ "button" \in ydDown /\ (kind[c] \in Dragging => Len(job[c].todo) # 1)
  BY RunsHeld
<1>6. ASSUME "button" \in ydDown', broken' \cap {"click", "release"} = {} PROVE Releasing(c)'
  <2>1. CASE kind[c] \in Dragging /\ Len(job[c].todo) = 3
    <3>1. Len(job'[c].todo) = 2
      BY <1>4, <2>1
    <3> QED BY <1>1, <1>3, <2>1, <3>1 DEF Releasing
  <2>2. CASE "button" \in ydDown /\ (kind[c] \in Dragging => Len(job[c].todo) # 1)
    <3>1. PICK d \in Call : Releasing(d)
      BY <1>1, <1>6, <2>2, KeysParts DEF ButtonExplained
    <3>2. d = c
      BY <1>1, <3>1 DEF LockInv, Releasing
    <3>3. kind[c] \in Dragging /\ Len(job[c].todo) = 2
      BY <2>2, <3>1, <3>2 DEF Releasing
    <3>4. Len(job'[c].todo) = 1
      BY <1>4, <3>3
    <3> QED BY <1>1, <1>3, <3>3, <3>4 DEF Releasing
  <2> QED BY <1>5, <1>6, <2>1, <2>2
<1>7. \A d \in Call : Holds(d) => Holds(d)'
  BY <1>1 DEF Holds
<1>8. ButtonExplained' /\ KeyExplained' /\ ModsExplained' /\ HeldExplained'
  BY <1>1, <1>5, <1>6, <1>7, KeysParts
     DEF ButtonExplained, KeyExplained, ModsExplained, HeldExplained, Mods
<1> QED BY <1>8, KeysPartsAfter

(* So does one that is killed, by the failure it records.                  *)
LEMMA FailsKeepsKeys ==
  ASSUME TypeOK, LockInv, TaskInv, KeysInv, NEW c \in Call, CommandFails(c)
  PROVE  KeysInv'
<1>1. /\ job[c].on = "task" /\ job[c].todo # <<>> /\ job[c] \in Job /\ job \in [Call -> Job]
      /\ pc' = pc /\ kind' = kind /\ broken' = broken \cup {Cause(c)}
  BY DEF CommandFails, TypeOK, callVars
<1>2. job'[c] = [job[c] EXCEPT !.todo = AfterFailure(c), !.ok = FALSE]
  BY <1>1 DEF CommandFails
<1>3. job'[c].todo = AfterFailure(c) /\ job'[c].on = "task"
  BY <1>1, <1>2 DEF Job
<1>4. /\ ydDown' \subseteq ydDown \cup {"button", "key"} \cup Mods
      /\ "button" \in ydDown' =>
           "button" \in ydDown \/ (kind[c] \in Dragging /\ Len(job[c].todo) = 3) \/ Cause(c) = "click"
      /\ ydDown' \cap ({"key"} \cup Mods) \subseteq ydDown \/ Cause(c) = "chord"
      /\ kind[c] \in Dragging /\ Len(job[c].todo) = 1 => Cause(c) = "release"
  BY FailsHeld
<1>5. ASSUME "button" \in ydDown', broken' \cap {"click", "release"} = {} PROVE Releasing(c)'
  <2>1. kind[c] \in Dragging /\ Len(job[c].todo) \in {2, 3}
    <3>1. CASE "button" \in ydDown
      <4>1. PICK d \in Call : Releasing(d)
        BY <1>1, <1>5, <3>1, KeysParts DEF ButtonExplained
      <4>2. d = c
        BY <1>1, <4>1 DEF LockInv, Releasing
      <4> QED BY <1>1, <1>4, <1>5, <4>1, <4>2 DEF Releasing
    <3>2. CASE kind[c] \in Dragging /\ Len(job[c].todo) = 3
      BY <3>2
    <3> QED BY <1>1, <1>4, <1>5, <3>1, <3>2
  <2>2. AfterFailure(c) = << <<Up("button")>> >>
    BY <2>1 DEF AfterFailure
  <2>3. Len(job'[c].todo) = 1
    BY <1>3, <2>2
  <2> QED BY <1>1, <1>3, <2>1, <2>3 DEF Releasing
<1>6. \A d \in Call : Holds(d) => Holds(d)'
  BY <1>1 DEF Holds
<1>7. ModsExplained' /\ "button" \notin Mods /\ Mods \subseteq {"ctrl", "shift"}
  BY <1>4, ModsType, KeysParts DEF ModsExplained, Mods
<1>8. "chord" \in broken' \/ (ydDown' \cap ({"key"} \cup Mods) \subseteq ydDown /\ broken \subseteq broken')
  BY <1>1, <1>4
<1>9. KeyExplained'
  BY <1>1, <1>8, KeysParts DEF KeyExplained
<1>10. HeldExplained'
  <2>1. SUFFICES ASSUME ydDown' \cap {"ctrl", "shift"} # {},
                        broken' \cap {"chord", "hold", "unhold", "cancel"} = {}
                 PROVE  \E d \in Call : Holds(d)'
    BY DEF HeldExplained
  <2>2. ydDown' \cap {"ctrl", "shift"} \subseteq ydDown /\ broken \subseteq broken'
    BY <1>7, <1>8, <2>1 DEF ModsExplained, Mods
  <2>3. PICK d \in Call : Holds(d)
    BY <2>1, <2>2, KeysParts DEF HeldExplained
  <2> QED BY <1>6, <2>3
<1>11. ButtonExplained'
  BY <1>5 DEF ButtonExplained
<1> QED BY <1>7, <1>9, <1>10, <1>11, KeysPartsAfter

(* What is down on ydotool's device stays explained.                       *)
LEMMA KeysStep ==
  ASSUME TypeOK, LockInv, TaskInv, KeysInv, [Next]_vars
  PROVE  KeysInv'
<1>1. CASE Warp \/ Resize \/ UNCHANGED vars
  <2>1. ydDown' = ydDown /\ broken' = broken
    BY <1>1 DEF Warp, Resize, vars, deviceVars
  <2> QED BY <1>1, <2>1, QuietKeepsKeys
<1>2. ASSUME NEW c \in Call, Proceeds(c) \/ Cancel(c) PROVE KeysInv'
  <2>1. CASE Hold(c) \/ Unhold(c) \/ Cancel(c) \/ CommandRuns(c) \/ CommandFails(c)
    BY <2>1, HoldKeepsKeys, UnholdKeepsKeys, CancelKeepsKeys, RunsKeepsKeys, FailsKeepsKeys
  <2>2. CASE ~(Hold(c) \/ Unhold(c) \/ Cancel(c) \/ CommandRuns(c) \/ CommandFails(c))
    <3>1. ydDown' = ydDown /\ broken \subseteq broken'
      BY <1>2, <2>2 DEF Proceeds, Start, Lock, Return, Ensure, Capture, Create, Store, Spawn,
         ThreadBegins, ThreadEmits, Motion, Button, ThreadEnds, Landed, Fallback, TaskEnds, deviceVars
    <3> QED BY <1>2, <2>2, <3>1, QuietKeepsKeys
  <2> QED BY <2>1, <2>2
<1> QED BY <1>1, <1>2 DEF Next

-----------------------------------------------------------------------------
(* How often a command presses the button.                                 *)
LEMMA OddNumbers ==
  ASSUME NEW n \in Nat
  PROVE  LET odd == {i \in 1..(2 * n) : i % 2 = 1} IN IsFiniteSet(odd) /\ Cardinality(odd) = n
<1> DEFINE odd == {i \in 1..(2 * n) : i % 2 = 1}
           f   == [j \in 1..n |-> 2 * j - 1]
<1>1. \A j \in 1..n : f[j] \in odd
  OBVIOUS
<1>2. \A j, k \in 1..n : f[j] = f[k] => j = k
  OBVIOUS
<1>3. ASSUME NEW i \in odd PROVE \E j \in 1..n : f[j] = i
  <2>1. PICK j \in Int : j = (i + 1) \div 2
    OBVIOUS
  <2>2. 2 * j - 1 = i /\ j \in 1..n
    BY <2>1
  <2> QED BY <2>2
<1>4. f \in Bijection(1..n, odd)
  <2>1. f \in [1..n -> odd]
    BY <1>1
  <2> HIDE DEF f, odd
  <2> QED BY <1>2, <1>3, <2>1, Fun_IsBij
<1>5. ExistsBijection(1..n, odd)
  BY <1>4, Fun_ExistsBij
<1> HIDE DEF odd
<1>6. IsFiniteSet(odd) /\ Cardinality(odd) = n
  BY <1>5, FS_CountingElements, FS_NatBijection
<1> QED BY <1>6 DEF odd

(* A whole click presses as often as asked, a part of it no more often.    *)
LEMMA ClicksPress ==
  ASSUME NEW down
  PROVE  /\ "button" \notin down => PressesIn(down, Clicks) = ClickCount
         /\ PressesIn(down, Clicks) <= ClickCount
         /\ \A n \in 0..Len(Clicks) : PressesIn(down, SubSeq(Clicks, 1, n)) <= ClickCount
<1> DEFINE odd == {i \in 1..(2 * ClickCount) : i % 2 = 1}
           All(events) == {i \in DOMAIN events : events[i] = Down("button")}
<1>1. ClickCount \in Nat /\ IsFiniteSet(odd) /\ Cardinality(odd) = ClickCount
  BY OddNumbers, PointerDeviceAssumption
<1>2. Down("button") # Up("button")
  <2>1. Down("button").do = "down" /\ Up("button").do = "up"
    BY DEF Down, Up
  <2> QED BY <2>1
<1>3. /\ Clicks \in Seq(Event) /\ Len(Clicks) = 2 * ClickCount
      /\ \A i \in 1..(2 * ClickCount) : Clicks[i] = Down("button") <=> i % 2 = 1
  BY <1>2, ClicksShape
<1>4. All(Clicks) = odd
  <2>1. DOMAIN Clicks = 1..(2 * ClickCount)
    BY <1>3
  <2> QED BY <1>3, <2>1
<1>5. ASSUME NEW n \in 0..Len(Clicks) PROVE All(SubSeq(Clicks, 1, n)) \subseteq odd
  <2> DEFINE some == SubSeq(Clicks, 1, n)
  <2>1. DOMAIN some = 1..n /\ \A i \in 1..n : some[i] = Clicks[i] /\ i \in 1..Len(Clicks)
    BY <1>3, Beginning
  <2> HIDE DEF some
  <2>2. All(some) \subseteq odd
    BY <1>3, <2>1
  <2> QED BY <2>2 DEF some
<1>6. ASSUME NEW events, All(events) \subseteq odd
      PROVE  PressesIn(down, events) <= ClickCount
  <2>1. IsFiniteSet(All(events)) /\ Cardinality(All(events)) <= ClickCount
    BY <1>1, <1>6, FS_Subset
  <2>2. Cardinality(All(events)) \in Nat
    BY <2>1, FS_CardinalityType
  <2>3. PressesIn(down, events) \in {Cardinality(All(events)), Cardinality(All(events)) - 1}
    BY DEF PressesIn
  <2> HIDE DEF All
  <2> QED BY <1>1, <2>1, <2>2, <2>3
<1>7. "button" \notin down => PressesIn(down, Clicks) = ClickCount
  BY <1>1, <1>4 DEF PressesIn
<1>8. PressesIn(down, Clicks) <= ClickCount
  BY <1>4, <1>6
<1> QED BY <1>5, <1>6, <1>7, <1>8

(* A motion presses nothing.                                               *)
LEMMA MovePresses ==
  ASSUME NEW down, NEW p, NEW n \in 0..1
  PROVE  PressesIn(down, SubSeq(<<Move(p)>>, 1, n)) = 0 /\ PressesIn(down, <<Move(p)>>) = 0
<1> DEFINE All(events) == {i \in DOMAIN events : events[i] = Down("button")}
<1>1. Move(p) # Down("button")
  <2>1. Move(p).do = "move" /\ Down("button").do = "down"
    BY DEF Move, Down
  <2> QED BY <2>1
<1>2. DOMAIN <<Move(p)>> = 1..1 /\ \A i \in 1..1 : <<Move(p)>>[i] = Move(p)
  OBVIOUS
<1>3. DOMAIN SubSeq(<<Move(p)>>, 1, n) = 1..n /\ \A i \in 1..n : SubSeq(<<Move(p)>>, 1, n)[i] = Move(p)
  OBVIOUS
<1>4. All(<<Move(p)>>) = {} /\ All(SubSeq(<<Move(p)>>, 1, n)) = {}
  BY <1>1, <1>2, <1>3
<1>5. Cardinality({}) = 0
  BY FS_EmptySet
<1> QED BY <1>4, <1>5 DEF PressesIn

(* The steps that press nothing keep the counts.                           *)
LEMMA CountedAside ==
  ASSUME TypeOK, LockInv, CountInv, NEW c \in Call,
         \/ Start(c) \/ Lock(c) \/ Hold(c) \/ Unhold(c) \/ Return(c)
         \/ Ensure(c) \/ Capture(c) \/ Create(c) \/ Store(c) \/ Landed(c)
         \/ Fallback(c) \/ Cancel(c) \/ ThreadBegins(c)
  PROVE  Counted(c)'
<1> USE DEF Goto, callVars, deviceVars
<1>1. /\ job \in [Call -> Job] /\ pc \in [Call -> Step] /\ presses \in [Call -> Nat]
      /\ kind \in [Call -> Kinds \cup {"none"}] /\ presses[c] \in Nat
      /\ report \in [Call -> {"none", "abs", "ydotool", "failed"}]
      /\ ClickCount \in Nat \ {0}
  BY PointerDeviceAssumption DEF TypeOK
<1>2. broken \subseteq broken' /\ (Clean' => Clean)
  BY DEF Start, Lock, Hold, Unhold, Return, Ensure, Capture, Create, Store, Landed, Fallback,
         Cancel, ThreadBegins, Clean
<1>3. Counted(c) /\ presses[c] >= 0 /\ (presses[c] = 0 => presses[c] <= 2 * ClickCount /\ presses[c] <= ClickCount)
  BY <1>1 DEF CountInv
<1>4. presses[c] <= ClickCount => presses[c] <= 2 * ClickCount
  BY <1>1
<1>5. CASE Start(c)
  <2>1. /\ pc'[c] \in {"hold", "lock"} /\ job' = job /\ job[c].on = "none"
        /\ presses' = presses /\ report' = report /\ pc[c] = "idle"
    BY <1>1, <1>5 DEF Start, LockInv
  <2> QED BY <1>3, <2>1 DEF Counted
<1>6. CASE Lock(c)
  <2>1. /\ pc'[c] \in {"hold", "fallback", "ensure"} /\ job' = job /\ job[c].on = "none"
        /\ presses' = presses /\ report' = report /\ pc[c] = "lock"
    BY <1>1, <1>6 DEF Lock, LockInv
  <2> QED BY <1>3, <2>1 DEF Counted
<1>7. CASE Hold(c)
  <2>1. /\ job' = job /\ job[c].on = "none" /\ presses' = presses /\ pc[c] = "hold"
        /\ \/ pc'[c] \in {"lock", "ensure"} /\ report' = report
           \/ pc'[c] = "return" /\ report'[c] = "failed"
    BY <1>1, <1>7 DEF Hold, LockInv
  <2> QED BY <1>3, <2>1 DEF Counted
<1>8. CASE Unhold(c)
  <2>1. /\ pc'[c] = "return" /\ job' = job /\ job[c].on = "none" /\ kind' = kind
        /\ presses' = presses /\ report' = report /\ pc[c] = "unhold"
    BY <1>1, <1>8 DEF Unhold, LockInv
  <2> QED BY <1>2, <1>3, <2>1 DEF Counted
<1>9. CASE Return(c)
  <2>1. /\ pc'[c] = "idle" /\ job' = job /\ job[c].on = "none"
        /\ presses'[c] = 0 /\ report'[c] = "none"
    BY <1>1, <1>9 DEF Return, NoJob
  <2> QED BY <2>1 DEF Counted
<1>10. CASE Ensure(c) \/ Store(c)
  <2>1. pc[c] \in {"ensure", "store"} /\ job[c].on = "none"
    BY <1>10 DEF Ensure, Store, LockInv
  <2>2. /\ \/ pc'[c] = "capture" /\ job' = job
           \/ pc'[c] = "abs" /\ job'[c].on = "queue"
        /\ presses' = presses /\ report' = report
    BY <1>1, <1>10 DEF Ensure, Store, Spawn
  <2> QED BY <1>3, <2>1, <2>2 DEF Counted
<1>11. CASE Capture(c) \/ Create(c)
  <2>1. /\ pc'[c] \in {"create", "fallback", "store"} /\ job' = job /\ job[c].on = "none"
        /\ presses' = presses /\ report' = report /\ pc[c] \in {"capture", "create"}
    BY <1>1, <1>11 DEF Capture, Create, LockInv
  <2> QED BY <1>3, <2>1 DEF Counted
<1>12. CASE Landed(c)
  <2>1. /\ job' = job /\ job[c].on = "none" /\ presses' = presses /\ report'[c] = "abs"
        /\ pc[c] = "landed" /\ kind' = kind
        /\ pc'[c] = IF kind[c] = "scroll" THEN "fallback" ELSE AfterInput(c)
    BY <1>1, <1>12 DEF Landed, LockInv
  <2>2. AfterInput(c) \in {"unhold", "return"} /\ (kind[c] \in Clicking => kind[c] # "scroll")
    BY DEF AfterInput, Clicking
  <2>3. pc'[c] \in {"fallback", "unhold", "return"} /\ (kind[c] \in Clicking => pc'[c] # "fallback")
    BY <2>1, <2>2
  <2> QED BY <1>2, <1>3, <1>4, <2>1, <2>3 DEF Counted
<1>13. CASE Fallback(c)
  <2>1. /\ pc'[c] = "ydotool" /\ job'[c] = [on |-> "task", todo |-> Commands(c), ok |-> TRUE]
        /\ presses' = presses /\ report' = report /\ pc[c] = "fallback" /\ kind' = kind
    BY <1>1, <1>13 DEF Fallback
  <2>2. Commands(c) # <<>>
    BY CommandsShape
  <2> QED BY <1>2, <1>3, <2>1, <2>2 DEF Counted
<1>14. CASE Cancel(c)
  <2>1. /\ pc'[c] = "gone" /\ job' = job /\ presses' = presses /\ report' = report /\ kind' = kind
        /\ pc[c] \notin {"idle", "ensure", "store", "return", "gone"}
    BY <1>1, <1>14 DEF Cancel
  <2>2. pc[c] \in {"lock", "hold", "capture", "create", "abs", "landed", "fallback", "ydotool", "unhold"}
    BY <1>1, <2>1 DEF Step
  <2>3. job[c].on = "none" => pc[c] \notin {"abs", "ydotool"}
    BY DEF LockInv
  <2> QED BY <1>2, <1>3, <1>4, <2>1, <2>2, <2>3 DEF Counted
<1>15. CASE ThreadBegins(c)
  <2>1. /\ job[c].on = "queue" /\ job'[c].on = "thread" /\ pc' = pc /\ presses' = presses
        /\ report' = report /\ kind' = kind
    BY <1>1, <1>15 DEF ThreadBegins
  <2>2. pc[c] \in {"abs", "gone"}
    BY <1>1, <2>1 DEF LockInv, Step
  <2> QED BY <1>3, <2>1, <2>2 DEF Counted
<1> QED BY <1>5, <1>6, <1>7, <1>8, <1>9, <1>10, <1>11, <1>12, <1>13, <1>14, <1>15

(* A thread that has sent its click has pressed as often as it should.     *)
LEMMA CountedThread ==
  ASSUME TypeOK, LockInv, ButtonInv, CountInv, NEW c \in Call, ThreadEmits(c) \/ ThreadEnds(c)
  PROVE  Counted(c)'
<1> USE DEF Goto, callVars, deviceVars
<1>1. /\ job \in [Call -> Job] /\ pc \in [Call -> Step] /\ presses[c] \in Nat
      /\ ClickCount \in Nat \ {0}
      /\ job[c].on = "thread" /\ report' = report /\ kind' = kind
  BY PointerDeviceAssumption DEF TypeOK, ThreadEmits, ThreadEnds
<1>2. pc[c] \in {"abs", "gone"} /\ Counted(c) /\ ButtonLeft(c)
  BY <1>1 DEF LockInv, Step, CountInv, ButtonInv
<1>3. CASE ThreadEmits(c)
  <2>1. job'[c] = [job[c] EXCEPT !.todo = Tail(job[c].todo)] /\ pc' = pc
    BY <1>1, <1>3 DEF ThreadEmits
  <2>2. job'[c].on = "thread"
    BY <1>1, <2>1 DEF Job
  <2> QED BY <1>1, <1>2, <2>1, <2>2 DEF Counted
<1>4. CASE ThreadEnds(c)
  <2>1. /\ job'[c].on = "none" /\ presses' = presses
        /\ \/ job[c].todo = <<>> /\ pc'[c] \in {"landed", "gone"}
           \/ "abs" \in broken' /\ pc'[c] \in {"fallback", "gone"}
        /\ broken \subseteq broken'
    BY <1>1, <1>2, <1>4 DEF ThreadEnds, NoJob
  <2>2. Clean' => Clean /\ "abs" \notin broken'
    BY <2>1 DEF Clean
  <2>3. report[c] = "none" \/ kind[c] \notin Clicking
    BY <1>1, <1>2 DEF Counted
  <2>4. ASSUME kind[c] \in Clicking
        PROVE  /\ presses[c] <= ClickCount /\ presses[c] <= 2 * ClickCount
               /\ Clean' /\ job[c].todo = <<>> => presses[c] = ClickCount
    <3> DEFINE left == Len(job[c].todo)
               all  == Len(Travel(c))
    <3>1. job[c].todo \in Seq(Event) /\ all = 2 * ClickCount
      <4>1. slot.size \in Desktops /\ job[c].todo \in Seq(Event)
        BY <1>1, ThreadAlone
      <4>2. kind[c] # "scroll" /\ kind[c] \notin Dragging
        BY <2>4 DEF Clicking, Dragging
      <4> QED BY <4>1, <4>2, TravelShape
    <3>2. LET pairs == IF left < all THEN ClickCount - (left \div 2) ELSE 0
          IN  presses[c] <= pairs /\ ("abs" \notin broken => presses[c] = pairs)
      BY <1>2, <2>4 DEF ButtonLeft
    <3>3. left \in Nat /\ (job[c].todo = <<>> => left = 0)
      BY <3>1
    <3> HIDE DEF left, all
    <3>4. left \div 2 \in Nat
      BY <3>3
    <3>5. presses[c] <= ClickCount
      BY <1>1, <3>2, <3>4
    <3>6. job[c].todo = <<>> => left < all /\ ClickCount - (left \div 2) = ClickCount
      BY <1>1, <3>1, <3>3
    <3> QED BY <1>1, <2>1, <2>2, <3>2, <3>5, <3>6
  <2> QED BY <1>1, <2>1, <2>2, <2>3, <2>4 DEF Counted
<1> QED BY <1>3, <1>4

(* A sequence is empty when its length is zero.                            *)
LEMMA NothingLeft ==
  ASSUME NEW S, NEW t \in Seq(S)
  PROVE  t = <<>> <=> Len(t) = 0
  OBVIOUS

(* A task that has run its click has, too, and one that failed at most     *)
(* once more.                                                              *)
LEMMA CountedTask ==
  ASSUME TypeOK, LockInv, TaskInv, KeysInv, CountInv, NEW c \in Call,
         CommandRuns(c) \/ CommandFails(c) \/ TaskEnds(c)
  PROVE  Counted(c)'
<1> USE DEF Goto, callVars, deviceVars
<1>1. /\ job \in [Call -> Job] /\ pc \in [Call -> Step] /\ presses \in [Call -> Nat]
      /\ presses[c] \in Nat /\ ClickCount \in Nat \ {0} /\ job[c] \in Job
      /\ report \in [Call -> {"none", "abs", "ydotool", "failed"}]
      /\ job[c].on = "task" /\ kind' = kind
  BY PointerDeviceAssumption DEF TypeOK, CommandRuns, CommandFails, TaskEnds
<1>2. pc[c] \in {"ydotool", "gone"} /\ Counted(c)
  BY <1>1 DEF LockInv, Step, CountInv
<1>3. ASSUME NEW events, presses' = [presses EXCEPT ![c] = @ + PressesIn(ydDown, events)]
      PROVE  presses'[c] = presses[c] + PressesIn(ydDown, events)
  BY <1>1, <1>3
<1>4. kind[c] \in Clicking => kind[c] \notin Dragging \cup {"chord", "scroll"}
  BY DEF Clicking, Dragging
<1>5. CASE CommandRuns(c)
  <2>1. job'[c] = [job[c] EXCEPT !.todo = Tail(job[c].todo)] /\ pc' = pc /\ report' = report
        /\ broken' = broken /\ job[c].todo # <<>>
    BY <1>1, <1>5 DEF CommandRuns
  <2>2. job'[c].on = "task" /\ job'[c].todo = Tail(job[c].todo)
    BY <1>1, <2>1 DEF Job
  <2>3. presses'[c] = presses[c] + PressesIn(ydDown, Head(job[c].todo))
    BY <1>3, <1>5 DEF CommandRuns, Sends
  <2>4. Clean' <=> Clean
    BY <2>1 DEF Clean
  <2>5. ASSUME kind[c] \in Clicking
        PROVE  /\ job'[c].todo # <<>> => presses'[c] = presses[c]
               /\ job'[c].todo = <<>> => /\ presses'[c] <= 2 * ClickCount
                                         /\ Clean => presses'[c] = ClickCount
    <3>1. /\ job[c].todo \in Seq(Seq(Event)) /\ Len(job[c].todo) \in 1..2
          /\ Len(job[c].todo) = 2 => Head(job[c].todo) = <<Move(aim[c][1])>>
          /\ Len(job[c].todo) = 1 => Head(job[c].todo) = Clicks
      BY <1>1, <1>4, <2>1, <2>5, HeadCommand
    <3>2. Len(Tail(job[c].todo)) = Len(job[c].todo) - 1
      BY <2>1, <3>1
    <3>3. CASE Len(job[c].todo) = 2
      <4>1. Tail(job[c].todo) # <<>>
        <5>1. Len(Tail(job[c].todo)) = 1
          BY <3>1, <3>2, <3>3
        <5>2. Tail(job[c].todo) \in Seq(Seq(Event))
          BY <2>1, <3>1
        <5>3. Tail(job[c].todo) = <<>> <=> Len(Tail(job[c].todo)) = 0
          BY <5>2, NothingLeft
        <5>4. Len(Tail(job[c].todo)) # 0
          BY <5>1
        <5> QED BY <5>3, <5>4, Zenon
      <4>2. PressesIn(ydDown, Head(job[c].todo)) = 0
        <5>1. Head(job[c].todo) = <<Move(aim[c][1])>>
          BY <3>1, <3>3
        <5>2. PressesIn(ydDown, <<Move(aim[c][1])>>) = 0
          BY MovePresses
        <5> QED BY <5>1, <5>2
      <4> QED BY <1>1, <2>2, <2>3, <4>1, <4>2
    <3>4. CASE Len(job[c].todo) = 1
      <4>1. Tail(job[c].todo) = <<>>
        <5>1. Len(Tail(job[c].todo)) = 0
          BY <3>1, <3>2, <3>4
        <5>2. Tail(job[c].todo) \in Seq(Seq(Event))
          BY <2>1, <3>1
        <5>3. Tail(job[c].todo) = <<>> <=> Len(Tail(job[c].todo)) = 0
          BY <5>2, NothingLeft
        <5> QED BY <5>1, <5>3
      <4>2. presses[c] <= ClickCount /\ (Clean => presses[c] = 0)
        BY <1>1, <1>2, <2>1, <2>5 DEF Counted
      <4>3. Clean => "button" \notin ydDown
        <5>1. Clean => broken \cap {"click", "release"} = {}
          BY DEF Clean
        <5>2. ~ \E d \in Call : Releasing(d)
          BY <1>1, <1>4, <2>5 DEF Releasing, LockInv
        <5> QED BY <5>1, <5>2, KeysParts DEF ButtonExplained
      <4>4. PressesIn(ydDown, Clicks) \in Nat
        <5>1. Len(Clicks) \in Nat /\ DOMAIN Clicks = 1..Len(Clicks)
          BY ClicksShape
        <5> QED BY <5>1, PressesType
      <4>5. PressesIn(ydDown, Clicks) <= ClickCount /\ (Clean => PressesIn(ydDown, Clicks) = ClickCount)
        BY <4>3, ClicksPress
      <4>6. presses'[c] = presses[c] + PressesIn(ydDown, Clicks)
        BY <2>3, <3>1, <3>4
      <4> QED BY <1>1, <2>2, <4>1, <4>2, <4>4, <4>5, <4>6
    <3> QED BY <3>1, <3>3, <3>4
  <2> QED BY <1>1, <1>2, <2>1, <2>2, <2>4, <2>5 DEF Counted
<1>6. CASE CommandFails(c)
  <2>1. /\ job'[c] = [job[c] EXCEPT !.todo = AfterFailure(c), !.ok = FALSE] /\ pc' = pc
        /\ report' = report /\ broken' = broken \cup {Cause(c)} /\ job[c].todo # <<>>
    BY <1>1, <1>6 DEF CommandFails
  <2>2. job'[c].on = "task" /\ job'[c].todo = AfterFailure(c)
    BY <1>1, <2>1 DEF Job
  <2>3. ~Clean'
    <3>1. Cause(c) \notin {"hold", "unhold", "cancel"}
      BY DEF Cause
    <3> QED BY <2>1, <3>1 DEF Clean
  <2>4. ASSUME kind[c] \in Clicking
        PROVE  job'[c].todo = <<>> /\ presses'[c] <= 2 * ClickCount
    <3>1. job'[c].todo = <<>>
      BY <1>4, <2>2, <2>4 DEF AfterFailure
    <3>2. /\ Len(job[c].todo) \in 1..2
          /\ Len(job[c].todo) = 2 => Head(job[c].todo) = <<Move(aim[c][1])>>
          /\ Len(job[c].todo) = 1 => Head(job[c].todo) = Clicks
      BY <1>1, <1>4, <2>1, <2>4, HeadCommand
    <3>3. presses[c] <= ClickCount
      BY <1>1, <1>2, <2>1, <2>4 DEF Counted
    <3>4. PICK n \in 0..Len(Head(job[c].todo)) : presses'[c] = presses[c] + PressesIn(ydDown, SubSeq(Head(job[c].todo), 1, n))
      BY <1>3, <1>6 DEF CommandFails, Sends
    <3>5. CASE Head(job[c].todo) = <<Move(aim[c][1])>>
      <4>1. n \in 0..1
        BY <3>4, <3>5
      <4>2. PressesIn(ydDown, SubSeq(Head(job[c].todo), 1, n)) = 0
        BY <3>5, <4>1, MovePresses
      <4> QED BY <1>1, <3>1, <3>3, <3>4, <4>2
    <3>6. CASE Head(job[c].todo) = Clicks
      <4>1. PressesIn(ydDown, SubSeq(Clicks, 1, n)) <= ClickCount
        BY <3>4, <3>6, ClicksPress
      <4>2. PressesIn(ydDown, SubSeq(Clicks, 1, n)) \in Nat
        <5>1. n \in Nat /\ DOMAIN SubSeq(Clicks, 1, n) = 1..n
          BY <3>4, <3>6, ClicksShape, Beginning
        <5> QED BY <5>1, PressesType
      <4>3. presses'[c] = presses[c] + PressesIn(ydDown, SubSeq(Clicks, 1, n))
        BY <3>4, <3>6
      <4> QED BY <1>1, <3>1, <3>3, <4>1, <4>2, <4>3
    <3>7. Head(job[c].todo) = <<Move(aim[c][1])>> \/ Head(job[c].todo) = Clicks
      BY <3>2
    <3> QED BY <3>5, <3>6, <3>7
  <2> QED BY <1>1, <1>2, <2>1, <2>2, <2>3, <2>4 DEF Counted
<1>7. CASE TaskEnds(c)
  <2>1. /\ job[c].todo = <<>> /\ job'[c].on = "none" /\ presses' = presses /\ broken' = broken
        /\ \/ pc[c] = "ydotool" /\ pc'[c] \in {"unhold", "return"}
           \/ pc'[c] = "gone" /\ report' = report
    BY <1>1, <1>2, <1>7 DEF TaskEnds, NoJob, AfterInput
  <2>2. Clean' <=> Clean
    BY <2>1 DEF Clean
  <2> QED BY <1>1, <1>2, <2>1, <2>2 DEF Counted
<1> QED BY <1>5, <1>6, <1>7

(* Every step keeps the counts of the clicks.                              *)
LEMMA CountStep ==
  ASSUME TypeOK, LockInv, ButtonInv, TaskInv, KeysInv, CountInv, [Next]_vars
  PROVE  CountInv'
<1>1. CASE Warp \/ Resize \/ UNCHANGED vars
  BY <1>1 DEF Warp, Resize, vars, callVars, deviceVars, CountInv, Counted, Clean
<1>2. ASSUME NEW c \in Call, Proceeds(c) \/ Cancel(c) PROVE CountInv'
  <2>1. Counted(c)'
    BY <1>2, CountedAside, CountedThread, CountedTask DEF Proceeds
  <2>2. broken \subseteq broken'
    BY <1>2 DEF Proceeds, Start, Lock, Hold, Unhold, Return, Ensure, Capture, Create, Store,
       ThreadBegins, ThreadEmits, ThreadEnds, Landed, Fallback, CommandRuns, CommandFails,
       TaskEnds, Cancel
  <2>3. ASSUME NEW d \in Call \ {c} PROVE Counted(d)'
    <3>1. /\ pc'[d] = pc[d] /\ kind'[d] = kind[d] /\ job'[d] = job[d] /\ presses'[d] = presses[d]
          /\ report'[d] = report[d]
      BY <1>2, OthersAlone
    <3>2. Clean' => Clean
      BY <2>2 DEF Clean
    <3>3. Counted(d)
      BY DEF CountInv
    <3> QED BY <3>1, <3>2, <3>3 DEF Counted
  <2> QED BY <2>1, <2>3 DEF CountInv
<1> QED BY <1>1, <1>2 DEF Next

(* Nothing is under way at first.                                          *)
LEMMA InitInv == Init => IInv
<1> SUFFICES ASSUME Init PROVE IInv
  OBVIOUS
<1>1. /\ \A c \in Call : job[c].on = "none" /\ presses[c] = 0 /\ report[c] = "none"
                         /\ pc[c] = "idle" /\ kind[c] = "none"
      /\ ~slot.down /\ ydDown = {} /\ mutex = Nobody
  BY DEF Init, NoJob, NoDevice
<1>2. GestureInv
  BY <1>1 DEF GestureInv
<1>3. ButtonInv
  BY <1>1 DEF ButtonInv
<1>4. TaskInv
  BY <1>1 DEF TaskInv
<1>5. KeysInv
  BY <1>1 DEF KeysInv
<1>6. CountInv
  BY <1>1 DEF CountInv, Counted, Clicking
<1> QED BY <1>2, <1>3, <1>4, <1>5, <1>6, InitHolds DEF IInv

-----------------------------------------------------------------------------
(* Consistent is an invariant: lock, slot, mutex, threads, tasks, buttons, *)
(* keys and counts stay in step, for any number of calls, any desktops,    *)
(* aims, modifiers, clicks and drag steps, whatever fails or is dropped.   *)
THEOREM Consistency == Spec => []Consistent
<1>1. Init => Consistent
  BY InitHolds, InitInv DEF Consistent
<1>2. Consistent /\ [Next]_vars => Consistent'
  BY TypeStep, InvStep, GestureStep, TaskStep, KeysStep, CountStep DEF Consistent, IInv
<1> QED BY <1>1, <1>2, PTL DEF Spec

(* The absolute pointer is created once and keeps its size, though calls   *)
(* look for it, capture the screen, create it and store it in steps of     *)
(* their own and may be dropped between them (ensure_abs_pointer).         *)
THEOREM CreatedOnce == Spec => DeviceCreatedOnce
<1>1. ASSUME Consistent, [Next]_vars
      PROVE  /\ slot.size # NoDevice.size => slot'.size = slot.size
             /\ \A c \in Call : pc[c] = "store" /\ pc'[c] = "abs" => slot = NoDevice
  <2>1. \A c \in Call : pc[c] = "store" => slot = NoDevice
    BY <1>1 DEF Consistent, IInv, LockInv
  <2>2. slot.size # NoDevice.size => slot'.size = slot.size
    <3>1. ASSUME NEW c \in Call, Store(c), slot.size # NoDevice.size PROVE FALSE
      BY <2>1, <3>1 DEF Store
    <3>2. ASSUME NEW c \in Call, ThreadEmits(c), slot.size # NoDevice.size
          PROVE  slot'.size = slot.size
      <4>1. slot \in [size : Desktops, position : Point, down : BOOLEAN]
        BY <1>1, <3>2 DEF Consistent, TypeOK
      <4> QED BY <3>2, <4>1 DEF ThreadEmits, Motion, Button
    <3>3. ASSUME NEW c \in Call, Proceeds(c) \/ Cancel(c), ~Store(c), ~ThreadEmits(c)
          PROVE  slot' = slot
      BY <3>3 DEF Proceeds, Start, Lock, Hold, Unhold, Return, Ensure, Capture, Create,
         ThreadBegins, ThreadEnds, Landed, Fallback, CommandRuns, CommandFails, TaskEnds,
         Cancel, deviceVars
    <3>4. Warp \/ Resize \/ UNCHANGED vars => slot' = slot
      BY DEF Warp, Resize, vars, deviceVars
    <3> QED BY <1>1, <3>1, <3>2, <3>3, <3>4 DEF Next
  <2> QED BY <2>1, <2>2
<1>2. Consistent /\ [Next]_vars =>
        [/\ slot.size # NoDevice.size => slot'.size = slot.size
         /\ \A c \in Call : pc[c] = "store" /\ pc'[c] = "abs" => slot = NoDevice]_vars
  BY <1>1
<1> QED BY <1>2, Consistency, PTL DEF Spec, DeviceCreatedOnce

(* A button or key is left down only after a failure that explains it      *)
(* (LeftDownByFailure): click() and drag() of abs_pointer.rs, and          *)
(* run_ydotool_drag(), which lets go of a button it tried to press.        *)
THEOREM LeftDown == Spec => []LeftDownByFailure
<1>1. Consistent => LeftDownByFailure
  <2> SUFFICES ASSUME ButtonInv, KeysInv PROVE LeftDownByFailure
    BY DEF Consistent, IInv
  <2>1. mutex = Nobody /\ slot.down => "abs" \in broken
    BY DEF ButtonInv
  <2>2. (\A c \in Call : job[c].on # "task") /\ "button" \in ydDown
          => broken \cap {"click", "release"} # {}
    BY DEF KeysInv
  <2>3. "key" \in ydDown => "chord" \in broken
    BY DEF KeysInv
  <2>4. (\A c \in Call : ~Holds(c)) /\ ydDown \cap {"ctrl", "shift"} # {}
          => broken \cap {"chord", "hold", "unhold", "cancel"} # {}
    BY DEF KeysInv
  <2> QED BY <2>1, <2>2, <2>3, <2>4 DEF LeftDownByFailure
<1> QED BY <1>1, Consistency, PTL

(* A click that reports success pressed exactly click_count times, and one *)
(* whose pointer failed half-way at most twice that (ClicksAsAsked), for   *)
(* any click_count: click() of abs_pointer.rs and the fallback of          *)
(* server.rs.                                                              *)
THEOREM AsAsked == Spec => []ClicksAsAsked
<1>1. Consistent => ClicksAsAsked
  <2> SUFFICES ASSUME Consistent, NEW c \in Call, kind[c] \in Clicking
               PROVE  /\ report[c] \in {"abs", "ydotool"} /\ Clean => presses[c] = ClickCount
                      /\ presses[c] <= 2 * ClickCount
    BY DEF ClicksAsAsked, Clean
  <2>1. /\ ClickCount \in Nat \ {0} /\ presses[c] \in Nat /\ job[c] \in Job /\ pc[c] \in Step
        /\ Counted(c)
    BY PointerDeviceAssumption DEF Consistent, TypeOK, IInv, CountInv
  <2>2. presses[c] <= ClickCount => presses[c] <= 2 * ClickCount
    BY <2>1
  <2>3. CASE job[c].on = "queue" \/ pc[c] \in {"idle", "lock", "hold", "ensure", "capture", "create", "store"}
    BY <2>1, <2>2, <2>3 DEF Counted
  <2>4. CASE job[c].on = "thread"
    <3> DEFINE left == Len(job[c].todo)
    <3>1. left \in Nat
      BY <2>1, <2>4 DEF Job
    <3>2. left \div 2 \in Nat
      <4>1. \A n \in Nat : n \div 2 \in Nat
        OBVIOUS
      <4> HIDE DEF left
      <4> QED BY <3>1, <4>1
    <3>3. presses[c] <= ClickCount - (left \div 2) \/ presses[c] <= 0
      BY <2>4 DEF Consistent, IInv, ButtonInv, ButtonLeft
    <3> HIDE DEF left
    <3>4. presses[c] <= ClickCount
      BY <2>1, <3>2, <3>3
    <3> QED BY <2>1, <2>2, <2>4, <3>4 DEF Counted
  <2>5. CASE job[c].on = "task"
    BY <2>1, <2>2, <2>5 DEF Counted
  <2>6. CASE job[c].on = "none" /\ pc[c] \in {"abs", "landed", "fallback", "ydotool", "unhold", "return", "gone"}
    <3>1. pc[c] \notin {"abs", "ydotool"}
      BY <2>6 DEF Consistent, IInv, LockInv
    <3> QED BY <2>1, <2>2, <2>6, <3>1 DEF Counted
  <2>7. job[c].on \in {"none", "queue", "thread", "task"}
    BY <2>1 DEF Job
  <2> QED BY <2>1, <2>3, <2>4, <2>5, <2>6, <2>7 DEF Step
<1> QED BY <1>1, Consistency, PTL

(* The only step that presses or releases the device's button is an event  *)
(* of the thread in its mutex.                                             *)
LEMMA ClickedByThread ==
  ASSUME Consistent, Next, Clicked, NEW c \in Call, mutex = c
  PROVE  ThreadEmits(c)
<1>1. ASSUME NEW d \in Call, Store(d) PROVE FALSE
  BY <1>1 DEF Consistent, IInv, LockInv, Store, Clicked
<1>2. ASSUME NEW d \in Call, ThreadEmits(d) PROVE d = c
  BY <1>2 DEF Consistent, IInv, LockInv, ThreadEmits
<1>3. ASSUME NEW d \in Call, Proceeds(d) \/ Cancel(d), ~Store(d), ~ThreadEmits(d)
      PROVE  slot' = slot
  BY <1>3 DEF Proceeds, Start, Lock, Hold, Unhold, Return, Ensure, Capture, Create,
     ThreadBegins, ThreadEnds, Landed, Fallback, CommandRuns, CommandFails, TaskEnds,
     Cancel, deviceVars
<1>4. Warp \/ Resize => slot' = slot
  BY DEF Warp, Resize, deviceVars
<1>5. slot' # slot
  BY DEF Clicked
<1> QED BY <1>1, <1>2, <1>3, <1>4, <1>5 DEF Next

(* Where the button is pressed or released.                                *)
LEMMA LandsThen ==
  ASSUME Consistent, Next, Clicked, NEW c \in Call, mutex = c, ~moved, slot.size = desktop
  PROVE  \/ slot'.down /\ LandsAt(c, aim[c][1])
         \/ ~slot'.down /\ kind[c] \notin Dragging
         \/ ~slot'.down /\ LandsAt(c, aim[c][2])
         \/ ~slot'.down /\ Emitted(desktop, aim[c][1]) = Emitted(desktop, aim[c][2])
<1> DEFINE todo   == job[c].todo
           all    == Len(Travel(c))
           before == Len(todo) - all
           start  == Emitted(slot.size, aim[c][1])
           end    == Emitted(slot.size, aim[c][2])
<1>1. ThreadEmits(c)
  BY ClickedByThread
<1>2. TypeOK /\ LockInv /\ GestureInv
  BY DEF Consistent, IInv
<1>3. /\ todo[1] \in Event /\ Len(todo) \in Nat /\ Len(todo) >= 1 /\ all \in Nat
      /\ IF todo[1].do = "move" THEN Motion(c, todo[1].at) ELSE Button(c, todo[1])
      /\ before <= 0 => 1 - before \in 1..all /\ todo[1] = Travel(c)[1 - before]
      /\ before > 0 => todo[1].do = "move"
  BY <1>1, <1>2, NextEvent
<1>4. slot \in [size : Desktops, position : Point, down : BOOLEAN] /\ GestureLeft(c)
  BY <1>1, <1>2, ThreadAlone DEF ThreadEmits, GestureInv
<1>5. todo[1].do # "move" /\ (slot'.down <=> todo[1].do = "down")
  BY <1>3, <1>4 DEF Motion, Button, Clicked
<1>6. before \in Int /\ before = Len(todo) - all
  BY <1>3
<1> HIDE DEF before, all
<1>7. before <= 0 /\ 1 - before \in 1..all /\ todo[1] = Travel(c)[1 - before]
  <2>1. before <= 0 \/ before > 0
    BY <1>6
  <2> QED BY <1>3, <1>5, <2>1
<1>8. /\ slot.size # Single /\ (before = 0 \/ kind[c] \notin Dragging \/ (Len(todo) <= 1 /\ start # end))
         => cursor = slot.position
  <2>1. Lands(slot.size, slot.position) = slot.position
    BY <1>2, <1>4, LandsThere DEF TypeOK
  <2>2. before = 0 \/ before < 0
    BY <1>6, <1>7
  <2> QED BY <1>4, <2>1, <2>2 DEF GestureLeft, before, all
<1>9. /\ Travel(c) \in Seq(Event)
      /\ Steps(c) \in Nat \ {0}
      /\ kind[c] = "scroll" => all = 0
      /\ kind[c] \in Dragging =>
           /\ all = Steps(c) + 2
           /\ Travel(c)[1] = Down("button") /\ Travel(c)[Steps(c) + 2] = Up("button")
           /\ \A i \in 2..(Steps(c) + 1) : Travel(c)[i].do = "move"
  <2>1. \A p : Move(p).do = "move"
    BY DEF Move
  <2> QED BY <1>2, <1>4, <2>1, TravelShape DEF all
<1>10. CASE kind[c] \notin Dragging
  <2>1. slot.position = start
    BY <1>4, <1>7, <1>10 DEF GestureLeft, before, all
  <2>2. slot'.down => LandsAt(c, aim[c][1])
    BY <1>8, <1>10, <2>1 DEF LandsAt
  <2> QED BY <1>10, <2>2
<1>11. CASE kind[c] \in Dragging
  <2> DEFINE i == 1 - before
  <2>1. i \in Nat /\ 1 <= i /\ i <= Steps(c) + 2 /\ todo[1] = Travel(c)[i]
    <3>1. i \in Nat /\ 1 <= i /\ i <= all
      BY <1>3, <1>6, <1>7
    <3> QED BY <1>7, <1>9, <1>11, <3>1
  <2>2. before = 1 - i /\ Len(todo) = Steps(c) + 3 - i /\ all - 2 = Steps(c)
    <3> DEFINE n    == Steps(c)
               left == Len(todo)
    <3>1. n \in Nat /\ left \in Nat /\ all = n + 2 /\ before = left - all /\ i = 1 - before
      BY <1>3, <1>6, <1>9, <1>11
    <3> HIDE DEF n, left, i
    <3>2. before = 1 - i /\ left = n + 3 - i /\ all - 2 = n
      BY <3>1
    <3> QED BY <3>2 DEF n, left
  <2> HIDE DEF i
  <2>3. i \notin 2..(Steps(c) + 1)
    BY <1>5, <1>9, <1>11, <2>1
  <2>4. i = 1 \/ i = Steps(c) + 2
    BY <1>9, <2>1, <2>3
  <2>5. CASE i = 1
    <3>1. before = 0
      BY <2>2, <2>5
    <3>2. slot.position = start
      BY <1>4, <3>1 DEF GestureLeft, before, all
    <3>3. slot'.down
      BY <1>5, <1>9, <1>11, <2>1, <2>5 DEF Down
    <3> QED BY <1>8, <3>1, <3>2, <3>3 DEF LandsAt
  <2>6. CASE i = Steps(c) + 2
    <3>1. ~slot'.down
      BY <1>5, <1>9, <1>11, <2>1, <2>6 DEF Up
    <3>2. before < 0 /\ Len(todo) <= 1 /\ -before - 1 = Steps(c)
      <4> DEFINE n    == Steps(c)
                 left == Len(todo)
      <4>1. n \in Nat /\ i = n + 2 /\ before = 1 - i /\ left = n + 3 - i
        BY <1>9, <2>2, <2>6
      <4> HIDE DEF n, left
      <4>2. before < 0 /\ left <= 1 /\ -before - 1 = n
        BY <4>1
      <4> QED BY <4>2 DEF n, left
    <3>3. slot.position = DragPointAt(start, end, -before - 1, all - 2)
      BY <1>4, <1>11, <3>2 DEF GestureLeft, before, all
    <3>4. start \in Point /\ end \in Point
      BY <1>2, <1>4, EmittedType DEF TypeOK
    <3>5. DragPointAt(start, end, Steps(c), Steps(c)) = end
      BY <1>9, <3>4, DragEnds
    <3>6. slot.position = end
      BY <2>2, <3>2, <3>3, <3>5
    <3> QED BY <1>8, <1>11, <3>1, <3>2, <3>6 DEF LandsAt
  <2> QED BY <2>4, <2>5, <2>6
<1> QED BY <1>10, <1>11

(* A press lands on its point and the release of a drag on its end         *)
(* (LandsWhereAimed), for every desktop size, every pair of points, on the *)
(* desktop or off it, and every number of drag steps: the nudge of         *)
(* move_to(), the clamping and the rounded route of drag() included.       *)
THEOREM Landing == Spec => LandsWhereAimed
<1>1. Consistent /\ [Next]_vars =>
        [\A c \in Call :
           (/\ Clicked /\ mutex = c /\ ~moved
            /\ slot.size = desktop)
           => \/ slot'.down /\ LandsAt(c, aim[c][1])
              \/ ~slot'.down /\ kind[c] \notin Dragging
              \/ ~slot'.down /\ LandsAt(c, aim[c][2])
              \/ ~slot'.down /\ Emitted(desktop, aim[c][1]) = Emitted(desktop, aim[c][2])]_vars
  BY LandsThen
<1> QED BY <1>1, Consistency, PTL DEF Spec, LandsWhereAimed

=============================================================================
