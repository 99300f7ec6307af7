----------------------- MODULE InputDispatch_proofs -------------------------
(***************************************************************************)
(* Proofs about InputDispatch, for any set of concurrent calls, any tools, *)
(* any windows, with or without the absolute pointer and dropped callers.  *)
(***************************************************************************)
EXTENDS InputDispatch, TLAPS

(* The tools of the table.                                                 *)
LEMMA KindDef ==
  Kind = {"none", "click", "modClick", "scroll", "drag", "modDrag", "keys",
          "type", "set", "action", "activate", "read"}
  BY DEF Kind, Handler

(* Their handlers.                                                         *)
LEMMA Table ==
  /\ Handler["none"] = <<>>
  /\ Handler["click"] = ClickSteps
  /\ Handler["modClick"] = ModClickSteps
  /\ Handler["scroll"] = ScrollSteps
  /\ Handler["drag"] = DragSteps
  /\ Handler["modDrag"] = ModDragSteps
  /\ Handler["keys"] = KeysSteps
  /\ Handler["type"] = TypeSteps
  /\ Handler["set"] = SetSteps
  /\ Handler["action"] = ActionSteps
  /\ Handler["activate"] = ActivateSteps
  /\ Handler["read"] = ReadSteps
  BY DEF Handler

(* The length of each handler.                                             *)
LEMMA HandlerLen ==
  ASSUME NEW k \in Kind
  PROVE  /\ Len(Handler[k]) \in Nat
         /\ Len(Handler[k]) = 0 <=> k = "none"
         /\ Len(Handler[k]) > 1 <=> k \notin {"none", "activate", "read"}
  <1> USE DEF NoCall
  <1>1. CASE k = "click" BY <1>1, Table DEF ClickSteps
  <1>2. CASE k = "modClick" BY <1>2, Table DEF ModClickSteps
  <1>3. CASE k = "scroll" BY <1>3, Table DEF ScrollSteps
  <1>4. CASE k = "drag" BY <1>4, Table DEF DragSteps
  <1>5. CASE k = "modDrag" BY <1>5, Table DEF ModDragSteps
  <1>6. CASE k = "keys" BY <1>6, Table DEF KeysSteps
  <1>7. CASE k = "type" BY <1>7, Table DEF TypeSteps
  <1>8. CASE k = "set" BY <1>8, Table DEF SetSteps
  <1>9. CASE k = "action" BY <1>9, Table DEF ActionSteps
  <1>10. CASE k = "activate" BY <1>10, Table DEF ActivateSteps
  <1>11. CASE k = "read" BY <1>11, Table DEF ReadSteps
  <1>12. CASE k = "none" BY <1>12, Table
  <1> QED
    BY <1>1, <1>2, <1>3, <1>4, <1>5, <1>6, <1>7, <1>8, <1>9, <1>10, <1>11, <1>12, KindDef

LEMMA GatedDef ==
  Gated = Kind \ {"none", "activate", "read"}
  BY HandlerLen DEF Gated

(* The gate is the first step of a gated tool and no other, and no step is *)
(* called as the end of the handler is.                                    *)
LEMMA GateFirst ==
  ASSUME NEW k \in Kind, NEW i \in 1..Len(Handler[k])
  PROVE  /\ Handler[k][i] = "gate" <=> k \in Gated /\ i = 1
         /\ Handler[k][i] # "return"
  <1>1. CASE k = "click" BY <1>1, Table, GatedDef, KindDef DEF ClickSteps
  <1>2. CASE k = "modClick" BY <1>2, Table, GatedDef, KindDef DEF ModClickSteps
  <1>3. CASE k = "scroll" BY <1>3, Table, GatedDef, KindDef DEF ScrollSteps
  <1>4. CASE k = "drag" BY <1>4, Table, GatedDef, KindDef DEF DragSteps
  <1>5. CASE k = "modDrag" BY <1>5, Table, GatedDef, KindDef DEF ModDragSteps
  <1>6. CASE k = "keys" BY <1>6, Table, GatedDef, KindDef DEF KeysSteps
  <1>7. CASE k = "type" BY <1>7, Table, GatedDef, KindDef DEF TypeSteps
  <1>8. CASE k = "set" BY <1>8, Table, GatedDef, KindDef DEF SetSteps
  <1>9. CASE k = "action" BY <1>9, Table, GatedDef, KindDef DEF ActionSteps
  <1>10. CASE k = "activate" BY <1>10, Table, GatedDef, KindDef DEF ActivateSteps
  <1>11. CASE k = "read" BY <1>11, Table, GatedDef, KindDef DEF ReadSteps
  <1>12. CASE k = "none" BY <1>12, Table, GatedDef, KindDef
  <1> QED
    BY <1>1, <1>2, <1>3, <1>4, <1>5, <1>6, <1>7, <1>8, <1>9, <1>10, <1>11, <1>12, KindDef

(* The operation lock is taken at a "lock", given back at an "unlock", and *)
(* kept by every other step; input is sent with it.                        *)
LockFacts(k) ==
  \A i \in 1..Len(Handler[k]) :
    /\ Handler[k][i] = "lock" => i \notin Locked(k) /\ i + 1 \in Locked(k)
    /\ Handler[k][i] = "unlock" => i + 1 \notin Locked(k)
    /\ Handler[k][i] \notin {"lock", "unlock"} => (i \in Locked(k) <=> i + 1 \in Locked(k))
    /\ Handler[k][i] \in {"emit", "move"} => i \in Locked(k)
    /\ i \in Locked(k) => i > 1 /\ k \in Gated
    /\ Handler[k][i] = "unhold" => i \notin Locked(k)
    /\ Handler[k][i] = "focus" /\ k \notin {"drag", "modDrag", "activate"} => i \in Locked(k)

(* See LockFacts.                                                          *)
LEMMA LockSteps ==
  ASSUME NEW k \in Kind
  PROVE  LockFacts(k)
  <1> USE DEF Locked, LockFacts
  <1>1. CASE k = "click" BY SMTT(60), <1>1, Table, GatedDef, KindDef DEF ClickSteps
  <1>2. CASE k = "modClick" BY SMTT(60), <1>2, Table, GatedDef, KindDef DEF ModClickSteps
  <1>3. CASE k = "scroll" BY SMTT(60), <1>3, Table, GatedDef, KindDef DEF ScrollSteps
  <1>4. CASE k = "drag" BY SMTT(60), <1>4, Table, GatedDef, KindDef DEF DragSteps
  <1>5. CASE k = "modDrag" BY SMTT(60), <1>5, Table, GatedDef, KindDef DEF ModDragSteps
  <1>6. CASE k = "keys" BY SMTT(60), <1>6, Table, GatedDef, KindDef DEF KeysSteps
  <1>7. CASE k = "type" BY SMTT(60), <1>7, Table, GatedDef, KindDef DEF TypeSteps
  <1>8. CASE k = "set" BY SMTT(60), <1>8, Table, GatedDef, KindDef DEF SetSteps
  <1>9. CASE k = "action" BY SMTT(60), <1>9, Table, GatedDef, KindDef DEF ActionSteps
  <1>10. CASE k = "activate" BY SMTT(60), <1>10, Table, GatedDef, KindDef DEF ActivateSteps
  <1>11. CASE k = "read" BY SMTT(60), <1>11, Table, GatedDef, KindDef DEF ReadSteps
  <1>12. CASE k = "none" BY SMTT(60), <1>12, Table, GatedDef, KindDef
  <1> QED
    BY <1>1, <1>2, <1>3, <1>4, <1>5, <1>6, <1>7, <1>8, <1>9, <1>10, <1>11, <1>12, KindDef

(* Locked(k) has steps of the handler only, none of them the first.        *)
LEMMA LockedRange ==
  ASSUME NEW k \in Kind
  PROVE  /\ Locked(k) \subseteq 2..Len(Handler[k])
         /\ Locked("none") = {}
         /\ \A i \in Locked(k) : k \in Gated
  <1>1. Locked(k) \subseteq 1..Len(Handler[k])  BY DEF Locked
  <1>2. \A i \in Locked(k) : i > 1 /\ k \in Gated  BY <1>1, LockSteps DEF LockFacts
  <1>3. Locked("none") = {}  BY Table DEF Locked
  <1> QED BY <1>1, <1>2, <1>3, HandlerLen

(* An early return goes on with a later step, out of the locked part.      *)
LEMMA AbortFacts ==
  ASSUME NEW k \in Kind, NEW i \in 1..Len(Handler[k])
  PROVE  /\ Abort(k, i) \in (i+1)..(Len(Handler[k]) + 1)
         /\ Abort(k, i) \notin Locked(k)
  <1> DEFINE n == Len(Handler[k])
             releases == {j \in (i+1)..n : Handler[k][j] = "unhold"}
             holds == {j \in 1..(i-1) : Handler[k][j] = "hold"}
  <1>1. n \in Nat /\ i \in 1..n  BY HandlerLen
  <1>2. CASE holds # {} /\ releases # {}
    <2>1. Abort(k, i) = CHOOSE j \in releases : TRUE  BY <1>2 DEF Abort
    <2>2. Abort(k, i) \in releases  BY <2>1, <1>2
    <2>3. Abort(k, i) \in 1..n /\ Handler[k][Abort(k, i)] = "unhold"
      BY <2>2, <1>1
    <2> QED BY <1>1, <2>2, <2>3, LockSteps DEF LockFacts
  <1>3. CASE ~(holds # {} /\ releases # {})
    <2>1. Abort(k, i) = n + 1  BY <1>3 DEF Abort
    <2> QED BY <2>1, <1>1, LockedRange
  <1> QED BY <1>2, <1>3

-----------------------------------------------------------------------------
(* The parts of TypeOK about the calls and about the lease.                *)
CallsOK ==
  /\ kind \in [Call -> Kind]
  /\ pc \in [Call -> Nat]
  /\ \A c \in Call : pc[c] \in 1..(Len(Handler[kind[c]]) + 1)

LeaseOK ==
  /\ holder \in {Me, Other, Nobody}
  /\ guards \subseteq (Call \X {"call", "task"}) \cup {OtherLease}
  /\ quiet \in Nat

(* A call that has not reached its end is at a step of its handler.        *)
LEMMA AtStep ==
  ASSUME CallsOK, NEW c \in Call, Step(c) # "return"
  PROVE  /\ kind[c] \in Kind
         /\ Len(Handler[kind[c]]) \in Nat
         /\ pc[c] \in 1..Len(Handler[kind[c]])
         /\ Step(c) = Handler[kind[c]][pc[c]]
  <1>1. kind[c] \in Kind /\ pc[c] \in 1..(Len(Handler[kind[c]]) + 1)  BY DEF CallsOK
  <1>2. Len(Handler[kind[c]]) \in Nat  BY <1>1, HandlerLen
  <1>3. pc[c] <= Len(Handler[kind[c]])  BY DEF Step
  <1> QED BY <1>1, <1>2, <1>3 DEF Step

(* A call at its end is past the last step.                                *)
LEMMA AtReturn ==
  ASSUME CallsOK, NEW c \in Call, Step(c) = "return"
  PROVE  pc[c] = Len(Handler[kind[c]]) + 1
  <1>1. kind[c] \in Kind /\ pc[c] \in 1..(Len(Handler[kind[c]]) + 1)  BY DEF CallsOK
  <1>2. Len(Handler[kind[c]]) \in Nat  BY <1>1, HandlerLen
  <1>3. CASE pc[c] <= Len(Handler[kind[c]])
    <2>1. pc[c] \in 1..Len(Handler[kind[c]])  BY <1>1, <1>2, <1>3
    <2>2. Handler[kind[c]][pc[c]] # "return"  BY <2>1, <1>1, GateFirst
    <2> QED BY <2>2, <1>3 DEF Step
  <1> QED BY <1>1, <1>2, <1>3

(* What a call that goes to another step, or leaves, changes.              *)
LEMMA Goes ==
  ASSUME CallsOK, NEW c \in Call, NEW i \in 1..(Len(Handler[kind[c]]) + 1),
         Goto(c, i)
  PROVE  /\ CallsOK'
         /\ kind' = kind
         /\ pc'[c] = i
         /\ \A d \in Call : d # c => pc'[d] = pc[d]
  BY DEF CallsOK, Goto

LEMMA Advances ==
  ASSUME CallsOK, NEW c \in Call, Step(c) # "return", Advance(c)
  PROVE  /\ CallsOK'
         /\ kind' = kind
         /\ pc'[c] = pc[c] + 1
         /\ \A d \in Call : d # c => pc'[d] = pc[d]
  <1>1. pc[c] + 1 \in 1..(Len(Handler[kind[c]]) + 1)  BY AtStep
  <1> QED BY <1>1, Goes DEF Advance

LEMMA Leaves ==
  ASSUME CallsOK, NEW c \in Call, Leave(c)
  PROVE  /\ CallsOK'
         /\ kind'[c] = NoCall /\ pc'[c] = 1
         /\ \A d \in Call : d # c => kind'[d] = kind[d] /\ pc'[d] = pc[d]
  <1>1. NoCall \in Kind /\ Len(Handler[NoCall]) = 0  BY KindDef, Table DEF NoCall
  <1> QED BY <1>1 DEF CallsOK, Leave

LEMMA GivesUp ==
  ASSUME CallsOK, NEW c \in Call, Step(c) # "return", Goto(c, Abort(kind[c], pc[c]))
  PROVE  /\ CallsOK'
         /\ kind' = kind
         /\ pc'[c] = Abort(kind[c], pc[c])
         /\ pc'[c] > pc[c]
         /\ pc'[c] \notin Locked(kind[c])
         /\ \A d \in Call : d # c => pc'[d] = pc[d]
  <1> DEFINE i == Abort(kind[c], pc[c])
  <1>1. /\ kind[c] \in Kind /\ pc[c] \in 1..Len(Handler[kind[c]])
        /\ Len(Handler[kind[c]]) \in Nat
    BY AtStep
  <1>2. i \in (pc[c]+1)..(Len(Handler[kind[c]]) + 1) /\ i \notin Locked(kind[c])
    BY <1>1, AbortFacts
  <1>3. i \in 1..(Len(Handler[kind[c]]) + 1) /\ i > pc[c]  BY <1>1, <1>2
  <1>4. Goto(c, i)  OBVIOUS
  <1>5. /\ CallsOK' /\ kind' = kind /\ pc'[c] = i
        /\ \A d \in Call : d # c => pc'[d] = pc[d]
    <2> HIDE DEF i
    <2> QED BY <1>3, <1>4, Goes
  <1> QED BY <1>2, <1>3, <1>5

(* A step of this module is a step of the lease, or leaves it alone.       *)
LEMMA LeaseSteps ==
  ASSUME [Next]_vars
  PROVE  Lease!Next \/ UNCHANGED leaseVars
  <1> DEFINE G == (Call \X {"call", "task"}) \cup {OtherLease}
  <1>1. ASSUME NEW c \in Call PROVE OwnLease(c) \in G /\ TaskLease(c) \in G
    BY DEF OwnLease, TaskLease
  <1>2. ASSUME NEW s \in {Me, Other}, NEW g \in G, Lease!Take(s, g)
        PROVE  Lease!Next
    BY <1>2 DEF Lease!Next
  <1>3. ASSUME NEW g \in G, Lease!Join(g) \/ Lease!Finish(g)
        PROVE  Lease!Next
    BY <1>3 DEF Lease!Next
  <1>4. ASSUME Lease!Renew \/ Lease!GiveBack \/ Lease!Exit \/ Lease!Tick
        PROVE  Lease!Next
    BY <1>4 DEF Lease!Next
  <1> HIDE DEF G
  <1>5. ASSUME NEW c \in Call, Dispatch(c) PROVE Lease!Next \/ UNCHANGED leaseVars
    BY <1>4, <1>5 DEF Dispatch
  <1>6. ASSUME NEW c \in Call, DropLease(c) PROVE Lease!Next \/ UNCHANGED leaseVars
    BY <1>1, <1>3, <1>6 DEF DropLease
  <1>7. ASSUME NEW c \in Call, Proceeds(c) PROVE Lease!Next \/ UNCHANGED leaseVars
    <2>1. CASE Gate(c)  BY <2>1, <1>1, <1>2, <1>3 DEF Gate
    <2>2. CASE StartTask(c)  BY <2>2, <1>1, <1>3 DEF StartTask, Start
    <2>3. CASE Return(c)  BY <2>3, <1>6 DEF Return
    <2> QED
      BY <2>1, <2>2, <2>3, <1>7
      DEF Proceeds, Refused, Passes, ReturnsEarly, Focus, Hold, Unlock, Unhold, SkipMove, QueueAbs
  <1>8. ASSUME NEW c \in Call, JobEnds(c) PROVE Lease!Next \/ UNCHANGED leaseVars
    BY <1>8, <1>1, <1>3 DEF JobEnds, AbsEnds, AbsFails, TaskEnds, Start
  <1>9. ASSUME OtherServer PROVE Lease!Next
    <2>1. OtherLease \in G  BY DEF G
    <2> QED BY <2>1, <1>9, <1>2, <1>3, <1>4 DEF OtherServer
  <1>10. CASE UNCHANGED vars  BY <1>10 DEF vars, leaseVars
  <1> QED
    BY <1>4, <1>5, <1>6, <1>7, <1>8, <1>9, <1>10
    DEF Next, Lock, Cancel, AbsBegins, GiveBack, Tick

(* The steps of the lease keep its type.                                   *)
LEMMA LeaseTyped ==
  ASSUME LeaseOK, Lease!Next \/ UNCHANGED leaseVars
  PROVE  LeaseOK'
  BY DEF LeaseOK, leaseVars, Lease!Next, Lease!Take, Lease!Join, Lease!Finish,
         Lease!Renew, Lease!GiveBack, Lease!Exit, Lease!Tick, Lease!Older

(* A step keeps the type of every variable. A job that ends moves its      *)
(* caller, so the callers of jobs must be where JobInv says.               *)
LEMMA TypeStep ==
  ASSUME TypeOK, JobInv, [Next]_vars
  PROVE  TypeOK'
  <1>1. CallsOK /\ LeaseOK  BY DEF TypeOK, CallsOK, LeaseOK
  <1>2. LeaseOK'  BY <1>1, LeaseSteps, LeaseTyped
  <1> DEFINE InputOK == /\ job \in [Call -> {"none", "queued", "abs", "task"}]
                        /\ opLock \in Call \cup {Nobody}
                        /\ mods \subseteq Call \cup {"left"}
                        /\ focused \in Call \cup {Nobody}
  <1>3. InputOK  BY DEF TypeOK
  <1>4. ASSUME NEW c \in Call, Dispatch(c) PROVE CallsOK' /\ InputOK'
    <2>1. PICK k \in Kinds : kind' = [kind EXCEPT ![c] = k]  BY <1>4 DEF Dispatch
    <2>2. k \in Kind  BY <2>1, KindDef, InputDispatchAssumption
    <2>3. Len(Handler[k]) \in Nat /\ Len(Handler[NoCall]) = 0
      BY <2>2, HandlerLen, Table DEF NoCall
    <2>4. pc' = pc /\ kind[c] = NoCall /\ pc[c] \in 1..(Len(Handler[kind[c]]) + 1)
      BY <1>1, <1>4 DEF CallsOK, Dispatch, Active
    <2>5. pc[c] \in 1..(Len(Handler[k]) + 1)  BY <2>3, <2>4
    <2>6. CallsOK'  BY <1>1, <2>1, <2>2, <2>4, <2>5 DEF CallsOK
    <2> QED BY <2>6, <1>3, <1>4 DEF Dispatch, inputVars
  <1>5. ASSUME NEW c \in Call, Proceeds(c) PROVE CallsOK' /\ InputOK'
    <2>1. CASE Gate(c)  BY <2>1, <1>1, <1>3, Advances DEF Gate, inputVars
    <2>2. CASE Refused(c)  BY <2>2, <1>1, <1>3, Leaves DEF Refused, inputVars
    <2>3. CASE Passes(c) \/ SkipMove(c)
      BY <2>3, <1>1, <1>3, Advances DEF Passes, SkipMove, Awaits, inputVars
    <2>4. CASE ReturnsEarly(c)
      BY <2>4, <1>1, <1>3, GivesUp DEF ReturnsEarly, Free
    <2>5. CASE Focus(c)  BY <2>5, <1>1, <1>3, Advances DEF Focus
    <2>6. CASE Hold(c)
      <3>1. Len(Handler[kind[c]]) + 1 \in 1..(Len(Handler[kind[c]]) + 1)
        BY <2>6, <1>1, AtStep DEF Hold
      <3>2. CallsOK'  BY <3>1, <2>6, <1>1, Advances, Goes DEF Hold
      <3> QED BY <3>2, <2>6, <1>3 DEF Hold, Free
    <2>7. CASE Unlock(c)  BY <2>7, <1>1, <1>3, Advances DEF Unlock, Free, inputVars
    <2>8. CASE Unhold(c)  BY <2>8, <1>1, <1>3, Advances DEF Unhold
    <2>9. CASE StartTask(c)
      BY <2>9, <1>1, <1>3 DEF StartTask, Start, CallsOK, callVars
    <2>10. CASE QueueAbs(c)  BY <2>10, <1>1, <1>3 DEF QueueAbs, CallsOK, callVars
    <2>11. CASE Return(c)  BY <2>11, <1>1, <1>3, Leaves DEF Return, inputVars
    <2> QED
      BY <1>5, <2>1, <2>2, <2>3, <2>4, <2>5, <2>6, <2>7, <2>8, <2>9, <2>10, <2>11
      DEF Proceeds
  <1>6. ASSUME NEW c \in Call, JobEnds(c) PROVE CallsOK' /\ InputOK'
    <2>1. job[c] # "none"  BY <1>6 DEF JobEnds, AbsEnds, AbsFails, TaskEnds
    <2>2. Active(c) => Step(c) # "return"  BY <2>1 DEF JobInv
    <2>3. UNCHANGED callVars => CallsOK'  BY <1>1 DEF CallsOK, callVars
    <2>4. CASE AbsEnds(c)  BY <2>2, <2>3, <2>4, <1>1, <1>3, Advances DEF AbsEnds
    <2>5. CASE AbsFails(c)
      BY <2>2, <2>3, <2>5, <1>1, <1>3, Advances DEF AbsFails, Start
    <2>6. CASE TaskEnds(c)
      BY <2>2, <2>3, <2>6, <1>1, <1>3, Advances, GivesUp DEF TaskEnds, Free
    <2> QED BY <1>6, <2>4, <2>5, <2>6 DEF JobEnds
  <1>7. ASSUME NEW c \in Call, Lock(c) \/ Cancel(c) \/ AbsBegins(c)
        PROVE  CallsOK' /\ InputOK'
    <2>1. CASE Lock(c)  BY <2>1, <1>1, <1>3, Advances DEF Lock, inputVars
    <2>2. CASE Cancel(c)  BY <2>2, <1>1, <1>3, Leaves DEF Cancel, Free
    <2>3. CASE AbsBegins(c)
      BY <2>3, <1>1, <1>3 DEF AbsBegins, CallsOK, callVars
    <2> QED BY <1>7, <2>1, <2>2, <2>3
  <1>8. ASSUME OtherServer \/ GiveBack \/ Tick \/ UNCHANGED vars
        PROVE  CallsOK' /\ InputOK'
    <2>1. UNCHANGED <<kind, pc, job, opLock, mods, focused>>
      BY <1>8 DEF OtherServer, GiveBack, Tick, vars, callVars, inputVars
    <2> QED BY <2>1, <1>1, <1>3 DEF CallsOK
  <1>9. CallsOK' /\ InputOK'
    <2> HIDE DEF InputOK
    <2> QED BY <1>4, <1>5, <1>6, <1>7, <1>8 DEF Next
  <1> QED BY <1>2, <1>9 DEF TypeOK, CallsOK, LeaseOK

-----------------------------------------------------------------------------
(* The actions of one call.                                                *)
Acts(c) ==
  \/ Dispatch(c) \/ Proceeds(c) \/ Lock(c) \/ Cancel(c) \/ AbsBegins(c) \/ JobEnds(c)

(* An action of a call changes neither the place nor the job of another.   *)
LEMMA Alone ==
  ASSUME TypeOK, NEW c \in Call, NEW d \in Call, d # c, Acts(c)
  PROVE  kind'[d] = kind[d] /\ pc'[d] = pc[d] /\ job'[d] = job[d]
  <1> USE DEF TypeOK, Goto, Advance, Leave, callVars, inputVars, Start
  <1>1. CASE Dispatch(c)  BY <1>1 DEF Dispatch
  <1>2. CASE Proceeds(c)
    <2>1. CASE Gate(c)  BY <2>1 DEF Gate
    <2>2. CASE Refused(c)  BY <2>2 DEF Refused
    <2>3. CASE Passes(c) \/ SkipMove(c)  BY <2>3 DEF Passes, SkipMove
    <2>4. CASE ReturnsEarly(c)  BY <2>4 DEF ReturnsEarly
    <2>5. CASE Focus(c)  BY <2>5 DEF Focus
    <2>6. CASE Hold(c)  BY <2>6 DEF Hold
    <2>7. CASE Unlock(c)  BY <2>7 DEF Unlock
    <2>8. CASE Unhold(c)  BY <2>8 DEF Unhold
    <2>9. CASE StartTask(c)  BY <2>9 DEF StartTask
    <2>10. CASE QueueAbs(c)  BY <2>10 DEF QueueAbs
    <2>11. CASE Return(c)  BY <2>11 DEF Return
    <2> QED
      BY <1>2, <2>1, <2>2, <2>3, <2>4, <2>5, <2>6, <2>7, <2>8, <2>9, <2>10, <2>11
      DEF Proceeds
  <1>3. CASE Lock(c)  BY <1>3 DEF Lock
  <1>4. CASE Cancel(c)  BY <1>4 DEF Cancel
  <1>5. CASE AbsBegins(c)  BY <1>5 DEF AbsBegins
  <1>6. CASE JobEnds(c)  BY <1>6 DEF JobEnds, AbsEnds, AbsFails, TaskEnds
  <1> QED BY <1>1, <1>2, <1>3, <1>4, <1>5, <1>6 DEF Acts

(* The other server, the timer and time leave the calls alone.             *)
LEMMA Outside ==
  ASSUME OtherServer \/ GiveBack \/ Tick \/ UNCHANGED vars
  PROVE  UNCHANGED <<kind, pc, job, opLock, mods, focused>>
  BY DEF OtherServer, GiveBack, Tick, vars, callVars, inputVars

(* An action leaves alone the job of the call it moves, or ends it; only a *)
(* call at an "emit" or a "move" starts one, and only then.                *)
LEMMA JobStep ==
  ASSUME TypeOK, JobInv, [Next]_vars
  PROVE  JobInv'
  <1> SUFFICES ASSUME NEW d \in Call
               PROVE  /\ job'[d] # "none" /\ Active(d)' => Step(d)' \in {"emit", "move"}
                      /\ job'[d] = "task" /\ Active(d)' => Step(d)' = "emit"
                      /\ ~Cancels /\ job'[d] # "none" => Active(d)'
                      /\ job'[d] \in {"queued", "abs"} => AbsPointer
    BY DEF JobInv
  <1> USE DEF Active, Step
  <1>1. ASSUME NEW c \in Call, Acts(c), c # d
        PROVE  kind'[d] = kind[d] /\ pc'[d] = pc[d] /\ job'[d] = job[d]
    BY <1>1, Alone
  <1>2. CASE Dispatch(d)  BY <1>2 DEF Dispatch, inputVars
  <1>3. CASE Proceeds(d)
    <2>1. job'[d] = "none" \/ StartTask(d) \/ QueueAbs(d)
      BY <1>3
      DEF JobInv, Proceeds, Gate, Refused, Passes, ReturnsEarly, Focus, Hold, Unlock,
          Unhold, SkipMove, Return, Awaits, inputVars
    <2>2. CASE StartTask(d)  BY <2>2 DEF StartTask, Start, callVars, TypeOK
    <2>3. CASE QueueAbs(d)  BY <2>3 DEF QueueAbs, callVars, TypeOK
    <2> QED BY <2>1, <2>2, <2>3
  <1>4. CASE Lock(d)  BY <1>4 DEF JobInv, Lock, inputVars
  <1>5. CASE Cancel(d)  BY <1>5 DEF JobInv, Cancel, Leave, TypeOK
  <1>6. CASE AbsBegins(d)  BY <1>6 DEF JobInv, AbsBegins, callVars, TypeOK
  <1>7. CASE JobEnds(d)
    <2>1. CASE AbsEnds(d)  BY <2>1 DEF AbsEnds, TypeOK
    <2>2. CASE AbsFails(d)  BY <2>2 DEF JobInv, AbsFails, Start, callVars, TypeOK
    <2>3. CASE TaskEnds(d)  BY <2>3 DEF TaskEnds, TypeOK
    <2> QED BY <1>7, <2>1, <2>2, <2>3 DEF JobEnds
  <1>8. ASSUME OtherServer \/ GiveBack \/ Tick \/ UNCHANGED vars
        PROVE  kind' = kind /\ pc' = pc /\ job' = job
    BY <1>8, Outside
  <1>9. \/ \E c \in Call : Acts(c)
        \/ OtherServer \/ GiveBack \/ Tick \/ UNCHANGED vars
    BY DEF Next, Acts
  <1>10. \/ Acts(d)
         \/ kind'[d] = kind[d] /\ pc'[d] = pc[d] /\ job'[d] = job[d]
    BY <1>1, <1>8, <1>9
  <1>11. CASE kind'[d] = kind[d] /\ pc'[d] = pc[d] /\ job'[d] = job[d]
    BY <1>11 DEF JobInv
  <1> QED BY <1>2, <1>3, <1>4, <1>5, <1>6, <1>7, <1>10, <1>11 DEF Acts

(* Every variable keeps its type, whatever the tools do; the callers of    *)
(* jobs wait for them (a job that ends moves its caller on).               *)
THEOREM TypeCorrect == Spec => [](TypeOK /\ JobInv)
<1>1. Init => TypeOK /\ JobInv
  <2> SUFFICES ASSUME Init PROVE TypeOK /\ JobInv
    OBVIOUS
  <2>1. NoCall \in Kind /\ Len(Handler[NoCall]) = 0  BY KindDef, Table DEF NoCall
  <2>2. LeaseOK  BY DEF Init, LeaseOK, Lease!Init
  <2>3. JobInv  BY DEF Init, JobInv
  <2> QED BY <2>1, <2>2, <2>3 DEF Init, TypeOK, LeaseOK
<1>2. TypeOK /\ JobInv /\ [Next]_vars => TypeOK' /\ JobInv'
  BY TypeStep, JobStep
<1>3. QED
  BY <1>1, <1>2, PTL DEF Spec

-----------------------------------------------------------------------------
(* The call that has the operation lock, by LockInv.                       *)
InLock(c) == pc[c] \in Locked(kind[c]) \/ job[c] = "task"

(* A step of one call that keeps the lock with its owner, gives it back or *)
(* takes it when it is free leaves the lock where the calls say it is.     *)
LEMMA LockMoves ==
  ASSUME TypeOK, LockInv, NEW c \in Call, Acts(c),
         \/ opLock' = opLock /\ (InLock(c)' <=> InLock(c))
         \/ opLock' = Free(c) /\ ~InLock(c)'
         \/ opLock = Nobody /\ opLock' = c /\ InLock(c)'
  PROVE  LockInv'
  <1>1. Nobody \notin Call  BY InputDispatchAssumption
  <1>2. ASSUME NEW d \in Call PROVE opLock = d <=> InLock(d)
    BY DEF LockInv, InLock
  <1>3. ASSUME NEW d \in Call, d # c PROVE InLock(d)' <=> InLock(d)
    BY <1>3, Alone DEF InLock
  <1>4. ASSUME NEW d \in Call PROVE opLock' = d <=> InLock(d)'
    <2> HIDE DEF InLock
    <2>1. CASE d = c  BY <2>1, <1>1, <1>2 DEF Free
    <2>2. CASE d # c  BY <2>2, <1>1, <1>2, <1>3 DEF Free
    <2> QED BY <2>1, <2>2
  <1> QED BY <1>4 DEF LockInv, InLock

(* Each call takes and gives back the lock where its handler and its job   *)
(* say so.                                                                 *)
LEMMA LockStep ==
  ASSUME TypeOK, LockInv, JobInv, [Next]_vars
  PROVE  LockInv'
  <1>1. CallsOK  BY DEF TypeOK, CallsOK
  <1>2. ASSUME NEW c \in Call
        PROVE  /\ Locked(kind[c]) \subseteq 2..Len(Handler[kind[c]])
               /\ Len(Handler[kind[c]]) \in Nat
               /\ LockFacts(kind[c])
    BY <1>1, LockedRange, LockSteps, HandlerLen DEF CallsOK
  <1>3. ASSUME NEW c \in Call, Active(c), Step(c) \notin {"emit", "move"}
        PROVE  job[c] = "none"
    BY <1>3 DEF JobInv
  <1>4. ASSUME NEW c \in Call, Active(c), Step(c) \in {"emit", "move"}
        PROVE  pc[c] \in Locked(kind[c])
    BY <1>4, <1>1, <1>2, AtStep DEF LockFacts
  (* An advance over a step that is neither a lock nor an unlock.          *)
  <1>5. ASSUME NEW c \in Call, Step(c) \notin {"return", "lock", "unlock"}, Advance(c)
        PROVE  pc'[c] \in Locked(kind'[c]) <=> pc[c] \in Locked(kind[c])
    BY <1>5, <1>1, <1>2, AtStep, Advances DEF LockFacts
  (* A call that leaves is not locked.                                     *)
  <1>6. ASSUME NEW c \in Call, Leave(c) PROVE pc'[c] \notin Locked(kind'[c])
    <2>1. Locked(NoCall) = {}  BY LockedRange, KindDef DEF NoCall
    <2>2. kind'[c] = NoCall  BY <1>6, <1>1, Leaves
    <2> QED BY <2>1, <2>2
  <1>7. ASSUME NEW c \in Call, Dispatch(c) PROVE LockInv'
    <2>1. kind'[c] \in Kinds /\ pc' = pc /\ job' = job /\ opLock' = opLock
      BY <1>7 DEF Dispatch, inputVars, TypeOK
    <2>2. kind[c] = NoCall  BY <1>7 DEF Dispatch, Active
    <2>3. pc[c] = 1  BY <1>1, <2>2, Table DEF CallsOK, NoCall
    <2>4. kind'[c] \in Kind  BY <2>1, KindDef, InputDispatchAssumption
    <2>5. 1 \notin Locked(kind[c]) /\ 1 \notin Locked(kind'[c])
      BY <2>4, <1>2, LockedRange, HandlerLen
    <2> QED BY <1>7, <2>1, <2>3, <2>5, LockMoves DEF InLock, Acts
  <1>8. ASSUME NEW c \in Call, Proceeds(c) PROVE LockInv'
    <2>0. Acts(c)  BY <1>8 DEF Acts
    <2> USE DEF InLock
    <2>1. CASE Gate(c)
      BY <2>0, <2>1, <1>3, <1>5, LockMoves DEF Gate, inputVars
    <2>2. CASE Refused(c)
      <3>1. pc[c] \notin Locked(kind[c])
        BY <2>2, <1>1, <1>2, AtStep, GateFirst DEF Refused
      <3> QED BY <2>0, <2>2, <3>1, <1>3, <1>6, LockMoves DEF Refused, inputVars
    <2>3. CASE Passes(c) \/ SkipMove(c)
      BY <2>0, <2>3, <1>3, <1>5, LockMoves DEF Passes, SkipMove, Awaits, inputVars
    <2>4. CASE ReturnsEarly(c)
      BY <2>0, <2>4, <1>1, <1>3, GivesUp, LockMoves DEF ReturnsEarly
    <2>5. CASE Focus(c)
      BY <2>0, <2>5, <1>3, <1>5, LockMoves DEF Focus
    <2>6. CASE Hold(c)
      <3>1. Len(Handler[kind[c]]) + 1 \in 1..(Len(Handler[kind[c]]) + 1)
        BY <2>6, <1>2
      <3>2. CASE Advance(c) /\ UNCHANGED opLock
        BY <2>0, <2>6, <3>2, <1>3, <1>5, LockMoves DEF Hold
      <3>3. CASE Goto(c, Len(Handler[kind[c]]) + 1) /\ opLock' = Free(c)
        <4>1. pc'[c] = Len(Handler[kind[c]]) + 1 /\ kind' = kind
          BY <3>1, <3>3, <1>1, Goes
        <4>2. Len(Handler[kind[c]]) + 1 \notin Locked(kind[c])
          <5> HIDE DEF Locked, LockFacts
          <5> QED BY <1>2, SMTT(30)
        <4>3. pc'[c] \notin Locked(kind'[c])  BY <4>1, <4>2
        <4> QED BY <2>0, <2>6, <3>3, <4>3, <1>3, LockMoves DEF Hold
      <3> QED BY <2>6, <3>2, <3>3 DEF Hold
    <2>7. CASE Unlock(c)
      <3>1. pc'[c] \notin Locked(kind'[c])
        BY <2>7, <1>1, <1>2, AtStep, Advances DEF Unlock, LockFacts
      <3> QED BY <2>0, <2>7, <3>1, <1>3, LockMoves DEF Unlock, inputVars
    <2>8. CASE Unhold(c)
      BY <2>0, <2>8, <1>3, <1>5, LockMoves DEF Unhold
    <2>9. CASE StartTask(c)
      BY <2>0, <2>9, <1>4, LockMoves DEF StartTask, Start, callVars, TypeOK
    <2>10. CASE QueueAbs(c)
      BY <2>0, <2>10, LockMoves DEF QueueAbs, callVars, TypeOK
    <2>11. CASE Return(c)
      <3>1. pc[c] \notin Locked(kind[c])
        BY <2>11, <1>1, <1>2, AtReturn, SMTT(30) DEF Return
      <3> QED BY <2>0, <2>11, <3>1, <1>3, <1>6, LockMoves DEF Return, inputVars
    <2> QED
      BY <1>8, <2>1, <2>2, <2>3, <2>4, <2>5, <2>6, <2>7, <2>8, <2>9, <2>10, <2>11
      DEF Proceeds
  <1>9. ASSUME NEW c \in Call, Lock(c) PROVE LockInv'
    <2>1. pc'[c] \in Locked(kind'[c])
      BY <1>9, <1>1, <1>2, AtStep, Advances DEF Lock, LockFacts
    <2> QED BY <1>9, <2>1, LockMoves DEF Lock, InLock, Acts
  <1>10. ASSUME NEW c \in Call, Cancel(c) PROVE LockInv'
    <2>1. pc'[c] \notin Locked(kind'[c]) /\ job' = job  BY <1>10, <1>6 DEF Cancel
    <2>2. CASE job[c] = "task"
      BY <1>10, <2>1, <2>2, LockMoves DEF Cancel, InLock, Acts
    <2>3. CASE job[c] # "task"
      BY <1>10, <2>1, <2>3, LockMoves DEF Cancel, InLock, Acts
    <2> QED BY <2>2, <2>3
  <1>11. ASSUME NEW c \in Call, AbsBegins(c) PROVE LockInv'
    BY <1>11, LockMoves DEF AbsBegins, InLock, callVars, TypeOK, Acts
  <1>12. ASSUME NEW c \in Call, JobEnds(c) PROVE LockInv'
    <2>0. Acts(c)  BY <1>12 DEF Acts
    <2>1. job[c] # "none"  BY <1>12 DEF JobEnds, AbsEnds, AbsFails, TaskEnds
    <2>2. Active(c) => Step(c) \in {"emit", "move"} /\ pc[c] \in Locked(kind[c])
      BY <2>1, <1>4 DEF JobInv
    <2>3. ~Active(c) => pc[c] \notin Locked(kind[c])
      BY LockedRange, KindDef DEF Active, NoCall
    <2> USE DEF InLock
    <2>4. CASE AbsEnds(c)
      <3>1. job'[c] = "none" /\ job[c] # "task" /\ opLock' = opLock
        BY <2>4 DEF AbsEnds, TypeOK
      <3>2. CASE Active(c)
        BY <2>0, <2>2, <2>4, <3>1, <3>2, <1>5, LockMoves DEF AbsEnds
      <3>3. CASE ~Active(c)
        BY <2>0, <2>3, <2>4, <3>1, <3>3, LockMoves DEF AbsEnds, callVars
      <3> QED BY <3>2, <3>3
    <2>5. CASE AbsFails(c)
      <3>1. job[c] # "task" /\ opLock' = opLock  BY <2>5 DEF AbsFails
      <3>2. CASE Active(c) /\ Step(c) = "emit"
        <4>1. kind' = kind /\ pc' = pc  BY <2>5, <3>2 DEF AbsFails, callVars
        <4> QED BY <2>0, <2>2, <3>1, <3>2, <4>1, LockMoves
      <3>3. CASE Active(c) /\ Step(c) # "emit"
        <4>1. Advance(c) /\ job'[c] = "none"  BY <2>5, <3>3 DEF AbsFails, TypeOK
        <4> QED BY <2>0, <2>2, <3>1, <3>3, <4>1, <1>5, LockMoves
      <3>4. CASE ~Active(c)
        BY <2>0, <2>3, <2>5, <3>1, <3>4, LockMoves DEF AbsFails, callVars, TypeOK
      <3> QED BY <3>2, <3>3, <3>4
    <2>6. CASE TaskEnds(c)
      <3>1. job[c] = "task" /\ job'[c] = "none"  BY <2>6 DEF TaskEnds, TypeOK
      <3>2. CASE Active(c) /\ Advance(c) /\ UNCHANGED opLock
        BY <2>0, <2>2, <3>1, <3>2, <1>5, LockMoves
      <3>3. CASE Active(c) /\ Goto(c, Abort(kind[c], pc[c])) /\ opLock' = Free(c)
        BY <2>0, <2>2, <3>1, <3>3, <1>1, GivesUp, LockMoves
      <3>4. CASE ~Active(c)
        BY <2>0, <2>3, <2>6, <3>1, <3>4, LockMoves DEF TaskEnds, callVars
      <3> QED BY <2>6, <3>2, <3>3, <3>4 DEF TaskEnds
    <2> QED BY <1>12, <2>4, <2>5, <2>6 DEF JobEnds
  <1>13. ASSUME OtherServer \/ GiveBack \/ Tick \/ UNCHANGED vars PROVE LockInv'
    BY <1>13, Outside DEF LockInv
  <1> QED BY <1>7, <1>8, <1>9, <1>10, <1>11, <1>12, <1>13 DEF Next

-----------------------------------------------------------------------------
(* The holds of different calls, and of a call and its task, are different *)
(* and none is the other server's.                                         *)
LEMMA LeasesDiffer ==
  ASSUME NEW c \in Call, NEW d \in Call
  PROVE  /\ OwnLease(c) # TaskLease(d)
         /\ OwnLease(c) = OwnLease(d) <=> c = d
         /\ TaskLease(c) = TaskLease(d) <=> c = d
         /\ OtherLease \notin {OwnLease(c), TaskLease(c)}
  BY InputDispatchAssumption DEF OwnLease, TaskLease, OtherLease

(* Calls past the gate, and with an input under way, have a hold each.     *)
LEMMA LeaseHeld ==
  ASSUME LeaseInv, NEW c \in Call, Admitted(c) \/ job[c] = "task"
  PROVE  holder = Me /\ guards # {}
  BY LeasesDiffer DEF LeaseInv

(* A step of one call that changes its own holds as it changes its place   *)
(* and its job, under a lease of this server, leaves the holds in order.   *)
LEMMA LeaseMoves ==
  ASSUME TypeOK, LeaseInv, NEW c \in Call, Acts(c),
         \A g : g \notin {OwnLease(c), TaskLease(c)} => (g \in guards' <=> g \in guards),
         OwnLease(c) \in guards' <=> Admitted(c)',
         TaskLease(c) \in guards' <=> job'[c] = "task",
         holder' = holder \/ (holder = Nobody /\ holder' = Me),
         guards' \subseteq guards \/ holder' = Me
  PROVE  LeaseInv'
  <1>1. Me # Other /\ Nobody \notin {Me, Other}  BY InputDispatchAssumption
  <1>2. ASSUME NEW d \in Call
        PROVE  /\ OwnLease(d) \in guards' <=> Admitted(d)'
               /\ TaskLease(d) \in guards' <=> job'[d] = "task"
    <2>1. CASE d = c  BY <2>1
    <2>2. CASE d # c
      <3>1. Admitted(d)' <=> Admitted(d)  BY <2>2, Alone DEF Admitted
      <3>2. job'[d] = job[d]  BY <2>2, Alone
      <3> HIDE DEF Admitted
      <3> QED BY <2>2, <3>1, <3>2, LeasesDiffer DEF LeaseInv
    <2> QED BY <2>1, <2>2
  <1>3. holder' # Me => guards' \subseteq {OtherLease}  BY <1>1 DEF LeaseInv
  <1>4. holder' # Other => OtherLease \notin guards'
    BY <1>1, LeasesDiffer DEF LeaseInv
  <1> QED BY <1>2, <1>3, <1>4 DEF LeaseInv, OwnLease, TaskLease, OtherLease

(* The gate, the start and the end of a task, the return and the drop of a *)
(* call take and give the holds that LeaseInv counts.                      *)
LEMMA LeaseStep ==
  ASSUME TypeOK, LeaseInv, LockInv, JobInv, [Next]_vars
  PROVE  LeaseInv'
  <1>1. CallsOK  BY DEF TypeOK, CallsOK
  <1> USE LeasesDiffer DEF leaseVars
  (* The first step of a gated tool is its gate.                           *)
  <1>2. ASSUME NEW c \in Call, Active(c), Step(c) \notin {"gate", "return"}
        PROVE  Admitted(c) <=> kind[c] \in Gated
    <2>1. kind[c] \in Gated => pc[c] # 1
      BY <1>2, <1>1, AtStep, GateFirst
    <2> QED BY <2>1, <1>1 DEF Admitted, CallsOK
  <1>3. ASSUME NEW c \in Call, Active(c), Step(c) \notin {"gate", "return"},
               kind' = kind, pc'[c] \in Nat, pc'[c] > pc[c]
        PROVE  Admitted(c)' <=> Admitted(c)
    <2>1. pc[c] >= 1 /\ pc[c] \in Nat  BY <1>1 DEF CallsOK
    <2>2. pc'[c] > 1  BY <1>3, <2>1
    <2> QED BY <1>2, <1>3, <2>2 DEF Admitted
  <1>4. ASSUME NEW c \in Call, Active(c), Step(c) \notin {"gate", "return"},
               Advance(c) \/ Goto(c, Abort(kind[c], pc[c]))
        PROVE  Admitted(c)' <=> Admitted(c)
    <2>1. pc[c] \in Nat  BY <1>1 DEF CallsOK
    <2>2. kind' = kind /\ pc'[c] > pc[c] /\ CallsOK'
      BY <2>1, <1>1, <1>4, Advances, GivesUp
    <2>3. pc'[c] \in Nat  BY <2>2 DEF CallsOK
    <2> QED BY <2>2, <2>3, <1>3, <1>4
  <1>5. ASSUME NEW c \in Call, Leave(c) PROVE ~Admitted(c)'
    BY <1>5, <1>1, Leaves DEF Admitted
  <1>6. ASSUME NEW c \in Call, Active(c), Step(c) \in {"emit", "move"} PROVE holder = Me
    <2>1. pc[c] \in Locked(kind[c])
      BY <1>6, <1>1, AtStep, LockSteps DEF LockFacts
    <2>2. kind[c] \in Gated  BY <1>1, <2>1, LockedRange DEF CallsOK
    <2> QED BY <1>2, <1>6, <2>2, LeaseHeld
  <1>7. ASSUME NEW c \in Call, Acts(c), UNCHANGED leaseVars, job' = job,
               Admitted(c)' <=> Admitted(c)
        PROVE  LeaseInv'
    <2> HIDE DEF Admitted
    <2> QED BY <1>7, LeaseMoves DEF LeaseInv
  <1>8. ASSUME NEW c \in Call, Acts(c), DropLease(c), job' = job, ~Admitted(c)'
        PROVE  LeaseInv'
    <2>1. CASE Admitted(c)
      <3>1. holder' = holder /\ guards' = guards \ {OwnLease(c)}
        BY <1>8, <2>1 DEF DropLease, Lease!Finish
      <3> HIDE DEF Admitted
      <3> QED BY <1>8, <3>1, LeaseMoves DEF LeaseInv
    <2>2. CASE ~Admitted(c)
      BY <1>8, <2>2, <1>7 DEF DropLease
    <2> QED BY <2>1, <2>2
  <1>9. ASSUME NEW c \in Call, Dispatch(c) PROVE LeaseInv'
    <2>1. kind[c] = NoCall /\ pc' = pc /\ job' = job
      BY <1>9 DEF Dispatch, Active, inputVars
    <2>2. pc[c] = 1  BY <1>1, <2>1, Table DEF CallsOK, NoCall
    <2>3. ~Admitted(c) /\ ~Admitted(c)'  BY <2>1, <2>2 DEF Admitted
    <2>4. guards' = guards /\ holder' = holder  BY <1>9 DEF Dispatch, Lease!Renew
    <2> HIDE DEF Admitted
    <2> QED BY <1>9, <2>1, <2>3, <2>4, LeaseMoves DEF LeaseInv, Acts
  <1>10. ASSUME NEW c \in Call, Proceeds(c) PROVE LeaseInv'
    <2>0. Acts(c)  BY <1>10 DEF Acts
    <2>1. CASE Gate(c)
      <3>1. kind[c] \in Gated /\ pc[c] = 1  BY <2>1, <1>1, AtStep, GateFirst DEF Gate
      <3>2. Admitted(c)'  BY <2>1, <3>1, <1>1, Advances DEF Gate, Admitted
      <3>3. job[c] = "none" /\ job' = job  BY <2>1 DEF Gate, JobInv, inputVars
      <3>4. holder' = Me /\ guards' = guards \cup {OwnLease(c)} /\ holder \in {Me, Nobody}
        <4>1. CASE holder = Me  BY <2>1, <4>1 DEF Gate, Lease!Join
        <4>2. CASE holder # Me
          <5>1. holder = Nobody /\ holder' = Me /\ guards' = {OwnLease(c)}
            BY <2>1, <4>2 DEF Gate, Lease!Take
          <5>2. guards = {}  BY <5>1, InputDispatchAssumption DEF LeaseInv
          <5> QED BY <5>1, <5>2
        <4> QED BY <4>1, <4>2
      <3> HIDE DEF Admitted
      <3> QED BY <2>0, <3>2, <3>3, <3>4, LeaseMoves DEF LeaseInv
    <2>2. CASE Refused(c)
      <3>1. ~Admitted(c)  BY <2>2, <1>1, AtStep, GateFirst DEF Refused, Admitted
      <3> QED BY <2>0, <2>2, <3>1, <1>5, <1>7 DEF Refused, inputVars
    <2>3. CASE Passes(c) \/ SkipMove(c)
      BY <2>0, <2>3, <1>4, <1>7 DEF Passes, SkipMove, Awaits, inputVars
    <2>4. CASE ReturnsEarly(c)  BY <2>0, <2>4, <1>4, <1>7 DEF ReturnsEarly
    <2>5. CASE Focus(c)  BY <2>0, <2>5, <1>4, <1>7 DEF Focus
    <2>6. CASE Hold(c)
      <3>1. Admitted(c)' <=> Admitted(c)
        <4>1. CASE Advance(c)  BY <2>6, <4>1, <1>4 DEF Hold
        <4>2. CASE Goto(c, Len(Handler[kind[c]]) + 1)
          <5>1. /\ pc[c] \in 1..Len(Handler[kind[c]])
                /\ Len(Handler[kind[c]]) \in Nat
            BY <2>6, <1>1, AtStep DEF Hold
          <5>2. Len(Handler[kind[c]]) + 1 \in 1..(Len(Handler[kind[c]]) + 1)
            BY <5>1
          <5>3. kind' = kind /\ pc'[c] = Len(Handler[kind[c]]) + 1
            BY <4>2, <5>2, <1>1, Goes
          <5>4. pc'[c] \in Nat /\ pc'[c] > pc[c]  BY <5>1, <5>3
          <5> QED BY <2>6, <5>3, <5>4, <1>3 DEF Hold
        <4> QED BY <2>6, <4>1, <4>2 DEF Hold
      <3> QED BY <2>0, <2>6, <3>1, <1>7 DEF Hold
    <2>7. CASE Unlock(c)  BY <2>0, <2>7, <1>4, <1>7 DEF Unlock, inputVars
    <2>8. CASE Unhold(c)  BY <2>0, <2>8, <1>4, <1>7 DEF Unhold
    <2>9. CASE StartTask(c)
      <3>1. holder = Me  BY <2>9, <1>6 DEF StartTask
      <3>2. Admitted(c)' <=> Admitted(c)  BY <2>9 DEF StartTask, callVars, Admitted
      <3>3. job'[c] = "task" /\ holder' = holder /\ guards' = guards \cup {TaskLease(c)}
        BY <2>9 DEF StartTask, Start, Lease!Join, TypeOK
      <3> HIDE DEF Admitted
      <3> QED BY <2>0, <3>1, <3>2, <3>3, LeaseMoves DEF LeaseInv
    <2>10. CASE QueueAbs(c)
      <3>1. Admitted(c)' <=> Admitted(c)  BY <2>10 DEF QueueAbs, callVars, Admitted
      <3>2. job[c] # "task" /\ job'[c] # "task" /\ UNCHANGED leaseVars
        BY <2>10 DEF QueueAbs, TypeOK
      <3> HIDE DEF Admitted
      <3> QED BY <2>0, <3>1, <3>2, LeaseMoves DEF LeaseInv
    <2>11. CASE Return(c)
      <3>1. ~Admitted(c)' /\ DropLease(c)  BY <2>11, <1>5 DEF Return
      <3>2. job' = job  BY <2>11 DEF Return, inputVars
      <3> QED BY <2>0, <3>1, <3>2, <1>8
    <2> QED
      BY <1>10, <2>1, <2>2, <2>3, <2>4, <2>5, <2>6, <2>7, <2>8, <2>9, <2>10, <2>11
      DEF Proceeds
  <1>11. ASSUME NEW c \in Call, Lock(c) PROVE LeaseInv'
    BY <1>11, <1>4, <1>7 DEF Lock, inputVars, Acts
  <1>12. ASSUME NEW c \in Call, Cancel(c) PROVE LeaseInv'
    BY <1>12, <1>5, <1>8 DEF Cancel, Acts
  <1>13. ASSUME NEW c \in Call, AbsBegins(c) PROVE LeaseInv'
    <2>1. Admitted(c)' <=> Admitted(c)  BY <1>13 DEF AbsBegins, callVars, Admitted
    <2>2. job[c] # "task" /\ job'[c] # "task" /\ UNCHANGED leaseVars
      BY <1>13 DEF AbsBegins, TypeOK
    <2> HIDE DEF Admitted
    <2> QED BY <1>13, <2>1, <2>2, LeaseMoves DEF LeaseInv, Acts
  <1>14. ASSUME NEW c \in Call, JobEnds(c) PROVE LeaseInv'
    <2>0. Acts(c)  BY <1>14 DEF Acts
    <2>1. job[c] # "none"  BY <1>14 DEF JobEnds, AbsEnds, AbsFails, TaskEnds
    <2>2. Active(c) => Step(c) \in {"emit", "move"}  BY <2>1 DEF JobInv
    <2>3. UNCHANGED callVars => (Admitted(c)' <=> Admitted(c))
      BY DEF callVars, Admitted
    <2>4. CASE AbsEnds(c)
      <3>1. Admitted(c)' <=> Admitted(c)  BY <2>2, <2>3, <2>4, <1>4 DEF AbsEnds
      <3>2. job[c] # "task" /\ job'[c] # "task" /\ UNCHANGED leaseVars
        BY <2>4 DEF AbsEnds, TypeOK
      <3> HIDE DEF Admitted
      <3> QED BY <2>0, <3>1, <3>2, LeaseMoves DEF LeaseInv
    <2>5. CASE AbsFails(c)
      <3>1. (Admitted(c)' <=> Admitted(c)) /\ job[c] # "task"
        BY <2>2, <2>3, <2>5, <1>4 DEF AbsFails
      <3>2. CASE Active(c) /\ Step(c) = "emit"
        <4>1. holder = Me  BY <2>2, <3>2, <1>6
        <4>2. job'[c] = "task" /\ holder' = holder /\ guards' = guards \cup {TaskLease(c)}
          BY <2>5, <3>2 DEF AbsFails, Start, Lease!Join, TypeOK
        <4> HIDE DEF Admitted
        <4> QED BY <2>0, <3>1, <4>1, <4>2, LeaseMoves DEF LeaseInv
      <3>3. CASE ~(Active(c) /\ Step(c) = "emit")
        <4>1. job'[c] = "none" /\ UNCHANGED leaseVars
          BY <2>5, <3>3 DEF AbsFails, TypeOK
        <4> HIDE DEF Admitted
        <4> QED BY <2>0, <3>1, <4>1, LeaseMoves DEF LeaseInv
      <3> QED BY <3>2, <3>3
    <2>6. CASE TaskEnds(c)
      <3>1. Admitted(c)' <=> Admitted(c)  BY <2>2, <2>3, <2>6, <1>4 DEF TaskEnds
      <3>2. job'[c] = "none" /\ holder' = holder /\ guards' = guards \ {TaskLease(c)}
        BY <2>6 DEF TaskEnds, Lease!Finish, TypeOK
      <3> HIDE DEF Admitted
      <3> QED BY <2>0, <3>1, <3>2, LeaseMoves DEF LeaseInv
    <2> QED BY <1>14, <2>4, <2>5, <2>6 DEF JobEnds
  <1>15. ASSUME OtherServer \/ GiveBack \/ Tick \/ UNCHANGED vars PROVE LeaseInv'
    <2>1. UNCHANGED <<kind, pc, job>>  BY <1>15, Outside
    <2>2. \A c \in Call : Admitted(c)' <=> Admitted(c)  BY <2>1 DEF Admitted
    <2>3. Me # Other /\ Nobody \notin {Me, Other}  BY InputDispatchAssumption
    <2>4. /\ \A g : g # OtherLease => (g \in guards' <=> g \in guards)
          /\ holder' # Me => guards' \subseteq {OtherLease}
          /\ holder' # Other => OtherLease \notin guards'
      <3>1. CASE Lease!Take(Other, OtherLease)
        BY <3>1, <2>3 DEF Lease!Take, LeaseInv
      <3>2. CASE holder = Other /\ (Lease!Join(OtherLease) \/ Lease!Finish(OtherLease))
        BY <3>2, <2>3 DEF Lease!Join, Lease!Finish, LeaseInv
      <3>3. CASE holder = Other /\ Lease!Exit
        BY <3>3, <2>3 DEF Lease!Exit, LeaseInv
      <3>4. CASE GiveBack  BY <3>4, <2>3 DEF GiveBack, Lease!GiveBack, LeaseInv
      <3>5. CASE Tick  BY <3>5 DEF Tick, Lease!Tick, LeaseInv
      <3>6. CASE UNCHANGED vars  BY <3>6 DEF vars, LeaseInv
      <3> QED BY <1>15, <3>1, <3>2, <3>3, <3>4, <3>5, <3>6 DEF OtherServer
    <2> HIDE DEF Admitted
    <2> QED BY <2>1, <2>2, <2>4 DEF LeaseInv
  <1> QED BY <1>9, <1>10, <1>11, <1>12, <1>13, <1>14, <1>15 DEF Next

(* Locks, leases, jobs and callers agree in every state.                   *)
THEOREM Invariance == Spec => []IInv
<1>1. Init => IInv
  <2> SUFFICES ASSUME Init PROVE IInv
    OBVIOUS
  <2>1. Nobody \notin Call \cup {Me, Other}  BY InputDispatchAssumption
  <2>2. \A c \in Call : kind[c] = "none" /\ job[c] = "none" /\ pc[c] = 1
    BY DEF Init, NoCall
  <2>3. opLock = Nobody /\ holder = Nobody /\ guards = {}  BY DEF Init, Lease!Init
  <2>4. LockInv  BY <2>1, <2>2, <2>3, LockedRange, KindDef DEF LockInv
  <2>5. LeaseInv  BY <2>2, <2>3 DEF LeaseInv, Admitted
  <2>6. JobInv  BY <2>2 DEF JobInv
  <2> QED BY <2>4, <2>5, <2>6 DEF IInv
<1>2. TypeOK /\ IInv /\ [Next]_vars => IInv'
  BY LockStep, LeaseStep, JobStep DEF IInv
<1>3. QED
  BY <1>1, <1>2, TypeCorrect, PTL DEF Spec

(* A call that waits for its input, or has one running as a task, has the  *)
(* operation lock.                                                         *)
LEMMA EmitterHasLock ==
  ASSUME TypeOK, IInv, NEW c \in Call,
         job[c] = "task" \/ (Active(c) /\ Step(c) \in {"emit", "move"})
  PROVE  opLock = c
  <1>1. CallsOK  BY DEF TypeOK, CallsOK
  <1>2. CASE job[c] = "task"  BY <1>2 DEF IInv, LockInv
  <1>3. CASE Active(c) /\ Step(c) \in {"emit", "move"}
    <2>1. pc[c] \in Locked(kind[c])  BY <1>1, <1>3, AtStep, LockSteps DEF LockFacts
    <2> QED BY <2>1 DEF IInv, LockInv
  <1> QED BY <1>2, <1>3

(* Inputs never overlap, unless both the absolute pointer exists and       *)
(* callers can be dropped.                                                 *)
THEOREM OneInput == Spec => []OneInputAtATime
<1>1. TypeOK /\ IInv => OneInputAtATime
  <2> SUFFICES ASSUME TypeOK, IInv, ~(AbsPointer /\ Cancels),
                      NEW c \in Call, NEW d \in Call, job[c] # "none", job[d] # "none"
               PROVE  c = d
    BY DEF OneInputAtATime
  <2>1. ASSUME NEW e \in Call, job[e] # "none" PROVE opLock = e
    <3>1. job[e] = "task" \/ (Active(e) /\ Step(e) \in {"emit", "move"})
      BY <2>1 DEF TypeOK, IInv, JobInv
    <3> QED BY <3>1, EmitterHasLock
  <2> QED BY <2>1
<1>2. QED
  BY <1>1, TypeCorrect, Invariance, PTL

(* This server has the machine-wide lock from the gate of a call to its    *)
(* return, and until the end of its task.                                  *)
THEOREM UnderLease == Spec => []InputUnderLease
<1>1. IInv => InputUnderLease
  BY LeaseHeld DEF IInv, InputUnderLease
<1>2. QED
  BY <1>1, Invariance, PTL

(* When no call is past its gate and no input is under way, neither lock   *)
(* is held for a call.                                                     *)
THEOREM NothingHeld == Spec => []QuietServerHoldsNothing
<1>1. TypeOK /\ IInv => QuietServerHoldsNothing
  <2> SUFFICES ASSUME TypeOK, IInv, \A c \in Call : ~Admitted(c) /\ job[c] = "none"
               PROVE  opLock = Nobody /\ (holder = Me => guards = {})
    BY DEF QuietServerHoldsNothing
  <2>1. ASSUME NEW c \in Call PROVE pc[c] \notin Locked(kind[c])
    <3>1. kind[c] \in Kind  BY DEF TypeOK
    <3>2. SUFFICES ASSUME pc[c] \in Locked(kind[c]) PROVE FALSE
      OBVIOUS
    <3>3. kind[c] \in Gated /\ pc[c] \in 2..Len(Handler[kind[c]])
      BY <3>1, <3>2, LockedRange
    <3>4. Len(Handler[kind[c]]) \in Nat  BY <3>1, HandlerLen
    <3> QED BY <3>3, <3>4 DEF Admitted
  <2>2. opLock = Nobody  BY <2>1 DEF TypeOK, IInv, LockInv
  <2>3. ASSUME holder = Me, NEW g \in guards PROVE FALSE
    <3>1. Me # Other  BY InputDispatchAssumption
    <3>2. g # OtherLease  BY <2>3, <3>1 DEF IInv, LeaseInv
    <3>3. PICK c \in Call : g = OwnLease(c) \/ g = TaskLease(c)
      BY <2>3, <3>2 DEF TypeOK, OwnLease, TaskLease
    <3> HIDE DEF Admitted
    <3> QED BY <2>3, <3>3 DEF IInv, LeaseInv
  <2> QED BY <2>2, <2>3
<1>2. QED
  BY <1>1, TypeCorrect, Invariance, PTL

(* A tool that takes the operation lock before it focuses its window does  *)
(* not do so in the middle of another call's locked part or task.          *)
THEOREM InTurn == Spec => RaisesInTurn
<1>1. TypeOK /\ IInv /\ [Next]_vars =>
        \A c, d \in Call :
          /\ Focus(c) /\ kind[c] \in {"click", "modClick", "scroll", "keys", "type"}
          /\ pc[d] \in Locked(kind[d]) \/ job[d] = "task"
          => c = d
  <2> SUFFICES ASSUME TypeOK, IInv, NEW c \in Call, NEW d \in Call, Focus(c),
                      kind[c] \in {"click", "modClick", "scroll", "keys", "type"},
                      pc[d] \in Locked(kind[d]) \/ job[d] = "task"
               PROVE  c = d
    OBVIOUS
  <2>1. CallsOK  BY DEF TypeOK, CallsOK
  <2>2. pc[c] \in Locked(kind[c])
    BY <2>1, AtStep, LockSteps DEF Focus, LockFacts
  <2> QED BY <2>2 DEF IInv, LockInv
<1>2. QED
  BY <1>1, TypeCorrect, Invariance, PTL DEF Spec, RaisesInTurn

(* Only a call at a step that sends input, or moves the pointer, starts a job. *)
LEMMA EmitsAtStep ==
  ASSUME TypeOK, JobInv, [Next]_vars, NEW c \in Call, Emits(c)
  PROVE  Active(c) /\ Step(c) \in {"emit", "move"}
  <1>1. Acts(c)
    <2>1. job'[c] # job[c]  BY DEF Emits
    <2> QED BY <2>1, Alone, Outside DEF Next, Acts
  <1> USE DEF Emits, TypeOK
  <1>2. CASE Proceeds(c)
    BY <1>2
    DEF Proceeds, Gate, Refused, Passes, Awaits, ReturnsEarly, Focus, Hold, Unlock, Unhold,
        SkipMove, Return, StartTask, QueueAbs, inputVars
  <1>3. CASE Dispatch(c) \/ Lock(c) \/ Cancel(c)
    BY <1>3 DEF Dispatch, Lock, Cancel, inputVars
  <1>4. CASE AbsBegins(c) \/ JobEnds(c)
    BY <1>4 DEF AbsBegins, JobEnds, AbsEnds, AbsFails, TaskEnds
  <1> QED BY <1>1, <1>2, <1>3, <1>4 DEF Acts

(* A key sequence is not interrupted by another call's input.              *)
THEOREM Together == Spec => KeysTogether
<1>1. TypeOK /\ IInv /\ [Next]_vars =>
        \A c, d \in Call :
          /\ Emits(c)
          /\ kind[d] = "keys" /\ \E i \in 1..(pc[d]-1) : KeysSteps[i] = "emit"
          => c = d \/ \A i \in pc[d]..Len(KeysSteps) : KeysSteps[i] # "emit"
  <2> SUFFICES ASSUME TypeOK, IInv, [Next]_vars, NEW c \in Call, NEW d \in Call, Emits(c),
                      kind[d] = "keys", NEW i \in 1..(pc[d]-1), KeysSteps[i] = "emit",
                      NEW j \in pc[d]..Len(KeysSteps), KeysSteps[j] = "emit"
               PROVE  c = d
    OBVIOUS
  <2>1. opLock = c  BY EmitsAtStep, EmitterHasLock DEF IInv
  <2>2. CallsOK /\ pc[d] \in Nat  BY DEF TypeOK, CallsOK
  <2>3. Len(KeysSteps) = 8 /\ \A m \in 1..8 : KeysSteps[m] = "emit" <=> m \in {5, 6}
    BY DEF KeysSteps
  <2>4. pc[d] = 6  BY <2>2, <2>3
  <2>5. Step(d) = "emit" /\ Active(d)
    <3>1. Handler[kind[d]] = KeysSteps  BY Table
    <3>2. KeysSteps[6] = "emit"  BY <2>3
    <3>3. Active(d)  BY DEF Active, NoCall
    <3>4. 6 <= Len(KeysSteps)  BY <2>3
    <3>5. Step(d) = IF 6 <= Len(KeysSteps) THEN KeysSteps[6] ELSE "return"
      BY <2>4, <3>1, Zenon DEF Step
    <3> QED BY <3>2, <3>3, <3>4, <3>5
  <2>6. opLock = d  BY <2>5, EmitterHasLock
  <2> QED BY <2>1, <2>6
<1>2. QED
  BY <1>1, TypeCorrect, Invariance, PTL DEF Spec, KeysTogether

(* Every state is well formed and its parts agree, for every value of the  *)
(* constants.                                                              *)
THEOREM Consistency == Spec => []Consistent
  BY TypeCorrect, Invariance, PTL DEF Consistent
=============================================================================
