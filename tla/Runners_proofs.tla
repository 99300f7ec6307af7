--------------------------- MODULE Runners_proofs ---------------------------
(***************************************************************************)
(* Proofs about the two runners of commands, CommandRunner and             *)
(* BlockingRunner, for any number of descendants, any pipe capacity, any   *)
(* limits on a drain and on the output, and any amount of input and        *)
(* output. What both rest on is proved first, about their ProcessTree.     *)
(***************************************************************************)
EXTENDS CommandRunner, BlockingRunner, TLAPS

-----------------------------------------------------------------------------
(* What the steps of a command's processes, a kill and a reaping preserve  *)
(* of the state of ProcessTree.                                            *)

(* The types and the tree stay consistent, a pipe closed everywhere stays  *)
(* so, a killed group is not revived, and no process is reaped.            *)
TreeKept ==
  /\ TreeTypeOK'
  /\ TreeInv'
  /\ \A f \in Pipe : ~Held(f) => ~Held(f)'
  /\ Running = {} => Running' = {}
  /\ ours' = ours
  /\ life'[Leader] = "reaped" <=> life[Leader] = "reaped"

(* No chunk moves but through a pipe that is open at both ends, and what   *)
(* is written goes into the pipe.                                          *)
ChunksKept ==
  /\ \A f \in Out : f \notin ours \/ ~Held(f) =>
       pipe'[f] = pipe[f] /\ sent'[f] = sent[f]
  /\ \A f \in Out, n \in Nat : sent[f] = n + pipe[f] => sent'[f] = n + pipe'[f]

(* The running members of the group are processes.                         *)
LEMMA RunningProc == Running \in SUBSET Proc
  BY DEF Running

(* A process may fork and exit, but its group stays killed once it is.     *)
LEMMA StepKeepsTree ==
  ASSUME TreeTypeOK, TreeInv, NEW p \in Proc, Step(p)
  PROVE  TreeKept
<1> USE ProcessTreeAssumption
    DEF Proc, Pipe, Out, TreeTypeOK, TreeInv, TreeKept, Held, Running, Free
<1>1. ASSUME NEW c \in Child, Fork(p, c) PROVE TreeKept
  <2> USE <1>1 DEF Fork
  <2>1. TreeTypeOK' /\ TreeInv'
    OBVIOUS
  <2>2. \A f \in Pipe : ~Held(f) => ~Held(f)'
    OBVIOUS
  <2>3. Running = {} => Running' = {}
    OBVIOUS
  <2> QED BY <2>1, <2>2, <2>3
<1>2. ASSUME p \in Child \ away, Leave(p) PROVE TreeKept
  BY <1>2 DEF Leave
<1>3. ASSUME NEW f \in open[p], Close(p, f) PROVE TreeKept
  BY <1>3 DEF Close
<1>4. ASSUME NEW f \in open[p], Ask(p, f) PROVE TreeKept
  BY <1>4 DEF Ask
<1>5. ASSUME NEW f \in open[p], OtherEndClosed(p, f) PROVE TreeKept
  BY <1>5 DEF OtherEndClosed
<1>6. ASSUME NEW f \in Out, Write(p, f) PROVE TreeKept
  BY <1>6 DEF Write
<1>7. CASE ReadInput(p)
  BY <1>7 DEF ReadInput
<1>8. CASE Exit(p)
  BY <1>8 DEF Exit
<1> QED
  BY <1>1, <1>2, <1>3, <1>4, <1>5, <1>6, <1>7, <1>8 DEF Step

(* A process writes into pipes it holds and whose reader is there.         *)
LEMMA StepKeepsChunks ==
  ASSUME TreeTypeOK, TreeInv, NEW p \in Proc, Step(p)
  PROVE  ChunksKept
<1> USE DEF Pipe, Out, TreeTypeOK, ChunksKept
<1>1. ASSUME NEW f \in Out, Write(p, f) PROVE ChunksKept
  <2>1. Held(f)
    BY <1>1 DEF Write, TreeInv, Held
  <2>2. \A g \in Out : pipe'[g] = (IF g = f THEN pipe[g] + 1 ELSE pipe[g])
                    /\ sent'[g] = (IF g = f THEN sent[g] + 1 ELSE sent[g])
    BY <1>1 DEF Write
  <2> QED BY <1>1, <2>1, <2>2 DEF Write
<1>2. CASE ReadInput(p)
  BY <1>2 DEF ReadInput
<1>3. CASE UNCHANGED <<pipe, sent>>
  BY <1>3
<1> QED
  BY <1>1, <1>2, <1>3 DEF Step, Fork, Leave, Close, Ask, OtherEndClosed, Exit

(* kill(-pgid) leaves no member of the group running and changes nothing   *)
(* else about the processes.                                               *)
LEMMA KillKeepsTree ==
  ASSUME TreeTypeOK, TreeInv, KillGroup,
         UNCHANGED <<away, open, want, pipe, sent>>, ours' \in SUBSET ours
  PROVE  /\ TreeTypeOK'
         /\ TreeInv'
         /\ Running' = {}
         /\ life'[Leader] = "reaped" <=> life[Leader] = "reaped"
         /\ \A f \in Pipe : Held(f)' <=> Held(f)
  BY DEF KillGroup, TreeTypeOK, TreeInv, Running, Proc, Held

(* Reaping concerns a zombie, which holds nothing and does not run.        *)
LEMMA ReapKeepsTree ==
  ASSUME TreeTypeOK, TreeInv, Reap,
         UNCHANGED <<away, open, want, pipe, sent>>, ours' \in SUBSET ours
  PROVE  /\ TreeTypeOK'
         /\ TreeInv'
         /\ Running' = Running
         /\ life'[Leader] = "reaped"
         /\ \A f \in Pipe : Held(f)' <=> Held(f)
  BY ProcessTreeAssumption DEF Reap, TreeTypeOK, TreeInv, Running, Proc, Held

(* The pipes of a command.                                                 *)
LEMMA PipeDef == Pipe = {"in", "out", "err"} /\ Out = {"out", "err"}
  BY DEF Pipe, Out

(* A kill of the group leaves every process in one of the states of life.  *)
LEMMA GroupKillTyped ==
  ASSUME TreeTypeOK, KillGroup
  PROVE  life' \in [Proc -> {"absent", "alive", "dying", "dead", "reaped"}]
  BY DEF TreeTypeOK, KillGroup

-----------------------------------------------------------------------------
(* The supervised runner: processes, pipes, tasks and supervisor.          *)

(* A kill makes processes die and nothing else.                            *)
LEMMA KillTyped ==
  ASSUME TreeTypeOK, Kill
  PROVE  life' \in [Proc -> {"absent", "alive", "dying", "dead", "reaped"}]
  BY DEF TreeTypeOK, Kill, KillGroup, KillLeader, Proc

(* Every step keeps the types.                                             *)
LEMMA TypeStep ==
  ASSUME TypeOK, TreeInv, [Next]_vars
  PROVE  TypeOK'
<1> USE PipeDef, ProcessTreeAssumption, CommandRunnerAssumption
    DEF TypeOK, Phases, Verdicts
<1>1. ASSUME NEW p \in Proc, ProcessStep(p) PROVE TypeOK'
  BY <1>1, StepKeepsTree DEF ProcessStep, TreeKept, runVars
<1> USE DEF TreeTypeOK
<1>2. ASSUME NEW f \in Out, ReadOutput(f) PROVE TypeOK'
  BY <1>2 DEF ReadOutput, Collect
<1>3. ASSUME NEW f \in Out, TooMuchOutput(f) PROVE TypeOK'
  BY <1>3 DEF TooMuchOutput, StopReading, EndTask
<1>4. ASSUME NEW f \in Out, EndOfOutput(f) PROVE TypeOK'
  BY <1>4 DEF EndOfOutput, EndTask
<1>5. CASE FeedInput
  BY <1>5 DEF FeedInput
<1>6. CASE InputWritten \/ InputRefused
  <2>1. EndTask("in", "ok") \/ EndTask("in", "failed")
    BY <1>6 DEF InputWritten, InputRefused
  <2>2. task' \in [Pipe -> {"running", "ok", "failed", "aborted"}] /\ ours' \in SUBSET Pipe
    BY <2>1 DEF EndTask
  <2> QED BY <1>6, <2>2 DEF InputWritten, InputRefused
<1>7. CASE Joined \/ DeadlinePasses \/ CallerDropped
  BY <1>7 DEF Joined, DeadlinePasses, CallerDropped, treeVars
<1>8. CASE Succeed \/ LeaderReaped \/ OrphanReaped
  <2>1. life' \in [Proc -> {"absent", "alive", "dying", "dead", "reaped"}]
    BY <1>8 DEF Succeed, LeaderReaped, OrphanReaped, Reap
  <2>2. CASE Succeed
    BY <2>1, <2>2 DEF Succeed
  <2>3. CASE LeaderReaped
    BY <2>1, <2>3 DEF LeaderReaped, FinishTermination
  <2>4. CASE OrphanReaped
    BY <2>1, <2>4 DEF OrphanReaped, runVars
  <2> QED BY <1>8, <2>2, <2>3, <2>4
<1>9. CASE ReapTimedOut
  BY <1>9 DEF ReapTimedOut, FinishTermination
<1>10. ASSUME NEW why \in Verdicts, Terminate(why) PROVE TypeOK'
  BY <1>10, KillTyped DEF Terminate
<1>11. CASE Shutdown
  BY <1>11, KillTyped DEF Shutdown, DropTasks
<1>12. CASE UNCHANGED vars
  BY <1>12 DEF vars, treeVars, runVars
<1> QED
  BY <1>1, <1>2, <1>3, <1>4, <1>5, <1>6, <1>7, <1>8, <1>9, <1>10, <1>11, <1>12
  DEF Next, PipeTask, Supervise, TaskFailed, TimedOut, Cancelled

-----------------------------------------------------------------------------
(* The guard of a command under way is armed, so a kill reaches the group. *)
LEMMA KillIsGroupKill ==
  ASSUME PhaseInv, ~Ended, Kill
  PROVE  KillGroup
  BY DEF PhaseInv, Kill

(* Processes, pipes, tasks and supervisor agree after every step.          *)
LEMMA InductiveStep ==
  ASSUME TypeOK, IInv, [Next]_vars
  PROVE  IInv'
<1> USE PipeDef, ProcessTreeAssumption, CommandRunnerAssumption
    DEF IInv
<1>0. TreeTypeOK
  BY DEF TypeOK
<1>1. ASSUME NEW p \in Proc, ProcessStep(p) PROVE IInv'
  <2>1. TreeKept /\ ChunksKept /\ UNCHANGED runVars
    BY <1>0, <1>1, StepKeepsTree, StepKeepsChunks DEF ProcessStep
  <2>2. PipeInv'
    BY <2>1 DEF PipeInv, TypeOK, TreeKept, ChunksKept, runVars
  <2>3. PhaseInv'
    BY <2>1 DEF PhaseInv, TreeKept, runVars, Ended
  <2> QED BY <2>1, <2>2, <2>3 DEF TreeKept
<1>2. CASE \E f \in Pipe : PipeTask(f)
  <2>1. PICK f \in Pipe : PipeTask(f)
    BY <1>2
  <2>2. UNCHANGED <<life, away, open, want>> /\ UNCHANGED <<phase, armed, verdict>>
        /\ UNCHANGED sent
    BY <2>1 DEF PipeTask, ReadOutput, Collect, TooMuchOutput, StopReading,
                EndOfOutput, FeedInput, InputWritten, InputRefused, EndTask
  <2>3. TreeInv'
    BY <2>2 DEF TreeInv
  <2>4. PipeInv'
    BY <2>1, <2>2 DEF PipeTask, ReadOutput, Collect, TooMuchOutput, StopReading,
       EndOfOutput, FeedInput, InputWritten, InputRefused, EndTask,
       PipeInv, TypeOK, TreeTypeOK, Held
  <2>5. \A g \in Pipe : task[g] = "ok" => task'[g] = "ok"
    BY <2>1 DEF PipeTask, ReadOutput, Collect, TooMuchOutput, StopReading,
       EndOfOutput, FeedInput, InputWritten, InputRefused, EndTask, TypeOK
  <2>6. PhaseInv'
    BY <2>2, <2>5 DEF PhaseInv, Running, Ended
  <2> QED BY <2>3, <2>4, <2>6
<1>3. CASE Joined \/ DeadlinePasses \/ CallerDropped
  <2>1. UNCHANGED <<treeVars, task, got, fed, armed, verdict>>
    BY <1>3 DEF Joined, DeadlinePasses, CallerDropped
  <2>2. TreeInv' /\ PipeInv'
    BY <2>1 DEF treeVars, TreeInv, PipeInv, Held
  <2>3. PhaseInv'
    BY <1>3, <2>1 DEF Joined, DeadlinePasses, CallerDropped,
       treeVars, PhaseInv, Running, Ended, TypeOK
  <2> QED BY <2>2, <2>3
<1>4. CASE Succeed
  <2>1. TreeInv' /\ Running' = Running /\ life'[Leader] = "reaped"
        /\ \A f \in Pipe : Held(f)' <=> Held(f)
    BY <1>0, <1>4, ReapKeepsTree DEF Succeed
  <2>2. PipeInv'
    BY <1>4, <2>1 DEF Succeed, PipeInv
  <2>3. PhaseInv'
    BY <1>4, <2>1 DEF Succeed, PhaseInv, Ended
  <2> QED BY <2>1, <2>2, <2>3
<1>5. ASSUME NEW why \in Verdicts \ {"none", "ok"}, Terminate(why) PROVE IInv'
  <2>1. TreeInv' /\ Running' = {} /\ (life'[Leader] = "reaped" <=> life[Leader] = "reaped")
        /\ \A f \in Pipe : Held(f)' <=> Held(f)
    BY <1>0, <1>5, KillIsGroupKill, KillKeepsTree DEF Terminate, Ended
  <2>2. PipeInv'
    BY <1>5, <2>1 DEF Terminate, PipeInv
  <2>3. PhaseInv'
    BY <1>5, <2>1 DEF Terminate, PhaseInv, Ended, Verdicts
  <2> QED BY <2>1, <2>2, <2>3
<1>6. ASSUME ours' = {}, UNCHANGED <<pipe, sent, got, fed>>,
             task' = [f \in Pipe |-> IF task[f] = "running" THEN "aborted" ELSE task[f]],
             \A f \in Pipe : Held(f)' <=> Held(f)
      PROVE  PipeInv' /\ \A f \in Pipe : task[f] = "ok" => task'[f] = "ok"
  BY <1>6 DEF PipeInv, TypeOK
<1>7. CASE LeaderReaped
  <2>1. TreeInv' /\ Running' = Running /\ life'[Leader] = "reaped"
        /\ \A f \in Pipe : Held(f)' <=> Held(f)
    BY <1>0, <1>7, ReapKeepsTree DEF LeaderReaped, FinishTermination
  <2>2. PipeInv'
    BY <1>6, <1>7, <2>1 DEF LeaderReaped, FinishTermination
  <2>3. PhaseInv'
    BY <1>7, <2>1 DEF LeaderReaped, FinishTermination, PhaseInv, Ended
  <2> QED BY <2>1, <2>2, <2>3
<1>8. CASE ReapTimedOut
  <2>1. UNCHANGED <<life, away, open, want>>
    BY <1>8 DEF ReapTimedOut, FinishTermination
  <2>2. TreeInv' /\ Running' = Running /\ \A f \in Pipe : Held(f)' <=> Held(f)
    BY <2>1 DEF TreeInv, Running, Held
  <2>3. PipeInv'
    BY <1>6, <1>8, <2>2 DEF ReapTimedOut, FinishTermination
  <2>4. PhaseInv'
    BY <1>8, <2>2 DEF ReapTimedOut, FinishTermination, PhaseInv, Ended
  <2> QED BY <2>2, <2>3, <2>4
<1>9. CASE Shutdown
  <2>1. TreeInv' /\ Running' = {} /\ (life'[Leader] = "reaped" <=> life[Leader] = "reaped")
        /\ \A f \in Pipe : Held(f)' <=> Held(f)
    BY <1>0, <1>9, KillIsGroupKill, KillKeepsTree DEF Shutdown, DropTasks, Ended
  <2>2. PipeInv'
    BY <1>6, <1>9, <2>1 DEF Shutdown, DropTasks
  <2>3. PhaseInv'
    BY <1>9, <2>1 DEF Shutdown, DropTasks, PhaseInv, Ended
  <2> QED BY <2>1, <2>2, <2>3
<1>10. CASE OrphanReaped
  <2>1. TreeInv' /\ Running' = Running
        /\ \A f \in Pipe : Held(f)' <=> Held(f)
    BY <1>0, <1>10, ReapKeepsTree DEF OrphanReaped
  <2>2. PipeInv'
    BY <1>10, <2>1 DEF OrphanReaped, PipeInv, runVars
  <2>3. PhaseInv'
    BY <1>10, <2>1 DEF OrphanReaped, PhaseInv, Ended, runVars, Reap
  <2> QED BY <2>1, <2>2, <2>3
<1>11. CASE UNCHANGED vars
  BY <1>11 DEF vars, treeVars, runVars, TreeInv, PipeInv, PhaseInv, Ended, Running, Held
<1> QED
  BY <1>1, <1>2, <1>3, <1>4, <1>5, <1>7, <1>8, <1>9, <1>10, <1>11
  DEF Next, Supervise, TaskFailed, TimedOut, Cancelled, Verdicts

(* A command starts with its leader alive, its readers running and its     *)
(* guard armed.                                                            *)
LEMMA InitInv ==
  ASSUME Init
  PROVE  TypeOK /\ IInv
<1> USE PipeDef, ProcessTreeAssumption, CommandRunnerAssumption
    DEF Init, TreeInit
<1>1. TypeOK
  <2>1. TreeTypeOK
    <3>1. ours \in SUBSET Pipe
      OBVIOUS
    <3>2. open \in [Proc -> SUBSET Pipe]
      OBVIOUS
    <3>3. life \in [Proc -> {"absent", "alive", "dying", "dead", "reaped"}]
      OBVIOUS
    <3> QED BY <3>1, <3>2, <3>3 DEF TreeTypeOK
  <2>2. task \in [Pipe -> {"running", "ok", "failed", "aborted"}]
    OBVIOUS
  <2>3. got \in [Out -> 0 .. MaxOutput] /\ fed \in 0 .. Feed
    OBVIOUS
  <2> QED BY <2>1, <2>2, <2>3 DEF TypeOK, Phases, Verdicts
<1>2. TreeInv
  BY DEF TreeInv, Proc
<1>3. PipeInv
  BY DEF PipeInv
<1>4. PhaseInv
  BY DEF PhaseInv, Ended, Proc
<1> QED BY <1>1, <1>2, <1>3, <1>4 DEF IInv

(* Together: the invariant holds in every state of the runner.             *)
LEMMA AlwaysInv == Spec => [](TypeOK /\ IInv)
<1>1. TypeOK /\ IInv /\ [Next]_vars => (TypeOK /\ IInv)'
  BY TypeStep, InductiveStep DEF IInv
<1> QED BY InitInv, <1>1, PTL DEF Spec

(* Every variable of the runner keeps its type.                            *)
THEOREM TypeCorrect == Spec => []TypeOK
  BY AlwaysInv, PTL

(* Processes, pipes, tasks and supervisor agree in every state.            *)
THEOREM Invariance == Spec => []IInv
  BY AlwaysInv, PTL

-----------------------------------------------------------------------------
(* However a command ends, unless it succeeded no process of its group     *)
(* goes on running.                                                        *)
THEOREM LeftBehind == Spec => []NothingLeftBehind
<1>1. IInv => NothingLeftBehind
  BY DEF IInv, PhaseInv, NothingLeftBehind
<1> QED BY <1>1, Invariance, PTL

(* Tasks that ended well have all of the output and wrote all the input.   *)
LEMMA AllOkIsWhole ==
  ASSUME TypeOK, PipeInv, \A f \in Pipe : task[f] = "ok"
  PROVE  Whole /\ fed = Feed
  BY PipeDef DEF TypeOK, TreeTypeOK, PipeInv, Whole

(* A success returns all that the command wrote or ever will.              *)
THEOREM WholeSuccess == Spec => []SuccessIsWhole
<1>1. TypeOK /\ IInv => SuccessIsWhole
  BY AllOkIsWhole DEF IInv, PhaseInv, SuccessIsWhole, Whole
<1> QED BY <1>1, AlwaysInv, PTL

(* The supervisor never signals a group that may not be the command's.     *)
THEOREM OwnGroup == Spec => KillsOwnGroup
<1>1. ASSUME IInv, [Next]_vars, phase # "reaping", phase' = "reaping"
      PROVE  GroupTaken
  <2>1. phase \in {"joining", "waiting"}
    <3> USE <1>1 DEF runVars
    <3>1. CASE \E p \in Proc : ProcessStep(p)
      BY <3>1 DEF ProcessStep
    <3>2. CASE \E f \in Pipe : PipeTask(f)
      BY <3>2 DEF PipeTask, ReadOutput, Collect, TooMuchOutput, StopReading,
         EndOfOutput, FeedInput, InputWritten, InputRefused
    <3>3. CASE Supervise
      BY <3>3 DEF Supervise, Joined, Succeed, TaskFailed, TimedOut, Cancelled,
         Terminate, LeaderReaped, ReapTimedOut, FinishTermination
    <3>4. CASE DeadlinePasses \/ CallerDropped \/ Shutdown \/ OrphanReaped
      BY <3>4 DEF DeadlinePasses, CallerDropped, Shutdown, DropTasks,
         OrphanReaped
    <3>5. CASE UNCHANGED vars
      BY <3>5 DEF vars
    <3> QED BY <3>1, <3>2, <3>3, <3>4, <3>5 DEF Next
  <2> QED BY <1>1, <2>1 DEF IInv, PhaseInv, Ended, GroupTaken
<1>2. IInv /\ [Next]_vars => [phase # "reaping" /\ phase' = "reaping" => GroupTaken]_vars
  BY <1>1
<1> QED BY <1>2, Invariance, PTL DEF Spec, KillsOwnGroup

-----------------------------------------------------------------------------
(* Once all of it has been collected, nothing more is ever written.        *)
LEMMA WholeStays ==
  ASSUME TypeOK, IInv, [Next]_vars, Whole
  PROVE  Whole'
<1> USE PipeDef, ProcessTreeAssumption DEF Whole
<1>0. TreeTypeOK /\ TreeInv
  BY DEF TypeOK, IInv
<1>1. ASSUME NEW p \in Proc, ProcessStep(p) PROVE Whole'
  BY <1>0, <1>1, StepKeepsTree, StepKeepsChunks
  DEF ProcessStep, TreeKept, ChunksKept, runVars
<1>2. CASE \E f \in Pipe : PipeTask(f)
  BY <1>2 DEF PipeTask, ReadOutput, Collect, TooMuchOutput, StopReading,
     EndOfOutput, FeedInput, InputWritten, InputRefused, EndTask, Held, TypeOK, TreeTypeOK
<1>3. CASE Terminate("failed") \/ Terminate("timeout") \/ Terminate("cancelled")
           \/ Shutdown
  <2>1. UNCHANGED <<open, pipe, sent, got>>
    BY <1>3 DEF Terminate, Shutdown, DropTasks
  <2> QED BY <2>1 DEF Held
<1>4. CASE Joined \/ Succeed \/ LeaderReaped \/ ReapTimedOut \/ DeadlinePasses
           \/ CallerDropped \/ OrphanReaped \/ UNCHANGED vars
  <2>1. UNCHANGED <<open, pipe, sent, got>>
    BY <1>4 DEF Joined, Succeed, LeaderReaped, ReapTimedOut, FinishTermination,
       DeadlinePasses, CallerDropped, OrphanReaped, vars, treeVars, runVars
  <2> QED BY <2>1 DEF Held
<1> QED
  BY <1>1, <1>2, <1>3, <1>4 DEF Next, Supervise, TaskFailed, TimedOut, Cancelled

(* What the abstract command sees of a phase.                              *)
Seen == IF verdict = "ok" THEN "ok"
        ELSE IF phase \in {"joining", "waiting"} THEN "running" ELSE "failed"

(* A step succeeds, or fails, or leaves the outcome as it is.              *)
LEMMA OutcomeSteps ==
  ASSUME TypeOK, IInv, [Next]_vars
  PROVE  \/ Seen' = Seen
         \/ Succeed
         \/ /\ Seen = "running" /\ Seen' = "failed"
            /\ UNCHANGED <<open, pipe, sent, got>>
<1> USE DEF Seen
<1>1. CASE Succeed
  BY <1>1
<1>2. CASE TaskFailed \/ TimedOut \/ Cancelled
  BY <1>2 DEF TaskFailed, TimedOut, Cancelled, Terminate, IInv, PhaseInv
<1>3. CASE LeaderReaped \/ ReapTimedOut
  BY <1>3 DEF LeaderReaped, ReapTimedOut, FinishTermination
<1>4. CASE Shutdown
  BY <1>4 DEF Shutdown, DropTasks, IInv, PhaseInv
<1>5. CASE UNCHANGED <<phase, verdict>>
  BY <1>5
<1>6. CASE Joined
  BY <1>6 DEF Joined
<1>7. CASE \E f \in Pipe : PipeTask(f)
  BY <1>5, <1>7 DEF PipeTask, ReadOutput, Collect, TooMuchOutput, StopReading,
     EndOfOutput, FeedInput, InputWritten, InputRefused
<1> QED
  BY <1>1, <1>2, <1>3, <1>4, <1>5, <1>6, <1>7
  DEF Next, Supervise, ProcessStep, DeadlinePasses, CallerDropped,
      OrphanReaped, vars, runVars

(* The supervisor, its tasks and the processes implement the abstract      *)
(* command: one outcome, whole if it is a success, clean if it is not.     *)
THEOREM Refinement == Spec => ImplementsBoundedCommand
<1>1. Init => Bounded!Init
  <2>1. Init => Held("out") /\ verdict # "ok" /\ phase = "joining"
    BY PipeDef DEF Init, TreeInit, Held, Proc
  <2> QED BY <2>1, RunningProc, PipeDef DEF Bounded!Init, Whole
<1>2. ASSUME TypeOK, IInv, (TypeOK /\ IInv)', [Next]_vars
      PROVE  [Bounded!Next]_Bounded!vars
  <2>1. Running' \in SUBSET Proc
    BY DEF Running
  <2>2. Whole => Whole'
    BY <1>2, WholeStays
  <2>3. Whole' \in BOOLEAN
    BY DEF Whole
  <2>4. Seen = "failed" => Running = {}
    BY <1>2 DEF Seen, TypeOK, Phases, IInv, PhaseInv
  <2>5. Seen' = "failed" => Running' = {}
    BY <1>2 DEF Seen, TypeOK, Phases, IInv, PhaseInv
  <2>6. CASE Seen' = Seen
    BY <2>1, <2>2, <2>3, <2>5, <2>6 DEF Bounded!Next, Bounded!Progress, Seen
  <2>7. CASE Succeed
    <3>1. Whole /\ Whole'
      BY <1>2, <2>2, <2>7, AllOkIsWhole DEF Succeed, IInv, PhaseInv
    <3>2. Running' = Running
      BY <1>2, <2>7, ReapKeepsTree DEF Succeed, TypeOK, IInv
    <3>3. Seen = "running" /\ Seen' = "ok"
      BY <1>2, <2>7 DEF Seen, Succeed, IInv, PhaseInv
    <3> QED BY <3>1, <3>2, <3>3 DEF Bounded!Next, Bounded!Succeed, Seen
  <2>8. CASE /\ Seen = "running" /\ Seen' = "failed"
             /\ UNCHANGED <<open, pipe, sent, got>>
    <3>1. Whole' = Whole
      BY <2>8 DEF Whole, Held
    <3> QED BY <2>5, <2>8, <3>1 DEF Bounded!Next, Bounded!Fail, Seen
  <2> QED BY <1>2, <2>6, <2>7, <2>8, OutcomeSteps
<1> QED
  BY <1>1, <1>2, AlwaysInv, PTL DEF Spec, ImplementsBoundedCommand, Bounded!Spec

(* Every state is well formed and its parts agree, for every value of the  *)
(* constants.                                                              *)
THEOREM Consistency == Spec => []Consistent
  BY TypeCorrect, Invariance, PTL DEF Consistent

-----------------------------------------------------------------------------
(* The polling runner: its thread and the tree agree after every step.     *)

(* stdout is drained before stderr, and both before the leader is polled.  *)
LEMMA AfterDef == After("out") = "err" /\ After("err") = "wait"
  BY DEF After

(* Every step keeps the types.                                             *)
LEMMA PollTypeStep ==
  ASSUME PollTypeOK, TreeInv, [PollNext]_pollVars
  PROVE  PollTypeOK'
<1> USE PipeDef, AfterDef, ProcessTreeAssumption, BlockingRunnerAssumption DEF PollTypeOK
<1>1. ASSUME NEW p \in Proc, PollProcessStep(p) PROVE PollTypeOK'
  BY <1>1, StepKeepsTree DEF PollProcessStep, TreeKept, threadVars
<1> USE DEF TreeTypeOK
<1>2. ASSUME NEW f \in Out, Drain(f) PROVE PollTypeOK'
  <2>1. CASE drained + 1 >= MaxDrain
    BY <1>2, <2>1 DEF Drain, PollCollect
  <2>2. CASE ~(drained + 1 >= MaxDrain)
    BY <1>2, <2>2 DEF Drain, PollCollect
  <2> QED BY <2>1, <2>2
<1>3. ASSUME NEW f \in Out, WouldBlock(f) \/ PollEndOfOutput(f) PROVE PollTypeOK'
  <2>1. UNCHANGED treeVars /\ UNCHANGED <<drawn, overdue, answer>> /\ drained' = 0
    BY <1>3 DEF WouldBlock, PollEndOfOutput
  <2>2. at' \in {"err", "wait"} /\ eof' \in SUBSET Out
    BY <1>3 DEF WouldBlock, PollEndOfOutput
  <2> QED BY <2>1, <2>2 DEF treeVars
<1>4. ASSUME NEW why \in {"failed", "timeout"}, PollTerminate(why) PROVE PollTypeOK'
  BY <1>4, GroupKillTyped DEF PollTerminate
<1>5. CASE Configure \/ NotYet \/ SleepAgain \/ PollDeadlinePasses
  BY <1>5 DEF Configure, NotYet, SleepAgain, PollDeadlinePasses, treeVars
<1>6. CASE PollSucceed \/ PollLeaderReaped
  BY <1>6 DEF PollSucceed, PollLeaderReaped, Return, Reap
<1>7. CASE PollReapTimedOut
  BY <1>7 DEF PollReapTimedOut, Return
<1>8. CASE UNCHANGED pollVars
  BY <1>8 DEF pollVars, treeVars, threadVars
<1> QED
  BY <1>1, <1>2, <1>3, <1>4, <1>5, <1>6, <1>7, <1>8
  DEF PollNext, Thread, ConfigureFails, PollTooMuchOutput, PollTimedOut

(* Processes, pipes and thread agree after every step.                     *)
LEMMA PollInductiveStep ==
  ASSUME PollTypeOK, PollIInv, [PollNext]_pollVars
  PROVE  PollIInv'
<1> USE PipeDef, AfterDef DEF PollIInv
<1>0. TreeTypeOK
  BY DEF PollTypeOK
<1>1. ASSUME NEW p \in Proc, PollProcessStep(p) PROVE PollIInv'
  <2>1. TreeKept /\ ChunksKept /\ UNCHANGED threadVars
    BY <1>0, <1>1, StepKeepsTree, StepKeepsChunks DEF PollProcessStep
  <2>2. PollInv'
    BY <2>1 DEF PollInv, PollTypeOK, TreeKept, ChunksKept, threadVars
  <2> QED BY <2>1, <2>2 DEF TreeKept
<1>2. ASSUME NEW f \in Out, Drain(f) PROVE PollIInv'
  <2>1. UNCHANGED <<life, away, open, want, sent, eof, answer>> /\ f \notin eof
    BY <1>2 DEF Drain, PollCollect
  <2>2. TreeInv' /\ Running' = Running /\ \A g \in Pipe : Held(g)' <=> Held(g)
    BY <2>1 DEF TreeInv, Running, Held
  <2>3. /\ pipe' = [pipe EXCEPT ![f] = @ - 1] /\ drawn' = [drawn EXCEPT ![f] = @ + 1]
        /\ at = f /\ at' \in {"out", "err", "wait"}
    BY <1>2 DEF Drain, PollCollect
  <2>4. \A g \in Out : sent'[g] = drawn'[g] + pipe'[g]
    <3>1. /\ \A g \in Out : sent[g] = drawn[g] + pipe[g] /\ drawn[g] \in Nat /\ pipe[g] \in Nat
          /\ Out \subseteq DOMAIN drawn /\ Out \subseteq DOMAIN pipe /\ sent' = sent
      BY <2>1 DEF PollInv, PollTypeOK, TreeTypeOK
    <3>2. ASSUME NEW g \in Out, g # f PROVE sent'[g] = drawn'[g] + pipe'[g]
      BY <2>3, <3>1, <3>2
    <3>3. drawn'[f] = drawn[f] + 1 /\ pipe'[f] = pipe[f] - 1
      BY <2>3, <3>1
    <3>4. sent'[f] = drawn'[f] + pipe'[f]
      BY <3>1, <3>3
    <3> QED BY <3>2, <3>4
  <2>5. \A g \in eof' : pipe'[g] = 0 /\ ~Held(g)'
    BY <2>1, <2>2, <2>3 DEF PollInv, PollTypeOK, TreeTypeOK
  <2>6. PollInv'
    BY <2>1, <2>2, <2>3, <2>4, <2>5 DEF PollInv
  <2> QED BY <2>2, <2>6
<1>3. ASSUME NEW f \in Out, WouldBlock(f) \/ PollEndOfOutput(f) PROVE PollIInv'
  <2>1. UNCHANGED treeVars /\ UNCHANGED <<drawn, answer>> /\ at \in {"out", "err"}
        /\ at' \in {"err", "wait"}
    BY <1>3 DEF WouldBlock, PollEndOfOutput
  <2>2. TreeInv' /\ Running' = Running /\ \A g \in Pipe : Held(g)' <=> Held(g)
    BY <2>1 DEF treeVars, TreeInv, Running, Held
  <2>3. \A g \in eof' : g \in eof \/ (pipe[g] = 0 /\ ~Held(g))
    BY <1>3 DEF WouldBlock, PollEndOfOutput
  <2>4. UNCHANGED <<life, pipe, sent, drawn, answer>>
    BY <2>1 DEF treeVars
  <2>5. /\ \A g \in Out : sent'[g] = drawn'[g] + pipe'[g]
        /\ \A g \in eof' : pipe'[g] = 0 /\ ~Held(g)'
    BY <1>3, <2>2, <2>3, <2>4 DEF PollInv, PollTypeOK, PollEndOfOutput, WouldBlock
  <2>6. PollInv'
    BY <2>1, <2>2, <2>4, <2>5 DEF PollInv
  <2> QED BY <2>2, <2>6
<1>4. ASSUME NEW why \in {"failed", "timeout"}, PollTerminate(why),
             at \notin {"reaping", "done"}
      PROVE  PollIInv'
  <2>1. TreeInv' /\ Running' = {} /\ (life'[Leader] = "reaped" <=> life[Leader] = "reaped")
        /\ \A f \in Pipe : Held(f)' <=> Held(f)
    BY <1>0, <1>4, KillKeepsTree DEF PollTerminate
  <2>2. PollInv'
    BY <1>4, <2>1 DEF PollTerminate, PollInv, PollTypeOK
  <2> QED BY <2>1, <2>2
<1>5. CASE Configure \/ NotYet \/ SleepAgain \/ PollDeadlinePasses \/ UNCHANGED pollVars
  <2>1. UNCHANGED treeVars /\ UNCHANGED <<eof, drawn, answer>>
    BY <1>5 DEF Configure, NotYet, SleepAgain, PollDeadlinePasses, pollVars, threadVars
  <2>2. at \in {"reaping", "done"} \/ at' \in {"reaping", "done"} => at' = at
    BY <1>5 DEF Configure, NotYet, SleepAgain, PollDeadlinePasses, pollVars, threadVars
  <2>3. TreeInv' /\ Running' = Running /\ \A g \in Pipe : Held(g)' <=> Held(g)
    BY <2>1 DEF treeVars, TreeInv, Running, Held
  <2>4. UNCHANGED <<life, pipe, sent, eof, drawn, answer>>
    BY <2>1 DEF treeVars
  <2>5. at' \in {"reaping", "done"} <=> at \in {"reaping", "done"}
    BY <2>2
  <2>6. /\ \A f \in Out : sent'[f] = drawn'[f] + pipe'[f]
        /\ \A f \in eof' : pipe'[f] = 0 /\ ~Held(f)'
    BY <2>3, <2>4 DEF PollInv, PollTypeOK
  <2>7. PollInv'
    BY <2>2, <2>3, <2>4, <2>5, <2>6 DEF PollInv
  <2> QED BY <2>3, <2>7
<1>6. CASE PollSucceed \/ PollLeaderReaped
  <2>1. TreeInv' /\ Running' = Running /\ life'[Leader] = "reaped"
        /\ \A f \in Pipe : Held(f)' <=> Held(f)
    BY <1>0, <1>6, ReapKeepsTree DEF PollSucceed, PollLeaderReaped, Return
  <2>2. PollInv'
    BY <1>6, <2>1 DEF PollSucceed, PollLeaderReaped, Return, PollInv, PollTypeOK
  <2> QED BY <2>1, <2>2
<1>7. CASE PollReapTimedOut
  <2>1. TreeInv' /\ Running' = Running /\ \A g \in Pipe : Held(g)' <=> Held(g)
    BY <1>7 DEF PollReapTimedOut, Return, TreeInv, Running, Held
  <2>2. PollInv'
    BY <1>7, <2>1 DEF PollReapTimedOut, Return, PollInv, PollTypeOK
  <2> QED BY <2>1, <2>2
<1> QED
  BY <1>1, <1>2, <1>3, <1>4, <1>5, <1>6, <1>7
  DEF PollNext, Thread, ConfigureFails, PollTooMuchOutput, PollTimedOut

-----------------------------------------------------------------------------
(* A call starts with its leader alive and nothing read.                   *)
LEMMA PollInitInv ==
  ASSUME PollInit
  PROVE  PollTypeOK /\ PollIInv
<1> USE PipeDef, ProcessTreeAssumption, BlockingRunnerAssumption DEF PollInit, TreeInit
<1>1. TreeTypeOK
  <2>1. open \in [Proc -> SUBSET Pipe]
    OBVIOUS
  <2>2. life \in [Proc -> {"absent", "alive", "dying", "dead", "reaped"}]
    OBVIOUS
  <2> QED BY <2>1, <2>2 DEF TreeTypeOK
<1>2. PollTypeOK
  <2>1. drawn \in [Out -> 0 .. MaxBlockingOutput] /\ drained \in 0 .. MaxDrain
    OBVIOUS
  <2> QED BY <1>1, <2>1 DEF PollTypeOK
<1>3. TreeInv
  BY DEF TreeInv, Proc
<1>4. PollInv
  BY DEF PollInv, Proc
<1> QED BY <1>2, <1>3, <1>4 DEF PollIInv

(* Together: the invariant holds in every state of the runner.             *)
LEMMA PollAlwaysInv == PollSpec => [](PollTypeOK /\ PollIInv)
<1>1. PollTypeOK /\ PollIInv /\ [PollNext]_pollVars => (PollTypeOK /\ PollIInv)'
  BY PollTypeStep, PollInductiveStep DEF PollIInv
<1> QED BY PollInitInv, <1>1, PTL DEF PollSpec

(* Every variable of the runner keeps its type.                            *)
THEOREM PollTypeCorrect == PollSpec => []PollTypeOK
  BY PollAlwaysInv, PTL

(* Processes, pipes and thread agree in every state.                       *)
THEOREM PollInvariance == PollSpec => []PollIInv
  BY PollAlwaysInv, PTL

-----------------------------------------------------------------------------
(* The thread never signals a group that may not be the command's.         *)
THEOREM PollOwnGroup == PollSpec => PollKillsOwnGroup
<1>1. ASSUME PollIInv, [PollNext]_pollVars, at # "reaping", at' = "reaping"
      PROVE  GroupTaken
  <2>1. at # "done"
    BY <1>1, PipeDef DEF PollNext, Thread, PollProcessStep, Configure, ConfigureFails,
       Drain,
       PollCollect, PollTooMuchOutput, WouldBlock, PollEndOfOutput, PollSucceed,
          NotYet, PollTimedOut,
       SleepAgain, PollDeadlinePasses, PollLeaderReaped, PollReapTimedOut, pollVars,
          threadVars
  <2> QED BY <1>1, <2>1 DEF PollIInv, PollInv, GroupTaken
<1>2. PollIInv /\ [PollNext]_pollVars => [at # "reaping" /\ at' = "reaping" => GroupTaken]_pollVars
  BY <1>1
<1> QED BY <1>2, PollInvariance, PTL DEF PollSpec, PollKillsOwnGroup

(* Once all of it has been collected, nothing more is ever written.        *)
LEMMA PollWholeStays ==
  ASSUME PollTypeOK, PollIInv, [PollNext]_pollVars, PollWhole
  PROVE  PollWhole'
<1> USE PipeDef DEF PollWhole
<1>1. ASSUME NEW p \in Proc, PollProcessStep(p) PROVE PollWhole'
  BY <1>1, StepKeepsTree, StepKeepsChunks
  DEF PollProcessStep, TreeKept, ChunksKept, threadVars, PollTypeOK, PollIInv
<1>2. CASE UNCHANGED <<pipe, drawn, sent, open>>
  BY <1>2 DEF Held
<1>3. ASSUME NEW f \in Out, Drain(f) PROVE PollWhole'
  BY <1>3 DEF Drain, PollCollect
<1> QED
  BY <1>1, <1>2, <1>3
  DEF PollNext, Thread, Configure, ConfigureFails, PollTooMuchOutput, WouldBlock,
     PollEndOfOutput,
      PollTerminate, PollSucceed, NotYet, PollTimedOut, SleepAgain, PollDeadlinePasses,
         PollLeaderReaped,
      PollReapTimedOut, Return, pollVars, treeVars, threadVars

(* A call succeeds, or fails, or its outcome stays.                        *)
LEMMA PollOutcomeSteps ==
  ASSUME PollTypeOK, PollIInv, [PollNext]_pollVars
  PROVE  \/ answer' = answer
         \/ PollSucceed
         \/ /\ answer = "none" /\ answer' \in {"failed", "timeout"}
            /\ UNCHANGED <<open, pipe, sent, drawn>>
<1>1. CASE ConfigureFails \/ PollTimedOut \/ \E f \in Out : PollTooMuchOutput(f)
  BY <1>1, PipeDef DEF ConfigureFails, PollTimedOut, PollTooMuchOutput, PollTerminate,
     PollIInv, PollInv
<1> QED
  BY <1>1
  DEF PollNext, Thread, PollProcessStep, Configure, Drain, PollCollect, WouldBlock,
     PollEndOfOutput,
      NotYet, SleepAgain, PollDeadlinePasses, PollLeaderReaped, PollReapTimedOut,
         pollVars, threadVars

(* The polling thread and the processes implement the abstract command.    *)
THEOREM PollRefinement == PollSpec => PollImplementsBoundedCommand
<1>1. PollInit => PollBounded!Init
  <2>1. PollInit => Held("out") /\ answer = "none"
    BY PipeDef DEF PollInit, TreeInit, Held, Proc
  <2> QED BY <2>1, RunningProc, PipeDef DEF PollBounded!Init, PollWhole
<1>2. ASSUME PollTypeOK, PollIInv, (PollTypeOK /\ PollIInv)', [PollNext]_pollVars
      PROVE  [PollBounded!Next]_PollBounded!vars
  <2>1. Running' \in SUBSET Proc /\ PollWhole' \in BOOLEAN
    BY DEF Running, PollWhole
  <2>2. PollWhole => PollWhole'
    BY <1>2, PollWholeStays
  <2>3. answer' \in {"failed", "timeout"} => Running' = {}
    BY <1>2 DEF PollIInv, PollInv
  <2>4. CASE answer' = answer
    BY <1>2, <2>1, <2>2, <2>3, <2>4 DEF PollBounded!Next, PollBounded!Progress, PollTypeOK
  <2>5. CASE PollSucceed
    <3>1. PollWhole /\ PollWhole'
      BY <1>2, <2>2, <2>5, PipeDef
      DEF PollSucceed, PollWhole, PollIInv, PollInv, PollTypeOK, TreeTypeOK
    <3>2. Running' = Running
      BY <1>2, <2>5, ReapKeepsTree DEF PollSucceed, Return, PollTypeOK, PollIInv
    <3>3. answer = "none" /\ answer' = "ok"
      BY <1>2, <2>5 DEF PollSucceed, PollIInv, PollInv
    <3> QED BY <3>1, <3>2, <3>3 DEF PollBounded!Next, PollBounded!Succeed
  <2>6. CASE /\ answer = "none" /\ answer' \in {"failed", "timeout"}
             /\ UNCHANGED <<open, pipe, sent, drawn>>
    <3>1. PollWhole' = PollWhole
      BY <2>6 DEF PollWhole, Held
    <3> QED BY <2>3, <2>6, <3>1 DEF PollBounded!Next, PollBounded!Fail
  <2> QED BY <1>2, <2>4, <2>5, <2>6, PollOutcomeSteps
<1> QED
  BY <1>1, <1>2, PollAlwaysInv, PTL
     DEF PollSpec, PollImplementsBoundedCommand, PollBounded!Spec

(* Every state is well formed and its parts agree, for every value of the  *)
(* constants.                                                              *)
THEOREM PollConsistency == PollSpec => []PollConsistent
  BY PollTypeCorrect, PollInvariance, PTL DEF PollConsistent
=============================================================================
