--------------------------- MODULE CommandRunner ----------------------------
(***************************************************************************)
(* output_with_input() of src/src/command_runner.rs: one external command, *)
(* its supervisor task, the three tasks on its pipes, and the caller that  *)
(* waits for the answer or is dropped. The supervisor first joins the      *)
(* three tasks and only then waits for the leader; meanwhile its select    *)
(* may take the deadline or the cancellation instead. `due` says that the  *)
(* sleep under way, until the deadline or for REAP_TIMEOUT, is over; how   *)
(* long it takes is left to the scheduler.                                 *)
(***************************************************************************)
EXTENDS ProcessTree

CONSTANTS
  Feed,        \* chunks of input, 0 for a null stdin
  MaxOutput    \* MAX_COMMAND_OUTPUT_BYTES, in chunks

ASSUME CommandRunnerAssumption == Feed \in Nat /\ MaxOutput \in Nat

VARIABLES
  phase,    \* of supervise_command(); "gone" when its task was dropped
  task,     \* the reader of each output pipe and the writer of stdin
  got,      \* chunks each reader has collected
  fed,      \* chunks written to stdin
  due,      \* the deadline of this phase has passed
  armed,    \* ProcessGroupGuard.armed
  verdict,  \* the completion chosen, "none" while the select runs
  caller    \* of output_with_input()

runVars == <<phase, task, got, fed, due, armed, verdict, caller>>
vars    == <<treeVars, runVars>>

Phases   == {"joining", "waiting", "reaping", "done", "gone"}
Verdicts == {"none", "ok", "failed", "timeout", "cancelled"}

Init ==
  /\ TreeInit(IF Feed = 0 THEN Out ELSE Pipe)
  /\ phase = "joining"
  /\ task = [f \in Pipe |-> IF f \in ours THEN "running" ELSE "ok"]
  /\ got = [f \in Out |-> 0]
  /\ fed = 0
  /\ due = FALSE
  /\ armed = TRUE
  /\ verdict = "none"
  /\ caller = "waiting"

-----------------------------------------------------------------------------
(* The pipe tasks. A task that ends, well or not, drops its end.           *)
EndTask(f, how) ==
  /\ task' = [task EXCEPT ![f] = how]
  /\ ours' = ours \ {f}

Collect(f) ==
  /\ task[f] = "running"
  /\ pipe[f] > 0
  /\ pipe' = [pipe EXCEPT ![f] = @ - 1]
  /\ got' = [got EXCEPT ![f] = @ + 1]
  /\ UNCHANGED <<life, away, open, want, ours, sent>>
  /\ UNCHANGED <<phase, task, fed, due, armed, verdict, caller>>

(* Mistake: output is read once the input is written.                      *)
ReadAfterFeeding(f) ==
  /\ task["in"] # "running"
  /\ got[f] < MaxOutput
  /\ Collect(f)

ReadOutput(f) ==
  /\ got[f] < MaxOutput
  /\ Collect(f)

StopReading(f, how) ==
  /\ task[f] = "running"
  /\ pipe[f] > 0
  /\ got[f] = MaxOutput
  /\ EndTask(f, how)
  /\ UNCHANGED <<life, away, open, want, pipe, sent>>
  /\ UNCHANGED <<phase, got, fed, due, armed, verdict, caller>>

(* Mistake: a reader at its limit truncates the output in silence.         *)
TruncateOutput(f) == StopReading(f, "ok")

TooMuchOutput(f) == StopReading(f, "failed")

EndOfOutput(f) ==
  /\ task[f] = "running"
  /\ pipe[f] = 0
  /\ ~Held(f)
  /\ EndTask(f, "ok")
  /\ UNCHANGED <<life, away, open, want, pipe, sent>>
  /\ UNCHANGED <<phase, got, fed, due, armed, verdict, caller>>

FeedInput ==
  /\ task["in"] = "running"
  /\ fed < Feed
  /\ Held("in")
  /\ pipe["in"] < PipeCap
  /\ pipe' = [pipe EXCEPT !["in"] = @ + 1]
  /\ fed' = fed + 1
  /\ UNCHANGED <<life, away, open, want, ours, sent>>
  /\ UNCHANGED <<phase, task, got, due, armed, verdict, caller>>

(* Mistake: the writer keeps stdin open, and the child never sees its end. *)
InputLeftOpen ==
  /\ task["in"] = "running"
  /\ fed = Feed
  /\ task' = [task EXCEPT !["in"] = "ok"]
  /\ UNCHANGED treeVars
  /\ UNCHANGED <<phase, got, fed, due, armed, verdict, caller>>

InputWritten ==
  /\ task["in"] = "running"
  /\ fed = Feed
  /\ EndTask("in", "ok")
  /\ UNCHANGED <<life, away, open, want, pipe, sent>>
  /\ UNCHANGED <<phase, got, fed, due, armed, verdict, caller>>

(* EPIPE: write_all() before the last chunk finds nobody to read it.       *)
InputRefused ==
  /\ task["in"] = "running"
  /\ fed < Feed
  /\ ~Held("in")
  /\ EndTask("in", "failed")
  /\ UNCHANGED <<life, away, open, want, pipe, sent>>
  /\ UNCHANGED <<phase, got, fed, due, armed, verdict, caller>>

PipeTask(f) ==
  \/ f \in Out /\ (ReadOutput(f) \/ TooMuchOutput(f) \/ EndOfOutput(f))
  \/ f = "in" /\ (FeedInput \/ InputWritten \/ InputRefused)

-----------------------------------------------------------------------------
(* Mistake: the leader is reaped first, then its output is joined.         *)
WaitFirst ==
  /\ phase = "joining"
  /\ Reap
  /\ phase' = "waiting"
  /\ UNCHANGED <<away, open, want, pipe, ours, sent>>
  /\ UNCHANGED <<task, got, fed, due, armed, verdict, caller>>

Joined ==
  /\ phase = "joining"
  /\ \A f \in Pipe : task[f] = "ok"
  /\ phase' = "waiting"
  /\ UNCHANGED <<treeVars, task, got, fed, due, armed, verdict, caller>>

(* wait() returns the status: the guard is disarmed and the answer sent.   *)
Succeed ==
  /\ phase = "waiting"
  /\ Reap
  /\ phase' = "done"
  /\ verdict' = "ok"
  /\ armed' = FALSE
  /\ due' = FALSE
  /\ UNCHANGED <<away, open, want, pipe, ours, sent>>
  /\ UNCHANGED <<task, got, fed, caller>>

(* The guard signals the group if it is armed; start_kill() or             *)
(* kill_on_drop signal the leader anyhow.                                  *)
Kill == IF armed THEN KillGroup ELSE KillLeader

(* terminate_command() up to its await.                                    *)
Terminate(why) ==
  /\ phase \in {"joining", "waiting"}
  /\ Kill
  /\ phase' = "reaping"
  /\ verdict' = why
  /\ due' = FALSE
  /\ UNCHANGED <<away, open, want, pipe, ours, sent>>
  /\ UNCHANGED <<task, got, fed, armed, caller>>

TaskFailed ==
  /\ phase = "joining"
  /\ \E f \in Pipe : task[f] = "failed"
  /\ Terminate("failed")

DeadlinePasses ==
  /\ phase \in {"joining", "waiting", "reaping"}
  /\ ~due
  /\ due' = TRUE
  /\ UNCHANGED <<treeVars, phase, task, got, fed, armed, verdict, caller>>

TimedOut == due /\ Terminate("timeout")

Cancelled == caller = "dropped" /\ Terminate("cancelled")

(* The rest of terminate_command(), and the answer.                        *)
FinishTermination ==
  /\ phase' = "done"
  /\ task' = [f \in Pipe |-> IF task[f] = "running" THEN "aborted" ELSE task[f]]
  /\ ours' = {}
  /\ armed' = FALSE
  /\ due' = FALSE
  /\ UNCHANGED <<away, open, want, pipe, sent, got, fed, verdict, caller>>

LeaderReaped ==
  /\ phase = "reaping"
  /\ Reap
  /\ FinishTermination

(* Mistake: the wait for a killed leader has no limit.                     *)
ReapForever ==
  /\ phase = "reaping"
  /\ life[Leader] = "dead"
  /\ FinishTermination
  /\ UNCHANGED life

ReapTimedOut ==
  /\ phase = "reaping"
  /\ due
  /\ FinishTermination
  /\ UNCHANGED life

Supervise ==
  \/ Joined \/ Succeed
  \/ TaskFailed \/ TimedOut \/ Cancelled
  \/ LeaderReaped \/ ReapTimedOut

-----------------------------------------------------------------------------
(* CancelOnDrop tells the supervisor, which goes on by itself. A caller    *)
(* dropped after the answer was sent changes nothing.                      *)
CallerDropped ==
  /\ caller = "waiting"
  /\ phase \notin {"done", "gone"}
  /\ caller' = "dropped"
  /\ UNCHANGED <<treeVars, phase, task, got, fed, due, armed, verdict>>

DropTasks ==
  /\ phase \notin {"done", "gone"}
  /\ phase' = "gone"
  /\ caller' = "dropped"
  /\ task' = [f \in Pipe |-> IF task[f] = "running" THEN "aborted" ELSE task[f]]
  /\ ours' = {}
  /\ due' = FALSE
  /\ UNCHANGED <<away, open, want, pipe, sent, got, fed, armed, verdict>>

(* Mistake: nothing but kill_on_drop cleans up after a dropped supervisor. *)
ShutdownUnguarded == DropTasks /\ KillLeader

(* The runtime shuts down and drops every task: kill_on_drop kills the     *)
(* leader, ProcessGroupGuard::drop() the group.                            *)
Shutdown == DropTasks /\ Kill

(* A leader that died too late is reaped by tokio's orphan queue, or by    *)
(* init.                                                                   *)
OrphanReaped ==
  /\ phase \in {"done", "gone"}
  /\ Reap
  /\ UNCHANGED <<away, open, want, pipe, ours, sent, runVars>>

ProcessStep(p) == Step(p) /\ UNCHANGED runVars

Next ==
  \/ \E p \in Proc : ProcessStep(p)
  \/ \E f \in Pipe : PipeTask(f)
  \/ Supervise
  \/ DeadlinePasses
  \/ CallerDropped
  \/ Shutdown \/ OrphanReaped

Spec == Init /\ [][Next]_vars

(* The runtime runs its tasks and its timers; no process has to do         *)
(* anything, not even to die.                                              *)
FairSpec ==
  /\ Spec
  /\ \A f \in Pipe : WF_vars(PipeTask(f))
  /\ WF_vars(Supervise)
  /\ WF_vars(DeadlinePasses)

-----------------------------------------------------------------------------
Ended == phase \in {"done", "gone"}

TypeOK ==
  /\ TreeTypeOK
  /\ phase \in Phases
  /\ task \in [Pipe -> {"running", "ok", "failed", "aborted"}]
  /\ got \in [Out -> 0 .. MaxOutput]
  /\ fed \in 0 .. Feed
  /\ due \in BOOLEAN
  /\ armed \in BOOLEAN
  /\ verdict \in Verdicts
  /\ caller \in {"waiting", "dropped"}

(* The inductive invariant of the proofs has three parts: TreeInv, the     *)
(* pipes and their tasks, and the supervisor.                              *)

(* What was written is in the pipe or collected while a reader runs, and a *)
(* reader that ended well saw the last of it.                              *)
PipeInv ==
  /\ \A f \in Out : task[f] \in {"running", "ok"} => sent[f] = got[f] + pipe[f]
  /\ \A f \in Out : task[f] = "ok" => pipe[f] = 0 /\ ~Held(f)
  /\ task["in"] = "ok" => fed = Feed
  /\ \A f \in Pipe : f \in ours <=> task[f] = "running"

(* The leader is reaped in the very step that ends the command; until then *)
(* the guard is armed, and a command that did not succeed has killed its   *)
(* group.                                                                  *)
PhaseInv ==
  /\ life[Leader] = "reaped" => Ended
  /\ ~Ended => armed
  /\ phase \in {"joining", "waiting"} <=> verdict = "none" /\ phase # "gone"
  /\ phase = "waiting" => \A f \in Pipe : task[f] = "ok"
  /\ verdict = "ok" => phase = "done" /\ life[Leader] = "reaped"
  /\ verdict = "ok" => \A f \in Pipe : task[f] = "ok"
  /\ phase \in {"reaping", "done", "gone"} /\ verdict # "ok" => Running = {}

(* The invariant the proofs rest on: the processes, the pipes, their tasks *)
(* and the supervisor (supervise_command, lines 207-306) agree.            *)
IInv == TreeInv /\ PipeInv /\ PhaseInv

(* Processes, pipes, tasks and supervisor are well formed and agree,       *)
(* whichever of exit, output, timeout and cancellation comes first.        *)
Consistent == TypeOK /\ IInv

(* However a command ends - timeout, dropped caller, failed pipe, runtime  *)
(* shutdown - no process of its group goes on running, unless it succeeded *)
(* (terminate_command and ProcessGroupGuard::drop, lines 381-433).         *)
NothingLeftBehind ==
  phase \in {"reaping", "done", "gone"} /\ verdict # "ok" => Running = {}

(* A success returns all that any process of the command wrote or will     *)
(* ever write, after all of the input was taken (lines 225-257).           *)
SuccessIsWhole ==
  verdict = "ok" =>
    /\ \A f \in Out : got[f] = sent[f] /\ ~Held(f)
    /\ fed = Feed

(* The supervisor signals a process group only while the id is still its   *)
(* command's: "Keep the leader waitable until every inherited output       *)
(* descriptor is closed" (lines 226-227).                                  *)
KillsOwnGroup == [][phase # "reaping" /\ phase' = "reaping" => GroupTaken]_vars

(* A command and its supervisor never wait for each other: when a process  *)
(* cannot go on for a full output pipe or an empty input pipe, the task on *)
(* that pipe can, whatever the others wait for (the three concurrent       *)
(* tasks, lines 165-176).                                                  *)
WaitsForUs(f) ==
  /\ \E p \in Proc : life[p] = "alive" /\ want[p] = f
  /\ f \in ours
  /\ pipe[f] = IF f = "in" THEN 0 ELSE PipeCap

PipesServed == \A f \in Pipe : WaitsForUs(f) => ENABLED PipeTask(f)

(* A command is over in the end, whatever its processes do: they may       *)
(* ignore their pipes, hang, or not even die of SIGKILL (lines 381-397).   *)
EveryCommandEnds == <>Ended

(* A supervised command is a bounded command (all of command_runner.rs,    *)
(* lines 124-306).                                                         *)
Whole == \A f \in Out : got[f] = sent[f] /\ pipe[f] = 0 /\ ~Held(f)

Bounded == INSTANCE BoundedCommand WITH
  outcome <- IF verdict = "ok" THEN "ok"
             ELSE IF phase \in {"joining", "waiting"} THEN "running" ELSE "failed",
  members <- Running,
  whole <- Whole

ImplementsBoundedCommand == Bounded!Spec
=============================================================================
