--------------------------- MODULE BlockingRunner ---------------------------
(***************************************************************************)
(* output_blocking_with_timeout() of src/src/command_runner.rs, which runs *)
(* the ydotool probes: one thread that drains both output pipes in turn    *)
(* without blocking, looks at the leader once both are at their end, looks *)
(* at the deadline, sleeps, and starts again. The command has a null       *)
(* stdin. Names that CommandRunner has as well begin with Poll.            *)
(***************************************************************************)
EXTENDS ProcessTree

CONSTANTS
  MaxBlockingOutput,   \* MAX_BLOCKING_OUTPUT_BYTES, in chunks
  MaxDrain             \* MAX_BLOCKING_DRAIN_BYTES, in chunks

ASSUME BlockingRunnerAssumption ==
  /\ MaxBlockingOutput \in Nat
  /\ MaxDrain \in Nat \ {0}

VARIABLES
  at,        \* where the thread is; "out" and "err" are its two drains
  eof,       \* the pipes that were read to their end
  drawn,     \* chunks collected from each pipe
  drained,   \* chunks collected by the drain under way
  overdue,   \* the deadline, or that of the reaping, has passed
  answer     \* what the call returns

threadVars == <<at, eof, drawn, drained, overdue, answer>>
pollVars   == <<treeVars, threadVars>>

PollInit ==
  /\ TreeInit(Out)
  /\ at = "setup"
  /\ eof = {}
  /\ drawn = [f \in Out |-> 0]
  /\ drained = 0
  /\ overdue = FALSE
  /\ answer = "none"

-----------------------------------------------------------------------------
(* Mistake: stderr is drained once stdout is at its end.                   *)
AfterItsEnd(f) == IF f = "out" /\ "out" \in eof THEN "err" ELSE "wait"

After(f) == IF f = "out" THEN "err" ELSE "wait"

(* terminate_blocking_process() up to its polling loop.                    *)
PollTerminate(why) ==
  /\ KillGroup
  /\ at' = "reaping"
  /\ answer' = why
  /\ overdue' = FALSE
  /\ UNCHANGED <<away, open, want, pipe, ours, sent, eof, drawn, drained>>

Configure ==
  /\ at = "setup"
  /\ at' = "out"
  /\ UNCHANGED <<treeVars, eof, drawn, drained, overdue, answer>>

ConfigureFails ==
  /\ at = "setup"
  /\ PollTerminate("failed")

PollCollect(f) ==
  /\ at = f
  /\ f \notin eof
  /\ pipe[f] > 0
  /\ pipe' = [pipe EXCEPT ![f] = @ - 1]
  /\ drawn' = [drawn EXCEPT ![f] = @ + 1]
  /\ IF drained + 1 >= MaxDrain
     THEN at' = After(f) /\ drained' = 0
     ELSE at' = at /\ drained' = drained + 1
  /\ UNCHANGED <<life, away, open, want, ours, sent, eof, overdue, answer>>

Drain(f) == drawn[f] < MaxBlockingOutput /\ PollCollect(f)

PollTooMuchOutput(f) ==
  /\ at = f
  /\ f \notin eof
  /\ pipe[f] > 0
  /\ drawn[f] = MaxBlockingOutput
  /\ PollTerminate("failed")

(* A pipe that is empty, or was at its end already.                        *)
WouldBlock(f) ==
  /\ at = f
  /\ f \in eof \/ (pipe[f] = 0 /\ Held(f))
  /\ at' = After(f)
  /\ drained' = 0
  /\ UNCHANGED <<treeVars, eof, drawn, overdue, answer>>

(* Mistake: a pipe that is empty is taken to be at its end.                *)
EmptyIsTheEnd(f) ==
  /\ at = f
  /\ pipe[f] = 0
  /\ eof' = eof \cup {f}
  /\ at' = After(f)
  /\ drained' = 0
  /\ UNCHANGED <<treeVars, drawn, overdue, answer>>

PollEndOfOutput(f) ==
  /\ at = f
  /\ pipe[f] = 0
  /\ ~Held(f)
  /\ eof' = eof \cup {f}
  /\ at' = After(f)
  /\ drained' = 0
  /\ UNCHANGED <<treeVars, drawn, overdue, answer>>

Return ==
  /\ at' = "done"
  /\ ours' = {}
  /\ UNCHANGED <<away, open, want, pipe, sent, eof, drawn, drained, overdue>>

(* Mistake: a leader that exited is taken for the end of its output.       *)
SucceedOnExit ==
  /\ at = "wait"
  /\ Reap
  /\ answer' = "ok"
  /\ Return

PollSucceed ==
  /\ at = "wait"
  /\ eof = Out
  /\ Reap
  /\ answer' = "ok"
  /\ Return

NotYet ==
  /\ at = "wait"
  /\ ~(eof = Out /\ life[Leader] = "dead")
  /\ at' = "late"
  /\ UNCHANGED <<treeVars, eof, drawn, drained, overdue, answer>>

(* Mistake: the deadline counts only once the output is complete.          *)
TimedOutAtEnd ==
  /\ at = "late"
  /\ overdue
  /\ eof = Out
  /\ PollTerminate("timeout")

PollTimedOut ==
  /\ at = "late"
  /\ overdue
  /\ PollTerminate("timeout")

SleepAgain ==
  /\ at = "late"
  /\ ~overdue
  /\ at' = "out"
  /\ UNCHANGED <<treeVars, eof, drawn, drained, overdue, answer>>

PollDeadlinePasses ==
  /\ at # "done"
  /\ ~overdue
  /\ overdue' = TRUE
  /\ UNCHANGED <<treeVars, at, eof, drawn, drained, answer>>

PollLeaderReaped ==
  /\ at = "reaping"
  /\ Reap
  /\ Return
  /\ UNCHANGED answer

PollReapTimedOut ==
  /\ at = "reaping"
  /\ overdue
  /\ Return
  /\ UNCHANGED <<life, answer>>

Thread ==
  \/ Configure \/ ConfigureFails
  \/ \E f \in Out :
       Drain(f) \/ PollTooMuchOutput(f) \/ WouldBlock(f) \/ PollEndOfOutput(f)
  \/ PollSucceed \/ NotYet
  \/ PollTimedOut \/ SleepAgain
  \/ PollLeaderReaped \/ PollReapTimedOut

PollProcessStep(p) == Step(p) /\ UNCHANGED threadVars

PollNext ==
  \/ \E p \in Proc : PollProcessStep(p)
  \/ Thread
  \/ PollDeadlinePasses

PollSpec == PollInit /\ [][PollNext]_pollVars

(* The thread runs. Time and processes are no part of this.                *)
PollFairSpec == PollSpec /\ WF_pollVars(Thread)

-----------------------------------------------------------------------------
PollTypeOK ==
  /\ TreeTypeOK
  /\ at \in {"setup", "out", "err", "wait", "late", "reaping", "done"}
  /\ eof \in SUBSET Out
  /\ drawn \in [Out -> 0 .. MaxBlockingOutput]
  /\ drained \in 0 .. MaxDrain
  /\ overdue \in BOOLEAN
  /\ answer \in {"none", "ok", "failed", "timeout"}

(* No chunk is lost; a pipe at its end stays there; only the round that    *)
(* returns reaps the leader; a call that fails has killed the group.       *)
PollInv ==
  /\ \A f \in Out : sent[f] = drawn[f] + pipe[f]
  /\ \A f \in eof : pipe[f] = 0 /\ ~Held(f)
  /\ life[Leader] = "reaped" => at = "done"
  /\ answer = "none" <=> at \notin {"reaping", "done"}
  /\ answer = "ok" => at = "done" /\ eof = Out
  /\ answer \in {"failed", "timeout"} => Running = {}

(* The processes, the pipes and the polling thread agree (lines 74-122).   *)
PollIInv == TreeInv /\ PollInv

(* Processes, pipes and thread are well formed and agree in every round of *)
(* the polling loop.                                                       *)
PollConsistent == PollTypeOK /\ PollIInv

(* The process group is signalled only while its id is the command's own:  *)
(* try_wait() may reap the leader, and does so only in the round that      *)
(* returns (lines 100-115).                                                 *)
PollKillsOwnGroup == [][at # "reaping" /\ at' = "reaping" => GroupTaken]_pollVars

(* The call returns in the end, provided time passes, whatever the         *)
(* command's processes do (lines 116-119, and terminate_blocking_process,  *)
(* lines 362-379).                                                         *)
EveryCallReturns == WF_pollVars(PollDeadlinePasses) => <>(at = "done")

(* A full pipe is drained although the other one stays open and no         *)
(* deadline passes, so the thread and a process that wants to write never  *)
(* wait for each other (lines 79-99).                                      *)
PipesDrained ==
  \A f \in Out : pipe[f] = PipeCap ~> pipe[f] < PipeCap \/ answer # "none"

PollWhole == \A f \in Out : drawn[f] = sent[f] /\ pipe[f] = 0 /\ ~Held(f)

PollBounded == INSTANCE BoundedCommand WITH
  outcome <- IF answer = "ok" THEN "ok"
             ELSE IF answer = "none" THEN "running" ELSE "failed",
  members <- Running,
  whole <- PollWhole

(* A command run by polling is a bounded command as well                   *)
(* (output_blocking_with_timeout, lines 45-122).                           *)
PollImplementsBoundedCommand == PollBounded!Spec
=============================================================================
