---------------------------- MODULE ProcessTree -----------------------------
(***************************************************************************)
(* The other side of src/src/command_runner.rs: a command's processes and  *)
(* its three pipes, as the kernel runs them. The leader heads a process    *)
(* group; a descendant inherits the group and the open pipes, and may      *)
(* leave the group or live longer than the leader. What a process does is  *)
(* its own choice, but it is single-threaded: once it asks for a pipe it   *)
(* waits until the pipe has room, data or no other end.                    *)
(***************************************************************************)
EXTENDS Naturals

CONSTANTS
  Leader,    \* the process that is spawned
  Child,     \* its descendants
  PipeCap,   \* chunks a pipe buffers
  Writes     \* per output pipe: how many chunks the processes may write
             \* (a bound on the environment, not on the server)

ASSUME ProcessTreeAssumption ==
  /\ Leader \notin Child
  /\ PipeCap \in Nat \ {0}
  /\ Writes \in [{"out", "err"} -> Nat]

VARIABLES
  life,   \* of each process; "dying" has SIGKILL pending, "dead" is a zombie
  away,   \* the descendants that left the group
  open,   \* the pipes each process holds open
  want,   \* the pipe each process waits for, or "none"
  pipe,   \* chunks in each pipe
  ours,   \* the pipes whose server end is open
  sent    \* chunks written to each output pipe so far

treeVars == <<life, away, open, want, pipe, ours, sent>>

Proc == {Leader} \cup Child
Out  == {"out", "err"}
Pipe == {"in"} \cup Out

(* A command is spawned with a server end for each of these pipes.         *)
TreeInit(ends) ==
  /\ life = [p \in Proc |-> IF p = Leader THEN "alive" ELSE "absent"]
  /\ away = {}
  /\ open = [p \in Proc |-> IF p = Leader THEN Pipe ELSE {}]
  /\ want = [p \in Proc |-> "none"]
  /\ pipe = [f \in Pipe |-> 0]
  /\ ours = ends
  /\ sent = [f \in Out |-> 0]

Held(f) == \E p \in Proc : f \in open[p]
Running == {p \in Proc \ away : life[p] = "alive"}

(* The kernel keeps a process-group id taken while any process, zombies    *)
(* included, is in the group; after that it may name another group.        *)
GroupTaken ==
  \/ life[Leader] # "reaped"
  \/ \E c \in Child \ away : life[c] \in {"alive", "dying"}

-----------------------------------------------------------------------------
Free(p) == life[p] = "alive" /\ want[p] = "none"

Fork(p, c) ==
  /\ Free(p)
  /\ life[c] = "absent"
  /\ life' = [life EXCEPT ![c] = "alive"]
  /\ away' = IF p \in away THEN away \cup {c} ELSE away
  /\ open' = [open EXCEPT ![c] = open[p]]
  /\ UNCHANGED <<want, pipe, ours, sent>>

(* setsid(), which the leader of a group may not call.                     *)
Leave(c) ==
  /\ Free(c)
  /\ away' = away \cup {c}
  /\ UNCHANGED <<life, open, want, pipe, ours, sent>>

Close(p, f) ==
  /\ Free(p)
  /\ open' = [open EXCEPT ![p] = @ \ {f}]
  /\ UNCHANGED <<life, away, want, pipe, ours, sent>>

Ask(p, f) ==
  /\ Free(p)
  /\ f \in open[p]
  /\ f \in Out => sent[f] < Writes[f]
  /\ want' = [want EXCEPT ![p] = f]
  /\ UNCHANGED <<life, away, open, pipe, ours, sent>>

Write(p, f) ==
  /\ life[p] = "alive"
  /\ want[p] = f
  /\ f \in ours
  /\ pipe[f] < PipeCap
  /\ pipe' = [pipe EXCEPT ![f] = @ + 1]
  /\ sent' = [sent EXCEPT ![f] = @ + 1]
  /\ want' = [want EXCEPT ![p] = "none"]
  /\ UNCHANGED <<life, away, open, ours>>

ReadInput(p) ==
  /\ life[p] = "alive"
  /\ want[p] = "in"
  /\ pipe["in"] > 0
  /\ pipe' = [pipe EXCEPT !["in"] = @ - 1]
  /\ want' = [want EXCEPT ![p] = "none"]
  /\ UNCHANGED <<life, away, open, ours, sent>>

(* The end of the input, or a write that nobody will read.                 *)
OtherEndClosed(p, f) ==
  /\ life[p] = "alive"
  /\ want[p] = f
  /\ f \notin ours
  /\ f = "in" => pipe[f] = 0
  /\ open' = [open EXCEPT ![p] = @ \ {f}]
  /\ want' = [want EXCEPT ![p] = "none"]
  /\ UNCHANGED <<life, away, pipe, ours, sent>>

(* A process exits when it likes, unless it waits, or dies of SIGKILL.     *)
Exit(p) ==
  /\ Free(p) \/ life[p] = "dying"
  /\ life' = [life EXCEPT ![p] = "dead"]
  /\ open' = [open EXCEPT ![p] = {}]
  /\ want' = [want EXCEPT ![p] = "none"]
  /\ UNCHANGED <<away, pipe, ours, sent>>

Step(p) ==
  \/ \E c \in Child : Fork(p, c)
  \/ p \in Child \ away /\ Leave(p)
  \/ \E f \in open[p] : Close(p, f) \/ Ask(p, f) \/ OtherEndClosed(p, f)
  \/ \E f \in Out : Write(p, f)
  \/ ReadInput(p)
  \/ Exit(p)

-----------------------------------------------------------------------------
(* Mistake: only the leader is killed.                                     *)
KillLeader == life' = [life EXCEPT ![Leader] = IF @ = "alive" THEN "dying" ELSE @]

(* kill(-pgid, SIGKILL) reaches every member at once; the leader is killed *)
(* by its pid as well.                                                     *)
KillGroup ==
  life' = [p \in Proc |-> IF p \in Running THEN "dying" ELSE life[p]]

Reap ==
  /\ life[Leader] = "dead"
  /\ life' = [life EXCEPT ![Leader] = "reaped"]

-----------------------------------------------------------------------------
TreeTypeOK ==
  /\ life \in [Proc -> {"absent", "alive", "dying", "dead", "reaped"}]
  /\ away \in SUBSET Child
  /\ open \in [Proc -> SUBSET Pipe]
  /\ want \in [Proc -> Pipe \cup {"none"}]
  /\ pipe \in [Pipe -> Nat]
  /\ ours \in SUBSET Pipe
  /\ sent \in [Out -> Nat]

(* Only a process that still runs has pipes, it waits for none but those,  *)
(* and none but the leader is reaped.                                      *)
TreeInv ==
  /\ \A p \in Proc : open[p] # {} => life[p] \in {"alive", "dying"}
  /\ \A p \in Proc : want[p] # "none" => want[p] \in open[p]
  /\ \A c \in Child : life[c] # "reaped"
  /\ life[Leader] # "absent"
=============================================================================
