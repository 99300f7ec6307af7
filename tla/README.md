# Computer use for Hyprland, in TLA+

The server in `src/src/` is an MCP server that lets an agent see and operate a
Hyprland desktop: it lists windows, reads accessibility trees, takes
screenshots, and sends pointer and keyboard input. Several servers may run in
one login session, one per agent, and each may have many tool calls under way.
They share one pointer, one keyboard and one focus, so most of what can go wrong
is a matter of *when*: whose input goes out between whose press and release,
which tree an element index belongs to, what is left held when a call ends half
way. This directory models that part of the program, checks it with TLC, and
proves the main results with TLAPS.

Run `tlc -config <cfg> <module>` for a check and `tlapm <module>_proofs.tla` for
a proof. `PROJECT.json` lists the runs, which lines each definition models, and
for each property a mutation of the model that breaks it.

## The system

| component | state | operations | interacts with |
|---|---|---|---|
| machine-wide input lock (`session_lock.rs`) | lock file with a pid, flock; per process: lease, `in_flight`, `last_used`, one timer task | `acquire`, `hold`, guard drop, `touch`, `release_if_idle`, process exit | other servers through the file; `input_gate`, `call_tool`, input tasks |
| input dispatch (`server.rs`) | `input_operation_lock`, calls and detached input tasks | 20 tools; `input_gate`, `focus_target_for_input`, `run_cancellation_safe_input`, `try_abs_click`, `drag_inner` | lease, window targeting, command runner, pointer |
| element cache (`server.rs`) | cached nodes, cached bounds, stable index map | `apply_stable_indices`, `cache_tree`, `resolve_cached_node`, `current_bounds`, `wait_for` | AT-SPI reader, window backend; read by input tools |
| command runner (`command_runner.rs`) | a child, its process group, three pipe tasks, a deadline, a cancel flag | run, feed, read, time out, cancel, terminate | every external command |
| absolute pointer (`abs_pointer.rs`, `server.rs`) | a virtual device with its size, its last point and its button, behind a mutex; ydotool's keys and buttons | create once, `move_to`, `click`, `drag`; ydotool clicks, drags, chords and modifiers | input dispatch calls it; ydotool takes over what it could not do |
| ydotool probe (`ydotool.rs`) | one cached result with its key and its time, behind a mutex; a probe socket on disk | look up, fingerprint, probe, reuse | all keyboard input, the fallback pointer; the file system |
| window targeting (`windowing/target.rs`, `registry.rs`) | none kept; the compositor's windows move | resolve a target, check the allow list, focus, poll until focused | dispatch, backend |
| Hyprland backend (`windowing/backends/hyprland.rs`) | none kept | list, focus, move, resize, float, send to a workspace, each checked and polled; coordinates | hyprctl |
| AT-SPI reader (`atspi_tree.rs`, `server.rs`) | a traversal with its queue and budgets | choose applications, read a tree, compact it; perform an action | accessibility bus |
| screenshot (`screenshot.rs`, `server.rs`) | the size of the last capture | ask the portal, crop to a window and a region, shrink until it fits | desktop portal; relative clicks use the size |
| terminal discovery, diagnostics, command line | none | parsing and reports | |

What is hard in it, and what makes each part correct:

- **Lock.** System calls of several processes interleave, any process may die
  between two of them, the timer may be polled late. One server operates at a
  time; the counter is the number of live guards; a quiet server gives the lock
  back in time and never under an operation; a refusal names the holder.
- **Dispatch.** Calls interleave at every await; a caller may be dropped while
  its input goes on; nearly every step may return early. One input at a time,
  always under the lease; what belongs together is not split; nothing is leaked;
  every call ends.
- **Cache.** A tree is stored in several steps while clicks read it. An index an
  agent was given names the same element or none.
- **Runner.** Completion, timeout and cancellation race. No process is left
  behind, a live leader's group is the only one killed, no hang.
- **Pointer.** The device or the caller fails between a press and a release, and
  the cursor is moved by others. A button or a key stays down only after one
  of a few failures that are named; a press lands where it was aimed; there is one device.
- **Probe.** The executable is replaced while it is looked at, and answers are
  cached. A cached success is that of the file it is served for, a cached failure
  does not outlive its reason.
- **Targeting and backend.** The compositor is late, deaf or busy with others. What
  a call reports was so after its request; a tiled layout is left alone; every
  call ends.
- **Pictures and trees.** Answers of a portal come early, late, to others or never;
  windows, the display and the objects of a tree change meanwhile. A picture is
  one's own and agrees with what is reported of it and with clicks; a tree is whole
  within its budgets; every request ends.

`PROJECT.json` lists the hazards line by line, with the property that covers
each or why there is none.

## Modules

| module | models | composed with |
|---|---|---|
| `InputLease` | abstract: what the machine-wide lock promises | |
| `SessionLock` | `session_lock.rs`, system call by system call | implements `InputLease` |
| `InputDispatch` | the tool calls of one server | uses `InputLease` |
| `BoundedCommand` | abstract: what the runner promises of a command | |
| `ProcessTree` | external: a command's processes, its group, its pipes | extended by both runners |
| `CommandRunner` | `output_with_input`, the supervised async runner | implements `BoundedCommand` |
| `BlockingRunner` | `output_blocking_with_timeout`, the polling thread | implements `BoundedCommand` |
| `ElementCache` | element indices, the cached tree and its window, and the calls that write and read them | |
| `PointerDevice` | the absolute pointer and ydotool, event by event, under the tool calls that use them | |
| `YdotoolProbe` | the look-up, the fingerprint, the cache and the probe of ydotool | |
| `WindowTarget` | which window of a listing a target names; the allow list | extended by `Windowing` |
| `CaptureLayout` | layout coordinates and pixels | extended by `Windowing` |
| `Windowing` | the tools that act on windows, against Hyprland, hyprctl and the user | |
| `ScreenCapture` | cropping, regions, shrinking, and where a relative click lands | extended by `AppState` |
| `AccessTree` | which applications a tree is of, and its compaction | extended by `AppState` |
| `AppState` | `get_app_state` and `screenshot` against the portal and the accessibility bus | |
| `MC*` | constants of the TLC runs | |
| `*_proofs` | theorems | |

How they fit together: `InputDispatch` has what every tool does to the two locks
and the lease and in what order, and treats an input, a focus and a look at the
desktop as one step each. `PointerDevice` opens up the inputs, with the operation
lock as the only thing it takes from above; `Windowing` opens up focusing and the
looks; `AppState` the reading tools. `ElementCache` starts where the tree of
`AppState` has been read. `YdotoolProbe` runs before every ydotool command and
`CommandRunner` or `BlockingRunner` carries each command out.

### InputLease

A holder, the guards of its running operations, and how long it has been quiet.
`Take`, `Join`, `Finish`, `Renew`, `GiveBack`, `Exit` and `Tick` are all that
may happen. `GiveBack` carries the promises in its guard: no operation running,
the whole window passed, a policy that gives back at all. `Tick` carries the
deadline: time does not pass `Idle + Lag` under a quiet holder.

### SessionLock

One `owner` of the flock, one `pidFile`, and per server the `Lease` fields.
Inside a process the `held` mutex makes each method atomic, so `Join` (acquire
and hold on a lease), `DropGuard`, `Touch` and the two outcomes of
`release_if_idle` (`TimerSleepsAgain`, `TimerDone`) are one action each.
`acquire_at` talks to the file in between, so it is `Flock`, `ReadPid` on
refusal, and `Truncate`, `WritePid`, `WriteFails` on success; `step[s]` says how
far it has come and that the mutex is taken meanwhile. `Exit` ends a process at
any point: the kernel drops the flock, the pid stays in the file.

Time is relative: `age` is `now - last_used`, a timer is its remaining sleep and
may be polled up to `Lag` ticks late. Both stop counting at
`Idle + Lag + 1`, beyond which no comparison changes.

Left out: the file's permissions and path, failures to open it, and clients
that hold no server.

### InputDispatch

Every tool is a straight line of steps, in `Handler`: `gate` (`input_gate` takes
the lease or a hold on it), `check` (the allow list), `lock` and `unlock`
(`input_operation_lock`), `focus` (`focus_target_for_input`), `hold` and
`unhold` (modifiers), `emit` (one stateful input operation), `move` (the absolute
pointer goes where the wheel is to turn), `ask` and `pointer` (awaits on an
application or the portal), `await` (any other await). One action per kind of step
says what it does and how it fails;
`ReturnsEarly` goes on at `Abort`, which is the release of the modifiers when
they are held and the end otherwise, and gives the operation lock back.

At `emit` the call starts a job and waits. `StartTask` is
`run_cancellation_safe_input`: the detached task takes the operation lock and a
hold on the lease with it, and `TaskEnds` hands the lock back, or frees it when
nobody is there. `QueueAbs`, `AbsBegins`, `AbsEnds` and `AbsFails` are the
blocking thread of the absolute pointer, which has neither, and its fallback: for a
click or a drag a task, for a `move` the wheel's own command.
`Cancel` drops a caller at an await, as rmcp does when a request is cancelled.
The other server and the release timer act through the lease.

`set_value` calls `press_key` and `type_text`, whose own holds on the lease are
merged with the outer one (they lie within it). Left out: panics of a task, the
end of the server process (the lock module has it), which window or element a
call names, and what it says.

### BoundedCommand

A command is running, succeeded or failed. It succeeds only when all it will ever
write has been collected, and fails only with no process of its group left
running; then none comes back. What the processes do otherwise is their affair.

### ProcessTree

The leader is spawned with its own process group and three pipes. Any process may
fork (the child inherits group and pipes), close a pipe, ask to write or read and
then wait for room, data or a closed other end, or exit; a descendant may leave
the group with `setsid`. `dying` has a SIGKILL pending, and nothing says when it
takes effect; `dead` is a zombie; only the leader is reaped. `GroupTaken` is when
the kernel still keeps the group's id for this command. Output is counted in
chunks. `Writes` bounds how many chunks the processes write, so that TLC's state
space is finite: nothing in the code limits them, and the proofs hold for any
bound. A runner says for which of the pipes the server keeps an end.

### CommandRunner

The supervisor is `phase`: `joining` the three pipe tasks, `waiting` for the
leader, `reaping` what was killed. Without input (`Feed` is 0) stdin is null. Its `select!` is the choice between `Joined`,
`Succeed`, `TaskFailed`, `TimedOut` and `Cancelled`, each the code up to its next
await; `LeaderReaped` and `ReapTimedOut` end `terminate_command`, abort the pipe
tasks and send the answer. `PipeTask` is one read or write of a reader or the
writer, with its error paths. `due` says that the sleep under way is over, at a
moment left open: the deadline may race with everything. `CallerDropped` is
`CancelOnDrop`; `Shutdown` is the runtime dropping every task, with
`kill_on_drop` and `ProcessGroupGuard::drop`.

Left out: the server killed with SIGKILL (no code of it runs then), the short
time before the new leader's `setpgid`, panics and join errors of the pipe tasks,
errors of `wait`, and the order in which a shutdown drops the child and the
guard, between which tokio may reap a leader that had exited by itself.

### BlockingRunner

One thread, `at` its place in the loop: drain stdout, drain stderr, look at the
leader once both are at their end, look at the deadline, sleep. A drain reads
until the pipe is empty, its end, `MaxDrain`, or the error at `MaxBlockingOutput`.
Its stdin is null. Names that both runners would use begin with `Poll` here, so that one
module can prove about both.
`Configure` is the `O_NONBLOCK` setup and may fail. Left out: interrupted reads,
which are repeated, read errors, and errors of `try_wait`.

### ElementCache

A reader (`get_app_state` or one probe of `wait_for`) goes through `Target` or
`NoTarget`, `Snapshot`, one `Recall` or `Mint` per element, `Numbered`, perhaps
`Anchor`, `StoreNodes` and `StoreBounds`; `step[r]` is its place. `Snapshot` takes
the lock of the index map and `Numbered` gives it back; the nodes and their bounds
have a lock each, so each store is a step. A click or a scroll, or one end of a
drag, is `ReadBounds`, `ListWindows` if the bounds follow a window, and `Found`.
`ReadFails` clears both caches, as a failed `get_app_state` does; `NoMatch` and
`ReadDropped` store nothing. Each reader reads once. Windows open, move and close at
any time (`Open`, `Move`, `Close`).

`given`, `wrapped`, `writer`, `paired`, `seen` and `disturbed` are history: what
each index was shown for, whether the counter came round, whether the nodes and the
bounds that are stored come from one read, which windows a click was told of, and
whether a tree was stored while it ran.

What is abstracted: a tree is a set of elements with their indices; which elements
of the chosen processes it holds, and whether its bounds follow a window, is left
open; an element is there from when its window opens, and may outlive it. `Desktop` and `Unanchored` are both `NoOffset`, since neither offsets
anything. A listing is right or empty; one without positions does what an empty
one does. An element stays in the window it is created in, and a window that closed
does not come back under its id. Which pids the bus tells in one read is left open
too, beyond those of `Named`.

### PointerDevice

The slot of `ensure_abs_pointer()` with the device in it (its size, the point its
axes hold, its button), the mutex of that device, the operation lock, and what is
down on ydotool's device. A call goes through `lock`, `hold` (modifiers), `ensure`,
`capture`, `create`, `store`, `abs`, `landed`, `fallback`, `ydotool`, `unhold`; a drag
holds its modifiers before the lock, a click after it. A gesture is a sequence of
events, computed by `MoveTo`, `Clicks` and `DragTravel` when its thread has the mutex
(`ThreadBegins`), and sent one event per step; a ydotool command is a sequence in one
process, which may be cut off after any of its events. The kernel drops a motion to
where the axes are and a press of a button that is down.

`ThreadEnds` and `CommandFails` fail, `Cancel` drops a caller anywhere it awaits (its
thread or task goes on), `Warp` moves the cursor, `Resize` changes the desktop.
`broken` remembers what has failed, `moved` that the cursor was moved.

Left out: the event codes, the wait after the device is set up, and what the
compositor makes of an event beyond moving the cursor.

### YdotoolProbe

A call is `Resolve` (one directory of PATH per step), `Fingerprint`, `Lock`, then
`Serve` from the cache or `Probe`: `Help` once or twice, and for every feature a
directory and a socket (`MakeDirectory`, `Bind`, passing over bases that refuse), the
command (`Feature`) and the end of both. A file that is replaced is another file,
numbered as it comes: its fingerprint holds the inode and its change time.
`saw` is what the probe has really run, which the code does not know. Left out: the
parsing of versions and texts, abstracted to what a build answers and does.

### WindowTarget, CaptureLayout, Windowing

`WindowTarget` is a translation of the selectors, in their order, over a listing;
text comparison is a table of which texts are equal but for case and which are
within which. `CaptureLayout` is the arithmetic of `HyprlandCaptureLayout` on
one axis, with scales as fractions instead of floating point.

In `Windowing` a tool call is `Gate` (the allow list, in a listing of its own),
`List`, a query for the tools that check first (`QueryExact`, `QueryFloat`,
`QuerySend`, `ReadView`), `Dispatch`, and one kind of polling: `PollFocus` until
`FocusDeadline`, `PollState` a fixed number of times, `PollLaunch` until
`LaunchDeadline`. Each is one hyprctl command and may fail (`Stumbles`, or the failing
branch of a poll). Hyprland says ok and carries a request out later (`Applied`), in its
own way, or not at all (`Dropped`). `Event` is everybody else: windows open, close, get
the focus, are tiled or made to float, or change their title. Hyprland may leave out
whether a window floats: `QueryExact` and `QueryFloat` go on then, and a look of
`PollState` has seen nothing. What else is optional in its answers is always there.
`past` and `unsure` are history: what a call waits on has been since its request, and
whether its window was tiled unsaid when found, or tiled since.

Left out: the search for the running instance and the release, and the report on
occlusion.

### ScreenCapture, AccessTree, AppState

`ScreenCapture` has cropping, regions, shrinking and the map of a relative click;
`AccessTree` has the selection of applications and the compaction of nodes: both are
functions without state. `AppState` is the two tools. `LookForState` or `LookForShot`
finds the window; `Filter` finds its application; `Subscribe`, `CallPortal`,
`TakeHandle`, `HearAnother`, `HearPicture`, `HearRefusal` and `PortalTimeout` are the
exchange with the portal, whose own step `Answers` tells every subscription; `Crop` and
`Fit` make the picture; `Roots`, `Open`, `ReadChild`, `Push` and `WalkEnds` read the
tree, `TreeTimeout` ends it. `Event` moves windows, the focus, the display and the
objects of the tree.

What is abstracted: one axis of the picture (the two are cropped alike and apart); a
picture is its extent, not its pixels, and takes a fixed number of bytes per pixel;
what is picked out of a list is picked by counting (`Filtered`), not by recursion, so
that the proofs can speak of it;
the selection of the applications is one step; children are read in the order of
their index; an object that is gone still gives a node, without anything in it; a
node's texts are whether any of them would keep it. Left out: performing an
action, setting a value and grabbing focus, each one call to an application.

## Runs

| run | shows |
|---|---|
| `session_lock` | `Consistent`; exclusion, the deadline, refusals, refinement of `InputLease`, and that an idle lock comes free |
| `input_dispatch` | `Consistent`; one input at a time, under the lease, no leaks, key sequences and focus in turn |
| `input_dispatch_live` | every call ends that nothing outside keeps waiting; an idle server gives the lease back |
| `command_runner` | `Consistent`; nothing left behind, whole output, only its own group killed, no mutual wait, refinement of `BoundedCommand`, and that every command ends |
| `blocking_runner` | `PollConsistent`; refinement of `BoundedCommand`, a full pipe is drained, and the call returns |
| `element_cache` | `Consistent`; an index never resolves to another element, though reads are concurrent and the map is dropped; an undisturbed click applies the origin of its element's window |
| `element_index_life` | a disagreement of a comment and the code, below |
| `pointer_device` | `Consistent`; what may be left down and why, where presses and releases land, how often a click presses |
| `pointer_resized` | a disagreement of a comment and the code, below |
| `ydotool_probe` | `Consistent` (a cached success was earned by its file, no socket is left); calls recover once ydotool works |
| `windowing` | `Consistent` (what is reported was seen since the request, coordinates agree); the layout is left alone; every call ends |
| `app_state` | `Consistent` (own answer, payload, shape and completeness of the tree, compaction, warnings); pictures and clicks agree; every request ends |

`Consistent` is `TypeOK /\ IInv` of the module, and `IInv` its inductive invariant,
except in `AppState`: there it is the conjunction of what a picture and a tree promise,
and the inductive invariants are `CaptureInv` and `ConsistentInv`, in the proofs.

**Bounds.** `session_lock` has three servers, with windows of two ticks, one tick
and none, two guards each and a lateness of one tick. Three is what a wrong
refusal needs: one refused, one holding, one named. Two guards tell a counter
from a flag, two windows tell one server's from another's, and one tick of
lateness separates a deadline from a poll. `input_dispatch` has two calls, of any
of the eleven kinds of tool: every property is about a pair of calls, or one
call and the other server. Its window is one tick. It has no absolute pointer, which
`OneInputAtATime` would except; the liveness run has one. The liveness run uses the six
tools that between them wait in every way there is. `command_runner` and
`blocking_runner` have a leader and one descendant, which may be born at any time,
outlive the leader, hold the pipes, or leave the group: those are the cases of a
process left behind, and a second descendant adds only more of them. Pipes buffer
one chunk, so that every second write has to wait. The async reader may collect
one chunk and is sent two; the input has one chunk. The polling reader takes two
chunks in a drain and in all, and is sent three on one pipe and one on the other,
so that a drain ends in each of its ways. Both runs may stop when everything has
ended, so they do not look for deadlocks; `EveryCommandEnds` and
`EveryCallReturns` do.

`element_cache` has two readers of one read each, so that one may store over the other,
number between its steps, or drop the map under it; two windows of two processes, with
an element in each, and two origins: what a wrong offset needs; a map of one element,
which the second drops; four indices (`LastIndex` 3), which is enough for one to be shown,
forgotten and, were they reused, shown again; and one click, as clicks write nothing
another call reads. Its states end where the counter wraps (`BeforeWrap`): after four
thousand million indices the code promises nothing, and neither does the property.
Readers and origins are symmetric. `element_index_life` has one window, as the
disagreement needs no more than two reads of its two elements.

`pointer_device` has two calls of four tools (one that is held up, one that gets in
its way; a plain click and a plain drag take a part of the path of those with a
modifier), a desktop of three pixels that may grow to four, an aim beyond its edge and
one at the point a new device holds, which needs the nudge; `OneFault` allows one kind of
failure in a behaviour (any number of times), as the properties name the failure that
leads to each outcome. The calls are symmetric. `ydotool_probe` has two directories of
PATH and two bases for a socket (the first may be passed over), two features (a first
and a last one), the three ydotools that each branch of the probe tells apart, a
failure that is kept for one tick, two files in a behaviour (one replaces the other,
in the same directory or before it) and one command that fails. `windowing` takes two
calls at a time in five pairs, each tool with one that gets in its way: an input and an
activation of windows of one application, a capture and a change of the workspace, a
move and a toggle of the same window, a resize by an id beyond 2^53 and a launch,
and two that look for an empty workspace. Two windows, one event and one failure are
what it takes to have any one of them answer late or wrongly; `Attempts` and
`MaxPolls` are 2, a first look and a last one. Its layout has an origin below zero and
a scale that is no integer. `app_state` takes eight plans: a screenshot and a
`get_app_state` at once, and one request each for a region of the window, a region of
the desktop, the whole desktop that does not fit its payload, an application by name,
one by window, a window whose process is not on the bus, and all applications. Windows
lie partly left of the desktop, within it, or right of the narrow one; the tree has
three levels, a node that compaction drops, and more nodes than one plan's budget.
One event and one failure (`MaxEvents`, `MaxFailures`) suffice for each property to be
broken by a mutant; only one window may be hidden (`Hideable`), as the other one differs
in its process only. `windowing` and `app_state` stop when every call has ended, so
they do not look for deadlocks: `EveryCallEnds` and `EveryRequestEnds` do.

The other runs use no symmetry: servers differ in their windows, and the liveness
properties would not allow it.

**Fairness.** `ElementCache` and `PointerDevice` state none: they have no liveness
property. In `SessionLock`, time passes, the timer task and the threads
inside `acquire_at` are scheduled, and a running operation ends; no server is
made to call, fail or exit. In `InputDispatch`, calls and jobs proceed (weak
fairness), as external commands have timeouts; but nothing makes an application answer
an AT-SPI action, nor the portal a call (`Unlimited`), since the code sets neither a
limit. `EveryCallEnds` says that a call ends unless it waits there for ever, or another
does that has the operation lock.
`Lock` and `AbsBegins` have strong fairness: tokio's `Mutex` is a FIFO queue, and
of the pointer's standard mutex we assume that a waiter gets it in the end. A
client is not made to call or to cancel, and the other server not to let go. In
`CommandRunner`, the runtime runs the pipe tasks, the supervisor and its timers;
in `BlockingRunner` the thread runs, and `EveryCallReturns` also needs the clock.
Nothing is assumed of the processes: they need not read, write or exit, nor even
die of SIGKILL (a process in an uninterruptible system call does not). In
`YdotoolProbe` the blocking threads run and time passes; nobody is made to ask or to
install anything, and `Recovers` supposes that callers keep asking. In `Windowing` a
call goes on after its hyprctl, whose runner has a deadline; Hyprland is not made to do
anything. In `AppState` what the server does by itself proceeds. There is no fairness
for the portal's answer, nor for `Filter` and `TakeHandle`: listing the applications
and calling the portal have no time limit in the code, and `EveryRequestEnds` says
that a request ends unless it waits there for ever.

## What is proved

For any set of servers, windows and lateness (`SessionLockAssumption`), any
set of concurrent calls and tools (`InputDispatchAssumption`), and any number of
descendants, pipe sizes, amounts of output and limits (`ProcessTreeAssumption`,
`CommandRunnerAssumption`, `BlockingRunnerAssumption`), any number of readers,
clicks, elements, windows and processes, sizes of the map and of the index
(`ElementCacheAssumption`), any calls, aims, desktops and modifiers
(`PointerDeviceAssumption`), any directories, bases, features and builds of ydotool
(`YdotoolProbeAssumption`), any calls on any finite set of windows with numbers for
ids, any layout with a positive scale and an origin that fits 32 bits, any workspaces
and numbers of looks (`WindowingAssumption`), and any requests, windows, rectangles and
displays (`AppStateAssumption`, `ResponseAssumption`):

| theorem | statement |
|---|---|
| `SessionLock_proofs!TypeCorrect`, `Invariance` | `[]TypeOK`, `[]IInv` |
| `Exclusion` | one server operates at a time |
| `GuardCount`, `TimerCount` | the counter is the number of guards, and a lease has one timer |
| `WindowBound` | a quiet lease is gone `Lag` after its window |
| `RefusalNames` | a refusal under another's lease names it |
| `Refinement` | `Spec => Lease!Spec` |
| `InputDispatch_proofs!TypeCorrect`, `Invariance` | `[](TypeOK /\ JobInv)`, `[]IInv` |
| `OneInput` | one input at a time, unless the pointer exists *and* callers are dropped |
| `UnderLease` | admitted calls and tasks run under the lease |
| `NothingHeld` | a quiet server holds nothing |
| `InTurn`, `Together` | tools that lock first raise their windows in turn; key sequences are whole |
| `Runners_proofs!TypeCorrect`, `Invariance` | `[]TypeOK`, `[]IInv` of the supervised runner |
| `LeftBehind` | a command that did not succeed leaves no process of its group running |
| `WholeSuccess` | a success returns all that was or will be written |
| `OwnGroup` | a group is signalled only while its id is the command's |
| `Refinement` | `Spec => Bounded!Spec` |
| `PollTypeCorrect`, `PollInvariance`, `PollOwnGroup`, `PollRefinement`, `PollConsistency` | the same of the polling thread |
| `ElementCache_proofs!TypeCorrect` | `[](TypeOK /\ StepInv)` |
| `IndicesAreForLife` | until it wraps, an index resolves to the element it was shown for or to none |
| `Invariance`, `AimsAtItsWindow` | `[]IInv`, `[]UndisturbedAim`, where each process has one window and the bus tells its pid |
| `PointerDevice_proofs!CreatedOnce` | a device is stored into an empty slot only, and keeps its size |
| `LeftDown` | a button or key is left down only after a failure that explains it |
| `AsAsked` | a click that succeeds presses as often as asked, one taken over half-way at most twice that |
| `Landing` | a press lands on its point, the release of a drag on its end |
| `Windowing_proofs!TypeCorrect`, `Invariance` | `[]TypeOK`, `[]IInv` |
| `LayoutKept` | a move or resize leaves tiled windows alone, unless its own was tiled after it was found floating, or unsaid when it was found |
| `AppState_proofs!CaptureInvariance` | `[]CaptureInv` |
| `Agreement` | pictures, what is reported of them, and relative clicks agree |
| `OwnPicture` | a picture is the answer to the request that returns it |
| `Consistency`, in all eight modules | `[]Consistent`: `TypeOK` and `IInv`, as the run checks them (`ElementCache`'s under the hypotheses of its `Invariance`) |

**SessionLock.** `OneServerOperates` is not inductive: guards imply exclusion only
through the lease they need, the flock the lease needs, and the counter the timer
reads. `IInv` says these three agree: `LockInv` (who has the flock, and that a
holder's pid is in the file), `GuardInv` (the counter is the cardinality of the
guards, and guards need a lease) and `TimerInv` (a lease with a window has one
timer, which sleeps no longer than the window has left). `WindowBound` follows
from `TimerInv`: `w + age <= Idle` and `w >= -Lag`. For the refinement, the
abstract holder is the owner of the flock once it has a lease; `Truncate`,
`ReadPid` and the first half of `acquire_at` are stutters, `WritePid` is `Take`,
`TimerDone` is `GiveBack` and needs `TimerInv`.

**InputDispatch.** `IInv` says that the operation lock belongs to the call whose
place is in the locked part of its handler, or whose task is running
(`LockInv`); that the holds on the lease are those of admitted calls and tasks
(`LeaseInv`); and that a caller with a job waits for it (`JobInv`). The locked
part is computed from the table of handlers, so facts about the table
(`LockSteps`, `GateFirst`, `AbortFacts`) are proved by cases over the tools, and
the rest of the proof does not look at any one of them. `OneInput` follows: every
job's owner has the one lock. It excepts a server with the pointer whose callers are
dropped: there a thread goes on without the lock.

**The runners.** `Runners_proofs` is about both, as both proofs rest on the same lemmas
about `ProcessTree`: what a step of a process, a kill and a reap preserve, and that no
step writes to a pipe nobody holds. `CommandRunner`'s `IInv` is `TreeInv`; `PipeInv` (nothing sent is lost
while a reader runs, and one that ended well saw the end of its pipe); and
`PhaseInv` (the leader is reaped in the very step that ends the command, the guard
is armed until then, and without success the group is dead). The reaping clause
is the heart of it: it gives `OwnGroup`, because an unreaped leader keeps its
group's id taken, and it is why the code joins the readers before it waits for the
leader. For the refinement, the abstract command fails in the step that kills the
group, and not when the answer is sent. `LeftBehind` speaks of the group: a
descendant that left it with `setsid` is beyond the code's reach, and goes on.

**ElementCache.** `IndexForLife` speaks of clicks; what carries it is `IndexInv`:
every index the map, the caches and the trees under way hold was shown for that
very element, and none at or above `next` was shown at all, so that `Mint` cannot
give one away twice whatever was forgotten. It holds unconditionally, and also of
trees stored over one another in the wrong order. `AnchorInv` follows a tree from
the roots it was read from (`ReadTied`) to the cache (`CacheTied`) to a click
(`ClickTied`); each read and each click touches its own part only (`ReadsAlone`,
`ClicksAlone`), and the two stores are where the parts meet. Its hypotheses,
`OneWindowPerProcess` and `AllNamed`, are not for convenience: with two windows of
one process a tree tied to one of them holds elements of the other, and without the
second a root whose pid the bus does not tell is read as anybody's.

**PointerDevice.** `CreatedOnce` is what keeps the device's position, its button and its
mutex from being replaced under a thread. The look at the slot and the store are apart,
with a screenshot in between, so it rests on the operation lock, and so do the other
three. `IInv` has six parts, which need one another:

- `LockInv`: a call between the lock and its return has it, a call that creates the
  pointer finds the slot empty all the while, a thread has a device and is alone in its
  mutex.
- `GestureInv`: what a thread has left is the end of its gesture (`GestureLeft`), at most
  two motions and then the `Travel`, and the device is where the part that is gone left
  it. `Landing` is a consequence: the press that is next comes after a motion that was
  not dropped, because `move_to()` nudges a point the device already holds, and the
  step of a drag before its last is not on its end (`DragEnds`). This is where the
  arithmetic is: that a rounded part of a distance falls short of it
  (`QuotientPart`), and that spreading an axis over as many pixels gives the pixel
  back (`LandsThere`). A desktop of one pixel has nowhere to nudge to, which
  `LandsAt` excepts.
- `ButtonInv`: the button is down between a press and its release (`ButtonLeft`), and a
  click has pressed once for each pair of events that is gone, no more than that if an
  event failed before.
- `TaskInv`: what a task has left is the end of its commands, or the release of a drag.
- `KeysInv`: what is down on ydotool's device is accounted for by a task that will
  release it, by a call that holds it, or by a failure. What a command cut off after
  any event leaves down is in the lemmas about `Held`, whose last event of a key
  decides (`HoldHeld`, `UnholdHeld`, `KeySequenceHeld`, `ClicksHeld`).
- `CountInv`: how often a click has pressed by each of its steps. `AsAsked` needs it
  along with `ButtonInv`, `KeysInv` (a press of a button that is down counts for
  nothing) and the count of the presses in a click of any length (`ClicksPress`).

`LeftDown` follows from `ButtonInv` and `KeysInv`.

**YdotoolProbe.** That a success is kept under the key of the file that earned it is not
inductive: between the fingerprint and the store the file may be replaced, and the probe
goes on with another one. `EarnedInv` is about the probe under way, and only as long as
the file its key was taken of is in place: then it has run that file and nothing else.
`FileInv` makes this enough. Files are numbered as they come, so one that was replaced
never comes back (`KeyStays`): if the key is untouched when the answer is stored it was
untouched all the while, and every command has run that file (`RunsTheFile`). If it is
not, the answer is stored under a key with which no call will come again
(`ProbeEarns`, `LookEarns`). `MutexInv` keeps the probe to one call at a time, and with
it `SocketInv`: there is a probe directory exactly while that call uses one.

**Windowing.** What a call reports must follow from what it saw, so the invariant is about
one call at a time (`CallInv`). `StepInv` is what its next step rests on: before its
request it has seen nothing, looked at nothing and asked for nothing; it holds a window
that was listed; it has looks left; and while it waits `past` has the present value of
what it waits on. That last part is what gives `SeenSinceRequest`: a look takes the
present value, and a change by anybody else adds the new one (`ChangeKeeps`). A call's
own steps leave all other calls as they are (`Elsewhere`), so each action is a lemma about
its own call: the steps up to the request are alike (`Approach`), then come a look that
goes on (`LookAgain`), one that is the last (`LastLook`), and what ends a call without
success (`EndKeeps`). That a target names a window of the listing is `ResolveIsListed`,
for each of the selectors; that a launch finds the least new id needs ids to be numbers
(`LeastIsIn`). `FloatingInv` says that a move or resize under way is for a window that
floats, unless it was tiled meanwhile, or was when Hyprland did not say so; with it,
`LayoutKept` is that such a request changes one window, and no step but Hyprland's takes a request away (`RequestStays`).

`AimedNear` is arithmetic on one axis. A position is rounded to the nearest unit on the
way to Hyprland and down to a pixel on the way back, which is half a unit and a pixel
(`MoveIsNear`); an extent is rounded down at its beginning and up at its end, which is
half a unit and two pixels (`ResizeIsNear`). Three premises are where the code promises
no more: a value that is clamped to 32 bits (`Fits`); a size that rounds to nothing, which
is sent to Hyprland as it is while at least 1 is waited for, and is off by up to a whole
unit; and, for a pixel to lead back to its position, a scale of at least 1, since
otherwise several positions share a pixel (`PixelLeadsBack`). The nearest integer is the
only one less than a half away (`RoundIsNearest`).

**AppState.** `PixelsAgree` speaks of two rectangles computed apart: a picture is clipped
and cropped, twice when there is a region, and a click is mapped with the window's bounds
and the size of the last capture. `RegionIsWithin` and `CropIsExact` are the reason: what
is cropped to lies within the picture, so that nothing `crop_png()` would move or
shorten is asked of it, and offsets add up. `CutAgrees` puts the two crops together,
`ClickLands` is the click, and `CaptureInv` carries the result: a picture is whole, and as
large as `raw` says, until `Crop`, and no step of anyone else touches it (`GoesOn`,
`Alone`). For `OwnPicture`, `OwnershipInv` says that the portal is not asked before there is
a subscription, and that an answer stays in it until it is taken.

`Consistency` is about everything else a request returns. None of its parts is inductive;
`ConsistentInv` has four that are, together:

- `TypesInv` adds to the types that a picture which is being shrunk is never larger than
  what it shows or was asked for (`SizeInv`). The scales are fractions, so this is
  arithmetic over products: the least of the scales (`LeastScaleIsLeast`), a side that is
  rounded, to a pixel at least (`ScaledFits`), and one that shrinks (`ShrunkFits`).
- `WalksInv` is the shape of a walk: what was tried and what waits stay within the budget,
  the parent of a node comes before it, and the depths rise. The last needs `Shape` to
  say that those who wait are of two levels at most, the deepest node's and the next.
- `TreesInv` says what a walk that nothing disturbs knows. `Line` is every object it has
  come to know, in that order: its nodes, the object it is reading, those that wait. In
  a calm walk (`Calm`) each object is there once, below the one whose child it is, and
  the children of the nodes are all there, unless the budget is used up. Opening an
  object leaves the line as it is (`OpenIsCalm`), and its children are added to the end
  (`PushIsCalm`). At the end nobody waits or the budget is used up, and `CalmIsWhole`
  compares the nodes with the levels of the tree, by induction over the levels.
- `NotesInv` says that the size a note is made with is some capture's.

`WholeTree` supposes a forest (`Forest`): nothing keeps an application from listing an
object under two others, and the code, which does not look for that, would read it twice.
`NoteAgrees` supposes that all captures so far had one size. That the size last known is
the request's own would not be enough: another capture may change it before the note is
made, and a third one change it back before the picture is returned. `Forewarned` leaves
out the windows whose process Hyprland does not tell.

For `CompactLinks`, `NearestKeptParent` is a recursive function, so the proof shows by
induction over the nodes that it exists (`UpsExist`) and that it is the last of the kept
ancestors (`NearestIsLast`); kept nodes and their new places correspond one to one,
because a position's rank is the number of kept ones up to it (`RankIsBijective`).
All inductions here are over sets of numbers: the least number that is not in the set
(`Least`, from the well-foundedness of `<`) leads to a contradiction.

Only model-checked: the liveness properties (`IdleLockComesFree`, `EveryCallEnds` of
both modules, `IdleServerGivesBack`, `EveryCommandEnds`, `EveryCallReturns`,
`PipesDrained`, `Recovers`, `EveryRequestEnds`), which need fairness, and `PipesServed`,
which uses `ENABLED`.

## Where the code differs from what it says

- `abs_pointer.rs:10-13` says that `ABS(x, y)` lands at screenshot pixel `(x, y)`. The
  device is created once, with the size the desktop has then, and the compositor spreads
  its axes over the desktop as it is: after the desktop changed its size (a monitor came
  or went) a click lands beside its pixel (`pointer_resized`; `LandsWhereAimed` says that
  it does land there as long as the size is the same).
- `server.rs:92-93` says that an index names the same element until that element is gone,
  and the instructions (`server.rs:2183`) that it keeps naming it across re-reads. A map
  that is full is dropped (`server.rs:115`), and the next read gives an element that is
  still there another index, so the one it was shown under resolves to nothing
  (`element_index_life`; `IndexForLife` is what is left, and what `server.rs:106-108`
  says: never to another element).
- `session_lock.rs:76-77` says that the refusal gives the length of the holder's idle
  window. A refused server quotes its own (`session_lock.rs:250`). `SessionLock` has each
  server's window and the pid a refusal names, but not its text, so no run shows this.

Worth knowing, though nothing in the source says otherwise:

*Locks and input.*

- A refused server reads the pid file, but the holder writes it only after it has the
  flock, so it may name an earlier process.
- An application that never answers the AT-SPI action of a click or a scroll, or a portal
  that never answers the call for the size of the desktop, keeps the operation lock and
  the lease with the tool that waits for it: every other input of this server waits, and
  every other server is refused.
- The lease is renewed when a call starts and not while it runs, so it may be given
  back under a long `wait_for`.
- Modifiers are released after the operation lock, and for a drag pressed before it, so
  another call's input may be sent with them. When the command that presses them fails,
  those it did press stay down.
- A pointer thread whose caller is dropped goes on without the operation lock.
- A drag raises its window before it waits for the lock, and `activate_window` takes no
  lock, so another window may be raised in between.
- `set_value` lets the lock go between its Ctrl+A and its text.

*Windows.*

- A window may be tiled between the check and the dispatch of a move or a resize, and one
  whose state Hyprland leaves out passes the check: a resize then moves the layout.
  `LayoutUntouched` excepts both.
- The allow list is checked in one listing and the tool looks its window up in another: a
  title may select another window by then, which the list never saw.
- `launch_app` takes any window that was not there before as the one it launched, and
  fails on an empty desktop, since a listing without windows is an error.
- A target with a pid is decided by the pid; the refusal for several windows of it says
  to add another selector, which is not looked at.
- `focus_workspace`, `move_window_to_workspace` and pixel moves report what they saw last
  when their attempts are used up, without an error.
- A size that is less than half a unit of the layout is sent to Hyprland as 0, while the
  answer waits for 1.
- A window that is moved to the very position it is listed at may move by a unit of the
  layout at a fractional scale: positions are rounded down to pixels and to the nearest
  on the way back.

*Elements, trees and pictures.*

- A tree read for a targeted window is tied to that window, with the elements of every
  window of its process.
- Two reads that store at once can leave the nodes of one with the bounds of the other
  until the next read, as the two caches have a lock each.
- A tree of a window whose process is not on the bus, and without a name to look for,
  is of every application; the warning is left out when there are too many of them.
- Listing the applications for a window, and the portal's method call, have no time
  limit.
- A picture is cropped to the bounds the window was listed with before the capture.
- When ydotool vanishes between the look-up and its fingerprint and is back for the probe,
  a success is kept under the key of a missing executable, and served to calls that find
  none, until another probe replaces it.

## Plan

In this order; each module with its run, then its proofs.

1. `SessionLock` over `InputLease`: done, proved.
2. `InputDispatch` over `InputLease`: done, proved except for liveness.
3. `ProcessTree`, and `CommandRunner` and `BlockingRunner` over
   `BoundedCommand`: done, proved except for liveness.
4. `ElementCache`: done, proved.
5. `PointerDevice`: done, proved.
6. `YdotoolProbe`: done, proved except for liveness.
7. `WindowTarget`, `CaptureLayout` and `Windowing`: done, proved except for liveness.
8. `ScreenCapture`, `AccessTree` and `AppState`: done, proved except for liveness.

What could follow: a composition of `ElementCache` with the trees of `AppState` instead of
its open choice.

## Not modelled

Strings: messages, JSON, XML, environment variables. The libraries: D-Bus, AT-SPI,
image codecs, uinput, tokio beyond the fairness above. Terminal discovery reads `/proc`
once and matches names; diagnostics put independent probes together into a report, and
fill in the environment once before the server starts; the command line parses its
arguments and starts the server. These three keep no state, wait for nobody and make no
choice that another part depends on, so that there is nothing for a model checker to
interleave. How a terminal that was found selects a window is in `WindowTarget`.
