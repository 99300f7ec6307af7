----------------------------- MODULE Windowing ------------------------------
(***************************************************************************)
(* The tool calls that act on windows: how they find one, ask Hyprland     *)
(* through hyprctl to change it, and look until the change is there        *)
(* (src/src/server.rs and src/src/windowing/). Each hyprctl command is one *)
(* step. Hyprland carries a request out some time later or never, and      *)
(* other calls, programs and the user change the desktop at any time.      *)
(*                                                                         *)
(* The lease that input_gate() takes first is left to InputDispatch.       *)
(***************************************************************************)
EXTENDS WindowTarget, CaptureLayout

CONSTANTS
  Call,        \* the calls, each made once
  Plans,       \* what each call may be: [Call -> [tool, target, want, follow]]
  Window,      \* the windows there may be, numbered by their ids
  Facts,       \* what of each window does not change: [pid, app, class, term]
  Titles, FirstTitle, Places, Sizes, Workspaces,   \* what does; workspaces count from 1
  Patterns,    \* the allow list, empty when there is none
  Layout,      \* the monitors' layout
  Attempts,    \* GEOMETRY_VERIFY_ATTEMPTS
  MaxPolls,    \* how often a listing fits into a timeout
  MaxEvents,   \* how often others change the desktop in a behaviour
  MaxFailures  \* how often hyprctl fails

VARIABLES
  desk,      \* each window: [open, title, ws, float, at, size]
  focus,     \* the focused window, or None
  view,      \* the workspace that is shown
  events, failures,   \* how often that has happened
  ask, pc,   \* what each call was asked, and its step
  win,       \* the window it found
  from,      \* where the window or the view was, or which windows there were
  goal,      \* the layout coordinate or extent it asks for
  polls,     \* how often it has looked since
  seen,      \* what it saw last
  late,      \* whether its request is still to be carried out
  reply,     \* how it ended
  past,      \* the values it waits on has had since its request
  unsure     \* whether its window, when found, was tiled unsaid, or was tiled since

deskVars == <<desk, focus, view>>
callVars == <<ask, pc, win, from, goal, polls, seen, reply>>
vars == <<desk, focus, view, events, failures, ask, pc, win, from, goal, polls,
          seen, late, reply, past, unsure>>

FirstEmpty == 0
FocusTools == {"activate", "input", "capture"}
ExactTools == {"move", "resize"}
AllTools   == FocusTools \cup ExactTools \cup {"float", "launch", "workspace", "send"}

(* A move and a resize are asked for in pixels, set_window_floating for a  *)
(* truth value.                                                            *)
ASSUME WindowingAssumption ==
  /\ Window \subseteq Nat /\ IsFiniteSet(Window)
  /\ FirstTitle \in Titles
  /\ 1 \in Workspaces /\ Workspaces \subseteq Nat \ {0}
  /\ Largest \in Nat
  /\ Places \subseteq I32 /\ Sizes \subseteq Int
  /\ Layout \in [origin : I32, num : Nat \ {0}, den : Nat \ {0}]
  /\ Attempts \in Nat \ {0}
  /\ MaxPolls \in Nat /\ MaxEvents \in Nat /\ MaxFailures \in Nat
  /\ \A plan \in Plans :
       /\ DOMAIN plan = Call
       /\ \A c \in Call :
            /\ plan[c].tool \in AllTools
            /\ plan[c].tool \in ExactTools => plan[c].want \in I32
            /\ plan[c].tool = "float" => plan[c].want \in BOOLEAN

ToolOf(c)  == ask[c].tool
Open       == {w \in Window : desk[w].open}
Tiled(w)   == desk[w].open /\ ~desk[w].float
Empty(ws)  == \A w \in Open : desk[w].ws # ws

Info(w) == [id |-> w, pid |-> Facts[w].pid, app |-> Facts[w].app,
            class |-> Facts[w].class, title |-> desk[w].title, term |-> Facts[w].term]
Listing == {Info(w) : w \in Open}

(* The window a target names in a listing made now, or None.               *)
Found(t) == LET w == Resolve(Listing, t) IN IF w = None THEN None ELSE w.id

Init ==
  /\ desk \in [Window -> [open : BOOLEAN, title : {FirstTitle}, ws : {1}, float : BOOLEAN,
                          at : {0}, size : {1}]]
  /\ focus \in Open \cup {None}
  /\ Open # {} => focus # None
  /\ view = 1
  /\ events = 0 /\ failures = 0
  /\ ask \in Plans
  /\ pc = [c \in Call |-> "start"]
  /\ win = [c \in Call |-> None] /\ from = [c \in Call |-> None]
  /\ goal = [c \in Call |-> 0] /\ polls = [c \in Call |-> 0]
  /\ seen = [c \in Call |-> None]
  /\ late = [c \in Call |-> FALSE]
  /\ reply = [c \in Call |-> "none"]
  /\ past = [c \in Call |-> {}]
  /\ unsure = [c \in Call |-> FALSE]

-----------------------------------------------------------------------------
(* What a call waits on, as the set of the values it has now.              *)
Watched(c) ==
  CASE ToolOf(c) \in FocusTools -> {focus}
    [] ToolOf(c) = "move"       -> {desk[w].at : w \in {win[c]} \cap Open}
    [] ToolOf(c) = "resize"     -> {desk[w].size : w \in {win[c]} \cap Open}
    [] ToolOf(c) = "float"      -> {desk[w].float : w \in {win[c]} \cap Open}
    [] ToolOf(c) = "send"       -> {desk[w].ws : w \in {win[c]} \cap Open}
    [] ToolOf(c) = "workspace"  -> {view}
    [] OTHER                    -> Open

Waiting(c) == pc[c] \in {"poll", "after"}

(* A change of the desktop, as the calls that wait will have seen it.      *)
Changes ==
  /\ UNCHANGED callVars
  /\ past' = [c \in Call |-> IF Waiting(c) THEN past[c] \cup Watched(c)' ELSE past[c]]
  /\ unsure' = [c \in Call |->
       \/ unsure[c]
       \/ /\ ToolOf(c) \in ExactTools
          /\ \E w \in {win[c]} \cap Window : ~Tiled(w) /\ Tiled(w)']

Still == UNCHANGED <<desk, focus, view, events>>
Works == failures' = failures
Fails == failures < MaxFailures /\ failures' = failures + 1

Goto(c, step) == pc' = [pc EXCEPT ![c] = step]
Ends(c, says) == Goto(c, "end") /\ reply' = [reply EXCEPT ![c] = says]

-----------------------------------------------------------------------------
(* input_gate(): with an allow list, the window that is targeted, or that  *)
(* has the focus, is listed and must match it. activate_window and a       *)
(* capture have no gate.                                                   *)
Gated(c) == ToolOf(c) \notin {"activate", "capture"}
Checked(c) == IF HasTarget(ask[c].target) THEN Found(ask[c].target) ELSE focus

Gate(c) ==
  /\ pc[c] = "start"
  /\ LET passes == Gated(c) /\ Patterns # {} =>
                     \E w \in {Checked(c)} \ {None} : Allows(Patterns, Info(w))
     IN  \/ passes /\ Goto(c, "list") /\ UNCHANGED reply
         \/ ~passes /\ Ends(c, "refused")
  /\ Works /\ Still
  /\ UNCHANGED <<ask, win, from, goal, polls, seen, late, past, unsure>>

(* The window is looked up, in a listing of its own. An empty listing is   *)
(* an error (registry.rs). A launch only notes which windows there are,    *)
(* and focus_workspace() looks nothing up.                                 *)
List(c) ==
  /\ pc[c] = "list" /\ ToolOf(c) # "workspace"
  /\ IF ToolOf(c) = "launch" THEN
       \/ /\ Open # {}
          /\ from' = [from EXCEPT ![c] = Open]
          /\ Goto(c, "dispatch")
          /\ UNCHANGED <<win, reply>>
       \/ /\ Open = {}
          /\ Ends(c, "failed")
          /\ UNCHANGED <<win, from>>
     ELSE
       LET w == Found(ask[c].target)
       IN  \/ /\ w # None
              /\ win' = [win EXCEPT ![c] = w]
              /\ Goto(c, IF ToolOf(c) \in FocusTools THEN "dispatch" ELSE "query")
              /\ UNCHANGED <<from, reply>>
           \/ /\ w = None
              /\ Ends(c, "refused")
              /\ UNCHANGED <<win, from>>
  /\ Works /\ Still
  /\ UNCHANGED <<ask, goal, polls, seen, late, past, unsure>>

(* query_client() before a window is moved or resized: nothing is asked of *)
(* a window that is gone, or said to be tiled. Hyprland may leave out      *)
(* whether a window floats. capture_layout() may find no layout.           *)
Exact(c, readable) ==
  IF ~readable THEN ask[c].want
  ELSE IF ToolOf(c) = "move" THEN UnmapAxis(Layout, ask[c].want, Layout.origin)
  ELSE UnmapAxis(Layout, ask[c].want, 0)

(* Mistake: a window is moved and resized, tiled or not.                   *)
QueryExactTiled(c) ==
  /\ pc[c] = "query" /\ ToolOf(c) \in ExactTools
  /\ win[c] \in Open
  /\ goal' = [goal EXCEPT ![c] = Exact(c, TRUE)]
  /\ unsure' = [unsure EXCEPT ![c] = FALSE]
  /\ Goto(c, "dispatch")
  /\ Works /\ Still
  /\ UNCHANGED <<ask, win, from, polls, seen, late, reply, past>>

QueryExact(c) ==
  /\ pc[c] = "query" /\ ToolOf(c) \in ExactTools
  /\ \E said \in BOOLEAN :
       LET fit == /\ win[c] \in Open /\ (said => ~Tiled(win[c]))
                  /\ ToolOf(c) = "resize" => ask[c].want > 0
       IN  \/ /\ fit
              /\ \E r \in BOOLEAN : goal' = [goal EXCEPT ![c] = Exact(c, r)]
              /\ unsure' = [unsure EXCEPT ![c] = Tiled(win[c])]
              /\ Goto(c, "dispatch")
              /\ UNCHANGED reply
           \/ /\ ~fit
              /\ Ends(c, "refused")
              /\ UNCHANGED <<goal, unsure>>
  /\ Works /\ Still
  /\ UNCHANGED <<ask, win, from, polls, seen, late, past>>

(* set_floating(): a window that is said to be as it should be is left     *)
(* alone.                                                                  *)
QueryFloat(c) ==
  /\ pc[c] = "query" /\ ToolOf(c) = "float"
  /\ \/ /\ win[c] \in Open /\ desk[win[c]].float = ask[c].want
        /\ seen' = [seen EXCEPT ![c] = ask[c].want]
        /\ past' = [past EXCEPT ![c] = Watched(c)]
        /\ Ends(c, "done")
     \/ /\ win[c] \in Open
        /\ Goto(c, "dispatch")
        /\ UNCHANGED <<seen, past, reply>>
     \/ /\ win[c] \notin Open
        /\ Ends(c, "refused")
        /\ UNCHANGED <<seen, past>>
  /\ Works /\ Still
  /\ UNCHANGED <<ask, win, from, goal, polls, late, unsure>>

(* move_window_to_workspace() reads where the window is.                   *)
QuerySend(c) ==
  /\ pc[c] = "query" /\ ToolOf(c) = "send"
  /\ \/ /\ win[c] \in Open
        /\ from' = [from EXCEPT ![c] = desk[win[c]].ws]
        /\ Goto(c, "dispatch")
        /\ UNCHANGED reply
     \/ /\ win[c] \notin Open
        /\ Ends(c, "refused")
        /\ UNCHANGED from
  /\ Works /\ Still
  /\ UNCHANGED <<ask, win, goal, polls, seen, late, past, unsure>>

(* focus_workspace() reads the view before it asks for another one.        *)
ReadView(c) ==
  /\ pc[c] = "list" /\ ToolOf(c) = "workspace"
  /\ from' = [from EXCEPT ![c] = view]
  /\ Goto(c, "dispatch")
  /\ Works /\ Still
  /\ UNCHANGED <<ask, win, goal, polls, seen, late, reply, past, unsure>>

(* run_lua_dispatch(): Hyprland answers ok and the request is under way.   *)
Dispatch(c) ==
  /\ pc[c] = "dispatch"
  /\ late' = [late EXCEPT ![c] = TRUE]
  /\ past' = [past EXCEPT ![c] = Watched(c)]
  /\ Goto(c, "poll")
  /\ Works /\ Still
  /\ UNCHANGED <<ask, win, from, goal, polls, seen, reply, unsure>>

(* A hyprctl that fails, or takes too long, ends the call. A request that  *)
(* takes too long may have been taken.                                     *)
Stumbles(c) ==
  /\ \/ pc[c] = "start" /\ Gated(c) /\ Patterns # {}
     \/ pc[c] \in {"list", "query", "dispatch", "after"}
  /\ Ends(c, "failed")
  /\ \E taken \in {FALSE, pc[c] = "dispatch"} : late' = [late EXCEPT ![c] = @ \/ taken]
  /\ Fails /\ Still
  /\ UNCHANGED <<ask, win, from, goal, polls, seen, past, unsure>>

-----------------------------------------------------------------------------
(* What a call may take for its window having the focus.                   *)
SameApp(v, w) == v # None /\ Same(Facts[v].app, Facts[w].app)

(* Mistake: the application is always enough.                              *)
AnyOfTheApp(c, v) == v = win[c] \/ SameApp(v, win[c])

Satisfies(c, v) ==
  \/ v = win[c]
  \/ /\ ToolOf(c) # "capture" /\ ~RequiresExactFocus(ask[c].target)
     /\ SameApp(v, win[c])

(* wait_for_focused_window_with(): a query that fails, or finds no focus,  *)
(* leaves what was seen before.                                            *)
PollFocus(c) ==
  /\ pc[c] = "poll" /\ ToolOf(c) \in FocusTools /\ polls[c] < MaxPolls
  /\ polls' = [polls EXCEPT ![c] = @ + 1]
  /\ \/ /\ Works /\ focus = win[c]
        /\ seen' = [seen EXCEPT ![c] = focus]
        /\ Ends(c, "done")
     \/ /\ Works /\ focus # win[c]
        /\ seen' = [seen EXCEPT ![c] = IF focus # None THEN focus ELSE @]
        /\ UNCHANGED <<pc, reply>>
     \/ /\ Fails
        /\ UNCHANGED <<pc, seen, reply>>
  /\ Still
  /\ UNCHANGED <<ask, win, from, goal, late, past, unsure>>

(* The deadline, which may pass under the first query.                     *)
FocusDeadline(c) ==
  /\ pc[c] = "poll" /\ ToolOf(c) \in FocusTools
  /\ Ends(c, IF Satisfies(c, seen[c]) THEN "done"
             ELSE IF ToolOf(c) = "activate" THEN "seen" ELSE "refused")
  /\ Works /\ Still
  /\ UNCHANGED <<ask, win, from, goal, polls, seen, late, past, unsure>>

-----------------------------------------------------------------------------
(* A size that rounds to nothing is asked for, but 1 is waited for.        *)
Awaited(c) == IF ToolOf(c) = "resize" THEN Max({1, goal[c]}) ELSE goal[c]

(* Whether a value is the one that was asked for.                          *)
Reached(c, v) ==
  CASE ToolOf(c) \in ExactTools -> v = Awaited(c)
    [] ToolOf(c) = "float"      -> v = ask[c].want
    [] OTHER -> IF ask[c].want # FirstEmpty THEN v = ask[c].want
                ELSE \/ v # from[c]
                     \/ ToolOf(c) = "workspace" /\ Empty(v)

(* wait_for_client() and wait_for_active_workspace() look a fixed number   *)
(* of times and return what they saw last, which may leave out whether the *)
(* window floats.                                                          *)
Finish(c, v) ==
  IF ToolOf(c) = "send" THEN Goto(c, "after") /\ UNCHANGED reply
  ELSE Ends(c, IF Reached(c, v) THEN "done"
               ELSE IF ToolOf(c) = "float" THEN "failed" ELSE "seen")


PollState(c) ==
  /\ pc[c] = "poll" /\ ToolOf(c) \in ExactTools \cup {"float", "send", "workspace"}
  /\ \/ /\ Works
        /\ \E v \in Watched(c) :
             /\ seen' = [seen EXCEPT ![c] = v]
             /\ polls' = [polls EXCEPT ![c] = @ + 1]
             /\ IF Reached(c, v) \/ polls'[c] = Attempts
                THEN Finish(c, v) ELSE UNCHANGED <<pc, reply>>
     \/ /\ Works
        /\ ToolOf(c) = "float" /\ win[c] \in Open
        /\ polls' = [polls EXCEPT ![c] = @ + 1]
        /\ IF polls'[c] = Attempts THEN Ends(c, "failed") ELSE UNCHANGED <<pc, reply>>
        /\ UNCHANGED seen
     \/ /\ Fails \/ (Works /\ Watched(c) = {})
        /\ Ends(c, "failed")
        /\ UNCHANGED <<seen, polls>>
  /\ Still
  /\ UNCHANGED <<ask, win, from, goal, late, past, unsure>>

(* move_window_to_workspace() reads the view again for its answer.         *)
After(c) ==
  /\ pc[c] = "after"
  /\ Ends(c, IF Reached(c, seen[c]) THEN "done" ELSE "seen")
  /\ Works /\ Still
  /\ UNCHANGED <<ask, win, from, goal, polls, seen, late, past, unsure>>

(* wait_for_new_window() takes the first window that was not there before. *)
PollLaunch(c) ==
  /\ pc[c] = "poll" /\ ToolOf(c) = "launch" /\ polls[c] < MaxPolls
  /\ polls' = [polls EXCEPT ![c] = @ + 1]
  /\ LET new == Open \ from[c]
     IN  \/ /\ Works /\ new # {}
            /\ seen' = [seen EXCEPT ![c] = Min(new)]
            /\ Ends(c, "done")
         \/ /\ Fails \/ (Works /\ new = {})
            /\ UNCHANGED <<pc, seen, reply>>
  /\ Still
  /\ UNCHANGED <<ask, win, from, goal, late, past, unsure>>

LaunchDeadline(c) ==
  /\ pc[c] = "poll" /\ ToolOf(c) = "launch" /\ polls[c] > 0
  /\ Ends(c, "failed")
  /\ Works /\ Still
  /\ UNCHANGED <<ask, win, from, goal, polls, seen, late, past, unsure>>

-----------------------------------------------------------------------------
(* Hyprland carries a request out, as far as it does.                      *)
Shown(ws) == {w \in Open : desk[w].ws = ws} \cup {None}

CarryOut(c) ==
  LET w == win[c]
  IN  \/ /\ ToolOf(c) \in FocusTools /\ w \in Open
         /\ focus' = w /\ view' = desk[w].ws
         /\ UNCHANGED desk
      \/ /\ ToolOf(c) = "move" /\ w \in Open /\ ~Tiled(w)
         /\ desk' = [desk EXCEPT ![w].at = goal[c]]
         /\ UNCHANGED <<focus, view>>
      \/ /\ ToolOf(c) = "resize" /\ w \in Open /\ ~Tiled(w)
         /\ \E a \in Places, s \in (IF goal[c] > 0 THEN {goal[c]} ELSE Sizes) :
              desk' = [desk EXCEPT ![w].size = s, ![w].at = a]
         /\ UNCHANGED <<focus, view>>
      \/ /\ ToolOf(c) = "resize" /\ w \in Open /\ Tiled(w)
         /\ \E s \in [Window -> Sizes] :
              desk' = [v \in Window |-> IF Tiled(v) /\ desk[v].ws = desk[w].ws
                                        THEN [desk[v] EXCEPT !.size = s[v]] ELSE desk[v]]
         /\ UNCHANGED <<focus, view>>
      \/ /\ ToolOf(c) = "float" /\ w \in Open
         /\ \E s \in Sizes :
              desk' = [desk EXCEPT ![w].float = ask[c].want, ![w].size = s]
         /\ UNCHANGED <<focus, view>>
      \/ /\ ToolOf(c) = "send" /\ w \in Open
         /\ \E ws \in Workspaces :
              /\ IF ask[c].want = FirstEmpty THEN Empty(ws) ELSE ws = ask[c].want
              /\ desk' = [desk EXCEPT ![w].ws = ws]
              /\ view' = IF ask[c].follow THEN ws ELSE view
         /\ UNCHANGED focus
      \/ /\ ToolOf(c) = "workspace"
         /\ \E ws \in Workspaces :
              /\ IF ask[c].want = FirstEmpty THEN Empty(ws) ELSE ws = ask[c].want
              /\ view' = ws
              /\ focus' \in Shown(ws)
         /\ UNCHANGED desk
      \/ /\ ToolOf(c) = "launch"
         /\ \E v \in Window \ Open, ws \in Workspaces, f \in BOOLEAN :
              /\ desk' = [desk EXCEPT ![v].open = TRUE, ![v].ws = ws, ![v].float = f]
              /\ focus' = v /\ view' = ws

Applied(c) ==
  /\ late[c]
  /\ late' = [late EXCEPT ![c] = FALSE]
  /\ CarryOut(c)
  /\ Works
  /\ UNCHANGED events
  /\ Changes

(* A pixel move of a tiled window, among others, is dropped.               *)
Dropped(c) ==
  /\ late[c]
  /\ late' = [late EXCEPT ![c] = FALSE]
  /\ Works /\ Still
  /\ UNCHANGED <<callVars, past, unsure>>

(* The user and other programs.                                            *)
Opened(w) ==
  /\ w \notin Open
  /\ \E f \in BOOLEAN : desk' = [desk EXCEPT ![w].open = TRUE, ![w].ws = view, ![w].float = f]
  /\ focus' = w
  /\ UNCHANGED view

Closed(w) ==
  /\ w \in Open
  /\ desk' = [desk EXCEPT ![w].open = FALSE]
  /\ focus' \in (IF focus = w THEN Shown(view) \ {w} ELSE {focus})
  /\ UNCHANGED view

Focused(w) ==
  /\ w \in Open /\ focus # w
  /\ focus' = w /\ view' = desk[w].ws
  /\ UNCHANGED desk

Toggled(w) ==
  /\ w \in Open
  /\ desk' = [desk EXCEPT ![w].float = ~@]
  /\ UNCHANGED <<focus, view>>

Retitled(w) ==
  /\ w \in Open
  /\ \E t \in Titles \ {desk[w].title} : desk' = [desk EXCEPT ![w].title = t]
  /\ UNCHANGED <<focus, view>>

Event ==
  /\ events < MaxEvents
  /\ events' = events + 1
  /\ \E w \in Window : Opened(w) \/ Closed(w) \/ Focused(w) \/ Toggled(w) \/ Retitled(w)
  /\ Works /\ Changes
  /\ UNCHANGED late

Proceeds(c) ==
  \/ Gate(c) \/ List(c) \/ ReadView(c) \/ QueryExact(c) \/ QueryFloat(c) \/ QuerySend(c)
  \/ Dispatch(c) \/ PollFocus(c) \/ FocusDeadline(c) \/ PollState(c) \/ After(c)
  \/ PollLaunch(c) \/ LaunchDeadline(c) \/ Stumbles(c)

Next ==
  \/ \E c \in Call : Proceeds(c) \/ Applied(c) \/ Dropped(c)
  \/ Event

Spec == Init /\ [][Next]_vars

(* A call whose hyprctl has returned goes on.                              *)
FairSpec == Spec /\ \A c \in Call : WF_vars(Proceeds(c))

-----------------------------------------------------------------------------
State == [open : BOOLEAN, title : Titles, ws : Workspaces, float : BOOLEAN,
          at : I32, size : Int]

TypeOK ==
  /\ desk \in [Window -> State]
  /\ focus \in Window \cup {None} /\ view \in Workspaces
  /\ events \in 0..MaxEvents /\ failures \in 0..MaxFailures
  /\ ask \in Plans
  /\ pc \in [Call -> {"start", "list", "query", "dispatch", "poll", "after", "end"}]
  /\ win \in [Call -> Window \cup {None}]
  /\ goal \in [Call -> I32] /\ polls \in [Call -> Nat]
  /\ late \in [Call -> BOOLEAN] /\ unsure \in [Call -> BOOLEAN]
  /\ {DOMAIN from, DOMAIN seen, DOMAIN past} = {Call}
  /\ reply \in [Call -> {"none", "refused", "failed", "done", "seen"}]

(* What a call saw last was so at some time since its request, whatever    *)
(* came in between: an answer of before the request is never taken for one *)
(* after it (target.rs:65-99, hyprland.rs:432-449 and 772-790).            *)
SeenSinceRequest ==
  \A c \in Call : seen[c] # None => seen[c] \in past[c]

(* A call that says it is done saw what it was asked for: the window that  *)
(* was found with the focus, or one of its application where that is       *)
(* enough, the geometry, the state or the workspace asked for, or a window *)
(* that was not there before (server.rs:3259-3298).                        *)
Saw(c) ==
  LET t == ask[c].target
  IN  CASE ToolOf(c) \in FocusTools ->
             \/ seen[c] = win[c]
             \/ /\ ToolOf(c) # "capture" /\ seen[c] # None
                /\ {t.id, t.pid, t.title, t.tty, t.tpid, t.command, t.cwd} = {None}
                /\ Same(Facts[seen[c]].app, Facts[win[c]].app)
        [] ToolOf(c) = "launch" -> seen[c] \in Window \ from[c]
        [] ToolOf(c) = "move"   -> seen[c] = goal[c]
        [] ToolOf(c) = "resize" -> seen[c] = Max({1, goal[c]})
        [] ToolOf(c) = "float"  -> seen[c] = ask[c].want
        [] OTHER                -> ask[c].want \in {seen[c], FirstEmpty}

DoneIsSeen == \A c \in Call : reply[c] = "done" => Saw(c)

(* Pixels and layout coordinates agree up to rounding (hyprland.rs:167-    *)
(* 262 and 608-636), as long as they fit 32 bits: a window that is moved   *)
(* where a caller wants it is listed there again to within half a unit of  *)
(* the layout and a pixel; one that is resized has, wherever it is, the    *)
(* extent to within half a unit and two pixels, or a whole unit where half *)
(* of one was too much; and the pixel of a position leads back to it.      *)
Near(off, halves, pixels) ==
  /\ 2 * Layout.den * off < halves * Layout.num + 2 * Layout.den * pixels
  /\ 2 * Layout.den * (-off) < halves * Layout.num + 2 * Layout.den * pixels

Fits(v, origin) ==
  LET r == Round(v * Layout.den, Layout.num) IN r \in I32 /\ r + origin \in I32

Converted(c) ==
  pc[c] = "dispatch" /\ ToolOf(c) \in ExactTools /\ goal[c] = Exact(c, TRUE)

MovedNear(c) ==
  Fits(ask[c].want, Layout.origin) => Near(MapLow(Layout, goal[c]) - ask[c].want, 1, 1)

ResizedNear(c) ==
  LET at == desk[win[c]].at
  IN  Fits(ask[c].want, 0) =>
        Near(MapHigh(Layout, at, Awaited(c)) - MapLow(Layout, at) - ask[c].want,
             IF goal[c] = 0 THEN 2 ELSE 1, 2)

LeadsBack(at) ==
  /\ Layout.num >= Layout.den
  /\ Round((at - Layout.origin) * Layout.num, Layout.den) \in I32
  => UnmapAxis(Layout, MapAxis(Layout, at), Layout.origin) = at

AimedNear ==
  /\ \A c \in Call : Converted(c) =>
       IF ToolOf(c) = "move" THEN MovedNear(c) ELSE ResizedNear(c)
  /\ \A w \in Window : LeadsBack(desk[w].at)

(* No call takes more looks than it has.                                   *)
BoundedLooks == \A c \in Call : polls[c] <= Max({MaxPolls, Attempts})

(* What the next step of a call rests on: it has not answered or looked    *)
(* before its time, acts on a window it found, has looks left, and what it *)
(* waits on has been noted since its request.                              *)
StepInv(c) ==
  /\ pc[c] # "end" => reply[c] = "none"
  /\ pc[c] \in {"start", "list", "query", "dispatch"} =>
       seen[c] = None /\ polls[c] = 0 /\ ~late[c]
  /\ ToolOf(c) \notin {"launch", "workspace"} =>
       (late[c] \/ pc[c] \in {"query", "dispatch", "poll", "after"} => win[c] \in Window)
  /\ pc[c] = "dispatch" /\ ToolOf(c) = "resize" => ask[c].want > 0
  /\ pc[c] = "poll" /\ ToolOf(c) \notin FocusTools \cup {"launch"} => polls[c] < Attempts
  /\ pc[c] = "after" => ToolOf(c) = "send"
  /\ Waiting(c) => Watched(c) \subseteq past[c]

(* A request to move or resize that is on its way is for a window that     *)
(* floats, but for one that was tiled unsaid when it was found, or since.  *)
FloatingInv(c) ==
  ToolOf(c) \in ExactTools /\ (late[c] \/ pc[c] = "dispatch") /\ ~unsure[c] =>
    ~Tiled(win[c])

IInv ==
  /\ \A c \in Call : StepInv(c) /\ FloatingInv(c)
  /\ SeenSinceRequest /\ DoneIsSeen /\ BoundedLooks /\ AimedNear

Consistent == TypeOK /\ IInv

(* A request to move or resize changes a tiled window only when the window *)
(* it is for has been tiled since it was found, or was then and Hyprland   *)
(* did not say so: otherwise the layout is left as it is, "before any      *)
(* dispatch runs" (hyprland.rs:710-724).                                   *)
LayoutUntouched ==
  [][\A c \in Call : late[c] /\ ~late'[c] /\ ToolOf(c) \in ExactTools /\ ~unsure[c] =>
       \A w \in Window : Tiled(w) => desk'[w] = desk[w]]_vars

(* Every call comes to its end, whether Hyprland does what it was asked,   *)
(* does something else or nothing.                                         *)
EveryCallEnds == \A c \in Call : <>(pc[c] = "end")
=============================================================================
