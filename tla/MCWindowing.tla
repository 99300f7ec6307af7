---------------------------- MODULE MCWindowing -----------------------------
(* The constants of the TLC run of Windowing.                              *)
EXTENDS Windowing, TLC

(* Three texts of which two differ in case and the third contains them.    *)
LowerCase == ("notes" :> "notes") @@ ("Notes" :> "notes") @@ ("old notes" :> "old notes")
             @@ ("sh" :> "sh") @@ ("vi" :> "vi")
Parts == {<<t, t>> : t \in {"notes", "old notes", "sh", "vi"}} \cup {<<"notes", "old notes">>}
Tails == {<<"3", "/dev/pts/3">>}
Ends1 == {<<"src", "/home/src">>}

(* The third id is that of no window, and rounds like the second.          *)
Rounded == (1 :> 1) @@ (2 :> 2) @@ (3 :> 2)

(* Two windows of one application, one of them a terminal.                 *)
Shell == [tty |-> "/dev/pts/3", active |-> None,
          shell |-> [pid |-> 7, command |-> "sh", cwd |-> "/home/src"]]
TwoWindows ==
  (1 :> [pid |-> 5, app |-> "vi", class |-> "vi", term |-> None]) @@
  (2 :> [pid |-> 5, app |-> "vi", class |-> "vi", term |-> Shell])

Nothing == [f \in {"id", "pid", "app", "class", "title", "tty", "tpid", "command", "cwd"} |-> None]

Ask(tool, target, want) == [tool |-> tool, target |-> target, want |-> want, follow |-> TRUE]
ByApp   == [Nothing EXCEPT !.app = "vi"]
ByName  == [Nothing EXCEPT !.title = "Notes"]
ByPath  == [Nothing EXCEPT !.cwd = "src"]
Large   == [Nothing EXCEPT !.id = 3]
First   == [Nothing EXCEPT !.id = 1]

CONSTANTS c1, c2

Pair(a, b) == (c1 :> a) @@ (c2 :> b)
Input == Ask("input", ByName, 0)
Move  == Ask("move", First, 4)
Size  == Ask("resize", Large, 3)
Float == Ask("float", ByPath, FALSE)
Send  == [Ask("send", ByName, FirstEmpty) EXCEPT !.follow = FALSE]
View  == Ask("workspace", Nothing, 2)

(* Each tool, beside one that gets in its way.                             *)
SomePlans ==
  {Pair(Input, Ask("activate", ByApp, 0)), Pair(Ask("capture", ByApp, 0), View),
   Pair(Move, Float), Pair(Size, Ask("launch", Nothing, 2)),
   Pair(Send, Ask("workspace", Nothing, FirstEmpty))}

(* Monitors at -1 and 0, with the scales 5/4 and 1.                        *)
TwoMonitors == FromMonitors({[at |-> -1, num |-> 5, den |-> 4], [at |-> 0, num |-> 1, den |-> 1]})
=============================================================================
