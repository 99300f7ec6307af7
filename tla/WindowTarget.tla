---------------------------- MODULE WindowTarget ----------------------------
(***************************************************************************)
(* Which window a caller means (src/src/windowing/target.rs): the          *)
(* selectors of a WindowTarget against the windows of one listing. The     *)
(* first selector given decides, in the order id, terminal, pid, app_id,   *)
(* wm_class, title; whatever matches several windows is refused.           *)
(*                                                                         *)
(* A window is a record [id, pid, app, class, title, term] and a target a  *)
(* record [id, pid, app, class, title, tty, tpid, command, cwd], each      *)
(* field None when it is not known or not given.                           *)
(***************************************************************************)
EXTENDS Integers, FiniteSets

CONSTANTS
  None,     \* an absent value, and the answer of a selector that is refused
  Fold,     \* each text in lower case
  Within,   \* the pairs of folded texts of which the first is in the second
  Suffix,   \* the pairs of a path's tail and a path it is the end of
  Tail,     \* the pairs of a tty's short name and the tty
  Unsafe,   \* the ids beyond 2^53 - 1
  Json      \* each id after a round trip through a JSON number

Same(a, b) == a # None /\ b # None /\ Fold[a] = Fold[b]
Contains(text, part) == text # None /\ <<Fold[part], Fold[text]>> \in Within

(* A selector that is not given matches every window.                      *)
ExactOrUnset(text, wanted) == wanted = None \/ Same(text, wanted)
TitleOrUnset(text, wanted) == wanted = None \/ Contains(text, wanted)

HasTerminalTarget(t) == \E f \in {"tty", "tpid", "command", "cwd"} : t[f] # None

HasTarget(t) == \E f \in DOMAIN t : t[f] # None

(* A target that names an application leaves open which of its windows.    *)
RequiresExactFocus(t) ==
  HasTerminalTarget(t) \/ \E f \in {"id", "pid", "title"} : t[f] # None

(* The only member of a set of windows, None when there is none or more.   *)
Unique(S) == IF Cardinality(S) = 1 THEN CHOOSE w \in S : TRUE ELSE None

(* A terminal is [tty, shell, active]: the process in the foreground, if   *)
(* there is one, counts as well as the shell.                              *)
Processes(term) == {term.shell, term.active} \ {None}

MatchesTerminal(w, t) ==
  /\ w.term # None
  /\ t.tty # None => t.tty = w.term.tty \/ <<t.tty, w.term.tty>> \in Tail
  /\ t.tpid # None => \E p \in Processes(w.term) : p.pid = t.tpid
  /\ t.command # None => \E p \in Processes(w.term) : Contains(p.command, t.command)
  /\ t.cwd # None => \E p \in Processes(w.term) :
                        p.cwd = t.cwd \/ <<t.cwd, p.cwd>> \in Suffix

(* The selectors that narrow another one down.                             *)
Narrowed(w, t) ==
  /\ t.pid # None => w.pid = t.pid
  /\ ExactOrUnset(w.app, t.app)
  /\ ExactOrUnset(w.class, t.class)
  /\ TitleOrUnset(w.title, t.title)

HasDisambiguator(t) == \E f \in {"pid", "app", "class", "title"} : t[f] # None

RoundsAlike(a, b) == {a, b} \cap Unsafe # {} /\ Json[a] = Json[b]

ById(windows, t) ==
  LET exact   == {w \in windows : w.id = t.id}
      rounded == {w \in windows : RoundsAlike(w.id, t.id)}
  IN  IF exact # {} THEN Unique(exact)
      ELSE IF Cardinality(rounded) > 1 /\ HasDisambiguator(t)
      THEN Unique({w \in rounded : Narrowed(w, t)})
      ELSE Unique(rounded)

(* The windows that have the title, else those that have it but for case,  *)
(* else those that contain it: the first of these with a window decides.   *)
ByTitle(windows, title) ==
  LET exact == {w \in windows : w.title = title}
      same  == {w \in windows : Same(w.title, title)}
      part  == {w \in windows : Contains(w.title, title)}
  IN  IF exact # {} THEN Unique(exact)
      ELSE IF same # {} THEN Unique(same)
      ELSE Unique(part)

Resolve(windows, t) ==
  IF t.id # None THEN ById(windows, t)
  ELSE IF HasTerminalTarget(t)
  THEN Unique({w \in windows : MatchesTerminal(w, t) /\ Narrowed(w, t)})
  ELSE IF t.pid # None THEN Unique({w \in windows : w.pid = t.pid})
  ELSE IF t.app # None THEN Unique({w \in windows : Same(w.app, t.app)})
  ELSE IF t.class # None THEN Unique({w \in windows : Same(w.class, t.class)})
  ELSE IF t.title # None THEN ByTitle(windows, t.title)
  ELSE None

(* COMPUTER_USE_HYPRLAND_ALLOWED_APPS: without patterns everything is      *)
(* allowed (server.rs).                                                    *)
Allows(patterns, w) ==
  \E p \in patterns, f \in {"app", "class", "title"} : Contains(w[f], p)
=============================================================================
