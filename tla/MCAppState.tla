---------------------------- MODULE MCAppState ------------------------------
(* The constants of the TLC run of AppState.                               *)
EXTENDS AppState, TLC

CONSTANTS c1, c2, w1, w2, a, b, a1, a2, x, a3, a4

(* Two applications; below the first a container that is of no use, with a *)
(* button in it, and an object that may come.                              *)
SomeObjects == {a, b, a1, a2, x, a3, a4}
SomePids == (a :> 1) @@ (b :> 2) @@ (a1 :> 1) @@ (a2 :> 1) @@ (x :> 1) @@ (a3 :> 1) @@ (a4 :> 1)
SomeKids == (a :> <<a1, a2>>) @@ (b :> <<>>) @@ (a1 :> <<x>>) @@ (a2 :> <<>>)
            @@ (x :> <<a3>>) @@ (a3 :> <<>>) @@ (a4 :> <<>>)
SomeApps == <<b, a>>
SomeNames == {<<a2, "edit">>} \cup {<<o, o>> : o \in {a, b}}

(* The second window's process has no application on the bus.              *)
SomeWindowPids == (w1 :> 1) @@ (w2 :> 3)
SomeCandidates == (w1 :> <<>>) @@ (w2 :> <<"edit">>)

Rectangle(at, width) == [at |-> at, size |-> width]
SomePlaces == (w1 :> {Rectangle(-2, 4), Rectangle(1, 3), Rectangle(7, 2)})
              @@ (w2 :> {NoRect})

Options == [width |-> 4, height |-> 3, scale |-> [num |-> 1, den |-> 1], cap |-> 9]
Tight   == [Options EXCEPT !.scale.den = 2, !.cap = 1]

Asked == [tool |-> "shot", target |-> None, pid |-> None, raise |-> FALSE, full |-> FALSE,
          region |-> None, relative |-> FALSE, picture |-> TRUE, ready |-> FALSE,
          name |-> None, nodes |-> 7, depth |-> 3, opts |-> Options]
Idle  == [Asked EXCEPT !.tool = "none"]
Zoom  == [Asked EXCEPT !.target = w1, !.raise = TRUE, !.region = Rectangle(-1, 3),
                       !.relative = TRUE]
Part  == [Asked EXCEPT !.target = w1, !.region = Rectangle(1, 2)]
Whole == [Asked EXCEPT !.target = w1, !.full = TRUE, !.opts = Tight]
Plain == [Asked EXCEPT !.target = w1]
State == [Asked EXCEPT !.tool = "state", !.target = w1]
OfName == [State EXCEPT !.picture = FALSE, !.ready = TRUE, !.target = None, !.name = "edit"]
OfWin == [OfName EXCEPT !.target = w1, !.name = None, !.nodes = 3]
Other == [OfWin EXCEPT !.target = w2, !.picture = TRUE, !.depth = 1]
All   == [OfName EXCEPT !.name = None, !.nodes = 4, !.depth = 1]

SomePlans ==
  {(c1 :> p) @@ (c2 :> q) : <<p, q>> \in
    {<<Plain, State>>, <<Zoom, Idle>>, <<Part, Idle>>, <<Whole, Idle>>, <<OfName, Idle>>,
     <<OfWin, Idle>>, <<Other, Idle>>, <<All, Idle>>}}
=============================================================================
