------------------------------ MODULE AppState ------------------------------
(***************************************************************************)
(* How an agent sees the desktop: get_app_state, which answers with a      *)
(* picture and an accessibility tree, and screenshot (src/src/server.rs).  *)
(* A picture comes from the desktop portal, whose answers are signals on a *)
(* bus (src/src/screenshot.rs); a tree is read from the applications, one  *)
(* call at a time (src/src/atspi_tree.rs). Meanwhile other requests are    *)
(* served, windows move, the display changes and objects come and go.      *)
(***************************************************************************)
EXTENDS ScreenCapture, AccessTree

CONSTANTS
  Call,          \* the requests, each made once
  Plans,         \* what they may be, see Requests
  Window,
  WindowPid,     \* each window's process
  Candidates,    \* the names an application of it may have, first ones first
  Apps,          \* the applications the registry lists, in its order
  FirstKids,     \* each object's children at first
  MaxPids,       \* MAX_SNAPSHOT_ROOT_PIDS
  Places,        \* each window's possible [at, size], NoRect when unknown
  Hideable,      \* the windows that may be hidden
  Mortal, Hosts, \* the objects that come and go, and the objects they come below
  Desktops,      \* the widths of the display
  Height,        \* its height
  Weight,        \* the bytes of a pixel
  Header,        \* the bytes of an empty picture
  MaxEvents,     \* how often something else happens in a behaviour
  MaxFailures    \* how often a call to another program fails

(* A window as a request finds it.                                         *)
Listings == [id : Window, place : UNION Range(Places), hidden : BOOLEAN, focused : BOOLEAN]

(* GetAppStateParams and ScreenshotParams, and whether the accessibility   *)
(* bus is ready. A call that is not made has the tool "none".              *)
Requests ==
  [tool : {"state", "shot", "none"}, target : Window \cup {None}, pid : Int \cup {None},
   raise : BOOLEAN, full : BOOLEAN, region : [at : Int, size : Nat] \cup {None},
   relative : BOOLEAN, picture : BOOLEAN, ready : BOOLEAN,
   name : Obj \cup STRING \cup {None}, nodes : Nat \ {0}, depth : Nat,
   opts : [width : Nat \ {0}, height : Nat \ {0}, cap : Nat,
           scale : [num : Nat \ {0}, den : Nat \ {0}]]]

(* The portal's answer to one of them, which every subscription hears.     *)
Response == [ok : BOOLEAN, picture : [of : Call, from : {0}, size : Desktops]]

ASSUME AppStateAssumption ==
  /\ None \notin Window \cup Listings
  /\ Desktops \subseteq Nat \ {0} /\ Height \in Nat \ {0}
  /\ Places \in [Window -> SUBSET [at : Int, size : Nat]]
  /\ Plans \subseteq [Call -> Requests]
  /\ IsFiniteSet(Obj) /\ FirstKids \in [Obj -> Seq(Obj)] /\ Apps \in Seq(Obj)
  /\ Mortal \subseteq Obj /\ Hosts \subseteq Obj
  /\ MaxPids \in Nat /\ MaxEvents \in Nat /\ MaxFailures \in Nat

ASSUME ResponseAssumption == None \notin Seq(Response)

VARIABLES
  desk,      \* each window's [place, hidden]
  focus,     \* the focused window, or None
  display,   \* the display's width
  kids,      \* each object's children
  gone,      \* the objects that are no more
  events, failures,   \* how often that has happened
  ask, pc,   \* each request, and its step
  win,       \* the window it found, as it was listed, or None
  portal,    \* what the portal has done about its request
  heard,     \* the answers that have reached its subscription, None without
  desktopSize, \* the size of the last capture by any request, 0 before
  raw,       \* the size of its own capture
  picture,   \* its picture, with the request it is of
  crop,      \* the rectangle it reports
  dims,      \* the size the picture is encoded in
  offNote,   \* whether it warns of a window that is not wholly visible
  needle,    \* what its applications are looked up by, or None
  walk,      \* where the walk through the tree is
  pids,      \* the processes that is of
  shot, access   \* how the picture and the tree ended

worldVars   == <<desk, focus, display, kids, gone, events>>
pictureVars == <<portal, heard, desktopSize, raw, picture, crop, dims, offNote, shot>>
treeVars    == <<needle, walk, pids, access>>
vars == <<worldVars, failures, ask, pc, win, pictureVars, treeVars>>

Goto(c, step) == pc' = [pc EXCEPT ![c] = step]
Works == failures' = failures
Fails == failures < MaxFailures /\ failures' = failures + 1

Still == UNCHANGED worldVars
ToolOf(c)   == ask[c].tool
Targeted(c) == ask[c].target # None

Listed(w) == [id |-> w, place |-> desk[w].place, hidden |-> desk[w].hidden,
              focused |-> focus = w]

(* The process of the window that was found, if it is known.               *)
PidOfWindow(c) == IF win[c] = None THEN None ELSE WindowPid[win[c].id]

(* What is cropped to: the whole desktop is wanted, or no window is.       *)
CropsToWindow(c) == win[c] # None /\ ~ask[c].full

Views == [place : UNION Range(Places), hidden : BOOLEAN]

NoPicture == [of |-> None, from |-> 0, size |-> 0]
NoWalk == [queue |-> <<>>, tried |-> 0, reads |-> 0, nodes |-> <<>>, root |-> <<>>,
           now |-> [obj |-> None, depth |-> 0, parent |-> 0], want |-> 0, index |-> 0,
           got |-> <<>>]

Init ==
  /\ desk \in [Window -> Views]
  /\ \A w \in Window : desk[w].place \in Places[w] /\ (desk[w].hidden => w \in Hideable)
  /\ focus \in {w \in Window : ~desk[w].hidden} \cup {None}
  /\ display \in Desktops
  /\ kids = FirstKids /\ gone = {}
  /\ events = 0 /\ failures = 0
  /\ ask \in Plans
  /\ pc = [c \in Call |-> IF ask[c].tool = "none" THEN "end" ELSE "look"]
  /\ win = [c \in Call |-> None]
  /\ portal = [c \in Call |-> "none"] /\ heard = [c \in Call |-> None]
  /\ desktopSize = 0 /\ raw = [c \in Call |-> 0]
  /\ picture = [c \in Call |-> NoPicture]
  /\ crop = [c \in Call |-> NoRect] /\ dims = [c \in Call |-> <<1, 1>>]
  /\ offNote = [c \in Call |-> FALSE]
  /\ needle = [c \in Call |-> None] /\ walk = [c \in Call |-> NoWalk]
  /\ pids = [c \in Call |-> {}]
  /\ shot = [c \in Call |-> "none"] /\ access = [c \in Call |-> "none"]

-----------------------------------------------------------------------------
(* A picture that fails is all that get_app_state has to say about it, and *)
(* the end of a screenshot.                                                *)
AfterPicture(c) ==
  IF ToolOf(c) = "shot" THEN "end" ELSE IF ask[c].ready THEN "roots" ELSE "end"

(* Without accessibility there is no tree.                                 *)
PictureEnds(c, how) ==
  /\ shot' = [shot EXCEPT ![c] = how]
  /\ Goto(c, AfterPicture(c))
  /\ access' = [access EXCEPT ![c] =
                  IF ToolOf(c) = "state" /\ ~ask[c].ready THEN "failed" ELSE @]
  /\ UNCHANGED <<ask, win, portal, needle, walk, pids>>

(* resolve_window_context(): a window that cannot be found is an error of  *)
(* its own, and the request goes on without.                               *)
LookForState(c) ==
  /\ pc[c] = "look" /\ ToolOf(c) = "state"
  /\ \/ /\ Works
        /\ win' = [win EXCEPT ![c] = IF Targeted(c) THEN Listed(ask[c].target) ELSE None]
     \/ /\ Fails /\ Targeted(c)
        /\ UNCHANGED win
  /\ Goto(c, "filter")
  /\ UNCHANGED <<worldVars, ask, pictureVars, treeVars>>

(* resolve_screenshot_window(): the window is raised, or taken as it is.   *)
(* How it is raised, and what is taken for that, is Windowing's.           *)
LookForShot(c) ==
  /\ pc[c] = "look" /\ ToolOf(c) = "shot"
  /\ LET w == ask[c].target
         seen == [Listed(w) EXCEPT !.focused = ask[c].raise \/ @, !.hidden = FALSE]
     IN  \/ /\ ~Targeted(c)
            /\ Goto(c, "subscribe")
            /\ Works
            /\ UNCHANGED <<desk, focus, win, shot>>
         \/ /\ Targeted(c) /\ (~desk[w].hidden \/ ask[c].raise)
            /\ win' = [win EXCEPT ![c] = seen]
            /\ focus' = IF ask[c].raise THEN w ELSE focus
            /\ desk' = [desk EXCEPT ![w].hidden = FALSE]
            /\ Goto(c, "subscribe")
            /\ Works
            /\ UNCHANGED shot
         \/ /\ Targeted(c)
            /\ (desk[w].hidden /\ ~ask[c].raise /\ Works) \/ Fails
            /\ shot' = [shot EXCEPT ![c] = "refused"]
            /\ Goto(c, "end")
            /\ UNCHANGED <<desk, focus, win>>
  /\ UNCHANGED <<display, kids, gone, events, ask, portal, heard, desktopSize, raw, picture,
                 crop, dims, offNote, treeVars>>

(* resolve_accessibility_app_filter(): what was asked for, else the        *)
(* application of the window's process, else the window's first name.      *)
Filter(c) ==
  /\ pc[c] = "filter"
  /\ LET pid   == IF win[c] # None THEN WindowPid[win[c].id] ELSE ask[c].pid
         names == IF win[c] # None THEN Candidates[win[c].id] ELSE <<>>
         found == IF pid = None THEN <<>> ELSE SelectObjectRef(Apps, pid, ToSet(names))
         First(s) == IF s = <<>> THEN None ELSE s[1]
     IN  \/ /\ Works
            /\ needle' = [needle EXCEPT ![c] =
                 IF ask[c].name # None THEN ask[c].name
                 ELSE IF found # <<>> THEN found[1] ELSE First(names)]
         \/ /\ Fails /\ ask[c].name = None /\ pid # None
            /\ needle' = [needle EXCEPT ![c] = First(names)]
  /\ Goto(c, IF ask[c].picture THEN "subscribe"
             ELSE IF ask[c].ready THEN "roots" ELSE "end")
  /\ access' = [access EXCEPT ![c] =
                  IF ~ask[c].picture /\ ~ask[c].ready THEN "failed" ELSE @]
  /\ UNCHANGED <<worldVars, ask, win, pictureVars, walk, pids>>

-----------------------------------------------------------------------------
(* capture_with_portal(): the subscription is there before the call, and   *)
(* is for the answers to every request.                                    *)
Subscribe(c) ==
  /\ pc[c] = "subscribe"
  /\ heard' = [heard EXCEPT ![c] = <<>>]
  /\ Goto(c, "call")
  /\ Works /\ Still
  /\ UNCHANGED <<ask, win, portal, desktopSize, raw, picture, crop, dims, offNote, shot, treeVars>>

CallPortal(c) ==
  /\ pc[c] = "call"
  /\ portal' = [portal EXCEPT ![c] = "asked"]
  /\ Goto(c, "handle")
  /\ Works /\ Still
  /\ UNCHANGED <<ask, win, heard, desktopSize, raw, picture, crop, dims, offNote, shot, treeVars>>

(* Mistake: the answers are subscribed to when the handle is known.        *)
TakeHandleFirst(c) ==
  /\ pc[c] = "handle"
  /\ heard' = [heard EXCEPT ![c] = <<>>]
  /\ Goto(c, "wait")
  /\ Works /\ Still
  /\ UNCHANGED <<ask, win, portal, desktopSize, raw, picture, crop, dims, offNote, shot,
                 treeVars>>

(* The call returns the handle that the answer will have. Nothing limits   *)
(* how long it takes.                                                      *)
TakeHandle(c) ==
  /\ pc[c] = "handle"
  /\ Goto(c, "wait")
  /\ Works /\ Still
  /\ UNCHANGED <<ask, win, pictureVars, treeVars>>

(* The portal takes a picture, or does not, and tells everybody.           *)
Answers(c) ==
  /\ portal[c] = "asked"
  /\ portal' = [portal EXCEPT ![c] = "answered"]
  /\ \E ok \in BOOLEAN :
       /\ IF ok THEN Works ELSE Fails
       /\ heard' = [d \in Call |->
            IF heard[d] = None THEN None
            ELSE Append(heard[d], [ok |-> ok, picture |->
                                     [of |-> c, from |-> 0, size |-> display]])]
  /\ Still
  /\ UNCHANGED <<ask, pc, win, desktopSize, raw, picture, crop, dims, offNote, shot, treeVars>>

(* wait_for_portal_response(): an answer to another request is passed      *)
(* over; then the connection is dropped.                                   *)
HearAnother(c) ==
  /\ pc[c] = "wait" /\ heard[c] # <<>> /\ heard[c][1].picture.of # c
  /\ heard' = [heard EXCEPT ![c] = Tail(@)]
  /\ Works /\ Still
  /\ UNCHANGED <<ask, pc, win, portal, desktopSize, raw, picture, crop, dims, offNote, shot,
                 treeVars>>

HearPicture(c) ==
  /\ pc[c] = "wait" /\ heard[c] # <<>> /\ heard[c][1].picture.of = c /\ heard[c][1].ok
  /\ picture' = [picture EXCEPT ![c] = heard[c][1].picture]
  /\ raw' = [raw EXCEPT ![c] = picture'[c].size]
  /\ desktopSize' = picture'[c].size
  /\ heard' = [heard EXCEPT ![c] = None]
  /\ Goto(c, "crop")
  /\ Works /\ Still
  /\ UNCHANGED <<ask, win, portal, crop, dims, offNote, shot, treeVars>>

HearRefusal(c) ==
  /\ pc[c] = "wait" /\ heard[c] # <<>> /\ heard[c][1].picture.of = c /\ ~heard[c][1].ok
  /\ heard' = [heard EXCEPT ![c] = None]
  /\ PictureEnds(c, "failed")
  /\ Works /\ Still
  /\ UNCHANGED <<desktopSize, raw, picture, crop, dims, offNote>>

(* Twenty seconds after the handle, whatever is in the stream.             *)
PortalTimeout(c) ==
  /\ pc[c] = "wait"
  /\ heard' = [heard EXCEPT ![c] = None]
  /\ PictureEnds(c, "failed")
  /\ Works /\ Still
  /\ UNCHANGED <<desktopSize, raw, picture, crop, dims, offNote>>

(* The bus, the portal's call or the file of the picture.                  *)
PortalFails(c) ==
  /\ pc[c] \in {"subscribe", "call", "handle", "wait"}
  /\ heard' = [heard EXCEPT ![c] = None]
  /\ PictureEnds(c, "failed")
  /\ Fails /\ Still
  /\ UNCHANGED <<desktopSize, raw, picture, crop, dims, offNote>>

-----------------------------------------------------------------------------
(* Mistake: the window is cropped to as it is.                             *)
RectAsItIs(c) == IF CropsToWindow(c) THEN win[c].place ELSE NoRect

(* The window has to be there, and for get_app_state to be seen; what of   *)
(* it is on the desktop is cropped to, then the region.                    *)
Rect(c) == IF CropsToWindow(c) THEN Clip(win[c].place, raw[c]) ELSE NoRect

Visible(c) == win[c] # None /\ ~win[c].hidden /\ win[c].focused

(* The picture of the window, the region in it, and the picture of that.   *)
OfWindow(c) == IF CropsToWindow(c) THEN CropPng(picture[c], Rect(c)) ELSE picture[c]

Region(c) == RegionCrop(ask[c].region, ask[c].relative, Rect(c), OfWindow(c).size)

Cut(c) == IF ask[c].region = None THEN OfWindow(c) ELSE CropPng(OfWindow(c), Region(c))

Fits(c) ==
  /\ ToolOf(c) = "state" /\ Targeted(c) => Visible(c)
  /\ CropsToWindow(c) => Rect(c) # NoRect
  /\ ask[c].region # None => Region(c) # NoRect

Crop(c) ==
  /\ pc[c] = "crop"
  /\ \/ /\ Fits(c)
        /\ \E cut \in {Cut(c)} :
             /\ picture' = [picture EXCEPT ![c].from = cut.from, ![c].size = cut.size]
             /\ dims' = [dims EXCEPT ![c] = TargetDimensions(cut.size, Height, ask[c].opts)]
        /\ crop' = [crop EXCEPT ![c] = IF ask[c].region = None THEN Rect(c)
                                       ELSE Shifted(Region(c), Rect(c).at)]
        /\ offNote' = [offNote EXCEPT ![c] = /\ ToolOf(c) = "shot" /\ CropsToWindow(c)
                                             /\ OffScreen(win[c].place, desktopSize)]
        /\ Goto(c, "fit")
        /\ UNCHANGED <<ask, win, portal, shot, access, needle, walk, pids>>
     \/ /\ ~Fits(c)
        /\ PictureEnds(c, "refused")
        /\ UNCHANGED <<picture, crop, dims, offNote>>
  /\ Works /\ Still
  /\ UNCHANGED <<heard, desktopSize, raw>>

(* encode_screenshot_to_fit_bytes(): it is encoded, and when that is too   *)
(* much encoded smaller, down to a single pixel.                           *)
Bytes(d) == Header + Weight * d[1] * d[2]

(* Mistake: nothing ends the loop but a picture that fits.                 *)
FitAtAnyPrice(c) ==
  /\ pc[c] = "fit"
  /\ IF Bytes(dims[c]) <= ask[c].opts.cap THEN PictureEnds(c, "done") /\ UNCHANGED dims
     ELSE /\ dims' = [dims EXCEPT ![c] = NextDimensions(@, Bytes(@), ask[c].opts.cap)]
          /\ UNCHANGED <<ask, pc, win, portal, shot, access, needle, walk, pids>>
  /\ Works /\ Still
  /\ UNCHANGED <<heard, desktopSize, raw, picture, crop, offNote>>

(* Encoding and shrinking in turn.                                         *)
Fit(c) ==
  /\ pc[c] = "fit"
  /\ \/ /\ Bytes(dims[c]) <= ask[c].opts.cap
        /\ PictureEnds(c, "done")
        /\ UNCHANGED dims
     \/ /\ Bytes(dims[c]) > ask[c].opts.cap /\ dims[c] = <<1, 1>>
        /\ PictureEnds(c, "failed")
        /\ UNCHANGED dims
     \/ /\ Bytes(dims[c]) > ask[c].opts.cap /\ dims[c] # <<1, 1>>
        /\ dims' = [dims EXCEPT ![c] = NextDimensions(@, Bytes(@), ask[c].opts.cap)]
        /\ UNCHANGED <<ask, pc, win, portal, shot, access, needle, walk, pids>>
  /\ Works /\ Still
  /\ UNCHANGED <<heard, desktopSize, raw, picture, crop, offNote>>

-----------------------------------------------------------------------------
(* snapshot_tree_inner(): the applications are listed, some may not answer *)
(* and all of them not is an error; those that are selected start the walk *)
(* as far as it may go, and their processes are looked up.                 *)
Drops(s) == {Filtered(s, Obj \ D) : D \in SUBSET ToSet(s)}

Roots(c) ==
  /\ pc[c] = "roots"
  /\ \E listed \in {Apps} \cup Drops(Apps) :
       /\ IF listed = Apps THEN Works ELSE Fails
       /\ LET pid   == PidOfWindow(c)
              roots == SelectRoots(listed, kids, pid, needle[c])
              start == SubSeq(roots, 1, Min({Len(roots), ask[c].nodes}))
          IN  \/ /\ listed # <<>> \/ Apps = <<>>
                 /\ walk' = [walk EXCEPT ![c] =
                      [NoWalk EXCEPT !.root = roots, !.reads = ask[c].nodes, !.queue =
                         [i \in 1..Len(start) |-> [obj |-> start[i], depth |-> 0, parent |-> 0]]]]
                 /\ pids' = [pids EXCEPT ![c] = RootPids(roots, MaxPids)]
                 /\ Goto(c, "walk")
                 /\ UNCHANGED access
              \/ /\ listed = <<>> /\ Apps # <<>>
                 /\ access' = [access EXCEPT ![c] = "failed"]
                 /\ Goto(c, "end")
                 /\ UNCHANGED <<walk, pids>>
  /\ Still
  /\ UNCHANGED <<ask, win, pictureVars, needle>>

(* BoundedTraversal: no more objects are tried, or wait, than there may be *)
(* nodes.                                                                  *)
Remaining(c) == ask[c].nodes - walk[c].tried - Len(walk[c].queue)

(* The next object is opened and its children are counted; so many of them *)
(* are going to be read, at most as there is room for and reads are left.  *)
Open(c) ==
  /\ pc[c] = "walk" /\ walk[c].queue # <<>> /\ walk[c].tried < ask[c].nodes
  /\ LET next   == Head(walk[c].queue)
         opened == [walk[c] EXCEPT !.queue = Tail(@), !.tried = @ + 1]
         room   == Remaining(c)
         want   == IF next.depth < ask[c].depth
                   THEN Min({Len(kids[next.obj]), room, walk[c].reads}) ELSE 0
     IN  \/ /\ Works
            /\ walk' = [walk EXCEPT ![c] =
                 [opened EXCEPT !.now = next, !.want = want, !.index = 0, !.got = <<>>,
                                !.reads = @ - want]]
            /\ Goto(c, "kids")
         \/ /\ Fails
            /\ walk' = [walk EXCEPT ![c] = opened]
            /\ UNCHANGED pc
  /\ Still
  /\ UNCHANGED <<ask, win, pictureVars, needle, pids, access>>

(* get_child_at_index(): a child that cannot be read, or is there no more, *)
(* is left out.                                                            *)
ReadChild(c) ==
  /\ pc[c] = "kids" /\ walk[c].index < walk[c].want
  /\ LET here == kids[walk[c].now.obj]
         i    == walk[c].index + 1
     IN  \/ /\ Works /\ i <= Len(here)
            /\ walk' = [walk EXCEPT ![c].index = i, ![c].got = Append(@, here[i])]
         \/ /\ (Works /\ i > Len(here)) \/ Fails
            /\ walk' = [walk EXCEPT ![c].index = i]
  /\ Still
  /\ UNCHANGED <<ask, pc, win, pictureVars, needle, pids, access>>

(* Its node is read and pushed, and the children take their place.         *)
Push(c) ==
  /\ pc[c] = "kids" /\ walk[c].index = walk[c].want
  /\ LET w    == walk[c]
         node == [obj |-> w.now.obj, depth |-> w.now.depth, parent |-> w.now.parent,
                  live |-> w.now.obj \notin gone]
         kid  == [i \in 1..Min({Len(w.got), Remaining(c)}) |->
                   [obj |-> w.got[i], depth |-> w.now.depth + 1,
                    parent |-> Len(w.nodes) + 1]]
     IN  walk' = [walk EXCEPT ![c].nodes = Append(@, node), ![c].queue = @ \o kid]
  /\ Goto(c, "walk")
  /\ Works /\ Still
  /\ UNCHANGED <<ask, win, pictureVars, needle, pids, access>>

(* The tree is the compacted nodes, when no object is left to try.         *)
Tree(c) == Compact(walk[c].nodes)

WalkEnds(c) ==
  /\ pc[c] = "walk" /\ (walk[c].queue = <<>> \/ walk[c].tried = ask[c].nodes)
  /\ access' = [access EXCEPT ![c] = "done"]
  /\ Goto(c, "end")
  /\ Works /\ Still
  /\ UNCHANGED <<ask, win, pictureVars, needle, walk, pids>>

(* SNAPSHOT_TIMEOUT, over everything from the connection on; there is no   *)
(* tree then.                                                              *)
TreeTimeout(c) ==
  /\ pc[c] \in {"roots", "walk", "kids"}
  /\ access' = [access EXCEPT ![c] = "failed"]
  /\ pids' = [pids EXCEPT ![c] = {}]
  /\ Goto(c, "end")
  /\ Works /\ Still
  /\ UNCHANGED <<ask, win, pictureVars, needle, walk>>

-----------------------------------------------------------------------------
(* The user, other programs and the compositor.                            *)
Placed(w) ==
  /\ \E p \in Places[w] \ {desk[w].place} : desk' = [desk EXCEPT ![w].place = p]
  /\ UNCHANGED <<focus, display, kids, gone>>

Focused(w) ==
  /\ focus' = w /\ focus # w
  /\ desk' = [desk EXCEPT ![w].hidden = FALSE]
  /\ UNCHANGED <<display, kids, gone>>

Hidden(w) ==
  /\ w \in Hideable /\ ~desk[w].hidden
  /\ desk' = [desk EXCEPT ![w].hidden = TRUE]
  /\ focus' = IF focus = w THEN None ELSE focus
  /\ UNCHANGED <<display, kids, gone>>

Resized ==
  /\ display' \in Desktops \ {display}
  /\ UNCHANGED <<desk, focus, kids, gone>>

Gone(o) ==
  /\ \E q \in Obj : o \in ToSet(kids[q])
  /\ gone' = gone \cup {o}
  /\ kids' = [p \in Obj |-> IF p = o THEN <<>>
                          ELSE Filtered(kids[p], Obj \ {o})]
  /\ UNCHANGED <<desk, focus, display>>

(* A new first child.                                                      *)
Added(o, p) ==
  /\ o \notin gone /\ p \notin gone \cup {o}
  /\ kids[o] = <<>>
  /\ \A q \in Obj : o \notin ToSet(kids[q])
  /\ kids' = [kids EXCEPT ![p] = <<o>> \o @]
  /\ UNCHANGED <<desk, focus, display, gone>>

Event ==
  /\ events < MaxEvents
  /\ events' = events + 1
  /\ \/ \E w \in Window : Placed(w) \/ Focused(w) \/ Hidden(w)
     \/ Resized
     \/ \E o \in Mortal : Gone(o) \/ \E p \in Hosts : Added(o, p)
  /\ Works
  /\ UNCHANGED <<ask, pc, win, pictureVars, treeVars>>

(* What the server does without waiting for anybody, or not for long.      *)
Proceeds(c) ==
  \/ PortalTimeout(c) \/ TreeTimeout(c)
  \/ LookForState(c) \/ LookForShot(c)
  \/ Subscribe(c) \/ CallPortal(c) \/ HearAnother(c) \/ HearPicture(c) \/ HearRefusal(c)
  \/ Crop(c) \/ Fit(c)
  \/ Roots(c) \/ Open(c) \/ ReadChild(c) \/ Push(c) \/ WalkEnds(c)

Next ==
  \/ \E c \in Call : Proceeds(c) \/ Filter(c) \/ TakeHandle(c) \/ PortalFails(c) \/ Answers(c)
  \/ Event

Spec == Init /\ [][Next]_vars

FairSpec == Spec /\ \A c \in Call : WF_vars(Proceeds(c))

-----------------------------------------------------------------------------
Step == {"look", "filter", "subscribe", "call", "handle", "wait", "crop", "fit",
         "roots", "walk", "kids", "end"}

TypeOK ==
  /\ desk \in [Window -> Views]
  /\ focus \in Window \cup {None} /\ display \in Desktops
  /\ kids \in [Obj -> Seq(Obj)] /\ gone \subseteq Obj
  /\ events \in 0..MaxEvents /\ failures \in 0..MaxFailures
  /\ ask \in Plans /\ pc \in [Call -> Step]
  /\ win \in [Call -> Listings \cup {None}]
  /\ portal \in [Call -> {"none", "asked", "answered"}]
  /\ desktopSize \in Desktops \cup {0} /\ raw \in [Call -> Desktops \cup {0}]
  /\ picture \in [Call -> [of : Call \cup {None}, from : Nat, size : Nat]]
  /\ crop \in [Call -> [at : Nat, size : Nat]] /\ dims \in [Call -> Nat \X Nat]
  /\ offNote \in [Call -> BOOLEAN]
  /\ shot \in [Call -> {"none", "refused", "failed", "done"}]
  /\ access \in [Call -> {"none", "failed", "done"}]

(* A request that waits for the portal has every answer of the portal that *)
(* it has not looked at, even one from before it knew its handle, and the  *)
(* picture it takes is its own (screenshot.rs:203-292).                    *)
OwnAnswer ==
  \A c \in Call :
    /\ pc[c] \in {"handle", "wait"} /\ portal[c] = "answered" =>
         heard[c] # None /\ \E i \in DOMAIN heard[c] : heard[c][i].picture.of = c
    /\ pc[c] \in {"crop", "fit"} \/ shot[c] = "done" => picture[c].of = c

(* A picture that is returned has no more bytes than asked for and is not  *)
(* larger than what it shows (screenshot.rs:148-201).                      *)
FitsPayload ==
  \A c \in Call : shot[c] = "done" =>
    /\ Bytes(dims[c]) <= ask[c].opts.cap
    /\ dims[c][1] \in 1..Min({picture[c].size, ask[c].opts.width})
    /\ dims[c][2] \in 1..Min({Height, ask[c].opts.height})

(* A walk never tries, keeps or waits for more objects than it may have    *)
(* nodes; every node is below one that was read before it, one level       *)
(* deeper, and the levels come one after the other, so that a tree that is *)
(* cut off lacks its deepest nodes (atspi_tree.rs:158-195 and 292-352).    *)
TreeShaped ==
  \A c \in Call :
    LET w == walk[c]  n == walk[c].nodes
    IN  /\ w.tried + Len(w.queue) <= ask[c].nodes /\ Len(n) <= w.tried /\ w.reads >= 0
        /\ \A i \in 1..Len(n) :
             /\ n[i].parent \in 0..(i - 1) /\ n[i].depth <= ask[c].depth
             /\ n[i].depth = IF n[i].parent = 0 THEN 0 ELSE n[n[i].parent].depth + 1
             /\ \A j \in 1..i : n[j].depth <= n[i].depth

(* The objects at most so many levels below some.                          *)
Below(objs, depth) ==
  LET level[k \in 0..depth] == IF k = 0 THEN objs
                               ELSE UNION {ToSet(kids[o]) : o \in level[k - 1]}
  IN  UNION {level[k] : k \in 0..depth}

(* Every object is below one other at most, an application below none.     *)
Forest ==
  /\ \A o, p \in Obj : \A i \in DOMAIN FirstKids[o], j \in DOMAIN FirstKids[p] :
       FirstKids[o][i] = FirstKids[p][j] => o = p /\ i = j
  /\ \A o \in Obj : ToSet(FirstKids[o]) \cap ToSet(Apps) = {}
  /\ \A i, j \in DOMAIN Apps : Apps[i] = Apps[j] => i = j

(* When nothing changes and nothing fails a snapshot has every object in   *)
(* its reach, each once, or as many as it may have: the budgets of the     *)
(* search for the application and of the walk take nothing from it. And it *)
(* is of the window's process if that is on the bus at all                 *)
(* (atspi_tree.rs:292-352 and 644-701).                                    *)
WholeTree ==
  \A c \in Call : access[c] = "done" /\ events = 0 /\ failures = 0 /\ Forest =>
    LET n     == walk[c].nodes
        all   == Below(ToSet(walk[c].root), ask[c].depth)
        found == {n[i].obj : i \in 1..Len(n)}
    IN  /\ found \subseteq all /\ Cardinality(found) = Len(n)
        /\ Len(n) = Min({ask[c].nodes, Cardinality(all)})
        /\ PidOfWindow(c) # None /\ (\E o \in ToSet(Apps) : PidOf[o] = PidOfWindow(c)) =>
             \A o \in ToSet(walk[c].root) : PidOf[o] = PidOfWindow(c)

(* The compacted tree keeps the order and the ancestry of what it keeps:   *)
(* each node is below the last of its ancestors that was kept, only an     *)
(* application is below none, and the counts are those of the links        *)
(* (server.rs:4674-4738).                                                  *)
CompactLinks ==
  \A c \in Call : access[c] = "done" =>
    LET n == walk[c].nodes  t == Tree(c)
        above[i \in 0..Len(n)] == IF i = 0 \/ n[i].parent = 0 THEN {}
                                  ELSE {n[i].parent} \cup above[n[i].parent]
        kept  == {i \in 1..Len(n) : ShouldKeep(n[i])}
        New(i) == Cardinality(kept \cap (1..i))
    IN  /\ Len(t) = Cardinality(kept)
        /\ \A i \in kept :
             /\ t[New(i)].obj = n[i].obj
             /\ n[i].depth > 0 => /\ above[i] \cap kept # {}
                                  /\ t[New(i)].parent = New(Max(above[i] \cap kept))
        /\ \A j \in 1..Len(t) :
             /\ t[j].parent = 0 <=> t[j].depth = 0
             /\ t[j].count = Cardinality({k \in 1..Len(t) : t[k].parent = j})

(* A tree that is of no process of the window comes with a warning, unless *)
(* it is of too many applications, or nobody says of which process they    *)
(* are or the window is (server.rs:4802-4826).                             *)
Warns(c) == CrossProcess(PidOfWindow(c), pids[c])

Forewarned ==
  \A c \in Call : access[c] = "done" /\ PidOfWindow(c) # None
                   /\ Len(walk[c].root) \in 1..MaxPids =>
    \/ \E o \in ToSet(walk[c].root) : PidOf[o] \in {None, PidOfWindow(c)}
    \/ Warns(c)

(* A window that is not wholly in its picture comes with a note that says  *)
(* so, and no other does, as long as every capture had the same size: the  *)
(* note is made with the size of the last one (server.rs:3462-3494).       *)
NoteAgrees ==
  \A c \in Call :
    ToolOf(c) = "shot" /\ CropsToWindow(c) /\ ask[c].region = None /\ pc[c] = "fit"
      /\ (\A d \in Call : raw[d] \in {0, raw[c]}) =>
    (offNote[c] <=> picture[c].size < win[c].place.size)

IInv == OwnAnswer /\ FitsPayload /\ TreeShaped /\ WholeTree /\ CompactLinks /\ Forewarned
        /\ NoteAgrees

Consistent == TypeOK /\ IInv

(* Pictures and clicks agree on where a pixel is. What is reported of a    *)
(* cropped picture is where its pixels are; a picture of a window shows    *)
(* nothing else, a region nothing but that; and a click that is relative   *)
(* to the window lands on the pixel with these coordinates in its picture, *)
(* or in the region of it, as long as that capture's size is the last      *)
(* known (server.rs:2604-2653, 3127-3185, 4937-5001).                      *)
Extent(rect) == rect.at..(rect.at + rect.size - 1)

ShownAt(c) == Extent([at |-> picture[c].from, size |-> picture[c].size])

PixelsAgree ==
  \A c \in Call : pc[c] = "fit" \/ shot[c] = "done" =>
    LET map == ClickMap(win[c].place, desktopSize)
        first == IF ask[c].region = None THEN 0 ELSE Max({ask[c].region.at, 0})
    IN  /\ picture[c].size > 0
        /\ CropsToWindow(c) \/ ask[c].region # None =>
             crop[c] = [at |-> picture[c].from, size |-> picture[c].size]
        /\ Targeted(c) /\ ~ask[c].full =>
             /\ CropsToWindow(c)
             /\ ShownAt(c) \subseteq Extent(win[c].place)
             /\ desktopSize = raw[c] =>
                  /\ ask[c].region = None \/ ask[c].relative =>
                       \A r \in 0..(picture[c].size - 1) :
                         RelativeClick(map, first + r) = {picture[c].from + r}
                  /\ ask[c].region = None =>
                       RelativeClick(map, picture[c].size) = {}
        /\ ask[c].region # None /\ ~ask[c].relative =>
             ShownAt(c) \subseteq Extent(ask[c].region)

(* Every request ends: a portal that never answers and applications that   *)
(* never do are waited for no longer than a deadline, and the picture is   *)
(* shrunk only so often. But nothing limits how long the applications may  *)
(* take when they are listed to find the window's, or the portal for its   *)
(* call.                                                                   *)
EveryRequestEnds ==
  \A c \in Call : []<>(pc[c] \in {"end", "filter", "handle"})
=============================================================================
