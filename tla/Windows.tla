------------------------------- MODULE Windows -------------------------------
(***************************************************************************)
(* The windows of the page: the dialog store of src/hooks/dialog.ts and    *)
(* the geometry that src/components/GlobalDialogStack.vue gives each       *)
(* window.  The two axes are handled alike, so one is modelled: a window   *)
(* has a size and a place `at', of a viewport of a varying size.           *)
(***************************************************************************)
EXTENDS Integers, Sequences, SequencesExt

CONSTANTS
  Key,           \* the windows of the page
  KeepAlive,     \* those that stay on the stack when they are closed
  MinSize, DefaultSize,   \* of each window
  Viewports,     \* the sizes the viewport takes; even, so that halves are whole
  Grips,         \* where the mouse is pressed
  Pointer,       \* where it is moved to
  Breakpoint,    \* mobileDeviceBreakPoint
  NoWindow       \* no key, and no geometry

\* The geometries of a window.
Shapes == [size : Int, at : Int, restore : {<<>>} \cup (Int \X Int)]

\* What the constants have to satisfy.
WindowsAssumption ==
  /\ KeepAlive \subseteq Key /\ NoWindow \notin Key \cup Shapes
  /\ MinSize \in [Key -> Nat] /\ DefaultSize \in [Key -> Nat]
  /\ Viewports \subseteq Nat /\ Grips \cup Pointer \subseteq Int

VARIABLES
  stack,        \* the keys of dialog.stack, the topmost one last
  visible,      \* the windows that are shown
  geometry,     \* states[key]
  viewport,     \* window.innerWidth
  positioned,   \* userPositioned
  gesture,      \* dragState or resizeState
  submitted,    \* the windows that close when a request of theirs is answered
  placed        \* history: the windows a resize or a restore put where they are

layout == <<stack, visible, geometry>>
windowVars == <<layout, viewport, positioned, gesture, submitted, placed>>

Larger(a, b)   == IF a > b THEN a ELSE b
Fit(x, lo, hi) == IF Larger(x, lo) < hi THEN Larger(x, lo) ELSE hi     \* clamp

Opened    == Range(stack)
Mobile(v) == v < Breakpoint

\* createGeometry
Fresh(k, v) ==
  LET size == IF Mobile(v) THEN v ELSE Fit(DefaultSize[k], MinSize[k], Larger(MinSize[k], v)) IN
  [size |-> size, at |-> IF Mobile(v) THEN 0 ELSE (v - size) \div 2, restore |-> <<>>]

Maximized(g) == g.restore # <<>>

\* Keeps a place inside the viewport.
Inside(g, v) == [g EXCEPT !.at = Fit(@, 0, Larger(0, v - g.size))]

\* The watcher of the stack: every window on it has a geometry, and a shown one
\* is inside.
Watched(geo, keys, shown) ==
  [k \in Key |-> IF k \notin keys THEN NoWindow
                 ELSE IF geo[k] = NoWindow THEN Fresh(k, viewport)
                 ELSE IF k \in shown THEN Inside(geo[k], viewport)
                 ELSE geo[k]]

\* A window is on the stack once.
TypeOK ==
  /\ stack \in Seq(Key) /\ \A i, j \in DOMAIN stack : stack[i] = stack[j] => i = j
  /\ visible \subseteq Opened
  /\ DOMAIN geometry = Key /\ \A k \in Key : geometry[k] = NoWindow \/ geometry[k] \in Shapes
  /\ viewport \in Viewports
  /\ positioned \cup submitted \cup placed \subseteq Key
  /\ gesture.key \in Key \cup {NoWindow}

Idle == [key |-> NoWindow, side |-> "move", start |-> 0, origin |-> 0, moved |-> FALSE]

Init ==
  /\ stack = <<>> /\ visible = {}
  /\ geometry = [k \in Key |-> NoWindow]
  /\ viewport \in Viewports
  /\ positioned = {} /\ gesture = Idle /\ submitted = {} /\ placed = {}

-----------------------------------------------------------------------------
(* The store *)

\* rise
Raised(k) == Append(RemoveFirst(stack, k), k)

\* The stack becomes s and the windows of shown are the visible ones.
Restack(s, shown) ==
  /\ stack' = s /\ visible' = shown
  /\ geometry' = Watched(geometry, Range(s), shown)
  /\ placed' = placed \cap Range(s)

\* open: a window that is there is shown again and rises.
Open(k) ==
  /\ Restack(Raised(k), visible \cup {k})
  /\ UNCHANGED <<viewport, positioned, gesture, submitted>>

\* The stack that a closed window has left, or is hidden on.
Without(k) == IF k \in KeepAlive THEN stack ELSE RemoveFirst(stack, k)

\* close with the key of the window
Close(k) ==
  /\ k \in visible
  /\ Restack(Without(k), visible \ {k})
  /\ UNCHANGED <<viewport, positioned, gesture, submitted>>

\* A press anywhere on a window makes it rise.
Rise(k) ==
  /\ k \in visible
  /\ Restack(Raised(k), visible)
  /\ UNCHANGED <<viewport, positioned, gesture, submitted>>

\* The form of a window is sent; its button needs a press, which makes it rise.
Submit(k) ==
  /\ k \in visible \ KeepAlive /\ Last(stack) = k
  /\ submitted' = submitted \cup {k}
  /\ UNCHANGED <<layout, viewport, positioned, gesture, placed>>

\* The answer calls close with no key, which takes the last window off the stack.
Answered(k) ==
  /\ k \in submitted
  /\ submitted' = submitted \ {k}
  /\ IF stack = <<>>
       THEN UNCHANGED <<layout, placed>>
       ELSE Restack(Front(stack), visible \ {Last(stack)})
  /\ UNCHANGED <<viewport, positioned, gesture>>

\* toggleLayout: every window is closed and the manager opened in one turn, so
\* that the watcher sees a stack the manager never left.
ToggleLayout(k) ==
  /\ k \in visible \cap KeepAlive
  /\ Restack(<<k>>, {k})
  /\ UNCHANGED <<viewport, positioned, gesture, submitted>>

-----------------------------------------------------------------------------
(* The viewport *)

\* The watcher of allowResize, when the device type changes.
Refit(g, k, v) ==
  IF Mobile(v) = Mobile(viewport) THEN g
  ELSE IF Mobile(v) THEN [size |-> v, at |-> 0, restore |-> <<>>]
  ELSE LET size == Fit(g.size, MinSize[k], Larger(MinSize[k], v)) IN
       [size |-> size, at |-> (v - size) \div 2, restore |-> <<>>]

\* Mutant of Reposition: a window placed by hand is left where it is.
RepositionKept(g, k, v, byHand) ==
  IF Maximized(g) THEN [g EXCEPT !.size = v, !.at = 0]
  ELSE IF k \notin byHand THEN Fresh(k, v) ELSE g

\* repositionAll
Reposition(g, k, v, byHand) ==
  IF Maximized(g) THEN [g EXCEPT !.size = v, !.at = 0]
  ELSE IF k \notin byHand THEN Fresh(k, v)
  ELSE Inside([g EXCEPT !.size = Fit(@, MinSize[k], Larger(MinSize[k], v))], v)

\* The viewport changes.  The watcher runs between the two listeners.
ViewportChanges(v) ==
  /\ v # viewport
  /\ viewport' = v
  /\ positioned' = IF Mobile(viewport) /\ ~Mobile(v) THEN positioned \ Opened ELSE positioned
  /\ geometry' = [k \in Key |-> IF geometry[k] = NoWindow THEN NoWindow
                                ELSE Reposition(Refit(geometry[k], k, v), k, v, positioned')]
  /\ placed' = {k \in placed : Maximized(geometry[k])}
  /\ UNCHANGED <<stack, visible, gesture, submitted>>

-----------------------------------------------------------------------------
(* Gestures *)

\* toggleMaximize
ToggleMaximize(k) ==
  LET g == geometry[k] IN
  /\ k \in visible /\ ~Mobile(viewport)
  /\ geometry' = [geometry EXCEPT ![k] =
       IF Maximized(g) THEN [size |-> g.restore[1], at |-> g.restore[2], restore |-> <<>>]
       ELSE [size |-> viewport, at |-> 0, restore |-> <<g.size, g.at>>]]
  /\ placed' = IF Maximized(g) THEN placed \cup {k} ELSE placed
  /\ UNCHANGED <<stack, visible, viewport, positioned, gesture, submitted>>

\* startDrag and startResize; the press also makes the window rise.
Press(k, side, x) ==
  /\ k \in visible /\ ~Mobile(viewport) /\ ~Maximized(geometry[k]) /\ gesture = Idle
  /\ gesture' = [key |-> k, side |-> side, start |-> x, origin |-> geometry[k].at, moved |-> FALSE]
  /\ Restack(Raised(k), visible)
  /\ UNCHANGED <<viewport, positioned, submitted>>

\* onDragMove
Dragged(g, x) == Inside([g EXCEPT !.at = gesture.origin + (x - gesture.start)], viewport)

\* RESIZE_HANDLERS: left (top), then right (bottom).
Resized(g, k, x) ==
  LET most == viewport IN
  IF gesture.side = "left"
    THEN LET size == IF x > 0 THEN Fit(g.at + g.size - x, MinSize[k], most) ELSE g.size IN
         [g EXCEPT !.size = size,
                   !.at = IF size > MinSize[k] /\ size < most
                            THEN Fit(x, 0, viewport - size) ELSE @]
    ELSE [g EXCEPT !.size = Fit(x - g.at, MinSize[k], most)]

\* The pointer moves further than GESTURE_THRESHOLD, or has done so before.
Move(x) ==
  LET k == gesture.key IN
  /\ k # NoWindow /\ geometry[k] # NoWindow
  /\ gesture.moved \/ x # gesture.start
  /\ gesture' = [gesture EXCEPT !.moved = TRUE]
  /\ positioned' = IF gesture.moved THEN positioned ELSE positioned \cup {k}
  /\ geometry' = [geometry EXCEPT ![k] =
                    IF gesture.side = "move" THEN Dragged(@, x) ELSE Resized(@, k, x)]
  /\ placed' = IF gesture.side = "move" THEN placed \ {k} ELSE placed \cup {k}
  /\ UNCHANGED <<stack, visible, viewport, submitted>>

Release ==
  /\ gesture # Idle
  /\ gesture' = Idle
  /\ UNCHANGED <<layout, viewport, positioned, submitted, placed>>

Next ==
  \/ \E k \in Key : \/ Open(k) \/ Close(k) \/ Rise(k) \/ Submit(k) \/ Answered(k)
                    \/ ToggleLayout(k) \/ ToggleMaximize(k)
                    \/ \E side \in {"move", "left", "right"}, x \in Grips : Press(k, side, x)
  \/ \E v \in Viewports : ViewportChanges(v)
  \/ \E x \in Pointer : Move(x)
  \/ Release

Spec == Init /\ [][Next]_windowVars

-----------------------------------------------------------------------------
\* "No panel can end up ... half off-screen without an explicit gesture": a
\* window that fits into the viewport is inside it, whatever was opened, dragged,
\* closed and opened again while the viewport changed, unless a resize or a
\* restore put it where it is.
InView == \A k \in visible \ placed :
  geometry[k].size <= viewport =>
    geometry[k].at >= 0 /\ geometry[k].at + geometry[k].size <= viewport

-----------------------------------------------------------------------------
\* The invariant of its proof: every window of the stack has a geometry, and what is
\* shown is on the stack.
Gestures == [key : Key \cup {NoWindow}, side : {"move", "left", "right"},
             start : Int, origin : Int, moved : BOOLEAN]

WindowsInv ==
  /\ visible \subseteq Opened /\ Opened \subseteq Key /\ stack \in Seq(Key)
  /\ viewport \in Viewports
  /\ geometry \in [Key -> Shapes \cup {NoWindow}]
  /\ \A k \in Opened : geometry[k] # NoWindow
  /\ gesture \in Gestures
  /\ InView
================================================================================
