---------------------------- MODULE Compositor ----------------------------
(***************************************************************************)
(* How one window of a WASM theme draws (src/themes/wasm): the resources   *)
(* of the guest (resources.rs), the canvas that skips a frame it has drawn *)
(* (canvas.rs), the composition surface and the decorations behind it      *)
(* (composition.rs), and the retries after a lost device (window.rs).      *)
(*                                                                         *)
(* A frame is the resource it draws, a scale stands for everything that    *)
(* changes the size of the surface, and the decorations are one layer with *)
(* its generation.  A resource is what was made, a handle the name the     *)
(* guest has for it: bitmaps are kept by handle, so that what is drawn     *)
(* rests on no handle being given twice.                                   *)
(*                                                                         *)
(* The window is the main one or one of the auxiliary ones.  A step that   *)
(* draws has several ends, as each call of it may fail: the operators that *)
(* are sets are the ends of what they are named for.                       *)
(***************************************************************************)
EXTENDS Naturals, FiniteSets

CONSTANTS
  None,        \* no resource, no frame, nothing on the surface
  Scales,      \* the resolutions of the monitors
  MaxMade,     \* bound on the resources made
  Quota,       \* resources that may be alive (MAX_COUNT)
  MaxRevision, \* bound on the generations of the layer
  Retries,     \* device losses in a row that are retried
  MaxFaults    \* bound on the failures

\* What is assumed of the constants.
CompositorAssumption ==
  /\ None \notin Scales \cup 1 .. MaxMade /\ Scales # {}
  /\ {MaxMade, Quota, MaxRevision, Retries, MaxFaults} \subseteq Nat

VARIABLES
  auxiliary, \* the window is an AuxWindow, not the Window
  made,      \* resources made so far
  table,     \* Resources.table: handle to resource
  frame,     \* the commands the window is to show: a handle and its resource
  scene,     \* the generation of the layer the window is to show, 0 for none
  revision,  \* HostState.motion_revision
  visible,   \* the window is to be seen, and is on the screen (visible, shown)
  dirty,     \* the window has an update region: a WM_PAINT is due
  canvas,    \* Canvas: the presenter, the scale, last_frame, the bitmaps
  surface,   \* what is on the composition surface, and for which scale
  tree,      \* the decoration in the visual tree: its generation, and whose visual it is
  scale,     \* AuxWindow.dpi
  recovery,  \* Recovery, RETRY_TIMER and its message
  failed,    \* the window reported an error
  faults     \* failures so far

guestVars == <<made, table, frame, scene, revision, visible>>
workVars == <<canvas, surface, tree, recovery, failed, faults>>
vars == <<auxiliary, guestVars, dirty, workVars, scale>>

Handles == 1 .. MaxMade
Resources == 1 .. MaxMade
NoFrame == [handle |-> None, resource |-> None]

(***************************************************************************)
(* The resources of the guest.                                             *)
(***************************************************************************)
\* What the table, a frame and the frame on record hold.
Holding(f, last) ==
  ({table[h] : h \in Handles} \cup {f.resource}
    \cup (IF last = None THEN {} ELSE {last.resource})) \ {None}

\* A frame holds the resource it draws, whatever becomes of its handle.
Alive == Holding(frame, canvas.last)

\* Resources::capacity.
Capacity == Cardinality(Alive) < Quota

\* Mutant of NextHandle: a handle that was released is given again.
FreeHandle == CHOOSE h \in Handles : table[h] = None /\ \A g \in 1 .. h - 1 : table[g] # None

\* Resources::insert never gives a handle twice.
NextHandle == made + 1

\* Every kind of resource is checked before it is made and again when it is
\* entered; one that cannot be made takes nothing.
Make ==
  /\ ~failed /\ made < MaxMade /\ Capacity
  /\ made' = made + 1
  /\ table' = [table EXCEPT ![NextHandle] = made + 1]
  /\ UNCHANGED <<auxiliary, frame, scene, revision, visible, dirty, workVars, scale>>

Release(h) ==
  /\ ~failed /\ table[h] # None
  /\ table' = [table EXCEPT ![h] = None]
  /\ UNCHANGED <<auxiliary, made, frame, scene, revision, visible, dirty, workVars, scale>>

\* A callback that draws a layer anew and is rolled back gives its generation
\* to nobody.
RollBack ==
  /\ ~failed /\ revision < MaxRevision /\ revision' = revision + 1
  /\ UNCHANGED <<auxiliary, made, table, frame, scene, visible, dirty, workVars, scale>>

\* What a Present may hand over: nothing, the frame as it is, or one that draws a
\* resource of the table; the layer as it is, none, or one that is drawn anew.
Frames == {NoFrame, frame} \cup {[handle |-> h, resource |-> table[h]] : h \in {g \in Handles : table[g] # None}}
Layers == {0, scene} \cup (1 .. MaxRevision \cap {revision + 1})

\* A Present is handed over.
Presents(f, l, v) ==
  /\ frame' = f /\ scene' = l /\ visible' = v /\ dirty' = v
  /\ revision' = IF l > revision THEN l ELSE revision
  /\ UNCHANGED <<auxiliary, made, table>>

(***************************************************************************)
(* The canvas.                                                             *)
(***************************************************************************)
NewSurface == [frame |-> None, scale |-> None]
Bare == [generation |-> 0, visual |-> 0]

NoCanvas(at) == [presenter |-> FALSE, scale |-> at, last |-> None, panel |-> None,
                 bitmaps |-> [h \in Handles |-> None]]

\* The work in hand, as one value.
Now == [canvas |-> canvas, surface |-> surface, tree |-> tree,
        recovery |-> recovery, failed |-> failed, faults |-> faults]

Put(n) ==
  /\ canvas' = n.canvas /\ surface' = n.surface /\ tree' = n.tree
  /\ recovery' = n.recovery /\ failed' = n.failed /\ faults' = n.faults

\* Another canvas, with nothing drawn.
Emptied(n, c) == [n EXCEPT !.canvas = c, !.surface = NewSurface, !.tree = Bare]

\* Canvas::ensure_target takes the scale over, whatever the canvas has drawn.
Targeted(n, at) ==
  IF n.canvas.presenter THEN [n EXCEPT !.canvas.scale = at]
  ELSE Emptied(n, [NoCanvas(at) EXCEPT !.presenter = TRUE])

\* Presenter::set_panel: a surface that gets another size has nothing on it.
Sized(n, at) ==
  [n EXCEPT !.canvas.panel = at, !.surface = IF n.canvas.panel # at THEN NewSurface ELSE @]

\* Canvas::set_panel.
Panelled(n, at) ==
  Sized([n EXCEPT !.canvas.last = IF n.canvas.scale # at THEN None ELSE @], at)

\* Canvas::replay: the bitmaps whose resource is gone are dropped first, and
\* a bitmap is made once for its handle.
Bitmaps(c, f) ==
  LET kept == [h \in Handles |-> IF c.bitmaps[h] \in Holding(f, c.last) THEN c.bitmaps[h] ELSE None]
  IN  IF f.handle = None \/ kept[f.handle] # None THEN kept
      ELSE [kept EXCEPT ![f.handle] = f.resource]

Replayed(n, f, at) ==
  IF n.canvas.last = f THEN n
  ELSE LET bitmaps == Bitmaps(n.canvas, f)
       IN  [n EXCEPT !.canvas.last = f, !.canvas.bitmaps = bitmaps,
                     !.surface = [frame |-> IF f.handle = None THEN None ELSE bitmaps[f.handle],
                                  scale |-> at]]

\* Canvas::set_layers and Presenter::set_layers: a layer keeps its visual, with
\* the animations that run on it, while its generation is the same.
Layered(n, l) ==
  [n EXCEPT !.tree = IF l = 0 THEN Bare
                     ELSE IF @.generation = l THEN @
                     ELSE [generation |-> l, visual |-> l]]

\* Canvas::resize: what was drawn at another scale is drawn again.
Resized(n, to) ==
  [n EXCEPT !.canvas.last = IF n.canvas.scale # to THEN None ELSE @, !.canvas.scale = to]

(***************************************************************************)
(* What the window does with it.                                           *)
(***************************************************************************)
\* Window::fail.
Fails(n) == IF n.faults < MaxFaults THEN {[n EXCEPT !.failed = TRUE, !.faults = @ + 1]} ELSE {}

\* Recovery::failed for a device lost: the wait, and the timer that is set anew.
Waiting(r) == [r EXCEPT !.failures = @ + 1, !.waiting = TRUE, !.retry = TRUE]

\* graphics_error gives the target up.  A loss is tried again after a while, a few
\* times; every other error, and a timer that cannot be set, fails the theme.
GraphicsError(n) ==
  LET gone == Emptied(n, NoCanvas(n.canvas.scale))
  IN  Fails(gone)
      \cup IF n.faults < MaxFaults /\ n.recovery.failures < Retries
           THEN {[gone EXCEPT !.recovery = Waiting(@), !.faults = @ + 1]}
           ELSE {}

\* AuxWindow::paint and Window::paint, which end the wait when all went well.
Painted(n, f, l, at) == Layered(Replayed(Panelled(Targeted(n, at), at), f, at), l)

Succeeded(n) == [n EXCEPT !.recovery.failures = 0, !.recovery.waiting = FALSE]

Painting(n, f, l, at) == {Succeeded(Painted(n, f, l, at))} \cup GraphicsError(n)

\* Canvas::clear_layers, whose failure the main window does not survive.
Clearing(n) ==
  {[n EXCEPT !.tree = Bare]}
  \cup (IF ~n.canvas.presenter THEN {} ELSE IF auxiliary THEN GraphicsError(n) ELSE Fails(n))

Resizing(n, to) == {Resized(n, to)} \cup GraphicsError(Resized(n, to))

\* apply_side_effects, sync_auxiliary and sync_visibility: a window that comes to the
\* screen is painted first, and an auxiliary one whenever it has a new frame; neither
\* asks whether a retry is waited for.  A window that cannot take its place fails the
\* theme at once, which ends the behaviour and needs no step.
Syncing(n, f, l, v, at) ==
  IF ~v THEN Clearing(n)
  ELSE IF auxiliary \/ ~visible THEN Painting(n, f, l, at)
  ELSE {n}

\* A callback presents, and the window is brought up to it.
Commit(f, l, v) ==
  /\ ~failed
  /\ Presents(f, l, v)
  /\ \E n \in Syncing(Now, f, l, v, scale) : Put(n)
  /\ UNCHANGED scale

\* Window::hide: the layers go, and nothing is waited for.  An auxiliary window is
\* hidden by a Commit that shows nothing, and waits on.
Hide ==
  /\ ~failed /\ ~auxiliary
  /\ frame' = NoFrame /\ scene' = 0 /\ visible' = FALSE /\ dirty' = FALSE
  /\ \E n \in Clearing(Now) :
       Put([n EXCEPT !.recovery.waiting = FALSE, !.recovery.retry = FALSE])
  /\ UNCHANGED <<auxiliary, made, table, revision, scale>>

\* WM_PAINT, which alone respects the wait; it takes the update region all the same.
Paint ==
  /\ ~failed /\ visible
  /\ dirty' = FALSE
  /\ IF recovery.waiting THEN UNCHANGED workVars
     ELSE \E n \in Painting(Now, frame, scene, scale) : Put(n)
  /\ UNCHANGED <<auxiliary, guestVars, scale>>

\* RETRY_TIMER expires.
Expire ==
  /\ ~failed /\ recovery.retry /\ ~recovery.posted
  /\ recovery' = [recovery EXCEPT !.posted = TRUE]
  /\ UNCHANGED <<auxiliary, guestVars, dirty, canvas, surface, tree, failed, faults, scale>>

\* Mutant of Retry: the wait ends, and nobody asks for the drawing.
RetryQuietly ==
  /\ ~failed /\ recovery.posted
  /\ recovery' = [recovery EXCEPT !.waiting = FALSE, !.retry = FALSE, !.posted = FALSE]
  /\ UNCHANGED <<auxiliary, guestVars, dirty, canvas, surface, tree, failed, faults, scale>>

\* WM_TIMER of RETRY_TIMER, by a loop that dispatches it.  A message that outlived the
\* timer it was posted for ends the wait of another.
Retry ==
  /\ ~failed /\ recovery.posted
  /\ recovery' = [recovery EXCEPT !.waiting = FALSE, !.retry = FALSE, !.posted = FALSE]
  /\ dirty' = visible
  /\ UNCHANGED <<auxiliary, guestVars, canvas, surface, tree, failed, faults, scale>>

\* The renderer's loop takes the message and does not dispatch it; RETRY_TIMER goes on.
RetryIgnored ==
  /\ ~failed /\ recovery.posted
  /\ recovery' = [recovery EXCEPT !.posted = FALSE]
  /\ UNCHANGED <<auxiliary, guestVars, dirty, canvas, surface, tree, failed, faults, scale>>

\* WM_SIZE.
Resize ==
  /\ ~failed
  /\ \E n \in Resizing(Now, scale) : Put(n)
  /\ UNCHANGED <<auxiliary, guestVars, dirty, scale>>

\* WM_DPICHANGED: the window takes the scale, releases the mouse, takes its place and
\* resizes its canvas.
ScaleChanges(to) ==
  /\ ~failed /\ to # scale
  /\ scale' = to /\ dirty' = visible
  /\ \E n \in Resizing(Now, to) : Put(n)
  /\ UNCHANGED <<auxiliary, guestVars>>

\* Releasing the mouse calls the guest back, and a guest that presents then has its
\* auxiliary window painted before the canvas is resized.
ScaleChangesHeld(to, f, l, v) ==
  /\ ~failed /\ to # scale /\ auxiliary /\ visible
  /\ scale' = to
  /\ Presents(f, l, v)
  /\ \E n \in Syncing(Now, f, l, v, to) : \E m \in Resizing(n, to) : Put(m)

(***************************************************************************)
(* Specification.                                                          *)
(***************************************************************************)
Init ==
  /\ auxiliary \in BOOLEAN
  /\ made = 0 /\ table = [h \in Handles |-> None]
  /\ frame = NoFrame /\ scene = 0 /\ revision = 0 /\ visible = FALSE /\ dirty = FALSE
  /\ scale \in Scales
  /\ canvas = [NoCanvas(scale) EXCEPT !.presenter = TRUE]
  /\ surface = NewSurface /\ tree = Bare
  /\ recovery = [failures |-> 0, waiting |-> FALSE, retry |-> FALSE, posted |-> FALSE]
  /\ failed = FALSE /\ faults = 0

Next ==
  \/ Make \/ RollBack \/ Hide \/ Paint \/ Expire \/ Retry \/ RetryIgnored \/ Resize
  \/ \E h \in Handles : Release(h)
  \/ \E to \in Scales : ScaleChanges(to)
  \/ \E f \in Frames, l \in Layers, v \in BOOLEAN :
       Commit(f, l, v) \/ \E to \in Scales : ScaleChangesHeld(to, f, l, v)

Spec == Init /\ [][Next]_vars

(***************************************************************************)
(* Properties.                                                             *)
(***************************************************************************)
TypeOK ==
  /\ auxiliary \in BOOLEAN /\ visible \in BOOLEAN /\ dirty \in BOOLEAN
  /\ made \in 0 .. MaxMade /\ table \in [Handles -> Resources \cup {None}]
  /\ frame \in [handle : Handles \cup {None}, resource : Resources \cup {None}]
  /\ scene \in 0 .. MaxRevision /\ tree \in [generation : 0 .. MaxRevision, visual : 0 .. MaxRevision]
  /\ revision \in 0 .. MaxRevision
  /\ scale \in Scales /\ failed \in BOOLEAN /\ faults \in 0 .. MaxFaults
  /\ recovery \in [failures : 0 .. Retries, waiting : BOOLEAN, retry : BOOLEAN, posted : BOOLEAN]

\* The memory of the guest is bounded: a resource counts while a frame holds it,
\* though its handle was released (Resources::capacity, Resource::drop).
QuotaHolds == Cardinality(Alive) <= Quota

\* What is drawn is the resource the frame holds: a bitmap that is kept for
\* a handle is never that of another resource (Canvas::replay, Resources::insert).
DrawsItsResource ==
  canvas.last # None /\ surface # NewSurface => surface.frame = canvas.last.resource

\* A layer that takes the place of another never moves with its animations
\* (Presenter::set_layers).
VisualIsItsOwn == tree.visual = tree.generation

\* A window that waits for its device has the timer that ends the wait, however many
\* paints, losses, sizes, hides and late messages come in between (graphics_error, hide,
\* sync_auxiliary, dispatch).
WaitIsTimed == recovery.waiting => recovery.retry \/ failed

\* A window on the screen has drawn what it is to show, or will: it has a WM_PAINT
\* coming or waits for its device (graphics_error, sync_visibility, dispatch).
DrawnOrDue ==
  visible /\ ~failed =>
    dirty \/ recovery.waiting \/ (canvas.last = frame /\ tree.generation = scene)

\* What is drawn, in types and within the quota, is drawn with its own bitmaps and
\* visuals.
PicturesAreOwn == TypeOK /\ QuotaHolds /\ DrawsItsResource /\ VisualIsItsOwn
=============================================================================
