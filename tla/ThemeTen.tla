------------------------------ MODULE ThemeTen ------------------------------
(***************************************************************************)
(* The `ten` theme: one native window, a strip that is as wide as the      *)
(* measured texts of its candidates, or the small square of the mode       *)
(* indicator (themes/ten/src/mod.rs, logic.rs).                            *)
(*                                                                         *)
(* Moving the window may change its DPI before the call returns: the       *)
(* system sends WM_DPICHANGED and WM_SIZE to the window procedure inside   *)
(* SetWindowPos, while Window::position is on the stack.  A size and a     *)
(* picture are therefore named by the content and the DPI they are for.    *)
(***************************************************************************)
EXTENDS Naturals, Sequences

CONSTANTS
    Dpis,           \* the DPIs of the monitors
    MaxContent,     \* bound: contents presented
    MaxFaults,      \* bound: failures of the graphics and of the system
    Retries,        \* lost devices in a row that are tried again (3 in the code)
    None

Hits == {"item", "next", "emoji"}

Palettes == {"light", "dark"}

VARIABLES
    system,     \* the system's appearance
    palette,    \* App::palette
    content,    \* Content: the view's identity, shape and enabled controls
    gesture,    \* Gesture: the control pressed and the one under the mouse
    captured,   \* whether the window has the mouse
    dpi,        \* Window::dpi
    size,       \* what the window's size is for
    target,     \* Graphics::target: what its size is for, or None
    recovery,   \* Recovery and its timer
    shown,      \* whether the window is on the screen
    dirty,      \* whether a WM_PAINT is due
    pixels,     \* what was drawn last
    astray,     \* history: three monitors in a row changed the DPI under a move
    sent,       \* the action this message sent, and the content it was of
    faults,     \* failures so far
    error       \* Window::error: the theme is over

surface == <<size, target, dpi, astray>>
vars == <<system, palette, content, gesture, captured, surface, recovery, shown,
          dirty, pixels, sent, faults, error>>

Contents == [id : 1..MaxContent, shape : {"strip", "square"}, enabled : SUBSET Hits]

Sizes == [id : 0..MaxContent, dpi : Dpis]

\* What is assumed of the constants.
TenAssumption ==
    /\ Dpis # {} /\ Dpis \subseteq Nat
    /\ MaxContent \in Nat /\ MaxFaults \in Nat /\ Retries \in Nat
    /\ None \notin Hits \cup Contents \cup Sizes

NoGesture == [pressed |-> None, hovered |-> None]

Calm == [failures |-> 0, waiting |-> FALSE, timed |-> FALSE]

\* The controls of the strip; the square has none (Layout::new, mode_indicator).
Cells == IF content # None /\ content.shape = "strip" THEN Hits ELSE {}

\* The page controls and the items have flags; the emoji panel is always there.
Enabled(c, hit) == hit = "emoji" \/ hit \in c.enabled

-----------------------------------------------------------------------------
(* The pieces of a handler.  Each says what it leaves of some variables. *)

Fails == error' = TRUE

\* Window::graphics_error.
Breaks(cause) ==
    /\ target' = None
    /\ IF cause = "lost" /\ recovery.failures < Retries
       THEN /\ recovery' = [failures |-> recovery.failures + 1, waiting |-> TRUE, timed |-> TRUE]
            /\ UNCHANGED error
       ELSE Fails /\ UNCHANGED recovery

Faulty == faults < MaxFaults /\ faults' = faults + 1

\* Window::paint, of the content and the gesture the handler leaves; the
\* target it makes has the window's size.
Paints(c, g, at) ==
    \/ /\ pixels' = [id |-> IF c = None THEN 0 ELSE c.id, hovered |-> g.hovered,
                     palette |-> palette']
       /\ target' = IF at.target = None THEN at.size ELSE at.target
       /\ recovery' = [recovery EXCEPT !.failures = 0, !.waiting = FALSE]
       /\ UNCHANGED <<faults, error>>
    \/ \E cause \in {"lost", "other"} : Faulty /\ Breaks(cause) /\ UNCHANGED pixels

\* The DPIs a move of the window goes through: it starts at the window's own
\* and ends where one call leaves it as it was, or after three calls.
From(s) == {Append(s, d) : d \in Dpis}
Keeps(s) == s[Len(s)] = s[Len(s) - 1]
More(S) == {s \in S : Keeps(s)} \cup UNION {From(s) : s \in {s \in S : ~Keeps(s)}}

Walks == More(More(From(<<dpi>>)))

\* Window::position: every call sizes the window for the DPI before it, and
\* the messages sent inside the call set the DPI and the target's size and do
\* not move the window again.
Placed(c) ==
    {LET n == Len(w)
     IN  [size |-> [id |-> c.id, dpi |-> w[n - 1]], dpi |-> w[n], astray |-> ~Keeps(w),
          target |-> IF target = None THEN None ELSE [id |-> c.id, dpi |-> w[n]]] :
        w \in Walks}

Settled(p) == size' = p.size /\ dpi' = p.dpi /\ astray' = p.astray

-----------------------------------------------------------------------------
(* ThemeBackend. *)

Quiet == sent' = None

\* Window::render of the content shown: the window moves and keeps its gesture,
\* unless the move changed the DPI.
RenderMoved ==
    /\ ~error /\ content # None
    /\ \E p \in Placed(content) :
        /\ Settled(p) /\ target' = p.target
        /\ IF p.dpi # dpi
           THEN gesture' = NoGesture /\ captured' = FALSE /\ dirty' = shown
           ELSE UNCHANGED <<gesture, captured, dirty>>
    /\ Quiet
    /\ UNCHANGED <<system, palette, content, recovery, shown, pixels, faults, error>>

\* Window::render of another content: measured, placed, and drawn before it
\* is shown if the window was hidden.
RenderNew ==
    /\ ~error
    /\ (IF content = None THEN pixels.id ELSE content.id) < MaxContent
    /\ gesture' = NoGesture /\ captured' = FALSE
    /\ \E shape \in {"strip", "square"}, enabled \in SUBSET {"item", "next"} :
        content' = [id |-> (IF content = None THEN pixels.id ELSE content.id) + 1,
                    shape |-> shape, enabled |-> enabled]
    /\ \E p \in Placed(content') :
        /\ Settled(p)
        /\ UNCHANGED <<system, palette>>
        /\ IF content = None
           THEN Paints(content', NoGesture, p)
           ELSE target' = p.target /\ UNCHANGED <<recovery, pixels, faults, error>>
    /\ shown' = TRUE /\ dirty' = TRUE
    /\ Quiet

\* A text cannot be measured, or the window not placed: the error is returned,
\* and the renderer ends.
RenderFails ==
    /\ ~error /\ Faulty /\ Fails
    /\ gesture' = NoGesture /\ captured' = FALSE
    /\ Quiet
    /\ UNCHANGED <<system, palette, content, surface, recovery, shown, dirty, pixels>>

\* Window::hide, asked for or for a view that shows nothing.
Hide ==
    /\ ~error /\ content # None
    /\ gesture' = NoGesture /\ captured' = FALSE
    /\ content' = None /\ shown' = FALSE /\ dirty' = FALSE
    /\ recovery' = [recovery EXCEPT !.waiting = FALSE, !.timed = FALSE]
    /\ Quiet
    /\ UNCHANGED <<system, palette, surface, pixels, faults, error>>

RefreshAppearance ==
    /\ ~error
    /\ palette' = system
    /\ dirty' = shown
    /\ Quiet
    /\ UNCHANGED <<system, content, gesture, captured, surface, recovery, shown, pixels,
                   faults, error>>

SystemChanges ==
    /\ ~error
    /\ \E p \in Palettes : p # system /\ system' = p
    /\ Quiet
    /\ UNCHANGED <<palette, content, gesture, captured, surface, recovery, shown, dirty,
                   pixels, faults, error>>

-----------------------------------------------------------------------------
(* The window procedure. *)

\* WM_PAINT.
Paint ==
    /\ ~error /\ dirty
    /\ dirty' = FALSE
    /\ UNCHANGED palette
    /\ IF recovery.waiting
       THEN UNCHANGED <<target, recovery, pixels, faults, error>>
       ELSE Paints(content, gesture, [size |-> size, target |-> target])
    /\ Quiet
    /\ UNCHANGED <<system, content, gesture, captured, size, dpi, astray, shown>>

\* WM_DPICHANGED outside a move: the window is placed for its new DPI, if it
\* shows anything, and its target follows it.
DpiChanged ==
    /\ ~error
    /\ gesture' = NoGesture /\ captured' = FALSE /\ dirty' = shown
    /\ \E d \in Dpis \ {dpi} :
        IF content = None
        THEN /\ dpi' = d
             /\ target' = IF target = None THEN None ELSE [target EXCEPT !.dpi = d]
             /\ UNCHANGED <<size, astray>>
        ELSE \E p \in Placed(content) :
                /\ p.dpi = d /\ Settled(p) /\ target' = p.target
    /\ Quiet
    /\ UNCHANGED <<system, palette, content, recovery, shown, pixels, faults, error>>

\* WM_SIZE: the target cannot be resized.
ResizeFails ==
    /\ ~error /\ target # None /\ Faulty
    /\ \E cause \in {"lost", "other"} : Breaks(cause)
    /\ Quiet
    /\ UNCHANGED <<system, palette, content, gesture, captured, size, dpi, astray, shown,
                   dirty, pixels>>

\* WM_TIMER, where the host dispatches it.
RetryTimer ==
    /\ ~error /\ recovery.timed
    /\ recovery' = [recovery EXCEPT !.waiting = FALSE, !.timed = FALSE]
    /\ dirty' = shown
    /\ Quiet
    /\ UNCHANGED <<system, palette, content, gesture, captured, surface, shown, pixels,
                   faults, error>>

Pressed(hit) == content # None /\ hit # None /\ Enabled(content, hit)

\* WM_LBUTTONDOWN: nothing is drawn of a press.
ButtonDown(hit) ==
    /\ ~error /\ shown
    /\ gesture' = [gesture EXCEPT !.pressed = IF Pressed(hit) THEN hit ELSE None]
    /\ captured' = (captured \/ Pressed(hit))
    /\ Quiet
    /\ UNCHANGED <<system, palette, content, surface, recovery, shown, dirty, pixels, faults,
                   error>>

\* WM_LBUTTONUP.
ButtonUp(hit) ==
    /\ ~error /\ shown
    /\ sent' = IF gesture.pressed # None /\ hit = gesture.pressed /\ Enabled(content, hit)
               THEN [id |-> content.id, hit |-> hit] ELSE None
    /\ gesture' = NoGesture /\ captured' = FALSE /\ dirty' = TRUE
    /\ UNCHANGED <<system, palette, content, surface, recovery, shown, pixels, faults, error>>

\* WM_MOUSEMOVE: what is under the mouse is drawn; a press that the mouse has
\* left is over.
MouseMove(hit) ==
    /\ ~error /\ shown
    /\ gesture' = [pressed |-> IF gesture.pressed = hit THEN hit ELSE None, hovered |-> hit]
    /\ dirty' = TRUE
    /\ Quiet
    /\ UNCHANGED <<system, palette, content, captured, surface, recovery, shown, pixels,
                   faults, error>>

\* WM_MOUSELEAVE, WM_CAPTURECHANGED, WM_CANCELMODE.
MouseLost ==
    /\ ~error
    /\ gesture' = NoGesture /\ captured' = FALSE /\ dirty' = shown
    /\ Quiet
    /\ UNCHANGED <<system, palette, content, surface, recovery, shown, pixels, faults, error>>

-----------------------------------------------------------------------------
\* The window is created hidden, with a target for its one pixel.
Init ==
    /\ system \in Palettes /\ palette = system
    /\ content = None /\ gesture = NoGesture /\ captured = FALSE
    /\ dpi \in Dpis
    /\ size = [id |-> 0, dpi |-> dpi] /\ target = size
    /\ recovery = Calm /\ shown = FALSE /\ dirty = FALSE
    /\ pixels = [id |-> 0, hovered |-> None, palette |-> palette]
    /\ astray = FALSE /\ sent = None /\ faults = 0 /\ error = FALSE

Next ==
    \/ RenderMoved \/ RenderNew \/ RenderFails \/ Hide \/ RefreshAppearance \/ SystemChanges
    \/ Paint \/ DpiChanged \/ ResizeFails \/ RetryTimer \/ MouseLost
    \/ \E hit \in Cells \cup {None} : ButtonDown(hit) \/ ButtonUp(hit) \/ MouseMove(hit)

Spec == Init /\ [][Next]_vars

-----------------------------------------------------------------------------
\* The window's state is what its types say.
TypeOK ==
    /\ system \in Palettes /\ palette \in Palettes
    /\ content \in Contents \cup {None}
    /\ gesture \in [pressed : Hits \cup {None}, hovered : Hits \cup {None}]
    /\ captured \in BOOLEAN /\ shown \in BOOLEAN /\ dirty \in BOOLEAN
    /\ dpi \in Dpis /\ size \in Sizes /\ target \in Sizes \cup {None}
    /\ recovery \in [failures : 0..Retries, waiting : BOOLEAN, timed : BOOLEAN]
    /\ pixels \in [id : 0..MaxContent, hovered : Hits \cup {None}, palette : Palettes]
    /\ astray \in BOOLEAN /\ error \in BOOLEAN /\ faults \in 0..MaxFaults
    /\ sent = None \/ sent \in [id : 1..MaxContent, hit : Hits]

\* A window on the screen has the size its content needs at the DPI of its
\* monitor, and what it draws on has that size too, unless three moves in a
\* row ended on a monitor of another DPI (mod.rs:339).
FitsItsMonitor ==
    shown /\ ~error /\ ~astray =>
        /\ size = [id |-> content.id, dpi |-> dpi]
        /\ target # None => target = size

\* What is on the screen is the content, the control under the mouse and the
\* colours last read, unless a WM_PAINT is due or the device is lost.
DrawnAsItIs ==
    shown /\ ~error /\ ~dirty /\ ~recovery.waiting =>
        pixels = [id |-> content.id, hovered |-> gesture.hovered, palette |-> palette]

\* The invariant of the theme: a window that fits its monitor and is drawn as it is.
Inv == TypeOK /\ FitsItsMonitor /\ DrawnAsItIs
=============================================================================
