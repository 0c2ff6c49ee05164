------------------------------ MODULE ThemeAbc ------------------------------
(***************************************************************************)
(* The `abc` theme and the plug-in bridge it is driven through.            *)
(*                                                                         *)
(* The renderer's UI thread gives the theme views, each with a content     *)
(* identity, and dispatches window messages to it (ui_runtime.rs,          *)
(* theme_dll.rs, plugin.rs).  The theme keeps three native windows: the    *)
(* pre-edit box, the candidate list and the indicator of the input mode,   *)
(* and in each the view it shows, the press of the mouse, the pixels last  *)
(* drawn and the state of the recovery from a lost device.                 *)
(*                                                                         *)
(* One action is one turn of the UI thread's loop: a view or a message,    *)
(* and the health check after it, whose reply carries the clicks.          *)
(***************************************************************************)
EXTENDS Naturals, Sequences

CONSTANTS
    MaxContent,         \* bound: contents presented
    MaxFaults,          \* bound: failures of the graphics and of the system
    Retries,            \* lost devices in a row that are tried again (3 in the code)
    None

Roles == {"input", "candidates", "indicator"}

\* What a view has to show once its anchor and its flags are taken together.
Shapes == {"nothing", "items", "preedit", "both", "indicator"}

\* The controls of the candidate list.  The decorative arrow is a control of
\* its own that invokes the action of the other one.
Hits == {"item", "previous", "decorative"}

Invoked(hit) == IF hit = "item" THEN "invoke" ELSE "previous"

\* What a view may offer: its first item, and the page before it.
Offers == SUBSET {"invoke", "previous"}

QueueLimit == 32

VARIABLES
    live,       \* whether every message comes by the renderer's own loop
    view,       \* the view last presented: its identity, shape and enabled controls
    sink,       \* the content the bridge forwards clicks of, or None
    queue,      \* the clicks waiting in the theme's library
    window,     \* the three windows
    held,       \* history: the control being pressed and the content it was in
    sent,       \* the click this turn forwarded to the server, beside its press
    faults,     \* failures so far
    ended       \* whether the UI thread has given up

vars == <<live, view, sink, queue, window, held, sent, faults, ended>>

Views == [id : 0..MaxContent, shape : Shapes, enabled : Offers]

\* What is assumed of the constants.
AbcAssumption ==
    /\ MaxContent \in Nat /\ MaxFaults \in Nat /\ Retries \in Nat
    /\ None \notin Views

Clicks == [id : 0..MaxContent, action : {"invoke", "previous"}]

Presses == [id : 0..MaxContent, hit : Hits]

Windows == [content : Views \cup {None},    \* what the window shows
            pressed : Hits \cup {None},     \* Gesture::pressed
            captured : BOOLEAN,             \* whether it has the mouse
            target : BOOLEAN,               \* Graphics::target
            failures : 0..Retries,          \* Recovery::failures
            waiting : BOOLEAN,              \* Recovery::waiting
            timed : BOOLEAN,                \* RETRY_TIMER is set
            shown : BOOLEAN,
            dirty : BOOLEAN,                \* a WM_PAINT is due
            pixels : [id : 0..MaxContent, pressed : Hits \cup {None}],
            error : BOOLEAN]

-----------------------------------------------------------------------------
(* What a role shows, and the controls it has. *)

HasCandidates(v) == v.shape \in {"items", "both"}

HasPreedit(v) == v.shape \in {"preedit", "both"}

VisibleIn(role, v) ==
    CASE role = "input" -> HasPreedit(v)
      [] role = "candidates" -> HasCandidates(v)
      [] role = "indicator" -> v.shape = "indicator"

Cells(role) == IF role = "candidates" THEN Hits ELSE {}

Enabled(v, hit) == v.shape # "nothing" /\ Invoked(hit) \in v.enabled

-----------------------------------------------------------------------------
(* One window. *)

Fresh == [content |-> None, pressed |-> None, captured |-> FALSE, target |-> TRUE,
          failures |-> 0, waiting |-> FALSE, timed |-> FALSE, shown |-> FALSE,
          dirty |-> FALSE, pixels |-> [id |-> 0, pressed |-> None], error |-> FALSE]

Cancelled(w) == [w EXCEPT !.pressed = None, !.captured = FALSE]

Invalid(w) == [w EXCEPT !.dirty = w.shown]

\* Mutants of Hidden: the content is kept; the mouse is kept.
HiddenKeepingContent(w) ==
    [Cancelled(w) EXCEPT !.waiting = FALSE, !.timed = FALSE, !.shown = FALSE, !.dirty = FALSE]

HiddenKeepingMouse(w) ==
    [w EXCEPT !.content = None, !.waiting = FALSE, !.timed = FALSE,
              !.shown = FALSE, !.dirty = FALSE]

Hidden(w) ==
    [Cancelled(w) EXCEPT !.content = None, !.waiting = FALSE, !.timed = FALSE,
                         !.shown = FALSE, !.dirty = FALSE]

\* A lost device is tried again after a while, at most three times in a row;
\* any other failure, or no timer, is the end of the theme.
Broken(w, cause) ==
    IF cause # "lost" \/ w.failures = Retries
    THEN [w EXCEPT !.target = FALSE, !.error = TRUE]
    ELSE [w EXCEPT !.target = FALSE, !.failures = @ + 1, !.waiting = TRUE, !.timed = TRUE]

Drawn(w) ==
    [w EXCEPT !.target = TRUE, !.failures = 0, !.waiting = FALSE,
              !.pixels = [id |-> IF w.content = None THEN 0 ELSE w.content.id,
                          pressed |-> w.pressed]]

\* A drawing: it succeeds, or fails while failures are left.
Drawings(w) ==
    {[w |-> Drawn(w), faults |-> 0]}
        \cup {[w |-> Broken(w, cause), faults |-> 1] : cause \in {"lost", "other"}}

\* Mutant of Moved: whatever the window can show is taken for what it shows.
MovedAlways(role, w, v) == w.content # None /\ VisibleIn(role, v)

\* Whether a window keeps its content, its press and its pixels: the view is
\* the one it shows, at another place.
Moved(role, w, v) == w.content # None /\ VisibleIn(role, v) /\ w.content.id = v.id

Filled(w, v) == [w EXCEPT !.content = v]

Exposed(w) == [w EXCEPT !.shown = TRUE, !.dirty = TRUE]

Outcome(w, n) == [w |-> w, ok |-> ~w.error, faults |-> n]

Unplaced(w) == [w |-> w, ok |-> FALSE, faults |-> 1]

\* Window::render: what it leaves, and whether it succeeded.
Renders(role, w, v) ==
    LET new == Filled(Cancelled(w), v)
    IN  CASE Moved(role, w, v) -> {Outcome(Filled(w, v), 0), Unplaced(Filled(w, v))}
          [] ~Moved(role, w, v) /\ w.error -> {Outcome(Cancelled(w), 0)}
          [] ~Moved(role, w, v) /\ ~w.error /\ ~VisibleIn(role, v) -> {Outcome(Hidden(w), 0)}
          [] OTHER ->
                {Unplaced(new)} \cup
                    IF w.content = None
                    THEN {Outcome(Exposed(d.w), d.faults) : d \in Drawings(new)}
                    ELSE {Outcome(Exposed(new), 0)}

-----------------------------------------------------------------------------
(* The three windows. *)

AllHidden(ws) == [r \in Roles |-> Hidden(ws[r])]

\* The windows hidden before a view is shown.
GivesWay(v) == IF v.shape = "indicator" THEN {"input", "candidates"} ELSE {"indicator"}

Begun(ws, v) == [r \in Roles |-> IF r \in GivesWay(v) THEN Hidden(ws[r]) ELSE ws[r]]

\* One window's turn, unless one before it failed.
Turns(o, role, v) ==
    IF ~o.ok THEN {o}
    ELSE {[ws |-> [o.ws EXCEPT ![role] = s.w], ok |-> s.ok, faults |-> o.faults + s.faults] :
            s \in Renders(role, o.ws[role], v)}

\* The larger windows go before the indicator comes, and it goes before they
\* come; whatever fails hides them all.
Presented(ws, v) ==
    LET start == [ws |-> Begun(ws, v), ok |-> TRUE, faults |-> 0]
        results == IF v.shape = "indicator" THEN Turns(start, "indicator", v)
                   ELSE UNION {Turns(o, "input", v) : o \in Turns(start, "candidates", v)}
    IN  {IF o.ok THEN o ELSE [o EXCEPT !.ws = AllHidden(o.ws)] : o \in results}

-----------------------------------------------------------------------------
(* The bridge. *)

\* The health check that ends a turn: it takes the clicks out of the library
\* and forwards those of the content now presented.
Settles(ws, clicks, current, press, failed) ==
    LET unwell == failed \/ \E r \in Roles : ws[r].error
        genuine == {i \in DOMAIN clicks : clicks[i].id = current}
        newest == CHOOSE i \in genuine : \A j \in genuine : j <= i
    IN  /\ window' = IF unwell THEN AllHidden(ws) ELSE ws
        /\ ended' = unwell
        /\ queue' = <<>>
        /\ held' = IF \E r \in Roles : ws[r].pressed # None THEN press ELSE None
        /\ sent' = IF unwell \/ genuine = {} THEN None
                   ELSE [click |-> clicks[newest], press |-> held]

\* The operation Render, with the view's content as the one clicks may be of.
Gives(ws, v) ==
    \E o \in Presented(ws, v) :
        /\ faults + o.faults <= MaxFaults
        /\ faults' = faults + o.faults
        /\ sink' = v.id
        /\ view' = v
        /\ Settles(o.ws, queue, v.id, held, ~o.ok)

\* The operation Hide, which also forgets the clicks not yet taken.
Withdraws ==
    /\ sink' = None
    /\ Settles(AllHidden(window), <<>>, None, held, FALSE)

\* A message for one window, which leaves it as `w`.
Leaves(role, w, clicks) ==
    Settles([window EXCEPT ![role] = w], queue \o clicks, sink, held, FALSE)

-----------------------------------------------------------------------------
(* The views. *)

\* A new content, perhaps of another client: then what is shown goes first.
Apply ==
    /\ ~ended /\ view.id < MaxContent
    /\ \E shape \in Shapes, enabled \in Offers, other \in BOOLEAN :
        LET v == [id |-> view.id + 1, shape |-> shape, enabled |-> enabled]
        IN  IF shape = "nothing"
            THEN Withdraws /\ view' = v /\ UNCHANGED faults
            ELSE Gives(IF other THEN AllHidden(window) ELSE window, v)
    /\ UNCHANGED live

\* The content presented, at another place.
Follow ==
    /\ ~ended /\ view.shape # "nothing"
    /\ Gives(window, view)
    /\ UNCHANGED live

\* The client is gone.
Disconnect ==
    /\ ~ended
    /\ Withdraws
    /\ view' = [view EXCEPT !.shape = "nothing"]
    /\ UNCHANGED <<live, faults>>

\* The indicator's time is up: the view without it is rendered, not hidden.
Expire ==
    /\ ~ended /\ view.shape = "indicator" /\ view.id < MaxContent
    /\ Gives(window, [view EXCEPT !.id = @ + 1, !.shape = "nothing"])
    /\ UNCHANGED live

\* The system's colours changed: everything is drawn again, and the view of
\* the client that is still there rendered once more.
Refresh ==
    /\ ~ended
    /\ LET ws == [r \in Roles |-> Invalid(window[r])]
       IN  \/ view.shape # "nothing" /\ Gives(ws, view)
           \/ /\ view.shape = "nothing"
              /\ Settles(ws, queue, sink, held, FALSE)
              /\ UNCHANGED <<view, sink, faults>>
    /\ UNCHANGED live

-----------------------------------------------------------------------------
(* The messages. *)

\* WM_LBUTTONDOWN.
Press(role, hit) ==
    LET w == window[role]
        taken == w.content # None /\ hit # None /\ Enabled(w.content, hit)
    IN  /\ ~ended /\ w.shown
        /\ LET pressed == Invalid([w EXCEPT !.pressed = IF taken THEN hit ELSE None,
                                            !.captured = @ \/ taken])
           IN  Settles([window EXCEPT ![role] = pressed], queue, sink,
                       IF taken THEN [id |-> w.content.id, hit |-> hit] ELSE held, FALSE)
        /\ UNCHANGED <<live, view, sink, faults>>

\* WM_MOUSEMOVE: leaving the control that is pressed gives the press up.
Motion(role, hit) ==
    LET w == window[role]
    IN  /\ ~ended /\ w.shown
        /\ Leaves(role, Invalid([w EXCEPT !.pressed = IF @ = hit THEN @ ELSE None]), <<>>)
        /\ UNCHANGED <<live, view, sink, faults>>

\* What a release sends: the action of the control pressed, if the mouse is
\* still on it and it is still enabled.
Released(w, hit) ==
    IF /\ w.content # None /\ w.pressed # None
       /\ hit = w.pressed /\ Enabled(w.content, hit)
       /\ Len(queue) < QueueLimit
    THEN <<[id |-> w.content.id, action |-> Invoked(hit)]>>
    ELSE <<>>

\* WM_LBUTTONUP.
Release(role, hit) ==
    LET w == window[role]
    IN  /\ ~ended /\ (w.shown \/ w.captured)
        /\ Leaves(role, Invalid(Cancelled(w)), Released(w, hit))
        /\ UNCHANGED <<live, view, sink, faults>>

\* WM_MOUSELEAVE, WM_CAPTURECHANGED, WM_CANCELMODE.
Cancel(role) ==
    /\ ~ended
    /\ Leaves(role, Invalid(Cancelled(window[role])), <<>>)
    /\ UNCHANGED <<live, view, sink, faults>>

\* WM_PAINT: validated by BeginPaint whether or not anything is drawn.
Paint(role) ==
    LET clean == [window[role] EXCEPT !.dirty = FALSE]
    IN  /\ ~ended /\ window[role].dirty
        /\ IF clean.waiting
           THEN Leaves(role, clean, <<>>) /\ UNCHANGED faults
           ELSE \E d \in Drawings(clean) :
                   /\ faults + d.faults <= MaxFaults
                   /\ faults' = faults + d.faults
                   /\ Leaves(role, d.w, <<>>)
        /\ UNCHANGED <<live, view, sink>>

\* WM_DPICHANGED and WM_SIZE: the window is placed again, and its target
\* resized, either of which may fail.
Rescale(role) ==
    LET calm == Invalid(Cancelled(window[role]))
        resized == {[w |-> calm, faults |-> 0], [w |-> [calm EXCEPT !.error = TRUE], faults |-> 1]}
            \cup IF calm.target THEN {[w |-> Broken(calm, "lost"), faults |-> 1]} ELSE {}
    IN  /\ ~ended
        /\ \E d \in resized :
            /\ faults + d.faults <= MaxFaults
            /\ faults' = faults + d.faults
            /\ Leaves(role, d.w, <<>>)
        /\ UNCHANGED <<live, view, sink>>

\* WM_TIMER.  The renderer's loop, which is the preview's too, dispatches none; one
\* that comes by a loop nested in a call is left possible.
Retry(role) ==
    /\ ~ended /\ ~live /\ window[role].timed
    /\ Leaves(role, Invalid([window[role] EXCEPT !.timed = FALSE, !.waiting = FALSE]), <<>>)
    /\ UNCHANGED <<live, view, sink, faults>>

-----------------------------------------------------------------------------
Init ==
    /\ live \in BOOLEAN
    /\ view = [id |-> 0, shape |-> "nothing", enabled |-> {}]
    /\ sink = None /\ queue = <<>>
    /\ window = [r \in Roles |-> Fresh]
    /\ held = None /\ sent = None
    /\ faults = 0 /\ ended = FALSE

Next ==
    \/ Apply \/ Follow \/ Disconnect \/ Expire \/ Refresh
    \/ \E role \in Roles :
        \/ \E hit \in Cells(role) \cup {None} :
            Press(role, hit) \/ Motion(role, hit) \/ Release(role, hit)
        \/ Cancel(role) \/ Paint(role) \/ Rescale(role) \/ Retry(role)

Spec == Init /\ [][Next]_vars

-----------------------------------------------------------------------------
\* The windows, the clicks and the views are what their types say.
TypeOK ==
    /\ live \in BOOLEAN /\ ended \in BOOLEAN
    /\ view \in Views
    /\ sink \in 0..MaxContent \cup {None}
    /\ queue = <<>>
    /\ window \in [Roles -> Windows]
    /\ held \in Presses \cup {None}
    /\ sent \in [click : Clicks, press : Presses] \cup {None}
    /\ faults \in 0..MaxFaults

\* The indicator of the input mode is never on the screen together with the
\* pre-edit box or the candidate list (Abc::render).
OnePresentation ==
    window["indicator"].shown => ~window["input"].shown /\ ~window["candidates"].shown

\* What a window on the screen shows is the content it answers clicks with and
\* the press it has taken, unless a WM_PAINT is due or the device is lost: no
\* handler changes what is drawn and forgets to ask for the drawing, and a
\* window that waits for its device has the timer that ends the wait.
PixelsAreCurrent ==
    \A r \in Roles :
        LET w == window[r]
        IN  /\ w.waiting => w.timed
            /\ w.shown /\ ~w.dirty /\ ~w.waiting =>
                w.pixels = [id |-> w.content.id, pressed |-> w.pressed]

\* A window that is not on the screen keeps nothing of what it showed, neither
\* its content nor the mouse.
HiddenIsEmpty ==
    \A r \in Roles : ~window[r].shown =>
        window[r].content = None /\ window[r].pressed = None /\ ~window[r].captured

\* A click that reaches the server is of the control that was pressed, in the
\* content it was pressed in: a press never outlives its content, however many
\* views move the windows between the press and the release.
ClickIsOnePress ==
    sent # None =>
        /\ sent.click.id = sent.press.id
        /\ sent.click.action = Invoked(sent.press.hit)

\* The first frame of a window that comes to the screen is of its new content:
\* the pixels a hidden window retains are replaced before it is exposed
\* (mod.rs:749).
FirstFrameIsNew ==
    [][\A r \in Roles : ~window[r].shown /\ window'[r].shown =>
            window'[r].waiting \/ window'[r].pixels.id = window'[r].content.id]_vars

\* The invariant of the theme: one presentation at a time, pixels that are current,
\* hidden windows that keep nothing, and clicks of one press.
Inv == TypeOK /\ OnePresentation /\ PixelsAreCurrent /\ HiddenIsEmpty /\ ClickIsOnePress
=============================================================================
