----------------------------- MODULE ThemeHost -----------------------------
(***************************************************************************)
(* The host of a WASM theme (src/themes/wasm): the transaction that wraps  *)
(* each callback of the guest (runtime.rs), the windows that show what it  *)
(* committed (window.rs), and what it may leave behind: a wake and the     *)
(* capture of the mouse.                                                   *)
(*                                                                         *)
(* Everything runs on one thread, so an action is one window message or    *)
(* one call of the renderer, with the callbacks it makes.  What a guest    *)
(* does in a callback is a script: one edit of its presentation, an        *)
(* outcome, and what it asks for.  A frame is named by the snapshot it was *)
(* drawn for; geometry, styles and the content of the commands are left    *)
(* out.  The guest's own memory is not modelled: it reads the snapshot     *)
(* from the host (HostState::view) in every callback.                      *)
(***************************************************************************)
EXTENDS Naturals, FiniteSets

CONSTANTS
  Views,        \* the contents of candidate snapshots
  Blank,        \* the empty frame
  None,         \* no snapshot, no frame, no window
  MaxSurface,   \* the largest surface id handed out
  MaxRevision   \* bound on the generations of layers

VARIABLES
  host,      \* HostState: the surfaces, the next id, the snapshot, the revision
  content,   \* App.content: the snapshot the actions are checked against
  frame,     \* App.frame: what the main window replays
  shown,     \* Window.shown
  windows,   \* Window.auxiliary
  wake,      \* Window.wake_deadline is set, and FRAME_TIMER with it
  posted,    \* a WM_TIMER of FRAME_TIMER is in the queue
  capture,   \* the window that has the mouse
  error,     \* "none", "failed" or "panicked"
  press,     \* history: what was under the pointer when it went down
  hit        \* history: what the guest was told of the last release

vars == <<host, content, frame, shown, windows, wake, posted,
          capture, error, press, hit>>

Ids == 0 .. MaxSurface
Primary == 0
Auxiliary == Ids \ {Primary}

Frames == Views \cup {Blank}

\* A region of a generation of the layer, or of the canvas, which is layer 0.
Targets == [layer : 0 .. MaxRevision, region : {0, 1}]

Surfaces == [presented : Frames, pending : Frames \cup {None}, visible : BOOLEAN,
             touched : BOOLEAN, layer : 0 .. MaxRevision, pressed : Targets \cup {None}]

AuxWindows == [frame : Frames, shown : BOOLEAN]

\* What is assumed of the constants.
ThemeHostAssumption ==
  /\ {Blank, None} \cap Views = {} /\ Blank # None
  /\ {MaxSurface, MaxRevision} \subseteq Nat
  /\ None \notin Targets \cup Surfaces \cup AuxWindows

(***************************************************************************)
(* The surfaces and what a callback does to them.                          *)
(***************************************************************************)
NewSurface(id) ==
  [presented |-> Blank, pending |-> None, visible |-> id = Primary,
   touched |-> FALSE, layer |-> 0, pressed |-> None]

Live(h) == {id \in Ids : h.surf[id] # None}

Given(h, id, s) == [h EXCEPT !.surf = [h.surf EXCEPT ![id] = s]]

\* WasmRuntime::set_fuel: the outputs of the last callback are dropped.
Fresh(h) ==
  [h EXCEPT !.surf = [id \in Ids |->
     IF id \in Live(h) THEN [h.surf[id] EXCEPT !.pending = None, !.touched = FALSE]
     ELSE None]]

\* One edit: the surfaces it draws or touches.
Edits(h) ==
  {[kind |-> "nothing", at |-> {}]}
  \cup [kind : {"draw"}, at : SUBSET Live(h) \ {{}}]
  \cup [kind : {"layer", "show", "conceal"}, at : {{id} : id \in Live(h)}]
  \cup {[kind |-> "open", at |-> {h.next}] : id \in {i \in {h.next} : i <= MaxSurface}}
  \cup [kind : {"close"}, at : {{id} : id \in Live(h) \ {Primary}}]

\* The imports.  A layer that is made, or made anew, has a generation of its own.
Generation(h, e) == IF e.kind = "layer" THEN h.revision + 1 ELSE h.revision

Changed(s, id, kind, generation) ==
  CASE kind = "draw" -> [s EXCEPT !.touched = TRUE]
    [] kind = "layer" -> [s EXCEPT !.touched = TRUE, !.layer = generation]
    [] kind = "show" -> [s EXCEPT !.touched = TRUE, !.visible = TRUE]
    [] kind = "conceal" -> [s EXCEPT !.touched = TRUE, !.visible = FALSE]
    [] kind = "close" -> None
    [] OTHER -> NewSurface(id)

Edited(h, e) ==
  [h EXCEPT !.surf = [id \in Ids |-> IF id \in e.at
                                    THEN Changed(h.surf[id], id, e.kind, Generation(h, e))
                                    ELSE h.surf[id]],
            !.revision = Generation(h, e),
            !.next = IF e.kind = "open" THEN @ + 1 ELSE @]

Touched(h) == {id \in Live(h) : h.surf[id].touched}

\* What a Present makes of a callback's edits: a surface that was only given
\* layers keeps its canvas, any other touched one shows what was drawn, which is
\* nothing when nothing was; and a Present without edits clears the main one.
Redrawn(h) == IF Touched(h) = {} THEN {Primary} ELSE Touched(h)

Shows(h, e, id) ==
  IF e.kind = "draw" /\ id \in e.at THEN (IF h.view = None THEN Blank ELSE h.view)
  ELSE IF e.kind = "layer" /\ id \in e.at THEN h.surf[id].presented ELSE Blank

\* Mutant of Committed: a frame without commands is not handed to the window.
CommittedUnsent(h, e) ==
  LET redrawn == Redrawn(h)
  IN  [h EXCEPT !.surf = [id \in Ids |->
         IF id \in redrawn
         THEN [h.surf[id] EXCEPT !.touched = TRUE, !.presented = Shows(h, e, id),
                 !.pending = IF Shows(h, e, id) = Blank THEN None ELSE Shows(h, e, id)]
         ELSE h.surf[id]]]

Committed(h, e) ==
  LET redrawn == Redrawn(h)
  IN  [h EXCEPT !.surf = [id \in Ids |->
         IF id \in redrawn
         THEN [h.surf[id] EXCEPT !.touched = TRUE, !.presented = Shows(h, e, id),
                                 !.pending = Shows(h, e, id)]
         ELSE h.surf[id]]]

\* Presentation::restore: the surfaces, the next id and the snapshot come back,
\* the revision does not.
RolledBack(before, h) == [before EXCEPT !.revision = h.revision]

\* WasmRuntime::transact around a callback that sees `seen`, from `before`.
Transact(before, seen, script) ==
  LET h == Edited(Fresh(seen), script.edit)
  IN  IF script.outcome = "present" THEN Committed(h, script.edit) ELSE RolledBack(before, h)

\* What the guest may do in a callback.  That it asks for a wake and that it edits
\* its surfaces are independent, so one callback does one of them.
Scripts(h) ==
  {s \in [edit : Edits(h), outcome : {"present", "keep", "error"}, wake : {"none", "ask"}] :
     /\ s.edit.kind = "layer" => h.revision < MaxRevision
     /\ s.outcome # "present" => s.edit.kind \in {"nothing", "layer"}
     /\ s.wake = "ask" => s.edit.kind = "nothing" /\ s.outcome # "error"}

\* Told of new colours, it redraws or does not.
Redraws(h) ==
  {s \in Scripts(h) : s.edit \in {[kind |-> "draw", at |-> Live(h)], [kind |-> "nothing", at |-> {}]}
                       /\ s.wake = "none" /\ (s.outcome = "present" => s.edit.kind = "draw")}

(***************************************************************************)
(* The windows.                                                            *)
(***************************************************************************)
AnyVisible(h) == \E id \in Live(h) : h.surf[id].visible

Pending(h, id) == h.surf[id].pending

Taken(h) ==
  [h EXCEPT !.surf = [id \in Ids |->
     IF id \in Live(h) THEN [h.surf[id] EXCEPT !.pending = None] ELSE None]]

\* Window::sync_auxiliary: a window for every surface, and none besides.
Synced(h, c) ==
  [id \in Auxiliary |->
     IF id \notin Live(h) THEN None
     ELSE [frame |-> IF Pending(h, id) # None THEN Pending(h, id)
                     ELSE IF windows[id] = None THEN Blank ELSE windows[id].frame,
           shown |-> c # None /\ h.surf[id].visible]]

\* WakeRequest::merge and Window::schedule_wakeup.
Merged(h, c, request) ==
  /\ AnyVisible(h) /\ c # None
  /\ CASE request = "ask" -> TRUE [] request = "cancel" -> FALSE [] OTHER -> wake

\* Window::apply_side_effects and sync_visibility, after the callbacks left the
\* runtime at h.  The main window cancels the wake when its surface is hidden.
Settle(h, c, request, cap) ==
  LET visible == h.surf[Primary].visible
      aux == Synced(h, c)
  IN  /\ host' = Taken(h)
      /\ content' = c
      /\ frame' = IF Pending(h, Primary) # None THEN Pending(h, Primary) ELSE frame
      /\ windows' = aux
      /\ shown' = visible
      /\ wake' = (Merged(h, c, request) /\ visible)
      /\ error' = "none"
      \* A window that is gone gives the mouse back.
      /\ capture' = IF cap \in Auxiliary /\ aux[cap] = None THEN None ELSE cap

\* The theme failed: the loop of the renderer ends with it, and its windows go.
Start ==
  [surf |-> [id \in Ids |-> IF id = Primary THEN NewSurface(id) ELSE None],
   next |-> 1, view |-> None, revision |-> 0]

NoWindows == [id \in Auxiliary |-> None]

Fail(why) ==
  /\ error' = why
  /\ host' = Start /\ content' = None /\ frame' = Blank /\ shown' = FALSE
  /\ windows' = NoWindows /\ wake' = FALSE
  /\ capture' = None

Up == error = "none"

\* WasmRuntime::render and hide: a press does not outlive its snapshot.
Unpressed(h) ==
  [h EXCEPT !.surf = [id \in Ids |->
     IF id \in Live(h) THEN [h.surf[id] EXCEPT !.pressed = None] ELSE None]]

History == press' = press /\ hit' = None

(***************************************************************************)
(* Calls of the renderer.                                                  *)
(***************************************************************************)
\* Window::render with the content that is shown: only the place and the events
\* of the snapshot are new.
RenderSame ==
  /\ Up /\ content # None
  /\ History
  /\ UNCHANGED <<host, content, frame, shown, windows, wake, posted, capture, error>>

\* Window::render with a new content v.  The guest is told of an appearance
\* that changed, then of the snapshot.  The content is replaced when the runtime
\* says that the presentation was updated.
PresentationUpdated(h) == \E id \in Live(h) : h.surf[id].touched

FirstCallback(script) == IF script = None THEN host ELSE Transact(host, host, script)

\* take_frame: only the main surface's frame is taken in between.
Between(first) ==
  LET h == FirstCallback(first)
  IN  IF first = None THEN h
      ELSE Given(h, Primary, [h.surf[Primary] EXCEPT !.pending = None])

FrameBetween(first) ==
  IF first # None /\ Pending(FirstCallback(first), Primary) # None
  THEN Pending(FirstCallback(first), Primary) ELSE frame

Seeing(h, v) == Given([h EXCEPT !.view = v], Primary, [h.surf[Primary] EXCEPT !.visible = TRUE])

Rendered(h, script, v) == Transact(h, Seeing(h, v), script)

\* The frame f that was taken is the window's, unless there is a later one.
Handed(h, f) ==
  Given(h, Primary, [h.surf[Primary] EXCEPT !.pending = IF @ = None /\ f # frame THEN f ELSE @])

Render(v) ==
  /\ Up /\ v # content
  /\ \E first \in {None} \cup Redraws(host) : \E script \in Scripts(Unpressed(Between(first))) :
       LET h == Rendered(Unpressed(Between(first)), script, v)
       IN  IF script.outcome = "error" \/ (first # None /\ first.outcome = "error")
           THEN Fail("failed")
           ELSE Settle(Handed(h, FrameBetween(first)),
                       IF PresentationUpdated(h) THEN v ELSE content,
                       IF script.wake # "none" \/ first = None THEN script.wake ELSE first.wake,
                       capture)
  /\ History
  /\ UNCHANGED posted

\* What a hidden theme keeps: its surfaces, of which nothing is shown.
Cleared(h) ==
  [h EXCEPT !.view = None,
            !.surf = [id \in Ids |->
              IF id \in Live(h)
              THEN [h.surf[id] EXCEPT !.layer = 0, !.presented = Blank, !.pending = Blank,
                                      !.visible = FALSE]
              ELSE None]]

\* Window::hide: the guest is told, and whatever it answers nothing is left.
Hide ==
  /\ Up
  /\ \E script \in {s \in Scripts(host) : s.edit.kind \in {"nothing", "open", "close"}} :
       LET left == IF content = None THEN host
                   ELSE Cleared(Transact(Unpressed(host), Unpressed(host), script))
       IN  /\ content = None => script = [edit |-> [kind |-> "nothing", at |-> {}],
                                          outcome |-> "keep", wake |-> "none"]
           /\ host' = Taken(left)
           /\ windows' = Synced(left, None)
  /\ content' = None /\ frame' = Blank /\ shown' = FALSE
  /\ wake' = FALSE
  /\ capture' = IF capture = Primary \/ (capture # None /\ windows'[capture] = None)
                THEN None ELSE capture
  /\ press' = NoWindows /\ hit' = None
  /\ UNCHANGED <<posted, error>>

\* Window::refresh_appearance tells the guest when something is shown.
RefreshAppearance ==
  /\ Up
  /\ IF content = None
     THEN Settle(host, content, "none", capture)
     ELSE \E script \in Scripts(host) :
            IF script.outcome = "error"
            THEN Fail("failed")
            ELSE Settle(Transact(host, host, script), content, script.wake, capture)
  /\ History
  /\ UNCHANGED posted

(***************************************************************************)
(* Messages of the windows.                                                *)
(***************************************************************************)
\* FRAME_TIMER expires; KillTimer does not take back the message.
FrameExpires ==
  /\ Up /\ wake /\ ~posted
  /\ posted' = TRUE
  /\ History
  /\ UNCHANGED <<host, content, frame, shown, windows, wake, capture, error>>

\* A message that does nothing: that of a wake that was cancelled, and any that the
\* renderer's loop takes, which dispatches no WM_TIMER; one that comes by a loop
\* nested in a call is left possible.
FrameIgnored ==
  /\ Up /\ posted
  /\ posted' = FALSE
  /\ History
  /\ UNCHANGED <<host, content, frame, shown, windows, wake, capture, error>>

\* The message of a wake that was put off is put back.
EarlyFrame ==
  /\ Up /\ posted /\ wake
  /\ wake' = (AnyVisible(host) /\ content # None)
  /\ posted' = FALSE
  /\ History
  /\ UNCHANGED <<host, content, frame, shown, windows, capture, error>>

\* The message of a wake that is due: the guest draws the next frame.
TickFrame ==
  /\ Up /\ posted /\ wake
  /\ posted' = FALSE
  /\ IF content = None \/ ~AnyVisible(host)
     THEN /\ wake' = FALSE
          /\ UNCHANGED <<host, content, frame, shown, windows, capture,
                         error>>
     ELSE \E script \in Scripts(host) :
            IF script.outcome = "error"
            THEN Fail("failed")
            ELSE Settle(Transact(host, host, script), content,
                        IF script.wake = "ask" THEN "ask" ELSE "cancel", capture)
  /\ History

(***************************************************************************)
(* The pointer.                                                            *)
(***************************************************************************)
\* What may be under the pointer of a surface: a region of its layer, one of its
\* canvas, or nothing.
Hits(id) ==
  (IF host.surf[id].layer # 0 THEN {[layer |-> host.surf[id].layer, region |-> 1]} ELSE {})
  \cup (IF host.surf[id].presented # Blank THEN {[layer |-> 0, region |-> 1]} ELSE {})

Nothing == [layer |-> 0, region |-> 0]

Click(target) == [target |-> target, view |-> host.view]

\* A pointer message of the main window with something shown.  Window::mouse
\* passes the panel style as an argument, read from a borrow of App that lasts
\* until the call returns, and the call borrows App again to change it: the
\* callback panics, wnd_proc catches it, and the theme has failed.
PointerOnPrimary ==
  /\ Up /\ shown /\ content # None /\ Hits(Primary) # {}
  /\ Fail("panicked")
  /\ History
  /\ UNCHANGED posted

\* An auxiliary window that the pointer can reach.
Reached(id) ==
  /\ Up /\ windows[id] # None /\ content # None
  /\ capture = id \/ (capture = None /\ windows[id].shown /\ Hits(id) # {})

\* Window::mouse_surface of an auxiliary window: the callback of the guest, and
\* what is done of it with the capture and the drags it leaves.
Deliver(id, pressed, cap) ==
  LET h == Given(host, id, [host.surf[id] EXCEPT !.pressed = pressed])
  IN  \E script \in Scripts(h) :
        IF script.outcome = "error"
        THEN Fail("failed")
        ELSE Settle(Transact(h, h, script), content, script.wake, cap)

\* WM_LBUTTONDOWN: the target is remembered, and the window has the mouse; the
\* movement of a drag changes nothing that is modelled here.
PointerDown(id) ==
  /\ Reached(id)
  /\ \E target \in Hits(id) :
       /\ press' = [press EXCEPT ![id] = Click(target)]
       /\ Deliver(id, target, id)
  /\ hit' = None
  /\ UNCHANGED posted

\* The region the guest is told of on a release: none unless it went down there.
Released(id, target) ==
  IF host.surf[id].pressed = target THEN target ELSE Nothing

\* WM_LBUTTONUP outside a drag.  The capture is given back while the table of the
\* windows is borrowed, and the message that comes of it wants to change the
\* table: the callback panics.
PointerUp(id) ==
  /\ Reached(id)
  /\ \E target \in Hits(id) \cup {Nothing} :
       hit' = IF Released(id, target) = Nothing THEN None
              ELSE [press |-> press[id], click |-> Click(target)]
  /\ IF capture = id THEN Fail("panicked") ELSE Deliver(id, None, capture)
  /\ press' = [press EXCEPT ![id] = None]
  /\ UNCHANGED posted

\* WM_MOUSEMOVE outside a drag.
PointerMove(id) ==
  /\ Reached(id)
  /\ Deliver(id, host.surf[id].pressed, capture)
  /\ History
  /\ UNCHANGED posted

\* WM_MOUSELEAVE, and the end of the capture: by the release that ends a drag, by a
\* change of the scale, or because another window takes it.
PointerEnds(id) ==
  /\ Reached(id)
  /\ Deliver(id, None, None)
  /\ press' = [press EXCEPT ![id] = None] /\ hit' = None
  /\ UNCHANGED posted

(***************************************************************************)
(* Specification.                                                          *)
(***************************************************************************)
Init ==
  /\ host = Start /\ content = None /\ frame = Blank /\ shown = FALSE
  /\ windows = NoWindows
  /\ wake = FALSE /\ posted = FALSE
  /\ capture = None
  /\ error = "none"
  /\ press = NoWindows /\ hit = None

Next ==
  \/ RenderSame \/ Hide \/ RefreshAppearance
  \/ \E v \in Views : Render(v)
  \/ FrameExpires \/ FrameIgnored \/ EarlyFrame \/ TickFrame
  \/ PointerOnPrimary
  \/ \E id \in Auxiliary : PointerDown(id) \/ PointerUp(id) \/ PointerMove(id) \/ PointerEnds(id)

Spec == Init /\ [][Next]_vars

(***************************************************************************)
(* Properties.                                                             *)
(***************************************************************************)
TypeOK ==
  /\ host.view \in Views \cup {None} /\ host.next \in 1 .. MaxSurface + 1
  /\ host.revision \in 0 .. MaxRevision /\ host.surf[Primary] # None
  /\ \A id \in Ids : host.surf[id] # None => host.surf[id] \in Surfaces
  /\ content \in Views \cup {None} /\ frame \in Frames
  /\ \A id \in Auxiliary : windows[id] # None => windows[id] \in AuxWindows
  /\ {shown, wake, posted} \subseteq BOOLEAN
  /\ capture \in Auxiliary \cup {None}
  /\ error \in {"none", "failed", "panicked"}

\* What the main window replays is what the guest last committed: no callback that
\* was kept back or rolled back leaves a frame behind, and none is missed, though
\* a frame passes through a slot that the next callback clears (take_frame).
ShowsCommitted ==
  error = "none" /\ content # None => frame = host.surf[Primary].presented

\* Every auxiliary surface has its window and no other window is left; it is shown
\* exactly when its surface is and something is shown at all (sync_auxiliary).
AuxiliaryFollows ==
  error = "none" =>
    \A id \in Auxiliary :
      /\ (windows[id] = None) = (host.surf[id] = None)
      /\ windows[id] # None => windows[id].shown = (content # None /\ host.surf[id].visible)

\* A release that the guest is told of with a region went down on the same region
\* of the same generation of layer, and while the same snapshot was shown: a layout
\* that reuses the identifiers is never clicked by a press of its predecessor.
ClickIsGenuine == hit # None => hit.press = hit.click

\* A wake is only kept for something that is shown, so a hidden theme is not called (schedule_wakeup, sync_visibility, hide).
WakeIsNeeded ==
  error = "none" =>
    (wake => content # None /\ host.surf[Primary].visible)

\* A native callback does not panic (the doc of Window::mouse).
NoPanic == error # "panicked"

\* The invariant of the host of a guest: the windows show what the guest committed,
\* exist as its surfaces do, keep wakes for what is shown, and click what was pressed.
Inv == TypeOK /\ ShowsCommitted /\ AuxiliaryFollows /\ ClickIsGenuine /\ WakeIsNeeded
=============================================================================
