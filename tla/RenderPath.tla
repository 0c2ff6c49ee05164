----------------------------- MODULE RenderPath -----------------------------
(***************************************************************************)
(* The way of a snapshot from the input engine to the candidate window:     *)
(*   - the server's publisher, a slot for the latest snapshot, and the task *)
(*     that keeps a connection to the renderer and forwards the slot        *)
(*     (server/src/renderer_bridge.rs);                                     *)
(*   - the renderer's connection tasks (renderer/src/rpc.rs);               *)
(*   - the mailbox they share with the UI thread (renderer/src/state.rs);   *)
(*   - the UI thread's message loop and what it presents                    *)
(*     (renderer/src/ui_runtime.rs).                                        *)
(* Connections and the renderer process may fail at any time.               *)
(***************************************************************************)
EXTENDS Naturals, Sequences, FiniteSets, SequencesExt

CONSTANTS
    Eager,       \* the bridge connects before anything is visible
    WireLimit,   \* frames the client queues before it gives up (32)
    MaxPublished,\* bound: snapshots the engine publishes
    MaxLinks,    \* bound: connections the bridge makes
    MaxStarts    \* bound: times the broker starts the renderer again

ASSUME ConstantsAssumption ==
    /\ Eager \in BOOLEAN /\ WireLimit \in Nat \ {0}
    /\ MaxPublished \in Nat /\ MaxLinks \in Nat /\ MaxStarts \in Nat

VARIABLES
    slot,       \* RendererPublisher::snapshots, the latest snapshot
    bridge,     \* where the bridge's task is
    link,       \* the connection it holds, 0 for none
    links,      \* connections made so far
    seen,       \* sequence the bridge's receiver marked as seen
    dirty,      \* the bridge has to send the slot
    wire,       \* frames of each connection on their way
    live,       \* connections neither end has closed
    serving,    \* connections the renderer has a task for
    owner,      \* Mailbox::owner, 0 for none
    newestOwner,\* Mailbox::newest_owner
    latest,     \* Mailbox::latest_sequence
    mail,       \* Mailbox::pending
    wakePending,\* Mailbox::wake_pending
    closed,     \* Mailbox::closed
    posts,      \* the UI thread's posted messages
    ui,         \* where the UI thread is
    message,    \* the message it handles
    taken,      \* what it took out of the mailbox
    readOwner,  \* the owner it read for a theme refresh
    presenter,  \* Presentation::events.owner
    last,       \* Presentation::last
    hint,       \* Presentation::indicator_deadline: its id, 0 for none
    hintDue,    \* that deadline is over
    shown,      \* sequence of the snapshot on the screen, 0 if hidden
    up,         \* the renderer runs
    starts,     \* times it was started again (a bound)
    newest      \* history: greatest sequence shown

bridgeVars  == <<bridge, link, links, seen, dirty>>
wireVars    == <<wire, live, serving>>
mailVars    == <<owner, newestOwner, latest, mail, wakePending, closed, posts>>
loopVars    == <<ui, message, taken, readOwner>>
screenVars  == <<presenter, last, hint, hintDue, shown, newest>>
processVars == <<up, starts>>
vars == <<slot, bridgeVars, wireVars, mailVars, loopVars, screenVars,
          processVars>>

Links == 1..MaxLinks

\* A snapshot with a visible window, one that hides it, and one that hides it
\* but asks for a mode indicator.  Each indicator is published once, so the
\* sequence number is its id too.
Kinds == {"window", "hide", "hint"}
Snapshot == [sequence : Nat, kind : Kinds]
NoSnapshot == [sequence |-> 0, kind |-> "hide"]

\* What the mailbox holds: the hide of a lost connection is no snapshot.
NoMail == [owner |-> 0, snapshot |-> NoSnapshot]
Mail(o, s) == [owner |-> o, snapshot |-> s]

Init ==
    /\ slot = NoSnapshot
    /\ bridge = "apart" /\ link = 0 /\ links = 0 /\ seen = 0 /\ dirty = FALSE
    /\ wire = [c \in Links |-> <<>>] /\ live = {} /\ serving = {}
    /\ owner = 0 /\ newestOwner = 0 /\ latest = 0 /\ mail = NoMail
    /\ wakePending = FALSE /\ closed = FALSE /\ posts = <<>>
    /\ ui = "wait" /\ message = "update" /\ taken = NoMail /\ readOwner = 0
    /\ presenter = 0 /\ last = NoSnapshot /\ hint = 0 /\ hintDue = FALSE
    /\ shown = 0 /\ newest = 0
    /\ up = TRUE /\ starts = 0

-----------------------------------------------------------------------------
\* The server.

\* RendererPublisher::publish: the number is allocated under the slot's lock.
Publish ==
    /\ slot.sequence < MaxPublished
    /\ \E k \in Kinds :
          slot' = [sequence |-> slot.sequence + 1, kind |-> k]
    /\ UNCHANGED <<bridgeVars, wireVars, mailVars, loopVars, screenVars,
                   processVars>>

\* A lazy bridge waits for something to show.
BridgeConnects ==
    /\ bridge = "apart" /\ up /\ ~closed
    /\ Eager \/ slot.kind # "hide"
    /\ links < MaxLinks
    /\ links' = links + 1 /\ link' = links + 1
    /\ live' = live \cup {links + 1} /\ serving' = serving \cup {links + 1}
    /\ bridge' = "negotiate"
    /\ UNCHANGED <<slot, seen, dirty, wire, mailVars, loopVars, screenVars,
                   processVars>>

\* Mutant: only a change of the slot is sent.
BridgeNegotiatedClean ==
    /\ bridge = "negotiate"
    /\ bridge' = "serve"
    /\ UNCHANGED <<slot, link, links, seen, dirty, wireVars, mailVars, loopVars,
                   screenVars, processVars>>

\* The capability is known, or the question failed: either way the slot is
\* sent again to the new connection.
BridgeNegotiated ==
    /\ bridge = "negotiate"
    /\ bridge' = "serve" /\ dirty' = TRUE
    /\ UNCHANGED <<slot, link, links, seen, wireVars, mailVars, loopVars,
                   screenVars, processVars>>

\* The slot changed, or the connection is new.
Unsent == dirty \/ seen # slot.sequence

BridgeSends ==
    /\ bridge = "serve" /\ Unsent
    /\ link \in live /\ Len(wire[link]) < WireLimit
    /\ seen' = slot.sequence /\ dirty' = FALSE
    /\ wire' = IF slot = NoSnapshot THEN wire
               ELSE [wire EXCEPT ![link] = Append(@, slot)]
    /\ UNCHANGED <<slot, bridge, link, links, live, serving, mailVars, loopVars,
                   screenVars, processVars>>

\* The queue is full, or the connection is gone: what was not written yet is
\* lost.
BridgeLeaves ==
    /\ bridge = "serve"
    /\ link \notin live \/ (Unsent /\ Len(wire[link]) = WireLimit)
    /\ bridge' = "apart" /\ link' = 0 /\ live' = live \ {link}
    /\ \E n \in 0..Len(wire[link]) :
          wire' = [wire EXCEPT ![link] = SubSeq(@, 1, n)]
    /\ UNCHANGED <<slot, links, seen, dirty, serving, mailVars, loopVars,
                   screenVars, processVars>>

Bridge == BridgeConnects \/ BridgeNegotiated \/ BridgeSends \/ BridgeLeaves

-----------------------------------------------------------------------------
\* UiCommandSender::send: the mailbox and the wake under one lock.

Deliver(m) ==
    /\ mail' = m
    /\ wakePending' = TRUE
    /\ posts' = IF wakePending THEN posts ELSE Append(posts, "update")

\* Mutant: an older connection is not turned away.
AcceptsAnyOwner(c, s) ==
    /\ ~closed /\ s.sequence # 0
    /\ c = newestOwner => owner = c /\ s.sequence > latest

\* Mailbox::render.
Accepts(c, s) ==
    /\ ~closed /\ c >= newestOwner /\ s.sequence # 0
    /\ c = newestOwner => owner = c /\ s.sequence > latest

ServeSnapshot(c) ==
    /\ c \in serving /\ wire[c] # <<>>
    /\ wire' = [wire EXCEPT ![c] = Tail(@)]
    /\ LET s == Head(wire[c])
       IN IF Accepts(c, s)
          THEN /\ latest' = s.sequence /\ newestOwner' = c /\ owner' = c
               /\ Deliver(Mail(c, s))
          ELSE UNCHANGED <<latest, newestOwner, owner, mail, wakePending, posts>>
    /\ UNCHANGED <<slot, bridgeVars, live, serving, closed, loopVars,
                   screenVars, processVars>>

\* Mutant: the owner is forgotten, the picture is not.
ServeEndsSilently(c) ==
    /\ c \in serving
    /\ serving' = serving \ {c} /\ live' = live \ {c}
    /\ wire' = [wire EXCEPT ![c] = <<>>]
    /\ owner' = IF ~closed /\ owner = c THEN 0 ELSE owner
    /\ UNCHANGED <<slot, bridgeVars, newestOwner, latest, mail, wakePending,
                   posts, closed, loopVars, screenVars, processVars>>

\* The task of a connection ends, in order or by an error, and its guard sends
\* the disconnection.
ServeEnds(c) ==
    /\ c \in serving
    /\ serving' = serving \ {c} /\ live' = live \ {c}
    /\ wire' = [wire EXCEPT ![c] = <<>>]
    /\ IF ~closed /\ owner = c
       THEN owner' = 0 /\ Deliver(Mail(c, NoSnapshot))
       ELSE UNCHANGED <<owner, mail, wakePending, posts>>
    /\ UNCHANGED <<slot, bridgeVars, newestOwner, latest, closed, loopVars,
                   screenVars, processVars>>

\* A connection closed by the server is read to its end.
ServeReadsEnd(c) == c \notin live /\ wire[c] = <<>> /\ ServeEnds(c)

\* Mutant: the UI thread is not told.
RendererQuitsSilently ==
    /\ up /\ ~closed /\ serving = {}
    /\ closed' = TRUE /\ mail' = NoMail
    /\ UNCHANGED <<slot, bridgeVars, wireVars, owner, newestOwner, latest,
                   wakePending, posts, loopVars, screenVars, processVars>>

\* run_rpc stops: the connection tasks are gone, and the UI is told to quit.
RendererQuits ==
    /\ up /\ ~closed /\ serving = {}
    /\ closed' = TRUE /\ mail' = NoMail
    /\ posts' = Append(posts, "quit")
    /\ UNCHANGED <<slot, bridgeVars, wireVars, owner, newestOwner, latest,
                   wakePending, loopVars, screenVars, processVars>>

-----------------------------------------------------------------------------
\* The UI thread: run_ui.

UiGetsPosted ==
    /\ ui = "wait" /\ posts # <<>>
    /\ message' = Head(posts) /\ posts' = Tail(posts)
    /\ ui' = IF Head(posts) = "quit" THEN "leave" ELSE "got"
    /\ UNCHANGED <<slot, bridgeVars, wireVars, owner, newestOwner, latest, mail,
                   wakePending, closed, taken, readOwner, screenVars,
                   processVars>>

\* The indicator's timer.
UiGetsTimer ==
    /\ ui = "wait" /\ hint # 0 /\ hintDue
    /\ message' = "timer" /\ ui' = "got"
    /\ UNCHANGED <<slot, bridgeVars, wireVars, mailVars, taken, readOwner,
                   screenVars, processVars>>

\* A window message, or a change of the system's appearance.
UiGetsOther ==
    /\ ui = "wait"
    /\ message' \in {"window", "theme"} /\ ui' = "got"
    /\ UNCHANGED <<slot, bridgeVars, wireVars, mailVars, taken, readOwner,
                   screenVars, processVars>>

\* Mutant: the wake stays marked as pending.
UiTakesAwake ==
    /\ ui = "got"
    /\ taken' = mail /\ mail' = NoMail
    /\ ui' = IF mail # NoMail THEN "apply" ELSE message
    /\ UNCHANGED <<slot, bridgeVars, wireVars, owner, newestOwner, latest,
                   wakePending, closed, posts, message, readOwner, screenVars,
                   processVars>>

\* Every message takes the mail, and the lock is released before the theme is
\* called.
UiTakes ==
    /\ ui = "got"
    /\ taken' = mail /\ mail' = NoMail /\ wakePending' = FALSE
    /\ ui' = IF mail # NoMail THEN "apply" ELSE message
    /\ UNCHANGED <<slot, bridgeVars, wireVars, owner, newestOwner, latest,
                   closed, posts, message, readOwner, screenVars, processVars>>

\* Presentation::apply and update_indicator.  Another owner clears what was
\* known; an indicator whose time is over is taken out of the snapshot.
Display(s, h) ==
    /\ shown' = IF s.kind = "window" \/ h # 0 THEN s.sequence ELSE 0
    /\ newest' = IF shown' # 0 THEN shown' ELSE newest

UiApplies ==
    /\ ui = "apply"
    /\ ui' = message
    /\ taken' = NoMail
    /\ presenter' = taken.owner
    /\ last' = taken.snapshot
    /\ LET s     == taken.snapshot
           kept  == IF presenter = taken.owner THEN hint ELSE 0
           over  == s.kind = "hint" /\ s.sequence = kept /\ hintDue
       IN /\ hint' = IF s.kind = "hint" /\ ~over THEN s.sequence ELSE 0
          /\ hintDue' = (s.kind = "hint" /\ s.sequence = kept /\ hintDue /\ ~over)
          /\ Display(s, hint')
    /\ UNCHANGED <<slot, bridgeVars, wireVars, mailVars, message, readOwner,
                   processVars>>

\* Presentation::expire_indicator.
UiExpires ==
    /\ ui = "timer"
    /\ ui' = "check"
    /\ IF hint # 0 /\ hintDue
       THEN /\ hint' = 0 /\ hintDue' = FALSE
            /\ shown' = IF last.sequence = hint /\ last.kind = "hint"
                        THEN 0 ELSE shown
       ELSE UNCHANGED <<hint, hintDue, shown>>
    /\ UNCHANGED <<slot, bridgeVars, wireVars, mailVars, message, taken,
                   readOwner, presenter, last, newest, processVars>>

\* A change of appearance: the owner is read under the lock ...
UiReadsOwner ==
    /\ ui = "theme"
    /\ readOwner' = owner
    /\ ui' = "refresh"
    /\ UNCHANGED <<slot, bridgeVars, wireVars, mailVars, message, taken,
                   screenVars, processVars>>

\* ... and Presentation::refresh draws the last snapshot again after it.
UiRefreshes ==
    /\ ui = "refresh"
    /\ ui' = "check"
    /\ IF readOwner = presenter /\ readOwner # 0
          /\ (last.kind = "window" \/ hint # 0)
       THEN Display(last, hint)
       ELSE UNCHANGED <<shown, newest>>
    /\ UNCHANGED <<slot, bridgeVars, wireVars, mailVars, message, taken,
                   readOwner, presenter, last, hint, hintDue,
                   processVars>>

\* The head of the loop, after any message that needs no more.
UiChecks ==
    /\ ui \in {"check", "update", "window"}
    /\ ui' = IF closed THEN "leave" ELSE "wait"
    /\ UNCHANGED <<slot, bridgeVars, wireVars, mailVars, message, taken,
                   readOwner, screenVars, processVars>>

UiLeaves ==
    /\ ui = "leave"
    /\ ui' = "done" /\ shown' = 0
    /\ UNCHANGED <<slot, bridgeVars, wireVars, mailVars, message, taken,
                   readOwner, presenter, last, hint, hintDue, newest,
                   processVars>>

UiGets == UiGetsPosted \/ UiGetsTimer \/ UiGetsOther
UiSteps == \/ UiTakes \/ UiApplies \/ UiExpires \/ UiReadsOwner
           \/ UiRefreshes \/ UiChecks \/ UiLeaves

\* The time of an indicator passes.
HintDue ==
    /\ hint # 0 /\ ~hintDue
    /\ hintDue' = TRUE
    /\ UNCHANGED <<slot, bridgeVars, wireVars, mailVars, loopVars, presenter,
                   last, hint, shown, newest, processVars>>

-----------------------------------------------------------------------------
\* The renderer process.

\* It exits or crashes: a new mailbox and a new UI come with the next start.
RendererDies ==
    /\ up
    /\ up' = FALSE
    /\ live' = {} /\ serving' = {} /\ wire' = [c \in Links |-> <<>>]
    /\ owner' = 0 /\ newestOwner' = 0 /\ latest' = 0 /\ mail' = NoMail
    /\ wakePending' = FALSE /\ closed' = FALSE /\ posts' = <<>>
    /\ ui' = "down" /\ message' = "update" /\ taken' = NoMail /\ readOwner' = 0
    /\ presenter' = 0 /\ last' = NoSnapshot /\ hint' = 0 /\ hintDue' = FALSE
    /\ shown' = 0
    /\ UNCHANGED <<slot, bridgeVars, newest, starts>>

RendererStarts ==
    /\ ~up /\ starts < MaxStarts
    /\ up' = TRUE /\ starts' = starts + 1
    /\ ui' = "wait"
    /\ UNCHANGED <<slot, bridgeVars, wireVars, mailVars, message, taken,
                   readOwner, screenVars>>

-----------------------------------------------------------------------------
Serve(c) == ServeSnapshot(c) \/ ServeEnds(c)

Next ==
    \/ Publish \/ Bridge
    \/ \E c \in Links : Serve(c)
    \/ UiGets \/ UiSteps \/ HintDue
    \/ RendererQuits \/ RendererDies \/ RendererStarts

Spec == Init /\ [][Next]_vars

\* The tasks of the two runtimes are scheduled, the UI thread runs its loop,
\* and time passes.  The message queue is served in order, so a posted message
\* is handled however many others come; that a timer is handled too assumes
\* that window messages leave the queue empty now and then.  Nothing makes the
\* engine publish, a connection fail or a process stop or start.
Fairness ==
    /\ WF_vars(BridgeConnects) /\ WF_vars(BridgeNegotiated)
    /\ WF_vars(BridgeSends) /\ WF_vars(BridgeLeaves)
    /\ \A c \in Links : WF_vars(ServeSnapshot(c)) /\ WF_vars(ServeReadsEnd(c))
    /\ WF_vars(UiSteps) /\ SF_vars(UiGetsPosted) /\ SF_vars(UiGetsTimer)
    /\ WF_vars(HintDue)

FairSpec == Spec /\ Fairness

-----------------------------------------------------------------------------
\* Properties.

UiPlaces == {"wait", "got", "apply", "update", "window", "timer", "theme",
             "refresh", "check", "leave", "done", "down"}

\* The type of every variable, and the bound of each connection's queue.
TypeOK ==
    /\ slot \in Snapshot
    /\ bridge \in {"apart", "negotiate", "serve"}
    /\ link \in 0..MaxLinks /\ links \in 0..MaxLinks
    /\ seen \in Nat /\ dirty \in BOOLEAN
    /\ wire \in [Links -> Seq(Snapshot)]
    /\ \A c \in Links : Len(wire[c]) <= WireLimit
    /\ live \subseteq Links /\ serving \subseteq Links
    /\ owner \in 0..MaxLinks /\ newestOwner \in 0..MaxLinks /\ latest \in Nat
    /\ mail \in [owner : 0..MaxLinks, snapshot : Snapshot]
    /\ wakePending \in BOOLEAN /\ closed \in BOOLEAN
    /\ posts \in Seq({"update", "quit"})
    /\ ui \in UiPlaces
    /\ message \in {"update", "window", "timer", "theme", "quit"}
    /\ taken \in [owner : 0..MaxLinks, snapshot : Snapshot]
    /\ readOwner \in 0..MaxLinks
    /\ presenter \in 0..MaxLinks /\ last \in Snapshot
    /\ hint \in Nat /\ hintDue \in BOOLEAN
    /\ shown \in Nat /\ newest \in Nat
    /\ up \in BOOLEAN /\ starts \in Nat

\* No wake is lost: mail is waiting only while the message that will take it
\* is queued or in hand, although any other message may take the mail and
\* clear wake_pending first (Mailbox::schedule_wake, take_pending).
WakeIsNotLost ==
    mail # NoMail => \/ \E i \in 1..Len(posts) : posts[i] = "update"
                     \/ ui = "got"

\* A picture whose connection is gone, or was replaced, is on its way out: the
\* hide or the successor is in the mailbox or in the UI thread's hands, even
\* if a theme change draws the old snapshot once more.
StaleIsLeaving ==
    shown # 0 /\ owner # presenter =>
        mail # NoMail \/ taken # NoMail \/ closed

\* Over reconnections and restarts, with frames of an old connection still
\* being served, the window never goes back to an older snapshot.
Shown == INSTANCE Display WITH published <- slot.sequence, onScreen <- shown
ImplementsDisplay == Shown!Spec

\* With the connection up and the engine silent, the window ends up showing
\* the engine's last snapshot, or nothing if that hides it.
Expected == IF slot.kind = "window" THEN slot.sequence ELSE 0
LatestIsShown ==
    <>[](bridge = "serve" /\ link \in live) => <>[](shown = Expected)

\* When the last connection is gone the window is hidden, and stays so.
LostIsHidden == <>[](serving = {}) => <>[](shown = 0)

\* A mailbox that is closed ends the UI thread.
QuitEnds == closed ~> (ui = "done" \/ ~up)

\* The invariant of the path: the types, mail that is always found by a wake, and
\* no picture of a lost or replaced connection that is not on its way out.
Inv == TypeOK /\ WakeIsNotLost /\ StaleIsLeaving
=============================================================================
