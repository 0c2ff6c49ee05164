---------------------------- MODULE EngineWorker ----------------------------
(***************************************************************************)
(* The thread that owns the input engine (server/src/worker.rs) and the     *)
(* facts other tasks leave for it without a message.  A fact is stored      *)
(* first and the thread unparked after:                                     *)
(*   - a work item in the bounded mailbox (Sender::try_send);               *)
(*   - the active context's geometry (read_connection: push_layout, then    *)
(*     the drop of the request's lease);                                    *)
(*   - the end of the client's task (ClientLife::drop);                     *)
(*   - the renderer's preedit capability (renderer_bridge::spawn);          *)
(*   - the request to stop (Worker::request_stop).                          *)
(* The thread empties the mailbox, runs Engine::idle and parks.             *)
(***************************************************************************)
EXTENDS Naturals

CONSTANTS
    QueueLimit,  \* engine mailbox (engine::QUEUE_CAPACITY)
    MaxMessages, \* bound: work items sent
    MaxChanges   \* bound: changes of the renderer's capability

\* What is assumed of the constants.
ConstantsAssumption ==
    QueueLimit \in Nat \ {0} /\ MaxMessages \in Nat /\ MaxChanges \in Nat

VARIABLES
    queue,    \* work items in the mailbox
    layout,   \* the connection holds geometry for the active context
    alive,    \* the client's task runs
    preedit,  \* RendererPublisher::preedit
    stop,     \* Worker::stop
    ready,    \* Worker::ready
    owed,     \* tasks that stored a fact and did not unpark yet
    token,    \* the thread's unpark token
    at,       \* where the thread is
    parks,    \* it found the mailbox empty, and parks after idle
    sawPreedit, \* what processing the item read of the capability
    known,    \* Engine::clients holds the client
    external, \* its composition is left to the renderer
    messages, changes \* counters of the bounds

factVars   == <<queue, layout, alive, preedit>>
stopVars   == <<stop, ready>>
loopVars   == <<at, parks>>
engineVars == <<sawPreedit, known, external>>
boundVars  == <<messages, changes>>
vars == <<factVars, stopVars, owed, token, loopVars, engineVars, boundVars>>

Tasks == {"sender", "reader", "life", "bridge", "owner"}

Init ==
    /\ queue = 0 /\ layout = FALSE /\ alive = TRUE /\ preedit = FALSE
    /\ stop = FALSE /\ ready = FALSE
    /\ owed = {} /\ token = FALSE
    /\ at = "create" /\ parks = FALSE
    /\ sawPreedit = FALSE /\ known = FALSE /\ external = FALSE
    /\ messages = 0 /\ changes = 0

-----------------------------------------------------------------------------
\* The other tasks: a fact, then the unpark.

Owe(t) == t \notin owed /\ owed' = owed \cup {t}

Unpark(t) ==
    /\ t \in owed
    /\ owed' = owed \ {t} /\ token' = TRUE
    /\ UNCHANGED <<factVars, stopVars, loopVars, engineVars, boundVars>>

\* Sender::try_send never waits, and unparks even if the mailbox was full.
TrySend ==
    /\ alive /\ messages < MaxMessages
    /\ messages' = messages + 1
    /\ queue' = IF queue < QueueLimit THEN queue + 1 ELSE queue
    /\ Owe("sender")
    /\ UNCHANGED <<layout, alive, preedit, stopVars, token, loopVars,
                   engineVars, changes>>

PushLayout ==
    /\ alive
    /\ layout' = TRUE
    /\ Owe("reader")
    /\ UNCHANGED <<queue, alive, preedit, stopVars, token, loopVars, engineVars,
                   boundVars>>

ClientEnds ==
    /\ alive
    /\ alive' = FALSE
    /\ Owe("life")
    /\ UNCHANGED <<queue, layout, preedit, stopVars, token, loopVars,
                   engineVars, boundVars>>

\* A new connection to the renderer, or the end of one.
PreeditChanges ==
    /\ changes < MaxChanges
    /\ changes' = changes + 1
    /\ preedit' = ~preedit
    /\ Owe("bridge")
    /\ UNCHANGED <<queue, layout, alive, stopVars, token, loopVars, engineVars,
                   messages>>

\* Worker::request_stop, and the drop of the worker: two stores, an unpark.
RequestStop ==
    /\ "closing" \notin owed /\ ~stop
    /\ ready' = FALSE
    /\ owed' = owed \cup {"closing"}
    /\ UNCHANGED <<factVars, stop, token, loopVars, engineVars, boundVars>>

\* Mutant: the thread is not told.
StoreStopSilently ==
    /\ "closing" \in owed
    /\ stop' = TRUE
    /\ owed' = owed \ {"closing"}
    /\ UNCHANGED <<factVars, ready, token, loopVars, engineVars, boundVars>>

StoreStop ==
    /\ "closing" \in owed
    /\ stop' = TRUE
    /\ owed' = (owed \ {"closing"}) \cup {"owner"}
    /\ UNCHANGED <<factVars, ready, token, loopVars, engineVars, boundVars>>

Outside ==
    \/ TrySend \/ PushLayout \/ ClientEnds \/ PreeditChanges
    \/ RequestStop \/ StoreStop

-----------------------------------------------------------------------------
\* The thread: Worker::spawn.

Create ==
    /\ at = "create"
    /\ \/ at' = "loop" /\ ready' = TRUE
       \/ at' = "done" /\ UNCHANGED ready
    /\ UNCHANGED <<factVars, stop, owed, token, parks, engineVars, boundVars>>

\* The head of the loop.
Look ==
    /\ at = "loop"
    /\ at' = IF stop THEN "drop" ELSE "receive"
    /\ UNCHANGED <<factVars, stopVars, owed, token, parks, engineVars, boundVars>>

Receive ==
    /\ at = "receive"
    /\ IF queue > 0
       THEN queue' = queue - 1 /\ at' = "received" /\ parks' = FALSE
       ELSE queue' = queue /\ at' = "idle" /\ parks' = TRUE
    /\ UNCHANGED <<layout, alive, preedit, stopVars, owed, token, engineVars,
                   boundVars>>

\* An item taken out of the mailbox is dropped when the stop came first.
LookAgain ==
    /\ at = "received"
    /\ at' = IF stop THEN "drop" ELSE "process"
    /\ UNCHANGED <<factVars, stopVars, owed, token, parks, engineVars, boundVars>>

\* Engine::message: a key, and the capability as it is read in its middle.
ReadCapability ==
    /\ at = "process"
    /\ sawPreedit' = preedit
    /\ at' = "apply"
    /\ UNCHANGED <<factVars, stopVars, owed, token, parks, known, external,
                   boundVars>>

Apply ==
    /\ at = "apply"
    /\ IF alive
       THEN /\ known' = TRUE
            /\ \E composing \in BOOLEAN : external' = (composing /\ sawPreedit)
       ELSE UNCHANGED <<known, external>>
    /\ at' = "idle"
    /\ UNCHANGED <<factVars, stopVars, owed, token, parks, sawPreedit, boundVars>>

\* Engine::idle, in its order: back to inline text without the capability,
\* the active context's geometry, the clients that ended.
IdleInline ==
    /\ at = "idle"
    /\ external' = (external /\ (preedit \/ ~known \/ ~alive))
    /\ at' = "layout"
    /\ UNCHANGED <<factVars, stopVars, owed, token, parks, sawPreedit, known,
                   boundVars>>

IdleLayout ==
    /\ at = "layout"
    /\ layout' = (layout /\ ~(known /\ alive))
    /\ at' = "retain"
    /\ UNCHANGED <<queue, alive, preedit, stopVars, owed, token, parks,
                   engineVars, boundVars>>

IdleRetain ==
    /\ at = "retain"
    /\ known' = (known /\ alive)
    /\ at' = IF parks THEN "parking" ELSE "loop"
    /\ UNCHANGED <<factVars, stopVars, owed, token, parks, sawPreedit, external,
                   boundVars>>

LookBeforePark ==
    /\ at = "parking"
    /\ at' = IF stop THEN "loop" ELSE "parked"
    /\ UNCHANGED <<factVars, stopVars, owed, token, parks, engineVars, boundVars>>

Wakes ==
    /\ at = "parked" /\ token
    /\ token' = FALSE /\ at' = "loop"
    /\ UNCHANGED <<factVars, stopVars, owed, parks, engineVars, boundVars>>

\* Sessions are dropped after readiness is withdrawn and before the end.
DropProcessor ==
    /\ at = "drop"
    /\ ready' = FALSE /\ known' = FALSE /\ external' = FALSE
    /\ at' = "done"
    /\ UNCHANGED <<factVars, stop, owed, token, parks, sawPreedit, boundVars>>

Thread ==
    \/ Create \/ Look \/ Receive \/ LookAgain \/ ReadCapability \/ Apply
    \/ IdleInline \/ IdleLayout \/ IdleRetain \/ LookBeforePark \/ Wakes
    \/ DropProcessor

-----------------------------------------------------------------------------
Next == Outside \/ (\E t \in Tasks : Unpark(t)) \/ Thread

Spec == Init /\ [][Next]_vars

\* The thread runs, and a task that stored a fact goes on to its unpark.
Fairness ==
    /\ WF_vars(Thread) /\ WF_vars(StoreStop)
    /\ WF_vars(\E t \in Tasks : Unpark(t))

FairSpec == Spec /\ Fairness

-----------------------------------------------------------------------------
\* Properties.

Places == {"create", "loop", "receive", "received", "process", "apply", "idle",
           "layout", "retain", "parking", "parked", "drop", "done"}

\* The type of every variable, and the bound of the mailbox.
TypeOK ==
    /\ queue \in 0..QueueLimit
    /\ layout \in BOOLEAN /\ alive \in BOOLEAN /\ preedit \in BOOLEAN
    /\ stop \in BOOLEAN /\ ready \in BOOLEAN
    /\ owed \subseteq Tasks \cup {"closing"} /\ token \in BOOLEAN
    /\ at \in Places /\ parks \in BOOLEAN
    /\ sawPreedit \in BOOLEAN /\ known \in BOOLEAN /\ external \in BOOLEAN
    /\ messages \in Nat /\ changes \in Nat

\* The facts the thread has not seen to yet.
Unseen ==
    \/ queue > 0 \/ stop
    \/ known /\ ~alive
    \/ known /\ alive /\ layout
    \/ known /\ alive /\ external /\ ~preedit

\* The thread never sleeps over a fact: whatever moment a fact is stored at,
\* a token is there or an unpark is still owed.
NeverSleepsOverFact == at = "parked" /\ ~token /\ owed = {} => ~Unseen

\* A composition is left to the renderer only by an engine that is awake, or
\* about to be, once the renderer cannot show it (Engine::idle).
InlineIsRestored ==
    <>[](~preedit) => <>[](~external \/ ~alive \/ ~known \/ at = "done")

\* A request to stop ends the thread, whatever is in the mailbox.
StopEnds == stop ~> at = "done"

\* A client that is gone leaves the engine.
ClientIsDropped == <>[](~alive) => <>[](~known)

\* The thread neither leaves its types nor sleeps over a fact.
Inv == TypeOK /\ NeverSleepsOverFact

\* Every fact another task stores is seen to: a lost capability, a request to
\* stop, a client that is gone.
FactsAreSeen == InlineIsRestored /\ StopEnds /\ ClientIsDropped
=============================================================================
