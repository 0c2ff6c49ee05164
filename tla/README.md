# weasel-rs, modelled in TLA+

weasel-rs is a Rime input method for Windows.  Its parts are separate
processes that talk over named pipes, and almost everything that is hard to
test in it is concurrency and order: two threads in the host application,
connections that come and go, a host that grants edits late, a worker thread
that sleeps, a renderer that dies and is started again, windows that keep what
they drew.  This directory models those parts in TLA+, checks the models with
TLC on small instances, and proves the safety of all but one with TLAPS.

## 1. The system

| process | threads | what it does |
|---|---|---|
| TIP (`tip/`), loaded in every host application | the host's COM thread; one private thread with a tokio runtime | takes keys from TSF, asks the server, edits the host's text |
| server (`server/`) | tokio runtime; one engine thread that owns librime | admits TIP connections, runs the input engine, publishes snapshots |
| server with `--deploy-ui` | window thread, worker, detached writer of events | runs the native deployer and shows its log |
| renderer (`renderer/`, `themes/`) | tokio runtime; one STA UI thread with a theme | shows the candidate window |
| broker (`broker/`) | tray, monitor, operation thread, settings service | starts and watches the server and the renderer, deploys, restarts, publishes settings |
| settings (`settings/`) | one UI thread | edits the user's settings file |

Keys and context commands go from the TIP to the server, replies and pushed
responses come back on the same pipe, and so do measures of where the
composition stands.  Snapshots go from the server to the renderer, clicks come
back.  The broker pings, shuts down and starts both, and reads the events of
the deployment.  The settings window writes a file and asks the broker for a
restart; a renderer that starts asks the broker for its theme.

### Components, their state and their operations

* **TIP push target** (`tip/src/rpc_worker.rs`, `PushTarget`).  State: three
  atomic words (`cancellation`, `epoch`, `connection_generation`) that form a
  gate, two failure flags, a queue of pushed replies.  Hard: every load and
  store of two threads interleaves.  Correct when a closed connection stays
  closed, is reported, and no reply of it is taken for one of a later
  connection.
* **TIP command queue and contexts** (`tip/src/rpc_worker.rs`, `WorkerState`;
  `tip/src/service/context.rs`).  State: a bounded channel of commands with
  deadlines, one waiter per key, the contexts opened on the connection, a token
  per context.  Hard: the 80 ms deadline races the answer on both sides, and
  replies come on two ways.  Correct when a key that was given up changes
  nothing any more, and no live reply is lost or overtaken.
* **TIP edit scheduling** (`tip/src/service/composition.rs`,
  `edit_session.rs`).  State: a queue of edits, one session in flight with a
  ticket, a composition per document.  Hard: the host grants late, refuses,
  forgets, and edits on its own, also while a session writes.  Correct when a
  commit is written once and in order and never beside its raw keys.
* **Connection admission** (`server/src/admission.rs`, `main.rs`,
  `client_connection.rs`).  State: a semaphore of active slots, the active
  connections, the pending count, per connection what is in flight.  Hard: the
  victim list is a snapshot, notices can be missed, permits can be granted to
  somebody who is leaving.
* **Engine worker** (`server/src/worker.rs`, `Engine::idle`).  State: a bounded
  mailbox, stored facts, the thread's unpark token.  Hard: a fact that is
  stored while the thread is about to park.
* **Engine sessions** (`server/src/engine.rs`, `session_route.rs`).  State: a
  session per context and connection with its revision, mode, measured place
  and pending indicator; the active client; what the renderer was told.  Hard:
  measures, clicks and the place of an indicator are answers to an older state.
* **Render path** (`server/src/renderer_bridge.rs`, `renderer/src/`).  State:
  the latest snapshot, the connection, the renderer's one-place mailbox with
  its owner, what is shown.  Hard: old connections still being served, a wake
  merged with another, a picture redrawn after its owner left.
* **RPC client and server** (`common/src/rpc/`).  State: pending requests,
  bounded queues, a signal that ends both tasks of a side.  Hard: a timeout
  races an answer and a close.
* **Themes** (`themes/`).  State: the presentation a WebAssembly guest
  committed, its windows, wakes and captured mouse; bitmaps, visuals and
  surfaces kept from the last frame; in the native themes the view, the press,
  the measured size and the recovery from a lost device.  Hard: everything that
  is kept to make the next frame cheap may be stale.
* **Broker supervision and operations** (`broker/src/service_supervisor.rs`,
  `operations.rs`).  State: the children, a backoff each, the operation in
  progress, BUSY.  Hard: a child that exits while an operation owns it or while
  the broker stops; an operation any of whose steps fails.
* **Broker settings service and notifications** (`settings_rpc.rs`,
  `notifications.rs`).  State: a permit for the disk, blocking operations that
  outlive their clients, the published settings, a flag.
* **Deployment** (`server/src/deploy_ui.rs`, `deploy_job.rs`,
  `deploy_telemetry.rs`).  State: the window's bounded mailbox, the worker, the
  result's slot and its writer.  Hard: the result goes three ways, the window
  may fail to be made, the log is dropped from its front.
* **Settings window** (`settings/src/`).  State: a draft, three editors of it,
  errors, the file as last read.  Hard: other programs write the file too, and
  a save has two parts.

Not modelled, with the reason for each in `PROJECT.json`: secure fields,
registration, the language bar and diagnostics, the updater, the silent
deployment, the preview window, geometry and text layout, the format of frames,
access rights, and librime itself, which is a nondeterministic choice where the
code calls it.

## 2. Modules

| module | models | checked by |
|---|---|---|
| `PushTarget` | the gate, the flags and the reply queue of the TIP, each atomic access a step | `MCTip` |
| `PushTargetProofs` | the theorems about it | TLAPS |
| `TipRpc` | a key from the host to the engine and back: command queue, worker, engine sessions, reply queue, contexts | `MCTipRpc`, `MCTip` |
| `TipRpcInvariant` | the inductive invariant behind its properties | TLAPS |
| `TipRpcProofs` | the proof that it is inductive, and the theorems | TLAPS |
| `EditScheduler` | replies as edits of the host's document | `MCTip` |
| `RpcCall` | one RPC connection with its four tasks | `MCServer` |
| `Admission` | admission, promotion, retirement, leases | `MCAdmission`, `MCServer` |
| `AdmissionProofs` | the theorems about it | TLAPS |
| `EngineWorker` | the engine thread's mailbox and parking protocol | `MCServer` |
| `EngineSession` | sessions, measures, modes, indicators and clicks | `MCEngineSession` |
| `EngineSessionProofs` | the theorems about it | TLAPS |
| `Deploy` | the deployment process and what the broker reads of it | `MCServer` |
| `Server` | `EngineWorker`, `Admission`, `Deploy` and `RpcCall` as parts of one specification | `MCServer` |
| `ServerProofs` | the theorem about three of them | TLAPS |
| `Display` | what the render path promises | (abstract specification) |
| `RenderPath` | publisher, bridge, renderer connections, mailbox, UI thread | `MCRenderPath` |
| `RenderPathProofs` | the theorems about it, and that it implements `Display` | TLAPS |
| `ThemeHost` | the transactions of a WebAssembly guest and its windows | `MCThemes`, `MCThemeHost` |
| `Compositor` | resources, canvas, visuals and device losses of such a window | `MCThemes` |
| `ThemeAbc`, `ThemeTen`, `ThemeEleven` | the three native themes | `MCThemes` |
| `Themes` | these five as parts of one specification | `MCThemes` |
| `ThemesProofs` | the theorems about all five | TLAPS |
| `Supervisor` | the broker's main thread, monitor and operation worker, and its processes | `MCBroker`, `MCSupervisor` |
| `SettingsService` | the broker's settings service beside a restart | `MCBroker` |
| `SettingsWindow` | the settings application | `MCBroker` |
| `BrokerSettings` | the two of them side by side | `MCBroker` |
| `BrokerProofs` | the theorems about these and `Supervisor` | TLAPS |

`MCServer` (by way of `Server`), `MCThemes` (by way of `Themes`), `MCTip` and
`MCBroker` each check several parts that share no state in the code.  A variable
`part`, chosen in the initial state and never changed, says which part the
behaviour is of, and the others stay in an initial state of theirs (`MCThemes`
fixes which one, as it makes no difference to the part that runs); so such a run explores the sum of its parts and not their
product, and nothing is claimed of their interleaving.  `BrokerSettings` does
interleave its two parts, and its theorems hold for that; `MCBroker` runs one at
a time, which loses nothing, since neither reads a variable of the other.
Where parts of the
system do interact, they are in one module: the TIP's worker with the engine's
sessions (`TipRpc`), the host's measures with the engine and the renderer's
clicks (`EngineSession`), the server's bridge with the renderer
(`RenderPath`), the broker's three threads with its children (`Supervisor`),
the settings service with the restart (`SettingsService`), the deployment's
window with the events the broker reads (`Deploy`).

A definition that begins with the comment "Mutant" is a plausible bug in the
definition after it; it is used by no specification and shows that a property
would notice.

### PushTarget

| model | code (`tip/src/rpc_worker.rs`) |
|---|---|
| `BeginConnect` ... `StoreEpoch` | `connect_client`, in the order of its loads and stores; `rt` is where the runtime thread is |
| `WorkerInvalidates`, `RuntimeZeroesEpoch`, `RuntimeReports` | `disconnect_invalidated_client` and `PushTarget::invalidate`, store by store |
| `SubscriptionDisconnected`, `SubscriptionFails`, `CheckUpdate`, `PushUpdate` | the subscription task and `enqueue_update` |
| `HostInvalidates`, `HostZeroesEpoch`, `HostReports` | `invalidate` as the COM thread calls it |
| `LoadGeneration` ... `ReloadCancellation`, `Answer` | `current_epoch`, bare or under the lock of `take_context_updates` |

The worker task and the subscription task share one single-threaded runtime,
so there is one program counter for both and a task is left only at an await.
Atomics are sequentially consistent in the model.  The code uses acquire and
release; the words are stored by few threads, and the model's interleavings of
single loads and stores are those of a sequentially consistent machine, so a
reordering that only a weaker memory would show is not covered.  Posting the
window message is left out: it carries no data and the receiver drains the
queue whenever it comes.  `seen`, `restamped` and `closed` are history.

Properties:

* `OpenGateIsOwned`: an open gate belongs to the connection the worker holds,
  and no half-done invalidation of the runtime thread is behind it.
* `ClosureIsReported`: a closed gate is reported by `connection_failed()` once
  the invalidation is over, although the flag is cleared and set by two
  threads in any order.
* `OpensUncancelled`: the gate never opens for a handshake that was overtaken
  by an invalidation, even one that comes after the handshake's only check.
* `NeverReopened`: an epoch once closed never opens again (while there were
  fewer connections than the counter has values).
* `ReadIsExact`: the lock-free read answers an epoch that is open at its last
  load, provided no handshake stored its generation during the read.

### TipRpc

| model | code |
|---|---|
| `AskKey` ... `Decide`, `ReuseTested`, `PassKey` | `forward_key_event` and `process_key_event` on the COM thread |
| `Focus`, `Cancel`, `Remove`, `Submit`, `Quarantine` | `service/context.rs`, `context_command`, `quarantine` |
| `ExpireKey`, `TakeCommand` ... `Timeout` | `WorkerState::run`, `dispatch` and the handlers, one action between two awaits |
| `Forward`, `SubscriptionEnds` | the subscription task and `enqueue_update` |
| `ServeOpen`, `ServeKey`, `ServeCommand`, `Refuse`, `Push` | `Engine::message`, `SessionRoute`, `Engine::renderer_event` |

`PushTarget` has the gate word by word; here it is one word, `live`, so that
the paths of a key fit.  The reply to a key takes two: it completes the
worker's request, whose result only decides whether the key was consumed, and
it goes through the subscription into the queue the COM thread drains, from
which alone the text is edited.  Time is not modelled but for one fact of the
code, which `TakeCommand` states: a key's deadline (80 ms) and the host's wait
(100 ms) start at the same moment, so a key the host gave up while it was still
queued has expired.  A command the worker has begun may run on for as long as
it likes, which is more than the code allows.

A reply is its token, its revision, the key it answers and whether it consumed
it.  The steps of an edit are in `EditScheduler`, measures and modes in
`EngineSession`.

Properties: `AbandonedIsSilent` (a key that was given up never changes the
text); `RepliesAreRouted` (a live reply is somewhere on its way to the text
until it is there, replies change the text in the engine's order, and the
worker's record of opened contexts is the engine's); `Inv` (types, and the
engine refuses no request of an open gate); `OncePerPress` (a tested key is
asked once).  `OncePerPress` leaves out a cancellation between the two
callbacks: the code keeps one tested key for all contexts and forgets it when
any of them is cancelled.  The violation run `tip_rpc_passed`: the connection
drops after the reply to a key was applied and before its token is compared
again, and the key is left to the host as well.

### EditScheduler

| model | code (`tip/src/service/`) |
|---|---|
| `Requested`, `Scheduled`, `Passed` | `request_edit_session`, `schedule_edit` |
| `Matches`, `FirstStep`, `Started` ... `Disconnected` | `PendingEdit::matches`, `EditStep`, the steps in `composition.rs` |
| `Grant`, `GrantFails`, `RejectReadonly`, `Refuse`, `Forget`, `StaleEnds` | `ResponseEdit::DoEditSession` and what it does with each failure; `Drop` of the session and its reservation |
| `Delivered`, `Drained`, `CleanedUp`, `Update` | `drain_context_updates`, `cleanup_disconnected_composition`, the update window |
| `ClickOutside`, `HostDeletes`, `HostTerminates`, `RemoveContext` | `on_host_edit`, `OnCompositionTerminated`, `remove_context` |

The state is one record, `Now`, because a callback of the host runs inside a
call of ours: a commit that ends the composition (`Grant`'s third case) runs
`OnCompositionTerminated` before it returns.  The ticket, which only tells the
session in flight from older ones, is `inflight` against `stale`.

Properties: a commit is written once and in order, though a session that
failed in its write may have written (`CommittedOnceInOrder`); raw keys are
never put back beside the text committed for them (`RawOrCommitted`); a step
finds the composition it changes (`StepsFindComposition`); keys are held back
only while a task is going to end it (`FinishingHasTask`); what waits will be
called (`WorkIsRoused`); a quiet document shows what the engine has
(`QuietAgrees`, which exempts behaviours with a lost or refused session); and
`HostWins`: what the host did is not overwritten by an edit asked for before.

### RpcCall

Four tasks: a reader and a writer on each side.  `Ask` ... `TimesOut` are
`RpcClient::request` and `PendingRequests`, cut where another thread may run;
`Write...`, `Reads...`, `ServerReads`, `ClientPublishes` and `ClientCompletes`
are the tasks; `Closes` is `close_connection`, whose order (requests first,
then the signal) is kept; `Bind`, `Connect`, `Accept` and `AcceptFails` are the
listener's instances.  A message is a number; what cannot be packed or unpacked
is `Bad`.  Properties: nobody waits behind the last drain, places among the
pending requests are given back, subscribers see an answer before the request
returns, an error is the last thing the business hears, and, under fairness and
without any deadline, the end of one task is the end of the connection and of
its requests, and a client that got an instance is served.

### Admission

| model | code |
|---|---|
| `Accept` | `serve`, `Gate::start` |
| `Frame`, `Close`, `Written` | the connection's reader and writer, `Activity::request`, `finish_write` |
| `TakeOpen`, `TakeIntent`, `TakeActive`, `Leave...` | `read_connection`, `Admission::drop` |
| `Check`, `RetireFirst`, `Enqueue`, `Admit`, `Wake` | `Admission::promote`, one action per part between two points where another task may run |
| `PassPermit`, `Withdraw` | tokio's semaphore: first come, first served; a dropped acquire leaves the queue, or passes its permit on |
| `EngineApplies`, `EngineFinishes` | `Engine::process`: the connection is classified before the request's lease is dropped |

The lock of `Gate::peers` is held from the listing of the victims to the last
try (`PeersUnlocked`); each victim's own lock is taken twice, so what it does in
between is interleaved.  Control requests, geometry updates, log events and the
one mode restoration a pending connection may send are left out: they take no
slot.  The deadline of two seconds may come at any moment (`LeaveLate`).

Properties: permits and pending places are conserved (`CountsAreExact`); a
retired connection has nothing in flight anywhere (`RetiredIsQuiet`); a
promotion that listens never sleeps over a connection it could reclaim, unless a
notification is on its way (`ListenerIsWoken`); and a promotion ends without the
help of its deadline (`PromotionEnds`).  The last two exempt a promotion that already retired a
peer, because `promote` stops listening then.

### EngineWorker

Every fact a task leaves for the engine thread is stored by one action and the
unpark is another (`owed` holds who stored and did not unpark yet).  The thread
is `Worker::spawn`'s loop, with `Engine::process` and `Engine::idle` split where
they read a fact.  `process` runs `idle` once itself before the loop does; the
model runs it once, and leaves out the unpark the thread gives itself when it
drops a lease, which could only wake it more often.  Spurious returns of park
are left out for the same reason.

Properties: the thread never sleeps over a fact (`Inv`), and what follows from
it under fairness, `FactsAreSeen`: a capability that is gone puts the preedit
back inline, a request to stop ends the thread, a client that ended is dropped.

### EngineSession

| model | code |
|---|---|
| `Type`, `Return`, `MoveFocus`, `Act`, `Remove`, `Lose`, `Connect` | the host's side of a command, `service/context.rs`, `key_event.rs`, `WorkerState` |
| `Drain`, `Cleanup`, `LayoutChange`, `Measure` | what a reply does to the document, and `service/layout.rs`, which measures it |
| `Send`, `HasLayout` | the way of a measure: one mailbox a host, taken back by every command of a context, sent when no command waits; then one place a context in the server's connection |
| `KeyEvent`, `ContextCommand`, `SetAscii`, `Destroy` | `Engine::message`, `SessionRoute::observe` |
| `Event`, `Accepts` | `Engine::renderer_event`, `accepts_ui` |
| `IdleInline`, `IdleLayout`, `IdleRetain` | `Engine::idle`, in its order |
| `AfterKey`, `AfterCommand`, `AfterEvent` | librime, external: what may happen to a native session |

A composition has the number of its birth, which a measure carries as its
anchor, with the connection the composition is of; so a property can tell whose
geometry is used.  A state of librime has a number of its own, which a click
carries, so a property can tell what was on the screen.  None of them is in the
code, and no guard reads them.  A measure that is sent is at the server at once:
nothing the engine does for that host comes between, because the pipe keeps the
order and the host's later commands follow.

Properties: `OwnMeasureEndsWait` (a composition that waits for its geometry is
placed by its own measure, however late the one of its predecessor is),
`ClickMeansWhatWasSeen`, `IndicatorTellsTheMode`, `ImportanceIsTrue` (the
admission's summary of a connection is what librime and the focus say of its
sessions) and `Inv` (the renderer is told of the session with the focus only,
what is visible is its last state, and no command of a session is refused as
stale, which would end the connection).

The violation run `engine_session_blur`: that candidates always stand where
their own composition was measured, `GeometryIsOwn`, does not hold.  A blur
ends the wait of a composition that goes on; a measure that the host made before
it applied the new composition then fits, and after the focus has come back the
new candidates are shown at the old place.  The exemption in
`OwnMeasureEndsWait` is another way there: after a reconnection the host may
measure a composition the old connection left, with the token of the new one and
a revision of the old one, which no longer says what is older.

### Deploy

| model | code (`server/src/`) |
|---|---|
| `StartDeployer`, `Publish`, `DeployerExits`, `ReleaseGuard`, `ReportResult`, `FinishUi`, `WorkerEnds` | `deploy_job.rs`, `run` and `run_process`, and the ends of its reporters |
| `Push`, `Newest`, `Taken`, `Notified` | `UiMailbox` and `LogBuffer`: the beginning is dropped, and said to be |
| `Writer...` | the detached writer of `deploy_telemetry.rs` between its parks |
| `StartXaml`, `StartDialog`, `Dialog...`, `WindowMessage`, `CloseWindow`, `Fail...`, `Exits` | `deploy_ui.rs`: the window, the Task Dialog that takes its place, and the exit |

Properties (`Inv`): the data is deployed once, also when the window fails after
the worker started; what is shown is the end of the output without an unmarked
gap; nobody is told of the result before the lock is released; it is the last
event and comes once.  `OutcomeArrives`: it comes to be shown, the dialog's
button to be enabled and the broker to be told, unless a message or the pipe
was lost, or the process ended first.

### Display and RenderPath

`Display` is the promise: the window shows something published or nothing, and
never goes back.  `RenderPath` follows a snapshot through the publisher's slot
(`Publish`), the bridge (`Bridge...`), the frames of each connection (`wire`),
the renderer's task per connection (`Serve...`), the mailbox (`Accepts`,
`Deliver`) and the message loop of the UI thread (`Ui...`), and implements
`Display` (`ImplementsDisplay`, with `published` the slot's number and
`onScreen` what is shown).  A connection may fail at any moment, losing any
suffix of what was not written; its task may go on serving what was; the
renderer may die and be started again with an empty mailbox.

Kept small: a snapshot has a number and one of three kinds (window, hidden,
indicator only); an indicator's identity is the number of the snapshot that
brought it; contents are valid; the theme supports indicators and is not
resident; theme calls do not fail.

Further properties: `Inv` (mail waits only with a wake under way, although any
message may take it; a picture whose owner is gone is on its way out, even when
a theme change redraws it), `LatestIsShown`, `LostIsHidden`, `QuitEnds`.

### Themes

`ThemeHost` is the host of a WebAssembly guest.  A callback of the guest is a
script: an edit of its presentation, an outcome (it presents, keeps what is
there, or fails) and what it asks for; `Transact` is `WasmRuntime::transact`,
which commits the edit or rolls it back; `Settle`, `Synced` and
`Merged` are what the window does after each call; the pointer's, the timer's
and the renderer's messages are the actions.  Properties: the windows show what
the guest last committed and exist as its surfaces do, wakes are kept only for
what is shown, and a click is of one press on one layer (`Inv`).  The violation
run `theme_pointer`: `Window::mouse` holds a borrow of its state in an argument
while the callee borrows it mutably (`PointerOnPrimary`).  A panic is the end of
a behaviour, so the other properties of the main window's pointer are not
reached; clicks are checked on auxiliary windows.

`Compositor` is how such a window draws, the main one or an auxiliary one: the
resources of the guest (`Make`, `Release`), the canvas that skips a frame it has
drawn and keeps bitmaps by handle (`Replayed`), the visuals of animated layers
(`Layered`), the surface whose size follows panel and monitor (`Panelled`,
`Targeted`, `Resized`) and the wait after a lost device (`GraphicsError`,
`Waiting`).  A call that draws may fail anywhere, so `Painting`, `Clearing` and
`Resizing` are sets of what may come of them.  Only `WM_PAINT` leaves a waiting
window alone (`Paint`): what a callback presents is painted during the wait as
well (`Commit`, `Syncing`), which may end the wait or lose the device again, and a
change of size, a hidden layer or a new monitor may lose it too (`Resize`, `Hide`,
`ScaleChanges`).  The timer's message may come late, and the renderer's loop takes
it without dispatching it (`Expire`, `Retry`, `RetryIgnored`).  Properties: the
quota holds, what is drawn is the frame's own resource, a replaced layer never
moves with its predecessor's animation (`PicturesAreOwn`); a window on the screen
has drawn what it is to show, has a `WM_PAINT` coming or waits, and a wait has its
timer (`DrawnOrDue` and `WaitIsTimed`, together `LossIsRepaired`).  What is drawn is
what the canvas has on record as its last frame.

`ThemeAbc` includes the plug-in bridge and the presentation state of the
renderer (`Presentation`, `theme_dll.rs`, `plugin.rs`), because whether a view
is rendered again, and whether a click still counts, is decided there.  One
action is one turn of the UI thread's loop.  `ThemeTen` names a size and a
picture by the content and the DPI they are for, since moving the window may
change the DPI inside the call (`Walks`).  `ThemeEleven` has the three things it
keeps between renders: the tree's content, its measured size and the palette.
Properties: windows exclude one another, are drawn as they are or are due to
be, keep nothing when hidden and forward the click of one press (abc), and the
first frame exposed is of the new content (`FirstFrameIsNew`); a window has the
size its content needs at its monitor and is drawn in its present colours
(ten); a tree that is only moved is whole and of the present palette, and
fallbacks of the configuration are reported (eleven).

### Supervisor

| model | code (`broker/src/`) |
|---|---|
| `ClearStale` ... `Install`, `Exit` ... `End` | the main thread: `runtime.rs`, `shutdown_all`, `join` |
| `Monitor...`, `Tick` | `monitor_children`, `monitor_child`, `RestartBackoff` |
| `Begin`, `Acquire` ... `Restore`, `WakeAfterRestore`, `PublishResult`, `Notify`, `TakeResult` | `operations.rs`: both operations with what each step does when it fails |
| `ShowMenu`, `ShowResult` | `tray.rs` |
| `TakeLock`, `Leave`, `Crash`, `DeployerEnds` | the children, each of which holds its component's named lock while it serves |
| `BrokerRestarts` | the broker is killed; its children watch it, the native deployer does not |

Properties: `Inv` (no running service is forgotten, the monitor sleeps over no
death it must answer, BUSY is not left behind), `ExitIsComplete` (an exit
leaves nothing behind that a slot, the worker or the monitor holds),
`BrokerRecovers` (both components run for good once operations stop, whatever
failed before, and the exit gets through).  The violation run
`supervisor_race`: the monitor looks at the server's lock, leaves the state's
mutex and starts the server, and a deployment that begins in between finds
nothing to stop and starts its own process beside it.

### SettingsService and SettingsWindow

`SettingsService`: `Request` ... `JobEnds` are a client's request and the
blocking operation that owns the permit; `Ends` is a client's end, which the
operation survives; `Break` and `ShutDown` the service's; `RestartBegins` ...
`RendererStarts` the restart of `operations.rs`.  Properties: one operation is
on the disk and the permit is neither lost nor doubled, waiters are real, one
notification in a life of the flag whoever reports, a renderer starts with what
is published.

`SettingsWindow`: the three editors (`Edit`, `SetFile` ..., `AddApp` ...) over
one draft, and a save cut into `Save`, `Compare`, `Persist`, `WriteUpdate` and
`Finish`, since other programs own the file and the preference as well.
Properties: a row shows what the draft holds whichever editor wrote it, a
window that is not dirty has nothing unsaved also after half a save, saving is
barred for a reason, a value that breaks its schema is an old one, unless its
section counts as changed; a save replaces only what it read, unless a write
came between its two steps (`ForeignSurvives`), writes a value that breaks its
schema only if it read one (`OddIsNotWritten`), and one that applies leaves nothing saved that waits for a
restart (`ApplyAsks`, which exempts a save of the updater's preference alone).

## 3. Runs

| run | instance | distinct states |
|---|---|---|
| `tip_rpc` | 2 contexts, queues of 2, 2 keys, 1 change of focus, 2 connections, 1 pushed reply | 2.0 million |
| `admission` | 3 connections, 1 slot, 2 pending places, mailbox of 1, 6 frames | 3.7 million |
| `engine_session` | 2 contexts of one host, 2 connections, one mode for all, 2 compositions, 4 moves (keys, focus, actions of the host, layout changes, a loss, a click, a renderer that comes or goes) | 756 thousand |
| `render_path` | 2 snapshots, 2 connections, wire of 1, 1 restart, fair | 499 thousand |
| `server` | engine: mailbox of 1, 1 message, 2 capability changes; admission: 2 connections, 1 slot, 5 frames; deployment: 2 pieces of output, preview of 1, log queue of 1, 2 faults; RPC: 2 requests, 1 pending place, queues and pipe of 1, 1 event, 1 fault; all fair | 202 thousand |
| `tip` | gate: 2 contexts, 3 epochs, queue of 1, 3 invalidations, 3 handshakes, 2 replies; contexts: 2 contexts, 1 key, 2 moves, 1 connection; edits: 1 document, 2 replies, 2 connections, 2 interventions, 1 fault | 839 thousand |
| `themes` | host: 2 snapshots, 1 auxiliary surface, 1 layer; drawing: 3 resources, quota of 2, 2 scales, 2 layers, 2 retries, 2 faults; abc, ten, eleven: 2 contents, 1 fault, 2 DPIs | 567 thousand |
| `broker` | supervision: 2 servers, 1 renderer, 1 deployer, 1 fault, fair; service: 2 clients, 2 requests, 1 write, 1 restart; window: 3 edits, 1 foreign write | 667 thousand |
| `tip_rpc_passed` | 1 context, 1 key, 1 connection | violated, as described |
| `supervisor_race` | supervision as in `broker` | violated, as described |
| `engine_session_blur` | 1 context, 1 connection, 2 compositions, 6 moves | violated, as described |
| `theme_pointer` | host as in `themes` | violated, as described |

Why the bounds are enough.

* *tip*, gate: a misbehaviour needs one handshake, one invalidation and one
  read to overlap; the instance has three of the first two, and a counter of
  three epochs wraps onto 0 in it.
* *tip_rpc*: two connections give an old and a new epoch, two keys a test and
  its press, or a late key and the next, and a focus, two keys and a push
  overflow a queue of two.  *tip*, contexts (`RepliesAreRouted` once more, as a
  part of `TipInv`): two moves change the focus from one context to another, or
  cancel or remove the one that has it while its key is out; the two instances
  share the work because their product does not fit.
* *tip*, edits: two replies give a commit and a later state, or two commits in
  the wrong order; two connections an old composition; two interventions one
  before and one during a session.
* *admission*: six frames let three connections each open and show an intent,
  which is the least for two promotions to contend for the slot of a third;
  with one slot a full semaphore is the normal case.  For `PromotionEnds`
  (*server*) two connections and five frames are one that holds the slot, falls
  silent and is reclaimed by the other.
* *server*, engine: a mailbox of one is both empty and full, two changes of the
  capability give one and its opposite.  Deployment: two pieces overflow a
  preview and a queue of one; two faults let the window fail and then its
  dialog, or a message and the pipe.  RPC: one pending place is both free and
  taken, queues of one are both empty and full, two requests let one be late.
* *engine_session*: two births give an old composition's measure and a new
  one's place; four moves are a key, another that ends it, one that begins
  again and a click or a loss in between; or a key, a loss, and a key on the
  second connection.  The violation needs six (three keys, a blur and a focus
  after the first focus).  The proof (section 5) is of any number of all of these.
* *render_path*: two connections give an old and a new owner, two snapshots an
  old and a new picture, a wire of one frame is both empty and full.
* *themes*: three resources with a quota of two let one be made after another
  was released while a frame still holds it, or a bitmap of it is kept; one layer
  in place of another, one content in place of another, and a monitor that is left
  and returned to need two of each.  Two faults are a second loss during the wait
  for the first, or a loss and a failure that ends the theme.
* *broker*: a second server is the one started while the first is dying; one
  fault is put anywhere, and what must come true comes true after it.  Two
  clients contend for the permit, and one write changes a layer between its
  reading and its publication.  Three edits put two editors on one field and
  save in between.

Deadlock is not checked: bounded counters, closed connections and processes
that ended are legitimate ends.  What must get somewhere is stated as liveness
where the code's scheduling justifies fairness (section 4).  Symmetry is used where no liveness is checked.

## 4. Fairness

Only what the code schedules is fair.  Clients, users, failures, deadlines, the
engine's publications, crashes and process exits are never forced.

* `Admission`: the connection tasks, the writing of a queued reply (a write
  that takes two seconds closes the pipe), the closing of a retired connection,
  and the engine.
* `EngineWorker`: the thread, the request to stop, the unpark that follows a
  store.
* `RenderPath`: the bridge, the connection tasks and the message loop.  The
  posted messages and the indicator's timer are strongly fair: the thread's
  queue is served in order, and a timer is handled when window messages leave
  the queue empty now and then.
* `Deploy`: the worker, the writer and what the main thread does for a message
  it was sent; the user's clicks are not fair.
* `RpcCall`: each task, the business of the server, and the listener.
* `Supervisor`: the monitor, the worker, the main thread, children that start
  and leave when told (one condition for all of them), and time.  Faults come
  out of a budget, so liveness speaks of what happens after the last.

In a run of several parts each condition is that of its module restricted to
the behaviours of its part.  The other modules have no liveness: what a theme,
a settings window, an edit session or an engine session must do eventually
waits on a user or a host, whom nothing obliges.

## 5. Proofs

Every component has proofs but `EditScheduler`.  What they assume is:

* `PushTarget`, `Admission`, `RenderPath` and `TipRpc`: their
  `ConstantsAssumption` (the bounds are natural numbers, the queues hold at least
  one, there are at least two epochs, the connections of `Admission` and the
  contexts of `TipRpc` are finitely many, and the mark for no context is none of
  them);
* `EngineSession`: `SessionAssumption` and `NoneIsNoValue`;
* `Supervisor`: `PidsAreDisjoint` and `FaultsAreBounded`;
* `EngineWorker`, `Deploy` and `RpcCall`: `ConstantsAreRight` of `Server` (sizes
  are natural numbers, the engine's mailbox and the preview hold at least one,
  requests are numbers other than 0);
* `SettingsService` and `SettingsWindow`: `SettingsConstants` (the bounds are
  natural numbers, the marks for what is not there are no values);
* the themes: `ConstantsAreRight` of `Themes` (sizes are natural numbers, there is
  a scale and a DPI, the marks for what is not there are no values).

All use the library's theorems about sequences, finite sets and well-founded
orders.

`PushTargetProofs` proves, for every number of contexts, epochs, replies and
connections: `TypeCorrect`, `OpenGateOwned`, `ClosureReported`, `ReadExact`,
`Uncancelled`, `NeverReopens`.  None of the properties is inductive.  The
invariant `IInv` is `TypeOK` with four parts: `GateInv` (generations lag behind
invalidations; the published epoch is the held connection's or 0; what each
place of the runtime thread implies), `ReportedInv` (no epoch and no failure
means somebody is about to flag or to publish), `ReadInv` (while the loads of a
read still stand, the epoch it loaded is the published one) and `FreshInv`
(epochs are handed out in order and the one being published was never open).
Each part has a lemma with one step per action; the action properties follow
from `IInv` and one step.  That an epoch is not reused rests on
`SmallRemainder`, a lemma about `%`.  The bound of the reply queue in `TypeOK`
rests on `PushUpdate` alone adding to the queue, on the runtime thread.

`TipRpcProofs` proves all that run `tip_rpc` checks, for any number of contexts,
keys, moves, connections and pushed replies and any size of the two queues:
`ChannelInvariant`, `AbandonedStaysSilent`, `RepliesStayRouted` and
`TestedIsNotAskedAgain`.  They follow from one inductive invariant, `IInv` of
`TipRpcInvariant`, whose eighteen parts TLC found true in every state of the
instance of run `tip_rpc` before they were proved (`MCTipRpc` extends that module, so that `IInv` can be
added to its `.cfg`).  Its argument, in the order of the proof:

* `GateIsOwned`: an open gate is that of the connection the worker holds, and
  whatever waits in the stream or in the reply queue is of it.  `JobIsServed`,
  `AnswerFits` and `SessionsAreOpened` tie the worker's command, its request, the
  engine's answer, the sessions and the contexts opened together.  The worker
  closes, or is cancelled, at any of its awaits, so each says what is left.
* That the engine refuses nothing needs the order of a context's commands from
  the engine back to the host: `GenerationsGrow` runs from the session over the
  worker's command and the queue to the context.  `EnqueueShape` says in one
  place what any of the host's operations may append, and `DestroyIsLast` that a
  context that was removed gets nothing more.
* That a key given up is silent needs, for every place its command or its reply
  may be at, why it can have no effect (`AbandonedIsDead`): in the queue it has
  expired, with a worker that is connecting the attempt was cut, later its token
  has an epoch that is no longer live and that no later gate will have
  (`Dead`).  That needs `AskedOnce`: the key is at one place only.
* That no reply is lost or overtaken needs more than where replies are: a drain
  accepts a reply only above the revision its route knows.  `Coming` says that
  nothing of the context in front of the reply would push the route past it,
  `RepliesAreKnown` that a route or a reply of the connection never has a
  revision above its session's, or the context is gone for good and its last
  command served.  `NothingIsSkipped` carries the order over into the edits.
* `PressIsTested`: a pressed key whose token is still its context's is the one
  in the cache, which is what `OncePerPress` is about.

`AdmissionProofs` proves the three invariants of run `admission` for every set
of connections, number of slots, size of the engine's mailbox and number of
frames: `GateCounts`, `RetiredQuiet` and `ListenerWoken`.

* That a retired connection has nothing in flight is not inductive, because
  `Activity::retire` looks at counters and not at the places where requests
  are.  `Accounted` closes the gap: the counter of a connection is the sum of
  what is in its inbox, in the hand of its reader, in the engine's mailbox and
  in the engine.  The lemmas on `Places` say how a sequence's number of
  occurrences moves when a request joins or leaves it.
* That no promotion sleeps over a reclaimable peer needs `ListenInv`: while it
  listens and was not notified, every reclaimable active connection is still in
  its list with its present rank.  It is listed with the peers locked, every
  change that makes a connection reclaimable notifies, and a victim that fails
  to be retired is no longer what it was when listed.
* `SeatsInv` says who is active and who may stand in the semaphore's queue; the
  conservation of permits needs it when a connection leaves while it waits.

`RenderPathProofs` proves `PathInvariant`, the invariant of run `render_path`,
and `Implements`: the path implements `Display` for any number of snapshots,
connections and restarts and any size of a connection's queue.

* The refinement needs to know that what the UI thread is about to draw is not
  older than what was drawn.  `WireInv` orders the frames on their way: those of
  a newer connection are not older than those of an older one, than what the
  mailbox took, or than what was shown.  `OrderInv` carries the order on from
  the slot to the mailbox, to what was taken out of it, and to the window;
  `PictureInv` says that a theme change redraws what was shown last.  A
  renderer that dies forgets its counters, but the frames on their way die with
  it, and what a new connection carries (always the one with the greatest
  number, `LinksInv`) is the slot, which is as new as anything shown.
* `LoopInv` pairs the wake flag with a message in the queue or in hand, and
  `OwnerInv` says that whoever is behind the mailbox's owner (the mail, what was
  taken, the owner read for a redraw) has other mail still before it; together
  they give `WakeIsNotLost` and `StaleIsLeaving`.

`EngineSessionProofs` proves all that run `engine_session` checks, for any
number of hosts, contexts, connections, moves and compositions, either scope of
the mode and every choice of `Acts` and `Reasons`: `SessionInvariant`,
`IndicatorInvariant`, `ImportanceInvariant`, `ClicksTakeWhatWasSeen` and
`WaitEndsWithOwnMeasure`.  The step lemmas (`DocSteps`, `QueuesStep`,
`SessionsStep`, `RepliesStep`, `MailsStep`, `LayoutsStep`) reduce the twenty-odd
actions to what may happen to one document, queue, session, reply or measure;
the invariant's parts are kept by those alone.

* That no command is stale (`NothingIsStale`) rests on the order of a host's
  queue (`QueueInv`) and on a session's time being that of a command before
  them.
* That an indicator is of the present mode is not inductive: the focus hands a
  session the global mode without taking back an indicator that waits
  (`ContextCommand`).  No session can get the focus with one waiting, because the
  host sends a blur, or what else ends the context's turn, between any command
  of a context and its next focus.  `BlurInv` says so of the queue, `PendingInv`
  of a session with an indicator and the queue in front of it.
* That a click is of the state shown needs that a session that is opened again
  under the same key, with its revisions from 0, is never that of an old click.
  `FreshInv`: either the context is gone, with no command left to open it, or
  nothing refers to the key.
* That a wait ends with the composition's own measure needs `OwnInv`: every
  reply, document, letter and layout of the session's connection whose revision
  is at least the one waited for carries the composition that waits.  An edit
  that starts a composition forgets the revision applied, so what is measured
  between the two edits is too old for any wait.
* `ShownInv` ties the snapshot to the active session, and `InputInv` adds to
  `ImportanceIsTrue` that a connection whose last session is closed is told so
  at once, since `idle` tells nothing to a connection without sessions.

`BrokerProofs` covers all of run `broker` but its liveness.  Of the supervision it
proves `SupervisorInvariant` and `ExitLeavesNothing`, for every set of processes
and number of faults.

* A service the broker forgot is one no slot, thread or deployer holds while it
  runs and was not told to stop.  That is not inductive: a place that
  overwrites a reference must find it empty.  `MonitorInv`, `WorkerInv` and
  `MainInv` say of each place of the three threads which references it holds,
  and `ThreadsInv` which threads run together (no monitor before the startup is
  over, no worker's operation once the main thread has joined it), so that a
  slot is written by one of them.
* `StaleInv` is about the beginning: what ran before this broker is told or up
  until `clear_stale` has waited for it, and nothing is started before that.
* `BusyInv` strengthens `BusyIsAnswered`: a flag that is set has a result that
  waits for the main thread, or a worker before its last step.

`ServerProofs` proves `ServerInvariant`, the invariant of run `server`, for
every size of the mailboxes, queues, previews and pipes and any number of
messages, pieces of output, requests, events and faults.  The three parts share
nothing, so each has an inductive invariant of its own, and a step of one part
leaves the others' alone.

* `EngineInv`.  That the thread does not park over a fact is not inductive: one
  may be stored at any place of the loop, in front of the look at it or behind.
  `FactsRouse` has a line for each fact: from the place where the thread last
  looked at it, one that is there again has an unpark pending or owed.
* `WindowInv`.  `StageInv` follows the deployment from the window's attempts to
  the worker that is started once, by the window or by the dialog that takes its
  place.  `OutcomeInv` lists every place the result may be at - the mailbox, the
  window, the dialog's four, the slot, the pipe - and says that whatever is there
  comes after the deployer's end, when the lock is free.  `TailInv` is stronger
  than what it proves: it counts what waits in the mailbox and what is shown
  against what was produced, so that a piece can only be missing where a mark
  says so.  `LogInv` and `WireInv` keep the log and the result apart, which makes
  the result the last event.
* `RpcInv`.  `RegisteredInv`: a request that waits is registered, and none is
  once either task of the client's side has drained the requests; so nobody
  waits on a dead connection.  The client closes the requests before it signals
  the end, and a request registers under the same lock as it checks.
  `PublishedInv` and `ServedInv` carry the order of the two ways a reply takes and
  of the listener's instance.  That places are given back is about the
  cardinality of the registered requests.

Of the settings `BrokerProofs` proves `SettingsInvariant` and `SavesStayHonest`, for
any number of clients, edits and writes.

* Service: `HolderInv` says who has the permit: nobody, a client it was granted
  to, or an operation, which `JobInv` leaves to a client that is gone.
  `QueueInv` says that the semaphore's queue is of those that wait, each once; a
  permit given back goes to its head (`ReleaseFacts`), and a client that leaves
  takes its place with it or hands a granted permit on (`Withdraw`).
* Window: `RowsTellDraft` and `BarredForReason` are kept together (`RowsInv`), as
  an editor changes row, draft and errors at once.  `DraftInv` is what makes "not
  dirty" mean "saved": without a change the draft is what was read.  `SaveInv`
  says what a save relies on at each of its places; in particular that what is
  being written was valid in every changed section, and that the file is what was
  read, unless somebody wrote after the comparison.  With `OddIsOld`, which keeps
  an invalid value from coming in by another section, that gives
  `OddIsNotWritten`.

`ThemesProofs` proves all that run `themes` checks, for any number of surfaces,
layers, snapshots, resources, scales, DPIs, contents and faults:
`HostInvariant`, `PicturesInvariant`, `LossesAreRepaired`, `AbcInvariant` and
`FirstFramesStayNew`.  As in `ServerProofs` each part has an inductive invariant
of its own, and a step of one part leaves the others' alone (`OneSteps`).

* Host (`HostIInv`).  Between two calls the frame that the window replays is what
  its surface presents and nothing is pending on it.  That holds through two
  callbacks in one render, the second of which clears the slot the first one
  filled and may then be rolled back: `TransactFacts` says that a callback leaves
  what it found or has its frame pending, and `HandedFacts` that the frame taken
  in between is not lost.  That a click is genuine needs `Remembers`: the press a
  surface has is the pointer's, on the snapshot that is shown; a new snapshot and
  a hidden theme let the presses go, and a surface that is opened has none.
* Drawing (`DrawIInv`).  `WorkIs` is about canvas, surface, visual and wait
  together, as the code changes one after the other and any of it may fail in
  between: what was kept by handle is the resource that has the handle, what is on
  the surface is the frame on record, and a wait has its timer.  Each operator
  that is a call of the code has a lemma that it leads from such work to such work
  (`Leads`: on the way no frame is kept but the one before, the one after or none,
  and no scale but those two), so an action with several ends is one chain of
  them.  The quota is about the cardinality of what is alive, which only `Make`
  adds to.  `LossesAreRepaired` needs in addition that every step that gives up
  what was drawn, or replaces it, leaves a `WM_PAINT` coming or a wait
  (`DrawnOrDue` is inductive with it).
* Abc (`AbcIInv`).  `WindowIs` says of each window that it is on the screen exactly
  while it has a content, that it is drawn or due to be, and that its press is
  the one on record.  A view is three turns (`Turns`), each of which keeps it
  of one window, also when a turn before it failed; `FirstFrameIsNew` follows
  from the turn that brings a window to the screen (`ComesWhole`).
* Ten and eleven.  A move goes through one to three DPIs; `IsWalk` says of such a
  walk what the window's size needs, so that the size is for the last DPI or the
  window is marked (`astray`).  Their invariants are nearly inductive:
  `TenIInv` adds that the window is shown exactly while it has a content,
  `ElevenIInv` that nothing is kept before the theme is created.

Only model-checked, with the reason:

* every liveness property: fairness and `ENABLED` are out of the prover's reach;
* `TipInv`'s part about edits, and `HostWins`: `EditScheduler` computes a
  document and a composition by folding over its replies, and what a fold
  computes for any number of them would need induction over data.  Its other
  part, `RepliesAreRouted`, is `RepliesStayRouted` of `TipRpcProofs`.

## 6. Observations

Four disagreements of the code with its own comments have runs of their own
(section 3).  Others were met while modelling; they are at the lines below, and
no property claims their absence.

* `tip/src/rpc_worker.rs:110`: without `ReadIsExact`'s proviso the lock-free
  read may answer an epoch that was open at no moment of it.
* `tip/src/rpc_worker.rs:125`: an invalidation flags last, so a handshake that
  began after its bump may end as an open connection reported as failed.
* `tip/src/service/context.rs:347`: one tested key serves every context; see
  `OncePerPress`.
* `tip/src/rpc_worker.rs:282`: a blur for a context that a new connection has
  not seen opens its session without restoring the mode.
* `tip/src/service/context.rs:471`: the cleanup of a lost composition is asked
  for once; if its session is forgotten by the host, it is not asked again.
* `server/src/admission.rs:119`: a promotion that retired a peer stops
  listening; if the permit goes to somebody else it sleeps to its deadline.
* `server/src/engine.rs:141`: a measure may name a revision the session does not
  have yet, and is believed.
* `server/src/renderer_bridge.rs:110`: a snapshot the renderer refuses ends the
  connection, and the bridge sends it again on the next one.
* `renderer/src/ui_runtime.rs:486`: an indicator that expired is shown again
  after a reconnection.
* `renderer/src/ui_runtime.rs:705`: the message loop dispatches no `WM_TIMER`, so
  a theme's own timers (a retry after a lost device, a guest's wake) reach its
  windows only through a nested loop, such as a drag's.  The theme modules let
  them come at any time, which is more than the code does and enough for safety;
  `Compositor` also lets the loop take a retry's message and do nothing
  (`RetryIgnored`), and then `WaitIsTimed` says that the timer goes on, not that
  the wait ends.
* `themes/wasm/src/canvas.rs:113`: `ensure_target` takes a new DPI over before
  `set_panel` compares it, so the surface gets its new size while the last frame
  stays on record, and an equal frame is not drawn on it.  It takes a paint that is
  the first to see the DPI: `ScaleChangesHeld`, an auxiliary window that gets
  `WM_DPICHANGED` while it holds the mouse, whose guest presents the frame it shows
  when the mouse is released.  `DrawsItsResource` speaks of surfaces something was
  drawn on, and `DrawnOrDue` of the frame on record.
* `themes/wasm/src/window.rs:55`: a waiting window is said to skip drawing; only
  `WM_PAINT` does.
* `settings/src/main.rs:366`: after a save without applying, a save of the
  updater's preference alone that applies asks for no restart.
* `settings/src/main.rs:397`: a refused path of a module leaves its error behind
  when a later edit shows the old path again, and saving stays barred with
  nothing wrong on the screen; an invalid field in a section that a change of
  theme hides does the same.
* `broker/src/settings_rpc.rs:111`: a listener that fails ends the settings
  service, and nobody is told.

## 7. Plan

1. `SettingsWindow` with two modules, so that moving one past the other is an
   edit; the catalogue of themes.
2. Activation and deactivation of the TIP around `EditScheduler`, and secure
   fields before `TipRpc`'s queue.
