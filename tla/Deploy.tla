------------------------------- MODULE Deploy -------------------------------
(***************************************************************************)
(* The deployment process (server --deploy-ui: deploy_ui.rs, deploy_job.rs,*)
(* deploy_telemetry.rs) and the broker that reads its standard output.     *)
(*                                                                         *)
(* Three threads: main owns the window (XAML, or a Task Dialog when that   *)
(* cannot be made), the worker runs the native deployer and publishes what *)
(* it prints, and a detached writer sends events to the broker.  They meet *)
(* in the mailbox of the window and in the telemetry.  When main returns   *)
(* the process ends, whatever the others are doing.                        *)
(*                                                                         *)
(* A piece of the deployer's output is a number; the limits of bytes are   *)
(* limits on the number of pieces.                                         *)
(***************************************************************************)
EXTENDS Naturals, Sequences, SequencesExt

CONSTANTS
  MaxOutput,   \* bound on the pieces of output
  Preview,     \* pieces the mailbox and the log buffer keep (PREVIEW_LIMIT)
  LogQueue,    \* log events that wait for the writer (64)
  MaxFaults    \* bound on what goes wrong

\* What is assumed of the constants.
DeployAssumption == {MaxOutput, Preview, LogQueue, MaxFaults} \subseteq Nat /\ Preview > 0

VARIABLES
  main,      \* what the main thread does
  kind,      \* the window it runs: "xaml" or "dialog"
  guard,     \* who holds deploy-ui-active
  worker,    \* what the worker does
  runs,      \* deployments started
  produced,  \* pieces the deployer printed
  mail,      \* UiMailbox.pending
  waking,    \* UiMailbox.wake_pending
  posted,    \* deployment messages in the window's queue
  text,      \* LogBuffer
  finished,  \* FINISHED: the result is shown and the window may close
  dialog,    \* the Task Dialog: its window, the cached and the shown OK button, a send
  logs,      \* Telemetry.logs
  slot,      \* Telemetry.completion
  closed,    \* Telemetry.closed
  writer,    \* what the writer does
  token,     \* the writer's park token
  told,      \* Telemetry.finished
  wire,      \* what was written to standard output
  stalled,   \* the pipe takes nothing any more
  faults

vars == <<main, kind, guard, worker, runs, produced, mail, waking, posted, text, finished,
          dialog, logs, slot, closed, writer, token, told, wire, stalled, faults>>

ui == <<mail, waking, posted, text, finished, dialog>>
telemetry == <<logs, slot, closed, writer, token, told, wire>>

EmptyMail == [chunks |-> <<>>, omitted |-> FALSE, complete |-> FALSE]

Lives == main # "exited"

\* The last n elements of a sequence.
Newest(s, n) == IF Len(s) > n THEN SubSeq(s, Len(s) - n + 1, Len(s)) ELSE s

Fault == faults < MaxFaults /\ faults' = faults + 1

(***************************************************************************)
(* The worker publishes.                                                   *)
(***************************************************************************)
\* Mutant of Push: what is dropped is not marked.
PushUnmarked ==
  /\ worker = "child" /\ produced < MaxOutput
  /\ produced' = produced + 1
  /\ IF kind = "xaml"
     THEN LET chunks == Append(mail.chunks, produced + 1)
          IN  mail' = [mail EXCEPT !.chunks = Newest(chunks, Preview)]
     ELSE UNCHANGED mail
  /\ worker' = "pushed"
  /\ UNCHANGED <<main, kind, guard, runs, waking, posted, text, finished, dialog, stalled, faults>>
  /\ UNCHANGED telemetry

\* Mutant of Push: nothing makes room.
PushUnbounded ==
  /\ worker = "child" /\ produced < MaxOutput
  /\ produced' = produced + 1
  /\ mail' = IF kind = "xaml" THEN [mail EXCEPT !.chunks = Append(@, produced + 1)] ELSE mail
  /\ worker' = "pushed"
  /\ UNCHANGED <<main, kind, guard, runs, waking, posted, text, finished, dialog, stalled, faults>>
  /\ UNCHANGED telemetry

\* run's publish, UiMailbox::log: the oldest pieces make room; the Task Dialog
\* shows no log.
Push ==
  /\ worker = "child" /\ produced < MaxOutput
  /\ produced' = produced + 1
  /\ IF kind = "xaml"
     THEN LET chunks == Append(mail.chunks, produced + 1)
          IN  mail' = [mail EXCEPT !.chunks = Newest(chunks, Preview),
                                   !.omitted = @ \/ Len(chunks) > Preview]
     ELSE UNCHANGED mail
  /\ worker' = "pushed"
  /\ UNCHANGED <<main, kind, guard, runs, waking, posted, text, finished, dialog, stalled, faults>>
  /\ UNCHANGED telemetry

\* UiMailbox::notify: one message at a time; a post that fails leaves the mail to
\* the next message of any kind.
Notified ==
  \/ /\ kind = "dialog" \/ waking
     /\ UNCHANGED <<waking, posted, faults>>
  \/ /\ kind = "xaml" /\ ~waking
     /\ waking' = TRUE /\ posted' = posted + 1 /\ UNCHANGED faults
  \/ /\ kind = "xaml" /\ ~waking /\ Fault
     /\ UNCHANGED <<waking, posted>>

\* Log events in the queue; the one the writer has taken is the head of logs.
Waiting == Len(logs) - (IF writer = "log" THEN 1 ELSE 0)

\* publish, second half: the window is told, and the telemetry gets the piece if
\* there is room.
Publish ==
  /\ worker = "pushed"
  /\ Notified
  /\ logs' = IF Waiting < LogQueue /\ writer # "gone" THEN Append(logs, produced) ELSE logs
  /\ token' = TRUE
  /\ worker' = "child"
  /\ UNCHANGED <<main, kind, guard, runs, produced, mail, text, finished, dialog, slot, closed,
                 writer, told, wire, stalled>>

\* run_process: the deployer is started, or cannot be.
StartDeployer ==
  /\ worker = "started"
  /\ runs' = runs + 1
  /\ \/ worker' = "child" /\ UNCHANGED faults
     \/ worker' = "ended" /\ Fault
  /\ UNCHANGED <<main, kind, guard, produced, ui, telemetry, stalled>>

\* The end of the deployer is the end of the deployment.
DeployerExits ==
  /\ worker = "child"
  /\ worker' = "ended"
  /\ UNCHANGED <<main, kind, guard, runs, produced, ui, telemetry, stalled, faults>>

\* drop(guard): the next deployment may begin.
ReleaseGuard ==
  /\ worker = "ended"
  /\ guard' = "free" /\ worker' = "released"
  /\ UNCHANGED <<main, kind, runs, produced, ui, telemetry, stalled, faults>>

\* Telemetry::finish.
ReportResult ==
  /\ worker = "released"
  /\ slot' = TRUE /\ token' = TRUE
  /\ worker' = "reported"
  /\ UNCHANGED <<main, kind, guard, runs, produced, ui, logs, closed, writer, told, wire, stalled,
                 faults>>

\* UiSink::finish: the mailbox gets the result, apart from the log; the Task
\* Dialog's button is cached, and the window that was seen then is told.
FinishUi ==
  /\ worker = "reported"
  /\ IF kind = "xaml" THEN mail' = [mail EXCEPT !.complete = TRUE] /\ UNCHANGED dialog
     ELSE /\ dialog' = [dialog EXCEPT !.cached = TRUE, !.sending = dialog.window]
          /\ UNCHANGED mail
  /\ worker' = "finished"
  /\ UNCHANGED <<main, kind, guard, runs, produced, waking, posted, text, finished, telemetry,
                 stalled, faults>>

\* The window is told; then run returns and drops the telemetry.
WorkerEnds ==
  /\ worker = "finished"
  /\ Notified
  /\ dialog.sending => main # "applying"      \* SendMessage waits for the dialog's thread
  /\ dialog' = [dialog EXCEPT !.sending = FALSE, !.shown = @ \/ (dialog.sending /\ dialog.window)]
  /\ closed' = TRUE /\ token' = TRUE
  /\ worker' = "gone"
  /\ UNCHANGED <<main, kind, guard, runs, produced, mail, text, finished, logs, slot, writer, told,
                 wire, stalled>>

(***************************************************************************)
(* The writer (Telemetry::spawn_writer).                                   *)
(***************************************************************************)
WriterOnly == UNCHANGED <<main, kind, guard, worker, runs, produced, ui, closed>>

\* The slot comes before the queue.
WriterLooks ==
  /\ Lives /\ writer = "look"
  /\ writer' = IF slot THEN "done" ELSE "recv"
  /\ slot' = FALSE
  /\ UNCHANGED <<logs, token, told, wire, stalled, faults>> /\ WriterOnly

\* A log is taken from the queue; a result that came meanwhile supersedes it.
WriterReceives ==
  /\ Lives /\ writer = "recv"
  /\ \/ logs # <<>> /\ writer' = (IF slot THEN "look" ELSE "log")
     \/ logs = <<>> /\ writer' = (IF closed THEN "closing" ELSE "park")
  /\ logs' = IF logs # <<>> /\ slot THEN Tail(logs) ELSE logs
  /\ UNCHANGED <<slot, token, told, wire, stalled, faults>> /\ WriterOnly

\* Mutant of WriterCloses: the slot is not looked at again.
WriterClosesBlind ==
  /\ Lives /\ writer = "closing"
  /\ writer' = "gone"
  /\ UNCHANGED <<logs, slot, token, told, wire, stalled, faults>> /\ WriterOnly

\* The telemetry is closed: a result that was stored before is still sent.
WriterCloses ==
  /\ Lives /\ writer = "closing"
  /\ writer' = IF slot THEN "look" ELSE "gone"
  /\ UNCHANGED <<logs, slot, token, told, wire, stalled, faults>> /\ WriterOnly

WriterWakes ==
  /\ Lives /\ writer = "park" /\ token
  /\ token' = FALSE /\ writer' = "look"
  /\ UNCHANGED <<logs, slot, told, wire, stalled, faults>> /\ WriterOnly

\* An event is written; a write that fails ends the writer.
WriterWrites ==
  /\ Lives /\ writer \in {"log", "done"} /\ ~stalled
  /\ \/ /\ wire' = Append(wire, IF writer = "log" THEN Head(logs) ELSE 0)
        /\ told' = (told \/ writer = "done")
        /\ writer' = IF writer = "log" THEN "look" ELSE "gone"
        /\ UNCHANGED faults
     \/ /\ Fault
        /\ writer' = "gone" /\ UNCHANGED <<told, wire>>
  /\ logs' = IF writer = "log" THEN Tail(logs) ELSE logs
  /\ UNCHANGED <<slot, token, stalled>> /\ WriterOnly

\* Nobody reads an inherited pipe any more.
Stall ==
  /\ Lives /\ ~stalled /\ Fault
  /\ stalled' = TRUE
  /\ UNCHANGED <<main, kind, guard, worker, runs, produced, ui, telemetry>>

(***************************************************************************)
(* The main thread.                                                        *)
(***************************************************************************)
StartedWorker(k) ==
  /\ kind' = k /\ guard' = "worker" /\ worker' = "started" /\ writer' = "look"

\* A deployment window is open already: the failure is reported.
FindsAnother ==
  /\ main = "init" /\ Fault
  /\ guard' = "other" /\ main' = "failing"
  /\ UNCHANGED <<kind, worker, runs, produced, ui, telemetry, stalled>>

\* run_initialized: the window stands and the worker starts with the guard.
StartXaml ==
  /\ main = "init"
  /\ StartedWorker("xaml") /\ main' = "loop"
  /\ UNCHANGED <<runs, produced, ui, logs, slot, closed, token, told, wire, stalled, faults>>

\* with_fallback: no window can be made and the guard is still there.
StartDialog ==
  /\ main = "init" /\ Fault
  /\ StartedWorker("dialog") /\ main' = "showing"
  /\ UNCHANGED <<runs, produced, ui, logs, slot, closed, token, told, wire, stalled>>

\* The thread of the worker cannot be made: the guard went with it, so that
\* nothing falls back.
SpawnFails ==
  /\ main = "init" /\ Fault
  /\ guard' = "free" /\ main' = "failing"
  /\ UNCHANGED <<kind, worker, runs, produced, ui, telemetry, stalled>>

\* A failure is reported by a telemetry of its own, for two seconds at most.
Fails ==
  /\ main = "failing"
  /\ slot' = TRUE /\ token' = TRUE /\ writer' = "look" /\ main' = "waiting"
  /\ UNCHANGED <<kind, guard, worker, runs, produced, ui, logs, closed, told, wire, stalled, faults>>

FailureTold ==
  /\ main = "waiting" /\ told
  /\ main' = "exited"
  /\ UNCHANGED <<kind, guard, worker, runs, produced, ui, telemetry, stalled, faults>>

FailureTimesOut ==
  /\ main = "waiting" /\ ~told /\ (stalled \/ writer = "gone")
  /\ main' = "exited"
  /\ UNCHANGED <<kind, guard, worker, runs, produced, ui, telemetry, stalled, faults>>

\* UiMailbox::take and what the window shows of it.
Taken ==
  /\ text' = [lines |-> Newest(text.lines \o mail.chunks, Preview),
              truncated |-> text.truncated \/ mail.omitted
                            \/ Len(text.lines \o mail.chunks) > Preview]
  /\ finished' = (finished \/ mail.complete)
  /\ mail' = EmptyMail
  /\ waking' = FALSE

\* A message of the window: whatever it is for, the mailbox is emptied first.
WindowMessage ==
  /\ main = "loop" /\ posted > 0
  /\ posted' = posted - 1
  /\ Taken
  /\ UNCHANGED <<main, kind, guard, worker, runs, produced, dialog, telemetry, stalled, faults>>

OtherMessage ==
  /\ main = "loop" /\ (mail # EmptyMail \/ waking)
  /\ Taken
  /\ UNCHANGED <<main, kind, guard, worker, runs, produced, posted, dialog, telemetry, stalled,
                 faults>>

\* WM_CLOSE is a message like the others, and is heard once the result was shown.
CloseWindow ==
  /\ main = "loop"
  /\ Taken
  /\ main' = IF finished' THEN "joining" ELSE "loop"
  /\ UNCHANGED <<kind, guard, worker, runs, produced, posted, dialog, telemetry, stalled, faults>>

\* TaskDialogIndirect fails: the deployment goes on without a window.
DialogFails ==
  /\ main = "showing" /\ Fault
  /\ main' = "joining"
  /\ UNCHANGED <<kind, guard, worker, runs, produced, ui, telemetry, stalled>>

\* TDN_CREATED: the window is published and the cached state copied under the
\* lock, then applied.
DialogCreated ==
  /\ main = "showing"
  /\ dialog' = [dialog EXCEPT !.window = TRUE, !.copied = dialog.cached]
  /\ main' = "applying"
  /\ UNCHANGED <<kind, guard, worker, runs, produced, mail, waking, posted, text, finished,
                 telemetry, stalled, faults>>

DialogApplied ==
  /\ main = "applying"
  /\ dialog' = [dialog EXCEPT !.shown = dialog.copied]
  /\ main' = "dialog"
  /\ UNCHANGED <<kind, guard, worker, runs, produced, mail, waking, posted, text, finished,
                 telemetry, stalled, faults>>

DialogClosed ==
  /\ main = "dialog" /\ dialog.shown
  /\ dialog' = [dialog EXCEPT !.window = FALSE]
  /\ main' = "joining"
  /\ UNCHANGED <<kind, guard, worker, runs, produced, mail, waking, posted, text, finished,
                 telemetry, stalled, faults>>

\* The worker is joined and the process ends.
Exits ==
  /\ main = "joining" /\ worker = "gone"
  /\ main' = "exited"
  /\ UNCHANGED <<kind, guard, worker, runs, produced, ui, telemetry, stalled, faults>>

(***************************************************************************)
(* Specification.                                                          *)
(***************************************************************************)
Init ==
  /\ main = "init" /\ kind = "xaml" /\ guard = "main" /\ worker = "none" /\ runs = 0
  /\ produced = 0 /\ mail = EmptyMail /\ waking = FALSE /\ posted = 0
  /\ text = [lines |-> <<>>, truncated |-> FALSE] /\ finished = FALSE
  /\ dialog = [window |-> FALSE, cached |-> FALSE, copied |-> FALSE, shown |-> FALSE,
               sending |-> FALSE]
  /\ logs = <<>> /\ slot = FALSE /\ closed = FALSE /\ writer = "none" /\ token = FALSE
  /\ told = FALSE /\ wire = <<>> /\ stalled = FALSE /\ faults = 0

WorkerNext ==
  StartDeployer \/ Push \/ Publish \/ DeployerExits \/ ReleaseGuard \/ ReportResult \/ FinishUi
  \/ WorkerEnds

WriterNext == WriterLooks \/ WriterReceives \/ WriterCloses \/ WriterWakes \/ WriterWrites

MainNext ==
  FindsAnother \/ StartXaml \/ StartDialog \/ SpawnFails \/ Fails \/ FailureTold
  \/ FailureTimesOut \/ WindowMessage \/ OtherMessage \/ CloseWindow \/ DialogFails
  \/ DialogCreated \/ DialogApplied \/ DialogClosed \/ Exits

Next == WorkerNext \/ WriterNext \/ MainNext \/ Stall

Spec == Init /\ [][Next]_vars

\* What the main thread does of its own accord, or for a message it was sent.
MainSteps ==
  StartXaml \/ Fails \/ FailureTold \/ FailureTimesOut \/ WindowMessage \/ DialogCreated
  \/ DialogApplied \/ Exits

\* The threads run, the deployer prints so much and ends, and the window handles
\* its messages; the user need not do anything, and nothing has to go wrong.
Fairness == WF_vars(WorkerNext) /\ WF_vars(WriterNext) /\ WF_vars(MainSteps)

FairSpec == Spec /\ Fairness

(***************************************************************************)
(* Properties.                                                             *)
(***************************************************************************)
TypeOK ==
  /\ main \in {"init", "loop", "showing", "applying", "dialog", "joining", "failing", "waiting",
               "exited"}
  /\ kind \in {"xaml", "dialog"} /\ guard \in {"main", "worker", "free", "other"}
  /\ worker \in {"none", "started", "child", "pushed", "ended", "released", "reported",
                 "finished", "gone"}
  /\ writer \in {"none", "look", "recv", "closing", "park", "log", "done", "gone"}
  /\ Len(mail.chunks) <= Preview /\ Len(text.lines) <= Preview /\ Waiting <= LogQueue
  /\ posted \in 0 .. MaxOutput + 1
  /\ {waking, finished, slot, closed, token, told, stalled} \subseteq BOOLEAN

\* The data is deployed once: a window that fails after the worker started is not
\* replaced by another one (with_fallback).
DeployedOnce == runs <= 1

\* What is shown and what waits is one piece of the output without a gap, up to
\* the last piece, and says so when its beginning is missing (UiMailbox::log,
\* LogBuffer::append).
ShowsTheTail ==
  LET seen == text.lines \o mail.chunks IN
  kind = "xaml" /\ produced > 0 /\ worker # "none" =>
    /\ seen # <<>> /\ Last(seen) = produced
    /\ \A i \in DOMAIN mail.chunks : i > 1 => mail.chunks[i] = mail.chunks[i - 1] + 1
    /\ \A i \in DOMAIN seen : i > 1 /\ seen[i] # seen[i - 1] + 1 => text.truncated \/ mail.omitted
    /\ Head(seen) # 1 => text.truncated \/ mail.omitted

\* The window goes away, and the broker is told, only when the deployer has ended
\* and the next deployment may begin.
ResultMeansFree ==
  finished \/ dialog.shown \/ (worker # "none" /\ 0 \in ToSet(wire)) =>
    guard = "free" /\ worker \notin {"started", "child", "pushed", "ended"}

\* The window is not left while the worker deploys: "WM_CLOSE is ignored while
\* the worker owns the deployment lock".
ClosesWhenDone == main = "joining" /\ kind = "xaml" => guard = "free"

\* The result is the last event of the wire, and comes once.
ResultIsLast == \A i \in DOMAIN wire : wire[i] = 0 => i = Len(wire)

\* The result comes to be shown, when no message was lost.
ResultIsShown ==
  (worker = "finished" /\ kind = "xaml") ~> (finished \/ faults > 0)

\* The button of the dialog comes to be enabled, however its creation and the end
\* of the deployment interleave.
ButtonIsEnabled == (worker = "finished" /\ kind = "dialog") ~> (dialog.shown \/ main = "exited")

\* The broker gets the result, unless the pipe fails or the process ends first:
\* neither the park of the writer nor the drop of the telemetry loses it.
ResultIsSent == slot ~> (0 \in ToSet(wire) \/ faults > 0 \/ main = "exited")

\* The invariant of a deployment: the data is deployed once, the log shows the end
\* of the output, and whatever tells of the result - the window, the dialog, the
\* wire - does so once, last, and when the next deployment may begin.
Inv ==
  TypeOK /\ DeployedOnce /\ ShowsTheTail /\ ResultMeansFree /\ ClosesWhenDone /\ ResultIsLast

\* The outcome arrives: in the window, at the button of the dialog, at the broker.
OutcomeArrives == ResultIsShown /\ ButtonIsEnabled /\ ResultIsSent
=============================================================================
