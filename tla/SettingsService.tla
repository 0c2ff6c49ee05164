--------------------------- MODULE SettingsService ---------------------------
(***************************************************************************)
(* The broker's service for settings and notifications (settings_rpc.rs,   *)
(* notifications.rs, settings.rs) beside the restart that publishes new    *)
(* settings (operations.rs, restart_components).                           *)
(*                                                                         *)
(* Clients ask for the published snapshot, for a fresh reading of the      *)
(* files, or that the user be told something.  What touches the disk runs  *)
(* on a blocking thread, one at a time: a semaphore's only permit belongs  *)
(* to the operation and not to the client, who may time out meanwhile.     *)
(*                                                                         *)
(* A layer of the settings is a version of a file, 0 if it is not there;   *)
(* settings are the version applied of each layer, 0 for none.             *)
(***************************************************************************)
EXTENDS Naturals, Sequences, FiniteSets, SequencesExt

CONSTANTS
  Clients,       \* connections, each of one use
  ClientLimit,   \* those served at a time
  Broken,        \* a file that does not load
  MaxRequests, MaxWrites, MaxRestarts   \* bounds

ServiceAssumption ==
  ClientLimit \in Nat \ {0} /\ {MaxRequests, MaxWrites, MaxRestarts} \subseteq Nat

VARIABLES
  disk,        \* per layer: the file's version, or Broken
  published,   \* SettingsStore
  shown,       \* NotificationCenter's flag
  service,     \* where the service's thread is
  halt,        \* its owner dropped the handle
  client,      \* per connection: where its task is
  permits, waiters,   \* the semaphore disk_reads
  job,         \* per connection: its blocking operation, which may outlive it
  restart,     \* the restart in progress
  renderer,    \* the settings the running renderer started with, if any
  requests, writes, restarts,
  \* History: the notifications shown and the lives of the flag.
  toasts, resets

files == <<disk, writes>>
semaphore == <<permits, waiters>>
notices == <<shown, toasts, resets>>
vars == <<files, published, notices, service, halt, client, semaphore, job, restart, renderer,
          requests, restarts>>

Layers == {"program", "user"}
Nothing == [l \in Layers |-> 0]
NoJob == [step |-> "none", warned |-> FALSE]
Served == {c \in Clients : client[c] \notin {"away", "gone"}}
Granted == {c \in Clients : client[c] = "granted"}
Running == {c \in Clients : job[c].step # "none"}

\* overlay_file: a broken file keeps the settings below it, and warns.
Overlaid(read, l) == [read EXCEPT ![l] = IF disk[l] = Broken THEN 0 ELSE disk[l]]
Warns(l) == disk[l] = Broken

\* NotificationCenter::report: the first of a life of the flag is shown.
Report ==
  /\ shown' = TRUE
  /\ toasts' = toasts + (IF shown THEN 0 ELSE 1)
  /\ UNCHANGED resets

(***************************************************************************)
(* The semaphore: a permit goes to who waited longest.                     *)
(***************************************************************************)
Acquire(c) ==
  IF permits > 0
    THEN /\ permits' = permits - 1 /\ client' = [client EXCEPT ![c] = "granted"]
         /\ UNCHANGED waiters
    ELSE /\ waiters' = Append(waiters, c) /\ client' = [client EXCEPT ![c] = "waits"]
         /\ UNCHANGED permits

\* One permit is given back while the tasks are as in `now`.
Release(now) ==
  IF waiters = <<>>
    THEN permits' = permits + 1 /\ client' = now /\ UNCHANGED waiters
    ELSE /\ client' = [now EXCEPT ![Head(waiters)] = "granted"]
         /\ waiters' = Tail(waiters) /\ UNCHANGED permits

\* Who leaves the queue closes up its place.
Withdraw(c) ==
  \/ c \notin Range(waiters) /\ UNCHANGED waiters
  \/ \E i \in 1..Len(waiters) : waiters[i] = c /\ waiters' = RemoveAt(waiters, i)

(***************************************************************************)
(* Clients (serve).                                                        *)
(***************************************************************************)
Accept(c) ==
  /\ service = "up" /\ client[c] = "away" /\ Cardinality(Served) < ClientLimit
  /\ client' = [client EXCEPT ![c] = "idle"]
  /\ UNCHANGED <<files, published, notices, service, halt, semaphore, job, restart, renderer,
                 requests, restarts>>

\* A refresh or a notice asks for the permit; a plain query is answered from the
\* snapshot at once and changes nothing.
Request(c) ==
  /\ service = "up" /\ client[c] = "idle"
  /\ requests < MaxRequests /\ requests' = requests + 1
  /\ Acquire(c)
  /\ UNCHANGED <<files, published, notices, service, halt, job, restart, renderer, restarts>>

StartJob(c) ==
  /\ service = "up" /\ client[c] = "granted"
  /\ \E step \in {"program", "report"} : job' = [job EXCEPT ![c] = [NoJob EXCEPT !.step = step]]
  /\ client' = [client EXCEPT ![c] = "disk"]
  /\ UNCHANGED <<files, published, notices, service, halt, semaphore, restart, renderer,
                 requests, restarts>>

\* The blocking operation: settings::load, and the report of its warnings.  What it
\* read goes to its client alone, as a failure if a layer was broken.
ReadLayer(c) ==
  /\ job[c].step \in Layers
  /\ LET l == job[c].step
         warned == job[c].warned \/ Warns(l)
     IN job' = [job EXCEPT ![c] =
          [step |-> IF l = "program" THEN "user" ELSE IF warned THEN "report" ELSE "done",
           warned |-> warned]]
  /\ UNCHANGED <<files, published, notices, service, halt, client, semaphore, restart, renderer,
                 requests, restarts>>

JobReports(c) ==
  /\ job[c].step = "report"
  /\ Report
  /\ job' = [job EXCEPT ![c].step = "done"]
  /\ UNCHANGED <<files, published, service, halt, client, semaphore, restart, renderer,
                 requests, restarts>>

\* It ends and drops its permit; its client, if there is one, gets the answer.
JobEnds(c) ==
  /\ job[c].step = "done"
  /\ job' = [job EXCEPT ![c] = NoJob]
  /\ Release([client EXCEPT ![c] = IF @ = "disk" THEN "idle" ELSE @])
  /\ UNCHANGED <<files, published, notices, service, halt, restart, renderer, requests, restarts>>

\* Mutant: the permit goes with the client that waited for the operation.
EndsWithPermit(c) ==
  /\ service = "up" /\ c \in Served
  /\ LET now == [client EXCEPT ![c] = "gone"] IN
     IF client[c] \in {"granted", "disk"}
       THEN Release(now)
       ELSE client' = now /\ Withdraw(c) /\ UNCHANGED permits
  /\ UNCHANGED <<files, published, notices, service, halt, job, restart, renderer, requests,
                 restarts>>

\* A connection is over: it closed, failed, or was served for five seconds.  Who
\* waited leaves the queue, who was granted passes the permit on.
Ends(c) ==
  /\ service = "up" /\ c \in Served
  /\ LET now == [client EXCEPT ![c] = "gone"] IN
     IF c \in Granted
       THEN Release(now)
       ELSE client' = now /\ Withdraw(c) /\ UNCHANGED permits
  /\ UNCHANGED <<files, published, notices, service, halt, job, restart, renderer, requests,
                 restarts>>

(***************************************************************************)
(* The service's thread, and Drop of its handle.                           *)
(***************************************************************************)
Halt ==
  /\ ~halt /\ restart.at = "none"
  /\ halt' = TRUE
  /\ UNCHANGED <<files, published, notices, service, client, semaphore, job, restart, renderer,
                 requests, restarts>>

\* A failing listener ends the service like a stop.  The tasks are aborted.
Break(fails) ==
  /\ service = "up" /\ (halt \/ fails)
  /\ service' = "draining"
  /\ client' = [c \in Clients |-> "gone"]
  /\ waiters' = <<>> /\ permits' = permits + Cardinality(Granted)
  /\ UNCHANGED <<files, published, notices, halt, job, restart, renderer, requests, restarts>>

\* Runtime::shutdown_timeout does not wait for a blocked operation.
ShutDown ==
  /\ service = "draining"
  /\ service' = "down"
  /\ UNCHANGED <<files, published, notices, halt, client, semaphore, job, restart, renderer,
                 requests, restarts>>

(***************************************************************************)
(* The restart (restart_components): on the operation's thread.            *)
(***************************************************************************)
NoRestart == [at |-> "none", read |-> Nothing, warned |-> FALSE]
RestartGoes(to) == restart' = [restart EXCEPT !.at = to]

\* The components have stopped; the flag gets a new life.
RestartBegins ==
  /\ restart.at = "none" /\ ~halt
  /\ restarts < MaxRestarts /\ restarts' = restarts + 1
  /\ renderer' = {} /\ restart' = [NoRestart EXCEPT !.at = "reset"]
  /\ UNCHANGED <<files, published, notices, service, halt, client, semaphore, job, requests>>

ResetNotices ==
  /\ restart.at = "reset" /\ RestartGoes("program")
  /\ shown' = FALSE /\ resets' = resets + 1 /\ UNCHANGED toasts
  /\ UNCHANGED <<files, published, service, halt, client, semaphore, job, renderer, requests,
                 restarts>>

RestartReads ==
  /\ restart.at \in Layers
  /\ LET l == restart.at IN
     restart' = [at |-> IF l = "program" THEN "user" ELSE "replace",
                 read |-> Overlaid(restart.read, l), warned |-> restart.warned \/ Warns(l)]
  /\ UNCHANGED <<files, published, notices, service, halt, client, semaphore, job, renderer,
                 requests, restarts>>

Replace ==
  /\ restart.at = "replace"
  /\ published' = restart.read
  /\ RestartGoes(IF restart.warned THEN "report" ELSE "start")
  /\ UNCHANGED <<files, notices, service, halt, client, semaphore, job, renderer, requests,
                 restarts>>

RestartReports ==
  /\ restart.at = "report" /\ RestartGoes("start")
  /\ Report
  /\ UNCHANGED <<files, published, service, halt, client, semaphore, job, renderer, requests,
                 restarts>>

\* The new renderer asks for its theme, if the service is there to answer.
RendererStarts ==
  /\ restart.at = "start" /\ RestartGoes("none")
  /\ renderer' = IF service = "up" THEN {published} ELSE {}
  /\ UNCHANGED <<files, published, notices, service, halt, client, semaphore, job, requests,
                 restarts>>

\* The user, the settings window or another program writes a file.
Write(l, content) ==
  /\ writes < MaxWrites /\ writes' = writes + 1
  /\ disk' = [disk EXCEPT ![l] = content]
  /\ UNCHANGED <<published, notices, service, halt, client, semaphore, job, restart, renderer,
                 requests, restarts>>

-----------------------------------------------------------------------------
Init ==
  /\ disk \in [Layers -> {1, Broken}] /\ published = Overlaid(Overlaid(Nothing, "program"), "user")
  /\ shown = FALSE /\ toasts = 0 /\ resets = 0
  /\ service = "up" /\ halt = FALSE
  /\ client = [c \in Clients |-> "away"]
  /\ permits = 1 /\ waiters = <<>> /\ job = [c \in Clients |-> NoJob]
  /\ restart = NoRestart /\ renderer = {published}
  /\ requests = 0 /\ writes = 0 /\ restarts = 0

Tasks == \E c \in Clients : Accept(c) \/ Request(c) \/ StartJob(c) \/ Ends(c)
Jobs == \E c \in Clients : ReadLayer(c) \/ JobReports(c) \/ JobEnds(c)
Thread == Halt \/ (\E fails \in BOOLEAN : Break(fails)) \/ ShutDown
Restart ==
  RestartBegins \/ ResetNotices \/ RestartReads \/ Replace \/ RestartReports \/ RendererStarts
Next ==
  \/ Tasks \/ Jobs \/ Thread \/ Restart
  \/ \E l \in Layers, content \in {0, 2, Broken} : Write(l, content)

Spec == Init /\ [][Next]_vars

-----------------------------------------------------------------------------
TypeOK ==
  /\ disk \in [Layers -> {0, 1, 2, Broken}] /\ published \in [Layers -> 0..2]
  /\ service \in {"up", "draining", "down"} /\ {halt, shown} \subseteq BOOLEAN
  /\ client \in [Clients -> {"away", "idle", "waits", "granted", "disk", "gone"}]
  /\ permits \in 0..1

\* One operation touches the disk at a time, and the permit is neither lost nor
\* doubled, whatever clients leave (read_on_worker).
OneReader == permits + Cardinality(Granted) + Cardinality(Running) = 1

\* Whoever waits is in the queue once, and waits only while the permit is out.
WaitersAreReal ==
  /\ {waiters[i] : i \in DOMAIN waiters} = {c \in Clients : client[c] = "waits"}
  /\ waiters # <<>> => permits = 0

\* The user sees at most one notification in a life of the flag, though operations of
\* clients and a restart report at the same time.
OneToast == toasts <= resets + 1

\* A running renderer started with the settings that are published: a restart
\* publishes before it starts one.
RendererIsCurrent == renderer \subseteq {published}

Inv == TypeOK /\ OneReader /\ WaitersAreReal /\ OneToast /\ RendererIsCurrent
=============================================================================
