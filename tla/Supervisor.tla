----------------------------- MODULE Supervisor -----------------------------
(***************************************************************************)
(* The broker: it starts the server and the renderer, watches them, runs   *)
(* deployments and restarts on a worker thread, and stops everything when  *)
(* it exits (broker/src/runtime.rs, service_supervisor.rs, operations.rs,  *)
(* child_process.rs, tray.rs).                                             *)
(*                                                                         *)
(* Three threads share the two slots of BrokerState: main (startup, tray,  *)
(* exit), the monitor and the operation worker.  None holds the state's    *)
(* mutex while it starts or stops a process, and each of those takes       *)
(* seconds.  A process that wants to serve must hold the named lock of its *)
(* component; the native deployer takes the server's.                      *)
(*                                                                         *)
(* Faults (a crash, a shutdown that is refused or lost, a start that fails *)
(* or is too slow, a window message that cannot be posted) come out of one *)
(* budget, so that liveness speaks of what happens after the last of them. *)
(***************************************************************************)
EXTENDS Naturals, FiniteSets

CONSTANTS
  ServerPids, RendererPids, DeployerPids,   \* processes of each kind
  NoChild,                                  \* an empty Option<Child>
  MaxFaults                                 \* bound: faults in a behaviour

ASSUME PidsAreDisjoint ==
  /\ ServerPids \cap RendererPids = {}
  /\ ServerPids \cap DeployerPids = {}
  /\ RendererPids \cap DeployerPids = {}
  /\ NoChild \notin ServerPids \cup RendererPids \cup DeployerPids
ASSUME FaultsAreBounded == MaxFaults \in Nat

VARIABLES
  life,       \* per process: "gone", "starting" or "up" (holds its lock)
  told,       \* processes whose stop event is signalled, or asked by RPC
  slot,       \* BrokerState.server and .renderer
  operation,  \* BrokerState.operation
  due,        \* per component: its RestartBackoff is ready
  stopping,   \* STOPPING
  wake,       \* MONITOR_WAKE, an auto-reset event
  monitor,    \* the monitor thread
  worker,     \* the operation thread and the services it has borrowed
  busy, result, posted,   \* BUSY, RESULT, OPERATION_COMPLETE in the queue
  main,       \* where the main thread is, and the child it starts
  faults

procs == <<life, told>>
shared == <<slot, operation, due>>
tray == <<busy, result, posted>>
vars == <<procs, shared, stopping, wake, monitor, worker, tray, main, faults>>

Components == {"server", "renderer"}
Pids == ServerPids \cup RendererPids \cup DeployerPids
Children == ServerPids \cup RendererPids \cup {NoChild}
NoChildren == [c \in Components |-> NoChild]
PidsOf(c) == IF c = "server" THEN ServerPids ELSE RendererPids

Alive(p) == p # NoChild /\ life[p] # "gone"
Dead(p) == p # NoChild /\ life[p] = "gone"

\* SingleInstance: the deployer takes the server's lock.
LockHolders(c) ==
  {p \in PidsOf(c) \cup (IF c = "server" THEN DeployerPids ELSE {}) : life[p] = "up"}
LockFree(c) == LockHolders(c) = {}

MonitorsServer(op) == op = "Idle"
MonitorsRenderer(op) == op \in {"Idle", "Deploy"}
IsMonitored(c) == IF c = "server" THEN MonitorsServer(operation) ELSE MonitorsRenderer(operation)

\* Where a Child value is: these references keep its process from being forgotten.
Owned == {slot[c] : c \in Components} \cup {worker.held[c] : c \in Components}
         \cup {main.held[c] : c \in Components}
         \cup {worker.child, monitor.child, main.child}

\* The threads before they run.
FreshMonitor == [at |-> "off", component |-> "server", child |-> NoChild,
                 watch |-> {}, timers |-> {}]
FreshWorker == [at |-> "none", operation |-> "Deploy", component |-> "server",
                held |-> NoChildren, child |-> NoChild, failed |-> FALSE]
FreshMain == [at |-> "clear", component |-> "server", child |-> NoChild, held |-> NoChildren]

Fault == faults < MaxFaults /\ faults' = faults + 1
FaultUnless(ok) == IF ok THEN UNCHANGED faults ELSE Fault

(***************************************************************************)
(* Processes.                                                              *)
(***************************************************************************)
\* A process takes its component's lock and serves, or finds it taken and exits.
TakeLock(p) ==
  /\ life[p] = "starting"
  /\ LET free == LockFree(IF p \in RendererPids THEN "renderer" ELSE "server")
     IN /\ life' = [life EXCEPT ![p] = IF free THEN "up" ELSE "gone"]
        /\ told' = IF free THEN told ELSE told \ {p}
  /\ UNCHANGED <<shared, stopping, wake, monitor, worker, tray, main, faults>>

\* The stop event, the parent's handle or an accepted Shutdown ends a service.
Leave(p) ==
  /\ p \in told /\ life[p] # "gone"
  /\ life' = [life EXCEPT ![p] = "gone"] /\ told' = told \ {p}
  /\ UNCHANGED <<shared, stopping, wake, monitor, worker, tray, main, faults>>

\* The native deployer ends by itself.
DeployerEnds(p) ==
  /\ p \in DeployerPids /\ life[p] = "up"
  /\ life' = [life EXCEPT ![p] = "gone"]
  /\ UNCHANGED <<told, shared, stopping, wake, monitor, worker, tray, main, faults>>

Crash(p) ==
  /\ life[p] # "gone" /\ Fault
  /\ life' = [life EXCEPT ![p] = "gone"] /\ told' = told \ {p}
  /\ UNCHANGED <<shared, stopping, wake, monitor, worker, tray, main>>

\* child_process::start up to the spawn: the lock is looked at and let go again.
Spawn(p, c) ==
  /\ p \in PidsOf(c) /\ life[p] = "gone" /\ p \notin Owned \cup monitor.watch
  /\ LockFree(c)
  /\ life' = [life EXCEPT ![p] = "starting"]
  /\ UNCHANGED told

\* The readiness loop: the process answers its identity, or the start is given
\* up (it exited first, or took too long) and its stop event is signalled.
IsReady(p) == life[p] = "up"
GivesUp(p) == told' = IF life[p] = "gone" THEN told ELSE told \cup {p}

\* shutdown_component: an empty slot or a process that exited is done; a
\* running one is asked, and waited for.
IsStopped(p) == p = NoChild \/ Dead(p)
Ask(p) == Alive(p) /\ p \notin told /\ told' = told \cup {p} /\ UNCHANGED life

\* Dropping a Child signals its stop event.
Drop(ps) == told' = told \cup {p \in ps : Alive(p)}

(***************************************************************************)
(* The monitor thread.                                                     *)
(***************************************************************************)
Other == [server |-> "renderer", renderer |-> "rest"]   \* monitor_children's order

\* monitor_child up to the start, under the state's lock: nothing to do here,
Healthy(c) == ~IsMonitored(c) \/ stopping \/ Alive(slot[c])
MonitorPasses(c) ==
  /\ monitor.at = c
  /\ Healthy(c) \/ (slot[c] = NoChild /\ ~due[c])
  /\ monitor' = [monitor EXCEPT !.at = Other[c]]
  /\ UNCHANGED <<procs, shared, stopping, wake, worker, tray, main, faults>>
\* ... or the child has exited, which starts the delay,
MonitorFindsExit(c) ==
  /\ monitor.at = c /\ ~Healthy(c) /\ Dead(slot[c])
  /\ slot' = [slot EXCEPT ![c] = NoChild] /\ due' = [due EXCEPT ![c] = FALSE]
  /\ monitor' = [monitor EXCEPT !.at = Other[c]]
  /\ UNCHANGED <<procs, operation, stopping, wake, worker, tray, main, faults>>
\* ... or the delay is over: a server whose lock is taken is deferred,
MonitorDefers(c) ==
  /\ monitor.at = c /\ ~Healthy(c) /\ slot[c] = NoChild /\ due[c]
  /\ c = "server" /\ ~LockFree(c)
  /\ due' = [due EXCEPT ![c] = FALSE]
  /\ monitor' = [monitor EXCEPT !.at = Other[c]]
  /\ UNCHANGED <<procs, slot, operation, stopping, wake, worker, tray, main, faults>>
\* ... or the lock of the state is released for a start.
MonitorDecides(c) ==
  /\ monitor.at = c /\ ~Healthy(c) /\ slot[c] = NoChild /\ due[c]
  /\ c = "server" => LockFree(c)
  /\ monitor' = [monitor EXCEPT !.at = "spawn", !.component = c]
  /\ UNCHANGED <<procs, shared, stopping, wake, worker, tray, main, faults>>

MonitorSpawns ==
  /\ monitor.at = "spawn"
  /\ \E p \in PidsOf(monitor.component) :
       /\ Spawn(p, monitor.component)
       /\ monitor' = [monitor EXCEPT !.at = "start", !.child = p]
  /\ UNCHANGED <<shared, stopping, wake, worker, tray, main, faults>>
\* The lock was taken meanwhile, or the process cannot be created.
MonitorCannotSpawn ==
  /\ monitor.at = "spawn"
  /\ FaultUnless(~LockFree(monitor.component))
  /\ monitor' = [monitor EXCEPT !.at = "store"]
  /\ UNCHANGED <<procs, shared, stopping, wake, worker, tray, main>>
MonitorStarted ==
  /\ monitor.at = "start" /\ IsReady(monitor.child)
  /\ monitor' = [monitor EXCEPT !.at = "store"]
  /\ UNCHANGED <<procs, shared, stopping, wake, worker, tray, main, faults>>
MonitorGivesUp ==
  /\ monitor.at = "start"
  /\ FaultUnless(Dead(monitor.child))
  /\ GivesUp(monitor.child) /\ UNCHANGED life
  /\ monitor' = [monitor EXCEPT !.at = "store", !.child = NoChild]
  /\ UNCHANGED <<shared, stopping, wake, worker, tray, main>>

\* The state is locked again: what was started meanwhile is stored, or dropped
\* when the broker is stopping or an operation has taken the component.
MonitorStores ==
  /\ monitor.at = "store"
  /\ LET c == monitor.component
         wanted == IsMonitored(c) /\ ~stopping
         p == monitor.child
     IN /\ IF wanted
           THEN IF p = NoChild
                THEN /\ due' = [due EXCEPT ![c] = FALSE]
                     /\ UNCHANGED <<slot, told>>
                ELSE /\ slot' = [slot EXCEPT ![c] = p]
                     /\ Drop({slot[c]}) /\ UNCHANGED due
           ELSE Drop({p}) /\ UNCHANGED <<slot, due>>
        /\ monitor' = [monitor EXCEPT !.at = Other[c], !.child = NoChild, !.component = "server"]
  /\ UNCHANGED <<life, operation, stopping, wake, worker, tray, main, faults>>

\* The handles and the delays are copied under the lock and waited on after it.
MonitorRests ==
  /\ monitor.at = "rest"
  /\ monitor' = IF stopping \/ operation = "Shutdown"
                THEN [monitor EXCEPT !.at = "end"]
                ELSE [monitor EXCEPT !.at = "wait",
                        !.watch = {slot[c] : c \in {d \in Components : IsMonitored(d)}} \ {NoChild},
                        !.timers = {c \in Components : IsMonitored(c) /\ slot[c] = NoChild}]
  /\ UNCHANGED <<procs, shared, stopping, wake, worker, tray, main, faults>>
\* Mutant of MonitorWakes: the wait has no timeout.
MonitorWakesUntimed ==
  /\ monitor.at = "wait"
  /\ wake \/ (\E p \in monitor.watch : life[p] = "gone")
  /\ wake' = FALSE
  /\ monitor' = [monitor EXCEPT !.at = IF stopping THEN "end" ELSE "server",
                                !.watch = {}, !.timers = {}]
  /\ UNCHANGED <<procs, shared, stopping, worker, tray, main, faults>>

MonitorWakes ==
  /\ monitor.at = "wait"
  /\ wake \/ (\E p \in monitor.watch : life[p] = "gone") \/ (\E c \in monitor.timers : due[c])
  /\ wake' = FALSE
  /\ monitor' = [monitor EXCEPT !.at = IF stopping THEN "end" ELSE "server",
                                !.watch = {}, !.timers = {}]
  /\ UNCHANGED <<procs, shared, stopping, worker, tray, main, faults>>

\* RestartBackoff: the delay of a component passes; it is looked at only while
\* the slot is empty.
Tick(c) ==
  /\ slot[c] = NoChild /\ ~due[c] /\ due' = [due EXCEPT ![c] = TRUE]
  /\ UNCHANGED <<procs, slot, operation, stopping, wake, monitor, worker, tray, main, faults>>

MonitorNext ==
  \/ \E c \in Components : \/ MonitorPasses(c) \/ MonitorFindsExit(c)
                           \/ MonitorDefers(c) \/ MonitorDecides(c)
  \/ MonitorSpawns \/ MonitorCannotSpawn \/ MonitorStarted \/ MonitorGivesUp
  \/ MonitorStores \/ MonitorRests \/ MonitorWakes

(***************************************************************************)
(* The operation worker (operations.rs): it borrows the server, and for a  *)
(* restart the renderer too, and gives back what it has at the end.        *)
(***************************************************************************)
Goes(to) == [worker EXCEPT !.at = to]
Fails(to) == [worker EXCEPT !.at = to, !.failed = TRUE]
Lets(to, c) == [worker EXCEPT !.at = to, !.held[c] = NoChild]

\* acquire_for_operation, and its wake after the lock is released.
Acquire ==
  /\ worker.at = "acquire"
  /\ operation' = worker.operation
  /\ LET taken == IF worker.operation = "Restart" THEN Components ELSE {"server"}
     IN /\ worker' = [worker EXCEPT !.at = "acquired", !.failed = FALSE,
              !.held = [c \in Components |-> IF c \in taken THEN slot[c] ELSE NoChild]]
        /\ slot' = [c \in Components |-> IF c \in taken THEN NoChild ELSE slot[c]]
  /\ UNCHANGED <<procs, due, stopping, wake, monitor, tray, main, faults>>
WakeAfterAcquire ==
  /\ worker.at = "acquired" /\ wake' = TRUE /\ worker' = Goes("stopServer")
  /\ UNCHANGED <<procs, shared, stopping, monitor, tray, main, faults>>

\* shutdown_component for a borrowed child: done, asked, or refused.
Stopping == [stopServer |-> "server", stopRenderer |-> "renderer",
             undoServer |-> "server", undoRenderer |-> "renderer"]
AfterStop == [stopServer |-> IF worker.operation = "Deploy" THEN "spawnUi" ELSE "stopRenderer",
              stopRenderer |-> "reload",
              undoServer |-> "undoRenderer", undoRenderer |-> "restore"]
\* A deployment or a restart is cancelled; a rollback goes on with the other one.
AfterRefusal == [stopServer |-> "restore", stopRenderer |-> "restore",
                 undoServer |-> "undoRenderer", undoRenderer |-> "restore"]
WorkerStopped ==
  /\ worker.at \in DOMAIN Stopping /\ IsStopped(worker.held[Stopping[worker.at]])
  /\ worker' = Lets(AfterStop[worker.at], Stopping[worker.at])
  /\ UNCHANGED <<procs, shared, stopping, wake, monitor, tray, main, faults>>
WorkerAsks ==
  /\ worker.at \in DOMAIN Stopping /\ Ask(worker.held[Stopping[worker.at]])
  /\ UNCHANGED <<shared, stopping, wake, monitor, worker, tray, main, faults>>
WorkerRefused ==
  /\ worker.at \in DOMAIN Stopping /\ Alive(worker.held[Stopping[worker.at]]) /\ Fault
  /\ worker' = Fails(AfterRefusal[worker.at])
  /\ UNCHANGED <<procs, shared, stopping, wake, monitor, tray, main>>

\* The deployment window is started, and with it the native deployer; its
\* Complete frame is awaited, in pieces of 100 ms that look at STOPPING.
SpawnUi ==
  /\ worker.at = "spawnUi"
  /\ \/ /\ \E p \in DeployerPids :
             /\ life[p] = "gone" /\ life' = [life EXCEPT ![p] = "starting"]
             /\ worker' = [Goes("observe") EXCEPT !.child = p]
        /\ UNCHANGED faults
     \/ /\ Fault \* no process, or another deployment window is active
        /\ worker' = Fails("lock") /\ UNCHANGED life
  /\ UNCHANGED <<told, shared, stopping, wake, monitor, tray, main>>
ObserveEnds ==
  /\ worker.at = "observe"
  /\ LET over == [Goes("lock") EXCEPT !.child = NoChild]
         lost == [over EXCEPT !.failed = TRUE] \* the window died, or 300 s are over
     IN worker' \in {over, lost} /\ (worker' = over => Dead(worker.child))
  /\ FaultUnless(Dead(worker.child) \/ stopping)
  /\ UNCHANGED <<procs, shared, stopping, wake, monitor, tray, main>>

\* deploy's restoration: wait for the lock, at most 10 s, then start the server.
RestoreLock ==
  /\ worker.at = "lock"
  /\ \/ stopping /\ worker' = Fails("restore") /\ UNCHANGED faults
     \/ ~LockFree("server") /\ Fault /\ worker' = Fails("restore")
     \/ /\ ~stopping /\ LockFree("server") /\ UNCHANGED faults
        /\ worker' = [worker EXCEPT !.at = "spawn", !.component = "server"]
  /\ UNCHANGED <<procs, shared, stopping, wake, monitor, tray, main>>

\* restart_components after both stopped: the settings are loaded and published
\* (SettingsService), then the renderer is started, then the server.
Reload ==
  /\ worker.at = "reload"
  /\ worker' = IF stopping THEN Goes("restore")
               ELSE [worker EXCEPT !.at = "spawn", !.component = "renderer"]
  /\ UNCHANGED <<procs, shared, stopping, wake, monitor, tray, main, faults>>

\* What follows a start in each of the operations.
StartFailed == Fails(IF worker.operation = "Deploy" THEN "restore" ELSE "undoServer")
WorkerSpawns ==
  /\ worker.at = "spawn"
  /\ \E p \in PidsOf(worker.component) :
       Spawn(p, worker.component) /\ worker' = [worker EXCEPT !.at = "start", !.child = p]
  /\ UNCHANGED <<shared, stopping, wake, monitor, tray, main, faults>>
WorkerCannotSpawn ==
  /\ worker.at = "spawn"
  /\ FaultUnless(~LockFree(worker.component))
  /\ worker' = StartFailed
  /\ UNCHANGED <<procs, shared, stopping, wake, monitor, tray, main>>
WorkerStarted ==
  /\ worker.at = "start" /\ IsReady(worker.child)
  /\ worker' = [worker EXCEPT !.held[worker.component] = worker.child, !.child = NoChild,
       !.at = IF worker.component = "renderer" /\ ~stopping THEN "spawn" ELSE "restore",
       !.component = "server"]
  /\ UNCHANGED <<procs, shared, stopping, wake, monitor, tray, main, faults>>
\* wait_for_server: the server exited between its readiness and this look.
WorkerStartedDead ==
  /\ worker.at = "start" /\ worker.component = "server" /\ Dead(worker.child)
  /\ worker' = [StartFailed EXCEPT !.held.server = worker.child, !.child = NoChild]
  /\ UNCHANGED <<procs, shared, stopping, wake, monitor, tray, main, faults>>
WorkerGivesUp ==
  /\ worker.at = "start"
  /\ FaultUnless(Dead(worker.child))
  /\ GivesUp(worker.child) /\ UNCHANGED life
  /\ worker' = [StartFailed EXCEPT !.child = NoChild]
  /\ UNCHANGED <<shared, stopping, wake, monitor, tray, main>>

\* restore_after_operation: the slots are overwritten whatever they hold.
Restore ==
  /\ worker.at = "restore"
  /\ LET given == IF worker.operation = "Restart" THEN Components ELSE {"server"}
     IN /\ slot' = [c \in Components |-> IF c \in given THEN worker.held[c] ELSE slot[c]]
        /\ Drop({slot[c] : c \in given})
  /\ operation' = IF worker.operation = "Restart" /\ worker.failed THEN "Failed" ELSE "Idle"
  /\ worker' = [FreshWorker EXCEPT !.at = "restored"]
  /\ UNCHANGED <<life, due, stopping, wake, monitor, tray, main, faults>>
\* Mutant of WakeAfterRestore: the monitor is not woken.
RestoreUnheard ==
  /\ worker.at = "restored" /\ worker' = Goes("publish")
  /\ UNCHANGED <<procs, shared, stopping, wake, monitor, tray, main, faults>>

WakeAfterRestore ==
  /\ worker.at = "restored" /\ wake' = TRUE /\ worker' = Goes("publish")
  /\ UNCHANGED <<procs, shared, stopping, monitor, tray, main, faults>>
\* The result is stored, and then a message for it is posted.
PublishResult ==
  /\ worker.at = "publish" /\ result' = TRUE /\ worker' = Goes("notify")
  /\ UNCHANGED <<procs, shared, stopping, wake, monitor, busy, posted, main, faults>>
Notify ==
  /\ worker.at = "notify"
  /\ \/ posted' = TRUE /\ UNCHANGED faults
     \/ Fault /\ UNCHANGED posted
  /\ worker' = FreshWorker
  /\ UNCHANGED <<procs, shared, stopping, wake, monitor, busy, result, main>>

WorkerNext ==
  \/ Acquire \/ WakeAfterAcquire \/ WorkerStopped \/ WorkerAsks \/ WorkerRefused
  \/ SpawnUi \/ ObserveEnds \/ RestoreLock \/ Reload
  \/ WorkerSpawns \/ WorkerCannotSpawn \/ WorkerStarted \/ WorkerStartedDead \/ WorkerGivesUp
  \/ Restore \/ WakeAfterRestore \/ PublishResult \/ Notify

(***************************************************************************)
(* The main thread: startup, the tray's messages, exit (runtime::run).     *)
(***************************************************************************)
MainGoes(to) == [main EXCEPT !.at = to]

\* clear_stale: an unmanaged service that holds the lock is asked to leave;
\* startup fails when it does not, or when it is a deployer, which answers nothing.
ClearStale ==
  /\ main.at = "clear"
  /\ \/ /\ LockFree(main.component) /\ UNCHANGED <<told, faults>>
        /\ main' = IF main.component = "server" THEN [main EXCEPT !.component = "renderer"]
                   ELSE MainGoes("spawn")
     \/ /\ \E p \in LockHolders(main.component) \ DeployerPids :
             p \notin told /\ told' = told \cup {p}
        /\ UNCHANGED <<main, faults>>
     \/ /\ ~LockFree(main.component)
        /\ FaultUnless(LockHolders(main.component) \cap DeployerPids # {})
        /\ main' = MainGoes("end") /\ UNCHANGED told
  /\ UNCHANGED <<life, shared, stopping, wake, monitor, worker, tray>>

\* The renderer is started first, then the server; a server that does not start
\* takes the renderer down again.
MainSpawns ==
  /\ main.at = "spawn"
  /\ \E p \in PidsOf(main.component) :
       Spawn(p, main.component) /\ main' = [main EXCEPT !.at = "start", !.child = p]
  /\ UNCHANGED <<shared, stopping, wake, monitor, worker, tray, faults>>
MainStarted ==
  /\ main.at = "start" /\ IsReady(main.child)
  /\ main' = [main EXCEPT !.held[main.component] = main.child, !.child = NoChild,
       !.at = IF main.component = "renderer" THEN "spawn" ELSE "install", !.component = "server"]
  /\ UNCHANGED <<procs, shared, stopping, wake, monitor, worker, tray, faults>>
MainStartFails ==
  /\ \/ /\ main.at = "spawn" /\ UNCHANGED told
        /\ FaultUnless(~LockFree(main.component))
     \/ /\ main.at = "start" /\ GivesUp(main.child)
        /\ FaultUnless(Dead(main.child))
  /\ main' = [main EXCEPT !.at = IF main.component = "server" THEN "undo" ELSE "end",
                          !.child = NoChild]
  /\ UNCHANGED <<life, shared, stopping, wake, monitor, worker, tray>>

\* install, the monitor thread and the tray icon; without one the broker exits.
Install ==
  /\ main.at = "install"
  /\ slot' = main.held /\ operation' = "Idle"
  /\ due' = [c \in Components |-> TRUE]
  /\ monitor' = [monitor EXCEPT !.at = "server"]
  /\ \/ main' = [main EXCEPT !.at = "loop", !.held = NoChildren]
        /\ UNCHANGED <<stopping, wake, faults>>
     \/ Fault /\ stopping' = TRUE /\ wake' = TRUE
        /\ main' = [main EXCEPT !.at = "joinMonitor", !.held = NoChildren]
  /\ UNCHANGED <<procs, worker, tray>>

\* A menu command, refused while an operation runs or its result is not shown.
\* The previous worker is joined first.
Begin(op) ==
  /\ main.at = "loop" /\ ~busy /\ worker.at = "none"
  /\ busy' = TRUE
  /\ worker' = [worker EXCEPT !.at = "acquire", !.operation = op]
  /\ UNCHANGED <<procs, shared, stopping, wake, monitor, result, posted, main, faults>>
\* ... whose thread cannot be created.
BeginFails ==
  /\ main.at = "loop" /\ ~busy /\ worker.at = "none" /\ Fault
  /\ busy' = TRUE /\ result' = TRUE /\ posted' = TRUE
  /\ UNCHANGED <<procs, shared, stopping, wake, monitor, worker, main>>
\* show_operation_result, for the message or when the menu is opened.
TakeResult == result' = FALSE /\ busy' = (busy /\ ~result)
ShowResult ==
  /\ main.at = "loop" /\ posted /\ posted' = FALSE /\ TakeResult
  /\ UNCHANGED <<procs, shared, stopping, wake, monitor, worker, main, faults>>
ShowMenu ==
  /\ main.at = "loop" /\ result /\ TakeResult
  /\ UNCHANGED <<procs, shared, stopping, wake, monitor, worker, posted, main, faults>>
\* EXIT, from the menu, the updater or --shutdown: request_stop stores STOPPING,
\* then wakes the monitor.
Exit ==
  /\ main.at = "loop" /\ stopping' = TRUE /\ wake' = TRUE /\ main' = MainGoes("joinMonitor")
  /\ UNCHANGED <<procs, shared, monitor, worker, tray, faults>>
JoinMonitor ==
  /\ main.at = "joinMonitor" /\ monitor.at = "end" /\ main' = MainGoes("joinWorker")
  /\ UNCHANGED <<procs, shared, stopping, wake, monitor, worker, tray, faults>>
\* Mutant of JoinWorker: the operation worker is not waited for.
JoinNothing ==
  /\ main.at = "joinWorker" /\ main' = MainGoes("take")
  /\ UNCHANGED <<procs, shared, stopping, wake, monitor, worker, tray, faults>>

JoinWorker ==
  /\ main.at = "joinWorker" /\ worker.at = "none" /\ main' = MainGoes("take")
  /\ UNCHANGED <<procs, shared, stopping, wake, monitor, worker, tray, faults>>

\* shutdown_all: both slots are taken, and each child is stopped; one that does
\* not leave is told by the drop of its Child.  The rollback of startup is the
\* renderer's part of it.
TakeAll ==
  /\ main.at = "take"
  /\ operation' = "Shutdown" /\ slot' = NoChildren
  /\ main' = [main EXCEPT !.at = "stopServer", !.held = slot]
  /\ UNCHANGED <<procs, due, stopping, wake, monitor, worker, tray, faults>>
MainStops(c, from, to) ==
  /\ main.at = from
  /\ \/ /\ IsStopped(main.held[c]) /\ main' = MainGoes(to) /\ UNCHANGED <<procs, faults>>
     \/ Ask(main.held[c]) /\ UNCHANGED <<main, faults>>
     \/ Alive(main.held[c]) /\ Fault /\ main' = MainGoes(to) /\ UNCHANGED procs
  /\ UNCHANGED <<shared, stopping, wake, monitor, worker, tray>>
End ==
  /\ main.at = "end"
  /\ Drop({main.held[c] : c \in Components})
  /\ main' = [main EXCEPT !.at = "gone", !.held = NoChildren]
  /\ UNCHANGED <<life, shared, stopping, wake, monitor, worker, tray, faults>>

MainNext ==
  \/ ClearStale \/ MainSpawns \/ MainStarted \/ MainStartFails \/ Install
  \/ ShowResult \/ JoinMonitor \/ JoinWorker \/ TakeAll
  \/ MainStops("server", "stopServer", "stopRenderer")
  \/ MainStops("renderer", "stopRenderer", "end") \/ MainStops("renderer", "undo", "end")
  \/ End

-----------------------------------------------------------------------------
\* A server or a renderer that no broker manages may be running.
Init ==
  /\ \E stale \in SUBSET (ServerPids \cup RendererPids) :
       /\ \A c \in Components : Cardinality(stale \cap PidsOf(c)) <= 1
       /\ life = [p \in Pids |-> IF p \in stale THEN "up" ELSE "gone"]
  /\ told = {} /\ faults = 0
  /\ slot = NoChildren /\ operation = "Idle" /\ due = [c \in Components |-> TRUE]
  /\ stopping = FALSE /\ wake = FALSE /\ busy = FALSE /\ result = FALSE /\ posted = FALSE
  /\ monitor = FreshMonitor /\ worker = FreshWorker /\ main = FreshMain

\* The broker is killed and started again: its services watch its handle
\* (service_owner::ParentWatch); the native deployer does not.
BrokerRestarts ==
  /\ main.at \notin {"end", "gone"} /\ Fault
  /\ told' = {p \in ServerPids \cup RendererPids : Alive(p)} /\ UNCHANGED life
  /\ slot' = NoChildren /\ operation' = "Idle" /\ due' = [c \in Components |-> TRUE]
  /\ stopping' = FALSE /\ wake' = FALSE
  /\ busy' = FALSE /\ result' = FALSE /\ posted' = FALSE
  /\ monitor' = FreshMonitor /\ worker' = FreshWorker /\ main' = FreshMain

Environment ==
  \/ \E p \in Pids : TakeLock(p) \/ Leave(p) \/ DeployerEnds(p) \/ Crash(p)
  \/ \E c \in Components : Tick(c)
User == (\E op \in {"Deploy", "Restart"} : Begin(op)) \/ BeginFails \/ ShowMenu \/ Exit
Next == MonitorNext \/ WorkerNext \/ MainNext \/ Environment \/ User \/ BrokerRestarts
Spec == Init /\ [][Next]_vars

\* The threads run, the processes start and leave when told, time passes; the
\* user need not do anything, and no fault need happen.
Fairness ==
  /\ WF_vars(MonitorNext) /\ WF_vars(WorkerNext) /\ WF_vars(MainNext)
  /\ WF_vars(\E p \in Pids : TakeLock(p) \/ Leave(p) \/ DeployerEnds(p))
  /\ WF_vars(\E c \in Components : Tick(c))
FairSpec == Spec /\ Fairness

-----------------------------------------------------------------------------
\* Every variable has its type.
TypeOK ==
  /\ life \in [Pids -> {"gone", "starting", "up"}]
  /\ told \subseteq Pids
  /\ slot \in [Components -> Children]
  /\ operation \in {"Idle", "Deploy", "Restart", "Failed", "Shutdown"}
  /\ due \in [Components -> BOOLEAN]
  /\ {stopping, wake, busy, result, posted} \subseteq BOOLEAN
  /\ worker.held \in [Components -> Children] /\ worker.failed \in BOOLEAN
  /\ worker.child \in (IF worker.at = "observe" THEN DeployerPids ELSE Children)
  /\ monitor.child \in Children /\ monitor.watch \subseteq Pids
  /\ main.held \in [Components -> Children] /\ main.child \in Children
  /\ faults \in 0..MaxFaults

\* No running service is forgotten: once startup cleared what was there before,
\* each is in a slot, borrowed, being started, or has been told to stop
\* (service_supervisor.rs, restore_after_operation, monitor_child).
NothingForgotten ==
  main.at # "clear" =>
    \A p \in ServerPids \cup RendererPids :
      Alive(p) => p \in told \/ p \in Owned \/ main.at \in {"end", "gone"}

\* While the monitor sleeps, the death of every component it must restart will
\* wake it, and so will every operation that gives components back.
MonitorIsRoused ==
  monitor.at = "wait" /\ ~wake /\ worker.at \notin {"acquired", "restored"} =>
    /\ ~stopping
    /\ \A c \in Components : IsMonitored(c) =>
         IF slot[c] = NoChild THEN c \in monitor.timers ELSE slot[c] \in monitor.watch

\* The tray refuses operations only while one runs or its result waits to be
\* shown: BUSY is never left behind (operations.rs, begin and take_result).
BusyIsAnswered == busy => worker.at # "none" \/ result

\* An orderly exit leaves no service behind in a slot or with a worker, whatever
\* was being started or deployed when it was asked for.
ExitIsComplete ==
  main.at \in {"end", "gone"} =>
    /\ slot = NoChildren /\ worker.held = NoChildren
    /\ \A p \in ServerPids \cup RendererPids :
         p \in {monitor.child, worker.child} => ~Alive(p)

\* Once operations stop and the last did not leave the broker in Failed, both
\* components are running for good, whatever failed before.
IsUp(c) == slot[c] # NoChild /\ life[slot[c]] = "up"
ComesBack ==
  <>[](main.at = "loop" /\ ~busy /\ operation = "Idle") => <>[](\A c \in Components : IsUp(c))

\* The exit gets through, whatever the monitor and the worker are in, unless the
\* broker is killed in the middle of it.
ExitEnds == stopping ~> main.at = "gone" \/ ~stopping

\* service_supervisor.rs:313, of monitor_child: the deployment window may still
\* hold the data lock, and the server must not be started beside it.
NoServerBesideDeployer ==
  monitor.child \in ServerPids /\ Alive(monitor.child) => \A d \in DeployerPids : ~Alive(d)

\* The invariant of the supervision: the types, no running service that nobody
\* holds, a monitor that sleeps over no death it must answer, and a tray that is
\* refused only for an operation that runs or was not reported.
Inv == TypeOK /\ NothingForgotten /\ MonitorIsRoused /\ BusyIsAnswered

\* The broker recovers and leaves: its services come back after whatever failed,
\* and an exit that was asked for gets through.
Recovers == ComesBack /\ ExitEnds
=============================================================================
