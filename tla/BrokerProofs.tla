---------------------------- MODULE BrokerProofs ----------------------------
(***************************************************************************)
(* What the broker never does, for every set of processes and clients and  *)
(* every number of faults, requests, edits, restarts and writes of others. *)
(*                                                                         *)
(* Its supervision forgets no running service, sleeps over no death it     *)
(* must answer, leaves no operation unanswered and no service behind when  *)
(* it exits (Supervisor.Inv and ExitIsComplete).  None of the four is      *)
(* inductive by itself.  What they rest on is where a Child value may be   *)
(* at each place of the three threads (MonitorInv, WorkerInv, MainInv: a   *)
(* place that overwrites a reference finds it empty) and which threads run *)
(* together (ThreadsInv).                                                  *)
(*                                                                         *)
(* The settings service and the settings window do one thing at a time and *)
(* save honestly (SettingsInv, SavesAreHonest).  The service rests on      *)
(* where the one permit is: free with nobody waiting, granted, or with an  *)
(* operation (HolderInv), and on a queue of those that wait (QueueInv).    *)
(* The window rests on what each place of a save knows: what changed was   *)
(* validated, and the file is what was read unless it was overtaken        *)
(* (SaveInv), and on a draft without a change being what was read          *)
(* (DraftInv).                                                             *)
(***************************************************************************)
EXTENDS Supervisor, BrokerSettings, SequenceTheorems, FiniteSetTheorems, TLAPS

-----------------------------------------------------------------------------
(* The supervision.                                                        *)

Services == ServerPids \cup RendererPids

MonitorPlaces == {"off", "server", "renderer", "spawn", "start", "store", "rest", "wait", "end"}
WorkerPlaces ==
  {"none", "acquire", "acquired", "stopServer", "stopRenderer", "undoServer", "undoRenderer",
   "spawnUi", "observe", "lock", "reload", "spawn", "start", "restore", "restored", "publish",
   "notify"}
Startup == {"clear", "spawn", "start", "install", "undo"}
MainPlaces == Startup \cup {"loop", "joinMonitor", "joinWorker", "take", "stopServer",
                            "stopRenderer", "end", "gone"}

\* Only services are told to stop, and only while they run.
ProcInv ==
  /\ life \in [Pids -> {"gone", "starting", "up"}]
  /\ told \subseteq Services
  /\ \A p \in told : life[p] # "gone"
  /\ faults \in 0..MaxFaults

SharedInv ==
  /\ slot \in [Components -> Children]
  /\ operation \in {"Idle", "Deploy", "Restart", "Failed", "Shutdown"}
  /\ due \in [Components -> BOOLEAN]
  /\ {stopping, wake, busy, result, posted} \subseteq BOOLEAN

\* The monitor has a child only between the spawn and the store.
MonitorInv ==
  /\ monitor \in [at : MonitorPlaces, component : Components, child : Children,
                  watch : SUBSET Services, timers : SUBSET Components]
  /\ monitor.at \notin {"start", "store"} => monitor.child = NoChild
  /\ monitor.at = "start" => monitor.child # NoChild

\* The worker has a child while it starts a service or watches a deployment; it
\* starts one only for a component it holds nothing of, and ends with nothing.
WorkerInv ==
  /\ worker \in [at : WorkerPlaces, operation : {"Deploy", "Restart"}, component : Components,
                 held : [Components -> Children], child : Children \cup DeployerPids,
                 failed : BOOLEAN]
  /\ worker.at \notin {"start", "observe"} => worker.child = NoChild
  /\ worker.at = "start" => worker.child \in Services
  /\ worker.at = "observe" => worker.child \in DeployerPids
  /\ worker.at \in {"none", "acquire", "restored", "publish", "notify", "reload"} =>
       worker.held["server"] = NoChild /\ worker.held["renderer"] = NoChild
  /\ worker.operation = "Deploy" =>
       /\ worker.held["renderer"] = NoChild
       /\ worker.at \notin {"stopRenderer", "reload"}
       /\ worker.at \in {"spawn", "start"} => worker.component = "server"
  /\ worker.at \in {"stopRenderer", "spawnUi", "observe", "lock", "spawn", "start"} =>
       worker.held["server"] = NoChild
  /\ worker.at \in {"spawn", "start"} => worker.held[worker.component] = NoChild

\* The main thread has a child while it starts one, and holds children only in
\* startup and in the exit; the slots are empty in both.
MainInv ==
  /\ main \in [at : MainPlaces, component : Components, child : Children,
               held : [Components -> Children]]
  /\ main.at # "start" => main.child = NoChild
  /\ main.at = "start" => main.child # NoChild
  /\ main.at \in Startup \cup {"stopServer", "stopRenderer", "end", "gone"} =>
       slot["server"] = NoChild /\ slot["renderer"] = NoChild
  /\ main.at \in {"clear", "loop", "joinMonitor", "joinWorker", "take"} =>
       main.held["server"] = NoChild /\ main.held["renderer"] = NoChild
  /\ main.at \in {"spawn", "start"} =>
       main.held["server"] = NoChild /\ main.held[main.component] = NoChild

\* The monitor runs from the end of startup to the first join, the worker from a
\* command to the second.
ThreadsInv ==
  /\ main.at \in Startup => monitor.at = "off"
  /\ main.at \in {"joinWorker", "take", "stopServer", "stopRenderer"} => monitor.at = "end"
  /\ main.at \in {"end", "gone"} => monitor.at \in {"off", "end"}
  /\ main.at \notin {"loop", "joinMonitor", "joinWorker"} => worker.at = "none"

\* What runs before the broker cleared it is told to leave, or has the lock of a
\* component that is still to be cleared.
StaleInv ==
  main.at = "clear" =>
    \A p \in Services : life[p] # "gone" =>
      \/ p \in told
      \/ life[p] = "up" /\ (main.component = "renderer" => p \notin ServerPids)

\* BusyIsAnswered, and the result is there before the worker ends.
BusyInv == busy => result \/ worker.at \notin {"none", "notify"}

TypeInv == ProcInv /\ SharedInv /\ MonitorInv /\ WorkerInv /\ MainInv
IInv == TypeInv /\ ThreadsInv /\ StaleInv /\ NothingForgotten /\ MonitorIsRoused /\ BusyInv

-----------------------------------------------------------------------------
\* The kinds of processes, and the two components.
LEMMA Kinds ==
  /\ Services \subseteq Pids /\ DeployerPids \subseteq Pids
  /\ NoChild \notin Pids /\ NoChild \in Children
  /\ Children = Services \cup {NoChild}
  /\ Services \cap DeployerPids = {} /\ ServerPids \cap RendererPids = {}
  /\ \A c \in Components : PidsOf(c) \subseteq Services
  /\ \A c \in Components : c = "server" \/ c = "renderer"
  /\ "server" \in Components /\ "renderer" \in Components /\ "server" # "renderer"
  /\ NoChildren \in [Components -> Children]
  /\ NoChildren["server"] = NoChild /\ NoChildren["renderer"] = NoChild
BY PidsAreDisjoint DEF Services, Pids, Children, Components, PidsOf, NoChildren

\* A family of children that is empty for both components is the empty one.
LEMMA NoneOfTwo ==
  ASSUME NEW held \in [Components -> Children],
         held["server"] = NoChild, held["renderer"] = NoChild
  PROVE held = NoChildren
BY DEF Components, NoChildren

\* The two families of a lookup by the worker's place.
LEMMA StopPlaces ==
  /\ DOMAIN Stopping = {"stopServer", "stopRenderer", "undoServer", "undoRenderer"}
  /\ Stopping["stopServer"] = "server" /\ Stopping["stopRenderer"] = "renderer"
  /\ Stopping["undoServer"] = "server" /\ Stopping["undoRenderer"] = "renderer"
  /\ AfterStop["stopServer"] =
       IF worker.operation = "Deploy" THEN "spawnUi" ELSE "stopRenderer"
  /\ AfterStop["stopRenderer"] = "reload" /\ AfterStop["undoServer"] = "undoRenderer"
  /\ AfterStop["undoRenderer"] = "restore"
  /\ AfterRefusal["stopServer"] = "restore" /\ AfterRefusal["stopRenderer"] = "restore"
  /\ AfterRefusal["undoServer"] = "undoRenderer" /\ AfterRefusal["undoRenderer"] = "restore"
BY DEF Stopping, AfterStop, AfterRefusal

\* Who leaves a thread alone.
LEMMA WorkerKept ==
  ASSUME MonitorNext \/ MainNext \/ Environment \/ BeginFails \/ ShowMenu \/ Exit
  PROVE UNCHANGED worker
BY DEF MonitorNext, MonitorPasses, MonitorFindsExit, MonitorDefers, MonitorDecides,
       MonitorSpawns, MonitorCannotSpawn, MonitorStarted, MonitorGivesUp, MonitorStores,
       MonitorRests, MonitorWakes, MainNext, ClearStale, MainSpawns, MainStarted,
       MainStartFails, Install, ShowResult, JoinMonitor, JoinWorker, TakeAll, MainStops, End,
       Environment, TakeLock, Leave, DeployerEnds, Crash, Tick, BeginFails, ShowMenu, Exit

LEMMA MonitorKept ==
  ASSUME WorkerNext \/ Environment \/ User \/ (MainNext /\ ~Install)
  PROVE UNCHANGED monitor
BY DEF WorkerNext, Acquire, WakeAfterAcquire, WorkerStopped, WorkerAsks, WorkerRefused, SpawnUi,
       ObserveEnds, RestoreLock, Reload, WorkerSpawns, WorkerCannotSpawn, WorkerStarted,
       WorkerStartedDead, WorkerGivesUp, Restore, WakeAfterRestore, PublishResult, Notify,
       MainNext, ClearStale, MainSpawns, MainStarted,
       MainStartFails, ShowResult, JoinMonitor, JoinWorker, TakeAll, MainStops, End,
       Environment, TakeLock, Leave, DeployerEnds, Crash, Tick,
       User, Begin, BeginFails, ShowMenu, Exit

LEMMA MainKept ==
  ASSUME MonitorNext \/ WorkerNext \/ Environment \/ BeginFails \/ ShowMenu
         \/ (\E op \in {"Deploy", "Restart"} : Begin(op)) \/ ShowResult
  PROVE UNCHANGED main
BY DEF MonitorNext, MonitorPasses, MonitorFindsExit, MonitorDefers, MonitorDecides,
       MonitorSpawns, MonitorCannotSpawn, MonitorStarted, MonitorGivesUp, MonitorStores,
       MonitorRests, MonitorWakes, WorkerNext, Acquire, WakeAfterAcquire, WorkerStopped,
       WorkerAsks, WorkerRefused, SpawnUi,
       ObserveEnds, RestoreLock, Reload, WorkerSpawns, WorkerCannotSpawn, WorkerStarted,
       WorkerStartedDead, WorkerGivesUp, Restore, WakeAfterRestore, PublishResult, Notify,
       Environment, TakeLock, Leave, DeployerEnds, Crash, Tick, Begin, BeginFails, ShowMenu,
       ShowResult

-----------------------------------------------------------------------------
\* The worker's references.
LEMMA WorkerStep == TypeInv /\ [Next]_vars => WorkerInv'
<1> SUFFICES ASSUME TypeInv, [Next]_vars PROVE WorkerInv'
  OBVIOUS
<1> USE Kinds
<1> USE DEF TypeInv
<1>1. ASSUME UNCHANGED worker PROVE WorkerInv'
  BY <1>1 DEF WorkerInv
<1>2. CASE MonitorNext \/ MainNext \/ Environment \/ BeginFails \/ ShowMenu \/ Exit
  BY <1>1, <1>2, WorkerKept
<1>3. CASE WorkerNext
  <2>1. CASE Acquire
    BY <2>1 DEF Acquire, WorkerInv, SharedInv, WorkerPlaces
  <2>2. CASE WakeAfterAcquire
    BY <2>2 DEF WakeAfterAcquire, Goes, WorkerInv, WorkerPlaces
  <2>3. CASE WorkerStopped
    <3>1. CASE worker.at = "stopServer"
      <4>1. worker' = [worker EXCEPT !.held = [worker.held EXCEPT !["server"] = NoChild],
                         !.at = IF worker.operation = "Deploy" THEN "spawnUi" ELSE "stopRenderer"]
        BY <2>3, <3>1, StopPlaces DEF WorkerStopped, Lets
      <4>2. CASE worker.operation = "Deploy"
        BY <4>1, <4>2, <3>1 DEF WorkerInv, WorkerPlaces
      <4>3. CASE worker.operation # "Deploy"
        BY <4>1, <4>3, <3>1 DEF WorkerInv, WorkerPlaces
      <4> QED
        BY <4>2, <4>3
    <3>2. CASE worker.at = "stopRenderer"
      BY <2>3, <3>2, StopPlaces DEF WorkerStopped, Lets, WorkerInv, WorkerPlaces
    <3>3. CASE worker.at = "undoServer"
      BY <2>3, <3>3, StopPlaces DEF WorkerStopped, Lets, WorkerInv, WorkerPlaces
    <3>4. CASE worker.at = "undoRenderer"
      BY <2>3, <3>4, StopPlaces DEF WorkerStopped, Lets, WorkerInv, WorkerPlaces
    <3> QED
      BY <2>3, <3>1, <3>2, <3>3, <3>4, StopPlaces DEF WorkerStopped
  <2>4. CASE WorkerAsks
    BY <1>1, <2>4 DEF WorkerAsks
  <2>5. CASE WorkerRefused
    BY <2>5, StopPlaces DEF WorkerRefused, Fails, WorkerInv, WorkerPlaces
  <2>6. CASE SpawnUi
    <3>1. \/ \E p \in DeployerPids : worker' = [worker EXCEPT !.at = "observe", !.child = p]
          \/ worker' = [worker EXCEPT !.at = "lock", !.failed = TRUE]
      BY <2>6 DEF SpawnUi, Goes, Fails
    <3>2. worker.at = "spawnUi"
      BY <2>6 DEF SpawnUi
    <3>3. ASSUME NEW p \in DeployerPids, worker' = [worker EXCEPT !.at = "observe", !.child = p]
          PROVE WorkerInv'
      BY <3>2, <3>3 DEF WorkerInv, WorkerPlaces
    <3>4. CASE worker' = [worker EXCEPT !.at = "lock", !.failed = TRUE]
      BY <3>2, <3>4 DEF WorkerInv, WorkerPlaces
    <3> QED
      BY <3>1, <3>3, <3>4
  <2>7. CASE ObserveEnds
    <3>1. /\ worker.at = "observe"
          /\ \/ worker' = [worker EXCEPT !.at = "lock", !.child = NoChild]
             \/ worker' = [worker EXCEPT !.at = "lock", !.child = NoChild, !.failed = TRUE]
      BY <2>7 DEF ObserveEnds, Goes
    <3>2. CASE worker' = [worker EXCEPT !.at = "lock", !.child = NoChild]
      BY <3>1, <3>2 DEF WorkerInv, WorkerPlaces
    <3>3. CASE worker' = [worker EXCEPT !.at = "lock", !.child = NoChild, !.failed = TRUE]
      BY <3>1, <3>3 DEF WorkerInv, WorkerPlaces
    <3> QED
      BY <3>1, <3>2, <3>3
  <2>8. CASE RestoreLock
    <3>1. /\ worker.at = "lock"
          /\ \/ worker' = [worker EXCEPT !.at = "restore", !.failed = TRUE]
             \/ worker' = [worker EXCEPT !.at = "spawn", !.component = "server"]
      BY <2>8 DEF RestoreLock, Fails
    <3>2. CASE worker' = [worker EXCEPT !.at = "restore", !.failed = TRUE]
      BY <3>1, <3>2 DEF WorkerInv, WorkerPlaces
    <3>3. CASE worker' = [worker EXCEPT !.at = "spawn", !.component = "server"]
      BY <3>1, <3>3 DEF WorkerInv, WorkerPlaces
    <3> QED
      BY <3>1, <3>2, <3>3
  <2>9. CASE Reload
    BY <2>9 DEF Reload, Goes, WorkerInv, WorkerPlaces
  <2>10. CASE WorkerSpawns
    <3>1. PICK p \in PidsOf(worker.component) :
            worker' = [worker EXCEPT !.at = "start", !.child = p]
      BY <2>10 DEF WorkerSpawns
    <3>2. worker.at = "spawn" /\ p \in Services
      BY <2>10, <3>1 DEF WorkerSpawns, WorkerInv
    <3> QED
      BY <3>1, <3>2 DEF WorkerInv, WorkerPlaces
  <2>11. CASE WorkerCannotSpawn
    BY <2>11 DEF WorkerCannotSpawn, StartFailed, Fails, WorkerInv, WorkerPlaces
  <2>12. CASE WorkerStarted
    BY <2>12 DEF WorkerStarted, WorkerInv, WorkerPlaces
  <2>13. CASE WorkerStartedDead
    BY <2>13 DEF WorkerStartedDead, StartFailed, Fails, WorkerInv, WorkerPlaces
  <2>14. CASE WorkerGivesUp
    BY <2>14 DEF WorkerGivesUp, StartFailed, Fails, WorkerInv, WorkerPlaces
  <2>15. CASE Restore
    BY <2>15 DEF Restore, FreshWorker, WorkerInv, WorkerPlaces
  <2>16. CASE WakeAfterRestore
    BY <2>16 DEF WakeAfterRestore, Goes, WorkerInv, WorkerPlaces
  <2>17. CASE PublishResult
    BY <2>17 DEF PublishResult, Goes, WorkerInv, WorkerPlaces
  <2>18. CASE Notify
    BY <2>18 DEF Notify, FreshWorker, WorkerInv, WorkerPlaces
  <2> QED
    BY <1>3, <2>1, <2>2, <2>3, <2>4, <2>5, <2>6, <2>7, <2>8, <2>9, <2>10, <2>11, <2>12, <2>13,
       <2>14, <2>15, <2>16, <2>17, <2>18 DEF WorkerNext
<1>4. ASSUME NEW op \in {"Deploy", "Restart"}, Begin(op) PROVE WorkerInv'
  BY <1>4 DEF Begin, WorkerInv, WorkerPlaces
<1>5. CASE BrokerRestarts
  BY <1>5 DEF BrokerRestarts, FreshWorker, WorkerInv, WorkerPlaces
<1>6. CASE UNCHANGED vars
  BY <1>1, <1>6 DEF vars
<1> QED
  BY <1>2, <1>3, <1>4, <1>5, <1>6 DEF Next, User

\* The monitor's.
LEMMA MonitorStep == TypeInv /\ ThreadsInv /\ [Next]_vars => MonitorInv'
<1> SUFFICES ASSUME TypeInv, ThreadsInv, [Next]_vars PROVE MonitorInv'
  OBVIOUS
<1> USE Kinds
<1> USE DEF TypeInv
<1>1. ASSUME UNCHANGED monitor PROVE MonitorInv'
  BY <1>1 DEF MonitorInv
<1>2. CASE WorkerNext \/ Environment \/ User \/ (MainNext /\ ~Install)
  BY <1>1, <1>2, MonitorKept
<1>3. CASE Install
  <2>1. monitor.at = "off" /\ monitor' = [monitor EXCEPT !.at = "server"]
    BY <1>3 DEF Install, ThreadsInv, Startup
  <2> QED
    BY <2>1 DEF MonitorInv, MonitorPlaces
<1>4. CASE MonitorNext
  <2>0. \A c \in Components : Other[c] \in {"renderer", "rest"}
    BY DEF Other
  <2>1. ASSUME NEW c \in Components,
               MonitorPasses(c) \/ MonitorFindsExit(c) \/ MonitorDefers(c) \/ MonitorDecides(c)
        PROVE MonitorInv'
    <3>1. monitor.at = c /\ c \in {"server", "renderer"}
      BY <2>1 DEF MonitorPasses, MonitorFindsExit, MonitorDefers, MonitorDecides
    <3>2. \/ monitor' = [monitor EXCEPT !.at = Other[c]]
          \/ monitor' = [monitor EXCEPT !.at = "spawn", !.component = c]
      BY <2>1 DEF MonitorPasses, MonitorFindsExit, MonitorDefers, MonitorDecides
    <3> QED
      BY <2>0, <3>1, <3>2 DEF MonitorInv, MonitorPlaces
  <2>2. CASE MonitorSpawns
    BY <2>2 DEF MonitorSpawns, MonitorInv, MonitorPlaces
  <2>3. CASE MonitorCannotSpawn \/ MonitorStarted \/ MonitorGivesUp
    BY <2>3 DEF MonitorCannotSpawn, MonitorStarted, MonitorGivesUp, MonitorInv, MonitorPlaces
  <2>4. CASE MonitorStores
    BY <2>0, <2>4 DEF MonitorStores, MonitorInv, MonitorPlaces
  <2>5. CASE MonitorRests
    <3>1. {slot[c] : c \in {d \in Components : IsMonitored(d)}} \ {NoChild} \subseteq Services
      BY DEF SharedInv
    <3>2. {c \in Components : IsMonitored(c) /\ slot[c] = NoChild} \subseteq Components
      OBVIOUS
    <3> QED
      BY <2>5, <3>1, <3>2 DEF MonitorRests, MonitorInv, MonitorPlaces
  <2>6. CASE MonitorWakes
    BY <2>6 DEF MonitorWakes, MonitorInv, MonitorPlaces
  <2> QED
    BY <1>4, <2>1, <2>2, <2>3, <2>4, <2>5, <2>6 DEF MonitorNext
<1>5. CASE BrokerRestarts
  BY <1>5 DEF BrokerRestarts, FreshMonitor, MonitorInv, MonitorPlaces
<1>6. CASE UNCHANGED vars
  BY <1>1, <1>6 DEF vars
<1> QED
  BY <1>2, <1>3, <1>4, <1>5, <1>6 DEF Next

-----------------------------------------------------------------------------
\* Where the main thread is while another one takes a step.
LEMMA ActiveThreads ==
  ASSUME TypeInv, ThreadsInv
  PROVE /\ MonitorNext => monitor.at \notin {"off", "end"} /\ main.at \in {"loop", "joinMonitor"}
        /\ WorkerNext =>
             worker.at # "none" /\ main.at \in {"loop", "joinMonitor", "joinWorker"}
<1>1. MonitorNext => monitor.at \notin {"off", "end"}
  BY Kinds DEF MonitorNext, MonitorPasses, MonitorFindsExit, MonitorDefers, MonitorDecides,
       MonitorSpawns, MonitorCannotSpawn, MonitorStarted, MonitorGivesUp, MonitorStores,
       MonitorRests, MonitorWakes
<1>2. WorkerNext => worker.at # "none"
  BY StopPlaces DEF WorkerNext, Acquire, WakeAfterAcquire, WorkerStopped, WorkerAsks,
       WorkerRefused, SpawnUi, ObserveEnds, RestoreLock, Reload, WorkerSpawns,
       WorkerCannotSpawn, WorkerStarted, WorkerStartedDead, WorkerGivesUp, Restore,
       WakeAfterRestore, PublishResult, Notify
<1>3. main.at \in MainPlaces
  BY DEF TypeInv, MainInv
<1> QED
  BY <1>1, <1>2, <1>3 DEF ThreadsInv, MainPlaces, Startup

\* The main thread's references, and the slots while it has the services.
LEMMA MainStep == TypeInv /\ ThreadsInv /\ [Next]_vars => MainInv'
<1> SUFFICES ASSUME TypeInv, ThreadsInv, [Next]_vars PROVE MainInv'
  OBVIOUS
<1> USE Kinds
<1> USE DEF TypeInv
<1>1. ASSUME UNCHANGED main, main.at \in {"loop", "joinMonitor", "joinWorker"} \/ UNCHANGED slot
      PROVE MainInv'
  BY <1>1 DEF MainInv, MainPlaces, Startup
<1>2. CASE MonitorNext \/ WorkerNext
  BY <1>1, <1>2, ActiveThreads, MainKept
<1>3. CASE Environment \/ BeginFails \/ ShowMenu
  <2>1. UNCHANGED slot
    BY <1>3 DEF Environment, TakeLock, Leave, DeployerEnds, Crash, Tick, BeginFails, ShowMenu,
                shared
  <2> QED
    BY <1>1, <1>3, <2>1, MainKept
<1>4. CASE \E op \in {"Deploy", "Restart"} : Begin(op)
  <2>1. UNCHANGED slot
    BY <1>4 DEF Begin, shared
  <2> QED
    BY <1>1, <1>4, <2>1, MainKept
<1>5. CASE Exit
  BY <1>5 DEF Exit, MainGoes, MainInv, MainPlaces, Startup, shared
<1>6. CASE MainNext
  <2>1. CASE ClearStale
    <3>1. /\ main.at = "clear" /\ UNCHANGED slot
          /\ \/ UNCHANGED main
             \/ main' = [main EXCEPT !.component = "renderer"]
             \/ main.component # "server" /\ main' = [main EXCEPT !.at = "spawn"]
             \/ main' = [main EXCEPT !.at = "end"]
      BY <2>1 DEF ClearStale, MainGoes, shared
    <3>2. CASE UNCHANGED main
      BY <1>1, <3>1, <3>2
    <3>3. CASE main' = [main EXCEPT !.component = "renderer"]
      BY <3>1, <3>3 DEF MainInv, MainPlaces, Startup
    <3>4. CASE main.component # "server" /\ main' = [main EXCEPT !.at = "spawn"]
      BY <3>1, <3>4 DEF MainInv, MainPlaces, Startup
    <3>5. CASE main' = [main EXCEPT !.at = "end"]
      BY <3>1, <3>5 DEF MainInv, MainPlaces, Startup
    <3> QED
      BY <3>1, <3>2, <3>3, <3>4, <3>5
  <2>2. CASE MainSpawns
    <3>1. PICK p \in PidsOf(main.component) : main' = [main EXCEPT !.at = "start", !.child = p]
      BY <2>2 DEF MainSpawns
    <3>2. main.at = "spawn" /\ p \in Services /\ UNCHANGED slot
      BY <2>2, <3>1 DEF MainSpawns, MainInv, shared
    <3> QED
      BY <3>1, <3>2 DEF MainInv, MainPlaces, Startup
  <2>3. CASE MainStarted
    <3>1. /\ main.at = "start" /\ UNCHANGED slot
          /\ \/ main.component = "renderer"
                /\ main' = [main EXCEPT !.held["renderer"] = main.child, !.child = NoChild,
                                        !.at = "spawn", !.component = "server"]
             \/ main.component = "server"
                /\ main' = [main EXCEPT !.held["server"] = main.child, !.child = NoChild,
                                        !.at = "install", !.component = "server"]
      BY <2>3 DEF MainStarted, shared, MainInv
    <3>2. CASE main.component = "renderer"
      <4>1. main' = [main EXCEPT !.held = [main.held EXCEPT !["renderer"] = main.child],
                       !.child = NoChild, !.at = "spawn", !.component = "server"]
        BY <3>1, <3>2
      <4>2. [main.held EXCEPT !["renderer"] = main.child] \in [Components -> Children]
        BY DEF MainInv
      <4> QED
        BY <3>1, <3>2, <4>1, <4>2 DEF MainInv, MainPlaces, Startup
    <3>3. CASE main.component = "server"
      <4>1. main' = [main EXCEPT !.held = [main.held EXCEPT !["server"] = main.child],
                       !.child = NoChild, !.at = "install", !.component = "server"]
        BY <3>1, <3>3
      <4>2. [main.held EXCEPT !["server"] = main.child] \in [Components -> Children]
        BY DEF MainInv
      <4> QED
        BY <3>1, <3>3, <4>1, <4>2 DEF MainInv, MainPlaces, Startup
    <3> QED
      BY <3>2, <3>3 DEF MainInv
  <2>4. CASE MainStartFails
    <3>1. /\ main.at \in {"spawn", "start"} /\ UNCHANGED slot
          /\ \/ main' = [main EXCEPT !.at = "undo", !.child = NoChild]
             \/ main' = [main EXCEPT !.at = "end", !.child = NoChild]
      BY <2>4 DEF MainStartFails, shared
    <3>2. CASE main' = [main EXCEPT !.at = "undo", !.child = NoChild]
      BY <3>1, <3>2 DEF MainInv, MainPlaces, Startup
    <3>3. CASE main' = [main EXCEPT !.at = "end", !.child = NoChild]
      BY <3>1, <3>3 DEF MainInv, MainPlaces, Startup
    <3> QED
      BY <3>1, <3>2, <3>3
  <2>5. CASE Install
    <3>1. \/ main' = [main EXCEPT !.at = "loop", !.held = NoChildren]
          \/ main' = [main EXCEPT !.at = "joinMonitor", !.held = NoChildren]
      BY <2>5 DEF Install
    <3>2. main.at = "install"
      BY <2>5 DEF Install
    <3> QED
      BY <3>1, <3>2 DEF MainInv, MainPlaces, Startup
  <2>6. CASE ShowResult
    BY <1>1, <2>6, MainKept DEF ShowResult, shared
  <2>7. CASE JoinMonitor
    BY <2>7 DEF JoinMonitor, MainGoes, shared, MainInv, MainPlaces, Startup
  <2>8. CASE JoinWorker
    BY <2>8 DEF JoinWorker, MainGoes, shared, MainInv, MainPlaces, Startup
  <2>9. CASE TakeAll
    BY <2>9 DEF TakeAll, MainInv, SharedInv, MainPlaces, Startup
  <2>10. ASSUME \/ MainStops("server", "stopServer", "stopRenderer")
                \/ MainStops("renderer", "stopRenderer", "end")
                \/ MainStops("renderer", "undo", "end")
         PROVE MainInv'
    <3>1. /\ UNCHANGED slot /\ main.at \in {"stopServer", "stopRenderer", "undo"}
          /\ \/ UNCHANGED main
             \/ main' = [main EXCEPT !.at = "stopRenderer"]
             \/ main' = [main EXCEPT !.at = "end"]
      BY <2>10 DEF MainStops, MainGoes, shared
    <3>2. CASE UNCHANGED main
      BY <1>1, <3>1, <3>2
    <3>3. CASE main' = [main EXCEPT !.at = "stopRenderer"]
      BY <3>1, <3>3 DEF MainInv, MainPlaces, Startup
    <3>4. CASE main' = [main EXCEPT !.at = "end"]
      BY <3>1, <3>4 DEF MainInv, MainPlaces, Startup
    <3> QED
      BY <3>1, <3>2, <3>3, <3>4
  <2>11. CASE End
    BY <2>11 DEF End, shared, MainInv, MainPlaces, Startup
  <2> QED
    BY <1>6, <2>1, <2>2, <2>3, <2>4, <2>5, <2>6, <2>7, <2>8, <2>9, <2>10, <2>11 DEF MainNext
<1>7. CASE BrokerRestarts
  BY <1>7 DEF BrokerRestarts, FreshMain, MainInv, MainPlaces, Startup
<1>8. CASE UNCHANGED vars
  BY <1>1, <1>8 DEF vars, shared
<1> QED
  BY <1>2, <1>3, <1>4, <1>5, <1>6, <1>7, <1>8 DEF Next, User

-----------------------------------------------------------------------------
\* A step leaves the processes alone, tells some services that run, ends a
\* process, lets one take its lock, or starts one that is gone.
Tells == \E ps \in SUBSET Services :
           /\ \A p \in ps : life[p] # "gone"
           /\ told' = told \cup ps /\ UNCHANGED life
Ends(p) == life[p] # "gone" /\ life' = [life EXCEPT ![p] = "gone"] /\ told' = told \ {p}
Serves(p) == life[p] = "starting" /\ life' = [life EXCEPT ![p] = "up"] /\ UNCHANGED told
Appears(p) == life[p] = "gone" /\ life' = [life EXCEPT ![p] = "starting"] /\ UNCHANGED told

LEMMA TellsOne ==
  ASSUME NEW p \in Services, told' = told \cup {p}, life[p] # "gone", UNCHANGED life
  PROVE Tells
<1>1. {p} \in SUBSET Services
  OBVIOUS
<1> QED
  BY <1>1 DEF Tells

LEMMA DropTells ==
  ASSUME NEW ps \in SUBSET Children, Drop(ps), UNCHANGED life
  PROVE Tells
<1>1. {p \in ps : Alive(p)} \in SUBSET Services
  BY Kinds DEF Alive
<1>2. \A p \in {q \in ps : Alive(q)} : life[p] # "gone"
  BY DEF Alive
<1> QED
  BY <1>1, <1>2 DEF Drop, Tells

LEMMA MonitorProcs ==
  ASSUME TypeInv, MonitorNext
  PROVE UNCHANGED procs \/ Tells \/ \E p \in Services : Appears(p) /\ MonitorSpawns
<1> USE Kinds
<1> USE DEF TypeInv, procs
<1>1. CASE MonitorSpawns
  <2>1. monitor.component \in Components
    BY DEF MonitorInv
  <2>2. PICK p \in PidsOf(monitor.component) : Spawn(p, monitor.component)
    BY <1>1 DEF MonitorSpawns
  <2>3. Appears(p) /\ p \in Services
    BY <2>1, <2>2 DEF Spawn, Appears
  <2> QED
    BY <1>1, <2>3
<1>2. CASE MonitorGivesUp
  <2>1. monitor.child \in Services
    BY <1>2 DEF MonitorGivesUp, MonitorInv
  <2> QED
    BY <1>2, <2>1, TellsOne DEF MonitorGivesUp, GivesUp
<1>3. CASE MonitorStores
  <2>1. {slot[monitor.component]} \in SUBSET Children /\ {monitor.child} \in SUBSET Children
    BY DEF SharedInv, MonitorInv
  <2>2. UNCHANGED life /\ (Drop({slot[monitor.component]}) \/ Drop({monitor.child})
                           \/ UNCHANGED told)
    BY <1>3 DEF MonitorStores
  <2> QED
    BY <2>1, <2>2, DropTells
<1>4. CASE MonitorCannotSpawn \/ MonitorStarted \/ MonitorRests \/ MonitorWakes
  BY <1>4 DEF MonitorCannotSpawn, MonitorStarted, MonitorRests, MonitorWakes
<1>5. CASE \E c \in Components : \/ MonitorPasses(c) \/ MonitorFindsExit(c)
                                 \/ MonitorDefers(c) \/ MonitorDecides(c)
  BY <1>5 DEF MonitorPasses, MonitorFindsExit, MonitorDefers, MonitorDecides
<1> QED
  BY <1>1, <1>2, <1>3, <1>4, <1>5 DEF MonitorNext

LEMMA WorkerProcs ==
  ASSUME TypeInv, WorkerNext
  PROVE \/ UNCHANGED procs \/ Tells
        \/ \E p \in Services : Appears(p) /\ WorkerSpawns
        \/ \E p \in DeployerPids : Appears(p) /\ SpawnUi
<1> USE Kinds
<1> USE DEF TypeInv, procs
<1>1. CASE WorkerSpawns
  <2>1. worker.component \in Components
    BY DEF WorkerInv
  <2>2. PICK p \in PidsOf(worker.component) : Spawn(p, worker.component)
    BY <1>1 DEF WorkerSpawns
  <2>3. Appears(p) /\ p \in Services
    BY <2>1, <2>2 DEF Spawn, Appears
  <2> QED
    BY <1>1, <2>3
<1>2. CASE WorkerGivesUp
  <2>1. worker.child \in Services
    BY <1>2 DEF WorkerGivesUp, WorkerInv
  <2> QED
    BY <1>2, <2>1, TellsOne DEF WorkerGivesUp, GivesUp
<1>3. CASE WorkerAsks
  <2>1. worker.held[Stopping[worker.at]] \in Children
    BY <1>3, StopPlaces DEF WorkerAsks, WorkerInv
  <2>2. Ask(worker.held[Stopping[worker.at]])
    BY <1>3 DEF WorkerAsks
  <2> QED
    BY <2>1, <2>2, TellsOne DEF Ask, Alive
<1>4. CASE Restore
  <2>1. \A given \in SUBSET Components : {slot[c] : c \in given} \in SUBSET Children
    BY DEF SharedInv
  <2>2. {"server"} \in SUBSET Components /\ Components \in SUBSET Components
    OBVIOUS
  <2>3. UNCHANGED life /\ \E given \in SUBSET Components : Drop({slot[c] : c \in given})
    BY <1>4, <2>2 DEF Restore
  <2> QED
    BY <2>1, <2>3, DropTells
<1>5. CASE SpawnUi
  BY <1>5 DEF SpawnUi, Appears
<1>6. CASE Acquire \/ WakeAfterAcquire \/ WorkerStopped \/ WorkerRefused \/ ObserveEnds
           \/ RestoreLock \/ Reload \/ WorkerCannotSpawn \/ WorkerStarted
           \/ WorkerStartedDead \/ WakeAfterRestore \/ PublishResult \/ Notify
  BY <1>6 DEF Acquire, WakeAfterAcquire, WorkerStopped, WorkerRefused, ObserveEnds, RestoreLock,
              Reload, WorkerCannotSpawn, WorkerStarted, WorkerStartedDead, WakeAfterRestore,
              PublishResult, Notify
<1> QED
  BY <1>1, <1>2, <1>3, <1>4, <1>5, <1>6 DEF WorkerNext

LEMMA MainProcs ==
  ASSUME TypeInv, MainNext
  PROVE UNCHANGED procs \/ Tells \/ \E p \in Services : Appears(p) /\ MainSpawns
<1> USE Kinds
<1> USE DEF TypeInv, procs
<1>1. CASE MainSpawns
  <2>1. main.component \in Components
    BY DEF MainInv
  <2>2. PICK p \in PidsOf(main.component) : Spawn(p, main.component)
    BY <1>1 DEF MainSpawns
  <2>3. Appears(p) /\ p \in Services
    BY <2>1, <2>2 DEF Spawn, Appears
  <2> QED
    BY <1>1, <2>3
<1>2. CASE MainStartFails
  <2>1. main.at = "start" => main.child \in Services
    BY DEF MainInv
  <2> QED
    BY <1>2, <2>1, TellsOne DEF MainStartFails, GivesUp
<1>3. CASE ClearStale
  <2>1. \A p \in LockHolders(main.component) \ DeployerPids : p \in Services /\ life[p] # "gone"
    BY DEF LockHolders, MainInv
  <2>2. UNCHANGED procs
        \/ \E p \in LockHolders(main.component) \ DeployerPids :
              told' = told \cup {p} /\ UNCHANGED life
    BY <1>3 DEF ClearStale
  <2> QED
    BY <2>1, <2>2, TellsOne
<1>4. ASSUME NEW c \in Components, NEW from, NEW to, MainStops(c, from, to)
      PROVE UNCHANGED procs \/ Tells
  <2>1. main.held[c] \in Children
    BY DEF MainInv
  <2>2. UNCHANGED procs \/ Ask(main.held[c])
    BY <1>4 DEF MainStops
  <2> QED
    BY <2>1, <2>2, TellsOne DEF Ask, Alive
<1>5. CASE End
  <2>1. {main.held[c] : c \in Components} \in SUBSET Children
    BY DEF MainInv
  <2> QED
    BY <1>5, <2>1, DropTells DEF End
<1>6. CASE MainStarted \/ Install \/ ShowResult \/ JoinMonitor \/ JoinWorker \/ TakeAll
  BY <1>6 DEF MainStarted, Install, ShowResult, JoinMonitor, JoinWorker, TakeAll
<1> QED
  BY <1>1, <1>2, <1>3, <1>4, <1>5, <1>6 DEF MainNext

LEMMA OtherProcs ==
  ASSUME TypeInv, Environment \/ User
  PROVE UNCHANGED procs \/ \E p \in Pids : Ends(p) \/ Serves(p)
<1> USE Kinds
<1> USE DEF TypeInv, procs
<1>1. ASSUME NEW p \in Pids, TakeLock(p) \/ Leave(p) \/ DeployerEnds(p) \/ Crash(p)
      PROVE Ends(p) \/ Serves(p)
  <2>1. CASE TakeLock(p)
    <3>1. life[p] # "gone"
      BY <2>1 DEF TakeLock
    <3> QED
      BY <2>1, <3>1 DEF TakeLock, Ends, Serves
  <2>2. CASE DeployerEnds(p)
    <3>1. told \ {p} = told
      BY <2>2 DEF DeployerEnds, ProcInv
    <3> QED
      BY <2>2, <3>1 DEF DeployerEnds, Ends
  <2>3. CASE Leave(p) \/ Crash(p)
    BY <2>3 DEF Leave, Crash, Ends
  <2> QED
    BY <1>1, <2>1, <2>2, <2>3
<1>2. CASE (\E c \in Components : Tick(c)) \/ User
  BY <1>2 DEF Tick, User, Begin, BeginFails, ShowMenu, Exit
<1> QED
  BY <1>1, <1>2 DEF Environment

\* The faults stay within their budget.
LEMMA FaultsStep == [Next]_vars /\ faults \in 0..MaxFaults => faults' \in 0..MaxFaults
<1> SUFFICES ASSUME [Next]_vars, faults \in 0..MaxFaults PROVE faults' \in 0..MaxFaults
  OBVIOUS
<1>1. ASSUME UNCHANGED faults \/ Fault PROVE faults' \in 0..MaxFaults
  BY <1>1, FaultsAreBounded DEF Fault
<1>2. CASE MonitorNext
  BY <1>1, <1>2 DEF MonitorNext, MonitorPasses, MonitorFindsExit, MonitorDefers, MonitorDecides,
       MonitorSpawns, MonitorCannotSpawn, MonitorStarted, MonitorGivesUp, MonitorStores,
       MonitorRests, MonitorWakes, FaultUnless
<1>3. CASE WorkerNext
  BY <1>1, <1>3 DEF WorkerNext, Acquire, WakeAfterAcquire, WorkerStopped,
       WorkerAsks, WorkerRefused, SpawnUi,
       ObserveEnds, RestoreLock, Reload, WorkerSpawns, WorkerCannotSpawn, WorkerStarted,
       WorkerStartedDead, WorkerGivesUp, Restore, WakeAfterRestore, PublishResult, Notify,
       FaultUnless
<1>4. CASE MainNext
  BY <1>1, <1>4 DEF MainNext, ClearStale, MainSpawns, MainStarted, MainStartFails, Install,
       ShowResult, JoinMonitor, JoinWorker, TakeAll, MainStops, End, FaultUnless
<1>5. CASE Environment \/ User \/ BrokerRestarts
  BY <1>1, <1>5 DEF Environment, TakeLock, Leave, DeployerEnds, Crash, Tick, User, Begin,
       BeginFails, ShowMenu, Exit, BrokerRestarts
<1>6. CASE UNCHANGED vars
  BY <1>1, <1>6 DEF vars
<1> QED
  BY <1>2, <1>3, <1>4, <1>5, <1>6 DEF Next

\* Every step is one of those.
LEMMA ProcMoves ==
  ASSUME TypeInv, [Next]_vars
  PROVE \/ UNCHANGED procs \/ Tells
        \/ \E p \in Pids : Ends(p) \/ Serves(p)
        \/ \E p \in Services : Appears(p) /\ (MonitorSpawns \/ WorkerSpawns \/ MainSpawns)
        \/ \E p \in DeployerPids : Appears(p)
        \/ BrokerRestarts
<1>1. CASE MonitorNext
  BY <1>1, MonitorProcs
<1>2. CASE WorkerNext
  BY <1>2, WorkerProcs
<1>3. CASE MainNext
  BY <1>3, MainProcs
<1>4. CASE Environment \/ User
  BY <1>4, OtherProcs
<1>5. CASE UNCHANGED vars
  BY <1>5 DEF vars
<1> QED
  BY <1>1, <1>2, <1>3, <1>4, <1>5 DEF Next

LEMMA ProcStep == TypeInv /\ [Next]_vars => ProcInv'
<1> SUFFICES ASSUME TypeInv, [Next]_vars PROVE ProcInv'
  OBVIOUS
<1> USE Kinds
<1>0. /\ life \in [Pids -> {"gone", "starting", "up"}] /\ told \subseteq Services
      /\ \A p \in told : life[p] # "gone"
      /\ faults' \in 0..MaxFaults
  BY FaultsStep DEF TypeInv, ProcInv
<1>1. CASE UNCHANGED procs
  BY <1>0, <1>1 DEF procs, ProcInv
<1>2. CASE Tells
  BY <1>0, <1>2 DEF Tells, ProcInv
<1>3. ASSUME NEW p \in Pids, Ends(p) \/ Serves(p) \/ Appears(p) PROVE ProcInv'
  BY <1>0, <1>3 DEF Ends, Serves, Appears, ProcInv
<1>4. CASE BrokerRestarts
  BY <1>0, <1>4 DEF BrokerRestarts, Services, Alive, ProcInv
<1> QED
  BY <1>1, <1>2, <1>3, <1>4, ProcMoves

\* The slots, the operation and the delays.
LEMMA SlotStep ==
  TypeInv /\ [Next]_vars => /\ slot' \in [Components -> Children]
                            /\ operation' \in {"Idle", "Deploy", "Restart", "Failed", "Shutdown"}
                            /\ due' \in [Components -> BOOLEAN]
<1> SUFFICES ASSUME TypeInv, [Next]_vars
             PROVE /\ slot' \in [Components -> Children]
                   /\ operation' \in {"Idle", "Deploy", "Restart", "Failed", "Shutdown"}
                   /\ due' \in [Components -> BOOLEAN]
  OBVIOUS
<1> DEFINE Goal == /\ slot' \in [Components -> Children]
                   /\ operation' \in {"Idle", "Deploy", "Restart", "Failed", "Shutdown"}
                   /\ due' \in [Components -> BOOLEAN]
<1> USE Kinds
<1> USE DEF TypeInv
<1>1. ASSUME UNCHANGED shared PROVE Goal
  BY <1>1 DEF shared, SharedInv
<1>2. CASE MonitorNext
  <2>1. ASSUME NEW c \in Components,
               MonitorPasses(c) \/ MonitorFindsExit(c) \/ MonitorDefers(c) \/ MonitorDecides(c)
        PROVE Goal
    BY <1>1, <2>1 DEF MonitorPasses, MonitorFindsExit, MonitorDefers, MonitorDecides, SharedInv
  <2>2. CASE MonitorStores
    BY <2>2 DEF MonitorStores, SharedInv, MonitorInv
  <2> QED
    BY <1>1, <1>2, <2>1, <2>2 DEF MonitorNext, MonitorSpawns, MonitorCannotSpawn, MonitorStarted,
       MonitorGivesUp, MonitorRests, MonitorWakes
<1>3. CASE WorkerNext
  <2>1. CASE Acquire
    BY <2>1 DEF Acquire, SharedInv, WorkerInv
  <2>2. CASE Restore
    BY <2>2 DEF Restore, SharedInv, WorkerInv
  <2> QED
    BY <1>1, <1>3, <2>1, <2>2 DEF WorkerNext, WakeAfterAcquire, WorkerStopped, WorkerAsks,
       WorkerRefused, SpawnUi, ObserveEnds, RestoreLock, Reload, WorkerSpawns,
       WorkerCannotSpawn, WorkerStarted, WorkerStartedDead, WorkerGivesUp,
       WakeAfterRestore, PublishResult, Notify
<1>4. CASE MainNext
  <2>1. CASE Install
    BY <2>1 DEF Install, SharedInv, MainInv
  <2>2. CASE TakeAll
    BY <2>2 DEF TakeAll, SharedInv
  <2> QED
    BY <1>1, <1>4, <2>1, <2>2 DEF MainNext, ClearStale, MainSpawns, MainStarted, MainStartFails,
       ShowResult, JoinMonitor, JoinWorker, MainStops, End
<1>5. CASE Environment
  BY <1>1, <1>5 DEF Environment, TakeLock, Leave, DeployerEnds, Crash, Tick, SharedInv
<1>6. CASE User
  BY <1>1, <1>6 DEF User, Begin, BeginFails, ShowMenu, Exit
<1>7. CASE BrokerRestarts
  BY <1>7 DEF BrokerRestarts, SharedInv
<1>8. CASE UNCHANGED vars
  BY <1>1, <1>8 DEF vars
<1> QED
  BY <1>2, <1>3, <1>4, <1>5, <1>6, <1>7, <1>8 DEF Next

\* A flag is kept, set or cleared.
LEMMA FlagStep ==
  TypeInv /\ [Next]_vars => {stopping, wake, busy, result, posted}' \subseteq BOOLEAN
<1> SUFFICES ASSUME TypeInv, [Next]_vars
             PROVE {stopping, wake, busy, result, posted}' \subseteq BOOLEAN
  OBVIOUS
<1> DEFINE Kept == /\ (UNCHANGED stopping) \/ stopping' = TRUE \/ stopping' = FALSE
                   /\ (UNCHANGED wake) \/ wake' = TRUE \/ wake' = FALSE
                   /\ (UNCHANGED busy) \/ busy' = TRUE \/ busy' = FALSE
                      \/ busy' = (busy /\ ~result)
                   /\ (UNCHANGED result) \/ result' = TRUE \/ result' = FALSE
                   /\ (UNCHANGED posted) \/ posted' = TRUE \/ posted' = FALSE
<1>1. CASE MonitorNext
  <2>1. Kept
    BY <1>1 DEF tray, MonitorNext, MonitorPasses, MonitorFindsExit, MonitorDefers, MonitorDecides,
       MonitorSpawns, MonitorCannotSpawn, MonitorStarted, MonitorGivesUp, MonitorStores,
       MonitorRests, MonitorWakes
  <2> QED
    BY <2>1 DEF TypeInv, SharedInv
<1>2. CASE WorkerNext
  <2>1. Kept
    BY <1>2 DEF tray, WorkerNext, Acquire, WakeAfterAcquire, WorkerStopped, WorkerAsks,
       WorkerRefused, SpawnUi, ObserveEnds, RestoreLock, Reload, WorkerSpawns,
       WorkerCannotSpawn, WorkerStarted, WorkerStartedDead, WorkerGivesUp, Restore,
       WakeAfterRestore, PublishResult, Notify
  <2> QED
    BY <2>1 DEF TypeInv, SharedInv
<1>3. CASE MainNext
  <2>1. Kept
    BY <1>3 DEF tray, TakeResult, MainNext, ClearStale, MainSpawns, MainStarted, MainStartFails, Install, ShowResult,
       JoinMonitor, JoinWorker, TakeAll, MainStops, End
  <2> QED
    BY <2>1 DEF TypeInv, SharedInv
<1>4. CASE Environment \/ User \/ BrokerRestarts \/ UNCHANGED vars
  <2>1. Kept
    BY <1>4 DEF vars, tray, TakeResult, BrokerRestarts, Environment, TakeLock, Leave, DeployerEnds, Crash, Tick,
       User, Begin, BeginFails, ShowMenu, Exit
  <2> QED
    BY <2>1 DEF TypeInv, SharedInv
<1> QED
  BY <1>1, <1>2, <1>3, <1>4 DEF Next

-----------------------------------------------------------------------------
\* Which threads run together.
LEMMA ThreadsStep == TypeInv /\ ThreadsInv /\ [Next]_vars => ThreadsInv'
<1> SUFFICES ASSUME TypeInv, ThreadsInv, [Next]_vars PROVE ThreadsInv'
  OBVIOUS
<1> USE Kinds
<1>0. main.at \in MainPlaces /\ worker.at \in WorkerPlaces /\ monitor.at \in MonitorPlaces
  BY DEF TypeInv, MainInv, WorkerInv, MonitorInv
<1>1. ASSUME UNCHANGED <<main, worker, monitor>> PROVE ThreadsInv'
  BY <1>1 DEF ThreadsInv
<1>2. CASE MonitorNext
  <2>1. UNCHANGED main /\ UNCHANGED worker /\ main.at \in {"loop", "joinMonitor"}
    BY <1>2, MainKept, WorkerKept, ActiveThreads
  <2> QED
    BY <2>1 DEF ThreadsInv, Startup
<1>3. CASE WorkerNext
  <2>1. UNCHANGED main /\ UNCHANGED monitor
        /\ main.at \in {"loop", "joinMonitor", "joinWorker"}
    BY <1>3, MainKept, MonitorKept, ActiveThreads
  <2> QED
    BY <2>1 DEF ThreadsInv, Startup
<1>4. CASE Environment \/ BeginFails \/ ShowMenu
  BY <1>1, <1>4, MainKept, MonitorKept, WorkerKept DEF User
<1>5. ASSUME NEW op \in {"Deploy", "Restart"}, Begin(op) PROVE ThreadsInv'
  <2>1. main.at = "loop" /\ UNCHANGED main
    BY <1>5 DEF Begin
  <2> QED
    BY <2>1 DEF ThreadsInv, Startup
<1>6. CASE Exit
  <2>1. main'.at = "joinMonitor"
    BY <1>6 DEF Exit, MainGoes, TypeInv, MainInv
  <2> QED
    BY <2>1 DEF ThreadsInv, Startup
<1>7. CASE Install
  <2>1. main'.at \in {"loop", "joinMonitor"}
    BY <1>7 DEF Install, MainGoes, TypeInv, MainInv
  <2> QED
    BY <2>1 DEF ThreadsInv, Startup
<1>8. CASE MainNext /\ ~Install
  <2>1. UNCHANGED monitor /\ UNCHANGED worker
    BY <1>8, MonitorKept, WorkerKept
  <2>2. \/ UNCHANGED main
        \/ main.at \in Startup /\ main'.at \in Startup \cup {"end"}
        \/ main.at = "joinMonitor" /\ main'.at = "joinWorker" /\ monitor.at = "end"
        \/ main.at = "joinWorker" /\ main'.at = "take" /\ worker.at = "none"
        \/ /\ main.at \in {"take", "stopServer", "stopRenderer"}
           /\ main'.at \in {"stopServer", "stopRenderer", "end"}
        \/ main.at = "end" /\ main'.at = "gone"
    BY <1>8 DEF ClearStale, MainSpawns, MainStarted, MainStartFails, ShowResult,
       JoinMonitor, JoinWorker, TakeAll, MainStops, End, MainGoes, MainNext, TypeInv, MainInv,
       Startup
  <2> QED
    BY <2>1, <2>2 DEF ThreadsInv, Startup
<1>9. CASE BrokerRestarts
  BY <1>9 DEF BrokerRestarts, FreshMain, FreshMonitor, FreshWorker, ThreadsInv, Startup
<1>10. CASE UNCHANGED vars
  BY <1>1, <1>10 DEF vars
<1> QED
  BY <1>2, <1>3, <1>4, <1>5, <1>6, <1>7, <1>8, <1>9, <1>10 DEF Next, User, MainNext

\* BUSY is there for an operation or for a result.
LEMMA BusyStep == TypeInv /\ ThreadsInv /\ BusyInv /\ [Next]_vars => BusyInv'
<1> SUFFICES ASSUME TypeInv, ThreadsInv, BusyInv, [Next]_vars PROVE BusyInv'
  OBVIOUS
<1>1. ASSUME UNCHANGED <<busy, result, worker>> PROVE BusyInv'
  BY <1>1 DEF BusyInv
<1>2. CASE MonitorNext
  <2>1. UNCHANGED tray
    BY <1>2 DEF MonitorNext, MonitorPasses, MonitorFindsExit, MonitorDefers, MonitorDecides,
       MonitorSpawns, MonitorCannotSpawn, MonitorStarted, MonitorGivesUp, MonitorStores,
       MonitorRests, MonitorWakes
  <2> QED
    BY <1>1, <1>2, <2>1, WorkerKept DEF tray
<1>3. CASE WorkerNext
  <2>1. ASSUME UNCHANGED tray, worker'.at \notin {"none", "notify"} PROVE BusyInv'
    BY <2>1 DEF BusyInv
  <2>2. CASE PublishResult
    BY <2>2 DEF PublishResult, BusyInv
  <2>3. CASE Notify
    <3>1. UNCHANGED <<busy, result>> /\ worker.at = "notify"
      BY <2>3 DEF Notify
    <3> QED
      BY <3>1 DEF BusyInv
  <2>4. CASE WorkerAsks
    BY <1>1, <2>4 DEF WorkerAsks, tray
  <2>5. CASE WorkerStopped \/ WorkerRefused
    <3>1. worker.at \in DOMAIN Stopping /\ UNCHANGED tray
          /\ worker'.at \in {AfterStop[worker.at], AfterRefusal[worker.at]}
      BY <2>5 DEF WorkerStopped, WorkerRefused, Lets, Fails, TypeInv, WorkerInv
    <3> QED
      BY <2>1, <3>1, StopPlaces
  <2>6. CASE \/ Acquire \/ WakeAfterAcquire \/ SpawnUi \/ ObserveEnds \/ RestoreLock \/ Reload
             \/ WorkerSpawns \/ WorkerCannotSpawn \/ WorkerStarted \/ WorkerStartedDead
             \/ WorkerGivesUp \/ Restore \/ WakeAfterRestore
    BY <2>1, <2>6 DEF Acquire, WakeAfterAcquire, SpawnUi, ObserveEnds, RestoreLock, Reload,
       WorkerSpawns, WorkerCannotSpawn, WorkerStarted, WorkerStartedDead, WorkerGivesUp, Restore,
       WakeAfterRestore, Goes, Fails, StartFailed, FreshWorker, TypeInv, WorkerInv
  <2> QED
    BY <1>3, <2>2, <2>3, <2>4, <2>5, <2>6 DEF WorkerNext
<1>4. CASE Environment \/ Exit \/ (MainNext /\ ~ShowResult)
  <2>1. UNCHANGED tray
    BY <1>4 DEF Environment, TakeLock, Leave, DeployerEnds, Crash, Tick, Exit, MainNext,
       ClearStale, MainSpawns, MainStarted, MainStartFails, Install,
       JoinMonitor, JoinWorker, TakeAll, MainStops, End
  <2> QED
    BY <1>1, <1>4, <2>1, WorkerKept DEF tray
<1>5. CASE ShowResult \/ ShowMenu
  <2>1. UNCHANGED worker /\ busy' = (busy /\ ~result) /\ result' = FALSE
    BY <1>5 DEF ShowResult, ShowMenu, TakeResult
  <2> QED
    BY <2>1 DEF BusyInv
<1>6. CASE BeginFails
  BY <1>6 DEF BeginFails, BusyInv
<1>7. ASSUME NEW op \in {"Deploy", "Restart"}, Begin(op) PROVE BusyInv'
  <2>1. worker'.at = "acquire"
    BY <1>7 DEF Begin, TypeInv, WorkerInv
  <2> QED
    BY <2>1 DEF BusyInv
<1>8. CASE BrokerRestarts
  BY <1>8 DEF BrokerRestarts, BusyInv
<1>9. CASE UNCHANGED vars
  BY <1>1, <1>9 DEF vars, tray
<1> QED
  BY <1>2, <1>3, <1>4, <1>5, <1>6, <1>7, <1>8, <1>9 DEF Next, User, MainNext

-----------------------------------------------------------------------------
\* What was there before the broker.
LEMMA StaleStep == TypeInv /\ ThreadsInv /\ StaleInv /\ [Next]_vars => StaleInv'
<1> SUFFICES ASSUME TypeInv, ThreadsInv, StaleInv, [Next]_vars, main'.at = "clear",
                    NEW p \in Services, life'[p] # "gone"
             PROVE \/ p \in told'
                   \/ life'[p] = "up" /\ (main'.component = "renderer" => p \notin ServerPids)
  BY DEF StaleInv
<1> USE Kinds
<1>1. CASE BrokerRestarts
  BY <1>1 DEF BrokerRestarts, Services, Alive
<1>2. ASSUME main.at = "clear", UNCHANGED main, UNCHANGED life, UNCHANGED told
      PROVE \/ p \in told'
            \/ life'[p] = "up" /\ (main'.component = "renderer" => p \notin ServerPids)
  BY <1>2 DEF StaleInv
<1>3. CASE Environment
  <2>1. main.at = "clear" /\ UNCHANGED main
    BY <1>3, MainKept
  <2>2. CASE UNCHANGED procs
    BY <1>2, <2>1, <2>2 DEF procs
  <2>3. ASSUME NEW q \in Pids, Ends(q)
        PROVE life[p] # "gone" /\ life'[p] = life[p] /\ (p \in told => p \in told')
    BY <2>3 DEF Ends, TypeInv, ProcInv
  <2>4. ASSUME NEW q \in Pids, Serves(q)
        PROVE /\ life[p] # "gone" /\ (p \in told => p \in told')
              /\ life'[p] = life[p] \/ life[p] = "starting"
    BY <2>4 DEF Serves, TypeInv, ProcInv
  <2> QED
    BY <1>3, <2>1, <2>2, <2>3, <2>4, OtherProcs DEF StaleInv, TypeInv
<1>4. CASE MainNext
  <2>1. ClearStale
    BY <1>4 DEF MainNext, MainSpawns, MainStarted, MainStartFails, Install, ShowResult,
       JoinMonitor, JoinWorker, TakeAll, MainStops, End, MainGoes, TypeInv, MainInv
  <2>2. main.at = "clear" /\ UNCHANGED life
    BY <2>1 DEF ClearStale
  <2>3. CASE UNCHANGED main
    <3>1. told \subseteq told'
      BY <2>1, <2>3 DEF ClearStale, TypeInv, MainInv, MainGoes
    <3> QED
      BY <2>2, <2>3, <3>1 DEF StaleInv
  <2>4. CASE main' = [main EXCEPT !.component = "renderer"] /\ main.component = "server"
             /\ LockFree("server") /\ UNCHANGED told
    <3>1. p \in ServerPids => life[p] # "up"
      BY <2>4 DEF LockFree, LockHolders, PidsOf
    <3> QED
      BY <2>2, <2>4, <3>1 DEF StaleInv
  <2>5. \/ UNCHANGED main
        \/ main' = [main EXCEPT !.component = "renderer"] /\ main.component = "server"
           /\ LockFree("server") /\ UNCHANGED told
    BY <2>1 DEF ClearStale, MainGoes, TypeInv, MainInv
  <2> QED
    BY <2>3, <2>4, <2>5
<1>5. CASE MonitorNext \/ WorkerNext
  BY <1>5, MainKept, ActiveThreads
<1>6. CASE User
  BY <1>6 DEF User, Begin, BeginFails, ShowMenu, Exit, MainGoes, TypeInv, MainInv
<1>7. CASE UNCHANGED vars
  BY <1>2, <1>7 DEF vars, procs
<1> QED
  BY <1>1, <1>3, <1>4, <1>5, <1>6, <1>7 DEF Next

\* The monitor's sleep.
LEMMA RousedStep ==
  TypeInv /\ ThreadsInv /\ MonitorIsRoused /\ [Next]_vars => MonitorIsRoused'
<1> SUFFICES ASSUME TypeInv, ThreadsInv, MonitorIsRoused, [Next]_vars,
                    monitor'.at = "wait", ~wake', worker'.at \notin {"acquired", "restored"}
             PROVE (/\ ~stopping
                    /\ \A c \in Components : IsMonitored(c) =>
                         IF slot[c] = NoChild THEN c \in monitor.timers
                         ELSE slot[c] \in monitor.watch)'
  BY DEF MonitorIsRoused
<1> DEFINE Roused == /\ ~stopping
                     /\ \A c \in Components : IsMonitored(c) =>
                          IF slot[c] = NoChild THEN c \in monitor.timers
                          ELSE slot[c] \in monitor.watch
<1>1. ASSUME UNCHANGED <<monitor, wake, stopping, slot, operation>>,
             worker.at \notin {"acquired", "restored"}
      PROVE Roused'
  BY <1>1 DEF MonitorIsRoused, IsMonitored, MonitorsServer, MonitorsRenderer
<1>2. CASE MonitorNext
  <2>1. CASE MonitorRests
    <3>1. /\ ~stopping /\ UNCHANGED <<stopping, slot, operation>>
          /\ monitor'.timers = {c \in Components : IsMonitored(c) /\ slot[c] = NoChild}
          /\ monitor'.watch = {slot[c] : c \in {d \in Components : IsMonitored(d)}} \ {NoChild}
      BY <2>1 DEF MonitorRests, TypeInv, MonitorInv, shared
    <3> QED
      BY <3>1 DEF IsMonitored, MonitorsServer, MonitorsRenderer
  <2>2. CASE ~MonitorRests
    <3>1. \A c \in Components : Other[c] # "wait"
      BY DEF Components, Other
    <3>2. ASSUME NEW c \in Components, \/ MonitorPasses(c) \/ MonitorFindsExit(c)
                                       \/ MonitorDefers(c) \/ MonitorDecides(c)
          PROVE monitor'.at # "wait"
      <4>1. \/ monitor' = [monitor EXCEPT !.at = Other[c]]
            \/ monitor' = [monitor EXCEPT !.at = "spawn", !.component = c]
        BY <3>2 DEF MonitorPasses, MonitorFindsExit, MonitorDefers, MonitorDecides
      <4>2. monitor'.at = Other[c] \/ monitor'.at = "spawn"
        BY <4>1 DEF TypeInv, MonitorInv
      <4> QED
        BY <3>1, <4>2
    <3>3. CASE MonitorSpawns \/ MonitorCannotSpawn \/ MonitorStarted \/ MonitorGivesUp
      BY <3>3 DEF MonitorSpawns, MonitorCannotSpawn, MonitorStarted, MonitorGivesUp, TypeInv,
         MonitorInv
    <3>4. CASE MonitorStores \/ MonitorWakes
      <4>1. monitor'.at \in {Other[monitor.component], "end", "server"}
        BY <3>4 DEF MonitorStores, MonitorWakes, TypeInv, MonitorInv
      <4>2. monitor.component \in Components
        BY DEF TypeInv, MonitorInv
      <4> QED
        BY <3>1, <4>1, <4>2
    <3> QED
      BY <1>2, <2>2, <3>2, <3>3, <3>4 DEF MonitorNext
  <2> QED
    BY <2>1, <2>2
<1>3. CASE WorkerNext
  <2>1. CASE Acquire \/ WakeAfterAcquire \/ Restore \/ WakeAfterRestore
    BY <2>1 DEF Acquire, WakeAfterAcquire, Restore, WakeAfterRestore, FreshWorker, TypeInv,
                WorkerInv
  <2>2. CASE ~(Acquire \/ WakeAfterAcquire \/ Restore \/ WakeAfterRestore)
    <3>1. UNCHANGED <<monitor, wake, stopping, slot, operation>>
          /\ worker.at \notin {"acquired", "restored"}
      BY <1>3, <2>2, StopPlaces DEF shared, WorkerNext, WorkerStopped, WorkerAsks,
         WorkerRefused, SpawnUi, ObserveEnds, RestoreLock, Reload, WorkerSpawns,
         WorkerCannotSpawn, WorkerStarted, WorkerStartedDead, WorkerGivesUp,
         PublishResult, Notify
    <3> QED
      BY <1>1, <3>1
  <2> QED
    BY <2>1, <2>2
<1>4. CASE MainNext
  <2>1. CASE Install \/ TakeAll
    BY <2>1 DEF Install, TakeAll, ThreadsInv, TypeInv, MonitorInv
  <2>2. CASE ~(Install \/ TakeAll)
    <3>1. UNCHANGED <<monitor, wake, stopping, slot, operation, worker>>
      BY <1>4, <2>2 DEF shared, MainNext, ClearStale, MainSpawns, MainStarted, MainStartFails,
         ShowResult, JoinMonitor, JoinWorker, MainStops, End
    <3> QED
      BY <1>1, <3>1
  <2> QED
    BY <2>1, <2>2
<1>5. CASE Environment
  <2>1. UNCHANGED <<monitor, wake, stopping, slot, operation, worker>>
    BY <1>5 DEF shared, Environment, TakeLock, Leave, DeployerEnds, Crash, Tick
  <2> QED
    BY <1>1, <2>1
<1>6. CASE User /\ ~Exit
  <2>1. /\ UNCHANGED <<monitor, wake, stopping, slot, operation>>
        /\ worker.at \notin {"acquired", "restored"}
    BY <1>6 DEF shared, User, Begin, BeginFails, ShowMenu
  <2> QED
    BY <1>1, <2>1
<1>7. CASE Exit
  BY <1>7 DEF Exit
<1>8. CASE BrokerRestarts
  BY <1>8 DEF BrokerRestarts, FreshMonitor
<1>9. CASE UNCHANGED vars
  BY <1>1, <1>9 DEF vars, shared
<1> QED
  BY <1>2, <1>3, <1>4, <1>5, <1>6, <1>7, <1>8, <1>9 DEF Next

-----------------------------------------------------------------------------
\* Who owns a process.
Slotted(p) == p = slot["server"] \/ p = slot["renderer"]
WorkerHas(p) == p = worker.held["server"] \/ p = worker.held["renderer"] \/ p = worker.child
MainHas(p) == p = main.held["server"] \/ p = main.held["renderer"] \/ p = main.child
Has(p) == Slotted(p) \/ WorkerHas(p) \/ MainHas(p) \/ p = monitor.child

LEMMA OwnedIs ==
  ASSUME NEW p
  PROVE (p \in Owned <=> Has(p)) /\ (p \in Owned' <=> Has(p)')
BY DEF Owned, Has, Slotted, WorkerHas, MainHas, Components

\* A service that runs before and after a step, and nobody told, keeps an owner;
\* only the end of the main thread lets go of what it holds.
LEMMA MonitorHands ==
  ASSUME TypeInv, MonitorNext, NEW p \in Services, life[p] # "gone", Has(p)
  PROVE Has(p)' \/ p \in told'
<1> USE Kinds
<1> USE DEF TypeInv
<1>0. (WorkerHas(p) \/ MainHas(p)) => Has(p)'
  BY MainKept, WorkerKept DEF Has, WorkerHas, MainHas
<1>1. ASSUME UNCHANGED slot, monitor'.child = monitor.child PROVE Has(p)'
  BY <1>0, <1>1 DEF Has, Slotted
<1>2. ASSUME NEW c \in Components, \/ MonitorPasses(c) \/ MonitorDefers(c) \/ MonitorDecides(c)
      PROVE Has(p)'
  <2>1. UNCHANGED slot
    BY <1>2 DEF MonitorPasses, MonitorDefers, MonitorDecides, shared
  <2>2. \/ monitor' = [monitor EXCEPT !.at = Other[c]]
        \/ monitor' = [monitor EXCEPT !.at = "spawn", !.component = c]
    BY <1>2 DEF MonitorPasses, MonitorDefers, MonitorDecides
  <2> QED
    BY <1>1, <2>1, <2>2 DEF MonitorInv
<1>3. ASSUME NEW c \in Components, MonitorFindsExit(c) PROVE Has(p)'
  <2>1. /\ slot' = [slot EXCEPT ![c] = NoChild] /\ slot[c] # p
        /\ monitor' = [monitor EXCEPT !.at = Other[c]]
    BY <1>3 DEF MonitorFindsExit, Dead
  <2> QED
    BY <1>0, <2>1 DEF Has, Slotted, MonitorInv, SharedInv
<1>4. CASE MonitorSpawns
  <2>1. UNCHANGED slot /\ monitor.child = NoChild
    BY <1>4 DEF MonitorSpawns, shared, MonitorInv
  <2> QED
    BY <1>0, <2>1 DEF Has, Slotted
<1>5. CASE MonitorCannotSpawn \/ MonitorStarted \/ MonitorRests \/ MonitorWakes
  BY <1>1, <1>5 DEF MonitorCannotSpawn, MonitorStarted, MonitorRests, MonitorWakes, MonitorInv,
                    shared
<1>6. CASE MonitorGivesUp
  <2>1. UNCHANGED slot /\ (p = monitor.child => p \in told')
    BY <1>6 DEF MonitorGivesUp, GivesUp, shared
  <2> QED
    BY <1>0, <2>1 DEF Has, Slotted
<1>7. CASE MonitorStores
  <2>1. \/ /\ UNCHANGED slot /\ monitor.child # p
        \/ /\ slot' = [slot EXCEPT ![monitor.component] = monitor.child]
           /\ Drop({slot[monitor.component]})
        \/ /\ UNCHANGED slot /\ Drop({monitor.child})
    BY <1>7 DEF MonitorStores
  <2>2. \A q : q = p /\ Drop({q}) => p \in told'
    BY DEF Drop, Alive
  <2>3. monitor.component \in Components
    BY DEF MonitorInv
  <2>4. CASE UNCHANGED slot /\ monitor.child # p
    BY <1>0, <2>4 DEF Has, Slotted
  <2>5. CASE /\ slot' = [slot EXCEPT ![monitor.component] = monitor.child]
             /\ Drop({slot[monitor.component]})
    BY <1>0, <2>2, <2>3, <2>5 DEF Has, Slotted, SharedInv
  <2>6. CASE UNCHANGED slot /\ Drop({monitor.child})
    BY <1>0, <2>2, <2>6 DEF Has, Slotted
  <2> QED
    BY <2>1, <2>4, <2>5, <2>6
<1> QED
  BY <1>2, <1>3, <1>4, <1>5, <1>6, <1>7 DEF MonitorNext

LEMMA WorkerHands ==
  ASSUME TypeInv, WorkerNext, NEW p \in Services, life[p] # "gone", Has(p)
  PROVE Has(p)' \/ p \in told'
<1> USE Kinds
<1> USE DEF TypeInv
<1>0. (MainHas(p) \/ p = monitor.child) => Has(p)'
  BY MainKept, MonitorKept DEF Has, MainHas
<1>1. ASSUME UNCHANGED slot, WorkerHas(p) => WorkerHas(p)' \/ p \in told'
      PROVE Has(p)' \/ p \in told'
  BY <1>0, <1>1 DEF Has, Slotted
<1>2. CASE Acquire
  <2>1. /\ worker.held["server"] = NoChild /\ worker.held["renderer"] = NoChild
        /\ worker.child = NoChild
    BY <1>2 DEF Acquire, WorkerInv
  <2>2. \A c \in Components : slot[c] = worker'.held[c] \/ slot[c] = slot'[c]
    BY <1>2 DEF Acquire, WorkerInv
  <2> QED
    BY <1>0, <2>1, <2>2 DEF Has, Slotted, WorkerHas
<1>3. CASE WorkerStopped
  <2>1. /\ worker.held[Stopping[worker.at]] # p /\ UNCHANGED slot
        /\ worker' = [worker EXCEPT !.at = AfterStop[worker.at],
                         !.held = [worker.held EXCEPT ![Stopping[worker.at]] = NoChild]]
    BY <1>3 DEF WorkerStopped, IsStopped, Dead, shared, Lets
  <2>2. worker'.child = worker.child
        /\ worker'.held = [worker.held EXCEPT ![Stopping[worker.at]] = NoChild]
    BY <2>1 DEF WorkerInv
  <2>3. WorkerHas(p) => WorkerHas(p)'
    BY <2>1, <2>2 DEF WorkerHas, WorkerInv
  <2> QED
    BY <1>1, <2>1, <2>3
<1>4. CASE WorkerAsks \/ WakeAfterAcquire \/ WorkerRefused \/ RestoreLock \/ Reload
           \/ WorkerCannotSpawn \/ WakeAfterRestore \/ PublishResult
  <2>1. worker'.held = worker.held /\ worker'.child = worker.child /\ UNCHANGED slot
    BY <1>4 DEF WorkerAsks, WakeAfterAcquire, WorkerRefused, RestoreLock, Reload,
       WorkerCannotSpawn, WakeAfterRestore, PublishResult, Goes, Fails, StartFailed, WorkerInv,
       shared
  <2> QED
    BY <1>1, <2>1 DEF WorkerHas
<1>5. CASE SpawnUi \/ WorkerSpawns
  <2>1. worker.child = NoChild /\ worker'.held = worker.held /\ UNCHANGED slot
    BY <1>5 DEF SpawnUi, WorkerSpawns, Goes, Fails, WorkerInv, shared
  <2> QED
    BY <1>1, <2>1 DEF WorkerHas
<1>6. CASE ObserveEnds
  <2>1. worker.child \in DeployerPids /\ worker'.held = worker.held /\ UNCHANGED slot
    BY <1>6 DEF ObserveEnds, Goes, WorkerInv, shared
  <2> QED
    BY <1>1, <2>1 DEF WorkerHas
<1>7. CASE WorkerStarted
  <2>1. /\ worker.held[worker.component] = NoChild /\ UNCHANGED slot
        /\ worker'.held = [worker.held EXCEPT ![worker.component] = worker.child]
        /\ worker.component \in Components
    BY <1>7 DEF WorkerStarted, WorkerInv, shared
  <2>2. WorkerHas(p) => WorkerHas(p)'
    BY <2>1 DEF WorkerHas, WorkerInv
  <2> QED
    BY <1>1, <2>1, <2>2
<1>8. CASE WorkerStartedDead
  <2>1. /\ worker.held["server"] = NoChild /\ UNCHANGED slot
        /\ worker'.held = [worker.held EXCEPT !["server"] = worker.child]
    BY <1>8 DEF WorkerStartedDead, StartFailed, Fails, WorkerInv, shared
  <2>2. WorkerHas(p) => WorkerHas(p)'
    BY <2>1 DEF WorkerHas, WorkerInv
  <2> QED
    BY <1>1, <2>1, <2>2
<1>9. CASE WorkerGivesUp
  <2>1. worker'.held = worker.held /\ UNCHANGED slot /\ (p = worker.child => p \in told')
    BY <1>9 DEF WorkerGivesUp, GivesUp, StartFailed, Fails, WorkerInv, shared
  <2> QED
    BY <1>1, <2>1 DEF WorkerHas
<1>10. CASE Restore
  <2>1. worker.child = NoChild /\ (worker.operation # "Restart" => worker.held["renderer"] = NoChild)
    BY <1>10 DEF Restore, WorkerInv
  <2>2. PICK given \in SUBSET Components :
          /\ given = IF worker.operation = "Restart" THEN Components ELSE {"server"}
          /\ slot' = [c \in Components |-> IF c \in given THEN worker.held[c] ELSE slot[c]]
          /\ Drop({slot[c] : c \in given})
    BY <1>10 DEF Restore
  <2>3. \A c \in given : slot[c] = p => p \in told'
    BY <2>2 DEF Drop, Alive
  <2>4. WorkerHas(p) => Slotted(p)'
    BY <2>1, <2>2 DEF WorkerHas, Slotted
  <2>5. Slotted(p) => Slotted(p)' \/ p \in told'
    BY <2>2, <2>3 DEF Slotted
  <2> QED
    BY <1>0, <2>4, <2>5 DEF Has
<1>11. CASE Notify
  <2>1. /\ worker.held["server"] = NoChild /\ worker.held["renderer"] = NoChild
        /\ worker.child = NoChild /\ UNCHANGED slot
    BY <1>11 DEF Notify, WorkerInv, shared
  <2> QED
    BY <1>1, <2>1 DEF WorkerHas
<1> QED
  BY <1>2, <1>3, <1>4, <1>5, <1>6, <1>7, <1>8, <1>9, <1>10, <1>11 DEF WorkerNext

LEMMA MainHands ==
  ASSUME TypeInv, MainNext, NEW p \in Services, life[p] # "gone", Has(p),
         main'.at \notin {"end", "gone"}
  PROVE Has(p)' \/ p \in told'
<1> USE Kinds
<1> USE DEF TypeInv
<1>1. WorkerHas(p) => Has(p)'
  BY WorkerKept DEF Has, WorkerHas
<1>2. CASE MainNext /\ ~Install
  <2>1. p = monitor.child => Has(p)'
    BY <1>2, MonitorKept DEF Has
  <2>2. ASSUME UNCHANGED slot, MainHas(p) => MainHas(p)' \/ p \in told'
        PROVE Has(p)' \/ p \in told'
    BY <1>1, <2>1, <2>2 DEF Has, Slotted
  <2>3. CASE ClearStale \/ ShowResult \/ JoinMonitor \/ JoinWorker
    <3>1. main'.held = main.held /\ main'.child = main.child /\ UNCHANGED slot
      BY <2>3 DEF ClearStale, ShowResult, JoinMonitor, JoinWorker, MainGoes, MainInv, shared
    <3> QED
      BY <2>2, <3>1 DEF MainHas
  <2>4. CASE MainSpawns
    <3>1. main'.held = main.held /\ main.child = NoChild /\ UNCHANGED slot
      BY <2>4 DEF MainSpawns, MainInv, shared
    <3> QED
      BY <2>2, <3>1 DEF MainHas
  <2>5. CASE MainStarted
    <3>1. /\ main.held[main.component] = NoChild /\ UNCHANGED slot
          /\ main'.held = [main.held EXCEPT ![main.component] = main.child]
          /\ main.component \in Components
      BY <2>5 DEF MainStarted, MainInv, shared
    <3>2. MainHas(p) => MainHas(p)'
      BY <3>1 DEF MainHas, MainInv
    <3> QED
      BY <2>2, <3>1, <3>2
  <2>6. CASE MainStartFails
    <3>1. main'.held = main.held /\ UNCHANGED slot /\ (p = main.child => p \in told')
      BY <2>6 DEF MainStartFails, GivesUp, MainInv, shared
    <3> QED
      BY <2>2, <3>1 DEF MainHas
  <2>7. CASE TakeAll
    <3>1. /\ main.held["server"] = NoChild /\ main.held["renderer"] = NoChild
          /\ main'.held = slot /\ main'.child = main.child
      BY <2>7 DEF TakeAll, MainInv
    <3> QED
      BY <1>1, <2>1, <3>1 DEF Has, MainHas, Slotted
  <2>8. ASSUME NEW c, NEW from, NEW to, MainStops(c, from, to) PROVE Has(p)' \/ p \in told'
    <3>1. main'.held = main.held /\ main'.child = main.child /\ UNCHANGED slot
      BY <2>8 DEF MainStops, MainGoes, MainInv, shared
    <3> QED
      BY <2>2, <3>1 DEF MainHas
  <2>9. CASE End
    BY <2>9 DEF End, MainInv
  <2> QED
    BY <1>2, <2>3, <2>4, <2>5, <2>6, <2>7, <2>8, <2>9 DEF MainNext
<1>3. CASE Install
  <2>1. /\ slot["server"] = NoChild /\ slot["renderer"] = NoChild /\ slot' = main.held
        /\ main.child = NoChild /\ monitor'.child = monitor.child
    BY <1>3 DEF Install, MainInv, MonitorInv, Startup
  <2> QED
    BY <1>1, <2>1 DEF Has, MainHas, Slotted
<1> QED
  BY <1>2, <1>3

\* A service that appears is a child of the thread that spawned it.
LEMMA SpawnedIsHeld ==
  ASSUME TypeInv, NEW p \in Services, life[p] = "gone", life'[p] # "gone",
         MonitorSpawns \/ WorkerSpawns \/ MainSpawns
  PROVE Has(p)'
<1> USE Kinds
<1> USE DEF TypeInv
<1>0. \A q, c : Spawn(q, c) => q = p
  BY DEF Spawn, ProcInv
<1>1. CASE MonitorSpawns
  <2>1. PICK q : Spawn(q, monitor.component)
                 /\ monitor' = [monitor EXCEPT !.at = "start", !.child = q]
    BY <1>1 DEF MonitorSpawns
  <2> QED
    BY <1>0, <2>1 DEF Has, MonitorInv
<1>2. CASE WorkerSpawns
  <2>1. PICK q : Spawn(q, worker.component)
                 /\ worker' = [worker EXCEPT !.at = "start", !.child = q]
    BY <1>2 DEF WorkerSpawns
  <2> QED
    BY <1>0, <2>1 DEF Has, WorkerHas, WorkerInv
<1>3. CASE MainSpawns
  <2>1. PICK q : Spawn(q, main.component)
                 /\ main' = [main EXCEPT !.at = "start", !.child = q]
    BY <1>3 DEF MainSpawns
  <2> QED
    BY <1>0, <2>1 DEF Has, MainHas, MainInv
<1> QED
  BY <1>1, <1>2, <1>3

\* Nothing that runs is forgotten.
LEMMA ForgottenStep ==
  TypeInv /\ ThreadsInv /\ StaleInv /\ NothingForgotten /\ [Next]_vars => NothingForgotten'
<1> SUFFICES ASSUME TypeInv, ThreadsInv, StaleInv, NothingForgotten, [Next]_vars,
                    main'.at \notin {"clear", "end", "gone"},
                    NEW p \in Services, life'[p] # "gone"
             PROVE p \in told' \/ Has(p)'
  BY OwnedIs DEF NothingForgotten, Services, Alive
<1> USE Kinds
<1>1. ~BrokerRestarts
  BY DEF BrokerRestarts, FreshMain
<1>2. CASE life[p] = "gone"
  <2>1. ~(UNCHANGED procs \/ Tells)
    BY <1>2 DEF procs, Tells
  <2>2. ASSUME NEW q \in Pids, Ends(q) \/ Serves(q) PROVE FALSE
    BY <1>2, <2>2 DEF Ends, Serves, TypeInv, ProcInv
  <2>3. ASSUME NEW q \in DeployerPids, Appears(q) PROVE FALSE
    BY <1>2, <2>3 DEF Appears, TypeInv, ProcInv
  <2>4. MonitorSpawns \/ WorkerSpawns \/ MainSpawns
    BY <1>1, <2>1, <2>2, <2>3, ProcMoves
  <2> QED
    BY <1>2, <2>4, SpawnedIsHeld
<1>3. ASSUME life[p] # "gone", p \in told PROVE p \in told'
  <2>1. CASE UNCHANGED procs \/ Tells
    BY <1>3, <2>1 DEF procs, Tells
  <2>2. ASSUME NEW q \in Pids, Ends(q) \/ Serves(q) \/ Appears(q) PROVE p \in told'
    BY <1>3, <2>2 DEF Ends, Serves, Appears, TypeInv, ProcInv
  <2> QED
    BY <1>1, <2>1, <2>2, ProcMoves
<1>4. ASSUME life[p] # "gone", p \notin told PROVE Has(p)
  <2>1. CASE main.at = "clear"
    <3>1. ClearStale
      BY <1>1, <2>1, MainKept, ActiveThreads DEF Next, User, Begin, Exit, MainNext, MainSpawns,
         MainStarted, MainStartFails, Install, ShowResult, JoinMonitor, JoinWorker, TakeAll,
         MainStops, End, vars
    <3>2. main.component = "renderer" /\ LockFree("renderer")
      BY <2>1, <3>1 DEF ClearStale, MainGoes, TypeInv, MainInv
    <3>3. p \in RendererPids /\ life[p] = "up"
      BY <1>4, <2>1, <3>2 DEF StaleInv, Services
    <3> QED
      BY <3>2, <3>3 DEF LockFree, LockHolders, PidsOf
  <2>2. CASE main.at \in {"end", "gone"}
    <3>1. End
      BY <1>1, <2>2, MainKept, ActiveThreads DEF Next, User, Begin, Exit, MainNext, ClearStale,
         MainSpawns, MainStarted, MainStartFails, Install, ShowResult, JoinMonitor, JoinWorker,
         TakeAll, MainStops, vars
    <3> QED
      BY <3>1 DEF End, TypeInv, MainInv
  <2>3. CASE main.at \notin {"clear", "end", "gone"}
    BY <1>4, <2>3, OwnedIs DEF NothingForgotten, Services, Alive
  <2> QED
    BY <2>1, <2>2, <2>3
<1>5. ASSUME life[p] # "gone", Has(p) PROVE p \in told' \/ Has(p)'
  <2>1. CASE MonitorNext
    BY <1>5, <2>1, MonitorHands
  <2>2. CASE WorkerNext
    BY <1>5, <2>2, WorkerHands
  <2>3. CASE MainNext
    BY <1>5, <2>3, MainHands
  <2>4. CASE Environment \/ User \/ UNCHANGED vars
    <3>1. /\ UNCHANGED slot /\ worker'.held = worker.held /\ worker'.child = worker.child
          /\ UNCHANGED monitor /\ main'.held = main.held /\ main'.child = main.child
      BY <2>4 DEF Environment, TakeLock, Leave, DeployerEnds, Crash, Tick, User, Begin, BeginFails,
         ShowMenu, Exit, MainGoes, vars, shared, TypeInv, WorkerInv, MainInv
    <3> QED
      BY <1>5, <3>1 DEF Has, Slotted, WorkerHas, MainHas
  <2> QED
    BY <1>1, <2>1, <2>2, <2>3, <2>4 DEF Next
<1> QED
  BY <1>2, <1>3, <1>4, <1>5

-----------------------------------------------------------------------------
LEMMA InitIInv == Init => IInv
<1> SUFFICES ASSUME Init PROVE IInv
  OBVIOUS
<1> USE Kinds
<1>1. PICK stale \in SUBSET Services :
        life = [p \in Pids |-> IF p \in stale THEN "up" ELSE "gone"]
  BY DEF Init, Services
<1>2. ProcInv
  BY <1>1, FaultsAreBounded DEF Init, ProcInv
<1>3. SharedInv
  BY DEF Init, SharedInv
<1>4. MonitorInv
  BY DEF Init, FreshMonitor, MonitorInv, MonitorPlaces
<1>5. WorkerInv
  BY DEF Init, FreshWorker, WorkerInv, WorkerPlaces
<1>6. MainInv
  BY DEF Init, FreshMain, MainInv, MainPlaces, Startup
<1>7. ThreadsInv
  BY DEF Init, FreshMain, FreshMonitor, FreshWorker, ThreadsInv, Startup
<1>8. StaleInv
  BY <1>1 DEF Init, FreshMain, StaleInv
<1>9. NothingForgotten /\ MonitorIsRoused /\ BusyInv
  BY DEF Init, FreshMain, FreshMonitor, NothingForgotten, MonitorIsRoused, BusyInv
<1> QED
  BY <1>2, <1>3, <1>4, <1>5, <1>6, <1>7, <1>8, <1>9 DEF IInv, TypeInv

LEMMA StepIInv == IInv /\ [Next]_vars => IInv'
<1> SUFFICES ASSUME IInv, [Next]_vars PROVE IInv'
  OBVIOUS
<1>1. TypeInv'
  BY ProcStep, SlotStep, FlagStep, MonitorStep, WorkerStep, MainStep DEF IInv, TypeInv, SharedInv
<1> QED
  BY <1>1, ThreadsStep, StaleStep, ForgottenStep, RousedStep, BusyStep DEF IInv

LEMMA InductiveInvariant == Spec => []IInv
BY InitIInv, StepIInv, PTL DEF Spec

\* In every behaviour of the broker each running service is in a slot, borrowed,
\* being started or told to stop; a monitor that sleeps is woken by the death of every
\* component it must restart; and the tray is refused only for an operation
\* (service_supervisor.rs, operations.rs).
THEOREM SupervisorInvariant == Spec => []Inv
<1>1. IInv => TypeOK
  <2> SUFFICES ASSUME IInv PROVE TypeOK
    OBVIOUS
  <2>1. worker.child \in (IF worker.at = "observe" THEN DeployerPids ELSE Children)
    BY Kinds DEF IInv, TypeInv, WorkerInv
  <2> QED
    BY <2>1, Kinds DEF IInv, TypeInv, ProcInv, SharedInv, MonitorInv, WorkerInv, MainInv, TypeOK
<1>2. IInv => Inv
  BY <1>1 DEF IInv, BusyInv, BusyIsAnswered, Inv
<1> QED
  BY <1>2, InductiveInvariant, PTL

\* An orderly exit leaves no service in a slot, with the worker or being started,
\* whatever ran when it was asked for (runtime.rs, run).
THEOREM ExitLeavesNothing == Spec => []ExitIsComplete
<1>1. IInv => ExitIsComplete
  <2> SUFFICES ASSUME IInv, main.at \in {"end", "gone"}
               PROVE /\ slot = NoChildren /\ worker.held = NoChildren
                     /\ monitor.child = NoChild /\ worker.child = NoChild
    BY Kinds DEF ExitIsComplete, Services
  <2>1. worker.at = "none" /\ monitor.at \in {"off", "end"}
    BY DEF IInv, ThreadsInv
  <2>2. monitor.child = NoChild /\ worker.child = NoChild
    BY <2>1 DEF IInv, TypeInv, MonitorInv, WorkerInv
  <2>3. slot = NoChildren /\ worker.held = NoChildren
    BY <2>1, NoneOfTwo DEF IInv, TypeInv, SharedInv, MainInv, WorkerInv
  <2> QED
    BY <2>2, <2>3
<1> QED
  BY <1>1, InductiveInvariant, PTL

-----------------------------------------------------------------------------
(* The service.                                                            *)

\* The inductive invariant.

Places == {"away", "idle", "waits", "granted", "disk", "gone"}
JobSteps == {"none", "program", "user", "report", "done"}
RestartSteps == {"none", "reset", "program", "user", "replace", "report", "start"}
Settings == [Service!Layers -> 0..2]

JobTypes == [Clients -> [step : JobSteps, warned : BOOLEAN]]

\* Who has the permit: a client it was granted to, or an operation.
Holds(c) == client[c] = "granted" \/ job[c].step # "none"

\* The permit is free and nobody waits, or one holds it.
HolderInv ==
  \/ permits = 1 /\ waiters = <<>> /\ \A c \in Clients : ~Holds(c)
  \/ permits = 0 /\ \E h \in Clients : \A c \in Clients : Holds(c) <=> c = h

\* The queue is of those that wait, each once.
QueueInv ==
  /\ \A i \in 1..Len(waiters) : client[waiters[i]] = "waits"
  /\ \A i, j \in 1..Len(waiters) : waiters[i] = waiters[j] => i = j
  /\ \A c \in Clients : client[c] = "waits" => \E i \in 1..Len(waiters) : waiters[i] = c

\* An operation is its client's, or of one that is gone.
JobInv == \A c \in Clients : job[c].step # "none" => client[c] \in {"disk", "gone"}

\* A life of the flag that has shown nothing has one notification left.
ToastInv == toasts <= resets + 1 /\ (~shown => toasts <= resets)

\* No renderer runs while the settings are replaced.
RendererInv == Service!RendererIsCurrent /\ (restart.at # "none" => renderer = {})

\* What is about the permit: who holds it, who waits for it, and for what.
PermitInv ==
  /\ permits \in 0..1 /\ waiters \in Seq(Clients) /\ client \in [Clients -> Places]
  /\ job \in JobTypes
  /\ HolderInv /\ QueueInv /\ JobInv

\* What is about the files: what they hold, what is published, and the restart.
FileTypes ==
  /\ disk \in [Service!Layers -> {0, 1, 2, Broken}] /\ published \in Settings
  /\ restart \in [at : RestartSteps, read : Settings, warned : BOOLEAN]
  /\ service \in {"up", "draining", "down"} /\ halt \in BOOLEAN

\* What is about the notifications.
NoticeInv == shown \in BOOLEAN /\ toasts \in Nat /\ resets \in Nat /\ ToastInv

ServiceInv == PermitInv /\ FileTypes /\ NoticeInv /\ RendererInv

\* The library's Cardinality, as the instance of SettingsService sees it.
LEMMA CardinalityFacts ==
  Service!Cardinality({}) = 0 /\ \A h : Service!Cardinality({h}) = 1
<1>1. ASSUME NEW S PROVE Service!IsFiniteSet(S) = IsFiniteSet(S)
  BY DEF Service!IsFiniteSet, IsFiniteSet
<1>2. ASSUME NEW S PROVE Service!Cardinality(S) = Cardinality(S)
  BY DEF Service!Cardinality, Cardinality
<1> QED BY <1>2, FS_EmptySet, FS_Singleton

-----------------------------------------------------------------------------
\* The semaphore.

\* A permit that is given back while nobody holds it goes to the head of the
\* queue, or is free.
LEMMA ReleaseFacts ==
  ASSUME NEW now \in [Clients -> Places], Service!Release(now), permits = 0,
         waiters \in Seq(Clients),
         \A i \in 1..Len(waiters) : now[waiters[i]] = "waits",
         \A i, j \in 1..Len(waiters) : waiters[i] = waiters[j] => i = j,
         \A c \in Clients : now[c] = "waits" => \E i \in 1..Len(waiters) : waiters[i] = c,
         \A c \in Clients : now[c] # "granted" /\ job'[c].step = "none"
  PROVE /\ permits' \in 0..1 /\ waiters' \in Seq(Clients)
        /\ client' \in [Clients -> Places]
        /\ HolderInv' /\ QueueInv'
        /\ \A c \in Clients : client'[c] = now[c] \/ client'[c] = "granted"
<1>1. CASE waiters = <<>>
  BY <1>1, EmptySeq DEF Service!Release, HolderInv, Holds, QueueInv
<1>2. CASE waiters # <<>>
  <2>1. /\ Head(waiters) = waiters[1] /\ Head(waiters) \in Clients
        /\ Tail(waiters) \in Seq(Clients) /\ Len(Tail(waiters)) = Len(waiters) - 1
        /\ \A i \in 1..Len(Tail(waiters)) : Tail(waiters)[i] = waiters[i + 1]
        /\ Len(waiters) \in Nat \ {0}
    BY <1>2, HeadTailProperties, EmptySeq, LenProperties
  <2>2. /\ client' = [now EXCEPT ![Head(waiters)] = "granted"]
        /\ waiters' = Tail(waiters) /\ permits' = 0
    BY <1>2 DEF Service!Release
  <2>3. client' \in [Clients -> Places]
    BY <2>1, <2>2 DEF Places
  <2>4. \A c \in Clients : client'[c] = IF c = waiters[1] THEN "granted" ELSE now[c]
    BY <2>1, <2>2
  <2>5. \A c \in Clients : Holds(c)' <=> c = Head(waiters)
    BY <2>1, <2>4 DEF Holds
  <2>6. HolderInv'
    BY <2>1, <2>2, <2>5 DEF HolderInv
  <2>7. ASSUME NEW i \in 1..Len(waiters')
        PROVE i + 1 \in 1..Len(waiters) /\ waiters'[i] = waiters[i + 1]
              /\ waiters'[i] # waiters[1] /\ waiters'[i] \in Clients
    <3>1. i + 1 \in 1..Len(waiters) /\ i + 1 # 1 /\ waiters'[i] = waiters[i + 1]
      BY <2>1, <2>2
    <3>2. 1 \in 1..Len(waiters)
      BY <2>1
    <3>3. waiters[i + 1] # waiters[1] /\ waiters[i + 1] \in Clients
      BY <3>1, <3>2, ElementOfSeq
    <3> QED
      BY <3>1, <3>3
  <2>8. \A i \in 1..Len(waiters') : client'[waiters'[i]] = "waits"
    BY <2>4, <2>7
  <2>9. ASSUME NEW i \in 1..Len(waiters'), NEW j \in 1..Len(waiters'),
               waiters'[i] = waiters'[j]
        PROVE i = j
    <3>1. /\ i + 1 \in 1..Len(waiters) /\ waiters'[i] = waiters[i + 1]
          /\ j + 1 \in 1..Len(waiters) /\ waiters'[j] = waiters[j + 1]
      BY <2>7
    <3>2. i + 1 = j + 1
      BY <2>9, <3>1
    <3>3. i \in Int /\ j \in Int
      BY <2>1, <2>2
    <3> QED
      BY <3>2, <3>3
  <2>10. ASSUME NEW c \in Clients, client'[c] = "waits"
         PROVE \E i \in 1..Len(waiters') : waiters'[i] = c
    <3>1. PICK i \in 1..Len(waiters) : waiters[i] = c
      BY <2>4, <2>10
    <3>2. i # 1
      BY <2>4, <2>10, <3>1
    <3>3. i - 1 \in 1..Len(waiters') /\ (i - 1) + 1 = i
      BY <2>1, <2>2, <3>1, <3>2
    <3> QED
      BY <2>7, <3>1, <3>3
  <2>11. QueueInv'
    BY <2>8, <2>9, <2>10 DEF QueueInv
  <2> QED
    BY <2>1, <2>2, <2>3, <2>4, <2>6, <2>11
<1> QED
  BY <1>1, <1>2

\* A place that closes up leaves the others in their order.
LEMMA RemoveAtFacts ==
    ASSUME NEW s \in Seq(Clients), NEW i \in 1..Len(s)
    PROVE /\ Service!RemoveAt(s, i) \in Seq(Clients)
          /\ Len(Service!RemoveAt(s, i)) = Len(s) - 1
          /\ \A j \in 1..(Len(s) - 1) :
                Service!RemoveAt(s, i)[j] = IF j < i THEN s[j] ELSE s[j + 1]
<1> DEFINE a == SubSeq(s, 1, i - 1)
           b == SubSeq(s, i + 1, Len(s))
<1>0. Len(s) \in Nat /\ \A j \in 1..Len(s) : s[j] \in Clients
  BY LenProperties, ElementOfSeq
<1>1. /\ a \in Seq(Clients) /\ Len(a) = i - 1
      /\ \A j \in 1..(i - 1) : a[j] = s[j]
  <2>1. \A j \in 1..(i - 1) : s[j] \in Clients
    BY <1>0
  <2>2. /\ a \in Seq(Clients)
        /\ Len(a) = IF 1 <= i - 1 THEN i - 1 - 1 + 1 ELSE 0
        /\ \A j \in 1 .. (i - 1) - 1 + 1 : a[j] = s[1 + j - 1]
    BY <2>1, SubSeqProperties
  <2> HIDE DEF a
  <2>3. QED
    BY <2>2, <1>0
<1>2. /\ b \in Seq(Clients) /\ Len(b) = Len(s) - i
      /\ \A j \in 1..(Len(s) - i) : b[j] = s[i + j]
  <2>1. \A j \in (i + 1)..Len(s) : s[j] \in Clients
    BY <1>0
  <2>2. /\ b \in Seq(Clients)
        /\ Len(b) = IF i + 1 <= Len(s) THEN Len(s) - (i + 1) + 1 ELSE 0
        /\ \A j \in 1 .. Len(s) - (i + 1) + 1 : b[j] = s[(i + 1) + j - 1]
    BY <1>0, <2>1, SubSeqProperties
  <2> HIDE DEF b
  <2>3. QED
    BY <2>2, <1>0
<1>3. Service!RemoveAt(s, i) = a \o b
  BY DEF Service!RemoveAt
<1> HIDE DEF a, b
<1>4. /\ a \o b \in Seq(Clients) /\ Len(a \o b) = Len(a) + Len(b)
      /\ \A j \in 1..(Len(a) + Len(b)) :
            (a \o b)[j] = IF j <= Len(a) THEN a[j] ELSE b[j - Len(a)]
  BY <1>1, <1>2, ConcatProperties
<1> QED
  BY <1>0, <1>1, <1>2, <1>3, <1>4

\* Who leaves the queue is not in it any more, and the others are.
LEMMA WithdrawFacts ==
  ASSUME waiters \in Seq(Clients), QueueInv, NEW c \in Clients, Service!Withdraw(c)
  PROVE /\ waiters' \in Seq(Clients)
        /\ \A i \in 1..Len(waiters') :
              waiters'[i] # c /\ \E k \in 1..Len(waiters) : waiters'[i] = waiters[k]
        /\ \A i, j \in 1..Len(waiters') : waiters'[i] = waiters'[j] => i = j
        /\ \A k \in 1..Len(waiters) : waiters[k] # c =>
              \E i \in 1..Len(waiters') : waiters'[i] = waiters[k]
        /\ waiters = <<>> => waiters' = <<>>
<1>0. waiters \in Seq(Clients) /\ Len(waiters) \in Nat
  BY LenProperties
<1>1. CASE c \notin Service!Range(waiters) /\ waiters' = waiters
  <2>1. \A i \in 1..Len(waiters) : waiters[i] # c
    BY <1>0, <1>1, LenProperties DEF Service!Range
  <2> QED
    BY <1>0, <1>1, <2>1 DEF QueueInv
<1>2. CASE \E i \in 1..Len(waiters) : waiters[i] = c /\ waiters' = Service!RemoveAt(waiters, i)
  <2>1. PICK p \in 1..Len(waiters) : waiters[p] = c /\ waiters' = Service!RemoveAt(waiters, p)
    BY <1>2
  <2>2. /\ waiters' \in Seq(Clients) /\ Len(waiters') = Len(waiters) - 1
        /\ \A j \in 1..Len(waiters') :
              waiters'[j] = IF j < p THEN waiters[j] ELSE waiters[j + 1]
    BY <1>0, <2>1, RemoveAtFacts
  <2>3. \A k, m \in 1..Len(waiters) : waiters[k] = waiters[m] => k = m
    BY DEF QueueInv
  <2> DEFINE from(j) == IF j < p THEN j ELSE j + 1
  <2>4. ASSUME NEW j \in 1..Len(waiters')
        PROVE /\ from(j) \in 1..Len(waiters) /\ from(j) # p
              /\ waiters'[j] = waiters[from(j)]
    <3>1. CASE j < p
      BY <1>0, <2>2, <3>1
    <3>2. CASE ~(j < p)
      BY <1>0, <2>2, <3>2
    <3> QED
      BY <3>1, <3>2
  <2>5. ASSUME NEW i \in 1..Len(waiters'), NEW j \in 1..Len(waiters'), from(i) = from(j)
        PROVE i = j
    <3>1. i \in Nat /\ j \in Nat /\ p \in Nat
      BY <1>0, <2>2
    <3> QED
      BY <2>5, <3>1
  <2>6. ASSUME NEW k \in 1..Len(waiters), k # p
        PROVE \E i \in 1..Len(waiters') : waiters'[i] = waiters[k]
    <3>1. CASE k < p
      <4>1. k \in 1..Len(waiters') /\ waiters'[k] = waiters[k]
        BY <1>0, <2>2, <3>1
      <4> QED
        BY <4>1
    <3>2. CASE k > p
      <4>1. /\ k - 1 \in 1..Len(waiters') /\ ~(k - 1 < p) /\ (k - 1) + 1 = k
        BY <1>0, <2>2, <3>2
      <4>2. waiters'[k - 1] = waiters[k]
        BY <2>2, <4>1
      <4> QED
        BY <4>1, <4>2
    <3> QED
      BY <1>0, <2>6, <3>1, <3>2
  <2> HIDE DEF from
  <2>7. ASSUME NEW i \in 1..Len(waiters')
        PROVE waiters'[i] # c /\ \E k \in 1..Len(waiters) : waiters'[i] = waiters[k]
    <3>1. /\ from(i) \in 1..Len(waiters) /\ from(i) # p
          /\ waiters'[i] = waiters[from(i)]
      BY <2>4
    <3> QED
      BY <2>1, <2>3, <3>1
  <2>8. ASSUME NEW i \in 1..Len(waiters'), NEW j \in 1..Len(waiters'),
               waiters'[i] = waiters'[j]
        PROVE i = j
    <3>1. from(i) = from(j)
      BY <2>3, <2>4, <2>8
    <3> QED
      BY <2>5, <3>1
  <2>9. \A k \in 1..Len(waiters) : waiters[k] # c =>
            \E i \in 1..Len(waiters') : waiters'[i] = waiters[k]
    BY <2>1, <2>6
  <2>10. waiters # <<>>
    BY <1>0, <2>1, EmptySeq
  <2> QED
    BY <2>2, <2>7, <2>8, <2>9, <2>10
<1> QED
  BY <1>1, <1>2 DEF Service!Withdraw

-----------------------------------------------------------------------------
\* Every step keeps the invariant, one part at a time.

\* A client that asks for the permit gets it, or waits behind the others.
LEMMA RequestKeeps ==
  ASSUME PermitInv, NEW c \in Clients, Service!Request(c)
  PROVE PermitInv'
<1>0. /\ client[c] = "idle" /\ UNCHANGED job /\ Service!Acquire(c)
      /\ waiters \in Seq(Clients) /\ Len(waiters) \in Nat /\ permits \in 0..1
      /\ client \in [Clients -> Places] /\ job \in JobTypes
  BY LenProperties DEF Service!Request, PermitInv
<1>1. ~Holds(c)
  BY <1>0 DEF PermitInv, JobInv, Holds
<1>2. CASE permits > 0
  <2>1. /\ permits = 1 /\ waiters = <<>> /\ \A d \in Clients : ~Holds(d)
        /\ permits' = 0 /\ client' = [client EXCEPT ![c] = "granted"]
        /\ UNCHANGED waiters
    BY <1>0, <1>2 DEF Service!Acquire, PermitInv, HolderInv
  <2>2. \A d \in Clients : client'[d] = IF d = c THEN "granted" ELSE client[d]
    BY <1>0, <2>1
  <2>3. HolderInv'
    BY <1>0, <2>1, <2>2 DEF HolderInv, Holds
  <2>4. QueueInv' /\ JobInv'
    BY <1>0, <1>1, <2>1, <2>2 DEF PermitInv, QueueInv, JobInv, Holds
  <2>5. client' \in [Clients -> Places]
    BY <1>0, <2>1 DEF Places
  <2> QED
    BY <1>0, <2>1, <2>3, <2>4, <2>5 DEF PermitInv
<1>3. CASE ~(permits > 0)
  <2>1. /\ waiters' = Append(waiters, c) /\ UNCHANGED permits
        /\ client' = [client EXCEPT ![c] = "waits"] /\ permits = 0
    BY <1>0, <1>3 DEF Service!Acquire
  <2>2. /\ waiters' \in Seq(Clients) /\ Len(waiters') = Len(waiters) + 1
        /\ \A i \in 1..Len(waiters) : waiters'[i] = waiters[i]
        /\ waiters'[Len(waiters) + 1] = c
    BY <1>0, <2>1, AppendProperties
  <2>3. \A d \in Clients : client'[d] = IF d = c THEN "waits" ELSE client[d]
    BY <1>0, <2>1
  <2>4. \A d \in Clients : Holds(d)' <=> Holds(d)
    BY <1>0, <1>1, <2>3 DEF Holds
  <2>5. HolderInv'
    BY <2>1, <2>4 DEF HolderInv, PermitInv
  <2>6. \A i \in 1..Len(waiters) : waiters[i] # c /\ waiters[i] \in Clients
    BY <1>0, ElementOfSeq DEF PermitInv, QueueInv
  <2>7. \A i \in 1..Len(waiters') : client'[waiters'[i]] = "waits"
    <3> SUFFICES ASSUME NEW i \in 1..Len(waiters') PROVE client'[waiters'[i]] = "waits"
      OBVIOUS
    <3>1. CASE i = Len(waiters) + 1
      BY <2>2, <2>3, <3>1
    <3>2. CASE i \in 1..Len(waiters)
      BY <2>2, <2>3, <2>6, <3>2 DEF PermitInv, QueueInv
    <3> QED
      BY <1>0, <2>2, <3>1, <3>2
  <2>8. \A i, j \in 1..Len(waiters') : waiters'[i] = waiters'[j] => i = j
    <3> SUFFICES ASSUME NEW i \in 1..Len(waiters'), NEW j \in 1..Len(waiters'),
                        waiters'[i] = waiters'[j]
                 PROVE i = j
      OBVIOUS
    <3>1. CASE i \in 1..Len(waiters) /\ j \in 1..Len(waiters)
      BY <2>2, <3>1 DEF PermitInv, QueueInv
    <3>2. CASE i \notin 1..Len(waiters) \/ j \notin 1..Len(waiters)
      BY <1>0, <2>2, <2>6, <3>2
    <3> QED
      BY <3>1, <3>2
  <2>9. ASSUME NEW d \in Clients, client'[d] = "waits"
        PROVE \E i \in 1..Len(waiters') : waiters'[i] = d
    <3>1. CASE d = c
      BY <1>0, <2>2, <3>1
    <3>2. CASE d # c
      <4>1. PICK i \in 1..Len(waiters) : waiters[i] = d
        BY <2>3, <2>9, <3>2 DEF PermitInv, QueueInv
      <4> QED
        BY <1>0, <2>2, <4>1
    <3> QED
      BY <3>1, <3>2
  <2>10. JobInv' /\ client' \in [Clients -> Places]
    BY <1>0, <1>1, <2>1, <2>3 DEF PermitInv, JobInv, Holds, Places
  <2>11. QueueInv'
    BY <2>7, <2>8, <2>9 DEF QueueInv
  <2> QED
    BY <1>0, <2>1, <2>2, <2>5, <2>10, <2>11 DEF PermitInv
<1> QED
  BY <1>2, <1>3

\* A client that leaves passes on a permit it was granted, or leaves the queue;
\* the permit of an operation stays with it.
LEMMA EndsKeeps ==
  ASSUME PermitInv, NEW c \in Clients, Service!Ends(c)
  PROVE PermitInv'
<1> DEFINE now == [client EXCEPT ![c] = "gone"]
<1>0. /\ UNCHANGED job /\ permits \in 0..1 /\ waiters \in Seq(Clients)
      /\ client \in [Clients -> Places] /\ job \in JobTypes
      /\ now \in [Clients -> Places]
      /\ \A d \in Clients : now[d] = IF d = c THEN "gone" ELSE client[d]
      /\ \A i \in 1..Len(waiters) : waiters[i] \in Clients
  BY ElementOfSeq DEF Service!Ends, PermitInv, Places
<1>1. CASE c \in Service!Granted
  <2>1. /\ client[c] = "granted" /\ Service!Release(now)
    BY <1>1 DEF Service!Ends, Service!Granted
  <2> HIDE DEF now
  <2>2. Holds(c) /\ permits = 0 /\ \A d \in Clients : Holds(d) => d = c
    BY <2>1 DEF Holds, PermitInv, HolderInv
  <2>3. job[c].step = "none"
    BY <2>1 DEF PermitInv, JobInv
  <2>4. \A d \in Clients : now[d] # "granted" /\ job'[d].step = "none"
    BY <1>0, <2>2, <2>3 DEF Holds
  <2>5. /\ \A i \in 1..Len(waiters) : now[waiters[i]] = "waits"
        /\ \A i, j \in 1..Len(waiters) : waiters[i] = waiters[j] => i = j
        /\ \A d \in Clients : now[d] = "waits" =>
              \E i \in 1..Len(waiters) : waiters[i] = d
    BY <1>0, <2>1 DEF PermitInv, QueueInv
  <2>6. /\ permits' \in 0..1 /\ waiters' \in Seq(Clients)
        /\ client' \in [Clients -> Places] /\ HolderInv' /\ QueueInv'
    BY <1>0, <2>1, <2>2, <2>4, <2>5, ReleaseFacts
  <2>7. JobInv'
    BY <2>4 DEF JobInv
  <2> QED
    BY <1>0, <2>6, <2>7 DEF PermitInv
<1>2. CASE c \notin Service!Granted
  <2>1. client' = now /\ Service!Withdraw(c) /\ UNCHANGED permits /\ client[c] # "granted"
    BY <1>2 DEF Service!Ends, Service!Granted
  <2>2. /\ waiters' \in Seq(Clients)
        /\ \A i \in 1..Len(waiters') :
              waiters'[i] # c /\ \E k \in 1..Len(waiters) : waiters'[i] = waiters[k]
        /\ \A i, j \in 1..Len(waiters') : waiters'[i] = waiters'[j] => i = j
        /\ \A k \in 1..Len(waiters) : waiters[k] # c =>
              \E i \in 1..Len(waiters') : waiters'[i] = waiters[k]
        /\ waiters = <<>> => waiters' = <<>>
    BY <2>1, WithdrawFacts DEF PermitInv
  <2>3. \A d \in Clients : client'[d] = IF d = c THEN "gone" ELSE client[d]
    BY <1>0, <2>1
  <2>4. \A d \in Clients : Holds(d)' <=> Holds(d)
    BY <1>0, <2>1, <2>3 DEF Holds
  <2>5. HolderInv'
    BY <2>1, <2>2, <2>4 DEF HolderInv, PermitInv
  <2>6. ASSUME NEW i \in 1..Len(waiters') PROVE client'[waiters'[i]] = "waits"
    <3>1. PICK k \in 1..Len(waiters) : waiters'[i] = waiters[k]
      BY <2>2
    <3>2. client[waiters[k]] = "waits" /\ waiters[k] \in Clients /\ waiters[k] # c
      BY <1>0, <2>2, <3>1 DEF PermitInv, QueueInv
    <3> QED
      BY <2>3, <3>1, <3>2
  <2>7. ASSUME NEW d \in Clients, client'[d] = "waits"
        PROVE \E i \in 1..Len(waiters') : waiters'[i] = d
    <3>1. d # c /\ client[d] = "waits"
      BY <2>3, <2>7
    <3>2. PICK k \in 1..Len(waiters) : waiters[k] = d
      BY <3>1 DEF PermitInv, QueueInv
    <3> QED
      BY <2>2, <3>1, <3>2
  <2>8. QueueInv'
    BY <2>2, <2>6, <2>7 DEF QueueInv
  <2>9. JobInv'
    BY <1>0, <2>3 DEF PermitInv, JobInv
  <2> HIDE DEF now
  <2> QED
    BY <1>0, <2>1, <2>2, <2>5, <2>8, <2>9 DEF PermitInv
<1> QED
  BY <1>1, <1>2

\* An operation begins with the permit its client was granted, and gives it back
\* when it ends.
LEMMA JobKeeps ==
  ASSUME PermitInv, NEW c \in Clients,
         Service!StartJob(c) \/ Service!ReadLayer(c) \/ Service!JobReports(c) \/ Service!JobEnds(c)
  PROVE PermitInv'
<1>0. /\ permits \in 0..1 /\ waiters \in Seq(Clients)
      /\ client \in [Clients -> Places] /\ job \in JobTypes
  BY DEF PermitInv
<1>1. CASE Service!StartJob(c)
  <2>1. /\ client[c] = "granted" /\ client' = [client EXCEPT ![c] = "disk"]
        /\ UNCHANGED <<permits, waiters>>
        /\ \E step \in {"program", "report"} :
              job' = [job EXCEPT ![c] = [step |-> step, warned |-> FALSE]]
    BY <1>1 DEF Service!StartJob, Service!NoJob, Service!semaphore
  <2>2. client' \in [Clients -> Places] /\ job' \in JobTypes
    BY <1>0, <2>1 DEF Places, JobTypes, JobSteps
  <2>3. /\ \A d \in Clients : client'[d] = IF d = c THEN "disk" ELSE client[d]
        /\ \A d \in Clients : d # c => job'[d] = job[d]
        /\ job'[c].step # "none"
    BY <1>0, <2>1 DEF JobTypes
  <2>4. \A d \in Clients : Holds(d)' <=> Holds(d)
    BY <2>1, <2>3 DEF Holds
  <2>5. HolderInv'
    BY <2>1, <2>4 DEF HolderInv, PermitInv
  <2>6. \A i \in 1..Len(waiters) : waiters[i] \in Clients /\ waiters[i] # c
    BY <1>0, <2>1, ElementOfSeq DEF PermitInv, QueueInv
  <2>7. QueueInv'
    BY <2>1, <2>3, <2>6 DEF QueueInv, PermitInv
  <2>8. JobInv'
    BY <2>3 DEF JobInv, PermitInv
  <2> QED
    BY <1>0, <2>1, <2>2, <2>5, <2>7, <2>8 DEF PermitInv
<1>2. CASE Service!ReadLayer(c) \/ Service!JobReports(c)
  <2>1. /\ UNCHANGED <<client, permits, waiters>> /\ job' \in JobTypes
        /\ job[c].step # "none" /\ job'[c].step # "none"
        /\ \A d \in Clients : d # c => job'[d] = job[d]
    <3>1. CASE Service!ReadLayer(c)
      <4> DEFINE warns == job[c].warned \/ Service!Warns(job[c].step)
                 step == IF job[c].step = "program" THEN "user"
                         ELSE IF warns THEN "report" ELSE "done"
      <4>1. /\ job' = [job EXCEPT ![c] = [step |-> step, warned |-> warns]]
            /\ job[c].step \in Service!Layers /\ UNCHANGED <<client, permits, waiters>>
        BY <3>1 DEF Service!ReadLayer, Service!semaphore
      <4>2. warns \in BOOLEAN /\ step \in JobSteps \ {"none"}
        BY <1>0 DEF JobTypes, JobSteps, Service!Warns
      <4> HIDE DEF warns, step
      <4> QED
        BY <1>0, <4>1, <4>2 DEF JobTypes, Service!Layers
    <3>2. CASE Service!JobReports(c)
      BY <1>0, <3>2 DEF Service!JobReports, JobTypes, JobSteps, Service!semaphore
    <3> QED
      BY <1>2, <3>1, <3>2
  <2>2. \A d \in Clients : Holds(d)' <=> Holds(d)
    BY <2>1 DEF Holds
  <2>3. HolderInv' /\ QueueInv' /\ JobInv'
    BY <2>1, <2>2 DEF HolderInv, QueueInv, JobInv, PermitInv
  <2> QED
    BY <1>0, <2>1, <2>3 DEF PermitInv
<1>3. CASE Service!JobEnds(c)
  <2> DEFINE now == [client EXCEPT ![c] = IF client[c] = "disk" THEN "idle"
                                          ELSE client[c]]
  <2>1. /\ job[c].step = "done" /\ job' = [job EXCEPT ![c] = Service!NoJob] /\ Service!Release(now)
    BY <1>3 DEF Service!JobEnds
  <2>2. /\ now \in [Clients -> Places]
        /\ \A d \in Clients : d # c => now[d] = client[d]
        /\ now[c] \in {"idle", "gone"} /\ client[c] \in {"disk", "gone"}
    BY <1>0, <2>1 DEF Places, PermitInv, JobInv
  <2> HIDE DEF now
  <2>3. /\ job' \in JobTypes /\ job'[c].step = "none"
        /\ \A d \in Clients : d # c => job'[d] = job[d]
    BY <1>0, <2>1 DEF JobTypes, JobSteps, Service!NoJob
  <2>4. Holds(c) /\ permits = 0 /\ \A d \in Clients : Holds(d) => d = c
    BY <2>1 DEF Holds, PermitInv, HolderInv
  <2>5. \A d \in Clients : now[d] # "granted" /\ job'[d].step = "none"
    BY <2>2, <2>3, <2>4 DEF Holds
  <2>6. \A i \in 1..Len(waiters) : waiters[i] \in Clients
    BY <1>0, ElementOfSeq
  <2>7. /\ \A i \in 1..Len(waiters) : now[waiters[i]] = "waits"
        /\ \A i, j \in 1..Len(waiters) : waiters[i] = waiters[j] => i = j
        /\ \A d \in Clients : now[d] = "waits" =>
              \E i \in 1..Len(waiters) : waiters[i] = d
    BY <2>2, <2>6 DEF PermitInv, QueueInv
  <2>8. /\ permits' \in 0..1 /\ waiters' \in Seq(Clients)
        /\ client' \in [Clients -> Places] /\ HolderInv' /\ QueueInv'
    BY <1>0, <2>1, <2>2, <2>4, <2>5, <2>7, ReleaseFacts
  <2>9. JobInv'
    BY <2>5 DEF JobInv
  <2> QED
    BY <2>3, <2>8, <2>9 DEF PermitInv
<1> QED
  BY <1>1, <1>2, <1>3

\* The permit is with nobody, a client or an operation, once each.
LEMMA PermitCounts ==
  ASSUME PermitInv
  PROVE /\ Service!OneReader
        /\ \/ permits = 1 /\ Service!Granted = {}
           \/ permits = 0 /\ Service!Granted = {}
              /\ \E h \in Clients : Service!Running = {h}
           \/ permits = 0 /\ Service!Running = {}
              /\ \E h \in Clients : Service!Granted = {h}
<1>0. Service!Cardinality({}) = 0 /\ \A h \in Clients : Service!Cardinality({h}) = 1
  BY CardinalityFacts
<1>1. CASE permits = 1 /\ \A c \in Clients : ~Holds(c)
  <2>1. Service!Granted = {} /\ Service!Running = {}
    BY <1>1 DEF Holds, Service!Granted, Service!Running
  <2> QED
    BY <1>0, <1>1, <2>1 DEF Service!OneReader
<1>2. ASSUME permits = 0, NEW h \in Clients, \A c \in Clients : Holds(c) <=> c = h
      PROVE /\ Service!OneReader
            /\ \/ permits = 0 /\ Service!Granted = {} /\ Service!Running = {h}
               \/ permits = 0 /\ Service!Running = {} /\ Service!Granted = {h}
  <2>1. CASE client[h] = "granted"
    <3>1. job[h].step = "none"
      BY <2>1 DEF PermitInv, JobInv
    <3>2. Service!Granted = {h} /\ Service!Running = {}
      BY <1>2, <2>1, <3>1 DEF Service!Granted, Service!Running, Holds
    <3> QED
      BY <1>0, <1>2, <3>2 DEF Service!OneReader
  <2>2. CASE client[h] # "granted"
    <3>1. Service!Granted = {} /\ Service!Running = {h}
      BY <1>2, <2>2 DEF Service!Granted, Service!Running, Holds
    <3> QED
      BY <1>0, <1>2, <3>1 DEF Service!OneReader
  <2> QED
    BY <2>1, <2>2
<1> QED
  BY <1>1, <1>2 DEF PermitInv, HolderInv

\* The service that breaks off leaves the permit to an operation that still runs.
LEMMA BreakKeeps ==
  ASSUME PermitInv, NEW fails, Service!Break(fails)
  PROVE PermitInv'
<1>0. /\ client' = [c \in Clients |-> "gone"] /\ UNCHANGED job
      /\ waiters' = <<>> /\ permits' = permits + Service!Cardinality(Service!Granted)
      /\ job \in JobTypes
  BY DEF Service!Break, PermitInv
<1>1. client' \in [Clients -> Places] /\ waiters' \in Seq(Clients)
  BY <1>0, EmptySeq DEF Places
<1>2. QueueInv' /\ JobInv'
  BY <1>0, EmptySeq DEF QueueInv, JobInv
<1>3. \A c \in Clients : Holds(c)' <=> c \in Service!Running
  BY <1>0 DEF Holds, Service!Running
<1>4. CASE permits = 1 /\ Service!Granted = {}
  <2>1. \A c \in Clients : ~Holds(c)
    <3>1. permits # 0 /\ HolderInv BY <1>4 DEF PermitInv
    <3> HIDE DEF Holds
    <3> QED BY <3>1, Zenon DEF HolderInv
  <2>2. permits' = 1 BY <1>0, <1>4, CardinalityFacts
  <2>3. \A c \in Clients : ~Holds(c)' BY <1>3, <2>1 DEF Holds, Service!Running
  <2> QED
    BY <1>0, <1>1, <1>2, <2>2, <2>3 DEF PermitInv, HolderInv
<1>5. ASSUME permits = 0, Service!Granted = {}, NEW h \in Clients, Service!Running = {h}
      PROVE PermitInv'
  <2>1. permits' = 0
    BY <1>0, <1>5, CardinalityFacts
  <2> QED
    BY <1>0, <1>1, <1>2, <1>3, <1>5, <2>1 DEF PermitInv, HolderInv
<1>6. ASSUME permits = 0, Service!Running = {}, NEW h \in Clients, Service!Granted = {h}
      PROVE PermitInv'
  <2>1. Service!Cardinality({h}) = 1
    BY CardinalityFacts
  <2>2. permits' = 1
    BY <1>0, <1>6, <2>1
  <2> QED
    BY <1>0, <1>1, <1>2, <1>3, <1>6, <2>2 DEF PermitInv, HolderInv
<1> QED
  BY <1>4, <1>5, <1>6, PermitCounts

\* No step loses the permit or doubles it.
LEMMA PermitStep == PermitInv /\ [Service!Next]_Service!vars => PermitInv'
<1> SUFFICES ASSUME PermitInv, [Service!Next]_Service!vars PROVE PermitInv'
  OBVIOUS
<1>1. ASSUME UNCHANGED <<client, permits, waiters, job>> PROVE PermitInv'
  BY <1>1 DEF PermitInv, HolderInv, Holds, QueueInv, JobInv
<1>2. ASSUME NEW c \in Clients, Service!Accept(c) PROVE PermitInv'
  <2>1. /\ client[c] = "away" /\ UNCHANGED <<permits, waiters, job>>
        /\ client' \in [Clients -> Places]
        /\ \A d \in Clients : client'[d] = IF d = c THEN "idle" ELSE client[d]
    BY <1>2 DEF Service!Accept, Service!semaphore, PermitInv, Places
  <2>2. \A d \in Clients : Holds(d)' <=> Holds(d)
    BY <2>1 DEF Holds
  <2>3. HolderInv'
    BY <2>1, <2>2 DEF HolderInv, PermitInv
  <2>4. \A i \in 1..Len(waiters) : waiters[i] \in Clients /\ waiters[i] # c
    BY <2>1, ElementOfSeq DEF PermitInv, QueueInv
  <2>5. QueueInv' /\ JobInv'
    BY <2>1, <2>4 DEF PermitInv, QueueInv, JobInv
  <2> QED
    BY <2>1, <2>3, <2>5 DEF PermitInv
<1>3. CASE Service!Tasks
  BY <1>2, <1>3, RequestKeeps, JobKeeps, EndsKeeps DEF Service!Tasks
<1>4. CASE Service!Jobs
  BY <1>4, JobKeeps DEF Service!Jobs
<1>5. CASE Service!Thread
  BY <1>1, <1>5, BreakKeeps DEF Service!Thread, Service!Halt, Service!ShutDown,
     Service!semaphore
<1>6. CASE Service!Restart
  BY <1>1, <1>6 DEF Service!Restart, Service!RestartBegins, Service!ResetNotices,
     Service!RestartReads, Service!Replace,
     Service!RestartReports, Service!RendererStarts, Service!semaphore
<1>7. CASE \E l \in Service!Layers, content \in {0, 2, Broken} : Service!Write(l, content)
  BY <1>1, <1>7 DEF Service!Write, Service!semaphore
<1>8. CASE UNCHANGED Service!vars
  BY <1>1, <1>8 DEF Service!vars, Service!semaphore
<1> QED
  BY <1>3, <1>4, <1>5, <1>6, <1>7, <1>8 DEF Service!Next

\* Versions and places keep their types.
LEMMA FileStep == FileTypes /\ [Service!Next]_Service!vars => FileTypes'
<1> SUFFICES ASSUME FileTypes, [Service!Next]_Service!vars PROVE FileTypes'
  OBVIOUS
<1>1. ASSUME UNCHANGED <<disk, published, restart, service, halt>> PROVE FileTypes'
  BY <1>1 DEF FileTypes
<1>2. CASE Service!Tasks \/ Service!Jobs
  BY <1>1, <1>2 DEF Service!Tasks, Service!Jobs, Service!Accept, Service!Request,
     Service!StartJob, Service!Ends, Service!ReadLayer,
     Service!JobReports, Service!JobEnds, Service!files
<1>3. CASE Service!Thread
  BY <1>3 DEF Service!Thread, Service!Halt, Service!Break, Service!ShutDown, FileTypes,
     Service!files
<1>4. CASE Service!RestartReads
  <2>1. /\ restart.at \in Service!Layers /\ restart.read \in Settings
        /\ restart.warned \in BOOLEAN
    BY <1>4 DEF Service!RestartReads, FileTypes
  <2>2. disk[restart.at] = Broken \/ disk[restart.at] \in 0..2
    BY <2>1 DEF FileTypes
  <2>3. Service!Overlaid(restart.read, restart.at) \in Settings
    BY <2>1, <2>2 DEF Service!Overlaid, Settings
  <2>4. Service!Warns(restart.at) \in BOOLEAN
    BY DEF Service!Warns
  <2> QED
    BY <1>4, <2>1, <2>3, <2>4 DEF Service!RestartReads, FileTypes, RestartSteps, Service!files
<1>5. CASE Service!RestartBegins
  <2>1. [l \in Service!Layers |-> 0] \in Settings
    BY DEF Settings
  <2> QED
    BY <1>5, <2>1 DEF Service!RestartBegins, Service!NoRestart, Service!Nothing, FileTypes,
       RestartSteps,
       Service!files
<1>6. CASE Service!ResetNotices \/ Service!Replace \/ Service!RestartReports
           \/ Service!RendererStarts
  BY <1>6 DEF Service!ResetNotices, Service!Replace, Service!RestartReports,
     Service!RendererStarts, Service!RestartGoes,
     FileTypes, RestartSteps, Service!files
<1>7. ASSUME NEW l \in Service!Layers, NEW content \in {0, 2, Broken}, Service!Write(l, content)
      PROVE FileTypes'
  BY <1>7 DEF Service!Write, FileTypes
<1>8. CASE UNCHANGED Service!vars
  BY <1>1, <1>8 DEF Service!vars, Service!files
<1> QED
  BY <1>2, <1>3, <1>4, <1>5, <1>6, <1>7, <1>8 DEF Service!Next, Service!Restart

\* Whoever reports first in a life of the flag is the only one that shows.
LEMMA NoticeStep == NoticeInv /\ [Service!Next]_Service!vars => NoticeInv'
<1> SUFFICES ASSUME NoticeInv, [Service!Next]_Service!vars PROVE NoticeInv'
  OBVIOUS
<1>1. ASSUME UNCHANGED Service!notices PROVE NoticeInv'
  BY <1>1 DEF NoticeInv, ToastInv, Service!notices
<1>2. ASSUME Service!Report PROVE NoticeInv'
  BY <1>2 DEF Service!Report, NoticeInv, ToastInv
<1>3. CASE Service!Tasks \/ Service!Jobs
  BY <1>1, <1>2, <1>3 DEF Service!Tasks, Service!Jobs, Service!Accept, Service!Request,
     Service!StartJob, Service!Ends, Service!ReadLayer,
     Service!JobReports, Service!JobEnds
<1>4. CASE Service!Thread
  BY <1>1, <1>4 DEF Service!Thread, Service!Halt, Service!Break, Service!ShutDown
<1>5. CASE Service!ResetNotices
  <2>1. shown' \in BOOLEAN /\ toasts' = toasts /\ resets' = resets + 1
    BY <1>5 DEF Service!ResetNotices
  <2>2. /\ toasts' \in Nat /\ resets' \in Nat
        /\ toasts' <= resets' /\ toasts' <= resets' + 1
    BY <2>1 DEF NoticeInv, ToastInv
  <2> QED
    BY <2>1, <2>2 DEF NoticeInv, ToastInv
<1>6. CASE Service!Restart /\ ~Service!ResetNotices
  BY <1>1, <1>2, <1>6 DEF Service!Restart, Service!RestartBegins, Service!RestartReads,
     Service!Replace,
     Service!RestartReports, Service!RendererStarts
<1>7. CASE \E l \in Service!Layers, content \in {0, 2, Broken} : Service!Write(l, content)
  BY <1>1, <1>7 DEF Service!Write
<1>8. CASE UNCHANGED Service!vars
  BY <1>1, <1>8 DEF Service!vars
<1> QED
  BY <1>3, <1>4, <1>5, <1>6, <1>7, <1>8 DEF Service!Next

\* The settings change while no renderer runs.
LEMMA RendererStep ==
  FileTypes /\ RendererInv /\ [Service!Next]_Service!vars => RendererInv'
<1> SUFFICES ASSUME FileTypes, RendererInv, [Service!Next]_Service!vars PROVE RendererInv'
  OBVIOUS
<1>1. ASSUME UNCHANGED <<renderer, restart, published>> PROVE RendererInv'
  BY <1>1 DEF RendererInv, Service!RendererIsCurrent
<1>2. CASE Service!Tasks \/ Service!Jobs \/ Service!Thread
  BY <1>1, <1>2 DEF Service!Tasks, Service!Jobs, Service!Accept, Service!Request,
     Service!StartJob, Service!Ends, Service!ReadLayer,
     Service!JobReports, Service!JobEnds, Service!Thread, Service!Halt, Service!Break,
     Service!ShutDown
<1>3. CASE Service!RestartBegins
  BY <1>3 DEF Service!RestartBegins, RendererInv, Service!RendererIsCurrent
<1>4. CASE Service!ResetNotices \/ Service!RestartReads \/ Service!Replace
           \/ Service!RestartReports
  <2>1. restart.at # "none" /\ UNCHANGED renderer
    BY <1>4 DEF Service!ResetNotices, Service!RestartReads, Service!Replace,
       Service!RestartReports, Service!Layers
  <2> QED
    BY <2>1 DEF RendererInv, Service!RendererIsCurrent
<1>5. CASE Service!RendererStarts
  <2>1. restart'.at = "none" /\ UNCHANGED published /\ renderer' \subseteq {published}
    BY <1>5 DEF Service!RendererStarts, Service!RestartGoes, FileTypes
  <2> QED
    BY <2>1 DEF RendererInv, Service!RendererIsCurrent
<1>6. CASE \E l \in Service!Layers, content \in {0, 2, Broken} : Service!Write(l, content)
  BY <1>1, <1>6 DEF Service!Write
<1>7. CASE UNCHANGED Service!vars
  BY <1>1, <1>7 DEF Service!vars
<1> QED
  BY <1>2, <1>3, <1>4, <1>5, <1>6, <1>7 DEF Service!Next, Service!Restart

-----------------------------------------------------------------------------
\* The service starts with the files read, the permit free and nobody connected.
LEMMA ServiceInit == Service!Init => ServiceInv
<1> SUFFICES ASSUME Service!Init PROVE ServiceInv
  OBVIOUS
<1>1. PermitInv
  BY EmptySeq DEF Service!Init, PermitInv, HolderInv, Holds, QueueInv, JobInv, Service!NoJob,
     Places,
     JobTypes, JobSteps
<1>2. Service!Nothing \in Settings
  BY DEF Service!Nothing, Settings
<1>3. \A read \in Settings, l \in Service!Layers : Service!Overlaid(read, l) \in Settings
  <2> SUFFICES ASSUME NEW read \in Settings, NEW l \in Service!Layers
               PROVE Service!Overlaid(read, l) \in Settings
    OBVIOUS
  <2>1. disk[l] = Broken \/ disk[l] = 1
    BY DEF Service!Init
  <2> QED
    BY <2>1 DEF Service!Overlaid, Settings
<1>4. published \in Settings
  BY <1>2, <1>3 DEF Service!Init, Service!Layers
<1>5. FileTypes
  BY <1>2, <1>4 DEF Service!Init, FileTypes, Service!NoRestart, RestartSteps
<1>6. NoticeInv
  <2>1. shown \in BOOLEAN /\ toasts = 0 /\ resets = 0
    BY DEF Service!Init
  <2>2. toasts \in Nat /\ resets \in Nat /\ toasts <= resets /\ toasts <= resets + 1
    BY <2>1
  <2> QED
    BY <2>1, <2>2 DEF NoticeInv, ToastInv
<1>7. RendererInv
  BY DEF Service!Init, RendererInv, Service!RendererIsCurrent, Service!NoRestart
<1> QED
  BY <1>1, <1>5, <1>6, <1>7 DEF ServiceInv

\* Every step of the service, of a client and of a restart keeps the invariant.
LEMMA ServiceStep == ServiceInv /\ [Service!Next]_Service!vars => ServiceInv'
BY PermitStep, FileStep, NoticeStep, RendererStep DEF ServiceInv

\* One operation at a time touches the disk and the permit is neither lost nor
\* doubled, whatever clients leave and whenever the service stops; who waits stands
\* in the queue; one life of the flag shows one notification; a running renderer has
\* the published settings.
LEMMA ServiceSafe == ServiceInv => Service!Inv
<1>1. ASSUME ServiceInv PROVE Service!Inv
  <2>1. Service!TypeOK
    <3>1. {halt, shown} \subseteq BOOLEAN
      BY <1>1 DEF ServiceInv, FileTypes, NoticeInv
    <3> QED
      BY <1>1, <3>1 DEF ServiceInv, PermitInv, FileTypes, Service!TypeOK, Places, Settings
  <2>2. Service!OneReader
    BY <1>1, PermitCounts DEF ServiceInv
  <2>3. Service!WaitersAreReal
    <3>1. DOMAIN waiters = 1..Len(waiters) /\ \A i \in 1..Len(waiters) : waiters[i] \in Clients
      BY <1>1, LenProperties, ElementOfSeq DEF ServiceInv, PermitInv
    <3>2. waiters # <<>> => permits = 0
      BY <1>1 DEF ServiceInv, PermitInv, HolderInv
    <3> QED
      BY <1>1, <3>1, <3>2 DEF ServiceInv, PermitInv, QueueInv, Service!WaitersAreReal
  <2>4. Service!OneToast /\ Service!RendererIsCurrent
    BY <1>1 DEF ServiceInv, NoticeInv, ToastInv, Service!OneToast, RendererInv
  <2> QED
    BY <2>1, <2>2, <2>3, <2>4 DEF Service!Inv
<1> QED
  BY <1>1
-----------------------------------------------------------------------------
(* The window.                                                             *)

\* What a row of the form can show.
RowTexts == {"m", "n", "good", "odd", "bad", "default"}

\* The types of what the editors show and of the save in progress.
EditorTypes ==
  /\ field \in [Window!Fields -> [over : BOOLEAN, text : RowTexts]]
  /\ asked \in [apply : BOOLEAN, config : BOOLEAN, update : BOOLEAN]

\* Without a change the draft is what was read; what is not dirty has none.
DraftInv ==
  /\ at # "off" /\ changed = {} => patch = Window!PatchOf(original)
  /\ at # "off" /\ ~dirty => changed = {} /\ ~Window!UpdateChanged

\* What a save knows at each of its places.
SaveInv ==
  /\ at \in {"compare", "persist"} => (asked.update <=> Window!UpdateChanged)
  /\ at \in {"compare", "persist"} => \A s \in changed : Window!Valid(s)
  /\ at \in {"update", "finish"} => changed = {}
  /\ at = "finish" => ~Window!UpdateChanged
  /\ at = "persist" => file = original \/ overtaken

\* The rows and the buttons tell the draft.
RowsInv == Window!RowsTellDraft /\ Window!BarredForReason

WindowInv == Window!TypeOK /\ EditorTypes /\ RowsInv /\ Window!OddIsOld /\ DraftInv /\ SaveInv

\* A patch keeps its type under an edit, which changes one key of it.
LEMMA AssignedFacts ==
  ASSUME patch \in Window!Patches, NEW key \in {"theme", "config", "file"},
         NEW value \in {None, "m", "n", "good", "odd", "path"},
         key = "theme" => value \in {None, "m", "n"},
         key = "config" => value \in {None, "good", "odd"},
         key = "file" => value \in {None, "path"}
  PROVE  /\ Window!Assigned(key, value) \in Window!Patches
         /\ Window!Assigned(key, value)[key] = value
         /\ key # "theme" => Window!Assigned(key, value).theme = patch.theme
         /\ key # "config" => Window!Assigned(key, value).config = patch.config
         /\ key # "file" => Window!Assigned(key, value).file = patch.file
         /\ Window!Assigned(key, value).app = patch.app
<1>1. (key \in {"config", "file"} /\ value # None) \in BOOLEAN OBVIOUS
<1>2. CASE key = "theme" BY <1>1, <1>2 DEF Window!Assigned, Window!Patches
<1>3. CASE key = "config" BY <1>1, <1>3 DEF Window!Assigned, Window!Patches
<1>4. CASE key = "file" BY <1>1, <1>4 DEF Window!Assigned, Window!Patches
<1> QED BY <1>2, <1>3, <1>4

\* The sections the fields belong to.
LEMMA OwnerFacts ==
  \A f \in Window!Fields : Window!Owner[f] \in {"wasm", "module"} /\ (f = "config" => Window!Owner[f] = "module")
BY DEF Window!Fields, Window!Owner

\* A row shows one of its texts.
LEMMA FieldFacts ==
  ASSUME NEW doc \in Window!Patches, NEW f \in Window!Fields
  PROVE  Window!FieldOf(f, doc) \in [over : BOOLEAN, text : RowTexts]
BY SettingsConstants DEF Window!Patches, Window!Fields, Window!FieldOf, RowTexts,
   Window!Inherited, Window!WindowAssumption, SettingsAssumption

\* What is in the file is a patch, the empty one, or what does not parse.
LEMMA PatchFacts ==
  /\ Window!NoPatch \in Window!Patches
  /\ \A doc \in Window!Patches : doc # Absent /\ Window!PatchOf(doc) = doc
  /\ \A content \in Window!Patches \cup {Absent} : Window!PatchOf(content) \in Window!Patches
  /\ Window!ForeignContents \subseteq Window!Patches \cup {Absent, Broken}
<1>1. Window!NoPatch \in Window!Patches BY DEF Window!NoPatch, Window!Patches
<1>2. \A doc \in Window!Patches : doc # Absent BY SettingsConstants
  DEF Window!WindowAssumption, SettingsAssumption
<1>3. [Window!NoPatch EXCEPT !.theme = "m"] \in Window!Patches BY DEF Window!NoPatch,
  Window!Patches
<1>4. [Window!NoPatch EXCEPT !.entry = TRUE, !.config = "odd"] \in Window!Patches BY
  DEF Window!NoPatch, Window!Patches
<1> QED BY <1>1, <1>2, <1>3, <1>4 DEF Window!PatchOf, Window!ForeignContents

\* The window's state keeps its types.
LEMMA TypeStep ==
  Window!TypeOK /\ EditorTypes /\ Window!Next
  => Window!TypeOK' /\ EditorTypes'
<1> SUFFICES ASSUME Window!TypeOK, EditorTypes, Window!Next PROVE Window!TypeOK' /\ EditorTypes' OBVIOUS
<1> USE DEF Window!Idle, Window!Edited, Window!Elsewhere, Window!document, Window!editors,
Window!update, Window!window, Window!history
<1>1. CASE Window!Load
  <2>1. file \in Window!Patches \cup {Absent} /\ patch' = Window!PatchOf(file) /\ original' = file
    BY <1>1 DEF Window!Load, Window!TypeOK
  <2>2. patch' \in Window!Patches /\ original' \in Window!Patches \cup {Absent} BY <2>1,
    PatchFacts
  <2>3. field' \in [Window!Fields -> [over : BOOLEAN, text : RowTexts]] BY <1>1, <2>2,
    FieldFacts DEF Window!Load
  <2>4. autoSaved' \in BOOLEAN \cup {None} /\ autoPending' \in BOOLEAN BY <1>1 DEF Window!Load,
    Window!TypeOK
  <2> QED BY <1>1, <2>2, <2>3, <2>4 DEF Window!Load, Window!TypeOK, EditorTypes
<1>2. CASE Window!Close BY <1>2 DEF Window!Close, Window!TypeOK, EditorTypes
<1>3. ASSUME NEW f \in Window!Fields, Window!Reset(f)
      PROVE  Window!TypeOK' /\ EditorTypes'
  <2>1. patch' \in Window!Patches BY <1>3, AssignedFacts DEF Window!Reset, Window!TypeOK,
    Window!Fields
  <2>2. field' \in [Window!Fields -> [over : BOOLEAN, text : RowTexts]]
    BY <1>3 DEF Window!Reset, EditorTypes, Window!Fields, RowTexts, Window!Inherited
  <2>3. blocked' \in BOOLEAN BY <1>3 DEF Window!Reset, Window!Blocks
  <2>4. changed' \subseteq {"general", "wasm", "module"} BY <1>3, OwnerFacts DEF Window!Reset,
    Window!TypeOK
  <2> QED BY <1>3, <2>1, <2>2, <2>3, <2>4 DEF Window!Reset, Window!TypeOK, EditorTypes
<1>4. ASSUME NEW f \in Window!Fields, NEW text \in Window!Texts[f], Window!Edit(f, text)
      PROVE  Window!TypeOK' /\ EditorTypes'
  <2>1. patch' \in Window!Patches
    BY <1>4, AssignedFacts DEF Window!Edit, Window!TypeOK, Window!Fields, Window!Parses,
       Window!Texts
  <2>2. field' \in [Window!Fields -> [over : BOOLEAN, text : RowTexts]]
    BY <1>4 DEF Window!Edit, EditorTypes, Window!Fields, RowTexts, Window!Texts
  <2>3. blocked' \in BOOLEAN BY <1>4 DEF Window!Edit, Window!Blocks
  <2>4. changed' \subseteq {"general", "wasm", "module"} BY <1>4, OwnerFacts DEF Window!Edit,
    Window!TypeOK
  <2>5. invalid' \subseteq Window!Fields /\ moduleErrors' = moduleErrors BY <1>4
    DEF Window!Edit, Window!TypeOK
  <2> QED BY <1>4, <2>1, <2>2, <2>3, <2>4, <2>5 DEF Window!Edit, Window!TypeOK, EditorTypes
<1>5. CASE Window!Modules
  <2>1. patch' \in Window!Patches
    <3>1. CASE Window!AddModule BY <3>1 DEF Window!AddModule, Window!ModuleDone, Window!TypeOK,
      Window!Patches
    <3>2. CASE Window!RemoveModule BY <3>2 DEF Window!RemoveModule, Window!ModuleDone,
      Window!TypeOK, Window!Patches
    <3>3. CASE Window!SelectModule BY <3>3, AssignedFacts DEF Window!SelectModule,
      Window!ModuleDone, Window!TypeOK
    <3>4. CASE Window!SetFile BY <3>4, AssignedFacts DEF Window!SetFile, Window!ModuleDone,
      Window!TypeOK
    <3>5. CASE Window!ResetFile BY <3>5, AssignedFacts DEF Window!ResetFile, Window!ModuleDone,
      Window!TypeOK
    <3>6. CASE Window!SetFileRefused BY <3>6 DEF Window!SetFileRefused, Window!TypeOK
    <3> QED BY <1>5, <3>1, <3>2, <3>3, <3>4, <3>5, <3>6 DEF Window!Modules
  <2>2. field' \in [Window!Fields -> [over : BOOLEAN, text : RowTexts]]
    <3>1. CASE Window!RemoveModule
      <4>1. Window!FieldOf("config", patch') \in [over : BOOLEAN, text : RowTexts] BY <2>1,
        FieldFacts DEF Window!Fields
      <4> QED BY <3>1, <4>1 DEF Window!RemoveModule, EditorTypes
    <3>2. CASE Window!SelectModule BY <3>2 DEF Window!SelectModule, EditorTypes, RowTexts
    <3> QED BY <1>5, <3>1, <3>2 DEF Window!Modules, Window!AddModule, Window!SetFile,
      Window!ResetFile, Window!SetFileRefused, EditorTypes
  <2>3. blocked' \in BOOLEAN
    BY <1>5 DEF Window!Modules, Window!AddModule, Window!RemoveModule, Window!SelectModule,
       Window!SetFile, Window!ResetFile, Window!SetFileRefused, Window!Blocks
  <2>4. changed' \subseteq {"general", "wasm", "module"} /\ dirty' \in BOOLEAN
        /\ invalid' \subseteq Window!Fields /\ moduleErrors' \subseteq {"file"}
        /\ UNCHANGED <<file, preference, at, asked, original, Window!update, foreign, Window!history>>
    BY <1>5 DEF Window!Modules, Window!AddModule, Window!RemoveModule, Window!SelectModule,
       Window!SetFile, Window!ResetFile, Window!SetFileRefused, Window!ModuleDone,
       Window!TypeOK
  <2> QED BY <2>1, <2>2, <2>3, <2>4 DEF Window!TypeOK, EditorTypes
<1>6. CASE Window!Apps
  <2>1. PICK value \in {None, "entry", "on"} : Window!AppEdited(value) BY <1>6 DEF Window!Apps,
    Window!AddApp, Window!SetApp, Window!RemoveApp
  <2>2. patch' \in Window!Patches BY <2>1 DEF Window!AppEdited, Window!TypeOK, Window!Patches
  <2> QED BY <2>1, <2>2 DEF Window!AppEdited, Window!TypeOK, EditorTypes
<1>7. CASE Window!ToggleUpdate BY <1>7 DEF Window!ToggleUpdate, Window!TypeOK, EditorTypes
<1>8. ASSUME NEW apply \in BOOLEAN, Window!Save(apply)
      PROVE  Window!TypeOK' /\ EditorTypes'
  <2>1. Window!UpdateChanged \in BOOLEAN BY DEF Window!UpdateChanged
  <2> QED BY <1>8, <2>1 DEF Window!Save, Window!TypeOK, EditorTypes
<1>9. CASE Window!Compare \/ Window!PersistFails \/ Window!Finish \/ Window!WriteUpdate
           \/ Window!WriteUpdateFails
  BY <1>9 DEF Window!Compare, Window!PersistFails, Window!Finish, Window!WriteUpdate,
     Window!WriteUpdateFails, Window!Requests, Window!TypeOK, EditorTypes
<1>10. CASE Window!Persist BY <1>10 DEF Window!Persist, Window!AfterConfig, Window!TypeOK,
  EditorTypes
<1>11. ASSUME NEW content \in Window!ForeignContents, Window!ForeignWrite(content)
      PROVE  Window!TypeOK' /\ EditorTypes'
  BY <1>11, PatchFacts DEF Window!ForeignWrite, Window!TypeOK, EditorTypes
<1> QED
  BY <1>1, <1>2, <1>3, <1>4, <1>5, <1>6, <1>7, <1>8, <1>9, <1>10, <1>11 DEF Window!Next,
     Window!Form, Window!Saving

\* Whichever editor wrote the draft, the rows and the buttons follow it.
LEMMA RowsStep == Window!TypeOK /\ EditorTypes /\ RowsInv /\ Window!Next => RowsInv'
<1> SUFFICES ASSUME Window!TypeOK, EditorTypes, RowsInv, Window!Next PROVE RowsInv' OBVIOUS
<1> USE DEF Window!Idle, Window!Edited, Window!Elsewhere, Window!document, Window!editors,
Window!update, Window!window, Window!history
<1>1. CASE Window!Load
  <2>1. field' = [f \in Window!Fields |-> Window!FieldOf(f, patch')] /\ moduleText' = Window!ModuleTextOf(patch')
        /\ invalid' = {} /\ moduleErrors' = {} /\ blocked' = FALSE
    BY <1>1 DEF Window!Load
  <2> QED BY <2>1 DEF RowsInv, Window!RowsTellDraft, Window!BarredForReason
<1>2. CASE at' = "off" BY <1>2 DEF RowsInv, Window!RowsTellDraft, Window!BarredForReason
<1>3. ASSUME NEW f \in Window!Fields, Window!Reset(f) PROVE RowsInv'
  <2>1. /\ patch' = Window!Assigned(f, None) /\ patch'[f] = None
        /\ \A g \in Window!Fields : g # f => patch'[g] = patch[g]
    BY <1>3, AssignedFacts DEF Window!Reset, Window!TypeOK, Window!Fields
  <2>2. /\ field'[f] = [over |-> FALSE, text |-> Window!Inherited[f]]
        /\ \A g \in Window!Fields : g # f => field'[g] = field[g]
        /\ invalid' = invalid \ {f} /\ at # "off"
    BY <1>3 DEF Window!Reset, EditorTypes
  <2>3. \A g \in Window!Fields \ invalid' : field'[g] = Window!FieldOf(g, patch')
    BY <2>1, <2>2 DEF Window!FieldOf, RowsInv, Window!RowsTellDraft
  <2>4. moduleText' = Window!ModuleTextOf(patch') BY <1>3 DEF Window!Reset
  <2>5. blocked' <=> invalid' # {} \/ moduleErrors' # {} BY <1>3 DEF Window!Reset, Window!Blocks
  <2> QED BY <2>3, <2>4, <2>5 DEF RowsInv, Window!RowsTellDraft, Window!BarredForReason
<1>4. ASSUME NEW f \in Window!Fields, NEW text \in Window!Texts[f], Window!Edit(f, text)
      PROVE  RowsInv'
  <2>1. at # "off" /\ (blocked' <=> invalid' # {} \/ moduleErrors' # {}) /\ moduleErrors' = moduleErrors
    BY <1>4 DEF Window!Edit, Window!Blocks
  <2>2. field'[f] = [over |-> TRUE, text |-> text] /\ \A g \in Window!Fields : g # f => field'[g] = field[g]
    BY <1>4 DEF Window!Edit, EditorTypes
  <2>3. CASE Window!Parses(f, text)
    <3>1. text \in {"m", "n", "good", "odd"} /\ text # None
      BY <2>3, SettingsConstants DEF Window!Parses, Window!Texts, Window!Fields,
         Window!WindowAssumption, SettingsAssumption
    <3>2. /\ patch'[f] = text /\ \A g \in Window!Fields : g # f => patch'[g] = patch[g]
          /\ moduleText' = Window!ModuleTextOf(patch') /\ invalid' = invalid \ {f}
      BY <1>4, <2>3, AssignedFacts DEF Window!Edit, Window!TypeOK, Window!Fields,
         Window!Parses, Window!Texts
    <3>3. \A g \in Window!Fields \ invalid' : field'[g] = Window!FieldOf(g, patch')
      BY <2>1, <2>2, <3>1, <3>2 DEF Window!FieldOf, RowsInv, Window!RowsTellDraft
    <3> QED BY <2>1, <3>2, <3>3 DEF RowsInv, Window!RowsTellDraft, Window!BarredForReason
  <2>4. CASE ~Window!Parses(f, text)
    <3>1. invalid' = invalid \cup {f} /\ patch' = patch /\ moduleText' = moduleText
      BY <1>4, <2>4 DEF Window!Edit
    <3> QED BY <2>1, <2>2, <3>1 DEF RowsInv, Window!RowsTellDraft, Window!BarredForReason
  <2> QED BY <2>3, <2>4
<1>5. CASE Window!AddModule \/ Window!SetFile \/ Window!ResetFile
  <2>1. at # "off" /\ UNCHANGED <<field, invalid>> /\ moduleText' = Window!ModuleTextOf(patch')
        /\ (blocked' <=> invalid' # {} \/ moduleErrors' # {})
    BY <1>5 DEF Window!AddModule, Window!SetFile, Window!ResetFile, Window!ModuleDone,
       Window!Blocks
  <2>2. \A g \in Window!Fields : patch'[g] = patch[g]
    <3>1. CASE Window!AddModule BY <3>1 DEF Window!AddModule, Window!ModuleDone, Window!TypeOK,
      Window!Patches, Window!Fields
    <3>2. CASE Window!SetFile BY <3>2, AssignedFacts DEF Window!SetFile, Window!ModuleDone,
      Window!TypeOK, Window!Fields
    <3>3. CASE Window!ResetFile BY <3>3, AssignedFacts DEF Window!ResetFile, Window!ModuleDone,
      Window!TypeOK, Window!Fields
    <3> QED BY <1>5, <3>1, <3>2, <3>3
  <2> QED BY <2>1, <2>2 DEF RowsInv, Window!RowsTellDraft, Window!BarredForReason,
    Window!FieldOf
<1>6. CASE Window!RemoveModule
  <2>1. at # "off" /\ moduleText' = Window!ModuleTextOf(patch')
        /\ (blocked' <=> invalid' # {} \/ moduleErrors' # {})
        /\ invalid' = invalid \ {"config"}
    BY <1>6 DEF Window!RemoveModule, Window!ModuleDone, Window!Blocks
  <2>2. patch'["theme"] = patch["theme"] BY <1>6 DEF Window!RemoveModule, Window!ModuleDone,
    Window!TypeOK, Window!Patches
  <2>3. field'["config"] = Window!FieldOf("config", patch') /\ field'["theme"] = field["theme"]
    BY <1>6 DEF Window!RemoveModule, EditorTypes, Window!Fields
  <2> QED BY <2>1, <2>2, <2>3 DEF RowsInv, Window!RowsTellDraft, Window!BarredForReason,
    Window!FieldOf, Window!Fields
<1>7. CASE Window!SelectModule
  <2>1. at # "off" /\ moduleText' = Window!ModuleTextOf(patch') /\ invalid' = invalid
        /\ (blocked' <=> invalid' # {} \/ moduleErrors' # {})
    BY <1>7 DEF Window!SelectModule, Window!ModuleDone, Window!Blocks
  <2>2. patch'["theme"] = "m" /\ patch'["config"] = patch["config"]
    BY <1>7, AssignedFacts DEF Window!SelectModule, Window!ModuleDone, Window!TypeOK
  <2>3. field'["theme"] = [over |-> TRUE, text |-> "m"] /\ field'["config"] = field["config"]
    BY <1>7 DEF Window!SelectModule, EditorTypes, Window!Fields
  <2>4. None # "m" BY SettingsConstants DEF Window!WindowAssumption, SettingsAssumption
  <2>5. field'["theme"] = Window!FieldOf("theme", patch') BY <2>2, <2>3, <2>4 DEF Window!FieldOf
  <2>6. Window!FieldOf("config", patch') = Window!FieldOf("config", patch) BY <2>2
    DEF Window!FieldOf
  <2>7. \A g \in Window!Fields \ invalid' : field'[g] = Window!FieldOf(g, patch')
    BY <2>1, <2>3, <2>5, <2>6 DEF RowsInv, Window!RowsTellDraft, Window!Fields
  <2> QED BY <2>1, <2>7 DEF RowsInv, Window!RowsTellDraft, Window!BarredForReason
<1>8. CASE Window!SetFileRefused
  BY <1>8 DEF Window!SetFileRefused, RowsInv, Window!RowsTellDraft, Window!BarredForReason
<1>9. CASE Window!Apps
  <2>1. PICK value \in {None, "entry", "on"} : Window!AppEdited(value) BY <1>9 DEF Window!Apps,
    Window!AddApp, Window!SetApp, Window!RemoveApp
  <2>2. /\ at # "off" /\ UNCHANGED <<field, moduleText, invalid, moduleErrors, blocked>>
        /\ patch'.theme = patch.theme /\ patch'.config = patch.config /\ patch'.file = patch.file
    BY <2>1 DEF Window!AppEdited, Window!TypeOK, Window!Patches
  <2>3. \A g \in Window!Fields : patch'[g] = patch[g] BY <2>2 DEF Window!Fields
  <2>4. \A g \in Window!Fields : Window!FieldOf(g, patch') = Window!FieldOf(g, patch) BY <2>3 DEF Window!FieldOf
  <2>5. Window!ModuleTextOf(patch') = Window!ModuleTextOf(patch) BY <2>2 DEF Window!ModuleTextOf
  <2> QED BY <2>2, <2>4, <2>5 DEF RowsInv, Window!RowsTellDraft, Window!BarredForReason
<1>10. CASE (at # "off"
            \/ at' = at) /\ UNCHANGED <<patch, field, moduleText, invalid, moduleErrors, blocked>>
  BY <1>10 DEF RowsInv, Window!RowsTellDraft, Window!BarredForReason
<1>11. Window!Load \/ at' = "off" \/ Window!Form \/ Window!Modules \/ Window!Apps
       \/ ((at # "off" \/ at' = at) /\ UNCHANGED <<patch, field, moduleText, invalid, moduleErrors, blocked>>)
  BY DEF Window!Next, Window!Close, Window!Saving, Window!ToggleUpdate, Window!Save,
     Window!Compare, Window!Persist, Window!PersistFails, Window!WriteUpdate,
     Window!WriteUpdateFails,
         Window!Finish, Window!ForeignWrite
<1> QED
  BY <1>1, <1>2, <1>3, <1>4, <1>5, <1>6, <1>7, <1>8, <1>9, <1>10, <1>11 DEF Window!Form,
     Window!Modules

\* Whatever an edit or a part of a save did, the window knows what is unsaved.
LEMMA DraftStep ==
  Window!TypeOK /\ EditorTypes /\ Window!OddIsOld /\ DraftInv /\ SaveInv /\ Window!Next
    => Window!OddIsOld' /\ DraftInv' /\ SaveInv'
<1> SUFFICES ASSUME Window!TypeOK, EditorTypes, Window!OddIsOld, DraftInv, SaveInv, Window!Next
             PROVE  Window!OddIsOld' /\ DraftInv' /\ SaveInv'
  OBVIOUS
<1> USE DEF Window!Idle, Window!Edited, Window!Elsewhere, Window!document, Window!editors,
Window!update, Window!window, Window!history
<1>1. CASE Window!Load
  <2>1. file \in Window!Patches \cup {Absent} /\ patch' = Window!PatchOf(file) /\ original' = file
    BY <1>1 DEF Window!Load, Window!TypeOK
  <2>2. changed' = {} /\ dirty' = FALSE /\ at' = "idle" BY <1>1 DEF Window!Load
  <2>3. ~Window!UpdateChanged' BY <1>1 DEF Window!Load, Window!UpdateChanged, Window!TypeOK
  <2> QED BY <2>1, <2>2, <2>3 DEF Window!OddIsOld, DraftInv, SaveInv
<1>2. CASE Window!Close
  BY <1>2 DEF Window!Close, Window!OddIsOld, DraftInv, SaveInv, Window!UpdateChanged
<1>3. ASSUME at = "idle", at' = "idle", changed' # {}, dirty' = TRUE, original' = original,
             patch'.config = "odd" /\ "module" \notin changed' =>
               patch.config = "odd" /\ "module" \notin changed
      PROVE  Window!OddIsOld' /\ DraftInv' /\ SaveInv'
  BY <1>3 DEF Window!OddIsOld, DraftInv, SaveInv
<1>4. ASSUME NEW f \in Window!Fields, Window!Reset(f)
      PROVE  Window!OddIsOld' /\ DraftInv' /\ SaveInv'
  <2>1. patch' = Window!Assigned(f, None) /\ (f # "config" => patch'.config = patch.config)
    BY <1>4, AssignedFacts DEF Window!Reset, Window!TypeOK, Window!Fields
  <2>2. at = "idle" /\ at' = "idle" /\ changed' = changed \cup {Window!Owner[f]} /\ dirty' = TRUE
        /\ original' = original
    BY <1>4 DEF Window!Reset
  <2> QED BY <1>3, <2>1, <2>2, OwnerFacts
<1>5. ASSUME NEW f \in Window!Fields, NEW text \in Window!Texts[f], Window!Edit(f, text)
      PROVE  Window!OddIsOld' /\ DraftInv' /\ SaveInv'
  <2>1. patch' = patch \/ (patch' = Window!Assigned(f, text) /\ Window!Parses(f, text)) BY <1>5 DEF Window!Edit
  <2>2. f # "config" => patch'.config = patch.config
    BY <2>1, AssignedFacts DEF Window!TypeOK, Window!Fields, Window!Parses, Window!Texts
  <2>3. at = "idle" /\ at' = "idle" /\ changed' = changed \cup {Window!Owner[f]} /\ dirty' = TRUE
        /\ original' = original
    BY <1>5 DEF Window!Edit
  <2> QED BY <1>3, <2>2, <2>3, OwnerFacts
<1>6. CASE Window!Modules /\ ~Window!SetFileRefused
  <2>1. patch'.config \in {patch.config, None}
    <3>1. CASE Window!AddModule BY <3>1 DEF Window!AddModule, Window!ModuleDone, Window!TypeOK,
      Window!Patches
    <3>2. CASE Window!RemoveModule BY <3>2 DEF Window!RemoveModule, Window!ModuleDone,
      Window!TypeOK, Window!Patches
    <3>3. CASE Window!SelectModule BY <3>3, AssignedFacts DEF Window!SelectModule,
      Window!ModuleDone, Window!TypeOK
    <3>4. CASE Window!SetFile BY <3>4, AssignedFacts DEF Window!SetFile, Window!ModuleDone,
      Window!TypeOK
    <3>5. CASE Window!ResetFile BY <3>5, AssignedFacts DEF Window!ResetFile, Window!ModuleDone,
      Window!TypeOK
    <3> QED BY <1>6, <3>1, <3>2, <3>3, <3>4, <3>5 DEF Window!Modules
  <2>2. at = "idle" /\ at' = "idle" /\ changed' = changed \cup {"general"} /\ dirty' = TRUE
        /\ original' = original
    BY <1>6 DEF Window!Modules, Window!AddModule, Window!RemoveModule, Window!SelectModule,
       Window!SetFile, Window!ResetFile, Window!ModuleDone
  <2>3. None # "odd" BY SettingsConstants DEF Window!WindowAssumption, SettingsAssumption
  <2> QED BY <1>3, <2>1, <2>2, <2>3
<1>7. CASE Window!SetFileRefused
  BY <1>7 DEF Window!SetFileRefused, Window!OddIsOld, DraftInv, SaveInv, Window!UpdateChanged
<1>8. CASE Window!Apps
  <2>1. PICK value \in {None, "entry", "on"} : Window!AppEdited(value) BY <1>8 DEF Window!Apps,
    Window!AddApp, Window!SetApp, Window!RemoveApp
  <2>2. patch'.config = patch.config BY <2>1 DEF Window!AppEdited, Window!TypeOK, Window!Patches
  <2>3. at = "idle" /\ at' = "idle" /\ changed' = changed \cup {"general"} /\ dirty' = TRUE
        /\ original' = original
    BY <2>1 DEF Window!AppEdited
  <2> QED BY <1>3, <2>2, <2>3
<1>9. CASE Window!ToggleUpdate
  <2>1. ~dirty' => changed' = {} /\ ~Window!UpdateChanged' BY <1>9 DEF Window!ToggleUpdate,
    Window!UpdateChanged, Window!TypeOK
  <2> QED BY <1>9, <2>1 DEF Window!ToggleUpdate, Window!OddIsOld, DraftInv, SaveInv
<1>10. ASSUME NEW apply \in BOOLEAN, Window!Save(apply)
      PROVE  Window!OddIsOld' /\ DraftInv' /\ SaveInv'
  <2>1. Window!UpdateChanged' = Window!UpdateChanged /\ asked'.update = Window!UpdateChanged
        /\ UNCHANGED <<patch, original, changed, dirty>>
    BY <1>10 DEF Window!Save, Window!UpdateChanged
  <2>2. \A s \in changed' : Window!Valid(s)' BY <1>10 DEF Window!Save, Window!Valid
  <2>3. /\ at' \in {"compare", "update", "finish"} /\ at # "off"
        /\ at' # "compare" => changed' = {}
        /\ at' = "finish" => ~Window!UpdateChanged
    BY <1>10 DEF Window!Save
  <2>4. Window!OddIsOld' BY <2>1 DEF Window!OddIsOld
  <2>5. DraftInv' BY <2>1, <2>3 DEF DraftInv
  <2> QED BY <2>1, <2>2, <2>3, <2>4, <2>5 DEF SaveInv
<1>11. CASE Window!Compare
  BY <1>11 DEF Window!Compare, Window!OddIsOld, DraftInv, SaveInv, Window!UpdateChanged,
     Window!Valid
<1>12. CASE Window!Persist
  <2>1. patch' = patch /\ original' = patch /\ changed' = {} /\ Window!PatchOf(patch) = patch
    BY <1>12, PatchFacts DEF Window!Persist, Window!TypeOK
  <2>2. at' = Window!AfterConfig /\ Window!UpdateChanged' = Window!UpdateChanged /\ dirty' = dirty /\ at = "persist"
    BY <1>12 DEF Window!Persist, Window!UpdateChanged
  <2>3. at' \in {"update", "finish"} /\ (at' = "finish" => ~Window!UpdateChanged)
    BY <2>2 DEF Window!AfterConfig, SaveInv
  <2> QED BY <2>1, <2>2, <2>3 DEF Window!OddIsOld, DraftInv, SaveInv
<1>13. CASE Window!PersistFails \/ Window!WriteUpdateFails
  BY <1>13 DEF Window!PersistFails, Window!WriteUpdateFails, Window!OddIsOld, DraftInv,
     SaveInv, Window!UpdateChanged
<1>14. CASE Window!WriteUpdate
  BY <1>14 DEF Window!WriteUpdate, Window!OddIsOld, DraftInv, SaveInv, Window!UpdateChanged
<1>15. CASE Window!Finish
  BY <1>15 DEF Window!Finish, Window!OddIsOld, DraftInv, SaveInv, Window!UpdateChanged
<1>16. ASSUME NEW content \in Window!ForeignContents, Window!ForeignWrite(content)
       PROVE  Window!OddIsOld' /\ DraftInv' /\ SaveInv'
  <2>1. UNCHANGED <<patch, original, changed, dirty, at, asked>> /\ Window!UpdateChanged' = Window!UpdateChanged
    BY <1>16 DEF Window!ForeignWrite, Window!UpdateChanged
  <2>2. at = "persist" => overtaken' BY <1>16 DEF Window!ForeignWrite
  <2>3. \A s \in changed : Window!Valid(s)' = Window!Valid(s) BY <2>1 DEF Window!Valid
  <2> QED BY <2>1, <2>2, <2>3 DEF Window!OddIsOld, DraftInv, SaveInv
<1> QED
  BY <1>1, <1>2, <1>4, <1>5, <1>6, <1>7, <1>8, <1>9, <1>10, <1>11, <1>12, <1>13, <1>14, <1>15,
     <1>16
  DEF Window!Next, Window!Form, Window!Saving, Window!Modules

\* The window starts with nothing read.
LEMMA WindowInit == Window!Init => WindowInv
<1> SUFFICES ASSUME Window!Init PROVE WindowInv OBVIOUS
<1>1. Window!NoPatch \in Window!Patches BY PatchFacts
<1>2. field \in [Window!Fields -> [over : BOOLEAN, text : RowTexts]]
  BY <1>1, FieldFacts DEF Window!Init
<1>3. Window!TypeOK BY <1>1 DEF Window!Init, Window!TypeOK
<1>4. EditorTypes BY <1>2 DEF Window!Init, EditorTypes
<1> QED BY <1>3, <1>4 DEF Window!Init, WindowInv, RowsInv, Window!RowsTellDraft,
  Window!BarredForReason, Window!OddIsOld,
        DraftInv, SaveInv, Window!PatchOf

\* Every step of the window keeps its invariant.
LEMMA WindowStep == WindowInv /\ [Window!Next]_Window!vars => WindowInv'
<1>1. CASE UNCHANGED Window!vars
  BY <1>1 DEF Window!vars, Window!document, Window!editors, Window!update, Window!window,
     Window!history, WindowInv, Window!TypeOK, EditorTypes, RowsInv,
     Window!RowsTellDraft, Window!BarredForReason, Window!OddIsOld, DraftInv, SaveInv,
     Window!UpdateChanged, Window!Valid
<1>2. CASE Window!Next BY <1>2, TypeStep, RowsStep, DraftStep DEF WindowInv
<1> QED BY <1>1, <1>2

\* The invariant says what SettingsWindow.Inv asks.
LEMMA WindowSafe == WindowInv => Window!Inv
BY DEF WindowInv, Window!Inv, RowsInv, Window!CleanIsSaved, DraftInv, Window!Idle

\* What the invariant says of the last steps of a save.
LEMMA WindowActions ==
  WindowInv =>
    /\ Window!Persist => file = original \/ overtaken
    /\ Window!Persist /\ patch.config = "odd" => Window!PatchOf(original).config = "odd"
    /\ Window!Finish /\ asked.apply /\ (asked.update => asked.config) => ~unapplied'
<1> SUFFICES ASSUME WindowInv
             PROVE  /\ Window!Persist => file = original \/ overtaken
                    /\ Window!Persist /\ patch.config = "odd" => Window!PatchOf(original).config = "odd"
                    /\ Window!Finish /\ asked.apply /\ (asked.update => asked.config) => ~unapplied'
  OBVIOUS
<1>1. Window!Persist => file = original \/ overtaken BY DEF WindowInv, SaveInv, Window!Persist
<1>2. Window!Persist /\ patch.config = "odd" => Window!PatchOf(original).config = "odd"
  BY DEF WindowInv, SaveInv, Window!Persist, Window!OddIsOld, Window!Valid
<1>3. Window!Finish /\ asked.apply /\ (asked.update => asked.config) => ~unapplied'
  BY DEF Window!Finish, Window!Requests
<1> QED BY <1>1, <1>2, <1>3


-----------------------------------------------------------------------------
(* Both.                                                                   *)

SettingsStrengthened == ServiceInv /\ WindowInv

\* Both programs start in their invariants.
LEMMA SettingsStart == SettingsInit => SettingsStrengthened
BY ServiceInit, WindowInit DEF SettingsInit, SettingsStrengthened

settings == <<serviceVars, windowVars>>

\* A step is one of the service or of the window, and leaves the other alone.
LEMMA OneSteps ==
  [SettingsNext]_settings => [Service!Next]_Service!vars /\ [Window!Next]_Window!vars
BY DEF SettingsNext, settings, serviceVars, windowVars, Service!vars, Service!files,
       Service!semaphore, Service!notices, Window!vars, Window!document, Window!editors,
       Window!update, Window!window, Window!history

\* So both invariants are kept.
LEMMA SettingsStep == SettingsStrengthened /\ [SettingsNext]_settings => SettingsStrengthened'
BY OneSteps, ServiceStep, WindowStep DEF SettingsStrengthened

\* In every behaviour both hold.
LEMMA SettingsStrong == SettingsSpec => []SettingsStrengthened
BY SettingsStart, SettingsStep, PTL DEF SettingsSpec, settings

\* With any number of clients, one operation at a time is on the disk and the permit is
\* neither lost nor doubled, whatever clients leave and whenever the service stops; one
\* life of the flag shows one notification; a running renderer has the published
\* settings (settings_rpc.rs, notifications.rs).  After any number of edits and saves
\* and after whatever failed, the window's rows show its draft and a window that is not
\* dirty has nothing unsaved (main.rs, form.rs).
THEOREM SettingsInvariant == SettingsSpec => []SettingsInv
<1>1. SettingsStrengthened => SettingsInv
  BY ServiceSafe, WindowSafe DEF SettingsStrengthened, SettingsInv
<1> QED BY SettingsStrong, <1>1, PTL

\* No save replaces what another program wrote before the comparison, or writes a value
\* that breaks its schema and was not in the file; and a save that applies leaves
\* nothing saved that waits for a restart (Document::save, on_save).
THEOREM SavesStayHonest == SettingsSpec => SavesAreHonest
<1>1. SettingsStrengthened /\ [SettingsNext]_settings =>
        /\ [Window!Persist => file = original \/ overtaken]_Window!vars
        /\ [Window!Persist /\ patch.config = "odd" => Window!PatchOf(original).config = "odd"]_Window!vars
        /\ [Window!Finish /\ asked.apply /\ (asked.update => asked.config) => ~unapplied']_Window!vars
  BY WindowActions DEF SettingsStrengthened
<1> QED
  BY SettingsStrong, <1>1, PTL
  DEF SettingsSpec, settings, SavesAreHonest, Window!ForeignSurvives, Window!OddIsNotWritten,
      Window!ApplyAsks
=============================================================================
