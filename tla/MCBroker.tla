------------------------------ MODULE MCBroker ------------------------------
(***************************************************************************)
(* Three parts around the broker, checked in one run: its supervision of   *)
(* the server and the renderer (Supervisor, extended here), its service    *)
(* for settings and notifications, and the settings window.  A behaviour   *)
(* is of one part; the others stay in their initial states.  What joins    *)
(* them is in the parts: the service's restart is the worker's Reload, and *)
(* the window's file is one of the service's layers.                       *)
(***************************************************************************)
EXTENDS Supervisor, BrokerSettings

CONSTANTS a, b

VARIABLE part   \* which part the behaviour is of

allVars == <<part, vars, serviceVars, windowVars>>

BrokerInit ==
  /\ part \in {"supervisor", "service", "window"}
  /\ Init /\ SettingsInit
  \* One initial state of the parts the behaviour is not of.
  /\ part # "supervisor" => \A p \in Pids : life[p] = "gone"
  /\ part # "service" => \A l \in Service!Layers : disk[l] = 1
  /\ part # "window" => preference

BrokerNext ==
  \/ part = "supervisor" /\ Next /\ UNCHANGED <<part, serviceVars, windowVars>>
  \/ part = "service" /\ Service!Next /\ UNCHANGED <<part, vars, windowVars>>
  \/ part = "window" /\ Window!Next /\ UNCHANGED <<part, vars, serviceVars>>

\* The fairness of the supervision, for the behaviours that are of it.
SupervisorFairness ==
  /\ WF_vars(part = "supervisor" /\ MonitorNext)
  /\ WF_vars(part = "supervisor" /\ WorkerNext)
  /\ WF_vars(part = "supervisor" /\ MainNext)
  /\ WF_vars(part = "supervisor" /\ \E p \in Pids : TakeLock(p) \/ Leave(p) \/ DeployerEnds(p))
  /\ WF_vars(part = "supervisor" /\ \E c \in Components : Tick(c))

BrokerSpec == BrokerInit /\ [][BrokerNext]_allVars /\ SupervisorFairness

-----------------------------------------------------------------------------
\* The broker recovers and leaves: its services come back after whatever failed,
\* and an exit that was asked for gets through (Supervisor.Recovers).
BrokerRecovers == part = "supervisor" => Recovers
=============================================================================
