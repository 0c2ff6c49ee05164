------------------------------ MODULE MCServer ------------------------------
(***************************************************************************)
(* Server for TLC, with the fairness of each part for the behaviours that  *)
(* are of it, and what each part comes to in the end.                      *)
(***************************************************************************)
EXTENDS Server

EngineFairness ==
  /\ WF_engineVars(part = "engine" /\ Engine!Thread)
  /\ WF_engineVars(part = "engine" /\ Engine!StoreStop)
  /\ WF_engineVars(part = "engine" /\ \E t \in Engine!Tasks : Engine!Unpark(t))
GateFairness ==
  /\ \A c \in Conns :
       /\ WF_gateVars(part = "gate" /\ Gate!Task(c))
       /\ WF_gateVars(part = "gate" /\ Gate!Written(c))
       /\ WF_gateVars(part = "gate" /\ retired[c] /\ Gate!Close(c))
  /\ WF_gateVars(part = "gate" /\ Gate!EngineApplies)
  /\ WF_gateVars(part = "gate" /\ Gate!EngineFinishes)
WindowFairness ==
  /\ WF_windowVars(part = "window" /\ Window!WorkerNext)
  /\ WF_windowVars(part = "window" /\ Window!WriterNext)
  /\ WF_windowVars(part = "window" /\ Window!MainSteps)
RpcFairness ==
  /\ \A s \in Rpc!Sides :
       /\ WF_rpcVars(part = "rpc" /\ Rpc!ReaderRuns(s))
       /\ WF_rpcVars(part = "rpc" /\ Rpc!WriterRuns(s))
  /\ \A c \in Calls : WF_rpcVars(part = "rpc" /\ Rpc!CallRuns(c))
  /\ WF_rpcVars(part = "rpc" /\ Rpc!Receive)
  /\ WF_rpcVars(part = "rpc" /\ Rpc!Reply)
  /\ WF_rpcVars(part = "rpc" /\ Rpc!ListenerRuns)

FairSpec == Spec /\ EngineFairness /\ GateFairness /\ WindowFairness /\ RpcFairness

-----------------------------------------------------------------------------
\* The engine sees to every stored fact: a lost capability, a request to stop, a
\* client that is gone (Engine::idle, Worker::run).
FactsAreSeen == part = "engine" => Engine!FactsAreSeen

\* A promotion ends without its deadline, because connections that fall silent
\* are reclaimed (Admission::promote).
PromotionEnds == part = "gate" => Gate!PromotionEnds

\* The result of a deployment arrives in the window, at the dialog's button and at
\* the broker (deploy_ui.rs, deploy_telemetry.rs).
OutcomeArrives == part = "window" => Window!OutcomeArrives

\* A connection ends on both sides, its requests end without their deadlines, and a
\* client that got the instance is served (RpcServer::accept).
EverythingEnds == part = "rpc" => Rpc!EverythingEnds
=============================================================================
