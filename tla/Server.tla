------------------------------- MODULE Server -------------------------------
(***************************************************************************)
(* Four parts of the server that share no state: the engine's thread, the  *)
(* admission of connections, the deployment process (the server started    *)
(* with --deploy-ui), and one connection of the RPC with both its ends.    *)
(* A behaviour is one of one part; the others stay in their initial        *)
(* states.                                                                 *)
(***************************************************************************)
EXTENDS Naturals, Sequences, FiniteSets

CONSTANTS
  \* EngineWorker
  Mailbox, MaxMessages, MaxChanges,
  \* Admission
  Conns, Slots, PendingLimit, EngineLimit, Priorities, MaxFrames,
  \* Deploy
  MaxOutput, Preview, LogQueue, DeployFaults,
  \* RpcCall
  Calls, MaxPending, OutQueue, InQueue, Pipe, MaxEvents, RpcFaults

VARIABLES
  part,   \* which part the behaviour is of
  \* EngineWorker
  mailbox, layout, alive, preedit, stop, ready, owed, unparked, at, parks, sawPreedit,
  known, external, messages, changes,
  \* Admission
  phase, closed, inbox, opened, requests, writes, retired, last, registered, priority,
  clock, free, queue, granted, woken, reclaimed, plan, active, pending, work, engine,
  \* Deploy
  main, kind, guard, worker, runs, produced, mail, waking, posted, text, finished, dialog,
  logs, slot, shut, writer, token, told, wire, stalled, faults,
  \* RpcCall
  instance, call, answer, waiting, ended, reads, writing, outq, pipe, inq, business, stream,
  dispatched, events, failures

Engine == INSTANCE EngineWorker WITH QueueLimit <- Mailbox, queue <- mailbox, token <- unparked
Gate == INSTANCE Admission WITH QueueLimit <- EngineLimit
Window == INSTANCE Deploy WITH MaxFaults <- DeployFaults, closed <- shut
Rpc == INSTANCE RpcCall WITH
  MaxFaults <- RpcFaults, slot <- answer, pending <- waiting, closed <- ended, reader <- reads,
  writer <- writing, work <- business, faults <- failures

\* What is assumed of the constants.
ConstantsAssumption ==
  /\ Engine!ConstantsAssumption /\ Gate!ConstantsAssumption
  /\ Window!DeployAssumption /\ Rpc!RpcCallAssumption

ASSUME ConstantsAreRight == ConstantsAssumption

engineVars == <<mailbox, layout, alive, preedit, stop, ready, owed, unparked, at, parks,
                sawPreedit, known, external, messages, changes>>
gateVars == <<phase, closed, inbox, opened, requests, writes, retired, last, registered,
              priority, clock, free, queue, granted, woken, reclaimed, plan, active, pending,
              work, engine>>
windowVars == <<main, kind, guard, worker, runs, produced, mail, waking, posted, text,
                finished, dialog, logs, slot, shut, writer, token, told, wire, stalled, faults>>
rpcVars == <<instance, call, answer, waiting, ended, reads, writing, outq, pipe, inq, business,
             stream, dispatched, events, failures>>
vars == <<part, engineVars, gateVars, windowVars, rpcVars>>

Init ==
  /\ part \in {"engine", "gate", "window", "rpc"}
  /\ Engine!Init /\ Gate!Init /\ Window!Init /\ Rpc!Init

Next ==
  \/ part = "engine" /\ Engine!Next /\ UNCHANGED <<part, gateVars, windowVars, rpcVars>>
  \/ part = "gate" /\ Gate!Next /\ UNCHANGED <<part, engineVars, windowVars, rpcVars>>
  \/ part = "window" /\ Window!Next /\ UNCHANGED <<part, engineVars, gateVars, rpcVars>>
  \/ part = "rpc" /\ Rpc!Next /\ UNCHANGED <<part, engineVars, gateVars, windowVars>>

Spec == Init /\ [][Next]_vars

-----------------------------------------------------------------------------
\* The engine's thread never sleeps over a fact another task stored; the deployment
\* runs once, shows the end of its log, and tells its result once, last and when the
\* next may begin; nobody waits on an RPC connection whose tasks are gone, places are
\* given back, and streams and errors come in their order (EngineWorker.Inv,
\* Deploy.Inv, RpcCall.Inv).
ServerInv == Engine!Inv /\ Window!Inv /\ Rpc!Inv
=============================================================================
