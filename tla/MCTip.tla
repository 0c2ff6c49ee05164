------------------------------- MODULE MCTip -------------------------------
(***************************************************************************)
(* Three parts of the text service that are modelled apart, checked in one *)
(* run: the gate between its two threads, the contexts and their replies,  *)
(* and the edit sessions of one document.  A behaviour is one of one part; *)
(* the others stay in their initial states.                                *)
(***************************************************************************)
EXTENDS PushTarget, Sequences

CONSTANTS
  c1, c2,   \* contexts
  d1,       \* the document of the edit sessions
  NoTask

VARIABLES
  part,   \* which part the behaviour is of
  \* TipRpc
  live, cut, lost, inbox, commands, job, conn, up, subscribed, stream, opened, request,
  answer, session, focused, alive, suspended, remembered, generation, route, edits, text,
  ask, tested, press, dials, asks, moves, pushes, sent, applied, abandoned, passed,
  \* EditScheduler
  ctx, tasks, inflight, stale, wake, faulted, era, published, engine, revision, document,
  barrier, hosted, refusals

Worker == INSTANCE TipRpc WITH
  Contexts <- {c1, c2}, CommandLimit <- 2, UpdateLimit <- 2, MaxAsks <- 1, MaxMoves <- 2,
  MaxConnections <- 1, MaxPushes <- 0,
  failed <- lost, updates <- inbox, host <- text, connections <- dials
Edits == INSTANCE EditScheduler WITH
  Contexts <- {d1}, QueueLimit <- 3, MaxRevision <- 2, MaxEpoch <- 2, MaxHost <- 2,
  MaxFaults <- 1, queue <- tasks, stream <- published, faults <- refusals, epoch <- era

ASSUME ConstantsAreRight ==
  Worker!ConstantsAssumption /\ Edits!EditSchedulerAssumption

tipVars == <<live, cut, lost, inbox, commands, job, conn, up, subscribed, stream, opened,
             request, answer, session, focused, alive, suspended, remembered, generation, route,
             edits, text, ask, tested, press, dials, asks, moves, pushes, sent, applied,
             abandoned, passed>>
editVars == <<ctx, tasks, inflight, stale, wake, faulted, era, published, engine, revision,
              document, barrier, hosted, refusals>>
allVars == <<part, vars, tipVars, editVars>>

\* A remembered mode, or what the last read was of, is of no account to another part.
TipInit ==
  /\ part \in {"gate", "worker", "edits"}
  /\ Init /\ Worker!Init /\ Edits!Init
  /\ part # "worker" => ~remembered
  /\ part # "gate" => read.context = c1

TipNext ==
  \/ part = "gate" /\ Next /\ UNCHANGED <<part, tipVars, editVars>>
  \/ part = "worker" /\ Worker!Next /\ UNCHANGED <<part, vars, editVars>>
  \/ part = "edits" /\ Edits!Next /\ UNCHANGED <<part, vars, tipVars>>

TipSpec == TipInit /\ [][TipNext]_allVars

-----------------------------------------------------------------------------
\* While two contexts gain and lose the focus, are cancelled and removed, no live
\* reply is lost, replies change the text in their order, and worker and engine
\* agree on the open sessions (ResponseRoute, Connection::opened).  Each commit is
\* written once and in order, never beside its raw keys, sessions find what they
\* change, and a quiet document shows what the engine has (composition.rs,
\* edit_session.rs).
TipInv == Worker!RepliesAreRouted /\ Edits!Inv

\* A commit asked for before the host intervened is not written after
\* (PendingEdit::matches).
HostWins == Edits!HostWins
=============================================================================
