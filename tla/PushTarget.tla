---------------------------- MODULE PushTarget ----------------------------
(***************************************************************************)
(* The state the TIP's RPC thread and the host's COM thread share           *)
(* (tip/src/rpc_worker.rs, struct PushTarget): a gate made of three atomic  *)
(* words that says which connection, if any, replies may still be taken     *)
(* from, the queue of replies the server pushed, and the failure flags.     *)
(*                                                                         *)
(* Every atomic load and store is a step of its own, because the two        *)
(* threads interleave between any two of them.  The worker task and the     *)
(* subscription task share one runtime thread, so that thread has a single  *)
(* program counter: a task is left only at an await.                        *)
(***************************************************************************)
EXTENDS Naturals, FiniteSets

CONSTANTS
    Contexts,         \* input contexts of the host application
    EpochSpace,       \* epochs are counted modulo this (2^64 in the code)
    QueueLimit,       \* replies the queue holds (64 in the code)
    MaxCancellations, \* bound: invalidations explored
    MaxConnections,   \* bound: handshakes that reach the epoch allocator
    MaxReplies        \* bound: replies the server broadcasts

ASSUME ConstantsAssumption ==
    /\ EpochSpace \in Nat /\ EpochSpace > 1
    /\ QueueLimit \in Nat /\ QueueLimit > 0
    /\ MaxCancellations \in Nat
    /\ MaxConnections \in Nat
    /\ MaxReplies \in Nat

VARIABLES
    cancellation,         \* counts invalidations
    epoch,                \* published epoch, 0 for none
    connectionGeneration, \* cancellation captured before the handshake
    connectionFailed,     \* the connection is unusable for now
    failed,               \* pushes were lost: no more keys until a restart
    updates,              \* replies waiting for the host thread
    updatesLock,          \* the host thread holds the lock of updates
    nextEpoch,            \* NEXT_CONNECTION_EPOCH
    rt,                   \* where the runtime thread is
    client,               \* epoch of the connection the worker holds, 0 none
    handshake,            \* [generation, epoch] of the handshake under way
    dropping,             \* the invalidation under way also drops the client
    arrived,              \* replies broadcast so far
    pending,              \* the reply the subscription task is delivering
    host,                 \* where the host thread is
    read,                 \* what the host's read of the gate loaded so far
    taken,                \* replies the last take handed to the UI
    connections,          \* handshakes that reached the allocator (a bound)
    restamped,            \* history: the gate was restamped during the read
    closed                \* history: epochs the gate was closed on

gateVars   == <<cancellation, epoch, connectionGeneration>>
flagVars   == <<connectionFailed, failed>>
queueVars  == <<updates, updatesLock>>
workerVars == <<rt, client, handshake, dropping, nextEpoch, connections>>
replyVars  == <<arrived, pending>>
hostVars   == <<host, read, taken>>
histVars   == <<restamped, closed>>
vars == <<gateVars, flagVars, queueVars, workerVars, replyVars, hostVars,
          histVars>>

Epochs == 0..(EpochSpace - 1)
Reply == [context : Contexts, epoch : Epochs, revision : Nat]
NoReply == [revision |-> 0]
Read == [kind : {"epoch", "take"}, context : Contexts,
         generation : Nat, epoch : Epochs]

\* The value current_epoch() has when nothing moves: the published epoch if no
\* invalidation came after its handshake began, 0 otherwise.
Live == IF connectionGeneration = cancellation THEN epoch ELSE 0

\* RpcWorker::connection_failed.
ConnectionFailed ==
    connectionFailed \/ failed \/ (epoch # 0 /\ Live = 0)

Init ==
    /\ cancellation = 0 /\ epoch = 0 /\ connectionGeneration = 0
    /\ connectionFailed = FALSE /\ failed = FALSE
    /\ updates = {} /\ updatesLock = FALSE
    /\ nextEpoch = 1 /\ rt = "idle" /\ client = 0
    /\ handshake = [generation |-> 0, epoch |-> 0] /\ dropping = FALSE
    /\ arrived = 0 /\ pending = NoReply
    /\ host = "idle" /\ taken = {}
    /\ read \in [kind : {"epoch"}, context : Contexts,
                generation : {0}, epoch : {0}]
    /\ connections = 0
    /\ restamped = FALSE /\ closed = {}

\* The bound on the invalidations that are a matter of choice: the one a full
\* queue forces comes on top of it.
MayCancel == cancellation < MaxCancellations

-----------------------------------------------------------------------------
\* History, part of every action: whether a handshake stored its generation while
\* the host's read was under way, and the epochs the gate was closed on.
Observe ==
    /\ restamped' = IF host = "idle" THEN FALSE
                    ELSE restamped \/ (rt = "cleared" /\ rt' = "stamped")
    /\ closed' = closed \cup ({Live} \ {Live', 0})

-----------------------------------------------------------------------------
\* PushTarget::invalidate, one store at a time, run by either thread.

\* Mutant: the generation is not bumped.
BumpNothing == UNCHANGED <<cancellation, epoch, connectionGeneration>>

BumpCancellation ==
    /\ cancellation' = cancellation + 1
    /\ UNCHANGED <<epoch, connectionGeneration>>

ZeroEpoch ==
    /\ epoch' = 0
    /\ UNCHANGED <<cancellation, connectionGeneration>>

\* Mutant: the failure is not flagged.
ClearOnly ==
    /\ updates' = IF updatesLock THEN updates ELSE {}
    /\ UNCHANGED <<connectionFailed, failed, updatesLock>>

\* The queue is cleared only if its lock is free: an invalidation never waits.
ReportAndClear ==
    /\ connectionFailed' = TRUE
    /\ updates' = IF updatesLock THEN updates ELSE {}
    /\ UNCHANGED <<failed, updatesLock>>

-----------------------------------------------------------------------------
\* The runtime thread: connect_client and ensure_connected.

\* The generation is captured before the pipe is opened.
BeginConnect ==
    /\ rt = "idle" /\ client = 0
    /\ rt' = "handshake"
    /\ handshake' = [generation |-> cancellation, epoch |-> 0]
    /\ UNCHANGED <<gateVars, flagVars, queueVars, client, dropping, nextEpoch,
                   connections, replyVars, hostVars>>
    /\ Observe

\* The pipe, the Ping or its answer failed.
HandshakeFails ==
    /\ rt = "handshake"
    /\ rt' = "idle"
    /\ connectionFailed' = TRUE
    /\ UNCHANGED <<gateVars, failed, queueVars, client, handshake, dropping,
                   nextEpoch, connections, replyVars, hostVars>>
    /\ Observe

\* An invalidation came during the handshake: disconnect and give up.
HandshakeCancelled ==
    /\ rt = "handshake"
    /\ cancellation # handshake.generation
    /\ rt' = "idle"
    /\ connectionFailed' = TRUE
    /\ UNCHANGED <<gateVars, failed, queueVars, client, handshake, dropping,
                   nextEpoch, connections, replyVars, hostVars>>
    /\ Observe

\* Mutant: the counter of epochs stands still.
AllocateSameEpoch ==
    /\ rt = "handshake"
    /\ cancellation = handshake.generation
    /\ connections < MaxConnections
    /\ connections' = connections + 1
    /\ handshake' = [handshake EXCEPT !.epoch = nextEpoch]
    /\ rt' = "allocated"
    /\ UNCHANGED <<gateVars, flagVars, queueVars, client, dropping, nextEpoch,
                   replyVars, hostVars>>
    /\ Observe

\* The Pong is here and nothing was cancelled: allocate the epoch.
AllocateEpoch ==
    /\ rt = "handshake"
    /\ cancellation = handshake.generation
    /\ connections < MaxConnections
    /\ connections' = connections + 1
    /\ nextEpoch' = (nextEpoch + 1) % EpochSpace
    /\ handshake' = [handshake EXCEPT !.epoch = nextEpoch]
    /\ rt' = "allocated"
    /\ UNCHANGED <<gateVars, flagVars, queueVars, client, dropping, replyVars,
                   hostVars>>
    /\ Observe

\* The counter wrapped onto the mark for "no epoch".
RefuseEpochZero ==
    /\ rt = "allocated" /\ handshake.epoch = 0
    /\ rt' = "idle"
    /\ connectionFailed' = TRUE
    /\ UNCHANGED <<gateVars, failed, queueVars, client, handshake, dropping,
                   nextEpoch, connections, replyVars, hostVars>>
    /\ Observe

ClearFailed ==
    /\ rt = "allocated" /\ handshake.epoch # 0
    /\ rt' = "cleared"
    /\ connectionFailed' = FALSE
    /\ UNCHANGED <<gateVars, failed, queueVars, client, handshake, dropping,
                   nextEpoch, connections, replyVars, hostVars>>
    /\ Observe

\* Mutant: the generation is read again instead of the one captured.
StoreNewestGeneration ==
    /\ rt = "cleared"
    /\ rt' = "stamped"
    /\ connectionGeneration' = cancellation
    /\ UNCHANGED <<cancellation, epoch, flagVars, queueVars, client, handshake,
                   dropping, nextEpoch, connections, replyVars, hostVars>>
    /\ Observe

StoreGeneration ==
    /\ rt = "cleared"
    /\ rt' = "stamped"
    /\ connectionGeneration' = handshake.generation
    /\ UNCHANGED <<cancellation, epoch, flagVars, queueVars, client, handshake,
                   dropping, nextEpoch, connections, replyVars, hostVars>>
    /\ Observe

StoreEpoch ==
    /\ rt = "stamped"
    /\ rt' = "idle"
    /\ epoch' = handshake.epoch
    /\ client' = handshake.epoch
    /\ UNCHANGED <<cancellation, connectionGeneration, flagVars, queueVars,
                   handshake, dropping, nextEpoch, connections, replyVars,
                   hostVars>>
    /\ Observe

Connect ==
    \/ BeginConnect \/ HandshakeFails \/ HandshakeCancelled \/ AllocateEpoch
    \/ RefuseEpochZero \/ ClearFailed \/ StoreGeneration \/ StoreEpoch

-----------------------------------------------------------------------------
\* The runtime thread: invalidation by the worker or by the subscription.

\* disconnect_invalidated_client: after a deadline, an error or a dead epoch,
\* with or without a client, and also out of a handshake cut by the deadline.
WorkerInvalidates ==
    /\ rt \in {"idle", "handshake"} /\ MayCancel
    /\ BumpCancellation
    /\ rt' = "zero" /\ dropping' = TRUE
    /\ UNCHANGED <<flagVars, queueVars, client, handshake, nextEpoch,
                   connections, replyVars, hostVars>>
    /\ Observe

\* The subscription task saw the transport close.
SubscriptionDisconnected ==
    /\ rt = "idle" /\ client # 0 /\ Live = client /\ MayCancel
    /\ BumpCancellation
    /\ rt' = "zero" /\ dropping' = FALSE
    /\ UNCHANGED <<flagVars, queueVars, client, handshake, nextEpoch,
                   connections, replyVars, hostVars>>
    /\ Observe

\* The subscription lagged, or a reply could not be queued.
SubscriptionFails ==
    /\ \/ rt = "idle" /\ client # 0 /\ MayCancel  \* RecvError::Lagged
       \/ rt = "overflow"                          \* enqueue_update is false
    /\ IF Live = client
       THEN /\ failed' = TRUE
            /\ BumpCancellation
            /\ rt' = "zero"
       ELSE /\ rt' = "idle"
            /\ UNCHANGED <<failed, gateVars>>
    /\ dropping' = FALSE /\ pending' = NoReply
    /\ UNCHANGED <<connectionFailed, queueVars, client, handshake, nextEpoch,
                   connections, arrived, hostVars>>
    /\ Observe

RuntimeZeroesEpoch ==
    /\ rt = "zero"
    /\ ZeroEpoch
    /\ rt' = "report"
    /\ UNCHANGED <<flagVars, queueVars, client, handshake, dropping, nextEpoch,
                   connections, replyVars, hostVars>>
    /\ Observe

RuntimeReports ==
    /\ rt = "report"
    /\ ReportAndClear
    /\ client' = IF dropping THEN 0 ELSE client
    /\ rt' = "idle"
    /\ UNCHANGED <<gateVars, handshake, dropping, nextEpoch, connections,
                   replyVars, hostVars>>
    /\ Observe

RuntimeInvalidates ==
    \/ WorkerInvalidates \/ SubscriptionDisconnected \/ SubscriptionFails
    \/ RuntimeZeroesEpoch \/ RuntimeReports

-----------------------------------------------------------------------------
\* The runtime thread: enqueue_update, the check apart from the push.

\* A reply of a connection whose gate is closed is dropped without a word.
CheckUpdate ==
    /\ rt = "idle" /\ client # 0 /\ arrived < MaxReplies
    /\ arrived' = arrived + 1
    /\ IF Live = client
       THEN /\ rt' = "push"
            /\ \E c \in Contexts :
                  pending' = [context |-> c, epoch |-> client,
                              revision |-> arrived + 1]
       ELSE UNCHANGED <<rt, pending>>
    /\ UNCHANGED <<gateVars, flagVars, queueVars, client, handshake, dropping,
                   nextEpoch, connections, hostVars>>
    /\ Observe

\* Mutant: the length of the queue is not looked at.
PushUnbounded ==
    /\ rt = "push" /\ ~updatesLock
    /\ updates' = updates \cup {pending}
    /\ pending' = NoReply
    /\ rt' = "idle"
    /\ UNCHANGED <<gateVars, flagVars, updatesLock, client, handshake,
                   dropping, nextEpoch, connections, arrived, hostVars>>
    /\ Observe

\* A full queue is a failure of the subscription, never a wait.
PushUpdate ==
    /\ rt = "push" /\ ~updatesLock
    /\ IF Cardinality(updates) < QueueLimit
       THEN /\ updates' = updates \cup {pending}
            /\ pending' = NoReply
            /\ rt' = "idle"
       ELSE /\ rt' = "overflow"
            /\ UNCHANGED <<updates, pending>>
    /\ UNCHANGED <<gateVars, flagVars, updatesLock, client, handshake,
                   dropping, nextEpoch, connections, arrived, hostVars>>
    /\ Observe

EnqueueUpdate == CheckUpdate \/ PushUpdate

-----------------------------------------------------------------------------
\* The host's COM thread.

\* process_key_event after its wait, or context_command after a full queue.
HostInvalidates ==
    /\ host = "idle" /\ MayCancel
    /\ BumpCancellation
    /\ host' = "zero"
    /\ UNCHANGED <<flagVars, queueVars, workerVars, replyVars, read, taken>>
    /\ Observe

HostZeroesEpoch ==
    /\ host = "zero"
    /\ ZeroEpoch
    /\ host' = "report"
    /\ UNCHANGED <<flagVars, queueVars, workerVars, replyVars, read, taken>>
    /\ Observe

HostReports ==
    /\ host = "report"
    /\ ReportAndClear
    /\ host' = "idle"
    /\ UNCHANGED <<gateVars, workerVars, replyVars, read, taken>>
    /\ Observe

\* current_epoch(): the first load.  connection_epoch() calls it bare,
\* take_context_updates() with the lock of the queue held.
LoadGeneration ==
    /\ host = "idle"
    /\ \E kind \in {"epoch", "take"}, c \in Contexts :
          /\ read' = [kind |-> kind, context |-> c,
                      generation |-> cancellation, epoch |-> 0]
          /\ updatesLock' = (kind = "take")
    /\ host' = "epoch" /\ taken' = {}
    /\ UNCHANGED <<gateVars, flagVars, updates, workerVars, replyVars>>
    /\ Observe

LoadEpoch ==
    /\ host = "epoch"
    /\ read' = [read EXCEPT !.epoch = epoch]
    /\ host' = "stamp"
    /\ UNCHANGED <<gateVars, flagVars, queueVars, workerVars, replyVars, taken>>
    /\ Observe

LoadStamp ==
    /\ host = "stamp"
    /\ IF connectionGeneration = read.generation
       THEN /\ host' = "recheck" /\ UNCHANGED read
       ELSE /\ host' = "answer" /\ read' = [read EXCEPT !.epoch = 0]
    /\ UNCHANGED <<gateVars, flagVars, queueVars, workerVars, replyVars, taken>>
    /\ Observe

\* Mutant: the generation is loaded once only.
TrustFirstLoad ==
    /\ host = "recheck"
    /\ host' = "answer"
    /\ UNCHANGED <<gateVars, flagVars, queueVars, workerVars, replyVars, read,
                   taken>>
    /\ Observe

ReloadCancellation ==
    /\ host = "recheck"
    /\ host' = "answer"
    /\ read' = IF cancellation = read.generation
               THEN read ELSE [read EXCEPT !.epoch = 0]
    /\ UNCHANGED <<gateVars, flagVars, queueVars, workerVars, replyVars, taken>>
    /\ Observe

\* take_context_updates: keep what other contexts of this epoch wait for, hand
\* over what this context waits for, drop the rest.
Answer ==
    /\ host = "answer"
    /\ host' = "idle" /\ updatesLock' = FALSE
    /\ LET current == {r \in updates : read.epoch # 0 /\ r.epoch = read.epoch}
           mine    == {r \in current : r.context = read.context}
       IN IF read.kind = "take"
          THEN taken' = mine /\ updates' = current \ mine
          ELSE UNCHANGED <<taken, updates>>
    /\ UNCHANGED <<gateVars, flagVars, workerVars, replyVars, read>>
    /\ Observe

\* retain_context_updates: replies of contexts that are gone are removed.
RetainContextUpdates ==
    /\ host = "idle"
    /\ \E alive \in SUBSET Contexts :
          updates' = {r \in updates : r.context \in alive}
    /\ UNCHANGED <<gateVars, flagVars, updatesLock, workerVars, replyVars,
                   hostVars>>
    /\ Observe

CurrentEpoch == LoadGeneration \/ LoadEpoch \/ LoadStamp \/ ReloadCancellation
Host == \/ HostInvalidates \/ HostZeroesEpoch \/ HostReports
        \/ CurrentEpoch \/ Answer \/ RetainContextUpdates

-----------------------------------------------------------------------------
Next == Connect \/ RuntimeInvalidates \/ EnqueueUpdate \/ Host

Spec == Init /\ [][Next]_vars

-----------------------------------------------------------------------------
\* Properties.

RuntimePlaces == {"idle", "handshake", "allocated", "cleared", "stamped",
                  "zero", "report", "push", "overflow"}
HostPlaces == {"idle", "zero", "report", "epoch", "stamp", "recheck", "answer"}

GateType ==
    /\ cancellation \in Nat
    /\ epoch \in Epochs
    /\ connectionGeneration \in Nat
    /\ connectionFailed \in BOOLEAN /\ failed \in BOOLEAN
WorkerType ==
    /\ nextEpoch \in Epochs
    /\ rt \in RuntimePlaces
    /\ client \in Epochs
    /\ handshake \in [generation : Nat, epoch : Epochs]
    /\ dropping \in BOOLEAN
    /\ connections \in Nat
QueueType ==
    /\ updates \subseteq Reply /\ IsFiniteSet(updates)
    /\ Cardinality(updates) <= QueueLimit
    /\ updatesLock \in BOOLEAN
    /\ arrived \in Nat
    /\ pending \in Reply \cup {NoReply}
    /\ rt = "push" => pending \in Reply
HostType ==
    /\ host \in HostPlaces
    /\ read \in Read
    /\ taken \subseteq Reply
HistoryType ==
    /\ restamped \in BOOLEAN /\ closed \subseteq Epochs

\* The type of every variable, and the bound of the reply queue: only the
\* runtime thread adds to it, and it looks at the length under the lock.
TypeOK == GateType /\ WorkerType /\ QueueType /\ HostType /\ HistoryType

\* The inductive strengthening of the gate's properties: the generations only
\* lag behind the invalidations, only the held connection's epoch is ever
\* published, and a handshake runs with no connection held.
GateInv ==
    /\ connectionGeneration <= cancellation
    /\ handshake.generation <= cancellation
    /\ epoch \in {0, client}
    /\ rt = "report" => epoch = 0
    /\ rt \in {"handshake", "allocated", "cleared", "stamped"} => client = 0
    /\ rt \in {"zero", "report"} => connectionGeneration < cancellation
    /\ rt = "stamped" => connectionGeneration = handshake.generation
    /\ rt \in {"cleared", "stamped"} => handshake.epoch # 0

\* An open gate is the gate of the connection the worker holds, and no
\* invalidation of the runtime thread is half done behind it (invalidate bumps
\* the generation before it touches anything else).
OpenGateIsOwned ==
    Live # 0 => client = Live /\ rt \in {"idle", "push", "overflow"}

\* Once an invalidation is over, a closed gate is reported by
\* RpcWorker::connection_failed until a handshake clears the flag, even when
\* the handshake's stores and the invalidation's stores interleave.
ClosureIsReported ==
    /\ Live = 0 /\ cancellation > 0
    /\ host \notin {"zero", "report"}
    /\ rt \notin {"zero", "report", "cleared", "stamped"}
    => ConnectionFailed

\* The strengthening of ClosureIsReported: with no epoch published and no
\* failure flagged, some thread is about to flag or to publish.
ReportedInv ==
    epoch = 0 /\ cancellation > 0 /\ ~connectionFailed =>
        \/ host \in {"zero", "report"}
        \/ rt \in {"zero", "report", "cleared", "stamped"}

\* current_epoch(), read without a lock by the host: the epoch it answers is
\* the open one at the last load, although its three words were loaded apart,
\* provided no handshake stored its generation during the read.
ReadIsExact ==
    [][host = "recheck" /\ host' = "answer" /\ read'.epoch # 0 /\ ~restamped
         => Live = read'.epoch]_vars

\* The read's own strengthening: while the loads so far still stand, the epoch
\* loaded is the published one.
ReadInv ==
    /\ host \in {"epoch", "stamp", "recheck"} => read.generation <= cancellation
    /\ host \in {"stamp", "recheck"} /\ ~restamped /\ read.epoch # 0
       /\ read.generation = cancellation
       /\ connectionGeneration = cancellation
       => read.epoch = epoch
    /\ host = "recheck" /\ ~restamped => connectionGeneration = read.generation

\* connect_client: the gate opens only if no invalidation came since the
\* handshake captured its generation, before the pipe was opened.
OpensUncancelled ==
    [][Live = 0 /\ Live' # 0 => cancellation' = handshake.generation]_vars

\* The strengthening of NeverReopened: until the counter wraps, epochs are
\* handed out in order, and the one being published was never open.
FreshInv ==
    connections < EpochSpace =>
        /\ nextEpoch = (connections + 1) % EpochSpace
        /\ client <= connections
        /\ \A e \in closed : e <= connections
        /\ rt \in {"allocated", "cleared", "stamped"} =>
              handshake.epoch = connections /\ handshake.epoch \notin closed

\* An epoch whose gate was closed never opens again, so a late reply of an old
\* connection cannot pass for one of the new (for fewer connections than the
\* counter holds).
NeverReopened ==
    [][Live' # 0 /\ Live' # Live /\ connections < EpochSpace
         => Live' \notin closed]_vars
=============================================================================
