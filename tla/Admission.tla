----------------------------- MODULE Admission -----------------------------
(***************************************************************************)
(* How weasel-server admits input connections (server/src/admission.rs,    *)
(* read_connection and serve in server/src/main.rs) and takes slots back   *)
(* from connections that do nothing (common/src/rpc/activity.rs,           *)
(* server/src/client_connection.rs).                                       *)
(*                                                                         *)
(* A connection is pending until it shows a real input intent.  It is then *)
(* promoted: it takes a permit of a semaphore or, when there is none, picks *)
(* the least important connection with nothing in flight and retires it.   *)
(* The list of victims is a snapshot: each is validated again, under its   *)
(* own lock, when it is retired.  A promotion that cannot go on waits for  *)
(* a permit, for its own disconnection or for a change notice.             *)
(***************************************************************************)
EXTENDS Integers, Sequences, FiniteSets, SequencesExt

CONSTANTS
    Conns,        \* connections the listener may accept
    Slots,        \* active input connections (MAX_CONNECTIONS)
    PendingLimit, \* connections not promoted yet (PENDING_LIMIT)
    QueueLimit,   \* engine mailbox (engine::QUEUE_CAPACITY)
    Priorities,   \* InputPriority, as numbers, least important first
    MaxFrames     \* bound: frames the clients send in all

ASSUME ConstantsAssumption ==
    /\ IsFiniteSet(Conns)
    /\ Slots \in Nat \ {0} /\ PendingLimit \in Nat \ {0}
    /\ QueueLimit \in Nat \ {0} /\ MaxFrames \in Nat
    /\ Priorities \subseteq Nat /\ Priorities # {}

VARIABLES
    phase,      \* where the task of each connection is
    closed,     \* the pipe is closed, or about to be
    inbox,      \* frames the reader queued and the task did not take
    opened,     \* the OpenInput frame was taken
    requests,   \* Activity: requests received and not finished
    writes,     \* Activity: replies queued and not written
    retired,    \* Activity: no request or write is accepted any more
    last,       \* Activity: time of the last request
    registered, \* InputState: the engine knows the connection
    priority,   \* InputState: focused, composing or inactive
    clock,      \* the time, counted in frames
    free,       \* permits of the semaphore nobody holds
    queue,      \* promotions queued at the semaphore, oldest first
    granted,    \* promotions the semaphore gave a permit to
    woken,      \* promotions notified since they began to listen
    reclaimed,  \* promotions that retired a peer, and listen no more
    plan,       \* victims a promotion still has to try
    active,     \* Gate::active
    pending,    \* Gate::pending
    work,       \* the engine's mailbox
    engine      \* the connection whose request the engine holds, or none

taskVars     == <<phase, inbox, opened>>
clientVars   == <<closed, clock>>
activityVars == <<requests, writes, retired, last>>
inputVars    == <<registered, priority>>
semVars      == <<free, queue, granted>>
waitVars     == <<woken, reclaimed, plan>>
gateVars     == <<active, pending>>
engineVars   == <<work, engine>>
vars == <<taskVars, clientVars, activityVars, inputVars, semVars, waitVars,
          gateVars, engineVars>>

NoConn == {}

Init ==
    /\ phase = [c \in Conns |-> "absent"]
    /\ closed = [c \in Conns |-> FALSE]
    /\ inbox = [c \in Conns |-> 0]
    /\ opened = [c \in Conns |-> FALSE]
    /\ requests = [c \in Conns |-> 0] /\ writes = [c \in Conns |-> 0]
    /\ retired = [c \in Conns |-> FALSE] /\ last = [c \in Conns |-> 0]
    /\ registered = [c \in Conns |-> FALSE]
    /\ priority = [c \in Conns |-> CHOOSE p \in Priorities : TRUE]
    /\ clock = 0
    /\ free = Slots /\ queue = <<>> /\ granted = {}
    /\ woken = {} /\ reclaimed = {} /\ plan = [c \in Conns |-> {}]
    /\ active = {} /\ pending = 0
    /\ work = <<>> /\ engine = NoConn

-----------------------------------------------------------------------------
\* The rules the connection's locks protect.

\* Activity::candidate and ClientConnection::reclaim_candidate.
Reclaimable(c) ==
    registered[c] /\ ~retired[c] /\ requests[c] = 0 /\ writes[c] = 0

\* InputRetireCandidate: the order of reclaiming, and the token that must
\* still be true when the connection is retired.
Rank(c) == [priority |-> priority[c], last |-> last[c]]
Before(r, s) ==
    r.priority < s.priority \/ (r.priority = s.priority /\ r.last < s.last)

\* Notify::notify_waiters: every promotion that listens is woken.
Notified == woken \cup {w \in Conns : phase[w] \in {"reclaim", "wait"}}

\* A permit goes to the oldest promotion queued, or back to the semaphore.
PassPermit(q, g) ==
    IF q = <<>> THEN free' = free + 1 /\ queue' = q /\ granted' = g
    ELSE free' = free /\ queue' = Tail(q) /\ granted' = g \cup {Head(q)}

\* The acquire is dropped: its place in the queue, if it has one, closes up.
Withdraw(c) ==
    /\ UNCHANGED <<free, granted>>
    /\ \/ c \notin Range(queue) /\ UNCHANGED queue
       \/ \E i \in 1..Len(queue) : queue[i] = c /\ queue' = RemoveAt(queue, i)

\* read_connection: the request goes to the engine's bounded mailbox.
Forward(c) ==
    /\ Len(work) < QueueLimit
    /\ work' = Append(work, c)
    /\ UNCHANGED engine

-----------------------------------------------------------------------------
\* The client and the reader of its pipe.

\* serve: the listener accepts, and Gate::start counts the connection.
Accept(c) ==
    /\ phase[c] = "absent"
    /\ IF pending < PendingLimit
       THEN pending' = pending + 1 /\ phase' = [phase EXCEPT ![c] = "pending"]
       ELSE UNCHANGED pending /\ phase' = [phase EXCEPT ![c] = "done"]
    /\ UNCHANGED <<inbox, opened, clientVars, activityVars, inputVars, semVars,
                   waitVars, active, engineVars>>

\* run_reader: the request is counted before it is queued.  A retired
\* connection takes no request; its reader ends instead.
Frame(c) ==
    /\ phase[c] \notin {"absent", "done"} /\ ~closed[c]
    /\ clock < MaxFrames
    /\ IF retired[c]
       THEN /\ closed' = [closed EXCEPT ![c] = TRUE]
            /\ woken' = Notified
            /\ UNCHANGED <<requests, last, clock, inbox>>
       ELSE /\ requests' = [requests EXCEPT ![c] = @ + 1]
            /\ clock' = clock + 1
            /\ last' = [last EXCEPT ![c] = clock + 1]
            /\ inbox' = [inbox EXCEPT ![c] = @ + 1]
            /\ UNCHANGED <<closed, woken>>
    /\ UNCHANGED <<phase, opened, writes, retired, inputVars, semVars,
                   reclaimed, plan, gateVars, engineVars>>

\* The client goes away, or the closing that follows a retirement.
Close(c) ==
    /\ phase[c] \notin {"absent", "done"} /\ ~closed[c]
    /\ closed' = [closed EXCEPT ![c] = TRUE]
    /\ woken' = Notified
    /\ UNCHANGED <<taskVars, clock, activityVars, inputVars, semVars,
                   reclaimed, plan, gateVars, engineVars>>

\* Mutant: nobody is notified of it.
WrittenSilently(c) ==
    /\ writes[c] > 0
    /\ writes' = [writes EXCEPT ![c] = @ - 1]
    /\ UNCHANGED <<taskVars, clientVars, requests, retired, last, inputVars,
                   semVars, waitVars, gateVars, engineVars>>

\* run_writer: a reply reached the pipe.
Written(c) ==
    /\ writes[c] > 0
    /\ writes' = [writes EXCEPT ![c] = @ - 1]
    /\ woken' = Notified
    /\ UNCHANGED <<taskVars, clientVars, requests, retired, last, inputVars,
                   semVars, reclaimed, plan, gateVars, engineVars>>

-----------------------------------------------------------------------------
\* The task of a connection: read_connection.

\* OpenInput goes to the engine without a slot.
TakeOpen(c) ==
    /\ phase[c] = "pending" /\ inbox[c] > 0 /\ ~opened[c]
    /\ Forward(c)
    /\ opened' = [opened EXCEPT ![c] = TRUE]
    /\ inbox' = [inbox EXCEPT ![c] = @ - 1]
    /\ UNCHANGED <<phase, clientVars, activityVars, inputVars, semVars,
                   waitVars, gateVars>>

\* A key or a focus for the opened context: the promotion begins, with the
\* request in hand.
TakeIntent(c) ==
    /\ phase[c] = "pending" /\ inbox[c] > 0 /\ opened[c]
    /\ phase' = [phase EXCEPT ![c] = "check"]
    /\ inbox' = [inbox EXCEPT ![c] = @ - 1]
    /\ UNCHANGED <<opened, clientVars, activityVars, inputVars, semVars,
                   waitVars, gateVars, engineVars>>

TakeActive(c) ==
    /\ phase[c] = "active" /\ inbox[c] > 0
    /\ Forward(c)
    /\ inbox' = [inbox EXCEPT ![c] = @ - 1]
    /\ UNCHANGED <<phase, opened, clientVars, activityVars, inputVars, semVars,
                   waitVars, gateVars>>

\* Admission::drop and the drop of everything else the task owns.  What it
\* holds in hand or left in its inbox goes with it.
Leave(c) ==
    /\ phase' = [phase EXCEPT ![c] = "done"]
    /\ closed' = [closed EXCEPT ![c] = TRUE]
    /\ requests' = [requests EXCEPT ![c] = @ - inbox[c]
           - IF phase[c] \in {"wait", "full"} THEN 1 ELSE 0]
    /\ inbox' = [inbox EXCEPT ![c] = 0]
    /\ pending' = IF phase[c] \in {"active", "full"} THEN pending ELSE pending - 1
    /\ active' = active \ {c}
    /\ IF phase[c] \in {"active", "full"} \/ c \in granted
       THEN PassPermit(queue, granted \ {c})
       ELSE Withdraw(c)
    /\ woken' = Notified \ {c} /\ reclaimed' = reclaimed \ {c}
    /\ opened' = [opened EXCEPT ![c] = FALSE]
    /\ UNCHANGED <<clock, writes, retired, last, inputVars,
                   plan, engineVars>>

\* The pipe is closed and the inbox read to its end.
LeaveClosed(c) ==
    /\ closed[c]
    /\ \/ phase[c] \in {"pending", "active"} /\ inbox[c] = 0
       \/ phase[c] = "wait"
    /\ Leave(c)

\* The two seconds a pending connection has are over.
LeaveLate(c) ==
    /\ phase[c] \in {"pending", "wait"}
    /\ Leave(c)

\* The engine's mailbox is full.
LeaveFull(c) ==
    /\ \/ phase[c] = "full"
       \/ /\ Len(work) = QueueLimit /\ inbox[c] > 0
          /\ phase[c] = "active" \/ (phase[c] = "pending" /\ ~opened[c])
    /\ Leave(c)

-----------------------------------------------------------------------------
\* Admission::promote.

\* Mutant: the connection stays counted as pending.
ActivateUncounted(c) ==
    /\ active' = active \cup {c}
    /\ UNCHANGED pending
    /\ IF Len(work) < QueueLimit
       THEN /\ phase' = [phase EXCEPT ![c] = "active"]
            /\ work' = Append(work, c)
       ELSE /\ phase' = [phase EXCEPT ![c] = "full"]
            /\ UNCHANGED work

\* Holding a permit makes the connection active, and its request goes on to
\* the engine; a full mailbox ends the connection instead.
Activate(c) ==
    /\ active' = active \cup {c}
    /\ pending' = pending - 1
    /\ IF Len(work) < QueueLimit
       THEN /\ phase' = [phase EXCEPT ![c] = "active"]
            /\ work' = Append(work, c)
       ELSE /\ phase' = [phase EXCEPT ![c] = "full"]
            /\ UNCHANGED work

\* Gate::peers is locked from the listing of the victims to the last try; the
\* other locks, of the victims themselves, are taken one at a time.
PeersUnlocked == \A c \in Conns : phase[c] = "reclaim" => plan[c] = {}

\* The head of the loop: listen, try a permit, list the victims.
Check(c) ==
    /\ phase[c] = "check"
    /\ woken' = woken \ {c} /\ reclaimed' = reclaimed \ {c}
    /\ IF free > 0
       THEN /\ free' = free - 1
            /\ Activate(c)
            /\ UNCHANGED plan
       ELSE /\ PeersUnlocked
            /\ phase' = [phase EXCEPT ![c] = "reclaim"]
            /\ plan' = [plan EXCEPT ![c] =
                  {[peer |-> p, rank |-> Rank(p)] :
                      p \in {q \in active \ {c} : Reclaimable(q)}}]
            /\ UNCHANGED <<free, gateVars, work>>
    /\ UNCHANGED <<inbox, opened, clientVars, activityVars, inputVars, queue,
                   granted, engine>>

\* ClientConnection::reclaim and Activity::retire: the next victim in rank
\* order, if its snapshot still holds.
FirstOf(victims) ==
    CHOOSE v \in victims : \A u \in victims \ {v} : Before(v.rank, u.rank)

\* Mutant: the snapshot is trusted.
Trusted(v) == TRUE

StillValid(v) == Reclaimable(v.peer) /\ Rank(v.peer) = v.rank

RetireFirst(c) ==
    /\ phase[c] = "reclaim" /\ plan[c] # {}
    /\ LET v == FirstOf(plan[c])
       IN IF StillValid(v)
          THEN /\ retired' = [retired EXCEPT ![v.peer] = TRUE]
               /\ reclaimed' = reclaimed \cup {c}
               /\ plan' = [plan EXCEPT ![c] = {}]
          ELSE /\ plan' = [plan EXCEPT ![c] = @ \ {v}]
               /\ UNCHANGED <<retired, reclaimed>>
    /\ UNCHANGED <<taskVars, clientVars, requests, writes, last, inputVars,
                   semVars, woken, gateVars, engineVars>>

\* The acquire of the select: join the semaphore's queue.
Enqueue(c) ==
    /\ phase[c] = "reclaim" /\ plan[c] = {}
    /\ phase' = [phase EXCEPT ![c] = "wait"]
    /\ IF free > 0
       THEN free' = free - 1 /\ granted' = granted \cup {c} /\ UNCHANGED queue
       ELSE queue' = Append(queue, c) /\ UNCHANGED <<free, granted>>
    /\ UNCHANGED <<inbox, opened, clientVars, activityVars, inputVars,
                   waitVars, gateVars, engineVars>>

\* The acquire is the branch that is ready.
Admit(c) ==
    /\ phase[c] = "wait" /\ c \in granted
    /\ granted' = granted \ {c}
    /\ woken' = woken \ {c} /\ reclaimed' = reclaimed \ {c}
    /\ Activate(c)
    /\ UNCHANGED <<inbox, opened, clientVars, activityVars, inputVars, free,
                   queue, plan, engine>>

\* The notice is the branch that is ready: go round, giving up the place in
\* the queue, or the permit.  A promotion that retired a peer does not listen.
Wake(c) ==
    /\ phase[c] = "wait" /\ c \in woken \ reclaimed
    /\ phase' = [phase EXCEPT ![c] = "check"]
    /\ IF c \in granted
       THEN PassPermit(queue, granted \ {c})
       ELSE Withdraw(c)
    /\ UNCHANGED <<inbox, opened, clientVars, activityVars, inputVars,
                   waitVars, gateVars, engineVars>>

-----------------------------------------------------------------------------
\* The engine: Processor::process.

\* The request is applied, answered, and the connection classified again,
\* while the request still protects it.  A connection that left is forgotten.
EngineApplies ==
    /\ engine = NoConn /\ work # <<>>
    /\ LET c == Head(work)
       IN /\ engine' = {c}
          /\ IF phase[c] = "done"
             THEN UNCHANGED <<inputVars, writes>>
             ELSE /\ registered' = [registered EXCEPT ![c] = TRUE]
                  /\ \E p \in Priorities :
                        priority' = [priority EXCEPT ![c] = p]
                  /\ writes' = [writes EXCEPT ![c] =
                        IF closed[c] \/ retired[c] THEN @ ELSE @ + 1]
    /\ work' = Tail(work)
    /\ UNCHANGED <<taskVars, clientVars, requests, retired, last, semVars,
                   waitVars, gateVars>>

\* Mutant: nobody is notified of it.
EngineFinishesSilently ==
    /\ engine # NoConn
    /\ requests' = [c \in Conns |->
          IF c \in engine THEN requests[c] - 1 ELSE requests[c]]
    /\ engine' = NoConn
    /\ UNCHANGED <<taskVars, clientVars, writes, retired, last, inputVars,
                   semVars, waitVars, gateVars, work>>

\* RequestLease::drop.
EngineFinishes ==
    /\ engine # NoConn
    /\ requests' = [c \in Conns |->
          IF c \in engine THEN requests[c] - 1 ELSE requests[c]]
    /\ engine' = NoConn
    /\ woken' = Notified
    /\ UNCHANGED <<taskVars, clientVars, writes, retired, last, inputVars,
                   semVars, reclaimed, plan, gateVars, work>>

-----------------------------------------------------------------------------
Client(c) == Accept(c) \/ Frame(c) \/ Close(c)
Task(c) == \/ TakeOpen(c) \/ TakeIntent(c) \/ TakeActive(c)
           \/ LeaveClosed(c) \/ LeaveFull(c)
           \/ Check(c) \/ RetireFirst(c) \/ Enqueue(c) \/ Admit(c) \/ Wake(c)

Next ==
    \/ \E c \in Conns : Client(c) \/ Task(c) \/ Written(c) \/ LeaveLate(c)
    \/ EngineApplies \/ EngineFinishes

Spec == Init /\ [][Next]_vars

\* The tasks are scheduled, the engine thread runs, a reply is written or its
\* pipe closed within two seconds, and a retired connection is closed by the
\* promotion that retired it.  Nothing makes a client send or a deadline come.
Fairness ==
    /\ \A c \in Conns : WF_vars(Task(c)) /\ WF_vars(Written(c))
                        /\ WF_vars(retired[c] /\ Close(c))
    /\ WF_vars(EngineApplies) /\ WF_vars(EngineFinishes)

FairSpec == Spec /\ Fairness

-----------------------------------------------------------------------------
\* Properties.

Phases == {"absent", "pending", "check", "reclaim", "wait", "active",
            "full", "done"}

TypeOK ==
    /\ phase \in [Conns -> Phases]
    /\ closed \in [Conns -> BOOLEAN] /\ opened \in [Conns -> BOOLEAN]
    /\ inbox \in [Conns -> Nat]
    /\ requests \in [Conns -> Nat] /\ writes \in [Conns -> Nat]
    /\ retired \in [Conns -> BOOLEAN] /\ last \in [Conns -> Nat]
    /\ registered \in [Conns -> BOOLEAN]
    /\ priority \in [Conns -> Priorities]
    /\ clock \in Nat
    /\ free \in Nat /\ queue \in Seq(Conns) /\ granted \subseteq Conns
    /\ woken \subseteq Conns /\ reclaimed \subseteq Conns
    /\ active \subseteq Conns /\ pending \in Nat
    /\ work \in Seq(Conns) /\ engine \in {NoConn} \cup {{c} : c \in Conns}

\* No permit is lost or made up, through grants that are passed on, wakeups
\* that give one back, deadlines and disconnections (Gate::slots).
PermitsConserved == free + Cardinality(active) + Cardinality(granted) = Slots

\* The pending counter is the number of connections that are pending, so the
\* limit is neither eaten up by connections that left nor passed (Gate::pending).
PendingIsExact ==
    /\ pending = Cardinality({c \in Conns :
                    phase[c] \in {"pending", "check", "reclaim", "wait"}})
    /\ pending <= PendingLimit

\* A retired connection is quiet: nothing it sent is waiting anywhere, and no
\* reply for it is waiting to be written, from the moment it is retired on.
\* The list of victims may be old; the check under the lock is not.
RetiredIsQuiet ==
    \A c \in Conns : retired[c] =>
        /\ inbox[c] = 0 /\ writes[c] = 0 /\ requests[c] = 0
        /\ c \notin engine
        /\ \A i \in 1..Len(work) : work[i] # c

\* Only a promotion that has retired a peer is left to its deadline: one that has
\* not listens, and no request, reply or departure that makes a connection
\* reclaimable slips through between its look at the victims and its sleep.
ListenerIsWoken ==
    \A w \in Conns : phase[w] = "wait" /\ w \notin reclaimed \cup woken =>
        ~\E c \in active : Reclaimable(c)

\* A promotion needs no deadline: it ends with a slot or with a disconnection,
\* because connections that fall silent are reclaimed; or it retired a peer,
\* and waits for the permit that peer gives back.
PromotionEnds ==
    \A c \in Conns : phase[c] = "check" ~>
        phase[c] \in {"active", "done"} \/ c \in reclaimed

\* The counts of the gate are true: every variable has its type, and neither a
\* permit nor a pending place is lost or made up, in whatever order grants,
\* wakeups, deadlines, disconnections and a full mailbox come (Gate).
CountsAreExact == TypeOK /\ PermitsConserved /\ PendingIsExact
=============================================================================
