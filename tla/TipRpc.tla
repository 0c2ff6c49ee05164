------------------------------ MODULE TipRpc ------------------------------
(***************************************************************************)
(* One key press from the host application to the engine and back          *)
(* (tip/src/rpc_worker.rs: RpcWorker, WorkerState, Connection; the host's  *)
(* side in tip/src/service/key_event.rs and context.rs).                   *)
(*                                                                         *)
(* The host's COM thread queues commands, waits a bounded time for the     *)
(* answer to a key, and takes the replies the engine publishes.  The       *)
(* worker serves one command at a time; every request it sends may run     *)
(* into its deadline.  A subscription forwards each reply to the host as   *)
(* well, so the answer to a key arrives twice, by two ways.                *)
(*                                                                         *)
(* Here the gate of PushTarget is one word, live: its interleavings word   *)
(* by word are that module's.                                              *)
(***************************************************************************)
EXTENDS Naturals, Sequences, FiniteSets

CONSTANTS
    Contexts,       \* input contexts of the host application
    CommandLimit,   \* commands the queue holds (64 in the code)
    UpdateLimit,    \* replies the host's queue holds (64 in the code)
    MaxAsks,        \* bound: keys sent to the worker
    MaxMoves,       \* bound: focus changes, cancellations, removals and logs
    MaxConnections, \* bound: connections established
    MaxPushes       \* bound: replies the engine sends of its own accord

NoContext == "none"

ASSUME ConstantsAssumption ==
    /\ IsFiniteSet(Contexts) /\ NoContext \notin Contexts
    /\ CommandLimit \in Nat \ {0} /\ UpdateLimit \in Nat \ {0}
    /\ MaxAsks \in Nat /\ MaxMoves \in Nat
    /\ MaxConnections \in Nat /\ MaxPushes \in Nat

VARIABLES
    live,        \* the open gate's epoch, 0 when it is closed
    cut,         \* the gate was closed since the handshake began
    failed,      \* replies were lost: no more keys until a restart
    updates,     \* replies queued for the host
    commands,    \* RpcWorker::commands
    job,         \* the command the worker serves, and how far it is
    conn,        \* epoch of the connection the worker holds, 0 for none
    up,          \* its transport is not closed
    subscribed,  \* its subscription task runs
    stream,      \* replies published to the subscription and not read
    opened,      \* Connection::opened
    request,     \* the request the engine did not answer yet
    answer,      \* the reply the worker's request was completed with
    session,     \* the engine's input sessions of the connection
    focused,     \* the context with the focus, or NoContext
    alive,       \* contexts not removed
    suspended,   \* contexts in quarantine
    remembered,  \* remembered_ascii holds a mode
    generation,  \* ContextState::generation
    route,       \* ContextState::route
    edits,       \* replies accepted, whose edit did not run yet
    host,        \* where the host thread is
    ask,         \* the key it waits for, and what became of it
    tested,      \* the token TestedKey is cached under
    press,       \* the key press under way
    connections, asks, moves, pushes, \* counters of the bounds
    sent,        \* history: replies with a revision of their own
    applied,     \* history: replies written to the host's text
    abandoned,   \* history: keys process_key_event gave up
    passed       \* history: keys left to the host application

gateVars    == <<live, cut, failed>>
connVars    == <<conn, up, subscribed, stream, opened>>
engineVars  == <<request, answer, session>>
contextVars == <<alive, suspended, generation, route, remembered>>
keyVars     == <<host, ask, tested, press>>
boundVars   == <<connections, asks, moves, pushes>>
histVars    == <<sent, applied, abandoned, passed>>
vars == <<gateVars, updates, commands, job, connVars, engineVars, focused,
          contextVars, edits, keyVars, boundVars, histVars>>

NoToken   == [context |-> NoContext, epoch |-> 0, generation |-> 0]
Idle      == [at |-> "idle", kind |-> "none", token |-> NoToken, ask |-> 0]
NoRequest == [kind |-> "none", token |-> NoToken, ask |-> 0]
NoAnswer  == [kind |-> "none", token |-> NoToken, revision |-> 0, ask |-> 0,
              eaten |-> FALSE]
NoSession == [token |-> NoToken, revision |-> 0]

\* ContextState::token.
Token(c) == [context |-> c, epoch |-> live, generation |-> generation[c]]

\* ContextState::matches.
Matches(t) ==
    /\ t.context \in alive \ suspended
    /\ t = Token(t.context)

Elements(s) == {s[i] : i \in DOMAIN s}

Init ==
    /\ live = 0 /\ cut = FALSE /\ failed = FALSE
    /\ updates = <<>> /\ commands = <<>>
    /\ job = Idle /\ conn = 0 /\ up = FALSE /\ subscribed = FALSE
    /\ stream = <<>> /\ opened = {}
    /\ request = NoRequest /\ answer = NoAnswer
    /\ session = [c \in Contexts |-> NoSession]
    /\ focused = NoContext /\ alive = Contexts /\ suspended = {}
    /\ generation = [c \in Contexts |-> 1]
    /\ route = [c \in Contexts |-> [epoch |-> 0, revision |-> 0]]
    /\ remembered \in BOOLEAN /\ edits = {}
    /\ host = "idle" /\ ask = NoAnswer /\ tested = NoToken
    /\ press = NoToken
    /\ connections = 0 /\ asks = 0 /\ moves = 0 /\ pushes = 0
    /\ sent = {} /\ applied = {} /\ abandoned = {} /\ passed = {}

-----------------------------------------------------------------------------
\* PushTarget::invalidate, and closing the connection.

Invalidate == live' = 0 /\ cut' = TRUE /\ updates' = <<>>

\* Mutant: the contexts opened on one connection are taken for open on the next.
CloseKeepingOpened ==
    /\ conn' = 0 /\ up' = FALSE /\ subscribed' = FALSE
    /\ stream' = <<>> /\ UNCHANGED opened
    /\ request' = NoRequest /\ answer' = NoAnswer
    /\ session' = [c \in Contexts |-> NoSession]

\* Connection::close: its subscription and its transport end, and the engine
\* forgets its sessions.
Close ==
    /\ conn' = 0 /\ up' = FALSE /\ subscribed' = FALSE
    /\ stream' = <<>> /\ opened' = {}
    /\ request' = NoRequest /\ answer' = NoAnswer
    /\ session' = [c \in Contexts |-> NoSession]

\* disconnect_invalidated_client, and on to the next command.
Disconnect ==
    /\ Invalidate /\ Close
    /\ job' = Idle
    /\ UNCHANGED <<failed, commands, focused, contextVars, edits, keyVars,
                   boundVars, histVars>>

hostSide == <<focused, contextVars, edits, keyVars, histVars>>

-----------------------------------------------------------------------------
\* The worker: WorkerState::run and dispatch.

\* A key whose deadline passed in the queue is dropped with its sender.  The
\* deadline runs from the moment the host queued it.
ExpireKey ==
    /\ job = Idle /\ commands # <<>> /\ Head(commands).kind = "key"
    /\ commands' = Tail(commands)
    /\ UNCHANGED <<gateVars, updates, job, connVars, engineVars, hostSide,
                   boundVars>>

\* discard_disconnected_client: the connection lost its transport or its gate.
Stale == conn # 0 /\ (~up \/ live = 0)

\* Only these commands connect (ensure_connected).
Connects(kind) == kind \notin {"blur", "destroy"}

\* The next command: a dead connection is discarded first, then the command
\* waits for a connection, goes on with the one there is, or needs none.  The
\* host outwaits a key's deadline, by 20 ms, so that it gave none up whose
\* deadline has not passed.
TakeCommand ==
    /\ job = Idle /\ commands # <<>>
    /\ Head(commands).kind = "key" => Head(commands).ask = ask.ask
    /\ LET c == Head(commands)
           none == conn = 0 \/ Stale
           at == CASE none /\ Connects(c.kind)     -> "connecting"
                   [] ~none /\ c.kind # "log"      -> "stamp"
                   [] OTHER                        -> "idle"
       IN /\ job' = IF at = "idle" THEN Idle ELSE [c EXCEPT !.at = at]
          /\ IF Stale
             THEN live' = 0 /\ updates' = <<>> /\ Close
             ELSE UNCHANGED <<live, updates, connVars, engineVars>>
          \* The handshake captures the generation after the discard.
          /\ cut' = IF at = "connecting" THEN FALSE ELSE cut \/ Stale
    /\ commands' = Tail(commands)
    /\ UNCHANGED <<failed, hostSide, boundVars>>

\* connect_client: the Pong came and no invalidation did.
Connected ==
    /\ job.at = "connecting" /\ ~cut /\ connections < MaxConnections
    /\ connections' = connections + 1
    /\ conn' = connections + 1 /\ live' = connections + 1
    /\ up' = TRUE /\ subscribed' = TRUE
    /\ job' = IF job.kind = "log" THEN Idle ELSE [job EXCEPT !.at = "stamp"]
    /\ UNCHANGED <<cut, failed, updates, commands, stream, opened, engineVars,
                   hostSide, asks, moves, pushes>>

\* The pipe, the Ping or its answer failed, or the handshake was cancelled: a
\* key is answered with nothing, unless the host is no longer there.
ConnectFails ==
    /\ job.at = "connecting"
    /\ job' = Idle
    /\ IF job.kind = "key" /\ ask.ask # job.ask
       THEN Invalidate ELSE UNCHANGED <<live, cut, updates>>
    /\ UNCHANGED <<failed, commands, connVars, engineVars, hostSide, boundVars>>

\* The token is stamped with the epoch of this very moment.
StampToken ==
    /\ job.at = "stamp"
    /\ job' = [job EXCEPT !.at = "prepare", !.token.epoch = live]
    /\ UNCHANGED <<gateVars, updates, commands, connVars, engineVars, hostSide,
                   boundVars>>

Send(kind, at) ==
    /\ request' = [kind |-> kind, token |-> job.token, ask |-> job.ask]
    /\ answer' = NoAnswer
    /\ job' = [job EXCEPT !.at = at]

\* prepare_input_session, and context_command for a context never opened,
\* which is not destroyed.
Prepare ==
    /\ job.at = "prepare"
    /\ CASE job.token.context \in opened -> Send(job.kind, "asking")
         [] job.token.context \notin opened /\ job.kind = "destroy" ->
               job' = Idle /\ UNCHANGED <<request, answer>>
         [] OTHER -> Send("open", "opening")
    /\ UNCHANGED <<gateVars, updates, commands, connVars, session, hostSide,
                   boundVars>>

\* The session is open.  The mode is restored first, if one is remembered;
\* a blur opens the session without it.
SessionOpened ==
    /\ job.at = "opening" /\ answer.kind = "opened"
    /\ IF remembered /\ job.kind # "blur"
       THEN Send("set_ascii", "restoring") /\ UNCHANGED opened
       ELSE /\ opened' = opened \cup {job.token.context}
            /\ Send(job.kind, "asking")
    /\ UNCHANGED <<gateVars, updates, commands, conn, up, subscribed, stream,
                   session, hostSide, boundVars>>

ModeRestored ==
    /\ job.at = "restoring" /\ answer.kind = "reply"
    /\ answer.token = job.token
    /\ opened' = opened \cup {job.token.context}
    /\ Send(job.kind, "asking")
    /\ UNCHANGED <<gateVars, updates, commands, conn, up, subscribed, stream,
                   session, hostSide, boundVars>>

\* handle_key_event and dispatch: the answer to the key goes to the host if
\* the gate is open, the token is the key's and the host still waits for it.
AnswerKey ==
    /\ job.at = "asking" /\ job.kind = "key" /\ answer.kind = "reply"
    /\ live # 0 /\ answer.token = job.token
    /\ ask.ask = job.ask
    /\ ask' = answer
    /\ job' = Idle /\ request' = NoRequest /\ answer' = NoAnswer
    /\ UNCHANGED <<gateVars, updates, commands, connVars, session, focused,
                   contextVars, edits, host, tested, press, boundVars,
                   histVars>>

\* handle_context: a context destroyed by the engine is no longer open.
ContextDone ==
    /\ job.at = "asking" /\ job.kind # "key" /\ answer.kind = "reply"
    /\ opened' = IF job.kind = "destroy"
                 THEN opened \ {job.token.context} ELSE opened
    /\ job' = Idle /\ request' = NoRequest /\ answer' = NoAnswer
    /\ UNCHANGED <<gateVars, updates, commands, conn, up, subscribed, stream,
                   session, hostSide, boundVars>>

\* Every error: the request cannot be sent or is cut, the engine refuses it,
\* the answer does not fit, or nobody waits for it any more.
RequestFails ==
    /\ job.at \in {"opening", "restoring", "asking"}
    /\ \/ ~up /\ answer = NoAnswer
       \/ answer.kind = "failure"
       \/ answer.kind = "reply" /\ job.at = "restoring"
          /\ answer.token # job.token
       \/ answer.kind = "reply" /\ job.at = "asking" /\ job.kind = "key"
          /\ (live = 0 \/ answer.token # job.token \/ ask.ask # job.ask)
    /\ Disconnect

\* timeout_at: connecting or a request ran into the deadline.
Timeout ==
    /\ job.at \in {"connecting", "opening", "restoring", "asking"}
    /\ Disconnect

Worker ==
    \/ ExpireKey \/ TakeCommand \/ Connected \/ ConnectFails \/ StampToken
    \/ Prepare \/ SessionOpened \/ ModeRestored \/ AnswerKey \/ ContextDone
    \/ RequestFails \/ Timeout

-----------------------------------------------------------------------------
\* The engine at the other end of the pipe (server/src/engine.rs).

workerSide == <<gateVars, updates, commands, job>>

Answered(kind, revision, eaten) ==
    answer' = [kind |-> kind, token |-> request.token, revision |-> revision,
               ask |-> request.ask, eaten |-> eaten]

\* Every reply goes to the subscription before it completes the request.
Publish(r) == stream' = IF subscribed THEN Append(stream, r) ELSE stream

Pending == request # NoRequest /\ answer = NoAnswer /\ up

\* OpenInput: a session per context; opening it again needs the same token.
ServeOpen ==
    /\ Pending /\ request.kind = "open"
    /\ LET t == request.token
           c == t.context
       IN IF t.epoch # 0 /\ (session[c] = NoSession \/ session[c].token = t)
          THEN /\ Answered("opened", 0, FALSE)
               /\ session' = IF session[c] = NoSession
                             THEN [session EXCEPT ![c].token = t] ELSE session
          ELSE Answered("failure", 0, FALSE) /\ UNCHANGED session
    /\ UNCHANGED <<workerSide, connVars, request, hostSide, boundVars>>

\* SessionRoute::observe: the session's context, in a generation that is not
\* older.
Observed(t) ==
    /\ t.epoch # 0 /\ session[t.context] # NoSession
    /\ t.epoch = session[t.context].token.epoch
    /\ t.generation >= session[t.context].token.generation

\* A key that changed nothing keeps the revision, so the host drops its reply.
ServeKey ==
    /\ Pending /\ request.kind = "key" /\ Observed(request.token)
    /\ \E updated \in BOOLEAN, eaten \in BOOLEAN :
          LET c == request.token.context
              n == session[c].revision + (IF updated THEN 1 ELSE 0)
          IN /\ Answered("reply", n, eaten)
             /\ session' = [session EXCEPT ![c] = [token |-> request.token,
                                                   revision |-> n]]
             /\ Publish(answer')
             /\ sent' = IF updated THEN sent \cup {answer'} ELSE sent
    /\ UNCHANGED <<workerSide, conn, up, subscribed, opened, request, focused,
                   contextVars, edits, keyVars, boundVars, applied, abandoned,
                   passed>>

ServeCommand ==
    /\ Pending /\ request.kind \notin {"open", "key"} /\ Observed(request.token)
    /\ LET c == request.token.context
           n == session[c].revision + 1
       IN /\ Answered("reply", n, FALSE)
          /\ session' = [session EXCEPT ![c] =
                           IF request.kind = "destroy" THEN NoSession
                           ELSE [token |-> request.token, revision |-> n]]
          /\ Publish(answer') /\ sent' = sent \cup {answer'}
    /\ UNCHANGED <<workerSide, conn, up, subscribed, opened, request, focused,
                   contextVars, edits, keyVars, boundVars, applied, abandoned,
                   passed>>

Refuse ==
    /\ Pending /\ request.kind # "open" /\ ~Observed(request.token)
    /\ Answered("failure", 0, FALSE)
    /\ UNCHANGED <<workerSide, connVars, request, session, hostSide, boundVars>>

\* A reply nobody asked for: the user chose a candidate in the renderer.
Push ==
    /\ up /\ pushes < MaxPushes
    /\ pushes' = pushes + 1
    /\ \E c \in Contexts :
          LET n == session[c].revision + 1 IN
          /\ session[c] # NoSession
          /\ session' = [session EXCEPT ![c].revision = n]
          /\ LET r == [kind |-> "reply", token |-> session[c].token,
                       revision |-> n, ask |-> 0, eaten |-> FALSE]
             IN Publish(r) /\ sent' = sent \cup {r}
    /\ UNCHANGED <<workerSide, conn, up, subscribed, opened, request, answer,
                   focused, contextVars, edits, keyVars, connections, asks,
                   moves, applied, abandoned, passed>>

\* The server exits or takes the slot back: the transport closes.
Lose ==
    /\ up
    /\ up' = FALSE /\ session' = [c \in Contexts |-> NoSession]
    /\ UNCHANGED <<workerSide, conn, subscribed, stream, opened, request,
                   answer, hostSide, boundVars>>

Engine == ServeOpen \/ ServeKey \/ ServeCommand \/ Refuse \/ Push \/ Lose

-----------------------------------------------------------------------------
\* The subscription task of the connection (connect_client).

\* enqueue_update: a reply of a closed gate is dropped; a full queue ends the
\* connection, and keys are refused from then on.
Forward ==
    /\ subscribed /\ stream # <<>>
    /\ CASE live # conn -> stream' = Tail(stream)
               /\ UNCHANGED <<gateVars, updates, up, subscribed, session>>
         [] live = conn /\ Len(updates) < UpdateLimit ->
               /\ updates' = Append(updates, Head(stream))
               /\ stream' = Tail(stream)
               /\ UNCHANGED <<gateVars, up, subscribed, session>>
         [] OTHER ->
               /\ failed' = TRUE /\ Invalidate
               /\ up' = FALSE /\ subscribed' = FALSE /\ stream' = <<>>
               /\ session' = [c \in Contexts |-> NoSession]
    /\ UNCHANGED <<commands, job, conn, opened, request, answer, hostSide,
                   boundVars>>

\* The transport closed: what was not forwarded is lost.
SubscriptionEnds ==
    /\ subscribed /\ ~up
    /\ subscribed' = FALSE /\ stream' = <<>>
    /\ IF live = conn THEN Invalidate ELSE UNCHANGED <<live, cut, updates>>
    /\ UNCHANGED <<failed, commands, job, conn, up, opened, engineVars,
                   hostSide, boundVars>>

Subscription == Forward \/ SubscriptionEnds

-----------------------------------------------------------------------------
\* The host's COM thread: key callbacks (forward_key_event).

wire == <<job, connVars, engineVars>>

Command(kind, c, g, n) ==
    [at |-> "queued", kind |-> kind, ask |-> n,
     token |-> [context |-> c, epoch |-> 0, generation |-> g]]

\* OnKeyDown for the key OnTestKeyDown consumed, under the same token: the
\* answer is known.
ReuseTested ==
    /\ host = "idle" /\ press # NoToken /\ focused \in alive \ suspended
    /\ live # 0 /\ tested = Token(focused)
    /\ tested' = NoToken /\ press' = NoToken
    /\ UNCHANGED <<gateVars, updates, commands, wire, focused, contextVars,
                   edits, host, ask, boundVars, histVars>>

\* process_key_event queues the key and waits.
AskKey ==
    /\ host = "idle" /\ focused \in alive \ suspended /\ asks < MaxAsks
    /\ live = 0 \/ tested # Token(focused)
    /\ ~failed /\ Len(commands) < CommandLimit
    /\ asks' = asks + 1
    /\ commands' = Append(commands, Command("key", focused, generation[focused],
                                            asks + 1))
    /\ ask' = [NoAnswer EXCEPT !.ask = asks + 1]
    /\ host' = "waiting" /\ tested' = NoToken
    /\ UNCHANGED <<gateVars, updates, wire, focused, contextVars, edits, press,
                   connections, moves, pushes, histVars>>

\* A quarantined context, lost replies or a full queue: the key is the host's,
\* and nothing is invalidated.
PassKey ==
    /\ host = "idle" /\ press # NoToken /\ focused # NoContext
    /\ \/ focused \in suspended
       \/ /\ live = 0 \/ tested # Token(focused)
          /\ failed \/ Len(commands) >= CommandLimit
    /\ tested' = NoToken /\ press' = NoToken
    /\ UNCHANGED <<gateVars, updates, commands, wire, focused, contextVars,
                   edits, host, ask, boundVars, histVars>>

\* Mutant: the host passes the key on and leaves the connection open.
GiveUpQuietly ==
    /\ host = "waiting"
    /\ host' = "idle" /\ ask' = NoAnswer /\ press' = NoToken
    /\ abandoned' = abandoned \cup {ask.ask}
    /\ passed' = passed \cup {ask.ask}
    /\ UNCHANGED <<gateVars, updates, commands, wire, focused, contextVars,
                   edits, tested, boundVars, sent, applied>>

\* process_key_event: the wait ran out, the worker dropped the key or had
\* nothing to answer.  The gate is closed before the key is passed on, even if
\* the answer came at this very moment.
GiveUp ==
    /\ host = "waiting"
    /\ host' = "idle" /\ ask' = NoAnswer /\ press' = NoToken
    /\ abandoned' = abandoned \cup {ask.ask}
    /\ passed' = passed \cup {ask.ask}
    /\ Invalidate
    /\ UNCHANGED <<failed, commands, wire, focused, contextVars, edits, tested,
                   boundVars, sent, applied>>

\* Mutant: the answer is applied ahead of the replies that came before it.
ReceiveAndAccept ==
    /\ host = "waiting" /\ ask.kind = "reply"
    /\ host' = "answered"
    /\ tested' = IF Matches(ask.token) /\ press = NoToken /\ ask.eaten
                 THEN ask.token ELSE tested
    /\ edits' = IF Matches(ask.token) THEN edits \cup {ask} ELSE edits
    /\ UNCHANGED <<gateVars, updates, commands, wire, focused, contextVars,
                   ask, press, boundVars, histVars>>

\* Mutant: the key is cached under the epoch of the last reply accepted.
ReceiveUnderOldEpoch ==
    /\ host = "waiting" /\ ask.kind = "reply"
    /\ host' = "answered"
    /\ tested' = IF Matches(ask.token) /\ press = NoToken /\ ask.eaten
                 THEN [ask.token EXCEPT !.epoch = route[focused].epoch]
                 ELSE tested
    /\ UNCHANGED <<gateVars, updates, commands, wire, focused, contextVars,
                   edits, ask, press, boundVars, histVars>>

\* The answer is here: a consumed test is cached under the answer's token.
Receive ==
    /\ host = "waiting" /\ ask.kind = "reply"
    /\ host' = "answered"
    /\ tested' = IF Matches(ask.token) /\ press = NoToken /\ ask.eaten
                 THEN ask.token ELSE tested
    /\ UNCHANGED <<gateVars, updates, commands, wire, focused, contextVars,
                   edits, ask, press, boundVars, histVars>>

\* ResponseRoute::accept: the token is the context's, and the revision grew in
\* this connection.
Known(c) == IF route[c].epoch = live THEN route[c].revision ELSE 0

Acceptable(r) ==
    /\ live # 0 /\ Matches(r.token)
    /\ r.revision > Known(r.token.context)

\* The replies queued that are accepted one after the other.
Fresh ==
    {updates[i] : i \in {j \in DOMAIN updates :
        /\ Acceptable(updates[j])
        /\ \A k \in 1..j-1 :
              updates[k].token = updates[j].token
              => updates[k].revision < updates[j].revision}}

Newest(c) ==
    CHOOSE n \in {r.revision : r \in {q \in Fresh : q.token.context = c}} :
        \A r \in Fresh : r.token.context = c => r.revision <= n

\* drain_context_updates, on the window's message or before a key's verdict:
\* every context takes its replies, and asks for an edit for each it accepts.
Drain ==
    /\ host = "answered" \/ (host = "idle" /\ updates # <<>>)
    /\ host' = IF host = "answered" THEN "drained" ELSE host
    /\ edits' = edits \cup Fresh
    /\ route' = [c \in Contexts |->
                   IF \E r \in Fresh : r.token.context = c
                   THEN [epoch |-> live, revision |-> Newest(c)]
                   ELSE route[c]]
    /\ remembered' = (remembered \/ \E r \in Fresh : r.token.context = focused)
    /\ updates' = <<>>
    /\ UNCHANGED <<gateVars, commands, wire, focused, alive, suspended,
                   generation, ask, tested, press, boundVars, histVars>>

\* DoEditSession: the host grants the edit at once or later, and the token is
\* checked again then.
ApplyEdit ==
    /\ host \in {"idle", "drained"}
    /\ \E r \in edits :
          /\ \A q \in edits :
                /\ q.token.context = r.token.context
                /\ q.token.epoch = r.token.epoch
                => r.revision <= q.revision
          /\ edits' = edits \ {r}
          /\ applied' = IF Matches(r.token) THEN applied \cup {r} ELSE applied
    /\ UNCHANGED <<gateVars, updates, commands, wire, focused, contextVars,
                   keyVars, boundVars, sent, abandoned, passed>>

\* The verdict on the key: consumed if the engine said so and the answer is
\* still the context's, otherwise the host's.
Decide ==
    /\ host = "drained"
    /\ host' = "idle" /\ ask' = NoAnswer
    /\ IF Matches(ask.token) /\ ask.eaten
       THEN /\ press' = IF press = NoToken THEN ask.token ELSE NoToken
            /\ UNCHANGED passed
       ELSE press' = NoToken /\ passed' = passed \cup {ask.ask}
    /\ UNCHANGED <<gateVars, updates, commands, wire, focused, contextVars,
                   edits, tested, boundVars, sent, applied, abandoned>>

Key == \/ ReuseTested \/ AskKey \/ PassKey \/ GiveUp \/ Receive \/ Drain
       \/ ApplyEdit \/ Decide

-----------------------------------------------------------------------------
\* The host's COM thread: contexts (service/context.rs).

\* context_command for each of cs in turn: the queue never waits, and a
\* command it refuses closes the gate.
Refused(cs) ==
    {cs[i].token.context :
        i \in {j \in DOMAIN cs : Len(commands) + j > CommandLimit}}

Submit(cs) ==
    IF Refused(cs) = {}
    THEN commands' = commands \o cs /\ UNCHANGED <<live, cut, updates>>
    ELSE /\ commands' = commands \o SubSeq(cs, 1, CommandLimit - Len(commands))
         /\ Invalidate

Move == host = "idle" /\ moves < MaxMoves /\ moves' = moves + 1

\* quarantine: a context suspended is of a new generation.
Quarantine(cs, g) ==
    /\ suspended' = suspended \cup cs
    /\ generation' = [c \in Contexts |->
                        IF c \in cs \ suspended THEN g[c] + 1 ELSE g[c]]

Blur(c) == IF c \in alive THEN <<Command("blur", c, generation[c], 0)>> ELSE <<>>

\* focus_context: the context that loses the focus is blurred, then the next
\* one focused.  One whose command is refused is quarantined if it composes.
\* The host gives a tested key no second callback once the focus moved.
Focus ==
    /\ Move
    /\ \E c \in alive \cup {NoContext} :
          LET cs == Blur(focused) \o
                    (IF c \in alive \ suspended
                     THEN <<Command("focus", c, generation[c], 0)>> ELSE <<>>)
          IN /\ c # focused /\ focused' = c
             /\ Submit(cs)
             /\ \E composing \in SUBSET Refused(cs) :
                   Quarantine(composing, generation)
    /\ tested' = NoToken /\ press' = NoToken
    /\ UNCHANGED <<failed, wire, alive, route, remembered, edits, host, ask,
                   connections, asks, pushes, histVars>>

\* send_context_action with invalidate (the host deleted the preedit, or ended
\* the composition): the context enters a new generation.
Cancel ==
    /\ Move
    /\ \E c \in alive \ suspended :
          LET cs == <<Command("cancel", c, generation[c] + 1, 0)>> IN
          /\ Submit(cs)
          /\ Quarantine(Refused(cs),
                        [generation EXCEPT ![c] = generation[c] + 1])
    \* One cache for all contexts: a pressed key's test is forgotten with it.
    /\ tested' = NoToken
    /\ press' = IF press = NoToken THEN NoToken ELSE [press EXCEPT !.generation = 0]
    /\ UNCHANGED <<failed, wire, focused, alive, route, remembered, edits, host,
                   ask, connections, asks, pushes, histVars>>

\* remove_context: blurred first if it has the focus, then destroyed.
Remove ==
    /\ Move
    /\ \E c \in alive :
          /\ alive' = alive \ {c}
          /\ Submit((IF focused = c THEN Blur(c) ELSE <<>>) \o
                    <<Command("destroy", c, generation[c] + 1, 0)>>)
          /\ generation' = [generation EXCEPT ![c] = @ + 1]
          /\ edits' = {r \in edits : r.token.context # c}
          /\ focused' = IF focused = c THEN NoContext ELSE focused
          /\ tested' = IF focused = c THEN NoToken ELSE tested
          /\ press' = IF focused = c THEN NoToken ELSE press
    /\ UNCHANGED <<failed, wire, suspended, route, remembered, host, ask,
                   connections, asks, pushes, histVars>>

\* RpcWorker::log: a log the queue has no room for is dropped.
Log ==
    /\ Move /\ Len(commands) < CommandLimit
    /\ commands' = Append(commands, Command("log", NoContext, 0, 0))
    /\ UNCHANGED <<gateVars, updates, wire, focused, contextVars, edits,
                   keyVars, connections, asks, pushes, histVars>>

Next ==
    \/ Worker \/ Engine \/ Subscription \/ Key
    \/ Focus \/ Cancel \/ Remove \/ Log

Spec == Init /\ [][Next]_vars

-----------------------------------------------------------------------------
\* Properties.

Tokens == [context : Contexts \cup {NoContext}, epoch : 0..MaxConnections,
           generation : Nat]
Replies == [kind : {"none", "opened", "failure", "reply"}, token : Tokens,
            revision : Nat, ask : 0..MaxAsks, eaten : BOOLEAN]
Kinds == {"none", "key", "focus", "blur", "cancel", "destroy", "log"}
Jobs == [at : {"idle", "queued", "connecting", "stamp", "prepare", "opening",
               "restoring", "asking"},
         kind : Kinds, token : Tokens, ask : 0..MaxAsks]

\* The type of every variable and the bounds of both queues, filled by threads
\* that never wait for room.
TypeOK ==
    /\ live \in 0..MaxConnections /\ cut \in BOOLEAN /\ failed \in BOOLEAN
    /\ updates \in Seq(Replies) /\ Len(updates) <= UpdateLimit
    /\ commands \in Seq(Jobs) /\ Len(commands) <= CommandLimit
    /\ job \in Jobs /\ conn \in 0..MaxConnections
    /\ up \in BOOLEAN /\ subscribed \in BOOLEAN
    /\ stream \in Seq(Replies) /\ opened \subseteq Contexts
    /\ request \in [kind : Kinds \cup {"open", "set_ascii"}, token : Tokens,
                    ask : 0..MaxAsks]
    /\ answer \in Replies
    /\ session \in [Contexts -> [token : Tokens, revision : Nat]]
    /\ focused \in Contexts \cup {NoContext}
    /\ alive \subseteq Contexts /\ suspended \subseteq Contexts
    /\ generation \in [Contexts -> Nat] /\ remembered \in BOOLEAN
    /\ route \in [Contexts -> [epoch : 0..MaxConnections, revision : Nat]]
    /\ edits \subseteq Replies
    /\ host \in {"idle", "waiting", "answered", "drained"}
    /\ ask \in Replies /\ tested \in Tokens /\ press \in Tokens
    /\ sent \subseteq Replies /\ applied \subseteq Replies
    /\ abandoned \subseteq 1..MaxAsks /\ passed \subseteq 1..MaxAsks

\* A key process_key_event gave up is the host application's: no reply to it
\* that comes later, by either way, ever changes the text
\* ("Invalidate queued racing replies before English fallback").
AbandonedIsSilent == \A r \in applied : r.ask \notin abandoned

\* A reply of the open connection, in the context's generation, is somewhere on
\* its way to the text until it is there: no race between the subscription, the
\* host's wait and its drains loses one.
NothingLost ==
    \A r \in sent :
        live # 0 /\ Matches(r.token) =>
            r \in Elements(stream) \cup Elements(updates) \cup edits \cup applied

\* Replies of one token change the text in the order the engine sent them, with
\* none left out, the answer to a key among them.
InOrder ==
    \A r \in applied : \A q \in sent :
        q.token = r.token /\ q.revision < r.revision => q \in applied

\* The contexts the connection holds for open are the engine's sessions, except
\* for the one the worker is busy with.
SessionsAgree ==
    up => \A c \in Contexts \ {job.token.context} :
             c \in opened <=> session[c] # NoSession

\* The engine never refuses a request of an open gate: the order of focus,
\* keys, cancellations and removals that reaches it never looks stale to it.
NeverRefused == answer.kind = "failure" => request.token.epoch = 0

\* A key consumed in its test is not sent to the engine again under the same
\* connection and generation, unless a cancellation came between.
OncePerPress ==
    [][host = "idle" /\ host' = "waiting" => press # Token(focused)]_vars

\* What the comments promise of a key left to the host ("timeouts and
\* disconnects drop late results, so that input can safely fall back"): its
\* reply does not change the text as well.
ConsumedIsNotPassed == \A r \in applied : r.eaten => r.ask \notin passed

\* The invariant of the channel: the types and the bounds of both queues, and no
\* request of an open gate that the engine would refuse.
Inv == TypeOK /\ NeverRefused

\* The invariant of contexts and routes: no live reply is lost, replies change the
\* text in their order, and worker and engine agree on the open sessions.
RepliesAreRouted == NothingLost /\ InOrder /\ SessionsAgree
=============================================================================
