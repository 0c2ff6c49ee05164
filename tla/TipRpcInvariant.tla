-------------------------- MODULE TipRpcInvariant ---------------------------
(***************************************************************************)
(* The inductive invariant behind what TipRpc promises (Inv,               *)
(* AbandonedIsSilent, RepliesAreRouted, OncePerPress), none of which is    *)
(* inductive by itself.  IInv is the conjunction of its parts:             *)
(*                                                                         *)
(*   - the gate is the worker's connection's, and what waits behind it is  *)
(*     of that connection (GateIsOwned);                                   *)
(*   - the worker's command, its request, the engine's answer, the         *)
(*     sessions and the contexts opened fit together (JobIsServed,         *)
(*     AnswerFits, SessionsAreOpened);                                     *)
(*   - generations go up from the session to the context, and a context's  *)
(*     destroying command is its last (GenerationsGrow, DestroyIsLast);    *)
(*   - what is left of a key that was given up is behind a closed gate     *)
(*     (AbandonedIsDead, AskedOnce);                                       *)
(*   - replies are bounded by their session's revision and come in order   *)
(*     (RepliesAreKnown, NothingIsLost, NothingIsSkipped);                 *)
(*   - the press under way is the one that is cached (PressIsTested).      *)
(***************************************************************************)
EXTENDS TipRpc

Phases == {"prepare", "opening", "restoring", "asking"}
Asked  == {"opening", "restoring", "asking"}

\* What TypeOK leaves out: the counters, each within its bound, and what grew with
\* them.
Counted ==
    /\ connections \in 0..MaxConnections /\ asks \in 0..MaxAsks
    /\ moves \in Nat /\ pushes \in Nat
    /\ live <= connections /\ conn <= connections
    /\ abandoned \subseteq 1..asks
    /\ \A c \in Contexts : generation[c] >= 1

\* An open gate is the gate of the connection the worker holds, whose
\* subscription runs; what waits for the host came over it.
GateIsOwned ==
    /\ live # 0 => conn = live /\ subscribed
    /\ live = 0 => updates = <<>>
    /\ conn = 0 => /\ ~up /\ ~subscribed /\ stream = <<>> /\ opened = {}
                   /\ request = NoRequest
    /\ \A i \in DOMAIN stream : stream[i].token.epoch = conn
    /\ \A i \in DOMAIN updates : updates[i].token.epoch = live

\* The worker's command, and what it sent for it.
JobIsServed ==
    /\ job.at # "queued"
    /\ job.at = "idle" => job = Idle
    /\ job.at = "connecting" =>
          /\ conn = 0
          /\ job.kind \in {"key", "focus", "blur", "cancel", "destroy", "log"}
          /\ job.kind # "log" => job.token.context \in Contexts
    /\ job.at \in {"stamp"} \cup Phases =>
          /\ conn # 0 /\ job.token.context \in Contexts
          /\ job.kind \in {"key", "focus", "blur", "cancel", "destroy"}
    /\ job.at \in {"connecting", "stamp"} => job.token.epoch = 0
    /\ job.at \in Phases => job.token.epoch \in {0, conn}
    /\ job.at \notin Asked => request = NoRequest /\ answer = NoAnswer
    /\ job.at \in Asked => request.token = job.token /\ request.ask = job.ask
    /\ job.at = "opening" => request.kind = "open"
    /\ job.at = "restoring" => request.kind = "set_ascii"
    /\ job.at = "asking" => request.kind = job.kind

\* The engine's answer is to the request.
AnswerFits ==
    answer # NoAnswer =>
        /\ answer.token = request.token /\ answer.ask = request.ask
        /\ answer.kind \in {"opened", "reply", "failure"}
        /\ answer.kind = "opened" => request.kind = "open"
        /\ answer.kind = "reply" => request.kind # "open"
        /\ answer.kind \in {"opened", "reply"} => request.token.epoch # 0

\* The sessions are those of the connection, and the worker's command is the only
\* one that may be ahead of opened.
SessionsAreOpened ==
    /\ ~up => \A c \in Contexts : session[c] = NoSession
    /\ \A c \in Contexts : session[c] # NoSession =>
          session[c].token.context = c /\ session[c].token.epoch = conn
    /\ up => \A c \in Contexts :
          job.at \notin Asked \/ c # job.token.context =>
              (c \in opened <=> session[c] # NoSession)
    /\ job.at \in {"opening", "restoring"} => job.token.context \notin opened
    /\ job.at = "asking" => job.token.context \in opened
    /\ up /\ job.at = "opening" /\ answer.kind # "opened" =>
          session[job.token.context] = NoSession
    /\ up /\ job.at = "opening" /\ answer.kind = "opened" =>
          session[job.token.context] # NoSession
    /\ up /\ job.at = "restoring" => session[job.token.context] # NoSession
    /\ up /\ job.at = "asking" =>
          (session[job.token.context] = NoSession
           <=> job.kind = "destroy" /\ answer.kind = "reply")

\* The generations of a context go up from its session over the worker's command
\* and the queue to the context.
GenerationsGrow ==
    /\ \A c \in Contexts : session[c].token.generation <= generation[c]
    /\ \A i \in DOMAIN commands : commands[i].token.context \in Contexts =>
          LET t == commands[i].token IN
          /\ session[t.context].token.generation <= t.generation
          /\ t.generation <= generation[t.context]
          /\ job.token.context = t.context =>
                job.token.generation <= t.generation
          /\ \A j \in DOMAIN commands :
                i < j /\ commands[j].token.context = t.context =>
                    t.generation <= commands[j].token.generation
    /\ job.token.context \in Contexts =>
          /\ session[job.token.context].token.generation <= job.token.generation
          /\ job.token.generation <= generation[job.token.context]

\* What is in the queue.
QueueIsKnown ==
    \A i \in DOMAIN commands :
        /\ commands[i].at = "queued" /\ commands[i].token.epoch = 0
        /\ commands[i].kind \in {"key", "focus", "blur", "cancel", "destroy", "log"}
        /\ commands[i].kind # "log" => commands[i].token.context \in Contexts
        /\ commands[i].kind = "log" => commands[i].token.context = NoContext
        /\ commands[i].kind # "key" => commands[i].ask = 0

\* The last command for a context destroys it, and only when it is removed.
DestroyIsLast ==
    /\ \A i \in DOMAIN commands : commands[i].kind = "destroy" =>
          /\ commands[i].token.context \notin alive
          /\ \A j \in DOMAIN commands :
                i < j => commands[j].token.context # commands[i].token.context
    /\ job.kind = "destroy" =>
          /\ job.token.context \notin alive
          /\ \A i \in DOMAIN commands :
                commands[i].token.context # job.token.context

-----------------------------------------------------------------------------
\* Keys given up.

\* No reply under the token can match any more.
Dead(t) == t.epoch = 0 \/ t.epoch # live

OnTheWay == Elements(stream) \cup Elements(updates) \cup edits

AbandonedIsDead ==
    /\ host = "idle" <=> ask.ask = 0
    /\ ask.ask \notin abandoned /\ ask.ask <= asks
    /\ ask.kind # "none" => ask.kind = "reply" /\ ask.token.epoch \in 1..connections
    /\ host \in {"answered", "drained"} => ask.kind = "reply"
    /\ \A i \in DOMAIN commands : commands[i].ask <= asks
    /\ job.ask <= asks
    /\ job.kind # "key" => job.ask = 0
    /\ job.ask \in abandoned =>
          /\ job.at = "connecting" => cut
          /\ job.at = "stamp" => live = 0
          /\ job.at \in Phases => Dead(job.token)
    /\ \A r \in OnTheWay : r.ask \in abandoned => Dead(r.token)
    /\ \A r \in OnTheWay \cup applied : r.ask <= asks
    /\ host \in {"waiting", "answered"} =>
          \A r \in applied : r.ask # ask.ask

\* A key asked is in one place: in the queue, with the worker, or answered.
AskedOnce ==
    /\ \A i, j \in DOMAIN commands :
          i # j /\ commands[i].ask # 0 => commands[j].ask # commands[i].ask
    /\ job.ask # 0 => \A i \in DOMAIN commands : commands[i].ask # job.ask
    /\ ask.kind = "reply" /\ ask.ask # 0 =>
          /\ job.ask # ask.ask
          /\ \A i \in DOMAIN commands : commands[i].ask # ask.ask

-----------------------------------------------------------------------------
\* Replies and their order.

\* The context was removed, and the engine has served all that was queued for it.
Gone(c) ==
    /\ c \notin alive
    /\ \A i \in DOMAIN commands : commands[i].token.context # c
    /\ job.token.context = c =>
          job.at = "asking" /\ job.kind = "destroy" /\ answer.kind = "reply"

\* The context's session went on to this revision, or is no more.
Bounded(c, n) ==
    IF session[c] = NoSession THEN Gone(c) ELSE n <= session[c].revision

Published == OnTheWay \cup applied \cup sent

\* A reply is of a context and of a connection there was, in a generation the
\* context has reached; the session's revision is the highest of its connection,
\* and a session that published is not opened again.
RepliesAreKnown ==
    /\ \A r \in Published :
          /\ r.token.context \in Contexts
          /\ r.token.epoch \in 1..connections
          /\ r.token.generation <= generation[r.token.context]
          /\ up /\ r.token.epoch = conn => Bounded(r.token.context, r.revision)
    /\ \A c \in Contexts :
          /\ route[c].epoch <= connections
          /\ up /\ route[c].epoch = conn => Bounded(c, route[c].revision)

\* Ahead of the replies of its context that come before it.
Ahead(q, s, n) ==
    \A k \in 1..n : s[k].token.context = q.token.context => s[k].revision < q.revision

\* A reply that the next drains will accept.
Coming(q) ==
    /\ q.revision > Known(q.token.context)
    /\ \/ \E j \in DOMAIN updates : updates[j] = q /\ Ahead(q, updates, j - 1)
       \/ \E j \in DOMAIN stream : /\ stream[j] = q /\ Ahead(q, stream, j - 1)
                                   /\ Ahead(q, updates, Len(updates))

NothingIsLost ==
    \A q \in sent : live # 0 /\ Matches(q.token) =>
        q \in edits \cup applied \/ Coming(q)

NothingIsSkipped ==
    \A r \in edits \cup applied : \A q \in sent :
        /\ live # 0 /\ Matches(r.token)
        /\ q.token = r.token /\ q.revision < r.revision
        => q \in edits \cup applied

-----------------------------------------------------------------------------
\* A pressed key whose token is still its context's is cached.
PressIsTested ==
    /\ press # NoToken => press.epoch \in 1..connections
    /\ focused # NoContext /\ press = Token(focused) => tested = press
    /\ host \in {"answered", "drained"} /\ press = NoToken
       /\ ask.eaten /\ Matches(ask.token) => tested = ask.token
    /\ focused # NoContext => focused \in alive

IInv ==
    /\ TypeOK /\ Counted /\ GateIsOwned /\ JobIsServed /\ AnswerFits
    /\ SessionsAreOpened /\ GenerationsGrow /\ QueueIsKnown /\ DestroyIsLast
    /\ AbandonedIsDead /\ AbandonedIsSilent /\ AskedOnce
    /\ RepliesAreKnown /\ NothingIsLost /\ NothingIsSkipped /\ InOrder
    /\ PressIsTested /\ NeverRefused
=============================================================================
