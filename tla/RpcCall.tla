------------------------------ MODULE RpcCall -------------------------------
(***************************************************************************)
(* One connection of the RPC (common/src/rpc): the listener that accepts   *)
(* it, the client with its requests and events, the two pipes, and the     *)
(* server's ends of it.                                                    *)
(*                                                                         *)
(* Four tasks work on a connection, a reader and a writer on each side.    *)
(* The two of a side share a signal that ends both; a pipe is closed when  *)
(* both tasks of a side are gone.  A message is its request number, 0 for  *)
(* an event and Bad for one that breaks the protocol.                      *)
(***************************************************************************)
EXTENDS Integers, Sequences, SequencesExt, FiniteSets

CONSTANTS
  Calls,       \* request numbers
  MaxPending,  \* requests that may wait (64)
  OutQueue,    \* messages before a writer (32, 64)
  InQueue,     \* messages before the server's business (64)
  Pipe,        \* messages in the buffer of a pipe
  MaxEvents,   \* bound on events of either side
  MaxFaults    \* bound on what goes wrong

\* What is assumed of the constants.
RpcCallAssumption ==
  /\ Calls \subseteq Nat \ {0}
  /\ {MaxPending, OutQueue, InQueue, Pipe, MaxEvents, MaxFaults} \subseteq Nat

Event == 0
Bad == -1
Hello == -2

VARIABLES
  instance,  \* the listener's next pipe instance
  call,      \* what each request does or how it ended
  slot,      \* the one-shot channel of each request
  pending,   \* PendingRequests: open, and the numbers registered
  closed,    \* the close signal of each side
  reader,    \* the reader task of each side
  writer,    \* the writer task of each side
  outq,      \* messages before the writer of each side
  pipe,      \* messages on the way from each side
  inq,       \* messages before the server's business
  work,      \* requests the business holds
  stream,    \* what the client's subscribers were given
  dispatched,\* the response the client's reader has published and not completed
  events,    \* events published by both sides
  faults

vars == <<instance, call, slot, pending, closed, reader, writer, outq, pipe, inq, work, stream,
          dispatched, events, faults>>

Sides == {"client", "server"}
Other(s) == IF s = "client" THEN "server" ELSE "client"

Ends == {"reply", "disconnected", "timeout", "overloaded", "invalid"}
Open(c) == call[c] \in {"checked", "sending", "waiting"}

Fault == faults < MaxFaults /\ faults' = faults + 1

\* Both tasks of a side are gone, and the handle of its pipe with them.
Hung(s) == reader[s] = "gone" /\ writer[s] = "gone"

(***************************************************************************)
(* Requests (client.rs, client/pending.rs).                                *)
(***************************************************************************)
\* request: the connection stands and the payload is valid; a payload that is not
\* is the caller's affair.
Ask(c) ==
  /\ call[c] = "idle" /\ reader.client # "none"
  /\ \/ call' = [call EXCEPT ![c] = IF closed.client THEN "disconnected" ELSE "checked"]
     \/ ~closed.client /\ call' = [call EXCEPT ![c] = "invalid"]
  /\ UNCHANGED <<instance, slot, pending, closed, reader, writer, outq, pipe, inq, work, stream,
                 dispatched, events, faults>>

\* PendingRequests::register: closed for good, full, or registered, under one lock.
Register(c) ==
  /\ call[c] = "checked"
  /\ IF ~pending.open THEN call' = [call EXCEPT ![c] = "disconnected"] /\ UNCHANGED pending
     ELSE IF Cardinality(pending.ids) >= MaxPending
     THEN call' = [call EXCEPT ![c] = "overloaded"] /\ UNCHANGED pending
     ELSE /\ call' = [call EXCEPT ![c] = "sending"]
          /\ pending' = [pending EXCEPT !.ids = @ \cup {c}]
  /\ UNCHANGED <<instance, slot, closed, reader, writer, outq, pipe, inq, work, stream, dispatched,
                 events, faults>>

\* PendingCall::drop.
Cancelled(c) == [pending EXCEPT !.ids = @ \ {c}]

Ended(c, how) ==
  /\ call' = [call EXCEPT ![c] = how] /\ pending' = Cancelled(c)
  /\ UNCHANGED <<instance, slot, closed, reader, writer, pipe, inq, work, stream, dispatched,
                 events>>

\* The request waits for room before the writer; a writer that is gone ends it.
Queue(c) ==
  /\ call[c] = "sending" /\ writer.client # "gone" /\ Len(outq.client) < OutQueue
  /\ outq' = [outq EXCEPT !.client = Append(@, c)]
  /\ call' = [call EXCEPT ![c] = "waiting"]
  /\ UNCHANGED <<instance, slot, pending, closed, reader, writer, pipe, inq, work, stream,
                 dispatched, events, faults>>

QueueFails(c) ==
  /\ call[c] = "sending" /\ writer.client = "gone"
  /\ Ended(c, "disconnected") /\ UNCHANGED <<outq, faults>>

Answered(c) ==
  /\ call[c] = "waiting" /\ slot[c] # "none"
  /\ Ended(c, slot[c]) /\ UNCHANGED <<outq, faults>>

\* The deadline, or a caller that cancels the future.
TimesOut(c) ==
  /\ call[c] \in {"sending", "waiting"} /\ slot[c] = "none"
  /\ Fault
  /\ Ended(c, "timeout") /\ UNCHANGED outq

\* publish on the client, enqueue on the server: an event that finds no room
\* closes the connection.
PublishEvent(s, m) ==
  /\ reader[s] # "none" /\ ~closed[s] /\ writer[s] # "gone" /\ events < MaxEvents
  /\ events' = events + 1
  /\ IF Len(outq[s]) < OutQueue
     THEN outq' = [outq EXCEPT ![s] = Append(@, m)] /\ UNCHANGED closed
     ELSE closed' = [closed EXCEPT ![s] = TRUE] /\ UNCHANGED outq
  /\ UNCHANGED <<instance, call, slot, pending, reader, writer, pipe, inq, work, stream, dispatched>>

Publish == \E s \in Sides : PublishEvent(s, Event) /\ UNCHANGED faults
PublishBad == PublishEvent("client", Bad) /\ Fault

(***************************************************************************)
(* The end of a connection.                                                *)
(***************************************************************************)
\* PendingRequests::close.
Drained == [open |-> FALSE, ids |-> {}]

Disconnected(c) == IF c \in pending.ids THEN "disconnected" ELSE slot[c]

\* Requests are told before the signal is raised (close_connection); the server
\* has only the signal.
Closes(s) ==
  /\ IF s = "client"
     THEN pending' = Drained /\ slot' = [c \in Calls |-> Disconnected(c)]
     ELSE UNCHANGED <<pending, slot>>
  /\ closed' = [closed EXCEPT ![s] = TRUE]

\* The receiver of the queue goes with the writer.
WriterEnds(s) ==
  /\ Closes(s)
  /\ writer' = [writer EXCEPT ![s] = "gone"]
  /\ outq' = [outq EXCEPT ![s] = <<>>]
  /\ UNCHANGED reader

\* Mutant of ReaderEnds: the reader leaves without a word.
ReaderEndsQuietly(s) ==
  /\ reader' = [reader EXCEPT ![s] = "gone"]
  /\ UNCHANGED <<closed, pending, slot, writer, outq>>

ReaderEnds(s) ==
  /\ Closes(s)
  /\ reader' = [reader EXCEPT ![s] = "gone"]
  /\ UNCHANGED <<writer, outq>>

\* A task sees the signal; a reader also sees that the other end hung up.
WriterStops(s) ==
  /\ writer[s] \in {"hello", "run"} /\ closed[s]
  /\ WriterEnds(s)
  /\ UNCHANGED <<instance, call, pipe, inq, work, stream, dispatched, events, faults>>

ReaderStops(s) ==
  /\ reader[s] \in {"hello", "run"}
  /\ closed[s] \/ (Hung(Other(s)) /\ pipe[Other(s)] = <<>>)
  /\ ReaderEnds(s)
  /\ UNCHANGED <<instance, call, pipe, inq, work, stream, dispatched, events, faults>>

\* RpcClient::disconnect and RpcConnection::drop: the signal is raised and both
\* tasks are aborted, a client's requests first told.
Disconnect(s) ==
  /\ reader[s] # "none" /\ ~Hung(s) /\ Fault
  /\ Closes(s)
  /\ reader' = [reader EXCEPT ![s] = "gone"] /\ writer' = [writer EXCEPT ![s] = "gone"]
  /\ outq' = [outq EXCEPT ![s] = <<>>]
  /\ dispatched' = IF s = "client" THEN {} ELSE dispatched
  /\ inq' = IF s = "server" THEN <<>> ELSE inq
  /\ UNCHANGED <<instance, call, pipe, work, stream, events>>

(***************************************************************************)
(* Readers and writers.                                                    *)
(***************************************************************************)
WritesHello(s) ==
  /\ writer[s] = "hello" /\ Len(pipe[s]) < Pipe /\ ~Hung(Other(s))
  /\ pipe' = [pipe EXCEPT ![s] = Append(@, Hello)]
  /\ writer' = [writer EXCEPT ![s] = "run"]
  /\ UNCHANGED <<instance, call, slot, pending, closed, reader, outq, inq, work, stream, dispatched,
                 events, faults>>

\* pack: the payload fits its number (a request or a response has one, an event
\* has none) and its fields are within their bounds.
Packable(m) == m # Bad

\* A frame is packed and written.
Write(s) ==
  /\ writer[s] = "run" /\ outq[s] # <<>> /\ Packable(Head(outq[s]))
  /\ Len(pipe[s]) < Pipe /\ ~Hung(Other(s))
  /\ pipe' = [pipe EXCEPT ![s] = Append(@, Head(outq[s]))]
  /\ outq' = [outq EXCEPT ![s] = Tail(@)]
  /\ UNCHANGED <<instance, call, slot, pending, closed, reader, writer, inq, work, stream,
                 dispatched, events, faults>>

\* A frame that cannot be packed, or a pipe that was closed, ends the writer.
WriteFails(s) ==
  /\ \/ writer[s] = "run" /\ outq[s] # <<>> /\ (~Packable(Head(outq[s])) \/ Hung(Other(s)))
     \/ writer[s] = "hello" /\ Hung(Other(s))
  /\ WriterEnds(s)
  /\ UNCHANGED <<instance, call, pipe, inq, work, stream, dispatched, events, faults>>

\* A frame that finds no room in time ends the writer too.
WriteTimesOut(s) ==
  /\ writer[s] = "run" /\ outq[s] # <<>> /\ Len(pipe[s]) >= Pipe /\ Fault
  /\ WriterEnds(s)
  /\ UNCHANGED <<instance, call, pipe, inq, work, stream, dispatched, events>>

\* The hello comes first and in time, and with a role that may connect.
ReadsHello(s) ==
  /\ reader[s] = "hello" /\ pipe[Other(s)] # <<>> /\ Head(pipe[Other(s)]) = Hello
  /\ pipe' = [pipe EXCEPT ![Other(s)] = Tail(@)]
  /\ reader' = [reader EXCEPT ![s] = "run"]
  /\ UNCHANGED <<instance, call, slot, pending, closed, writer, outq, inq, work, stream, dispatched,
                 events, faults>>

HelloFails(s) ==
  /\ reader[s] = "hello" /\ Fault
  /\ s = "server" => Len(inq) < InQueue
  /\ inq' = IF s = "server" THEN Append(inq, Bad) ELSE inq
  /\ ReaderEnds(s)
  /\ UNCHANGED <<instance, call, pipe, work, stream, dispatched, events>>

\* dispatch_incoming: subscribers get the message before the request is woken.
ClientPublishes ==
  /\ reader.client = "run" /\ dispatched = {} /\ pipe.server # <<>>
  /\ LET m == Head(pipe.server) IN
     /\ stream' = stream \cup {m}
     /\ dispatched' = {m} \ {Event}
  /\ pipe' = [pipe EXCEPT !.server = Tail(@)]
  /\ UNCHANGED <<instance, call, slot, pending, closed, reader, writer, outq, inq, work, events,
                 faults>>

\* PendingRequests::complete: a late answer finds nobody.
ClientCompletes ==
  /\ reader.client = "run"
  /\ \E m \in dispatched :
       /\ slot' = [c \in Calls |-> IF c = m /\ c \in pending.ids THEN "reply" ELSE slot[c]]
       /\ pending' = [pending EXCEPT !.ids = @ \ {m}]
  /\ dispatched' = {}
  /\ UNCHANGED <<instance, call, closed, reader, writer, outq, pipe, inq, work, stream, events,
                 faults>>

\* decode and unpack: the version, the body and the fields of a frame are right.
Unpacked(m) == {m, Bad}

\* validate_business: the message is one the peer's role may send.
Allowed(m) == {m, Bad}

\* A frame is decoded, its message must be allowed to the role of the peer, and
\* the business gets the message or the error; an error is the end.
ServerReads ==
  /\ reader.server = "run" /\ pipe.client # <<>> /\ Len(inq) < InQueue
  /\ pipe' = [pipe EXCEPT !.client = Tail(@)]
  /\ \E u \in Unpacked(Head(pipe.client)) : \E m \in Allowed(u) :
       /\ inq' = Append(inq, m)
       /\ IF m = Bad THEN Fault /\ ReaderEnds("server")
          ELSE UNCHANGED <<slot, pending, closed, reader, writer, outq, faults>>
  /\ UNCHANGED <<instance, call, work, stream, dispatched, events>>

(***************************************************************************)
(* The business of the server and its listener.                            *)
(***************************************************************************)
\* recv: an error ends the service of the connection.
Receive ==
  /\ inq # <<>> /\ ~Hung("server")
  /\ inq' = Tail(inq)
  /\ work' = work \cup ({Head(inq)} \ {Event, Bad})
  /\ closed' = IF Head(inq) = Bad THEN [closed EXCEPT !.server = TRUE] ELSE closed
  /\ UNCHANGED <<instance, call, slot, pending, reader, writer, outq, pipe, stream, dispatched,
                 events, faults>>

\* A request is answered, after others that came later if need be; a queue without
\* room closes the connection.
Reply ==
  /\ \E c \in work :
       /\ work' = work \ {c}
       /\ IF closed.server \/ writer.server = "gone" THEN UNCHANGED <<outq, closed>>
          ELSE IF Len(outq.server) < OutQueue
          THEN outq' = [outq EXCEPT !.server = Append(@, c)] /\ UNCHANGED closed
          ELSE closed' = [closed EXCEPT !.server = TRUE] /\ UNCHANGED outq
  /\ UNCHANGED <<instance, call, slot, pending, reader, writer, pipe, inq, stream, dispatched,
                 events, faults>>

\* A task of a side starts with its hello on the way.
Spawned(s) ==
  /\ reader' = [reader EXCEPT ![s] = "hello"] /\ writer' = [writer EXCEPT ![s] = "hello"]

\* RpcServer::bind, accept: an instance waits under the name.
Bind ==
  /\ instance = "none"
  /\ instance' = "listening"
  /\ UNCHANGED <<call, slot, pending, closed, reader, writer, outq, pipe, inq, work, stream,
                 dispatched, events, faults>>

\* connect_as; without an instance that listens it is tried again.
Connect ==
  /\ instance = "listening" /\ reader.client = "none"
  /\ instance' = "connected"
  /\ Spawned("client")
  /\ UNCHANGED <<call, slot, pending, closed, outq, pipe, inq, work, stream, dispatched, events,
                 faults>>

\* accept: the next instance takes the place of the connected one.
Accept ==
  /\ instance = "connected"
  /\ instance' = "listening"
  /\ Spawned("server")
  /\ UNCHANGED <<call, slot, pending, closed, outq, pipe, inq, work, stream, dispatched, events,
                 faults>>

\* The next instance cannot be made: the connected one is kept for the next accept.
AcceptFails ==
  /\ instance = "connected" /\ Fault
  /\ UNCHANGED <<instance, call, slot, pending, closed, reader, writer, outq, pipe, inq, work,
                 stream, dispatched, events>>

(***************************************************************************)
(* Specification.                                                          *)
(***************************************************************************)
Init ==
  /\ instance = "none"
  /\ call = [c \in Calls |-> "idle"] /\ slot = [c \in Calls |-> "none"]
  /\ pending = [open |-> TRUE, ids |-> {}]
  /\ closed = [s \in Sides |-> FALSE]
  /\ reader = [s \in Sides |-> "none"] /\ writer = [s \in Sides |-> "none"]
  /\ outq = [s \in Sides |-> <<>>] /\ pipe = [s \in Sides |-> <<>>]
  /\ inq = <<>> /\ work = {} /\ stream = {} /\ dispatched = {} /\ events = 0 /\ faults = 0

CallNext ==
  \E c \in Calls :
    Ask(c) \/ Register(c) \/ Queue(c) \/ QueueFails(c) \/ Answered(c) \/ TimesOut(c)

TaskNext ==
  \/ ClientPublishes \/ ClientCompletes \/ ServerReads
  \/ \E s \in Sides :
       WriterStops(s) \/ ReaderStops(s) \/ WritesHello(s) \/ Write(s) \/ WriteFails(s)
       \/ WriteTimesOut(s) \/ ReadsHello(s) \/ HelloFails(s) \/ Disconnect(s)

Next ==
  CallNext \/ TaskNext \/ Publish \/ PublishBad \/ Receive \/ Reply \/ Bind \/ Connect \/ Accept
  \/ AcceptFails

Spec == Init /\ [][Next]_vars

\* What a task does by itself, no deadline and no fault among it.
WriterRuns(s) == WriterStops(s) \/ WritesHello(s) \/ Write(s) \/ WriteFails(s)
ReaderRuns(s) ==
  \/ ReaderStops(s) \/ ReadsHello(s)
  \/ s = "client" /\ (ClientPublishes \/ ClientCompletes)
  \/ s = "server" /\ ServerReads
CallRuns(c) == Register(c) \/ Queue(c) \/ QueueFails(c) \/ Answered(c)
ListenerRuns == Bind \/ Accept

\* The tasks run, the business takes its messages and answers, and the server
\* goes on accepting; no deadline has to pass.
Fairness ==
  /\ \A s \in Sides : WF_vars(WriterRuns(s)) /\ WF_vars(ReaderRuns(s))
  /\ \A c \in Calls : WF_vars(CallRuns(c))
  /\ WF_vars(Receive) /\ WF_vars(Reply) /\ WF_vars(ListenerRuns)

FairSpec == Spec /\ Fairness

(***************************************************************************)
(* Properties.                                                             *)
(***************************************************************************)
TypeOK ==
  /\ instance \in {"none", "listening", "connected"}
  /\ call \in [Calls -> {"idle", "checked", "sending", "waiting"} \cup Ends]
  /\ slot \in [Calls -> {"none", "reply", "disconnected"}]
  /\ pending.open \in BOOLEAN /\ pending.ids \subseteq Calls
  /\ Cardinality(pending.ids) <= MaxPending
  /\ reader \in [Sides -> {"none", "hello", "run", "gone"}]
  /\ writer \in [Sides -> {"none", "hello", "run", "gone"}]
  /\ \A s \in Sides : Len(pipe[s]) <= Pipe
  /\ Len(inq) <= InQueue

\* No request waits on a connection whose tasks are gone: registering and the last
\* drain exclude each other (PendingRequests).
NobodyWaitsOnTheDead ==
  \A c \in Calls : call[c] = "waiting" /\ slot[c] = "none" => c \in pending.ids /\ ~Hung("client")

\* A place among the pending requests belongs to a request that is under way, or
\* sixty-four cancelled ones would close the client to all others.
PlacesAreGivenBack == \A c \in pending.ids : call[c] \in {"sending", "waiting"}

\* When a request returns its answer, the subscribers of the stream were given it
\* before (RpcClient::subscribe).
StreamComesFirst == \A c \in Calls : call[c] = "reply" => c \in stream

\* The business hears of a broken protocol once, after every message that came
\* before it and with none behind it.
ErrorIsLast == \A i \in DOMAIN inq : inq[i] = Bad => i = Len(inq) /\ reader.server = "gone"

\* The end of one task is the end of the connection, on both sides.
EndIsShared == \A s \in Sides : writer[s] = "gone" ~> (Hung("client") /\ (Hung("server") \/ reader.server = "none"))

\* Every request comes to an end without its deadline: it is answered, or told
\* that the connection is gone.
RequestsEnd ==
  \A c \in Calls :
    call[c] \in {"checked", "sending", "waiting"} ~> (call[c] \in Ends \/ writer.server = "none")

\* A client that got the instance is served, even if the next instance could not
\* be made at first (RpcServer::accept).
ConnectedIsServed == reader.client = "hello" ~> (reader.server # "none" \/ closed.client)

\* The invariant of a connection: its bounds, places that are given back, nobody
\* left waiting behind the last drain, and the order of streams and errors.
Inv == TypeOK /\ NobodyWaitsOnTheDead /\ PlacesAreGivenBack /\ StreamComesFirst /\ ErrorIsLast

\* A connection ends on both sides, its requests end, and one that was accepted by
\* the system is served.
EverythingEnds == EndIsShared /\ RequestsEnd /\ ConnectedIsServed
=============================================================================
