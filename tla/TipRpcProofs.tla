---------------------------- MODULE TipRpcProofs ----------------------------
(***************************************************************************)
(* The proof of IInv, and the theorems about TipRpc.  Each part of the     *)
(* invariant has a lemma for every actor (host, worker, engine,            *)
(* subscription) that can disturb it: first types and counters, what the   *)
(* host enqueues, the gate, the worker's command, the queue, its           *)
(* generations and the sessions; then keys given up, the key pressed, and  *)
(* the replies on their two ways.                                          *)
(***************************************************************************)
EXTENDS TipRpcInvariant, SequenceTheorems, WellFoundedInduction, TLAPS

\* The order of the natural numbers is well-founded (the library's operator as a set).
LEMMA NatOrder == \E R : IsWellFoundedOn(R, Nat) /\ \A x, y \in Nat : x < y => <<x, y>> \in R
<1>1. IsWellFoundedOn(OpToRel(<, Nat), Nat) BY NatLessThanWellFounded
<1>2. \A x, y \in Nat : x < y => <<x, y>> \in OpToRel(<, Nat) BY DEF OpToRel
<1> QED BY <1>1, <1>2, Zenon

\* A set of natural numbers that is not empty has a least element.
LEMMA LeastOf == ASSUME NEW T, T \subseteq Nat, T # {} PROVE \E x \in T : \A y \in T : x <= y
<1>1. \E R : IsWellFoundedOn(R, Nat) /\ \A x, y \in Nat : x < y => <<x, y>> \in R BY NatOrder, Zenon
<1>2. PICK R : IsWellFoundedOn(R, Nat) /\ \A x, y \in Nat : x < y => <<x, y>> \in R BY <1>1, Zenon
<1>3. \E x \in T : \A y \in T : ~ (<<y, x>> \in R) BY <1>2, WFMin, ZenonT(30)
<1>4. PICK x \in T : \A y \in T : ~ (<<y, x>> \in R) BY <1>3, Zenon
<1>5. x \in Nat BY <1>4
<1>6. ASSUME NEW y \in T PROVE x <= y
  <2>1. y \in Nat /\ ~ (<<y, x>> \in R) BY <1>4
  <2>2. ~ (y < x) BY <2>1, <1>5, <1>2, Zenon
  <2> QED BY <2>1, <2>2, <1>5
<1> QED BY <1>6, <1>4, Zenon

\* One that is bounded has a greatest element.
LEMMA GreatestOf == ASSUME NEW T, T \subseteq Nat, T # {}, NEW n \in Nat, \A x \in T : x <= n
   PROVE \E x \in T : \A y \in T : y <= x
<1> DEFINE U == {m \in 0..n : n - m \in T}
<1>1. U \subseteq Nat /\ U # {}
  <2>1. PICK x \in T : TRUE OBVIOUS
  <2>2. n - x \in 0..n /\ n - (n - x) = x BY <2>1
  <2> QED BY <2>1, <2>2
<1>2. PICK m \in U : \A k \in U : m <= k BY <1>1, LeastOf
<1>3. n - m \in T BY <1>2
<1>4. ASSUME NEW y \in T PROVE y <= n - m
  <2>1. y \in Nat /\ n - y \in 0..n /\ n - (n - y) = y BY <1>4
  <2>2. n - y \in U BY <2>1
  <2>3. m <= n - y BY <2>2, <1>2
  <2> QED BY <2>1, <2>3, <1>2
<1> QED BY <1>3, <1>4

\* Numbers that a sequence holds have a bound.
LEMMA BoundOf ==
    ASSUME NEW n \in Nat, NEW f \in [1..n -> Nat]
    PROVE  \E b \in Nat : \A i \in 1..n : f[i] <= b
<1> DEFINE Bad == {k \in 0..n : ~ \E b \in Nat : \A i \in 1..k : f[i] <= b}
<1>1. ASSUME Bad # {} PROVE FALSE
  <2>1. Bad \subseteq Nat OBVIOUS
  <2>2. PICK k \in Bad : \A m \in Bad : k <= m BY <1>1, <2>1, LeastOf
  <2>3. k # 0
    <3>1. \A i \in 1..0 : f[i] <= 0 OBVIOUS
    <3> QED BY <3>1, <2>2
  <2>4. k \in 1..n /\ k - 1 \in 0..n BY <2>2, <2>3
  <2>9. k - 1 \notin Bad
    <3>1. k \in Nat /\ ~ (k <= k - 1) BY <2>4
    <3> QED BY <3>1, <2>2
  <2>5. PICK b \in Nat : \A i \in 1..k-1 : f[i] <= b BY <2>4, <2>9
  <2>6. PICK d \in Nat : b <= d /\ f[k] <= d
    <3>1. f[k] \in Nat BY <2>4
    <3>2. CASE b <= f[k] BY <3>1, <3>2
    <3>3. CASE ~ (b <= f[k]) BY <3>1, <3>3
    <3> QED BY <3>2, <3>3
  <2>7. ASSUME NEW i \in 1..k PROVE f[i] <= d
    <3>1. i \in 1..n /\ f[i] \in Nat BY <2>4
    <3>2. CASE i = k BY <3>2, <2>6
    <3>3. CASE i # k
      <4>1. i \in 1..k-1 BY <3>3, <2>4
      <4> QED BY <4>1, <2>5, <2>6, <3>1
    <3> QED BY <3>2, <3>3
  <2>8. k \notin Bad BY <2>7
  <2> QED BY <2>8, <2>2
<1>2. n \notin Bad BY <1>1
<1>3. n \in 0..n OBVIOUS
<1> QED BY <1>2, <1>3

\* What is in the tail of a sequence.
LEMMA TailOf ==
    ASSUME NEW S, NEW s \in Seq(S), s # <<>>
    PROVE  /\ Tail(s) \in Seq(S) /\ Len(Tail(s)) = Len(s) - 1 /\ Len(s) >= 1
           /\ Head(s) = s[1] /\ Head(s) \in S
           /\ \A i \in 1..Len(s) - 1 : Tail(s)[i] = s[i + 1]
OBVIOUS

\* What is in a sequence with an element more.
LEMMA AppendOf ==
    ASSUME NEW S, NEW s \in Seq(S), NEW x \in S
    PROVE  /\ Append(s, x) \in Seq(S) /\ Len(Append(s, x)) = Len(s) + 1
           /\ Append(s, x)[Len(s) + 1] = x
           /\ \A i \in 1..Len(s) : Append(s, x)[i] = s[i]
OBVIOUS

-----------------------------------------------------------------------------
(* Types.                                                                  *)

GateTyped ==
    /\ live \in 0..MaxConnections /\ cut \in BOOLEAN /\ failed \in BOOLEAN
    /\ updates \in Seq(Replies) /\ Len(updates) <= UpdateLimit
    /\ commands \in Seq(Jobs) /\ Len(commands) <= CommandLimit

ConnTyped ==
    /\ job \in Jobs /\ conn \in 0..MaxConnections
    /\ up \in BOOLEAN /\ subscribed \in BOOLEAN
    /\ stream \in Seq(Replies) /\ opened \subseteq Contexts

Requests == [kind : Kinds \cup {"open", "set_ascii"}, token : Tokens,
             ask : 0..MaxAsks]
Sessions == [token : Tokens, revision : Nat]

EngineTyped ==
    /\ request \in Requests /\ answer \in Replies
    /\ session \in [Contexts -> Sessions]

HostTyped ==
    /\ focused \in Contexts \cup {NoContext}
    /\ alive \subseteq Contexts /\ suspended \subseteq Contexts
    /\ generation \in [Contexts -> Nat] /\ remembered \in BOOLEAN
    /\ route \in [Contexts -> [epoch : 0..MaxConnections, revision : Nat]]
    /\ edits \subseteq Replies
    /\ host \in {"idle", "waiting", "answered", "drained"}
    /\ ask \in Replies /\ tested \in Tokens /\ press \in Tokens

HistTyped ==
    /\ sent \subseteq Replies /\ applied \subseteq Replies
    /\ abandoned \subseteq 1..MaxAsks /\ passed \subseteq 1..MaxAsks

\* TypeOK is its five parts.
LEMMA TypeOKParts ==
    TypeOK <=> GateTyped /\ ConnTyped /\ EngineTyped /\ HostTyped /\ HistTyped
BY DEF TypeOK, GateTyped, ConnTyped, EngineTyped, HostTyped, HistTyped, Requests, Sessions

\* So it is in the next state.
LEMMA TypeOKPartsNext ==
    TypeOK' <=> GateTyped' /\ ConnTyped' /\ EngineTyped' /\ HostTyped' /\ HistTyped'
BY DEF TypeOK, GateTyped, ConnTyped, EngineTyped, HostTyped, HistTyped, Requests, Sessions

\* The values that stand for nothing are of the types.
LEMMA BlankTyped ==
    /\ NoToken \in Tokens /\ Idle \in Jobs /\ NoAnswer \in Replies
    /\ NoRequest \in Requests /\ NoSession \in Sessions
BY ConstantsAssumption
   DEF NoToken, Idle, NoAnswer, NoRequest, NoSession, Tokens, Jobs, Replies,
       Requests, Sessions, Kinds

\* A context's token.
LEMMA TokenTyped ==
    ASSUME GateTyped, HostTyped, NEW c \in Contexts
    PROVE  /\ Token(c) \in Tokens
           /\ Token(c).context = c /\ Token(c).epoch = live
           /\ Token(c).generation = generation[c]
BY DEF Token, Tokens, GateTyped, HostTyped

\* A command as it is queued.
LEMMA CommandTyped ==
    ASSUME NEW kind \in Kinds, NEW c \in Contexts \cup {NoContext}, NEW g \in Nat,
           NEW n \in 0..MaxAsks
    PROVE  LET x == Command(kind, c, g, n) IN
           /\ x \in Jobs /\ x.at = "queued" /\ x.kind = kind /\ x.ask = n
           /\ x.token.context = c /\ x.token.epoch = 0 /\ x.token.generation = g
BY ConstantsAssumption DEF Command, Jobs, Tokens

\* What is left alone keeps its type.
LEMMA GateKept ==
    ASSUME GateTyped, UNCHANGED <<gateVars, updates, commands>>
    PROVE  GateTyped'
BY DEF GateTyped, gateVars

\* An invalidation closes the gate and empties the reply queue.
LEMMA InvalidateTyped ==
    ASSUME GateTyped, Invalidate, UNCHANGED <<failed, commands>>
    PROVE  GateTyped'
BY ConstantsAssumption DEF GateTyped, Invalidate

\* A step that leaves the engine alone keeps its types,
LEMMA EngineKept ==
    ASSUME EngineTyped, UNCHANGED engineVars
    PROVE  EngineTyped'
BY DEF EngineTyped, engineVars

\* one that leaves the host alone keeps the host's,
LEMMA HostKept ==
    ASSUME HostTyped, UNCHANGED <<focused, contextVars, edits, keyVars>>
    PROVE  HostTyped'
BY DEF HostTyped, contextVars, keyVars

\* and one that records nothing those of the record.
LEMMA HistKept ==
    ASSUME HistTyped, UNCHANGED histVars
    PROVE  HistTyped'
BY DEF HistTyped, histVars

\* Closing a connection leaves nothing of it with the worker and the engine.
LEMMA CloseTyped ==
    ASSUME ConnTyped, EngineTyped, Close, job' \in Jobs
    PROVE  ConnTyped' /\ EngineTyped'
<1>1. EngineTyped' BY BlankTyped DEF Close, EngineTyped
<1>2. stream' \in Seq(Replies) BY EmptySeq DEF Close
<1>3. conn' \in 0..MaxConnections BY ConstantsAssumption DEF Close
<1>4. up' \in BOOLEAN /\ subscribed' \in BOOLEAN /\ opened' \subseteq Contexts
  BY DEF Close
<1>5. ConnTyped' BY <1>2, <1>3, <1>4 DEF ConnTyped
<1> QED BY <1>1, <1>5

\* The worker's command further on.
LEMMA JobMoves ==
    ASSUME NEW j \in Jobs,
           NEW at \in {"idle", "queued", "connecting", "stamp", "prepare", "opening",
                       "restoring", "asking"},
           NEW k, k = [j EXCEPT !.at = at]
    PROVE  k \in Jobs /\ k.at = at /\ k.kind = j.kind /\ k.token = j.token /\ k.ask = j.ask
BY DEF Jobs

\* A closed gate with an empty reply queue.
LEMMA ClosedGateTyped ==
    ASSUME GateTyped, live' = 0, cut' \in BOOLEAN, updates' = <<>>,
           UNCHANGED <<failed, commands>>
    PROVE  GateTyped'
<1>1. updates' \in Seq(Replies) /\ Len(updates') = 0 BY EmptySeq
<1>2. Len(updates') <= UpdateLimit BY <1>1, ConstantsAssumption
<1>3. live' \in 0..MaxConnections BY ConstantsAssumption
<1> QED BY <1>1, <1>2, <1>3 DEF GateTyped

\* The counters stay while the gate and the connection stay or close.
LEMMA CountedKept ==
    ASSUME Counted, UNCHANGED boundVars, UNCHANGED <<abandoned, generation>>,
           live' \in {live, 0}, conn' \in {conn, 0}
    PROVE  Counted'
BY DEF Counted, boundVars

\* Taking a command keeps the types.
LEMMA TypeTake ==
    ASSUME TypeOK, Counted, TakeCommand
    PROVE  TypeOK' /\ Counted'
<1> USE TypeOKParts
<1>1. /\ Head(commands) \in Jobs /\ Tail(commands) \in Seq(Jobs)
      /\ Len(Tail(commands)) <= CommandLimit
  <2>1. commands \in Seq(Jobs) /\ commands # <<>> /\ Len(commands) <= CommandLimit
    BY DEF TakeCommand, GateTyped
  <2> QED BY <2>1, TailOf, ConstantsAssumption
<1>2. job' \in Jobs
  <2>1. job' = Idle \/ \E at \in {"connecting", "stamp"} :
                          job' = [Head(commands) EXCEPT !.at = at]
    BY DEF TakeCommand
  <2>2. CASE job' = Idle BY <2>2, BlankTyped
  <2>3. ASSUME NEW at \in {"connecting", "stamp"},
               job' = [Head(commands) EXCEPT !.at = at]
        PROVE  job' \in Jobs
    BY <2>3, <1>1, JobMoves
  <2> QED BY <2>1, <2>2, <2>3
<1>3. commands' \in Seq(Jobs) /\ Len(commands') <= CommandLimit
  BY <1>1 DEF TakeCommand
<1>4. failed' = failed /\ cut' \in BOOLEAN
  BY DEF TakeCommand, GateTyped, Stale
<1>5. HostTyped' /\ HistTyped'
  BY HostKept, HistKept DEF TakeCommand, hostSide
<1>6. CASE Stale
  <2>1. live' = 0 /\ updates' = <<>> /\ Close BY <1>6 DEF TakeCommand
  <2>2. ConnTyped' /\ EngineTyped' BY <2>1, <1>2, CloseTyped
  <2>3. updates' \in Seq(Replies) /\ Len(updates') = 0 BY <2>1, EmptySeq
  <2>4. Len(updates') <= UpdateLimit BY <2>3, ConstantsAssumption
  <2>5. live' \in 0..MaxConnections BY <2>1, ConstantsAssumption
  <2>6. GateTyped' BY <2>3, <2>4, <2>5, <1>3, <1>4 DEF GateTyped
  <2>7. conn' = 0 BY <2>1 DEF Close
  <2>8. UNCHANGED boundVars /\ UNCHANGED <<abandoned, generation>>
    BY DEF TakeCommand, hostSide, contextVars, histVars
  <2>9. Counted' BY <2>7, <2>1, <2>8, CountedKept
  <2> QED BY <2>2, <2>6, <1>5, <2>9, TypeOKPartsNext
<1>7. CASE ~Stale
  <2>1. UNCHANGED <<live, updates, connVars, engineVars>> BY <1>7 DEF TakeCommand
  <2>2. ConnTyped' /\ EngineTyped' BY <2>1, <1>2, EngineKept DEF ConnTyped, connVars
  <2>3. GateTyped' BY <2>1, <1>3, <1>4 DEF GateTyped
  <2>4. UNCHANGED boundVars /\ UNCHANGED <<abandoned, generation>>
    BY DEF TakeCommand, hostSide, contextVars, histVars
  <2>5. Counted' BY <2>1, <2>4, CountedKept DEF connVars
  <2> QED BY <2>2, <2>3, <1>5, <2>5, TypeOKPartsNext
<1> QED BY <1>6, <1>7

\* Giving up the connection keeps the types.
LEMMA TypeDisconnect ==
    ASSUME TypeOK, Counted, Disconnect
    PROVE  TypeOK' /\ Counted'
<1>1. GateTyped' BY TypeOKParts, InvalidateTyped DEF Disconnect
<1>2. job' \in Jobs BY BlankTyped DEF Disconnect
<1>3. ConnTyped' /\ EngineTyped' BY <1>2, TypeOKParts, CloseTyped DEF Disconnect
<1>4. HostTyped' /\ HistTyped' BY TypeOKParts, HostKept, HistKept DEF Disconnect
<1>5. live' = 0 /\ conn' = 0 BY DEF Disconnect, Invalidate, Close
<1>6. UNCHANGED boundVars /\ UNCHANGED <<abandoned, generation>>
  BY DEF Disconnect, contextVars, histVars
<1>7. Counted' BY <1>5, <1>6, CountedKept
<1> QED BY <1>1, <1>3, <1>4, <1>7, TypeOKPartsNext

\* Sending a request keeps the command and its token.
LEMMA SendTyped ==
    ASSUME ConnTyped, EngineTyped, NEW kind \in Kinds \cup {"open", "set_ascii"},
           NEW at \in {"opening", "restoring", "asking"}, Send(kind, at)
    PROVE  /\ job' \in Jobs /\ request' \in Requests /\ answer' \in Replies
           /\ job'.at = at /\ job'.kind = job.kind /\ job'.token = job.token
           /\ job'.ask = job.ask
<1>1. job \in Jobs BY DEF ConnTyped
<1>2. job' = [job EXCEPT !.at = at] BY DEF Send
<1>3. answer' \in Replies BY BlankTyped DEF Send
<1>4. request' \in Requests BY <1>1 DEF Send, Requests, Jobs
<1>5. /\ job' \in Jobs /\ job'.at = at /\ job'.kind = job.kind
      /\ job'.token = job.token /\ job'.ask = job.ask
  BY <1>1, <1>2, JobMoves
<1> QED BY <1>3, <1>4, <1>5

\* The worker keeps the types and the counters.
LEMMA TypeWorker ==
    ASSUME TypeOK, Counted, JobIsServed, Worker
    PROVE  TypeOK' /\ Counted'
<1> USE TypeOKParts, TypeOKPartsNext
<1>1. CASE ExpireKey
  <2>1. commands' \in Seq(Jobs) /\ Len(commands') <= CommandLimit
    <3>1. commands \in Seq(Jobs) /\ commands # <<>> /\ Len(commands) <= CommandLimit
      BY <1>1 DEF ExpireKey, GateTyped
    <3>2. commands' = Tail(commands) BY <1>1 DEF ExpireKey
    <3> QED BY <3>1, <3>2, TailOf, ConstantsAssumption
  <2>2. GateTyped' BY <1>1, <2>1 DEF ExpireKey, GateTyped, gateVars
  <2>3. ConnTyped' BY <1>1 DEF ExpireKey, ConnTyped, connVars
  <2>4. EngineTyped' /\ HostTyped' /\ HistTyped'
    BY <1>1, EngineKept, HostKept, HistKept DEF ExpireKey, hostSide
  <2>5. Counted'
    BY <1>1 DEF ExpireKey, Counted, boundVars, hostSide, contextVars, histVars, gateVars,
                connVars
  <2> QED BY <2>2, <2>3, <2>4, <2>5
<1>2. CASE TakeCommand BY <1>2, TypeTake
<1>3. CASE Connected
  <2>1. connections + 1 \in 0..MaxConnections
    BY <1>3, ConstantsAssumption DEF Connected, Counted
  <2>2. GateTyped' BY <1>3, <2>1 DEF Connected, GateTyped
  <2>3. job' \in Jobs
    <3>1. job \in Jobs BY DEF ConnTyped
    <3>2. job' = Idle \/ job' = [job EXCEPT !.at = "stamp"] BY <1>3 DEF Connected
    <3>3. CASE job' = [job EXCEPT !.at = "stamp"] BY <3>1, <3>3, JobMoves
    <3> QED BY <3>2, <3>3, BlankTyped
  <2>4. ConnTyped' BY <1>3, <2>1, <2>3 DEF Connected, ConnTyped
  <2>5. EngineTyped' /\ HostTyped' /\ HistTyped'
    BY <1>3, EngineKept, HostKept, HistKept DEF Connected, hostSide
  <2>6. Counted'
    BY <1>3, <2>1 DEF Connected, Counted, hostSide, contextVars, histVars
  <2> QED BY <2>2, <2>4, <2>5, <2>6
<1>4. CASE ConnectFails
  <2>1. GateTyped'
    <3>1. CASE Invalidate BY <1>4, <3>1, InvalidateTyped DEF ConnectFails
    <3>2. CASE UNCHANGED <<live, cut, updates>>
      BY <1>4, <3>2 DEF ConnectFails, GateTyped
    <3> QED BY <1>4, <3>1, <3>2 DEF ConnectFails
  <2>2. ConnTyped' BY <1>4, BlankTyped DEF ConnectFails, ConnTyped, connVars
  <2>3. EngineTyped' /\ HostTyped' /\ HistTyped'
    BY <1>4, EngineKept, HostKept, HistKept DEF ConnectFails, hostSide
  <2>4. live' \in {live, 0} BY <1>4 DEF ConnectFails, Invalidate
  <2>5. Counted'
    BY <1>4, <2>4 DEF ConnectFails, Counted, boundVars, hostSide, contextVars, histVars,
                connVars
  <2> QED BY <2>1, <2>2, <2>3, <2>5
<1>5. CASE StampToken
  <2>1. job' \in Jobs
    <3>1. job \in Jobs /\ live \in 0..MaxConnections BY DEF ConnTyped, GateTyped
    <3> QED BY <1>5, <3>1 DEF StampToken, Jobs, Tokens
  <2>2. GateTyped' BY <1>5, GateKept DEF StampToken
  <2>3. ConnTyped' BY <1>5, <2>1 DEF StampToken, ConnTyped, connVars
  <2>4. EngineTyped' /\ HostTyped' /\ HistTyped'
    BY <1>5, EngineKept, HostKept, HistKept DEF StampToken, hostSide
  <2>5. Counted'
    BY <1>5 DEF StampToken, Counted, boundVars, hostSide, contextVars, histVars, gateVars,
                connVars
  <2> QED BY <2>2, <2>3, <2>4, <2>5
<1>6. CASE Prepare
  <2>1. job' \in Jobs /\ request' \in Requests /\ answer' \in Replies
    <3>1. job.kind \in Kinds BY DEF ConnTyped, Jobs
    <3>2. CASE Send(job.kind, "asking") BY <3>1, <3>2, SendTyped
    <3>3. CASE Send("open", "opening") BY <3>3, SendTyped
    <3>4. CASE job' = Idle /\ UNCHANGED <<request, answer>>
      BY <3>4, BlankTyped DEF EngineTyped
    <3> QED BY <1>6, <3>2, <3>3, <3>4 DEF Prepare
  <2>2. GateTyped' BY <1>6, GateKept DEF Prepare
  <2>3. ConnTyped' BY <1>6, <2>1 DEF Prepare, ConnTyped, connVars
  <2>4. EngineTyped' BY <1>6, <2>1 DEF Prepare, EngineTyped
  <2>5. HostTyped' /\ HistTyped' BY <1>6, HostKept, HistKept DEF Prepare, hostSide
  <2>6. Counted'
    BY <1>6 DEF Prepare, Counted, boundVars, hostSide, contextVars, histVars, gateVars,
                connVars
  <2> QED BY <2>2, <2>3, <2>4, <2>5, <2>6
<1>7. CASE SessionOpened
  <2>1. job.kind \in Kinds /\ job.token.context \in Contexts /\ opened \subseteq Contexts
    BY <1>7 DEF SessionOpened, ConnTyped, Jobs, JobIsServed, Phases
  <2>2. job' \in Jobs /\ request' \in Requests /\ answer' \in Replies
        /\ opened' \subseteq Contexts
    <3>2. CASE Send("set_ascii", "restoring") /\ UNCHANGED opened BY <2>1, <3>2, SendTyped
    <3>3. CASE /\ Send(job.kind, "asking")
               /\ opened' = opened \cup {job.token.context}
      <4>1. job' \in Jobs /\ request' \in Requests /\ answer' \in Replies
        BY <2>1, <3>3, SendTyped
      <4> QED BY <4>1, <3>3, <2>1
    <3> QED BY <1>7, <3>2, <3>3 DEF SessionOpened
  <2>3. GateTyped' BY <1>7, GateKept DEF SessionOpened
  <2>4. ConnTyped' BY <1>7, <2>2 DEF SessionOpened, ConnTyped
  <2>5. EngineTyped' BY <1>7, <2>2 DEF SessionOpened, EngineTyped
  <2>6. HostTyped' /\ HistTyped' BY <1>7, HostKept, HistKept DEF SessionOpened, hostSide
  <2>7. Counted'
    BY <1>7 DEF SessionOpened, Counted, boundVars, hostSide, contextVars, histVars, gateVars
  <2> QED BY <2>3, <2>4, <2>5, <2>6, <2>7
<1>8. CASE ModeRestored
  <2>1. job.kind \in Kinds /\ job.token.context \in Contexts /\ opened \subseteq Contexts
    BY <1>8 DEF ModeRestored, ConnTyped, Jobs, JobIsServed, Phases
  <2>2. job' \in Jobs /\ request' \in Requests /\ answer' \in Replies
    BY <1>8, <2>1, SendTyped DEF ModeRestored
  <2>3. GateTyped' BY <1>8, GateKept DEF ModeRestored
  <2>4. ConnTyped' BY <1>8, <2>1, <2>2 DEF ModeRestored, ConnTyped
  <2>5. EngineTyped' BY <1>8, <2>2 DEF ModeRestored, EngineTyped
  <2>6. HostTyped' /\ HistTyped' BY <1>8, HostKept, HistKept DEF ModeRestored, hostSide
  <2>7. Counted'
    BY <1>8 DEF ModeRestored, Counted, boundVars, hostSide, contextVars, histVars, gateVars
  <2> QED BY <2>3, <2>4, <2>5, <2>6, <2>7
<1>9. CASE AnswerKey
  <2>1. GateTyped' BY <1>9, GateKept DEF AnswerKey
  <2>2. ConnTyped' BY <1>9, BlankTyped DEF AnswerKey, ConnTyped, connVars
  <2>3. EngineTyped' BY <1>9, BlankTyped DEF AnswerKey, EngineTyped
  <2>4. HostTyped' BY <1>9 DEF AnswerKey, HostTyped, EngineTyped, contextVars
  <2>5. HistTyped' BY <1>9, HistKept DEF AnswerKey
  <2>6. Counted'
    BY <1>9 DEF AnswerKey, Counted, boundVars, contextVars, histVars, gateVars, connVars
  <2> QED BY <2>1, <2>2, <2>3, <2>4, <2>5, <2>6
<1>10. CASE ContextDone
  <2>1. GateTyped' BY <1>10, GateKept DEF ContextDone
  <2>2. ConnTyped' BY <1>10, BlankTyped DEF ContextDone, ConnTyped
  <2>3. EngineTyped' BY <1>10, BlankTyped DEF ContextDone, EngineTyped
  <2>4. HostTyped' /\ HistTyped' BY <1>10, HostKept, HistKept DEF ContextDone, hostSide
  <2>5. Counted'
    BY <1>10 DEF ContextDone, Counted, boundVars, hostSide, contextVars, histVars, gateVars
  <2> QED BY <2>1, <2>2, <2>3, <2>4, <2>5
<1>11. CASE RequestFails BY <1>11, TypeDisconnect DEF RequestFails
<1>12. CASE Timeout BY <1>12, TypeDisconnect DEF Timeout
<1> QED
  BY <1>1, <1>2, <1>3, <1>4, <1>5, <1>6, <1>7, <1>8, <1>9, <1>10, <1>11, <1>12, Zenon
  DEF Worker

\* An answer carries the token and the key of its request.
LEMMA AnsweredTyped ==
    ASSUME EngineTyped, NEW kind \in {"opened", "failure", "reply"}, NEW n \in Nat,
           NEW eaten \in BOOLEAN, Answered(kind, n, eaten)
    PROVE  /\ answer' \in Replies /\ answer'.kind = kind /\ answer'.revision = n
           /\ answer'.eaten = eaten /\ answer'.token = request.token
           /\ answer'.ask = request.ask
<1>1. request.token \in Tokens /\ request.ask \in 0..MaxAsks BY DEF EngineTyped, Requests
<1> QED BY <1>1 DEF Answered, Replies

\* A reply published joins the stream.
LEMMA PublishTyped ==
    ASSUME ConnTyped, NEW r \in Replies, Publish(r)
    PROVE  stream' \in Seq(Replies)
<1>1. stream \in Seq(Replies) BY DEF ConnTyped
<1> QED BY <1>1, AppendOf DEF Publish

\* What a step of the engine leaves alone.
LEMMA EngineLeaves ==
    ASSUME TypeOK, Counted, UNCHANGED <<workerSide, conn, up, subscribed, opened>>,
           stream' \in Seq(Replies), UNCHANGED <<focused, contextVars, edits, keyVars>>,
           UNCHANGED <<applied, abandoned, passed, connections, asks>>,
           pushes' \in Nat, moves' \in Nat,
           sent' \subseteq Replies, EngineTyped'
    PROVE  TypeOK' /\ Counted'
<1> USE TypeOKParts, TypeOKPartsNext
<1>1. GateTyped' BY GateKept DEF workerSide
<1>2. ConnTyped' BY DEF workerSide, ConnTyped
<1>3. HostTyped' BY HostKept
<1>4. HistTyped' BY DEF HistTyped
<1>5. Counted' BY DEF Counted, contextVars, workerSide, gateVars
<1> QED BY <1>1, <1>2, <1>3, <1>4, <1>5

\* A pending request is of a context, and has a session's record to look at.
LEMMA ObservedTyped ==
    ASSUME EngineTyped, JobIsServed, Pending
    PROVE  /\ request.token.context \in Contexts
           /\ session[request.token.context] \in Sessions
           /\ request.token \in Tokens
<1>1. job.at \in Asked /\ request.token = job.token
  BY DEF Pending, JobIsServed
<1>2. job.token.context \in Contexts BY <1>1 DEF JobIsServed, Asked, Phases
<1> QED BY <1>1, <1>2 DEF EngineTyped, Requests

\* The engine keeps the types and the counters.
LEMMA TypeEngine ==
    ASSUME TypeOK, Counted, JobIsServed, Engine
    PROVE  TypeOK' /\ Counted'
<1> USE TypeOKParts
<1>0. /\ stream \in Seq(Replies) /\ sent \subseteq Replies /\ pushes \in Nat /\ moves \in Nat
      /\ session \in [Contexts -> Sessions] /\ request \in Requests /\ answer \in Replies
  BY DEF ConnTyped, HistTyped, Counted, EngineTyped
<1>1. CASE ServeOpen
  <2>1. /\ request.token.context \in Contexts
        /\ session[request.token.context] \in Sessions /\ request.token \in Tokens
    BY <1>1, ObservedTyped DEF ServeOpen
  <2>2. answer' \in Replies
    <3>1. Answered("opened", 0, FALSE) \/ Answered("failure", 0, FALSE)
      BY <1>1 DEF ServeOpen
    <3> QED BY <3>1, AnsweredTyped
  <2>3. session' \in [Contexts -> Sessions]
    <3>1. \/ session' = session
          \/ session' = [session EXCEPT ![request.token.context].token = request.token]
      BY <1>1 DEF ServeOpen
    <3> QED BY <3>1, <2>1, <1>0 DEF Sessions
  <2>4. EngineTyped' BY <1>1, <1>0, <2>2, <2>3 DEF ServeOpen, EngineTyped
  <2>5. /\ stream' = stream /\ sent' = sent /\ pushes' = pushes /\ moves' = moves
        /\ UNCHANGED <<workerSide, conn, up, subscribed, opened>>
        /\ UNCHANGED <<focused, contextVars, edits, keyVars>>
        /\ UNCHANGED <<applied, abandoned, passed, connections, asks>>
    BY <1>1 DEF ServeOpen, connVars, hostSide, boundVars, histVars
  <2> QED BY <1>0, <2>4, <2>5, EngineLeaves
<1>2. CASE ServeKey
  <2>1. /\ request.token.context \in Contexts
        /\ session[request.token.context] \in Sessions /\ request.token \in Tokens
    BY <1>2, ObservedTyped DEF ServeKey
  <2>2. PICK n \in Nat, eaten \in BOOLEAN :
          /\ Answered("reply", n, eaten)
          /\ session' = [session EXCEPT ![request.token.context] =
                           [token |-> request.token, revision |-> n]]
          /\ Publish(answer') /\ sent' \in {sent, sent \cup {answer'}}
    <3>1. PICK updated \in BOOLEAN, eaten \in BOOLEAN :
            LET c == request.token.context
                n == session[c].revision + (IF updated THEN 1 ELSE 0)
            IN /\ Answered("reply", n, eaten)
               /\ session' = [session EXCEPT ![c] = [token |-> request.token,
                                                     revision |-> n]]
               /\ Publish(answer')
               /\ sent' = IF updated THEN sent \cup {answer'} ELSE sent
      BY <1>2 DEF ServeKey
    <3>2. session[request.token.context].revision + (IF updated THEN 1 ELSE 0) \in Nat
      BY <2>1 DEF Sessions
    <3> QED BY <3>1, <3>2
  <2>3. answer' \in Replies BY <2>2, AnsweredTyped
  <2>4. stream' \in Seq(Replies) BY <2>2, <2>3, PublishTyped
  <2>5. session' \in [Contexts -> Sessions]
    <3>1. [token |-> request.token, revision |-> n] \in Sessions BY <2>1 DEF Sessions
    <3> QED BY <3>1, <2>2, <1>0
  <2>6. request' \in Requests BY <1>2, <1>0 DEF ServeKey
  <2>7. EngineTyped' BY <2>3, <2>5, <2>6 DEF EngineTyped
  <2>8. sent' \subseteq Replies BY <2>2, <2>3, <1>0
  <2>9. /\ pushes' = pushes /\ moves' = moves
        /\ UNCHANGED <<workerSide, conn, up, subscribed, opened>>
        /\ UNCHANGED <<focused, contextVars, edits, keyVars>>
        /\ UNCHANGED <<applied, abandoned, passed, connections, asks>>
    BY <1>2 DEF ServeKey, boundVars
  <2> QED BY <1>0, <2>4, <2>7, <2>8, <2>9, EngineLeaves
<1>3. CASE ServeCommand
  <2>1. /\ request.token.context \in Contexts
        /\ session[request.token.context] \in Sessions /\ request.token \in Tokens
    BY <1>3, ObservedTyped DEF ServeCommand
  <2>2. PICK n \in Nat :
          /\ Answered("reply", n, FALSE)
          /\ session' = [session EXCEPT ![request.token.context] =
                           IF request.kind = "destroy" THEN NoSession
                           ELSE [token |-> request.token, revision |-> n]]
          /\ Publish(answer') /\ sent' = sent \cup {answer'}
    <3>1. session[request.token.context].revision + 1 \in Nat BY <2>1 DEF Sessions
    <3> QED BY <1>3, <3>1 DEF ServeCommand
  <2>3. answer' \in Replies BY <2>2, AnsweredTyped
  <2>4. stream' \in Seq(Replies) BY <2>2, <2>3, PublishTyped
  <2>5. session' \in [Contexts -> Sessions]
    <3>1. [token |-> request.token, revision |-> n] \in Sessions BY <2>1 DEF Sessions
    <3> QED BY <3>1, <2>2, <1>0, BlankTyped
  <2>6. request' \in Requests BY <1>3, <1>0 DEF ServeCommand
  <2>7. EngineTyped' BY <2>3, <2>5, <2>6 DEF EngineTyped
  <2>8. sent' \subseteq Replies BY <2>2, <2>3, <1>0
  <2>9. /\ pushes' = pushes /\ moves' = moves
        /\ UNCHANGED <<workerSide, conn, up, subscribed, opened>>
        /\ UNCHANGED <<focused, contextVars, edits, keyVars>>
        /\ UNCHANGED <<applied, abandoned, passed, connections, asks>>
    BY <1>3 DEF ServeCommand, boundVars
  <2> QED BY <1>0, <2>4, <2>7, <2>8, <2>9, EngineLeaves
<1>4. CASE Refuse
  <2>1. answer' \in Replies BY <1>4, AnsweredTyped DEF Refuse
  <2>2. EngineTyped' BY <1>4, <1>0, <2>1 DEF Refuse, EngineTyped
  <2>3. /\ stream' = stream /\ sent' = sent /\ pushes' = pushes /\ moves' = moves
        /\ UNCHANGED <<workerSide, conn, up, subscribed, opened>>
        /\ UNCHANGED <<focused, contextVars, edits, keyVars>>
        /\ UNCHANGED <<applied, abandoned, passed, connections, asks>>
    BY <1>4 DEF Refuse, connVars, hostSide, boundVars, histVars
  <2> QED BY <1>0, <2>2, <2>3, EngineLeaves
<1>5. CASE Push
  <2>1. PICK c \in Contexts :
          /\ session' = [session EXCEPT ![c].revision = session[c].revision + 1]
          /\ LET r == [kind |-> "reply", token |-> session[c].token,
                       revision |-> session[c].revision + 1, ask |-> 0, eaten |-> FALSE]
             IN Publish(r) /\ sent' = sent \cup {r}
    BY <1>5 DEF Push
  <2>2. session[c] \in Sessions BY <1>0
  <2>3. [kind |-> "reply", token |-> session[c].token,
         revision |-> session[c].revision + 1, ask |-> 0, eaten |-> FALSE] \in Replies
    BY <2>2, ConstantsAssumption DEF Sessions, Replies
  <2>4. stream' \in Seq(Replies) BY <2>1, <2>3, PublishTyped
  <2>5. session' \in [Contexts -> Sessions] BY <2>1, <2>2, <1>0 DEF Sessions
  <2>6. request' \in Requests /\ answer' \in Replies BY <1>5, <1>0 DEF Push
  <2>7. EngineTyped' BY <2>5, <2>6 DEF EngineTyped
  <2>8. sent' \subseteq Replies BY <2>1, <2>3, <1>0
  <2>9. /\ pushes' \in Nat /\ moves' = moves
        /\ UNCHANGED <<workerSide, conn, up, subscribed, opened>>
        /\ UNCHANGED <<focused, contextVars, edits, keyVars>>
        /\ UNCHANGED <<applied, abandoned, passed, connections, asks>>
    BY <1>5, <1>0 DEF Push, boundVars
  <2> QED BY <1>0, <2>4, <2>7, <2>8, <2>9, EngineLeaves
<1>6. CASE Lose
  <2>1. GateTyped' BY <1>6, GateKept DEF Lose, workerSide
  <2>2. ConnTyped' BY <1>6 DEF Lose, ConnTyped, workerSide
  <2>3. EngineTyped' BY <1>6, BlankTyped DEF Lose, EngineTyped
  <2>4. HostTyped' /\ HistTyped' BY <1>6, HostKept, HistKept DEF Lose, hostSide
  <2>5. Counted'
    BY <1>6 DEF Lose, Counted, workerSide, gateVars, boundVars, hostSide, contextVars, histVars
  <2> QED BY <2>1, <2>2, <2>3, <2>4, <2>5, TypeOKPartsNext
<1> QED BY <1>1, <1>2, <1>3, <1>4, <1>5, <1>6, Zenon DEF Engine

\* The subscription keeps the types and the counters.
LEMMA TypeSubscription ==
    ASSUME TypeOK, Counted, Subscription
    PROVE  TypeOK' /\ Counted'
<1> USE TypeOKParts, TypeOKPartsNext
<1>0. stream \in Seq(Replies) /\ updates \in Seq(Replies) BY DEF ConnTyped, GateTyped
<1>1. CASE Forward
  <2>0. /\ HostTyped' /\ HistTyped' /\ UNCHANGED boundVars
        /\ UNCHANGED <<commands, job, conn, opened, request, answer, abandoned, generation>>
    BY <1>1, HostKept, HistKept DEF Forward, hostSide, contextVars, histVars
  <2>1. Tail(stream) \in Seq(Replies) /\ Head(stream) \in Replies
    BY <1>1, <1>0, TailOf DEF Forward
  <2>2. CASE live # conn
    <3>1. stream' = Tail(stream) /\ UNCHANGED <<gateVars, updates, up, subscribed, session>>
      BY <1>1, <2>2 DEF Forward
    <3>2. GateTyped' BY <3>1, <2>0, GateKept
    <3>3. ConnTyped' /\ EngineTyped' BY <3>1, <2>0, <2>1 DEF ConnTyped, EngineTyped
    <3>4. Counted' BY <3>1, <2>0, CountedKept DEF gateVars
    <3> QED BY <3>2, <3>3, <3>4, <2>0
  <2>3. CASE live = conn /\ Len(updates) < UpdateLimit
    <3>1. /\ updates' = Append(updates, Head(stream)) /\ stream' = Tail(stream)
          /\ UNCHANGED <<gateVars, up, subscribed, session>>
      BY <1>1, <2>3 DEF Forward
    <3>2. updates' \in Seq(Replies) /\ Len(updates') <= UpdateLimit
      <4>1. updates' \in Seq(Replies) /\ Len(updates') = Len(updates) + 1
        BY <3>1, <2>1, <1>0, AppendOf
      <4> QED BY <4>1, <2>3, <1>0, ConstantsAssumption
    <3>3. GateTyped' BY <3>1, <3>2, <2>0 DEF GateTyped, gateVars
    <3>4. ConnTyped' /\ EngineTyped' BY <3>1, <2>0, <2>1 DEF ConnTyped, EngineTyped
    <3>5. Counted' BY <3>1, <2>0, CountedKept DEF gateVars
    <3> QED BY <3>3, <3>4, <3>5, <2>0
  <2>4. CASE live = conn /\ ~ (Len(updates) < UpdateLimit)
    <3>1. /\ failed' = TRUE /\ Invalidate /\ up' = FALSE /\ subscribed' = FALSE
          /\ stream' = <<>> /\ session' = [c \in Contexts |-> NoSession]
      BY <1>1, <2>4 DEF Forward
    <3>2. /\ live' \in 0..MaxConnections /\ cut' \in BOOLEAN /\ updates' \in Seq(Replies)
          /\ Len(updates') = 0 /\ stream' \in Seq(Replies)
      BY <3>1, EmptySeq, ConstantsAssumption DEF Invalidate
    <3>3. Len(updates') <= UpdateLimit BY <3>2, ConstantsAssumption
    <3>4. GateTyped' BY <3>1, <3>2, <3>3, <2>0 DEF GateTyped
    <3>5. ConnTyped'
      <4>1. up' \in BOOLEAN /\ subscribed' \in BOOLEAN BY <3>1
      <4> QED BY <4>1, <3>2, <2>0 DEF ConnTyped
    <3>6. EngineTyped' BY <3>1, <2>0, BlankTyped DEF EngineTyped
    <3>7. live' = 0 BY <3>1 DEF Invalidate
    <3>8. Counted' BY <3>7, <2>0, CountedKept
    <3> QED BY <3>4, <3>5, <3>6, <3>8, <2>0
  <2> QED BY <2>2, <2>3, <2>4
<1>2. CASE SubscriptionEnds
  <2>1. /\ HostTyped' /\ HistTyped' /\ UNCHANGED boundVars
        /\ UNCHANGED <<failed, commands, job, conn, up, opened, abandoned, generation>>
        /\ EngineTyped' /\ subscribed' = FALSE /\ stream' = <<>>
    BY <1>2, HostKept, HistKept, EngineKept
    DEF SubscriptionEnds, hostSide, contextVars, histVars
  <2>2. stream' \in Seq(Replies) /\ subscribed' \in BOOLEAN BY <2>1, EmptySeq
  <2>3. ConnTyped' BY <2>1, <2>2 DEF ConnTyped
  <2>4. GateTyped' /\ live' \in {live, 0}
    <3>1. CASE Invalidate BY <2>1, <3>1, InvalidateTyped DEF Invalidate
    <3>2. CASE UNCHANGED <<live, cut, updates>> BY <2>1, <3>2 DEF GateTyped
    <3> QED BY <1>2, <3>1, <3>2 DEF SubscriptionEnds
  <2>5. Counted' BY <2>1, <2>4, CountedKept
  <2> QED BY <2>1, <2>3, <2>4, <2>5
<1> QED BY <1>1, <1>2 DEF Subscription

\* What a drain accepts was in the reply queue.
LEMMA FreshTyped ==
    ASSUME GateTyped
    PROVE  /\ Fresh \subseteq Replies /\ Fresh \subseteq Elements(updates)
           /\ \A r \in Fresh : Acceptable(r)
BY DEF GateTyped, Fresh, Elements

\* Newest is the revision of a reply accepted, and the highest.
LEMMA NewestOf ==
    ASSUME GateTyped, NEW c, \E r \in Fresh : r.token.context = c
    PROVE  /\ Newest(c) \in Nat
           /\ \E r \in Fresh : r.token.context = c /\ r.revision = Newest(c)
           /\ \A r \in Fresh : r.token.context = c => r.revision <= Newest(c)
<1> DEFINE T == {r.revision : r \in {q \in Fresh : q.token.context = c}}
<1> DEFINE n == Len(updates)
<1> DEFINE f == [i \in 1..n |-> updates[i].revision]
<1>1. Fresh \subseteq Replies BY FreshTyped
<1>2. \A r \in Replies : r.revision \in Nat BY DEF Replies
<1>3. T \subseteq Nat /\ T # {} BY <1>1, <1>2
<1>4. n \in Nat /\ \A i \in 1..n : updates[i] \in Replies BY DEF GateTyped
<1>5. f \in [1..n -> Nat] BY <1>4, <1>2
<1>6. PICK b \in Nat : \A i \in 1..n : f[i] <= b BY <1>4, <1>5, BoundOf, Zenon
<1>7. ASSUME NEW x \in T PROVE x <= b
  <2>1. PICK r \in Fresh : r.revision = x BY <1>7
  <2>2. PICK i \in 1..n : updates[i] = r BY <2>1 DEF Fresh, GateTyped
  <2>3. f[i] = x BY <2>1, <2>2
  <2> QED BY <2>3, <1>6
<1>8. PICK m \in T : \A y \in T : y <= m BY <1>3, <1>7, GreatestOf
<1>9. \A r \in Fresh : r.token.context = c => r.revision \in T OBVIOUS
<1>10. m \in T /\ \A r \in Fresh : r.token.context = c => r.revision <= m BY <1>8, <1>9
<1>11. /\ Newest(c) \in T
       /\ \A r \in Fresh : r.token.context = c => r.revision <= Newest(c)
  BY <1>10, Zenon DEF Newest
<1>12. \E r \in Fresh : r.token.context = c /\ r.revision = Newest(c) BY <1>11
<1> QED BY <1>3, <1>11, <1>12

\* The queue holds what it held, and as much of cs as there is room for.
Lengthened(cs) ==
    /\ commands' \in Seq(Jobs) /\ Len(commands') <= CommandLimit
    /\ Len(commands') \in Len(commands)..(Len(commands) + Len(cs))
    /\ \A i \in 1..Len(commands) : commands'[i] = commands[i]
    /\ \A i \in Len(commands)+1..Len(commands') : commands'[i] = cs[i - Len(commands)]

\* Commands submitted are appended, or refused behind an invalidation.
LEMMA SubmitLengthens ==
    ASSUME GateTyped, NEW cs \in Seq(Jobs), Submit(cs)
    PROVE  /\ Lengthened(cs)
           /\ UNCHANGED <<live, cut, updates>> \/ Invalidate
<1> DEFINE n == Len(commands)
<1>1. commands \in Seq(Jobs) /\ n \in Nat /\ n <= CommandLimit /\ Len(cs) \in Nat
      /\ CommandLimit \in Nat
  BY ConstantsAssumption DEF GateTyped
<1>2. CASE Refused(cs) = {}
  <2>1. commands' = commands \o cs /\ UNCHANGED <<live, cut, updates>> BY <1>2 DEF Submit
  <2>2. /\ commands' \in Seq(Jobs) /\ Len(commands') = n + Len(cs)
        /\ \A i \in 1..(n + Len(cs)) :
              commands'[i] = IF i <= n THEN commands[i] ELSE cs[i - n]
    BY <2>1, <1>1, ConcatProperties
  <2>3. \A i \in 1..Len(cs) : n + i <= CommandLimit
    <3>1. \A i \in DOMAIN cs : ~ (n + i > CommandLimit) BY <1>2 DEF Refused
    <3>2. DOMAIN cs = 1..Len(cs) OBVIOUS
    <3>3. ASSUME NEW i \in 1..Len(cs) PROVE n + i <= CommandLimit
      <4>1. ~ (n + i > CommandLimit) BY <3>1, <3>2
      <4>2. i \in Nat BY <1>1
      <4> QED BY <4>1, <4>2, <1>1
    <3> QED BY <3>3
  <2>4. n + Len(cs) <= CommandLimit BY <2>3, <1>1
  <2> QED BY <2>1, <2>2, <2>4, <1>1 DEF Lengthened
<1>3. CASE Refused(cs) # {}
  <2> DEFINE m == CommandLimit - n
  <2>1. commands' = commands \o SubSeq(cs, 1, m) /\ Invalidate BY <1>3 DEF Submit
  <2>2. m \in Nat /\ m < Len(cs)
    <3>1. PICK i \in DOMAIN cs : n + i > CommandLimit BY <1>3 DEF Refused
    <3> QED BY <3>1, <1>1
  <2>3. /\ SubSeq(cs, 1, m) \in Seq(Jobs) /\ Len(SubSeq(cs, 1, m)) = m
        /\ \A i \in 1..m : SubSeq(cs, 1, m)[i] = cs[i]
    <3>1. 1 \in 1..(Len(cs) + 1) /\ m \in 0..Len(cs) BY <2>2, <1>1
    <3>2. /\ SubSeq(cs, 1, m) \in Seq(Jobs)
          /\ Len(SubSeq(cs, 1, m)) = IF 1 <= m THEN m - 1 + 1 ELSE 0
          /\ \A i \in 1..m-1+1 : SubSeq(cs, 1, m)[i] = cs[1 + i - 1]
      BY <3>1, <2>2, SubSeqProperties
    <3>3. Len(SubSeq(cs, 1, m)) = m BY <3>2, <2>2
    <3>4. \A i \in 1..m : SubSeq(cs, 1, m)[i] = cs[i] BY <3>2, <2>2
    <3> QED BY <3>2, <3>3, <3>4
  <2> HIDE DEF m
  <2> DEFINE s == SubSeq(cs, 1, m)
  <2>4. s \in Seq(Jobs) /\ Len(s) = m /\ \A i \in 1..m : s[i] = cs[i] BY <2>3
  <2>5. commands' = commands \o s BY <2>1
  <2> HIDE DEF s
  <2>6. /\ commands' \in Seq(Jobs) /\ Len(commands') = n + m
        /\ \A i \in 1..(n + m) : commands'[i] = IF i <= n THEN commands[i] ELSE s[i - n]
    BY <2>4, <2>5, <1>1, ConcatProperties
  <2>7. \A i \in n+1..n+m : commands'[i] = cs[i - n] BY <2>6, <2>4, <2>2, <1>1
  <2>8. n + m = CommandLimit BY <1>1 DEF m
  <2> QED BY <2>1, <2>2, <2>6, <2>7, <2>8, <1>1 DEF Lengthened
<1> QED BY <1>2, <1>3

\* A single command appended.
LEMMA AppendLengthens ==
    ASSUME GateTyped, Len(commands) < CommandLimit, NEW x \in Jobs,
           commands' = Append(commands, x)
    PROVE  <<x>> \in Seq(Jobs) /\ Lengthened(<<x>>)
<1>1. commands \in Seq(Jobs) /\ Len(commands) \in Nat /\ CommandLimit \in Nat
  BY ConstantsAssumption DEF GateTyped
<1>2. /\ commands' \in Seq(Jobs) /\ Len(commands') = Len(commands) + 1
      /\ commands'[Len(commands) + 1] = x
      /\ \A i \in 1..Len(commands) : commands'[i] = commands[i]
  BY <1>1, AppendOf
<1>3. <<x>> \in Seq(Jobs) /\ Len(<<x>>) = 1 /\ <<x>>[1] = x OBVIOUS
<1>4. \A i \in Len(commands)+1..Len(commands') : commands'[i] = <<x>>[i - Len(commands)]
  BY <1>1, <1>2, <1>3
<1>5. Len(commands') <= CommandLimit
      /\ Len(commands') \in Len(commands)..(Len(commands) + Len(<<x>>))
  BY <1>1, <1>2, <1>3
<1> QED BY <1>2, <1>3, <1>4, <1>5 DEF Lengthened

\* What the host may add to the queue: commands for contexts that are not removed
\* yet, in generations that go up to the context's, and a destroying one last.
FitsQueue(cs) ==
    \A i \in 1..Len(cs) :
        /\ cs[i].at = "queued" /\ cs[i].token.epoch = 0 /\ cs[i].ask <= asks'
        /\ cs[i].kind \in {"key", "focus", "blur", "cancel", "destroy", "log"}
        /\ cs[i].kind # "key" => cs[i].ask = 0
        /\ cs[i].kind = "key" =>
              cs[i].ask = asks + 1 /\ asks' = asks + 1 /\ Len(cs) = 1
        /\ cs[i].kind = "log" => cs[i].token.context = NoContext
        /\ cs[i].kind # "log" =>
              /\ cs[i].token.context \in alive
              /\ generation[cs[i].token.context] <= cs[i].token.generation
              /\ cs[i].token.generation <= generation'[cs[i].token.context]
        /\ cs[i].kind = "destroy" => cs[i].token.context \notin alive' /\ i = Len(cs)
        /\ \A j \in 1..Len(cs) :
              i < j /\ cs[j].token.context = cs[i].token.context =>
                  cs[i].token.generation <= cs[j].token.generation

\* Contexts only go, and their generations only go up.
ContextsAge ==
    /\ alive' \subseteq alive /\ suspended \subseteq suspended'
    /\ suspended' \subseteq Contexts
    /\ generation' \in [Contexts -> Nat]
    /\ \A c \in Contexts : generation[c] <= generation'[c]

GateOrCut == UNCHANGED <<live, cut, updates>> \/ Invalidate

Enqueue == AskKey \/ Log \/ Focus \/ Cancel \/ Remove

\* A quarantine lets generations only go up.
LEMMA QuarantineAges ==
    ASSUME HostTyped, NEW cs \in SUBSET Contexts, NEW g \in [Contexts -> Nat],
           \A c \in Contexts : generation[c] <= g[c], Quarantine(cs, g)
    PROVE  /\ suspended \subseteq suspended' /\ suspended' \subseteq Contexts
           /\ generation' \in [Contexts -> Nat]
           /\ \A c \in Contexts : generation[c] <= generation'[c] /\ g[c] <= generation'[c]
           /\ suspended' = suspended \cup cs
BY DEF Quarantine, HostTyped

\* Refused commands name contexts.
LEMMA RefusedContexts ==
    ASSUME NEW cs \in Seq(Jobs), \A i \in 1..Len(cs) : cs[i].token.context \in Contexts
    PROVE  Refused(cs) \subseteq Contexts
BY DEF Refused

\* One command, or two of which only the second destroys.
LEMMA OneFits ==
    ASSUME NEW x \in Jobs, x.at = "queued", x.token.epoch = 0, x.ask <= asks',
           x.kind \in {"key", "focus", "blur", "cancel", "destroy", "log"},
           x.kind # "key" => x.ask = 0,
           x.kind = "key" => x.ask = asks + 1 /\ asks' = asks + 1,
           x.kind = "log" => x.token.context = NoContext,
           x.kind # "log" =>
              /\ x.token.context \in alive
              /\ generation[x.token.context] <= x.token.generation
              /\ x.token.generation <= generation'[x.token.context],
           x.kind = "destroy" => x.token.context \notin alive'
    PROVE  <<x>> \in Seq(Jobs) /\ FitsQueue(<<x>>)
<1>1. <<x>> \in Seq(Jobs) /\ Len(<<x>>) = 1 /\ <<x>>[1] = x OBVIOUS
<1>2. \A i \in 1..1 : i = 1 OBVIOUS
<1> QED BY <1>1, <1>2 DEF FitsQueue

\* Two commands of one step, the second of which may destroy.
LEMMA TwoFit ==
    ASSUME NEW x, NEW y, <<x>> \in Seq(Jobs), <<y>> \in Seq(Jobs),
           FitsQueue(<<x>>), FitsQueue(<<y>>), x.kind # "destroy",
           x.kind # "key", y.kind # "key",
           x.token.context = y.token.context =>
              x.token.generation <= y.token.generation
    PROVE  <<x, y>> \in Seq(Jobs) /\ FitsQueue(<<x, y>>)
<1>1. Len(<<x>>) = 1 /\ <<x>>[1] = x /\ Len(<<y>>) = 1 /\ <<y>>[1] = y OBVIOUS
<1>2. x \in Jobs /\ y \in Jobs BY <1>1
<1>3. <<x, y>> \in Seq(Jobs) /\ Len(<<x, y>>) = 2 /\ <<x, y>>[1] = x /\ <<x, y>>[2] = y
  BY <1>2
<1>4. \A i \in 1..2 : i = 1 \/ i = 2 OBVIOUS
<1>5. 1 \in 1..1 OBVIOUS
<1>6. ~ (1 < 1) /\ ~ (2 < 1) /\ ~ (2 < 2) OBVIOUS
<1> HIDE DEF FitsQueue
<1>7. /\ x.at = "queued" /\ x.token.epoch = 0 /\ x.ask <= asks'
      /\ x.kind \in {"key", "focus", "blur", "cancel", "destroy", "log"}
      /\ x.kind # "key" => x.ask = 0
      /\ x.kind = "log" => x.token.context = NoContext
      /\ x.kind # "log" =>
            /\ x.token.context \in alive
            /\ generation[x.token.context] <= x.token.generation
            /\ x.token.generation <= generation'[x.token.context]
      /\ x.kind = "destroy" => x.token.context \notin alive'
  BY <1>1, <1>5 DEF FitsQueue
<1>8. /\ y.at = "queued" /\ y.token.epoch = 0 /\ y.ask <= asks'
      /\ y.kind \in {"key", "focus", "blur", "cancel", "destroy", "log"}
      /\ y.kind # "key" => y.ask = 0
      /\ y.kind = "log" => y.token.context = NoContext
      /\ y.kind # "log" =>
            /\ y.token.context \in alive
            /\ generation[y.token.context] <= y.token.generation
            /\ y.token.generation <= generation'[y.token.context]
      /\ y.kind = "destroy" => y.token.context \notin alive'
  BY <1>1, <1>5 DEF FitsQueue
<1>9. FitsQueue(<<x, y>>) BY <1>3, <1>4, <1>6, <1>7, <1>8 DEF FitsQueue
<1> QED BY <1>3, <1>9

\* No command at all.
LEMMA NoneFit == <<>> \in Seq(Jobs) /\ FitsQueue(<<>>)
<1>1. <<>> \in Seq(Jobs) /\ Len(<<>>) = 0 OBVIOUS
<1>2. \A i \in 1..0 : FALSE OBVIOUS
<1> QED BY <1>1, <1>2 DEF FitsQueue

\* The sequences of commands a step builds.
LEMMA Joined ==
    ASSUME NEW x, NEW y
    PROVE  /\ <<>> \o <<>> = <<>> /\ <<x>> \o <<>> = <<x>> /\ <<>> \o <<y>> = <<y>>
           /\ <<x>> \o <<y>> = <<x, y>>
<1> DEFINE S == {x, y}
<1>1. <<>> \in Seq(S) /\ <<x>> \in Seq(S) /\ <<y>> \in Seq(S) /\ <<x, y>> \in Seq(S)
      /\ Len(<<x>>) = 1 /\ Len(<<y>>) = 1 /\ Len(<<x, y>>) = 2
      /\ <<x>>[1] = x /\ <<y>>[1] = y /\ <<x, y>>[1] = x /\ <<x, y>>[2] = y
  OBVIOUS
<1> HIDE DEF S
<1>2. <<>> \o <<>> = <<>> /\ <<x>> \o <<>> = <<x>> /\ <<>> \o <<y>> = <<y>>
  BY <1>1, ConcatEmptySeq
<1> DEFINE a == <<x>>
<1> DEFINE b == <<y>>
<1> DEFINE d == <<x, y>>
<1>3. a \in Seq(S) /\ b \in Seq(S) /\ d \in Seq(S) /\ Len(a) = 1 /\ Len(b) = 1
      /\ Len(d) = 2 /\ a[1] = x /\ b[1] = y /\ d[1] = x /\ d[2] = y
  BY <1>1
<1> HIDE DEF a, b, d
<1>4. /\ a \o b \in Seq(S) /\ Len(a \o b) = Len(a) + Len(b)
      /\ \A i \in 1..Len(a) + Len(b) : (a \o b)[i] = IF i <= Len(a) THEN a[i] ELSE b[i - Len(a)]
  BY <1>3, ConcatProperties
<1>5. Len(a \o b) = 2 /\ (a \o b)[1] = x /\ (a \o b)[2] = y
  <2>1. 1 \in 1..Len(a) + Len(b) /\ 2 \in 1..Len(a) + Len(b) /\ 1 <= Len(a)
        /\ ~ (2 <= Len(a)) /\ 2 - Len(a) = 1
    BY <1>3
  <2> QED BY <2>1, <1>3, <1>4
<1>6. \A i \in 1..2 : (a \o b)[i] = d[i]
  <2>1. \A i \in 1..2 : i = 1 \/ i = 2 OBVIOUS
  <2> QED BY <2>1, <1>5, <1>3
<1>7. a \o b = d BY <1>3, <1>4, <1>5, <1>6, SeqEqual
<1> QED BY <1>2, <1>7 DEF a, b, d

\* What their places hold.
LEMMA OnlyElements ==
    ASSUME NEW x, NEW y
    PROVE  /\ \A i \in 1..Len(<<>>) : FALSE
           /\ \A i \in 1..Len(<<x>>) : <<x>>[i] = x
           /\ \A i \in 1..Len(<<x, y>>) : <<x, y>>[i] = x \/ <<x, y>>[i] = y
<1>1. Len(<<>>) = 0 /\ Len(<<x>>) = 1 /\ Len(<<x, y>>) = 2 OBVIOUS
<1>2. (\A i \in 1..0 : FALSE) /\ (\A i \in 1..1 : i = 1) /\ (\A i \in 1..2 : i = 1 \/ i = 2)
  OBVIOUS
<1>3. <<x>>[1] = x /\ <<x, y>>[1] = x /\ <<x, y>>[2] = y OBVIOUS
<1> QED BY <1>1, <1>2, <1>3

Enqueued ==
    \E cs \in Seq(Jobs) : Lengthened(cs) /\ FitsQueue(cs)

\* What a step that adds to the queue may do to the contexts and the gate.
EnqueueShape == Enqueued /\ ContextsAge /\ GateOrCut

\* A key asked is enqueued as the invariant wants it,
LEMMA AskKeyEnqueues ==
    ASSUME TypeOK, Counted, AskKey
    PROVE  EnqueueShape
<1> USE TypeOKParts
<1> DEFINE x == Command("key", focused, generation[focused], asks + 1)
<1>1. /\ focused \in alive /\ alive \subseteq Contexts /\ generation[focused] \in Nat
      /\ asks + 1 \in 0..MaxAsks
  BY ConstantsAssumption DEF AskKey, HostTyped, Counted
<1>2. /\ x \in Jobs /\ x.at = "queued" /\ x.kind = "key" /\ x.ask = asks + 1
      /\ x.token.context = focused /\ x.token.epoch = 0
      /\ x.token.generation = generation[focused]
  BY <1>1, CommandTyped DEF Kinds
<1>3. /\ commands' = Append(commands, x) /\ Len(commands) < CommandLimit
      /\ asks' = asks + 1 /\ UNCHANGED <<alive, suspended, generation, live, cut, updates>>
  BY DEF AskKey, contextVars, gateVars
<1> HIDE DEF x
<1>4. <<x>> \in Seq(Jobs) /\ Lengthened(<<x>>) BY <1>2, <1>3, AppendLengthens
<1>5. FitsQueue(<<x>>) BY <1>1, <1>2, <1>3, OneFits
<1>6. ContextsAge BY <1>3 DEF ContextsAge, HostTyped
<1> QED BY <1>3, <1>4, <1>5, <1>6 DEF EnqueueShape, Enqueued, GateOrCut

\* so is a log line,
LEMMA LogEnqueues ==
    ASSUME TypeOK, Counted, Log
    PROVE  EnqueueShape
<1> USE TypeOKParts
<1> DEFINE x == Command("log", NoContext, 0, 0)
<1>2. /\ x \in Jobs /\ x.at = "queued" /\ x.kind = "log" /\ x.ask = 0
      /\ x.token.context = NoContext /\ x.token.epoch = 0
  <2>1. 0 \in 0..MaxAsks BY ConstantsAssumption
  <2> QED BY <2>1, CommandTyped DEF Kinds
<1>3. /\ commands' = Append(commands, x) /\ Len(commands) < CommandLimit
      /\ asks' = asks /\ UNCHANGED <<alive, suspended, generation, live, cut, updates>>
  BY DEF Log, contextVars, gateVars
<1> HIDE DEF x
<1>4. <<x>> \in Seq(Jobs) /\ Lengthened(<<x>>) BY <1>2, <1>3, AppendLengthens
<1>5. asks \in Nat /\ 0 <= asks BY DEF Counted
<1>6. FitsQueue(<<x>>) BY <1>5, <1>2, <1>3, OneFits
<1>7. ContextsAge BY <1>3 DEF ContextsAge, HostTyped
<1> QED BY <1>3, <1>4, <1>6, <1>7 DEF EnqueueShape, Enqueued, GateOrCut

\* so are the commands of a change of the focus,
LEMMA FocusEnqueues ==
    ASSUME TypeOK, Counted, Focus
    PROVE  EnqueueShape
<1> USE TypeOKParts
<1>0. /\ asks' = asks /\ alive' = alive /\ focused \in Contexts \cup {NoContext}
      /\ generation \in [Contexts -> Nat] /\ alive \subseteq Contexts
  BY DEF Focus, HostTyped
<1>1. PICK c \in alive \cup {NoContext} :
        LET cs == Blur(focused) \o
                    (IF c \in alive \ suspended
                     THEN <<Command("focus", c, generation[c], 0)>> ELSE <<>>)
        IN /\ c # focused /\ Submit(cs)
           /\ \E composing \in SUBSET Refused(cs) : Quarantine(composing, generation)
  BY DEF Focus
<1> DEFINE y == Command("focus", c, generation[c], 0)
<1> DEFINE cs == Blur(focused) \o (IF c \in alive \ suspended THEN <<y>> ELSE <<>>)
<1>2. c # focused /\ Submit(cs) BY <1>1
<1>3. PICK composing \in SUBSET Refused(cs) : Quarantine(composing, generation) BY <1>1
<1>4. /\ generation' \in [Contexts -> Nat]
      /\ \A d \in Contexts : generation[d] <= generation'[d]
  BY <1>3, <1>0 DEF Quarantine
<1>5. ASSUME c \in alive \ suspended
      PROVE  /\ <<y>> \in Seq(Jobs) /\ FitsQueue(<<y>>) /\ y.token.context = c
             /\ y.kind = "focus"
  <2>0. c \in Contexts /\ generation[c] \in Nat /\ asks \in Nat /\ 0 <= asks
        /\ 0 \in 0..MaxAsks
    BY <1>5, ConstantsAssumption DEF HostTyped, Counted
  <2>1. /\ y \in Jobs /\ y.at = "queued" /\ y.kind = "focus" /\ y.ask = 0
        /\ y.token.context = c /\ y.token.epoch = 0 /\ y.token.generation = generation[c]
    BY <2>0, CommandTyped DEF Kinds
  <2> HIDE DEF y
  <2>2. generation[c] <= generation[c] /\ generation[c] <= generation'[c]
    BY <2>0, <1>4
  <2> QED BY <2>0, <2>1, <2>2, <1>5, <1>0, OneFits
<1> HIDE DEF y
<1>6. ASSUME NEW x, Blur(focused) = <<x>>, focused \in alive,
             x = Command("blur", focused, generation[focused], 0)
      PROVE  <<x>> \in Seq(Jobs) /\ FitsQueue(<<x>>) /\ x.token.context = focused
             /\ x.kind = "blur"
  <2>0. focused \in Contexts /\ generation[focused] \in Nat /\ asks \in Nat /\ 0 <= asks
        /\ 0 \in 0..MaxAsks
    BY <1>6, ConstantsAssumption DEF HostTyped, Counted
  <2>1. /\ x \in Jobs /\ x.at = "queued" /\ x.kind = "blur" /\ x.ask = 0
        /\ x.token.context = focused /\ x.token.epoch = 0
        /\ x.token.generation = generation[focused]
    BY <2>0, <1>6, CommandTyped DEF Kinds
  <2>2. /\ generation[focused] <= generation[focused]
        /\ generation[focused] <= generation'[focused]
    BY <2>0, <1>4
  <2> QED BY <2>0, <2>1, <2>2, <1>6, <1>0, OneFits
<1>11. Submit(cs) BY <1>2
<1> HIDE DEF cs
<1>7. cs \in Seq(Jobs) /\ FitsQueue(cs) /\ \A i \in 1..Len(cs) : cs[i].kind # "log"
  <2>1. CASE focused \notin alive
    <3>1. Blur(focused) = <<>> BY <2>1 DEF Blur
    <3>2. cs = IF c \in alive \ suspended THEN <<y>> ELSE <<>> BY <3>1, Joined DEF cs
    <3> QED BY <3>2, <1>5, NoneFit, OnlyElements
  <2>2. CASE focused \in alive
    <3> DEFINE x == Command("blur", focused, generation[focused], 0)
    <3>1. Blur(focused) = <<x>> BY <2>2 DEF Blur
    <3>2. <<x>> \in Seq(Jobs) /\ FitsQueue(<<x>>) /\ x.token.context = focused
          /\ x.kind = "blur"
      BY <3>1, <2>2, <1>6
    <3> HIDE DEF x
    <3>3. CASE c \in alive \ suspended
      <4>1. cs = <<x, y>> BY <3>1, <3>3, Joined DEF cs
      <4>2. /\ <<y>> \in Seq(Jobs) /\ FitsQueue(<<y>>) /\ y.token.context = c
            /\ y.kind = "focus"
        BY <3>3, <1>5
      <4>3. <<x, y>> \in Seq(Jobs) /\ FitsQueue(<<x, y>>) BY <4>2, <3>2, <1>2, TwoFit
      <4> QED BY <4>1, <4>2, <4>3, <3>2, OnlyElements
    <3>4. CASE c \notin alive \ suspended
      <4>1. cs = <<x>> BY <3>1, <3>4, Joined DEF cs
      <4> QED BY <4>1, <3>2, OnlyElements
    <3> QED BY <3>3, <3>4
  <2> QED BY <2>1, <2>2
<1>8. Lengthened(cs) /\ GateOrCut BY <1>7, <1>11, SubmitLengthens DEF GateOrCut
<1>9. composing \subseteq Contexts
  <2>1. \A i \in 1..Len(cs) : cs[i].token.context \in Contexts
    BY <1>7, <1>0 DEF FitsQueue
  <2> QED BY <2>1, <1>7, RefusedContexts
<1>10. ContextsAge
  BY <1>9, <1>3, <1>0, QuarantineAges DEF ContextsAge
<1> QED BY <1>7, <1>8, <1>10 DEF EnqueueShape, Enqueued

\* of a cancellation,
LEMMA CancelEnqueues ==
    ASSUME TypeOK, Counted, Cancel
    PROVE  EnqueueShape
<1> USE TypeOKParts
<1>0. /\ asks' = asks /\ alive' = alive /\ generation \in [Contexts -> Nat]
      /\ alive \subseteq Contexts /\ asks \in Nat /\ 0 <= asks /\ 0 \in 0..MaxAsks
  BY ConstantsAssumption DEF Cancel, HostTyped, Counted
<1>1. PICK c \in alive \ suspended :
        LET cs == <<Command("cancel", c, generation[c] + 1, 0)>>
        IN /\ Submit(cs)
           /\ Quarantine(Refused(cs), [generation EXCEPT ![c] = generation[c] + 1])
  BY DEF Cancel
<1>2. c \in Contexts /\ generation[c] \in Nat /\ generation[c] + 1 \in Nat BY <1>0
<1> DEFINE x == Command("cancel", c, generation[c] + 1, 0)
<1> DEFINE g == [generation EXCEPT ![c] = generation[c] + 1]
<1>3. Submit(<<x>>) /\ Quarantine(Refused(<<x>>), g) BY <1>1
<1>4. /\ x \in Jobs /\ x.at = "queued" /\ x.kind = "cancel" /\ x.ask = 0
      /\ x.token.context = c /\ x.token.epoch = 0
      /\ x.token.generation = generation[c] + 1
  BY <1>0, <1>2, CommandTyped DEF Kinds
<1> HIDE DEF x
<1>5. g \in [Contexts -> Nat] /\ g[c] = generation[c] + 1
      /\ \A d \in Contexts : generation[d] <= g[d]
  BY <1>0, <1>2
<1> HIDE DEF g
<1>6. <<x>> \in Seq(Jobs) /\ \A i \in 1..Len(<<x>>) : <<x>>[i].token.context \in Contexts
  BY <1>2, <1>4, OnlyElements
<1>7. Refused(<<x>>) \subseteq Contexts BY <1>6, RefusedContexts
<1>8. /\ suspended \subseteq suspended' /\ suspended' \subseteq Contexts
      /\ generation' \in [Contexts -> Nat]
      /\ \A d \in Contexts : generation[d] <= generation'[d] /\ g[d] <= generation'[d]
  BY <1>3, <1>5, <1>7, QuarantineAges
<1>9. generation[c] <= generation[c] + 1 /\ generation[c] + 1 <= generation'[c]
  BY <1>2, <1>5, <1>8
<1>10. FitsQueue(<<x>>) BY <1>0, <1>1, <1>4, <1>9, OneFits
<1>11. Lengthened(<<x>>) /\ GateOrCut BY <1>3, <1>6, SubmitLengthens DEF GateOrCut
<1>12. ContextsAge BY <1>0, <1>8 DEF ContextsAge
<1> QED BY <1>6, <1>10, <1>11, <1>12 DEF EnqueueShape, Enqueued

\* and of the removal of a context;
LEMMA RemoveEnqueues ==
    ASSUME TypeOK, Counted, Remove
    PROVE  EnqueueShape
<1> USE TypeOKParts
<1>0. /\ asks' = asks /\ generation \in [Contexts -> Nat] /\ suspended' = suspended
      /\ suspended \subseteq Contexts
      /\ alive \subseteq Contexts /\ asks \in Nat /\ 0 <= asks /\ 0 \in 0..MaxAsks
  BY ConstantsAssumption DEF Remove, HostTyped, Counted
<1>1. PICK c \in alive :
        /\ alive' = alive \ {c}
        /\ Submit((IF focused = c THEN Blur(c) ELSE <<>>) \o
                  <<Command("destroy", c, generation[c] + 1, 0)>>)
        /\ generation' = [generation EXCEPT ![c] = @ + 1]
  BY DEF Remove
<1>2. c \in Contexts /\ generation[c] \in Nat BY <1>0, <1>1
<1> DEFINE x == Command("blur", c, generation[c], 0)
<1> DEFINE y == Command("destroy", c, generation[c] + 1, 0)
<1> DEFINE cs == (IF focused = c THEN Blur(c) ELSE <<>>) \o <<y>>
<1>3. Submit(cs) BY <1>1
<1>4. Blur(c) = <<x>> BY <1>1 DEF Blur
<1>5. /\ x \in Jobs /\ x.at = "queued" /\ x.kind = "blur" /\ x.ask = 0
      /\ x.token.context = c /\ x.token.epoch = 0 /\ x.token.generation = generation[c]
  BY <1>0, <1>2, CommandTyped DEF Kinds
<1>6. /\ y \in Jobs /\ y.at = "queued" /\ y.kind = "destroy" /\ y.ask = 0
      /\ y.token.context = c /\ y.token.epoch = 0
      /\ y.token.generation = generation[c] + 1
  BY <1>0, <1>2, CommandTyped DEF Kinds
<1> HIDE DEF x, y
<1>7. /\ generation' \in [Contexts -> Nat] /\ generation'[c] = generation[c] + 1
      /\ \A d \in Contexts : generation[d] <= generation'[d]
  BY <1>0, <1>1, <1>2
<1>8. /\ generation[c] <= generation[c] /\ generation[c] <= generation[c] + 1
      /\ generation[c] + 1 <= generation'[c]
      /\ generation[c] <= generation'[c] /\ c \notin alive'
  BY <1>1, <1>2, <1>7
<1>9. <<x>> \in Seq(Jobs) /\ FitsQueue(<<x>>) BY <1>0, <1>1, <1>5, <1>8, OneFits
<1>10. <<y>> \in Seq(Jobs) /\ FitsQueue(<<y>>) BY <1>0, <1>1, <1>6, <1>8, OneFits
<1>11. <<x, y>> \in Seq(Jobs) /\ FitsQueue(<<x, y>>)
  BY <1>5, <1>6, <1>8, <1>9, <1>10, TwoFit
<1>12. cs = <<y>> \/ cs = <<x, y>> BY <1>4, Joined
<1> HIDE DEF cs
<1>13. cs \in Seq(Jobs) /\ FitsQueue(cs) BY <1>10, <1>11, <1>12
<1>14. Lengthened(cs) /\ GateOrCut BY <1>3, <1>13, SubmitLengthens DEF GateOrCut
<1>15. ContextsAge BY <1>0, <1>1, <1>7 DEF ContextsAge
<1> QED BY <1>13, <1>14, <1>15 DEF EnqueueShape, Enqueued

\* so is whatever the host enqueues.
LEMMA Enqueues ==
    ASSUME TypeOK, Counted, Enqueue
    PROVE  EnqueueShape
BY AskKeyEnqueues, LogEnqueues, FocusEnqueues, CancelEnqueues, RemoveEnqueues DEF Enqueue

-----------------------------------------------------------------------------
\* The types of the host's side.

\* Enqueuing keeps the types of the gate and of the contexts.
LEMMA EnqueueTyped ==
    ASSUME TypeOK, Counted, Enqueue
    PROVE  /\ GateTyped' /\ alive' \subseteq Contexts /\ suspended' \subseteq Contexts
           /\ generation' \in [Contexts -> Nat]
           /\ \A c \in Contexts : generation'[c] >= 1
           /\ live' \in {live, 0}
<1> USE TypeOKParts
<1>1. EnqueueShape BY Enqueues
<1>2. commands' \in Seq(Jobs) /\ Len(commands') <= CommandLimit
  BY <1>1 DEF EnqueueShape, Enqueued, Lengthened
<1>3. failed' = failed
  BY DEF Enqueue, AskKey, Log, Focus, Cancel, Remove, gateVars
<1>4. /\ live' \in 0..MaxConnections /\ live' \in {live, 0} /\ cut' \in BOOLEAN
      /\ updates' \in Seq(Replies) /\ Len(updates') <= UpdateLimit
  <2>1. CASE UNCHANGED <<live, cut, updates>> BY <2>1 DEF GateTyped
  <2>2. CASE Invalidate
    <3>1. updates' \in Seq(Replies) /\ Len(updates') = 0 /\ live' = 0 /\ cut' = TRUE
      BY <2>2, EmptySeq DEF Invalidate
    <3> QED BY <3>1, ConstantsAssumption
  <2> QED BY <1>1, <2>1, <2>2 DEF EnqueueShape, GateOrCut
<1>5. GateTyped' BY <1>2, <1>3, <1>4 DEF GateTyped
<1>6. /\ alive' \subseteq Contexts /\ suspended' \subseteq Contexts
      /\ generation' \in [Contexts -> Nat]
  BY <1>1 DEF EnqueueShape, ContextsAge, HostTyped
<1>7. ASSUME NEW c \in Contexts PROVE generation'[c] >= 1
  <2>1. generation[c] >= 1 /\ generation[c] <= generation'[c]
    BY <1>1 DEF EnqueueShape, ContextsAge, Counted
  <2>2. generation[c] \in Nat /\ generation'[c] \in Nat BY <1>6 DEF HostTyped
  <2> QED BY <2>1, <2>2
<1> QED BY <1>4, <1>5, <1>6, <1>7

\* The host keeps what the worker and the engine have.
LEMMA WireKept ==
    ASSUME ConnTyped, EngineTyped, UNCHANGED wire
    PROVE  ConnTyped' /\ EngineTyped'
BY DEF ConnTyped, EngineTyped, wire, connVars, engineVars

\* Focus, cancellation, removal and log lines keep the types.
LEMMA TypeMoves ==
    ASSUME TypeOK, Counted, PressIsTested, Focus \/ Cancel \/ Remove \/ Log
    PROVE  TypeOK' /\ Counted'
<1> USE TypeOKParts, TypeOKPartsNext
<1>1. /\ GateTyped' /\ alive' \subseteq Contexts /\ suspended' \subseteq Contexts
      /\ generation' \in [Contexts -> Nat] /\ \A c \in Contexts : generation'[c] >= 1
      /\ live' \in {live, 0}
  BY EnqueueTyped DEF Enqueue
<1>2. ConnTyped' /\ EngineTyped' BY WireKept DEF Focus, Cancel, Remove, Log
<1>3. HistTyped' BY HistKept DEF Focus, Cancel, Remove, Log
<1>4. /\ UNCHANGED <<route, remembered, host, ask, connections, asks, pushes>>
      /\ moves' = moves + 1 /\ UNCHANGED <<wire, abandoned>>
  BY DEF Focus, Cancel, Remove, Log, Move, contextVars, keyVars, histVars
<1>5. Counted' BY <1>1, <1>4 DEF Counted, wire, connVars
<1>6. edits' \subseteq edits BY DEF Focus, Cancel, Remove, Log
<1>7. focused' \in Contexts \cup {NoContext}
  BY DEF Focus, Cancel, Remove, Log, HostTyped
<1>8. tested' \in Tokens /\ press' \in Tokens
  <2>1. tested' \in {tested, NoToken} BY DEF Focus, Cancel, Remove, Log, keyVars
  <2>2. press' \in {press, NoToken, [press EXCEPT !.generation = 0]}
    BY DEF Focus, Cancel, Remove, Log, keyVars
  <2>3. [press EXCEPT !.generation = 0] \in Tokens
    <3>1. press \in Tokens BY DEF HostTyped
    <3> QED BY <3>1 DEF Tokens
  <2> QED BY <2>1, <2>2, <2>3, BlankTyped DEF HostTyped
<1>9. HostTyped' BY <1>1, <1>4, <1>6, <1>7, <1>8 DEF HostTyped
<1> QED BY <1>1, <1>2, <1>3, <1>5, <1>9

\* So do the steps of a key.
LEMMA TypeKey ==
    ASSUME TypeOK, Counted, AbandonedIsDead, Key
    PROVE  TypeOK' /\ Counted'
<1> USE TypeOKParts, TypeOKPartsNext
<1>0. ConnTyped' /\ EngineTyped' /\ UNCHANGED <<conn, connections, pushes, moves>>
  BY WireKept
  DEF Key, ReuseTested, AskKey, PassKey, GiveUp, Receive, Drain, ApplyEdit, Decide, wire,
      connVars, boundVars
<1>1. CASE ReuseTested \/ PassKey
  <2>1. GateTyped' BY <1>1, GateKept DEF ReuseTested, PassKey
  <2>2. HistTyped' BY <1>1, HistKept DEF ReuseTested, PassKey
  <2>3. HostTyped' BY <1>1, BlankTyped DEF ReuseTested, PassKey, HostTyped, contextVars
  <2>4. Counted'
    BY <1>1, <1>0 DEF ReuseTested, PassKey, Counted, gateVars, boundVars, contextVars, histVars
  <2> QED BY <1>0, <2>1, <2>2, <2>3, <2>4
<1>2. CASE AskKey
  <2>1. GateTyped' BY <1>2, EnqueueTyped DEF Enqueue
  <2>2. asks' = asks + 1 /\ asks' \in 0..MaxAsks /\ asks \in Nat
    BY <1>2, ConstantsAssumption DEF AskKey, Counted
  <2>3. ask' \in Replies
    <3>1. ask' = [NoAnswer EXCEPT !.ask = asks'] BY <1>2, <2>2 DEF AskKey
    <3> QED BY <3>1, <2>2, BlankTyped DEF Replies
  <2>4. HostTyped' BY <1>2, <2>3, BlankTyped DEF AskKey, HostTyped, contextVars
  <2>5. HistTyped' BY <1>2, HistKept DEF AskKey
  <2>6. Counted' BY <1>2, <1>0, <2>2 DEF AskKey, Counted, gateVars, contextVars, histVars
  <2> QED BY <1>0, <2>1, <2>4, <2>5, <2>6
<1>3. CASE GiveUp
  <2>1. GateTyped' BY <1>3, InvalidateTyped DEF GiveUp
  <2>2. ask.ask \in 1..asks /\ asks \in 0..MaxAsks
    <3>1. ask.ask # 0 /\ ask.ask <= asks BY <1>3 DEF GiveUp, AbandonedIsDead
    <3>2. ask.ask \in 0..MaxAsks BY DEF HostTyped, Replies
    <3> QED BY <3>1, <3>2, ConstantsAssumption DEF Counted
  <2>3. ask.ask \in 1..MaxAsks BY <2>2, ConstantsAssumption
  <2>4. HistTyped' BY <1>3, <2>3 DEF GiveUp, HistTyped
  <2>5. HostTyped' BY <1>3, BlankTyped DEF GiveUp, HostTyped, contextVars
  <2>6. live' = 0 BY <1>3 DEF GiveUp, Invalidate
  <2>7. abandoned' \subseteq 1..asks'
    <3>1. abandoned' = abandoned \cup {ask.ask} /\ asks' = asks BY <1>3 DEF GiveUp, boundVars
    <3> QED BY <3>1, <2>2 DEF Counted
  <2>8. generation' = generation /\ UNCHANGED boundVars BY <1>3 DEF GiveUp, contextVars
  <2>9. Counted' BY <1>0, <2>6, <2>7, <2>8 DEF Counted, boundVars
  <2> QED BY <1>0, <2>1, <2>4, <2>5, <2>9
<1>4. CASE Receive
  <2>1. GateTyped' BY <1>4, GateKept DEF Receive
  <2>2. ask.token \in Tokens BY DEF HostTyped, Replies
  <2>3. tested' \in {tested, ask.token} BY <1>4 DEF Receive
  <2>4. HostTyped' BY <1>4, <2>2, <2>3 DEF Receive, HostTyped, contextVars
  <2>5. HistTyped' BY <1>4, HistKept DEF Receive
  <2>6. Counted'
    BY <1>4, <1>0 DEF Receive, Counted, gateVars, boundVars, contextVars, histVars
  <2> QED BY <1>0, <2>1, <2>4, <2>5, <2>6
<1>5. CASE Drain
  <2>1. GateTyped'
    <3>1. updates' = <<>> /\ UNCHANGED <<gateVars, commands>> BY <1>5 DEF Drain
    <3>2. updates' \in Seq(Replies) /\ Len(updates') = 0 BY <3>1, EmptySeq
    <3>3. Len(updates') <= UpdateLimit BY <3>2, ConstantsAssumption
    <3> QED BY <3>1, <3>2, <3>3 DEF GateTyped, gateVars
  <2>2. Fresh \subseteq Replies BY FreshTyped
  <2>3. route' \in [Contexts -> [epoch : 0..MaxConnections, revision : Nat]]
    <3>1. ASSUME NEW c \in Contexts, \E r \in Fresh : r.token.context = c
          PROVE  [epoch |-> live, revision |-> Newest(c)]
                   \in [epoch : 0..MaxConnections, revision : Nat]
      <4>1. Newest(c) \in Nat BY <3>1, NewestOf
      <4> QED BY <4>1 DEF GateTyped
    <3> QED BY <1>5, <3>1 DEF Drain, HostTyped
  <2>4. edits' \subseteq Replies BY <1>5, <2>2 DEF Drain, HostTyped
  <2>5. remembered' \in BOOLEAN BY <1>5 DEF Drain
  <2>6. host' \in {host, "drained"} BY <1>5 DEF Drain
  <2>7. UNCHANGED <<focused, alive, suspended, generation, ask, tested, press>>
    BY <1>5 DEF Drain
  <2>8. HostTyped' BY <2>3, <2>4, <2>5, <2>6, <2>7 DEF HostTyped
  <2>9. HistTyped' BY <1>5, HistKept DEF Drain
  <2>10. Counted' BY <1>5, <1>0 DEF Drain, Counted, gateVars, boundVars, histVars
  <2> QED BY <1>0, <2>1, <2>8, <2>9, <2>10
<1>6. CASE ApplyEdit
  <2>1. GateTyped' BY <1>6, GateKept DEF ApplyEdit
  <2>2. HostTyped' BY <1>6 DEF ApplyEdit, HostTyped, contextVars, keyVars
  <2>3. HistTyped'
    <3>1. applied' \subseteq applied \cup edits BY <1>6 DEF ApplyEdit
    <3> QED BY <1>6, <3>1 DEF ApplyEdit, HistTyped, HostTyped
  <2>4. Counted'
    BY <1>6, <1>0 DEF ApplyEdit, Counted, gateVars, boundVars, contextVars
  <2> QED BY <1>0, <2>1, <2>2, <2>3, <2>4
<1>7. CASE Decide
  <2>1. GateTyped' BY <1>7, GateKept DEF Decide
  <2>2. ask.token \in Tokens BY DEF HostTyped, Replies
  <2>3. press' \in {ask.token, NoToken} BY <1>7 DEF Decide
  <2>4. HostTyped' BY <1>7, <2>2, <2>3, BlankTyped DEF Decide, HostTyped, contextVars
  <2>5. ask.ask \in 1..MaxAsks
    <3>1. ask.ask # 0 BY <1>7 DEF Decide, AbandonedIsDead
    <3>2. ask.ask \in 0..MaxAsks BY DEF HostTyped, Replies
    <3> QED BY <3>1, <3>2, ConstantsAssumption
  <2>6. HistTyped'
    <3>1. passed' \subseteq passed \cup {ask.ask} BY <1>7 DEF Decide
    <3> QED BY <1>7, <3>1, <2>5 DEF Decide, HistTyped
  <2>7. Counted'
    BY <1>7, <1>0 DEF Decide, Counted, gateVars, boundVars, contextVars
  <2> QED BY <1>0, <2>1, <2>4, <2>6, <2>7
<1> QED BY <1>1, <1>2, <1>3, <1>4, <1>5, <1>6, <1>7, Zenon DEF Key

-----------------------------------------------------------------------------
(* The gate and the connection.                                            *)

\* The host touches neither the worker nor the engine; it closes the gate, or
\* takes the replies that wait.
HostStep == Key \/ Focus \/ Cancel \/ Remove \/ Log

\* What the host leaves alone: all of the wire, and of the gate what it does not close.
LEMMA HostLeaves ==
    ASSUME TypeOK, Counted, HostStep
    PROVE  /\ UNCHANGED wire /\ UNCHANGED sent
           /\ \/ live' = live /\ cut' = cut /\ updates' \in {updates, <<>>}
              \/ live' = 0 /\ cut' = TRUE /\ updates' = <<>>
           /\ ContextsAge /\ connections' = connections
<1> USE TypeOKParts
<1>1. ASSUME Enqueue PROVE ContextsAge /\ GateOrCut
  BY <1>1, Enqueues DEF EnqueueShape
<1>2. ASSUME UNCHANGED <<alive, suspended, generation>> PROVE ContextsAge
  BY <1>2 DEF ContextsAge, HostTyped
<1>3. UNCHANGED wire /\ UNCHANGED sent /\ connections' = connections
  BY DEF HostStep, Key, ReuseTested, AskKey, PassKey, GiveUp, Receive, Drain, ApplyEdit, Decide,
         Focus, Cancel, Remove, Log, boundVars, histVars
<1>4. CASE Enqueue BY <1>1, <1>3, <1>4 DEF GateOrCut, Invalidate
<1>5. CASE ~Enqueue
  <2>1. UNCHANGED <<alive, suspended, generation>>
    BY <1>5 DEF HostStep, Enqueue, Key, ReuseTested, PassKey, GiveUp, Receive, Drain, ApplyEdit,
                Decide, contextVars
  <2>2. \/ live' = live /\ cut' = cut /\ updates' \in {updates, <<>>}
        \/ live' = 0 /\ cut' = TRUE /\ updates' = <<>>
    BY <1>5 DEF HostStep, Enqueue, Key, ReuseTested, PassKey, GiveUp, Receive, Drain, ApplyEdit,
                Decide, gateVars, Invalidate
  <2> QED BY <2>1, <2>2, <1>2, <1>3
<1> QED BY <1>4, <1>5

\* A step of the engine that publishes a reply.
EnginePublishes ==
    \E r \in Replies, c \in Contexts :
        /\ up /\ session[c] # NoSession /\ r.token.context = c
        /\ r.kind = "reply" /\ r.token.epoch = conn
        /\ \/ r.token = session[c].token /\ r.ask = 0 /\ answer' = answer
              /\ session'[c] # NoSession
           \/ /\ r.token = request.token /\ r.ask = request.ask /\ answer' = r
              /\ Pending /\ request.kind # "open" /\ Observed(request.token)
              /\ session'[c] = NoSession <=> request.kind = "destroy"
        /\ session[c].revision <= r.revision
        /\ \/ sent' = sent
           \/ sent' = sent \cup {r} /\ r.revision = session[c].revision + 1
        /\ \/ session' = [session EXCEPT ![c] = [token |-> r.token, revision |-> r.revision]]
           \/ session' = [session EXCEPT ![c] = NoSession]
        /\ Publish(r)
        /\ UNCHANGED <<workerSide, conn, up, subscribed, opened, request, focused,
                       contextVars, edits, keyVars, applied, abandoned, passed,
                       connections, asks>>

\* A session of a context is not the record for none.
LEMMA SomeSession ==
    ASSUME NEW t \in Tokens, t.context \in Contexts, NEW n \in Nat
    PROVE  [token |-> t, revision |-> n] # NoSession
<1>1. NoToken.context = NoContext BY DEF NoToken
<1>2. t # NoToken BY <1>1, ConstantsAssumption
<1> QED BY <1>2 DEF NoSession

\* A key, a command or a push served publishes at most one reply, of its session.
LEMMA ServesPublish ==
    ASSUME TypeOK, JobIsServed, SessionsAreOpened, ServeKey \/ ServeCommand \/ Push
    PROVE  EnginePublishes
<1> USE TypeOKParts
<1>0. /\ session \in [Contexts -> Sessions] /\ request \in Requests
      /\ \A c \in Contexts : session[c] # NoSession =>
            session[c].token.context = c /\ session[c].token.epoch = conn
  BY DEF EngineTyped, SessionsAreOpened
<1>1. CASE ServeKey
  <2> DEFINE t == request.token
  <2> DEFINE c == t.context
  <2>1. c \in Contexts /\ session[c] \in Sessions /\ t \in Tokens
    BY <1>1, ObservedTyped DEF ServeKey
  <2>2. session[c].revision \in Nat BY <2>1 DEF Sessions
  <2>3. Pending /\ Observed(t) /\ request.kind = "key" BY <1>1 DEF ServeKey
  <2>4. session[c] # NoSession /\ t.epoch = conn BY <2>3, <2>1, <1>0 DEF Observed
  <2>5. PICK updated \in BOOLEAN, eaten \in BOOLEAN :
          /\ Answered("reply", session[c].revision + (IF updated THEN 1 ELSE 0), eaten)
          /\ session' = [session EXCEPT ![c] =
                [token |-> t, revision |-> session[c].revision + (IF updated THEN 1 ELSE 0)]]
          /\ Publish(answer')
          /\ sent' = IF updated THEN sent \cup {answer'} ELSE sent
    BY <1>1 DEF ServeKey
  <2> DEFINE m == session[c].revision + (IF updated THEN 1 ELSE 0)
  <2>15. m \in Nat BY <2>2
  <2>16. /\ Answered("reply", m, eaten)
         /\ session' = [session EXCEPT ![c] = [token |-> t, revision |-> m]]
    BY <2>5
  <2>17. session[c].revision <= m /\ (updated => m = session[c].revision + 1) BY <2>2
  <2> HIDE DEF m
  <2>6. PICK n \in Nat :
          /\ n = m /\ Answered("reply", n, eaten)
          /\ session' = [session EXCEPT ![c] = [token |-> t, revision |-> n]]
    BY <2>15, <2>16
  <2>7. PICK r \in Replies : /\ answer' = r /\ r.kind = "reply" /\ r.revision = n /\ r.token = t
                             /\ r.ask = request.ask
    BY <2>6, AnsweredTyped
  <2>8. /\ session[c].revision <= n
        /\ \/ sent' = sent
           \/ sent' = sent \cup {r} /\ n = session[c].revision + 1
    BY <2>5, <2>6, <2>7, <2>17
  <2>9. session'[c] # NoSession
    <3>1. session'[c] = [token |-> t, revision |-> n] BY <2>6, <2>1, <1>0
    <3> QED BY <3>1, <2>1, SomeSession
  <2>10. up BY <2>3 DEF Pending
  <2>11. UNCHANGED <<workerSide, conn, up, subscribed, opened, request, focused,
                     contextVars, edits, keyVars, applied, abandoned, passed,
                     connections, asks>>
    BY <1>1 DEF ServeKey, boundVars
  <2>12. r.token.context = c /\ r.token.epoch = conn BY <2>7, <2>4
  <2>13. Publish(r) BY <2>5, <2>7
  <2> HIDE DEF c, t
  <2>14. request.token = t /\ request.kind # "open" /\ request.kind # "destroy" BY <2>3 DEF t
  <2>18. session' = [session EXCEPT ![c] = [token |-> r.token, revision |-> r.revision]]
         /\ session[c].revision <= r.revision
         /\ \/ sent' = sent
            \/ sent' = sent \cup {r} /\ r.revision = session[c].revision + 1
    BY <2>6, <2>7, <2>8
  <2>19. /\ r.token = request.token /\ r.ask = request.ask /\ answer' = r
         /\ Pending /\ request.kind # "open" /\ Observed(request.token)
         /\ session'[c] = NoSession <=> request.kind = "destroy"
    BY <2>3, <2>7, <2>9, <2>14
  <2>20. r.kind = "reply" BY <2>7
  <2> QED
    BY <2>1, <2>4, <2>10, <2>11, <2>12, <2>13, <2>18, <2>19, <2>20
    DEF EnginePublishes
<1>2. CASE ServeCommand
  <2> DEFINE t == request.token
  <2> DEFINE c == t.context
  <2>1. c \in Contexts /\ session[c] \in Sessions /\ t \in Tokens
    BY <1>2, ObservedTyped DEF ServeCommand
  <2>2. session[c].revision \in Nat BY <2>1 DEF Sessions
  <2>3. Pending /\ Observed(t) /\ request.kind \notin {"open", "key"}
    BY <1>2 DEF ServeCommand
  <2>4. session[c] # NoSession /\ t.epoch = conn BY <2>3, <2>1, <1>0 DEF Observed
  <2>5. PICK n \in Nat :
          /\ n = session[c].revision + 1 /\ Answered("reply", n, FALSE)
          /\ session' = [session EXCEPT ![c] =
                           IF request.kind = "destroy" THEN NoSession
                           ELSE [token |-> t, revision |-> n]]
          /\ Publish(answer') /\ sent' = sent \cup {answer'}
    <3>1. session[c].revision + 1 \in Nat BY <2>2
    <3> QED BY <3>1, <1>2 DEF ServeCommand
  <2>7. PICK r \in Replies : /\ answer' = r /\ r.kind = "reply" /\ r.revision = n /\ r.token = t
                             /\ r.ask = request.ask
    BY <2>5, AnsweredTyped
  <2>8. session[c].revision <= n /\ sent' = sent \cup {r} /\ n = session[c].revision + 1
    BY <2>5, <2>7, <2>2
  <2>9. session'[c] = NoSession <=> request.kind = "destroy"
    <3>1. CASE request.kind = "destroy" BY <3>1, <2>5, <2>1, <1>0
    <3>2. CASE request.kind # "destroy"
      <4>1. session'[c] = [token |-> t, revision |-> n] BY <3>2, <2>5, <2>1, <1>0
      <4> QED BY <3>2, <4>1, <2>1, SomeSession
    <3> QED BY <3>1, <3>2
  <2>10. up BY <2>3 DEF Pending
  <2>11. UNCHANGED <<workerSide, conn, up, subscribed, opened, request, focused,
                     contextVars, edits, keyVars, applied, abandoned, passed,
                     connections, asks>>
    BY <1>2 DEF ServeCommand, boundVars
  <2>12. r.token.context = c /\ r.token.epoch = conn BY <2>7, <2>4
  <2>13. Publish(r) BY <2>5, <2>7
  <2> HIDE DEF c, t
  <2>14. request.token = t /\ request.kind # "open" BY <2>3 DEF t
  <2>15. \/ session' = [session EXCEPT ![c] = [token |-> r.token, revision |-> r.revision]]
         \/ session' = [session EXCEPT ![c] = NoSession]
    BY <2>5, <2>7
  <2>19. /\ r.token = request.token /\ r.ask = request.ask /\ answer' = r
         /\ Pending /\ request.kind # "open" /\ Observed(request.token)
         /\ session'[c] = NoSession <=> request.kind = "destroy"
    BY <2>3, <2>7, <2>9, <2>14
  <2>20. /\ r.kind = "reply" /\ session[c].revision <= r.revision
         /\ sent' = sent \cup {r} /\ r.revision = session[c].revision + 1
    BY <2>7, <2>8
  <2> QED
    BY <2>1, <2>4, <2>10, <2>11, <2>12, <2>13, <2>15, <2>19, <2>20
    DEF EnginePublishes
<1>3. CASE Push
  <2>1. PICK c \in Contexts :
          /\ session[c] # NoSession
          /\ session' = [session EXCEPT ![c].revision = session[c].revision + 1]
          /\ LET r == [kind |-> "reply", token |-> session[c].token,
                       revision |-> session[c].revision + 1, ask |-> 0, eaten |-> FALSE]
             IN Publish(r) /\ sent' = sent \cup {r}
    BY <1>3 DEF Push
  <2>2. session[c] \in Sessions BY <1>0
  <2>3. PICK n \in Nat : n = session[c].revision + 1 BY <2>2 DEF Sessions
  <2>4. PICK r \in Replies : /\ r.kind = "reply" /\ r.token = session[c].token
                             /\ r.revision = n /\ r.ask = 0
                             /\ Publish(r) /\ sent' = sent \cup {r}
    <3> DEFINE q == [kind |-> "reply", token |-> session[c].token, revision |-> n,
                     ask |-> 0, eaten |-> FALSE]
    <3>1. q \in Replies BY <2>2, ConstantsAssumption DEF Sessions, Replies
    <3>2. Publish(q) /\ sent' = sent \cup {q} BY <2>1, <2>3
    <3>3. q.kind = "reply" /\ q.token = session[c].token /\ q.revision = n /\ q.ask = 0
      OBVIOUS
    <3> HIDE DEF q
    <3> QED BY <3>1, <3>2, <3>3
  <2>5. session' = [session EXCEPT ![c] = [token |-> r.token, revision |-> r.revision]]
    <3>1. [session[c] EXCEPT !.revision = n] = [token |-> r.token, revision |-> r.revision]
      BY <2>2, <2>4 DEF Sessions
    <3> QED BY <3>1, <2>1, <2>3
  <2>6. r.token.context = c /\ r.token.epoch = conn BY <2>1, <2>4, <1>0
  <2>7. session[c].revision <= r.revision /\ r.revision = session[c].revision + 1
    BY <2>2, <2>3, <2>4 DEF Sessions
  <2>9. session'[c] # NoSession
    <3>1. session'[c] = [token |-> r.token, revision |-> r.revision] BY <2>5, <1>0
    <3>2. r.token \in Tokens /\ r.revision \in Nat BY <2>4 DEF Replies
    <3> QED BY <3>1, <3>2, <2>6, SomeSession
  <2>8. up /\ answer' = answer
        /\ UNCHANGED <<workerSide, conn, up, subscribed, opened, request, focused,
                       contextVars, edits, keyVars, applied, abandoned, passed,
                       connections, asks>>
    BY <1>3 DEF Push
  <2> QED BY <2>1, <2>4, <2>5, <2>6, <2>7, <2>8, <2>9 DEF EnginePublishes
<1> QED BY <1>1, <1>2, <1>3

\* The host keeps the gate owned,
LEMMA GateHost ==
    ASSUME TypeOK, Counted, GateIsOwned, HostStep
    PROVE  GateIsOwned'
<1>1. /\ UNCHANGED wire
      /\ \/ live' = live /\ updates' \in {updates, <<>>}
         \/ live' = 0 /\ updates' = <<>>
  BY HostLeaves
<1>2. \A i \in DOMAIN updates' : updates'[i].token.epoch = live'
  <2>1. CASE updates' = <<>>
    <3>1. DOMAIN updates' = {} BY <2>1
    <3> QED BY <3>1
  <2>2. CASE updates' = updates /\ live' = live BY <2>2 DEF GateIsOwned
  <2> QED BY <1>1, <2>1, <2>2
<1> QED BY <1>1, <1>2 DEF GateIsOwned, wire, connVars, engineVars

\* An empty sequence has no places.
LEMMA NothingIn == ASSUME NEW s, s = <<>> PROVE \A i \in DOMAIN s : FALSE
<1>1. DOMAIN <<>> = {} OBVIOUS
<1> QED BY <1>1

\* A connection that closes with its gate leaves nothing behind.
LEMMA ClosedIsOwned ==
    ASSUME Close, live' = 0, updates' = <<>>
    PROVE  GateIsOwned'
BY NothingIn DEF Close, GateIsOwned

\* the worker keeps the gate owned,
LEMMA GateWorker ==
    ASSUME TypeOK, Counted, GateIsOwned, JobIsServed, Worker
    PROVE  GateIsOwned'
<1> USE TypeOKParts
<1>1. CASE ExpireKey
  BY <1>1 DEF ExpireKey, GateIsOwned, gateVars, connVars, engineVars
<1>2. CASE TakeCommand
  <2>1. CASE Stale BY <1>2, <2>1, ClosedIsOwned DEF TakeCommand
  <2>2. CASE ~Stale BY <1>2, <2>2 DEF TakeCommand, GateIsOwned, connVars, engineVars
  <2> QED BY <2>1, <2>2
<1>3. CASE Connected
  <2>1. conn = 0 BY <1>3 DEF Connected, JobIsServed
  <2>2. live = 0 BY <2>1 DEF GateIsOwned
  <2>3. stream = <<>> /\ updates = <<>> BY <2>1, <2>2 DEF GateIsOwned
  <2>4. conn' # 0
    <3>1. connections \in Nat BY DEF Counted
    <3> QED BY <3>1, <1>3 DEF Connected
  <2> QED BY <1>3, <2>3, <2>4, NothingIn DEF Connected, GateIsOwned
<1>4. CASE ConnectFails
  <2>1. UNCHANGED <<connVars, engineVars>> BY <1>4 DEF ConnectFails
  <2>2. CASE Invalidate BY <2>1, <2>2, NothingIn
        DEF Invalidate, GateIsOwned, connVars, engineVars
  <2>3. CASE UNCHANGED <<live, cut, updates>>
    BY <2>1, <2>3 DEF GateIsOwned, connVars, engineVars
  <2> QED BY <1>4, <2>2, <2>3 DEF ConnectFails
<1>5. CASE StampToken
  BY <1>5 DEF StampToken, GateIsOwned, gateVars, connVars, engineVars
<1>6. CASE Prepare
  <2>1. conn # 0 BY <1>6 DEF Prepare, JobIsServed, Phases
  <2> QED BY <1>6, <2>1 DEF Prepare, GateIsOwned, gateVars, connVars
<1>7. CASE SessionOpened
  <2>1. conn # 0 BY <1>7 DEF SessionOpened, JobIsServed, Phases
  <2> QED BY <1>7, <2>1 DEF SessionOpened, GateIsOwned, gateVars
<1>8. CASE ModeRestored
  <2>1. conn # 0 BY <1>8 DEF ModeRestored, JobIsServed, Phases
  <2> QED BY <1>8, <2>1 DEF ModeRestored, GateIsOwned, gateVars
<1>9. CASE AnswerKey
  BY <1>9 DEF AnswerKey, GateIsOwned, gateVars, connVars
<1>10. CASE ContextDone
  <2>1. conn # 0 BY <1>10 DEF ContextDone, JobIsServed, Phases
  <2> QED BY <1>10, <2>1 DEF ContextDone, GateIsOwned, gateVars
<1>11. CASE Disconnect BY <1>11, ClosedIsOwned DEF Disconnect, Invalidate
<1> QED
  BY <1>1, <1>2, <1>3, <1>4, <1>5, <1>6, <1>7, <1>8, <1>9, <1>10, <1>11
  DEF Worker, RequestFails, Timeout

\* so does the engine,
LEMMA GateEngine ==
    ASSUME TypeOK, Counted, GateIsOwned, JobIsServed, SessionsAreOpened, Engine
    PROVE  GateIsOwned'
<1> USE TypeOKParts
<1>1. CASE ServeOpen
  BY <1>1 DEF ServeOpen, GateIsOwned, workerSide, gateVars, connVars
<1>2. CASE ServeKey \/ ServeCommand \/ Push
  <2>1. EnginePublishes BY <1>2, ServesPublish
  <2>2. PICK r \in Replies :
          /\ up /\ r.token.epoch = conn /\ Publish(r)
          /\ UNCHANGED <<workerSide, conn, up, subscribed, opened, request>>
    BY <2>1 DEF EnginePublishes
  <2>3. stream \in Seq(Replies) BY DEF ConnTyped
  <2>4. \A i \in DOMAIN stream' : stream'[i].token.epoch = conn
    <3>1. CASE subscribed
      <4>1. stream' = Append(stream, r) BY <2>2, <3>1 DEF Publish
      <4>2. /\ Append(stream, r) \in Seq(Replies)
            /\ Len(Append(stream, r)) = Len(stream) + 1
            /\ Append(stream, r)[Len(stream) + 1] = r
            /\ \A i \in 1..Len(stream) : Append(stream, r)[i] = stream[i]
        BY <2>3, AppendOf
      <4>3. \A i \in 1..Len(stream) : stream[i].token.epoch = conn
        BY <2>3 DEF GateIsOwned
      <4>4. DOMAIN stream' = 1..(Len(stream) + 1) /\ Len(stream) \in Nat
        BY <4>1, <4>2, <2>3
      <4>5. \A i \in 1..(Len(stream) + 1) : i \in 1..Len(stream) \/ i = Len(stream) + 1
        BY <4>4
      <4> QED BY <4>1, <4>2, <4>3, <4>4, <4>5, <2>2
    <3>2. CASE ~subscribed
      <4>1. stream' = stream BY <2>2, <3>2 DEF Publish
      <4> QED BY <4>1 DEF GateIsOwned
    <3> QED BY <3>1, <3>2
  <2>5. conn # 0 BY <2>2 DEF GateIsOwned
  <2> QED BY <2>2, <2>4, <2>5 DEF GateIsOwned, workerSide, gateVars
<1>3. CASE Refuse
  BY <1>3 DEF Refuse, GateIsOwned, workerSide, gateVars, connVars
<1>4. CASE Lose
  BY <1>4 DEF Lose, GateIsOwned, workerSide, gateVars
<1> QED BY <1>1, <1>2, <1>3, <1>4 DEF Engine

\* and so does the subscription.
LEMMA GateSubscription ==
    ASSUME TypeOK, Counted, GateIsOwned, Subscription
    PROVE  GateIsOwned'
<1> USE TypeOKParts
<1>0. stream \in Seq(Replies) /\ updates \in Seq(Replies) BY DEF ConnTyped, GateTyped
<1>1. CASE Forward
  <2>0. conn # 0 /\ UNCHANGED <<conn, opened, request>> /\ subscribed /\ stream # <<>>
    BY <1>1 DEF Forward, GateIsOwned
  <2>1. /\ Tail(stream) \in Seq(Replies) /\ Len(Tail(stream)) = Len(stream) - 1
        /\ Len(stream) >= 1 /\ Head(stream) = stream[1] /\ Head(stream) \in Replies
        /\ \A i \in 1..Len(stream) - 1 : Tail(stream)[i] = stream[i + 1]
    BY <2>0, <1>0, TailOf
  <2>2. \A i \in 1..Len(stream) : stream[i].token.epoch = conn BY <1>0 DEF GateIsOwned
  <2>3. \A i \in DOMAIN Tail(stream) : Tail(stream)[i].token.epoch = conn
    <3>1. Len(stream) \in Nat /\ DOMAIN Tail(stream) = 1..(Len(stream) - 1) BY <1>0, <2>1
    <3>2. \A i \in 1..(Len(stream) - 1) : i + 1 \in 1..Len(stream) BY <3>1
    <3> QED BY <3>1, <3>2, <2>1, <2>2
  <2>4. Head(stream).token.epoch = conn
    <3>1. 1 \in 1..Len(stream) BY <2>1, <1>0
    <3> QED BY <3>1, <2>1, <2>2
  <2>5. CASE live # conn
    BY <1>1, <2>0, <2>3, <2>5 DEF Forward, GateIsOwned, gateVars
  <2>6. CASE live = conn /\ Len(updates) < UpdateLimit
    <3>1. /\ updates' = Append(updates, Head(stream)) /\ stream' = Tail(stream)
          /\ UNCHANGED <<gateVars, up, subscribed, session>>
      BY <1>1, <2>6 DEF Forward
    <3>2. /\ updates' \in Seq(Replies) /\ Len(updates') = Len(updates) + 1
          /\ updates'[Len(updates) + 1] = Head(stream)
          /\ \A i \in 1..Len(updates) : updates'[i] = updates[i]
      BY <3>1, <2>1, <1>0, AppendOf
    <3>3. \A i \in DOMAIN updates' : updates'[i].token.epoch = live
      <4>1. \A i \in 1..Len(updates) : updates[i].token.epoch = live
        BY <1>0 DEF GateIsOwned
      <4>2. DOMAIN updates' = 1..(Len(updates) + 1) /\ Len(updates) \in Nat BY <3>2, <1>0
      <4>3. \A i \in 1..(Len(updates) + 1) : i \in 1..Len(updates) \/ i = Len(updates) + 1
        BY <4>2
      <4> QED BY <4>1, <4>2, <4>3, <3>2, <2>4, <2>6
    <3> QED BY <3>1, <3>3, <2>0, <2>3, <2>6 DEF GateIsOwned, gateVars
  <2>7. CASE live = conn /\ ~ (Len(updates) < UpdateLimit)
    <3>1. live' = 0 /\ updates' = <<>> /\ up' = FALSE /\ subscribed' = FALSE /\ stream' = <<>>
      BY <1>1, <2>7 DEF Forward, Invalidate
    <3> QED BY <3>1, <2>0, NothingIn DEF GateIsOwned
  <2> QED BY <2>5, <2>6, <2>7
<1>2. CASE SubscriptionEnds
  <2>1. /\ subscribed' = FALSE /\ stream' = <<>> /\ subscribed
        /\ UNCHANGED <<conn, up, opened, request>>
    BY <1>2 DEF SubscriptionEnds, engineVars
  <2>2. conn # 0 BY <2>1 DEF GateIsOwned
  <2>3. live' = 0 /\ updates' = <<>>
    <3>1. CASE live = conn BY <1>2, <3>1 DEF SubscriptionEnds, Invalidate
    <3>2. CASE live # conn
      <4>1. live = 0 BY <3>2 DEF GateIsOwned
      <4> QED BY <1>2, <3>2, <4>1 DEF SubscriptionEnds, GateIsOwned
    <3> QED BY <3>1, <3>2
  <2> QED BY <2>1, <2>2, <2>3, NothingIn DEF GateIsOwned
<1> QED BY <1>1, <1>2 DEF Subscription

-----------------------------------------------------------------------------
(* The worker's command and its request.                                   *)

\* The command the worker takes: what became of it, and of the connection.
LEMMA Taken ==
    ASSUME TypeOK, QueueIsKnown, GateIsOwned, TakeCommand
    PROVE  \E h \in Jobs :
             /\ h = Head(commands) /\ commands # <<>> /\ commands' = Tail(commands)
             /\ h = commands[1] /\ 1 \in DOMAIN commands
             /\ job' \in Jobs /\ job = Idle
             /\ \/ job' = Idle
                \/ /\ job'.at = "connecting" /\ conn' = 0 /\ ~cut'
                   /\ job'.kind = h.kind /\ job'.token = h.token /\ job'.ask = h.ask
                \/ /\ job'.at = "stamp" /\ conn # 0 /\ h.kind # "log" /\ ~Stale
                   /\ job'.kind = h.kind /\ job'.token = h.token /\ job'.ask = h.ask
             /\ \/ Stale /\ live' = 0 /\ updates' = <<>> /\ Close
                \/ ~Stale /\ UNCHANGED <<live, updates, connVars, engineVars>>
<1> USE TypeOKParts
<1>1. commands \in Seq(Jobs) /\ commands # <<>> BY DEF TakeCommand, GateTyped
<1>2. PICK h \in Jobs : h = Head(commands) /\ h = commands[1] /\ 1 \in DOMAIN commands
  <2>1. Head(commands) \in Jobs /\ Head(commands) = commands[1] /\ Len(commands) >= 1
    BY <1>1, TailOf
  <2>2. 1 \in DOMAIN commands BY <2>1, <1>1
  <2> QED BY <2>1, <2>2
<1>3. \/ Stale /\ live' = 0 /\ updates' = <<>> /\ Close
      \/ ~Stale /\ UNCHANGED <<live, updates, connVars, engineVars>>
  BY DEF TakeCommand
<1>4. job = Idle /\ commands' = Tail(commands) BY DEF TakeCommand
<1> DEFINE none == conn = 0 \/ Stale
<1>5. CASE none /\ Connects(h.kind)
  <2>1. job' = [h EXCEPT !.at = "connecting"] /\ cut' = FALSE
    BY <1>2, <1>5 DEF TakeCommand
  <2>2. /\ job' \in Jobs /\ job'.at = "connecting" /\ job'.kind = h.kind
        /\ job'.token = h.token /\ job'.ask = h.ask
    BY <2>1, JobMoves
  <2>3. conn' = 0
    <3>1. CASE Stale BY <1>3, <3>1 DEF Close
    <3>2. CASE ~Stale BY <1>3, <1>5, <3>2 DEF connVars
    <3> QED BY <3>1, <3>2
  <2> QED BY <1>1, <1>2, <1>3, <1>4, <2>1, <2>2, <2>3
<1>6. CASE ~none /\ h.kind # "log"
  <2>1. job' = [h EXCEPT !.at = "stamp"] BY <1>2, <1>6 DEF TakeCommand
  <2>2. /\ job' \in Jobs /\ job'.at = "stamp" /\ job'.kind = h.kind
        /\ job'.token = h.token /\ job'.ask = h.ask
    BY <2>1, JobMoves
  <2> QED BY <1>1, <1>2, <1>3, <1>4, <1>6, <2>2
<1>7. CASE ~ (none /\ Connects(h.kind)) /\ ~ (~none /\ h.kind # "log")
  <2>1. job' = Idle BY <1>2, <1>7 DEF TakeCommand
  <2> QED BY <1>1, <1>2, <1>3, <1>4, <2>1, BlankTyped
<1> QED BY <1>5, <1>6, <1>7

\* A worker without a command asks nothing.
LEMMA IdleIsServed ==
    ASSUME job' = Idle, request' = NoRequest, answer' = NoAnswer
    PROVE  JobIsServed'
BY DEF JobIsServed, Idle, Asked, Phases

\* The worker's command and its request agree after each step of the worker.
LEMMA JobWorker ==
    ASSUME TypeOK, Counted, GateIsOwned, JobIsServed, QueueIsKnown, Worker
    PROVE  JobIsServed'
<1> USE TypeOKParts
<1>1. CASE ExpireKey
  BY <1>1 DEF ExpireKey, JobIsServed, connVars, engineVars
<1>2. CASE TakeCommand
  <2>1. PICK h \in Jobs :
             /\ h = commands[1] /\ 1 \in DOMAIN commands /\ job = Idle
             /\ \/ job' = Idle
                \/ /\ job'.at = "connecting" /\ conn' = 0
                   /\ job'.kind = h.kind /\ job'.token = h.token /\ job'.ask = h.ask
                \/ /\ job'.at = "stamp" /\ conn # 0 /\ h.kind # "log" /\ ~Stale
                   /\ job'.kind = h.kind /\ job'.token = h.token /\ job'.ask = h.ask
             /\ \/ Stale /\ Close
                \/ ~Stale /\ UNCHANGED <<connVars, engineVars>>
    BY <1>2, Taken
  <2>2. request' = NoRequest /\ answer' = NoAnswer
    <3>1. job.at \notin Asked BY <2>1 DEF Idle, Asked
    <3> QED BY <2>1, <3>1 DEF Close, engineVars, JobIsServed
  <2>3. h.token.epoch = 0 /\ (h.kind # "log" => h.token.context \in Contexts)
        /\ h.kind \in {"key", "focus", "blur", "cancel", "destroy", "log"}
    BY <2>1 DEF QueueIsKnown
  <2>4. CASE job' = Idle BY <2>2, <2>4, IdleIsServed
  <2>5. CASE /\ job'.at = "connecting" /\ conn' = 0 /\ job'.kind = h.kind
             /\ job'.token = h.token
    BY <2>2, <2>3, <2>5 DEF JobIsServed, Asked, Phases
  <2>6. CASE /\ job'.at = "stamp" /\ conn # 0 /\ h.kind # "log" /\ ~Stale
             /\ job'.kind = h.kind /\ job'.token = h.token
    <3>1. conn' = conn BY <2>1, <2>6 DEF connVars
    <3> QED BY <2>2, <2>3, <2>6, <3>1 DEF JobIsServed, Asked, Phases
  <2> QED BY <2>1, <2>4, <2>5, <2>6
<1>3. CASE Connected
  <2>1. request' = NoRequest /\ answer' = NoAnswer
    BY <1>3 DEF Connected, JobIsServed, Asked, engineVars
  <2>2. CASE job.kind = "log" BY <1>3, <2>1, <2>2, IdleIsServed DEF Connected
  <2>3. CASE job.kind # "log"
    <3>1. job \in Jobs /\ job' = [job EXCEPT !.at = "stamp"]
      BY <1>3, <2>3 DEF Connected, ConnTyped
    <3>2. job'.at = "stamp" /\ job'.kind = job.kind /\ job'.token = job.token
      BY <3>1, JobMoves
    <3>3. conn' # 0
      <4>1. connections + 1 \in Nat \ {0}
        BY DEF Counted
      <4> QED BY <1>3, <4>1 DEF Connected
    <3> QED BY <1>3, <2>1, <2>3, <3>2, <3>3 DEF Connected, JobIsServed, Asked, Phases
  <2> QED BY <2>2, <2>3
<1>4. CASE ConnectFails
  <2>1. request' = NoRequest /\ answer' = NoAnswer /\ job' = Idle
    BY <1>4 DEF ConnectFails, JobIsServed, Asked, engineVars
  <2> QED BY <2>1, IdleIsServed
<1>5. CASE StampToken
  <2>1. job \in Jobs BY DEF ConnTyped
  <2>2. /\ job'.at = "prepare" /\ job'.kind = job.kind
        /\ job'.token.context = job.token.context /\ job'.token.epoch = live
    BY <1>5, <2>1 DEF StampToken, Jobs, Tokens
  <2>3. live \in {0, conn} BY DEF GateIsOwned
  <2>4. UNCHANGED <<conn, request, answer>> BY <1>5 DEF StampToken, connVars, engineVars
  <2> QED BY <1>5, <2>2, <2>3, <2>4 DEF StampToken, JobIsServed, Asked, Phases
<1>6. CASE Prepare
  <2>1. job.kind \in Kinds BY DEF ConnTyped, Jobs
  <2>2. conn' = conn BY <1>6 DEF Prepare, connVars
  <2>3. CASE Send(job.kind, "asking")
    <3>1. /\ job'.at = "asking" /\ job'.kind = job.kind /\ job'.token = job.token
          /\ job'.ask = job.ask
      BY <2>1, <2>3, SendTyped
    <3> QED BY <1>6, <2>2, <2>3, <3>1 DEF Prepare, Send, JobIsServed, Asked, Phases
  <2>4. CASE Send("open", "opening")
    <3>1. /\ job'.at = "opening" /\ job'.kind = job.kind /\ job'.token = job.token
          /\ job'.ask = job.ask
      BY <2>1, <2>4, SendTyped
    <3> QED BY <1>6, <2>2, <2>4, <3>1 DEF Prepare, Send, JobIsServed, Asked, Phases
  <2>5. CASE job' = Idle /\ UNCHANGED <<request, answer>>
    BY <1>6, <2>5, IdleIsServed DEF Prepare, JobIsServed, Asked
  <2> QED BY <1>6, <2>3, <2>4, <2>5 DEF Prepare
<1>7. CASE SessionOpened
  <2>1. job.kind \in Kinds BY DEF ConnTyped, Jobs
  <2>2. conn' = conn BY <1>7 DEF SessionOpened
  <2>3. CASE Send(job.kind, "asking")
    <3>1. /\ job'.at = "asking" /\ job'.kind = job.kind /\ job'.token = job.token
          /\ job'.ask = job.ask
      BY <2>1, <2>3, SendTyped
    <3> QED BY <1>7, <2>2, <2>3, <3>1 DEF SessionOpened, Send, JobIsServed, Asked, Phases
  <2>4. CASE Send("set_ascii", "restoring")
    <3>1. /\ job'.at = "restoring" /\ job'.kind = job.kind /\ job'.token = job.token
          /\ job'.ask = job.ask
      BY <2>1, <2>4, SendTyped
    <3> QED BY <1>7, <2>2, <2>4, <3>1 DEF SessionOpened, Send, JobIsServed, Asked, Phases
  <2> QED BY <1>7, <2>3, <2>4 DEF SessionOpened
<1>8. CASE ModeRestored
  <2>1. job.kind \in Kinds BY DEF ConnTyped, Jobs
  <2>2. conn' = conn /\ Send(job.kind, "asking") BY <1>8 DEF ModeRestored
  <2>3. /\ job'.at = "asking" /\ job'.kind = job.kind /\ job'.token = job.token
        /\ job'.ask = job.ask
    BY <2>1, <2>2, SendTyped
  <2> QED BY <1>8, <2>2, <2>3 DEF ModeRestored, Send, JobIsServed, Asked, Phases
<1>9. CASE AnswerKey BY <1>9, IdleIsServed DEF AnswerKey
<1>10. CASE ContextDone BY <1>10, IdleIsServed DEF ContextDone
<1>11. CASE Disconnect BY <1>11, IdleIsServed DEF Disconnect, Close
<1> QED
  BY <1>1, <1>2, <1>3, <1>4, <1>5, <1>6, <1>7, <1>8, <1>9, <1>10, <1>11
  DEF Worker, RequestFails, Timeout

\* A worker's step keeps the answer with its request or discards both,
LEMMA AnswerWorker ==
    ASSUME TypeOK, GateIsOwned, JobIsServed, AnswerFits, QueueIsKnown, Worker
    PROVE  AnswerFits'
<1>1. UNCHANGED <<request, answer>> \/ answer' = NoAnswer
  <2>1. CASE TakeCommand BY <2>1 DEF TakeCommand, Close, engineVars
  <2>2. CASE ~TakeCommand
    BY <2>2 DEF Worker, ExpireKey, Connected, ConnectFails, StampToken, Prepare, SessionOpened,
           ModeRestored, AnswerKey, ContextDone, RequestFails, Timeout, Disconnect, Close, Send,
           engineVars
  <2> QED BY <2>1, <2>2
<1> QED BY <1>1 DEF AnswerFits

\* Neither the host nor the subscription nor the engine touches the command.
LEMMA JobElsewhere ==
    ASSUME TypeOK, Counted, JobIsServed, HostStep \/ Subscription \/ Engine,
           SessionsAreOpened
    PROVE  JobIsServed'
<1>1. CASE HostStep
  <2>1. UNCHANGED wire BY <1>1, HostLeaves
  <2> QED BY <2>1 DEF JobIsServed, wire, connVars, engineVars
<1>2. CASE Subscription
  <2>1. UNCHANGED <<job, conn, request, answer>>
    BY <1>2 DEF Subscription, Forward, SubscriptionEnds, engineVars
  <2> QED BY <2>1 DEF JobIsServed
<1>3. CASE Engine
  <2>1. UNCHANGED <<job, conn, request>> /\ (answer' = answer \/ Pending)
    BY <1>3 DEF Engine, ServeOpen, ServeKey, ServeCommand, Refuse, Push, Lose, workerSide,
                connVars
  <2>2. Pending => job.at \in Asked BY DEF Pending, JobIsServed
  <2> QED BY <2>1, <2>2 DEF JobIsServed
<1> QED BY <1>1, <1>2, <1>3

\* and nobody but the engine answers, what was asked.
LEMMA AnswerElsewhere ==
    ASSUME TypeOK, Counted, JobIsServed, AnswerFits, SessionsAreOpened,
           HostStep \/ Subscription \/ Engine
    PROVE  AnswerFits'
<1> USE TypeOKParts
<1>1. CASE HostStep
  <2>1. UNCHANGED wire BY <1>1, HostLeaves
  <2> QED BY <2>1 DEF AnswerFits, wire, engineVars
<1>2. CASE Subscription
  BY <1>2 DEF Subscription, Forward, SubscriptionEnds, engineVars, AnswerFits
<1>3. CASE ServeOpen
  <2>1. request' = request /\ request.kind = "open" BY <1>3 DEF ServeOpen
  <2>2. CASE Answered("failure", 0, FALSE)
    <3>1. answer'.kind = "failure" /\ answer'.token = request.token /\ answer'.ask = request.ask
      BY <2>2, AnsweredTyped
    <3> QED BY <2>1, <3>1 DEF AnswerFits
  <2>3. CASE Answered("opened", 0, FALSE) /\ request.token.epoch # 0
    <3>1. answer'.kind = "opened" /\ answer'.token = request.token /\ answer'.ask = request.ask
      BY <2>3, AnsweredTyped
    <3> QED BY <2>1, <2>3, <3>1 DEF AnswerFits
  <2> QED BY <1>3, <2>2, <2>3 DEF ServeOpen
<1>4. CASE ServeKey \/ ServeCommand \/ Push
  <2>1. EnginePublishes BY <1>4, ServesPublish
  <2>2. /\ request' = request
        /\ \/ answer' = answer
           \/ /\ answer'.token = request.token /\ answer'.ask = request.ask
              /\ answer'.kind = "reply" /\ request.kind # "open" /\ Observed(request.token)
    BY <2>1 DEF EnginePublishes
  <2> QED BY <2>2 DEF AnswerFits, Observed
<1>5. CASE Refuse
  <2>1. answer'.kind = "failure" /\ answer'.token = request.token /\ answer'.ask = request.ask
    BY <1>5, AnsweredTyped DEF Refuse
  <2> QED BY <1>5, <2>1 DEF Refuse, AnswerFits
<1>6. CASE Lose BY <1>6 DEF Lose, AnswerFits
<1> QED BY <1>1, <1>2, <1>3, <1>4, <1>5, <1>6 DEF Engine

-----------------------------------------------------------------------------
(* The queue of commands.                                                  *)

\* The queue without its head.
LEMMA TailCommands ==
    ASSUME TypeOK, commands # <<>>, commands' = Tail(commands)
    PROVE  /\ \A i \in DOMAIN commands' : i \in Nat \ {0} /\ i + 1 \in DOMAIN commands
                                         /\ commands'[i] = commands[i + 1]
           /\ 1 \in DOMAIN commands
<1>1. commands \in Seq(Jobs) BY TypeOKParts DEF GateTyped
<1>2. /\ Tail(commands) \in Seq(Jobs) /\ Len(Tail(commands)) = Len(commands) - 1
      /\ Len(commands) >= 1
      /\ \A i \in 1..Len(commands) - 1 : Tail(commands)[i] = commands[i + 1]
  BY <1>1, TailOf
<1>3. /\ DOMAIN commands' = 1..(Len(commands) - 1) /\ DOMAIN commands = 1..Len(commands)
      /\ Len(commands) \in Nat
  BY <1>1, <1>2
<1> QED BY <1>2, <1>3

\* The old places of a lengthened queue, and its new ones.
LEMMA OldAndNew ==
    ASSUME TypeOK, NEW cs \in Seq(Jobs), Lengthened(cs), NEW i \in DOMAIN commands'
    PROVE  /\ i \in Nat
           /\ \/ i \in DOMAIN commands /\ commands'[i] = commands[i]
              \/ /\ i - Len(commands) \in 1..Len(cs)
                 /\ commands'[i] = cs[i - Len(commands)]
           /\ i \notin DOMAIN commands => \A k \in DOMAIN commands : k < i
<1>1. commands \in Seq(Jobs) BY TypeOKParts DEF GateTyped
<1>2. /\ Len(commands) \in Nat /\ DOMAIN commands = 1..Len(commands) /\ Len(cs) \in Nat
      /\ commands' \in Seq(Jobs) /\ DOMAIN commands' = 1..Len(commands')
      /\ Len(commands') \in Nat /\ Len(commands') <= Len(commands) + Len(cs)
  BY <1>1 DEF Lengthened
<1>3. i \in 1..Len(commands') BY <1>2
<1>4. CASE i \in 1..Len(commands) BY <1>2, <1>4 DEF Lengthened
<1>5. CASE i \notin 1..Len(commands)
  <2>1. i \in Len(commands)+1..Len(commands') BY <1>2, <1>3, <1>5
  <2>2. i - Len(commands) \in 1..Len(cs) BY <1>2, <2>1
  <2> QED BY <1>2, <2>1, <2>2 DEF Lengthened
<1> QED BY <1>4, <1>5

\* Every step keeps what is known of the queue.
LEMMA QueueKnown ==
    ASSUME TypeOK, Counted, QueueIsKnown, Next
    PROVE  QueueIsKnown'
<1> USE TypeOKParts
<1>1. CASE ExpireKey \/ TakeCommand
  <2>1. commands # <<>> /\ commands' = Tail(commands) BY <1>1 DEF ExpireKey, TakeCommand
  <2> QED BY <2>1, TailCommands DEF QueueIsKnown
<1>2. CASE Enqueue
  <2>1. PICK cs \in Seq(Jobs) : Lengthened(cs) /\ FitsQueue(cs)
    BY <1>2, Enqueues DEF EnqueueShape, Enqueued
  <2>2. alive \subseteq Contexts BY DEF HostTyped
  <2>3. ASSUME NEW i \in DOMAIN commands'
        PROVE  /\ commands'[i].at = "queued" /\ commands'[i].token.epoch = 0
               /\ commands'[i].kind \in {"key", "focus", "blur", "cancel", "destroy", "log"}
               /\ commands'[i].kind # "log" => commands'[i].token.context \in Contexts
               /\ commands'[i].kind = "log" => commands'[i].token.context = NoContext
               /\ commands'[i].kind # "key" => commands'[i].ask = 0
    <3>1. CASE i \in DOMAIN commands /\ commands'[i] = commands[i]
      BY <3>1 DEF QueueIsKnown
    <3>2. CASE /\ i - Len(commands) \in 1..Len(cs)
               /\ commands'[i] = cs[i - Len(commands)]
      BY <3>2, <2>1, <2>2 DEF FitsQueue
    <3> QED BY <3>1, <3>2, <2>1, OldAndNew
  <2> QED BY <2>3 DEF QueueIsKnown
<1>3. CASE ~ (ExpireKey \/ TakeCommand \/ Enqueue)
  <2>1. commands' = commands
    BY <1>3
    DEF Next, Enqueue, Worker, Connected, ConnectFails, StampToken, Prepare, SessionOpened,
        ModeRestored, AnswerKey, ContextDone, RequestFails, Timeout, Disconnect,
        Engine, ServeOpen, ServeKey, ServeCommand, Refuse, Push, Lose, workerSide,
        Subscription, Forward, SubscriptionEnds,
        Key, ReuseTested, PassKey, GiveUp, Receive, Drain, ApplyEdit, Decide
  <2> QED BY <2>1 DEF QueueIsKnown
<1> QED BY <1>1, <1>2, <1>3

\* Contexts are removed for good, and generations only go up.
LEMMA AliveShrinks ==
    ASSUME TypeOK, Counted, Next
    PROVE  ContextsAge
<1> USE TypeOKParts
<1>1. CASE HostStep BY <1>1, HostLeaves
<1>2. CASE ~HostStep
  <2>1. UNCHANGED <<alive, suspended, generation>>
    BY <1>2
    DEF Next, HostStep, Worker, ExpireKey, TakeCommand, Connected, ConnectFails, StampToken,
        Prepare, SessionOpened, ModeRestored, AnswerKey, ContextDone, RequestFails, Timeout,
        Disconnect, Engine, ServeOpen, ServeKey, ServeCommand, Refuse, Push, Lose,
        Subscription, Forward, SubscriptionEnds, hostSide, contextVars
  <2> QED BY <2>1 DEF ContextsAge, HostTyped
<1> QED BY <1>1, <1>2

\* The kind and the context of the worker's command, while it goes on.
JobStays == job' = Idle \/ /\ job'.kind = job.kind /\ job'.ask = job.ask
                           /\ job'.token.context = job.token.context
                           /\ job'.token.generation = job.token.generation

\* Between two commands the worker's one keeps its key, kind, context and generation.
LEMMA JobKeepsItsToken ==
    ASSUME TypeOK, Next, ~TakeCommand
    PROVE  JobStays
<1> USE TypeOKParts
<1>0. job \in Jobs /\ job.kind \in Kinds BY DEF ConnTyped, Jobs
<1>1. CASE job' = job BY <1>1 DEF JobStays
<1>2. CASE job' = Idle BY <1>2 DEF JobStays
<1>3. CASE \E at \in {"stamp", "opening", "restoring", "asking"} :
              job' = [job EXCEPT !.at = at]
  <2>1. PICK at \in {"stamp", "opening", "restoring", "asking"} :
              job' = [job EXCEPT !.at = at]
    BY <1>3
  <2>2. job'.kind = job.kind /\ job'.ask = job.ask /\ job'.token = job.token
    BY <2>1, <1>0, JobMoves
  <2> QED BY <2>2 DEF JobStays
<1>4. CASE StampToken
  <2>1. job' = [job EXCEPT !.at = "prepare", !.token.epoch = live] BY <1>4 DEF StampToken
  <2>2. /\ job'.kind = job.kind /\ job'.ask = job.ask
        /\ job'.token.context = job.token.context
        /\ job'.token.generation = job.token.generation
    BY <2>1, <1>0 DEF Jobs, Tokens
  <2> QED BY <2>2 DEF JobStays
<1>5. CASE ~StampToken
  <2>1. CASE HostStep
    <3>1. job' = job
      BY <2>1 DEF HostStep, Key, ReuseTested, AskKey, PassKey, GiveUp, Receive, Drain,
         ApplyEdit, Decide, Focus, Cancel, Remove, Log, wire
    <3> QED BY <3>1, <1>1
  <2>2. CASE Engine \/ Subscription
    <3>1. job' = job
      BY <2>2 DEF Engine, ServeOpen, ServeKey, ServeCommand, Refuse, Push, Lose, workerSide,
         Subscription, Forward, SubscriptionEnds
    <3> QED BY <3>1, <1>1
  <2>3. CASE Connected
    <3>1. job' = Idle \/ job' = [job EXCEPT !.at = "stamp"] BY <2>3 DEF Connected
    <3> QED BY <3>1, <1>2, <1>3
  <2>4. CASE Prepare \/ SessionOpened \/ ModeRestored
    <3>1. job' = Idle \/ \E at \in {"stamp", "opening", "restoring", "asking"} :
              job' = [job EXCEPT !.at = at]
      BY <2>4 DEF Prepare, SessionOpened, ModeRestored, Send
    <3> QED BY <3>1, <1>2, <1>3
  <2>5. CASE ExpireKey \/ ConnectFails \/ AnswerKey \/ ContextDone \/ RequestFails \/ Timeout
    <3>1. job' = job \/ job' = Idle
      BY <2>5 DEF ExpireKey, ConnectFails, AnswerKey, ContextDone, RequestFails, Timeout,
         Disconnect
    <3> QED BY <3>1, <1>1, <1>2
  <2> QED BY <1>5, <2>1, <2>2, <2>3, <2>4, <2>5 DEF Next, HostStep, Worker
<1> QED BY <1>4, <1>5

\* Every step leaves a destroying command the last of its context: the host
\* queues nothing for a context it removed.
LEMMA DestroyLast ==
    ASSUME TypeOK, Counted, QueueIsKnown, JobIsServed, GateIsOwned, DestroyIsLast, Next
    PROVE  DestroyIsLast'
<1> USE TypeOKParts
<1>0. alive' \subseteq alive /\ alive \subseteq Contexts
  BY AliveShrinks DEF ContextsAge, HostTyped
<1>1. CASE TakeCommand
  <2>1. commands # <<>> /\ commands' = Tail(commands) BY <1>1 DEF TakeCommand
  <2>2. \A i \in DOMAIN commands' : i \in Nat \ {0} /\ i + 1 \in DOMAIN commands
                                    /\ commands'[i] = commands[i + 1]
    BY <2>1, TailCommands
  <2>3. \A i \in DOMAIN commands' : commands'[i].kind = "destroy" =>
          /\ commands'[i].token.context \notin alive
          /\ \A j \in DOMAIN commands' :
                i < j => commands'[j].token.context # commands'[i].token.context
    BY <2>2 DEF DestroyIsLast
  <2>4. PICK h \in Jobs :
          /\ h = commands[1] /\ 1 \in DOMAIN commands
          /\ job' = Idle \/ (job'.kind = h.kind /\ job'.token = h.token)
    BY <1>1, Taken
  <2>5. ASSUME job'.kind = "destroy"
        PROVE  /\ job'.token.context \notin alive
               /\ \A i \in DOMAIN commands' :
                     commands'[i].token.context # job'.token.context
    <3>1. h.kind = "destroy" /\ job'.token = h.token BY <2>4, <2>5 DEF Idle
    <3>2. \A i \in DOMAIN commands' : 1 < i + 1 BY <2>2
    <3> QED BY <3>1, <3>2, <2>2, <2>4 DEF DestroyIsLast
  <2> QED BY <2>3, <2>5, <1>0 DEF DestroyIsLast
<1>2. CASE ExpireKey
  <2>1. commands # <<>> /\ commands' = Tail(commands) /\ job' = job BY <1>2 DEF ExpireKey
  <2>2. \A i \in DOMAIN commands' : i \in Nat \ {0} /\ i + 1 \in DOMAIN commands
                                    /\ commands'[i] = commands[i + 1]
    BY <2>1, TailCommands
  <2> QED BY <2>1, <2>2, <1>0 DEF DestroyIsLast
<1>3. CASE Enqueue
  <2>1. PICK cs \in Seq(Jobs) : Lengthened(cs) /\ FitsQueue(cs)
    BY <1>3, Enqueues DEF EnqueueShape, Enqueued
  <2>2. job' = job
    BY <1>3 DEF Enqueue, AskKey, Log, Focus, Cancel, Remove, wire
  <2>3. job.kind = "destroy" => job.token.context \in Contexts
    BY DEF JobIsServed, Idle, Jobs, ConnTyped, Phases
  <2>4. \A i \in DOMAIN commands : commands[i].kind = "destroy" =>
            commands[i].token.context \in Contexts
    BY DEF QueueIsKnown
  <2>5. \A k \in 1..Len(cs) : cs[k].token.context \in alive \cup {NoContext}
    BY <2>1 DEF FitsQueue
  <2>6. ASSUME NEW i \in DOMAIN commands', commands'[i].kind = "destroy"
        PROVE  /\ commands'[i].token.context \notin alive'
               /\ \A j \in DOMAIN commands' :
                     i < j => commands'[j].token.context # commands'[i].token.context
    <3>1. CASE i \in DOMAIN commands /\ commands'[i] = commands[i]
      <4>1. /\ commands[i].token.context \notin alive
            /\ commands[i].token.context \in Contexts
        BY <3>1, <2>6, <2>4 DEF DestroyIsLast
      <4>2. ASSUME NEW j \in DOMAIN commands', i < j
            PROVE  commands'[j].token.context # commands[i].token.context
        <5>1. CASE j \in DOMAIN commands /\ commands'[j] = commands[j]
          BY <5>1, <4>2, <3>1, <2>6 DEF DestroyIsLast
        <5>2. CASE /\ j - Len(commands) \in 1..Len(cs)
                   /\ commands'[j] = cs[j - Len(commands)]
          BY <5>2, <2>5, <4>1, ConstantsAssumption
        <5> QED BY <5>1, <5>2, <2>1, OldAndNew
      <4> QED BY <3>1, <4>1, <4>2, <1>0
    <3>2. CASE /\ i - Len(commands) \in 1..Len(cs)
               /\ commands'[i] = cs[i - Len(commands)]
      <4>1. /\ commands'[i].token.context \notin alive'
            /\ i - Len(commands) = Len(cs)
        BY <3>2, <2>1, <2>6 DEF FitsQueue
      <4>2. /\ Len(commands) \in Nat /\ Len(cs) \in Nat
            /\ Len(commands') <= Len(commands) + Len(cs) /\ Len(commands') \in Nat
            /\ DOMAIN commands' = 1..Len(commands')
        BY <2>1 DEF Lengthened, GateTyped
      <4>3. \A j \in DOMAIN commands' : ~ (i < j) BY <4>1, <4>2
      <4> QED BY <4>1, <4>3
    <3> QED BY <3>1, <3>2, <2>1, OldAndNew
  <2>7. ASSUME job.kind = "destroy", NEW i \in DOMAIN commands'
        PROVE  commands'[i].token.context # job.token.context
    <3>1. job.token.context \notin alive /\ job.token.context \in Contexts
      BY <2>3, <2>7 DEF DestroyIsLast
    <3>2. CASE i \in DOMAIN commands /\ commands'[i] = commands[i]
      BY <3>2, <2>7 DEF DestroyIsLast
    <3>3. CASE /\ i - Len(commands) \in 1..Len(cs)
               /\ commands'[i] = cs[i - Len(commands)]
      BY <3>3, <2>5, <3>1, ConstantsAssumption
    <3> QED BY <3>2, <3>3, <2>1, OldAndNew
  <2> QED BY <2>2, <2>6, <2>7, <1>0 DEF DestroyIsLast
<1>4. CASE ~ (ExpireKey \/ TakeCommand \/ Enqueue)
  <2>1. commands' = commands
    BY <1>4
    DEF Next, Enqueue, Worker, Connected, ConnectFails, StampToken, Prepare, SessionOpened,
        ModeRestored, AnswerKey, ContextDone, RequestFails, Timeout, Disconnect,
        Engine, ServeOpen, ServeKey, ServeCommand, Refuse, Push, Lose, workerSide,
        Subscription, Forward, SubscriptionEnds,
        Key, ReuseTested, PassKey, GiveUp, Receive, Drain, ApplyEdit, Decide
  <2>2. JobStays BY <1>4, JobKeepsItsToken
  <2>3. CASE job' = Idle BY <2>1, <2>3, <1>0 DEF DestroyIsLast, Idle
  <2>4. CASE job'.kind = job.kind /\ job'.token.context = job.token.context
    BY <2>1, <2>4, <1>0 DEF DestroyIsLast
  <2> QED BY <2>2, <2>3, <2>4 DEF JobStays
<1> QED BY <1>1, <1>2, <1>3, <1>4

-----------------------------------------------------------------------------
(* Generations go up.                                                      *)

\* The parts of GenerationsGrow for the queue and for the command.
QueueGrows(i) ==
    commands[i].token.context \in Contexts =>
          LET t == commands[i].token IN
          /\ session[t.context].token.generation <= t.generation
          /\ t.generation <= generation[t.context]
          /\ job.token.context = t.context =>
                job.token.generation <= t.generation
          /\ \A j \in DOMAIN commands :
                i < j /\ commands[j].token.context = t.context =>
                    t.generation <= commands[j].token.generation

JobGrows ==
    job.token.context \in Contexts =>
          /\ session[job.token.context].token.generation <= job.token.generation
          /\ job.token.generation <= generation[job.token.context]

SessionGrows ==
    \A c \in Contexts : session[c].token.generation <= generation[c]

\* GenerationsGrow is its parts.
LEMMA GrowParts ==
    GenerationsGrow <=> SessionGrows /\ JobGrows /\ \A i \in DOMAIN commands : QueueGrows(i)
BY DEF GenerationsGrow, SessionGrows, JobGrows, QueueGrows

\* The numbers compared.
LEMMA GenerationTypes ==
    ASSUME TypeOK
    PROVE  /\ \A c \in Contexts : /\ session[c].token.generation \in Nat
                                  /\ generation[c] \in Nat
           /\ \A i \in DOMAIN commands : commands[i].token.generation \in Nat
           /\ job.token.generation \in Nat
<1> USE TypeOKParts
<1>1. \A c \in Contexts : session[c].token.generation \in Nat /\ generation[c] \in Nat
  BY DEF EngineTyped, HostTyped, Sessions, Tokens
<1>2. \A i \in DOMAIN commands : commands[i] \in Jobs BY DEF GateTyped
<1>3. job \in Jobs BY DEF ConnTyped
<1>4. \A j \in Jobs : j.token.generation \in Nat BY DEF Jobs, Tokens
<1> QED BY <1>1, <1>2, <1>3, <1>4

\* The sessions of a step go no further than the worker's command.
SessionsStay ==
    \A c \in Contexts :
        \/ session'[c].token.generation = session[c].token.generation
        \/ session'[c].token.generation = 0
        \/ c = job.token.context /\ session'[c].token.generation = job.token.generation

\* A session keeps its generation or takes that of the worker's command.
LEMMA SessionSteps ==
    ASSUME TypeOK, Counted, JobIsServed, SessionsAreOpened, Next
    PROVE  SessionsStay
<1> USE TypeOKParts
<1>0. session \in [Contexts -> Sessions] BY DEF EngineTyped
<1>1. NoSession.token.generation = 0 BY DEF NoSession, NoToken
<1>2. CASE session' = session BY <1>2 DEF SessionsStay
<1>3. CASE session' = [c \in Contexts |-> NoSession] BY <1>1, <1>3 DEF SessionsStay
<1>4. CASE Worker \/ Subscription \/ HostStep
  <2>1. session' = session \/ session' = [c \in Contexts |-> NoSession]
    <3>1. CASE HostStep BY <3>1, HostLeaves DEF wire, engineVars
    <3>2. CASE Subscription
      BY <3>2 DEF Subscription, Forward, SubscriptionEnds, engineVars
    <3>3. CASE TakeCommand BY <3>3 DEF TakeCommand, Close, engineVars
    <3>4. CASE Worker /\ ~TakeCommand
      BY <3>4 DEF Worker, ExpireKey, Connected, ConnectFails, StampToken,
         Prepare, SessionOpened, ModeRestored, AnswerKey, ContextDone, RequestFails, Timeout,
         Disconnect, Close, engineVars
    <3> QED BY <1>4, <3>1, <3>2, <3>3, <3>4
  <2> QED BY <2>1, <1>2, <1>3
<1>5. CASE ServeOpen
  <2>1. /\ request.token.context \in Contexts /\ request.token \in Tokens
        /\ request.token = job.token
    BY <1>5, ObservedTyped DEF ServeOpen, JobIsServed, Pending
  <2>2. \/ session' = session
        \/ session' = [session EXCEPT ![request.token.context].token = request.token]
    BY <1>5 DEF ServeOpen
  <2>3. CASE session' = [session EXCEPT ![request.token.context].token = request.token]
    <3>1. \A c \in Contexts : session'[c] = IF c = job.token.context
                                            THEN [session[c] EXCEPT !.token = job.token]
                                            ELSE session[c]
      BY <2>1, <2>3, <1>0
    <3>2. ASSUME NEW c \in Contexts, c = job.token.context
          PROVE  session'[c].token = job.token
      <4>1. session[c] \in Sessions BY <1>0
      <4>2. session'[c] = [session[c] EXCEPT !.token = job.token] BY <3>1, <3>2
      <4> QED BY <4>1, <4>2 DEF Sessions
    <3> QED BY <3>1, <3>2 DEF SessionsStay
  <2> QED BY <2>2, <2>3, <1>2
<1>6. CASE ServeKey \/ ServeCommand \/ Push
  <2>1. EnginePublishes BY <1>6, ServesPublish
  <2>2. PICK r \in Replies, c \in Contexts :
          /\ r.token.context = c
          /\ r.token = session[c].token \/ (r.token = request.token /\ Pending)
          /\ \/ session' = [session EXCEPT ![c] = [token |-> r.token, revision |-> r.revision]]
             \/ session' = [session EXCEPT ![c] = NoSession]
    BY <2>1 DEF EnginePublishes
  <2>3. Pending => request.token = job.token BY DEF Pending, JobIsServed
  <2>4. CASE session' = [session EXCEPT ![c] = NoSession]
    BY <2>4, <1>0, <1>1 DEF SessionsStay
  <2>5. CASE session' = [session EXCEPT ![c] = [token |-> r.token, revision |-> r.revision]]
    <3>1. \A d \in Contexts : session'[d] = IF d = c
                THEN [token |-> r.token, revision |-> r.revision] ELSE session[d]
      BY <2>5, <1>0
    <3>2. session'[c].token = r.token BY <3>1
    <3> QED BY <3>1, <3>2, <2>2, <2>3 DEF SessionsStay
  <2> QED BY <2>2, <2>4, <2>5
<1>7. CASE Refuse BY <1>7, <1>2 DEF Refuse
<1>8. CASE Lose BY <1>8, <1>3 DEF Lose
<1> QED BY <1>4, <1>5, <1>6, <1>7, <1>8 DEF Next, HostStep, Engine

\* A command keeps its place among the generations while sessions and the worker's
\* command stay.
LEMMA GrowsOn ==
    ASSUME TypeOK, TypeOK', GenerationsGrow, SessionsStay, ContextsAge,
           NEW i \in DOMAIN commands, commands[i].token.context \in Contexts
    PROVE  LET t == commands[i].token IN
           /\ session'[t.context].token.generation <= t.generation
           /\ t.generation <= generation'[t.context]
<1> DEFINE t == commands[i].token
<1> DEFINE c == t.context
<1>1. /\ c \in Contexts /\ t.generation \in Nat /\ generation[c] \in Nat
      /\ session[c].token.generation \in Nat /\ job.token.generation \in Nat
  BY GenerationTypes
<1>2. generation'[c] \in Nat BY <1>1, TypeOKPartsNext DEF HostTyped
<1>3. /\ session[c].token.generation <= t.generation
      /\ t.generation <= generation[c]
      /\ job.token.context = c => job.token.generation <= t.generation
  BY <1>1 DEF GenerationsGrow
<1>4. \/ session'[c].token.generation = session[c].token.generation
      \/ session'[c].token.generation = 0
      \/ c = job.token.context /\ session'[c].token.generation = job.token.generation
  BY <1>1 DEF SessionsStay
<1>5. generation[c] <= generation'[c] BY <1>1 DEF ContextsAge
<1> HIDE DEF t, c
<1>6. session'[c].token.generation <= t.generation BY <1>1, <1>3, <1>4
<1>7. t.generation <= generation'[c] BY <1>1, <1>2, <1>3, <1>5
<1> QED BY <1>6, <1>7 DEF t, c

\* A session's generation stays behind its context's.
LEMMA SessionsGrow ==
    ASSUME TypeOK, TypeOK', GenerationsGrow, SessionsStay, ContextsAge
    PROVE  SessionGrows'
<1>1. ASSUME NEW c \in Contexts
      PROVE  session'[c].token.generation <= generation'[c]
  <2>1. /\ generation[c] \in Nat /\ session[c].token.generation \in Nat
        /\ job.token.generation \in Nat
    BY GenerationTypes
  <2>2. generation'[c] \in Nat BY TypeOKPartsNext DEF HostTyped
  <2>3. session[c].token.generation <= generation[c] BY DEF GenerationsGrow
  <2>4. c = job.token.context => job.token.generation <= generation[c]
    BY DEF GenerationsGrow
  <2>5. \/ session'[c].token.generation = session[c].token.generation
        \/ session'[c].token.generation = 0
        \/ c = job.token.context /\ session'[c].token.generation = job.token.generation
    BY DEF SessionsStay
  <2>6. generation[c] <= generation'[c] BY DEF ContextsAge
  <2> QED BY <2>1, <2>2, <2>3, <2>4, <2>5, <2>6
<1> QED BY <1>1 DEF SessionGrows

\* The worker's command does, too.
LEMMA JobGrowsOn ==
    ASSUME TypeOK, TypeOK', GenerationsGrow, SessionsStay, ContextsAge, JobStays
    PROVE  JobGrows'
<1>1. CASE job' = Idle
  BY <1>1, ConstantsAssumption DEF JobGrows, Idle, NoToken
<1>2. CASE /\ job'.token.context = job.token.context
           /\ job'.token.generation = job.token.generation
           /\ job.token.context \in Contexts
  <2> DEFINE c == job.token.context
  <2>1. /\ c \in Contexts /\ generation[c] \in Nat /\ session[c].token.generation \in Nat
        /\ job.token.generation \in Nat
    BY <1>2, GenerationTypes
  <2>2. generation'[c] \in Nat BY <2>1, TypeOKPartsNext DEF HostTyped
  <2>3. /\ session[c].token.generation <= job.token.generation
        /\ job.token.generation <= generation[c]
    BY <2>1 DEF GenerationsGrow
  <2>4. \/ session'[c].token.generation = session[c].token.generation
        \/ session'[c].token.generation = 0
        \/ session'[c].token.generation = job.token.generation
    BY <2>1 DEF SessionsStay
  <2>5. generation[c] <= generation'[c] BY <2>1 DEF ContextsAge
  <2> HIDE DEF c
  <2>6. session'[c].token.generation <= job.token.generation BY <2>1, <2>3, <2>4
  <2>7. job.token.generation <= generation'[c] BY <2>1, <2>2, <2>3, <2>5
  <2> QED BY <1>2, <2>6, <2>7 DEF JobGrows, c
<1>3. CASE /\ job'.token.context = job.token.context
           /\ job.token.context \notin Contexts
  BY <1>3 DEF JobGrows
<1> QED BY <1>1, <1>2, <1>3 DEF JobStays

\* The head of the queue is behind what follows it, so it fits the worker.
LEMMA GrowsTake ==
    ASSUME TypeOK, TypeOK', QueueIsKnown, GateIsOwned, GenerationsGrow, SessionsStay,
           ContextsAge, TakeCommand
    PROVE  GenerationsGrow'
<1> USE TypeOKParts
<1>1. commands # <<>> /\ commands' = Tail(commands) BY DEF TakeCommand
<1>2. \A i \in DOMAIN commands' : i \in Nat \ {0} /\ i + 1 \in DOMAIN commands
                                  /\ commands'[i] = commands[i + 1]
  BY <1>1, TailCommands
<1>3. PICK h \in Jobs :
        /\ h = commands[1] /\ 1 \in DOMAIN commands
        /\ job' = Idle \/ (job'.kind = h.kind /\ job'.token = h.token)
  BY Taken
<1>4. \A c \in Contexts : job'.token.context = c =>
         /\ job'.token = commands[1].token /\ commands[1].token.context = c
  BY <1>3, ConstantsAssumption DEF Idle, NoToken
<1>5. SessionGrows' BY SessionsGrow
<1>6. JobGrows'
  <2>1. ASSUME job'.token.context \in Contexts
        PROVE  /\ session'[job'.token.context].token.generation <= job'.token.generation
               /\ job'.token.generation <= generation'[job'.token.context]
    <3>1. job'.token = commands[1].token BY <1>4, <2>1
    <3> QED BY <3>1, <1>3, <2>1, GrowsOn
  <2> QED BY <2>1 DEF JobGrows
<1>7. ASSUME NEW i \in DOMAIN commands' PROVE QueueGrows(i)'
  <2>1. /\ i \in Nat \ {0} /\ i + 1 \in DOMAIN commands /\ commands'[i] = commands[i + 1]
    BY <1>2
  <2>2. ASSUME commands[i + 1].token.context \in Contexts
        PROVE  LET t == commands'[i].token IN
               /\ session'[t.context].token.generation <= t.generation
               /\ t.generation <= generation'[t.context]
               /\ job'.token.context = t.context =>
                     job'.token.generation <= t.generation
               /\ \A j \in DOMAIN commands' :
                     i < j /\ commands'[j].token.context = t.context =>
                         t.generation <= commands'[j].token.generation
    <3> DEFINE t == commands[i + 1].token
    <3>1. /\ session'[t.context].token.generation <= t.generation
          /\ t.generation <= generation'[t.context]
      BY <2>1, <2>2, GrowsOn
    <3>2. ASSUME job'.token.context = t.context
          PROVE  job'.token.generation <= t.generation
      <4>1. /\ job'.token = commands[1].token /\ commands[1].token.context = t.context
        BY <1>4, <2>2, <3>2
      <4>2. 1 < i + 1 BY <2>1
      <4>3. commands[1].token.generation <= commands[i + 1].token.generation
        BY <4>1, <4>2, <1>3, <2>1, <2>2 DEF GenerationsGrow
      <4> QED BY <4>1, <4>3
    <3>3. ASSUME NEW j \in DOMAIN commands', i < j,
                 commands'[j].token.context = t.context
          PROVE  t.generation <= commands'[j].token.generation
      <4>1. j + 1 \in DOMAIN commands /\ commands'[j] = commands[j + 1] /\ j \in Nat
        BY <1>2
      <4>2. i + 1 < j + 1 BY <2>1, <4>1, <3>3
      <4> QED BY <4>1, <4>2, <2>1, <2>2, <3>3 DEF GenerationsGrow
    <3> QED BY <3>1, <3>2, <3>3, <2>1
  <2> QED BY <2>1, <2>2 DEF QueueGrows
<1> QED BY <1>5, <1>6, <1>7 DEF GenerationsGrow, SessionGrows, JobGrows, QueueGrows

\* A key that expires leaves the order of the rest,
LEMMA GrowsExpire ==
    ASSUME TypeOK, TypeOK', GenerationsGrow, SessionsStay, ContextsAge, JobStays, ExpireKey
    PROVE  GenerationsGrow'
<1> USE TypeOKParts
<1>1. commands # <<>> /\ commands' = Tail(commands) /\ job' = job BY DEF ExpireKey
<1>2. \A i \in DOMAIN commands' : i \in Nat \ {0} /\ i + 1 \in DOMAIN commands
                                  /\ commands'[i] = commands[i + 1]
  BY <1>1, TailCommands
<1>5. SessionGrows' BY SessionsGrow
<1>6. JobGrows' BY JobGrowsOn
<1>7. ASSUME NEW i \in DOMAIN commands' PROVE QueueGrows(i)'
  <2>1. /\ i \in Nat \ {0} /\ i + 1 \in DOMAIN commands /\ commands'[i] = commands[i + 1]
    BY <1>2
  <2>2. ASSUME commands[i + 1].token.context \in Contexts
        PROVE  LET t == commands'[i].token IN
               /\ session'[t.context].token.generation <= t.generation
               /\ t.generation <= generation'[t.context]
               /\ job'.token.context = t.context =>
                     job'.token.generation <= t.generation
               /\ \A j \in DOMAIN commands' :
                     i < j /\ commands'[j].token.context = t.context =>
                         t.generation <= commands'[j].token.generation
    <3> DEFINE t == commands[i + 1].token
    <3>1. /\ session'[t.context].token.generation <= t.generation
          /\ t.generation <= generation'[t.context]
      BY <2>1, <2>2, GrowsOn
    <3>2. ASSUME job'.token.context = t.context
          PROVE  job'.token.generation <= t.generation
      BY <1>1, <2>1, <2>2, <3>2 DEF GenerationsGrow
    <3>3. ASSUME NEW j \in DOMAIN commands', i < j,
                 commands'[j].token.context = t.context
          PROVE  t.generation <= commands'[j].token.generation
      <4>1. j + 1 \in DOMAIN commands /\ commands'[j] = commands[j + 1] /\ j \in Nat
        BY <1>2
      <4>2. i + 1 < j + 1 BY <2>1, <4>1, <3>3
      <4> QED BY <4>1, <4>2, <2>1, <2>2, <3>3 DEF GenerationsGrow
    <3> QED BY <3>1, <3>2, <3>3, <2>1
  <2> QED BY <2>1, <2>2 DEF QueueGrows
<1> QED BY <1>5, <1>6, <1>7 DEF GenerationsGrow, SessionGrows, JobGrows, QueueGrows

\* a step that leaves the queue keeps it,
LEMMA GrowsStay ==
    ASSUME TypeOK, TypeOK', GenerationsGrow, SessionsStay, ContextsAge, JobStays,
           commands' = commands
    PROVE  GenerationsGrow'
<1>5. SessionGrows' BY SessionsGrow
<1>6. JobGrows' BY JobGrowsOn
<1>7. ASSUME NEW i \in DOMAIN commands PROVE QueueGrows(i)'
  <2>2. ASSUME commands[i].token.context \in Contexts
        PROVE  LET t == commands[i].token IN
               /\ session'[t.context].token.generation <= t.generation
               /\ t.generation <= generation'[t.context]
               /\ job'.token.context = t.context =>
                     job'.token.generation <= t.generation
               /\ \A j \in DOMAIN commands :
                     i < j /\ commands[j].token.context = t.context =>
                         t.generation <= commands[j].token.generation
    <3> DEFINE t == commands[i].token
    <3>1. /\ session'[t.context].token.generation <= t.generation
          /\ t.generation <= generation'[t.context]
      BY <2>2, GrowsOn
    <3>2. ASSUME job'.token.context = t.context
          PROVE  job'.token.generation <= t.generation
      <4>1. job'.token.context \in Contexts BY <2>2, <3>2
      <4>2. job' # Idle BY <4>1, ConstantsAssumption DEF Idle, NoToken
      <4> QED BY <4>2, <2>2, <3>2 DEF JobStays, GenerationsGrow
    <3>3. ASSUME NEW j \in DOMAIN commands, i < j,
                 commands[j].token.context = t.context
          PROVE  t.generation <= commands[j].token.generation
      BY <2>2, <3>3 DEF GenerationsGrow
    <3> QED BY <3>1, <3>2, <3>3
  <2> QED BY <2>2 DEF QueueGrows
<1> QED BY <1>5, <1>6, <1>7 DEF GenerationsGrow, SessionGrows, JobGrows, QueueGrows

\* and commands that join it are the youngest of their context.
LEMMA GrowsEnqueue ==
    ASSUME TypeOK, TypeOK', Counted, QueueIsKnown, GenerationsGrow, SessionsStay, ContextsAge,
           JobStays, Enqueue
    PROVE  GenerationsGrow'
<1> USE TypeOKParts
<1>1. PICK cs \in Seq(Jobs) : Lengthened(cs) /\ FitsQueue(cs)
  BY Enqueues DEF EnqueueShape, Enqueued
<1>2. /\ job' = job /\ session' = session
  BY DEF Enqueue, AskKey, Log, Focus, Cancel, Remove, wire, engineVars
<1>3. SessionGrows' BY SessionsGrow
<1>4. JobGrows' BY JobGrowsOn
<1> DEFINE n == Len(commands)
<1> DEFINE New(i) == i - n \in 1..Len(cs) /\ commands'[i] = cs[i - n]
<1> DEFINE Old(i) == i \in DOMAIN commands /\ commands'[i] = commands[i]
<1>5. \A i \in DOMAIN commands' : i \in Nat /\ (Old(i) \/ New(i)) BY <1>1, OldAndNew
<1>6. \A i \in DOMAIN commands' : i \notin DOMAIN commands =>
          \A k \in DOMAIN commands : k < i
  BY <1>1, OldAndNew
<1>7. n \in Nat /\ DOMAIN commands = 1..n BY DEF GateTyped
\* A new command and its context.
<1>8. ASSUME NEW i \in DOMAIN commands', New(i), commands'[i].token.context \in Contexts
      PROVE  LET t == commands'[i].token IN
             /\ t.context \in Contexts
             /\ generation[t.context] <= t.generation
             /\ t.generation <= generation'[t.context]
  BY <1>8, <1>1, ConstantsAssumption DEF FitsQueue
<1>9. \A i \in DOMAIN commands' : commands'[i].token.generation \in Nat
  <2>1. \A i \in DOMAIN commands' : commands'[i] \in Jobs BY TypeOKPartsNext DEF GateTyped
  <2>2. \A j \in Jobs : j.token.generation \in Nat BY DEF Jobs, Tokens
  <2> QED BY <2>1, <2>2
<1>10. ASSUME NEW i \in DOMAIN commands', commands'[i].token.context \in Contexts
       PROVE  LET t == commands'[i].token IN
              /\ session'[t.context].token.generation <= t.generation
              /\ t.generation <= generation'[t.context]
              /\ job'.token.context = t.context =>
                    job'.token.generation <= t.generation
              /\ \A j \in DOMAIN commands' :
                    i < j /\ commands'[j].token.context = t.context =>
                        t.generation <= commands'[j].token.generation
  <2> DEFINE t == commands'[i].token
  <2> DEFINE c == t.context
  <2>1. /\ c \in Contexts /\ t.generation \in Nat /\ generation[c] \in Nat
        /\ session[c].token.generation \in Nat /\ job.token.generation \in Nat
    BY <1>9, <1>10, GenerationTypes
  <2>2. CASE Old(i)
    <3>1. t = commands[i].token BY <2>2
    <3>2. /\ session'[c].token.generation <= t.generation
          /\ t.generation <= generation'[c]
      BY <3>1, <2>1, <2>2, GrowsOn
    <3>3. job.token.context = c => job.token.generation <= t.generation
      BY <3>1, <2>1, <2>2 DEF GenerationsGrow
    <3>4. ASSUME NEW j \in DOMAIN commands', i < j, commands'[j].token.context = c
          PROVE  t.generation <= commands'[j].token.generation
      <4>1. CASE Old(j) BY <4>1, <3>4, <3>1, <2>1, <2>2 DEF GenerationsGrow
      <4>2. CASE New(j)
        <5>1. generation[c] <= commands'[j].token.generation
          BY <4>2, <3>4, <2>1, <1>8
        <5>2. t.generation <= generation[c] BY <3>1, <2>1, <2>2 DEF GenerationsGrow
        <5>3. commands'[j].token.generation \in Nat BY <1>9
        <5> HIDE DEF t, c
        <5> QED BY <5>1, <5>2, <5>3, <2>1
      <4> QED BY <4>1, <4>2, <1>5
    <3> QED BY <3>2, <3>3, <3>4, <1>2
  <2>3. CASE New(i)
    <3>1. generation[c] <= t.generation /\ t.generation <= generation'[c]
      BY <2>3, <2>1, <1>8
    <3>2. session[c].token.generation <= generation[c] BY <2>1 DEF GenerationsGrow
    <3>3. job.token.context = c => job.token.generation <= generation[c]
      BY <2>1 DEF GenerationsGrow
    <3>4. session[c].token.generation <= t.generation
          /\ (job.token.context = c => job.token.generation <= t.generation)
      <4> HIDE DEF t, c
      <4> QED BY <3>1, <3>2, <3>3, <2>1
    <3>5. ASSUME NEW j \in DOMAIN commands', i < j, commands'[j].token.context = c
          PROVE  t.generation <= commands'[j].token.generation
      <4>1. i \in Nat /\ j \in Nat /\ i > n /\ j > n BY <1>5, <1>7, <2>3, <3>5
      <4>2. ~ Old(j) BY <4>1, <1>7
      <4>3. New(j) BY <4>2, <1>5
      <4>4. i - n < j - n /\ i - n \in 1..Len(cs) /\ j - n \in 1..Len(cs)
        BY <4>1, <4>3, <2>3, <3>5, <1>7
      <4>5. t = cs[i - n].token /\ commands'[j] = cs[j - n] BY <4>3, <2>3
      <4> QED BY <4>4, <4>5, <3>5, <1>1 DEF FitsQueue
    <3> QED BY <3>1, <3>4, <3>5, <1>2
  <2> QED BY <2>2, <2>3, <1>5
<1>11. \A i \in DOMAIN commands' : QueueGrows(i)'
  <2> HIDE DEF n, New, Old
  <2> QED BY <1>10 DEF QueueGrows
<1> QED BY <1>3, <1>4, <1>11 DEF GenerationsGrow, SessionGrows, JobGrows, QueueGrows

\* Every step keeps the order of the generations.
LEMMA Grows ==
    ASSUME TypeOK, TypeOK', Counted, QueueIsKnown, GateIsOwned, JobIsServed, SessionsAreOpened,
           GenerationsGrow, Next
    PROVE  GenerationsGrow'
<1>1. SessionsStay BY SessionSteps
<1>2. ContextsAge BY AliveShrinks
<1>3. CASE TakeCommand BY <1>1, <1>2, <1>3, GrowsTake
<1>4. CASE ~TakeCommand
  <2>1. JobStays BY <1>4, JobKeepsItsToken
  <2>2. CASE ExpireKey BY <1>1, <1>2, <2>1, <2>2, GrowsExpire
  <2>3. CASE Enqueue BY <1>1, <1>2, <2>1, <2>3, GrowsEnqueue
  <2>4. CASE ~ (ExpireKey \/ Enqueue)
    <3>1. commands' = commands
      BY <1>4, <2>4
      DEF Next, Enqueue, Worker, Connected, ConnectFails, StampToken, Prepare, SessionOpened,
          ModeRestored, AnswerKey, ContextDone, RequestFails, Timeout, Disconnect,
          Engine, ServeOpen, ServeKey, ServeCommand, Refuse, Push, Lose, workerSide,
          Subscription, Forward, SubscriptionEnds,
          Key, ReuseTested, PassKey, GiveUp, Receive, Drain, ApplyEdit, Decide
    <3> QED BY <1>1, <1>2, <2>1, <3>1, GrowsStay
  <2> QED BY <2>2, <2>3, <2>4
<1> QED BY <1>3, <1>4

-----------------------------------------------------------------------------
(* The engine's sessions and the contexts the connection holds for open.   *)

\* The transport closed: the engine has no session.
LEMMA LostIsOpened ==
    ASSUME SessionsAreOpened, UNCHANGED <<job, conn, opened>>, ~up',
           session' = [c \in Contexts |-> NoSession]
    PROVE  SessionsAreOpened'
BY DEF SessionsAreOpened

\* The connection is gone, and the worker is not busy with it.
LEMMA ClosedIsOpened ==
    ASSUME Close, job'.at \notin Asked
    PROVE  SessionsAreOpened'
BY DEF SessionsAreOpened, Close, Asked

\* The worker is not busy, and was not.
LEMMA RestIsOpened ==
    ASSUME SessionsAreOpened, UNCHANGED <<up, session, conn, opened>>,
           job.at \notin Asked, job'.at \notin Asked
    PROVE  SessionsAreOpened'
BY DEF SessionsAreOpened, Asked

\* Neither the host nor the subscription nor a loss makes a session without a context opened.
LEMMA OpenedElsewhere ==
    ASSUME TypeOK, Counted, SessionsAreOpened, HostStep \/ Subscription \/ Lose
    PROVE  SessionsAreOpened'
<1>1. CASE UNCHANGED <<up, session, conn, opened, job, answer>>
  BY <1>1 DEF SessionsAreOpened
<1>2. CASE HostStep
  <2>1. UNCHANGED wire BY <1>2, HostLeaves
  <2> QED BY <2>1, <1>1 DEF wire, connVars, engineVars
<1>3. CASE Subscription
  <2>1. \/ UNCHANGED <<up, session, conn, opened, job, answer>>
        \/ /\ UNCHANGED <<job, conn, opened>> /\ ~up'
           /\ session' = [c \in Contexts |-> NoSession]
    BY <1>3 DEF Subscription, Forward, SubscriptionEnds, engineVars
  <2> QED BY <2>1, <1>1, LostIsOpened
<1>4. CASE Lose BY <1>4, LostIsOpened DEF Lose, workerSide
<1> QED BY <1>2, <1>3, <1>4

\* The step of the worker's command its request belongs to.
LEMMA PendingPhase ==
    ASSUME TypeOK, JobIsServed, SessionsAreOpened, Pending
    PROVE  /\ up /\ job.at \in Asked /\ answer.kind = "none"
           /\ request.token = job.token /\ job.token.context \in Contexts
           /\ request.token.epoch \in {0, conn}
           /\ request.kind = "open" <=> job.at = "opening"
           /\ session[job.token.context] = NoSession <=> request.kind = "open"
<1>1. up /\ answer = NoAnswer /\ request # NoRequest BY DEF Pending
<1>2. job.at \in Asked BY <1>1 DEF JobIsServed
<1>3. answer.kind = "none" BY <1>1 DEF NoAnswer
<1>4. /\ request.token = job.token /\ job.token.context \in Contexts
      /\ request.token.epoch \in {0, conn}
  BY <1>2 DEF JobIsServed, Asked, Phases
<1>5. request.kind = "open" <=> job.at = "opening"
  BY <1>2 DEF JobIsServed, Asked, Phases
<1>6. session[job.token.context] = NoSession <=> request.kind = "open"
  BY <1>1, <1>2, <1>3, <1>5 DEF SessionsAreOpened, Asked
<1> QED BY <1>1, <1>2, <1>3, <1>4, <1>5, <1>6

\* A session opened is of the context the worker is opening.
LEMMA OpenedServeOpen ==
    ASSUME TypeOK, JobIsServed, SessionsAreOpened, ServeOpen
    PROVE  SessionsAreOpened'
<1> USE TypeOKParts
<1>0. session \in [Contexts -> Sessions] /\ request.token \in Tokens
  BY DEF EngineTyped, Requests
<1> DEFINE t == request.token
<1> DEFINE c == t.context
<1>1. Pending /\ request.kind = "open" BY DEF ServeOpen
<1>2. /\ up /\ job.at = "opening" /\ t = job.token /\ c \in Contexts
      /\ t.epoch \in {0, conn} /\ session[c] = NoSession
  BY <1>1, PendingPhase
<1>3. UNCHANGED <<job, conn, up, opened>> BY DEF ServeOpen, workerSide, connVars
<1>4. CASE t.epoch # 0
  <2>1. Answered("opened", 0, FALSE) /\ session' = [session EXCEPT ![c].token = t]
    BY <1>2, <1>4 DEF ServeOpen
  <2>2. answer'.kind = "opened" BY <2>1, AnsweredTyped
  <2>3. \A d \in Contexts : d # c => session'[d] = session[d]
    BY <2>1, <1>0
  <2>4. PICK n \in Nat : n = session[c].revision
    BY <1>0, <1>2 DEF Sessions
  <2>5. session'[c] = [token |-> t, revision |-> n]
    BY <2>1, <2>4, <1>0, <1>2 DEF Sessions
  <2>6. session'[c] # NoSession BY <2>5, <1>0, <1>2, SomeSession
  <2>7. session'[c].token = t BY <2>5
  <2> HIDE DEF c, t
  <2>8. t.context = c /\ t.epoch = conn /\ job.token.context = c
    BY <1>2, <1>4 DEF c
  <2> QED
    BY <1>2, <1>3, <2>2, <2>3, <2>6, <2>7, <2>8 DEF SessionsAreOpened, Asked
<1>5. CASE t.epoch = 0
  <2>1. Answered("failure", 0, FALSE) /\ session' = session
    BY <1>5 DEF ServeOpen
  <2>2. answer'.kind = "failure" BY <2>1, AnsweredTyped
  <2> QED BY <1>2, <1>3, <2>1, <2>2 DEF SessionsAreOpened, Asked
<1> QED BY <1>4, <1>5

\* A request served keeps the sessions, but for that of the context destroyed.
LEMMA OpenedPublish ==
    ASSUME TypeOK, JobIsServed, SessionsAreOpened, ServeKey \/ ServeCommand \/ Push
    PROVE  SessionsAreOpened'
<1> USE TypeOKParts
<1>0. session \in [Contexts -> Sessions] BY DEF EngineTyped
<1>1. EnginePublishes BY ServesPublish
<1>2. PICK r \in Replies, c \in Contexts :
        /\ up /\ session[c] # NoSession /\ r.token.context = c
        /\ r.kind = "reply" /\ r.token.epoch = conn
        /\ \/ answer' = answer /\ session'[c] # NoSession
           \/ /\ r.token = request.token /\ answer' = r
              /\ Pending /\ request.kind # "open"
              /\ session'[c] = NoSession <=> request.kind = "destroy"
        /\ \/ session' = [session EXCEPT ![c] = [token |-> r.token, revision |-> r.revision]]
           \/ session' = [session EXCEPT ![c] = NoSession]
        /\ UNCHANGED <<job, conn, up, opened>>
  BY <1>1 DEF EnginePublishes, workerSide
<1>3. \A d \in Contexts : d # c => session'[d] = session[d] BY <1>2, <1>0
<1>4. session'[c] # NoSession =>
          session'[c].token.context = c /\ session'[c].token.epoch = conn
  <2>1. session'[c] = [token |-> r.token, revision |-> r.revision] \/ session'[c] = NoSession
    BY <1>2, <1>0
  <2> QED BY <2>1, <1>2
<1>5. CASE answer' = answer /\ session'[c] # NoSession
  <2>1. \A d \in Contexts : session'[d] = NoSession <=> session[d] = NoSession
    BY <1>2, <1>3, <1>5
  <2>2. \A d \in Contexts : session'[d] # NoSession =>
            session'[d].token.context = d /\ session'[d].token.epoch = conn
    BY <1>3, <1>4 DEF SessionsAreOpened
  <2>3. job.at \in Asked => job.token.context \in Contexts
    BY DEF JobIsServed, Asked, Phases
  <2> QED BY <1>2, <1>5, <2>1, <2>2, <2>3 DEF SessionsAreOpened, Asked
<1>6. CASE /\ r.token = request.token /\ answer' = r
           /\ Pending /\ request.kind # "open"
           /\ session'[c] = NoSession <=> request.kind = "destroy"
  <2>1. /\ c = job.token.context /\ job.at \in Asked /\ job.at # "opening"
        /\ answer'.kind = "reply"
    BY <1>2, <1>6, PendingPhase
  <2>2. job.at = "restoring" => request.kind = "set_ascii"
    BY DEF JobIsServed
  <2>3. job.at = "asking" => request.kind = job.kind
    BY DEF JobIsServed
  <2>4. job'.at \in {"restoring", "asking"} /\ job' = job BY <2>1, <1>2 DEF Asked
  <2> QED
    BY <1>2, <1>3, <1>4, <1>6, <2>1, <2>2, <2>3, <2>4 DEF SessionsAreOpened, Asked
<1> QED BY <1>2, <1>5, <1>6

\* The engine keeps sessions and opened contexts together,
LEMMA OpenedEngine ==
    ASSUME TypeOK, Counted, JobIsServed, SessionsAreOpened, Engine
    PROVE  SessionsAreOpened'
<1> USE TypeOKParts
<1>1. CASE Refuse
  <2>1. answer'.kind = "failure" BY <1>1, AnsweredTyped DEF Refuse
  <2>2. UNCHANGED <<job, conn, up, opened, session>>
    BY <1>1 DEF Refuse, workerSide, connVars
  <2>3. /\ up /\ job.at \in Asked /\ job.at # "opening" /\ answer.kind = "none"
        /\ session[job.token.context] # NoSession
    BY <1>1, PendingPhase DEF Refuse
  <2> QED BY <2>1, <2>2, <2>3 DEF SessionsAreOpened, Asked
<1> QED BY <1>1, OpenedServeOpen, OpenedPublish, OpenedElsewhere DEF Engine

\* and so does the worker.
LEMMA OpenedWorker ==
    ASSUME TypeOK, Counted, QueueIsKnown, GateIsOwned, JobIsServed, SessionsAreOpened, Worker
    PROVE  SessionsAreOpened'
<1> USE TypeOKParts
<1>0. job.kind \in Kinds /\ opened \subseteq Contexts BY DEF ConnTyped, Jobs
<1>1. CASE ExpireKey
  BY <1>1 DEF ExpireKey, SessionsAreOpened, connVars, engineVars
<1>2. CASE TakeCommand
  <2>1. /\ job = Idle /\ job'.at \in {"idle", "connecting", "stamp"}
        /\ Close \/ UNCHANGED <<connVars, engineVars>>
    BY <1>2, Taken DEF Idle
  <2>2. job.at \notin Asked /\ job'.at \notin Asked BY <2>1 DEF Idle, Asked
  <2> QED BY <2>1, <2>2, ClosedIsOpened, RestIsOpened DEF connVars, engineVars
<1>3. CASE Connected
  <2>1. conn = 0 /\ ~up /\ opened = {} BY <1>3 DEF Connected, JobIsServed, GateIsOwned
  <2>2. job'.at \notin Asked
    <3>1. job \in Jobs BY DEF ConnTyped
    <3> QED BY <1>3, <3>1 DEF Connected, Jobs, Idle, Asked
  <2>3. UNCHANGED <<session, opened>> BY <1>3 DEF Connected, engineVars
  <2>4. \A c \in Contexts : session[c] = NoSession BY <2>1 DEF SessionsAreOpened
  <2> QED BY <2>1, <2>2, <2>3, <2>4 DEF SessionsAreOpened, Asked
<1>4. CASE ConnectFails
  <2>1. job.at \notin Asked /\ job'.at \notin Asked
    BY <1>4 DEF ConnectFails, Idle, Asked
  <2> QED BY <1>4, <2>1, RestIsOpened DEF ConnectFails, connVars, engineVars
<1>5. CASE StampToken
  <2>1. job.at \notin Asked /\ job'.at \notin Asked
    <3>1. job \in Jobs BY DEF ConnTyped
    <3> QED BY <1>5, <3>1 DEF StampToken, Jobs, Asked
  <2> QED BY <1>5, <2>1, RestIsOpened DEF StampToken, connVars, engineVars
<1>6. CASE Prepare
  <2>0. /\ UNCHANGED <<up, conn, opened, session>> /\ job.at \notin Asked
        /\ job.token.context \in Contexts
    BY <1>6 DEF Prepare, connVars, JobIsServed, Asked, Phases
  <2>1. up => \A c \in Contexts : c \in opened <=> session[c] # NoSession
    BY <2>0 DEF SessionsAreOpened
  <2>2. CASE job.token.context \in opened /\ Send(job.kind, "asking")
    <3>1. /\ job'.at = "asking" /\ job'.kind = job.kind /\ job'.token = job.token
          /\ answer'.kind = "none"
      BY <1>0, <2>2, SendTyped DEF Send, NoAnswer
    <3> QED BY <2>0, <2>1, <2>2, <3>1 DEF SessionsAreOpened, Asked
  <2>3. CASE job.token.context \notin opened /\ Send("open", "opening")
    <3>1. /\ job'.at = "opening" /\ job'.kind = job.kind /\ job'.token = job.token
          /\ answer'.kind = "none"
      BY <1>0, <2>3, SendTyped DEF Send, NoAnswer
    <3> QED BY <2>0, <2>1, <2>3, <3>1 DEF SessionsAreOpened, Asked
  <2>4. CASE job' = Idle
    <3>1. job'.at \notin Asked BY <2>4 DEF Idle, Asked
    <3> QED BY <2>0, <3>1, RestIsOpened
  <2> QED BY <1>6, <2>2, <2>3, <2>4 DEF Prepare
<1>7. CASE SessionOpened
  <2>0. /\ UNCHANGED <<up, conn, session>> /\ job.at = "opening" /\ answer.kind = "opened"
        /\ job.token.context \in Contexts
    BY <1>7 DEF SessionOpened, JobIsServed, Phases
  <2>1. /\ job.token.context \notin opened /\ (up => session[job.token.context] # NoSession)
        /\ up => \A c \in Contexts : c # job.token.context =>
                    (c \in opened <=> session[c] # NoSession)
    BY <2>0 DEF SessionsAreOpened, Asked
  <2>2. CASE Send("set_ascii", "restoring") /\ UNCHANGED opened
    <3>1. job'.at = "restoring" /\ job'.kind = job.kind /\ job'.token = job.token
      BY <1>0, <2>2, SendTyped
    <3> QED BY <2>0, <2>1, <2>2, <3>1 DEF SessionsAreOpened, Asked
  <2>3. CASE opened' = opened \cup {job.token.context} /\ Send(job.kind, "asking")
    <3>1. /\ job'.at = "asking" /\ job'.kind = job.kind /\ job'.token = job.token
          /\ answer'.kind = "none"
      BY <1>0, <2>3, SendTyped DEF Send, NoAnswer
    <3> QED BY <2>0, <2>1, <2>3, <3>1 DEF SessionsAreOpened, Asked
  <2> QED BY <1>7, <2>2, <2>3 DEF SessionOpened
<1>8. CASE ModeRestored
  <2>0. /\ UNCHANGED <<up, conn, session>> /\ job.at = "restoring"
        /\ job.token.context \in Contexts
        /\ opened' = opened \cup {job.token.context} /\ Send(job.kind, "asking")
    BY <1>8 DEF ModeRestored, JobIsServed, Phases
  <2>1. /\ up => session[job.token.context] # NoSession
        /\ up => \A c \in Contexts : c # job.token.context =>
                    (c \in opened <=> session[c] # NoSession)
    BY <2>0 DEF SessionsAreOpened, Asked
  <2>2. /\ job'.at = "asking" /\ job'.kind = job.kind /\ job'.token = job.token
        /\ answer'.kind = "none"
    BY <1>0, <2>0, SendTyped DEF Send, NoAnswer
  <2> QED BY <2>0, <2>1, <2>2 DEF SessionsAreOpened, Asked
<1>9. CASE AnswerKey \/ ContextDone
  <2>0. /\ UNCHANGED <<up, conn, session>> /\ job.at = "asking" /\ answer.kind = "reply"
        /\ job.token.context \in Contexts /\ job' = Idle
        /\ opened' = IF job.kind = "destroy" THEN opened \ {job.token.context} ELSE opened
    BY <1>9 DEF AnswerKey, ContextDone, connVars, JobIsServed, Phases
  <2>1. /\ job.token.context \in opened
        /\ up => (session[job.token.context] = NoSession <=> job.kind = "destroy")
        /\ up => \A c \in Contexts : c # job.token.context =>
                    (c \in opened <=> session[c] # NoSession)
    BY <2>0 DEF SessionsAreOpened, Asked
  <2>2. job'.at \notin Asked BY <2>0 DEF Idle, Asked
  <2> QED BY <2>0, <2>1, <2>2 DEF SessionsAreOpened, Asked
<1>10. CASE Disconnect
  <2>1. Close /\ job'.at \notin Asked BY <1>10 DEF Disconnect, Idle, Asked
  <2> QED BY <2>1, ClosedIsOpened
<1> QED
  BY <1>1, <1>2, <1>3, <1>4, <1>5, <1>6, <1>7, <1>8, <1>9, <1>10
  DEF Worker, RequestFails, Timeout

\* The worker keeps the answer or forgets it with its request.
LEMMA AnswerKeptOrCleared ==
    ASSUME Worker
    PROVE  UNCHANGED <<request, answer>> \/ answer' = NoAnswer
<1>1. CASE TakeCommand BY <1>1 DEF TakeCommand, Close, engineVars
<1>2. CASE ~TakeCommand
  BY <1>2 DEF Worker, ExpireKey, Connected, ConnectFails, StampToken, Prepare, SessionOpened,
         ModeRestored, AnswerKey, ContextDone, RequestFails, Timeout, Disconnect, Close, Send,
         engineVars
<1> QED BY <1>1, <1>2

\* The engine refuses no request of the open gate: a session's generation is never
\* ahead of the worker's command.
LEMMA NeverRefuses ==
    ASSUME TypeOK, Counted, JobIsServed, SessionsAreOpened, GenerationsGrow, NeverRefused, Next
    PROVE  NeverRefused'
<1> USE TypeOKParts
<1>1. CASE UNCHANGED <<request, answer>> \/ answer' = NoAnswer
  BY <1>1 DEF NeverRefused, NoAnswer
<1>2. CASE HostStep
  <2>1. UNCHANGED wire BY <1>2, HostLeaves
  <2> QED BY <2>1, <1>1 DEF wire, engineVars
<1>3. CASE Subscription \/ Lose
  BY <1>1, <1>3 DEF Subscription, Forward, SubscriptionEnds, Lose, engineVars
<1>4. CASE Worker BY <1>1, <1>4, AnswerKeptOrCleared
<1>5. CASE ServeKey \/ ServeCommand \/ Push
  <2>1. EnginePublishes BY <1>5, ServesPublish
  <2>2. request' = request /\ (answer' = answer \/ answer'.kind = "reply")
    BY <2>1 DEF EnginePublishes
  <2> QED BY <2>2 DEF NeverRefused
<1>6. CASE ServeOpen
  <2>1. Pending /\ request.kind = "open" /\ request' = request BY <1>6 DEF ServeOpen
  <2>2. session[request.token.context] = NoSession BY <2>1, PendingPhase
  <2>3. CASE request.token.epoch # 0
    <3>1. Answered("opened", 0, FALSE) BY <1>6, <2>2, <2>3 DEF ServeOpen
    <3>2. answer'.kind = "opened" BY <3>1, AnsweredTyped
    <3> QED BY <3>2 DEF NeverRefused
  <2> QED BY <2>1, <2>3 DEF NeverRefused
<1>7. CASE Refuse
  <2>1. Pending /\ request.kind # "open" /\ ~Observed(request.token) /\ request' = request
    BY <1>7 DEF Refuse
  <2> DEFINE c == job.token.context
  <2>2. /\ c \in Contexts /\ request.token = job.token /\ job.token.epoch \in {0, conn}
        /\ session[c] # NoSession
    BY <2>1, PendingPhase
  <2>3. session[c].token.epoch = conn BY <2>2 DEF SessionsAreOpened
  <2>4. session[c].token.generation <= job.token.generation
    BY <2>2 DEF GenerationsGrow
  <2>5. session[c].token.generation \in Nat /\ job.token.generation \in Nat
    BY <2>2, GenerationTypes
  <2>6. job.token.epoch = 0 BY <2>1, <2>2, <2>3, <2>4, <2>5 DEF Observed
  <2> QED BY <2>1, <2>2, <2>6 DEF NeverRefused
<1> QED BY <1>2, <1>3, <1>4, <1>5, <1>6, <1>7 DEF Next, Engine, HostStep

-----------------------------------------------------------------------------
(* Where replies are, before and after a step.                             *)

\* The elements of a sequence that loses its head or gets one more.
LEMMA ElementsOf ==
    ASSUME NEW S, NEW s \in Seq(S)
    PROVE  /\ Elements(<<>>) = {}
           /\ s # <<>> => Elements(Tail(s)) \subseteq Elements(s) /\ Head(s) \in Elements(s)
           /\ \A x \in S : Elements(Append(s, x)) = Elements(s) \cup {x}
<1>1. Elements(<<>>) = {} BY DEF Elements
<1>2. ASSUME s # <<>>
      PROVE  Elements(Tail(s)) \subseteq Elements(s) /\ Head(s) \in Elements(s)
  <2>1. /\ Tail(s) \in Seq(S) /\ Len(Tail(s)) = Len(s) - 1 /\ Len(s) >= 1
        /\ Head(s) = s[1] /\ \A i \in 1..Len(s) - 1 : Tail(s)[i] = s[i + 1]
    BY <1>2, TailOf
  <2>2. DOMAIN s = 1..Len(s) /\ DOMAIN Tail(s) = 1..Len(s) - 1 /\ Len(s) \in Nat
    BY <2>1
  <2>3. Head(s) \in Elements(s) BY <2>1, <2>2 DEF Elements
  <2>4. \A i \in DOMAIN Tail(s) : i + 1 \in DOMAIN s /\ Tail(s)[i] = s[i + 1]
    BY <2>1, <2>2
  <2> QED BY <2>3, <2>4 DEF Elements
<1>3. ASSUME NEW x \in S PROVE Elements(Append(s, x)) = Elements(s) \cup {x}
  <2>1. /\ Append(s, x) \in Seq(S) /\ Len(Append(s, x)) = Len(s) + 1
        /\ Append(s, x)[Len(s) + 1] = x
        /\ \A i \in 1..Len(s) : Append(s, x)[i] = s[i]
    BY AppendOf
  <2>2. DOMAIN s = 1..Len(s) /\ DOMAIN Append(s, x) = 1..Len(s) + 1 /\ Len(s) \in Nat
    BY <2>1
  <2>3. \A i \in DOMAIN Append(s, x) : i \in DOMAIN s \/ i = Len(s) + 1
    BY <2>2
  <2>4. Len(s) + 1 \in DOMAIN Append(s, x) /\ DOMAIN s \subseteq DOMAIN Append(s, x)
    BY <2>2
  <2> QED BY <2>1, <2>2, <2>3, <2>4 DEF Elements
<1> QED BY <1>1, <1>2, <1>3

\* A step that publishes nothing: replies move on towards the text, and some are
\* lost.
RepliesMoveOn ==
    /\ OnTheWay' \subseteq OnTheWay
    /\ sent' = sent /\ applied' \subseteq applied \cup edits

\* What a drain accepts was in the reply queue.
LEMMA FreshIsQueued == ASSUME GateTyped PROVE Fresh \subseteq Elements(updates)
BY FreshTyped

\* The worker drops replies at most.
LEMMA WorkerMovesNone ==
    ASSUME Worker
    PROVE  /\ stream' \in {stream, <<>>} /\ updates' \in {updates, <<>>}
           /\ UNCHANGED <<edits, sent, applied>>
<1>1. CASE TakeCommand
  BY <1>1 DEF TakeCommand, Close, connVars, hostSide, histVars
<1>2. CASE ~TakeCommand
  BY <1>2 DEF Worker, ExpireKey, Connected, ConnectFails, StampToken, Prepare, SessionOpened,
         ModeRestored, AnswerKey, ContextDone, RequestFails, Timeout, Disconnect, Close,
         Invalidate, connVars, hostSide, histVars
<1> QED BY <1>1, <1>2

\* A step publishes at most one reply, or moves replies on from stream to queue to
\* edits to the document, or drops them.
LEMMA RepliesMove ==
    ASSUME TypeOK, Counted, JobIsServed, SessionsAreOpened, Next
    PROVE  EnginePublishes \/ RepliesMoveOn
<1> USE TypeOKParts
<1>0. stream \in Seq(Replies) /\ updates \in Seq(Replies) BY DEF ConnTyped, GateTyped
<1>1. ASSUME stream' \in {stream, <<>>}, updates' \in {updates, <<>>},
             edits' \subseteq edits, sent' = sent, applied' \subseteq applied \cup edits
      PROVE  RepliesMoveOn
  <2>1. Elements(stream') \subseteq Elements(stream) /\ Elements(updates') \subseteq Elements(updates)
    BY <1>1 DEF Elements
  <2> QED BY <1>1, <2>1 DEF RepliesMoveOn, OnTheWay
<1>2. CASE Worker
  <2>1. /\ stream' \in {stream, <<>>} /\ updates' \in {updates, <<>>}
        /\ edits' \subseteq edits /\ sent' = sent /\ applied' \subseteq applied \cup edits
    BY <1>2, WorkerMovesNone
  <2> QED BY <2>1, <1>1
<1>3. CASE ServeKey \/ ServeCommand \/ Push BY <1>3, ServesPublish
<1>4. CASE ServeOpen \/ Refuse \/ Lose
  <2>1. /\ stream' \in {stream, <<>>} /\ updates' \in {updates, <<>>}
        /\ edits' \subseteq edits /\ sent' = sent /\ applied' \subseteq applied \cup edits
    BY <1>4 DEF ServeOpen, Refuse, Lose, workerSide, connVars, hostSide, histVars
  <2> QED BY <2>1, <1>1
<1>5. CASE Forward
  <2>1. stream # <<>> /\ UNCHANGED <<edits, sent, applied>>
    BY <1>5 DEF Forward, hostSide, histVars
  <2>2. Elements(Tail(stream)) \subseteq Elements(stream) /\ Head(stream) \in Elements(stream)
        /\ Head(stream) \in Replies
    BY <2>1, <1>0, ElementsOf, TailOf
  <2>3. CASE live # conn
    BY <1>5, <2>1, <2>2, <2>3 DEF Forward, RepliesMoveOn, OnTheWay
  <2>4. CASE live = conn /\ Len(updates) < UpdateLimit
    <3>1. updates' = Append(updates, Head(stream)) /\ stream' = Tail(stream)
      BY <1>5, <2>4 DEF Forward
    <3>2. Elements(updates') = Elements(updates) \cup {Head(stream)}
      BY <3>1, <2>2, <1>0, ElementsOf
    <3> QED BY <2>1, <2>2, <3>1, <3>2 DEF RepliesMoveOn, OnTheWay
  <2>5. CASE live = conn /\ ~ (Len(updates) < UpdateLimit)
    <3>1. updates' = <<>> /\ stream' = <<>>
      BY <1>5, <2>5 DEF Forward, Invalidate
    <3> QED BY <2>1, <3>1, <1>1
  <2> QED BY <2>3, <2>4, <2>5
<1>6. CASE SubscriptionEnds
  <2>1. /\ stream' \in {stream, <<>>} /\ updates' \in {updates, <<>>}
        /\ edits' \subseteq edits /\ sent' = sent /\ applied' \subseteq applied \cup edits
    BY <1>6 DEF SubscriptionEnds, Invalidate, hostSide, histVars
  <2> QED BY <2>1, <1>1
<1>7. CASE HostStep
  <2>1. UNCHANGED wire /\ UNCHANGED sent /\ updates' \in {updates, <<>>}
    BY <1>7, HostLeaves
  <2>2. stream' = stream BY <2>1 DEF wire, connVars
  <2>3. CASE Drain
    <3>1. /\ edits' = edits \cup Fresh /\ updates' = <<>> /\ UNCHANGED histVars
      BY <2>3 DEF Drain
    <3>2. Fresh \subseteq Elements(updates) BY FreshIsQueued
    <3>3. Elements(updates') = {} BY <3>1, <1>0, ElementsOf
    <3> QED BY <2>1, <2>2, <3>1, <3>2, <3>3 DEF RepliesMoveOn, OnTheWay, histVars
  <2>4. CASE ~Drain
    <3>1. edits' \subseteq edits /\ applied' \subseteq applied \cup edits
      BY <1>7, <2>4 DEF HostStep, Key, ReuseTested, AskKey, PassKey, GiveUp, Receive, ApplyEdit,
         Decide, Focus, Cancel, Remove, Log, histVars
    <3> QED BY <2>1, <2>2, <3>1, <1>1
  <2> QED BY <2>3, <2>4
<1> QED BY <1>2, <1>3, <1>4, <1>5, <1>6, <1>7 DEF Next, Engine, Subscription, HostStep

\* The gate stays, closes, or opens for a connection there never was.
LEMMA GateSteps ==
    ASSUME TypeOK, Counted, JobIsServed, SessionsAreOpened, Next
    PROVE  \/ live' \in {live, 0} /\ connections' = connections
           \/ Connected /\ live' = connections' /\ connections' = connections + 1
<1>1. CASE HostStep BY <1>1, HostLeaves
<1>2. CASE Subscription
  BY <1>2 DEF Subscription, Forward, SubscriptionEnds, Invalidate, gateVars, boundVars
<1>3. CASE Engine
  BY <1>3 DEF Engine, ServeOpen, ServeKey, ServeCommand, Refuse, Push, Lose, workerSide,
              gateVars, boundVars
<1>4. CASE TakeCommand BY <1>4 DEF TakeCommand, boundVars
<1>5. CASE Connected BY <1>5 DEF Connected
<1>6. CASE Worker /\ ~TakeCommand /\ ~Connected
  BY <1>6 DEF Worker, ExpireKey, ConnectFails, StampToken, Prepare, SessionOpened,
         ModeRestored, AnswerKey, ContextDone, RequestFails, Timeout, Disconnect,
         Invalidate, gateVars, boundVars
<1> QED BY <1>1, <1>2, <1>3, <1>4, <1>5, <1>6 DEF Next, HostStep

-----------------------------------------------------------------------------
(* Keys given up.                                                          *)

\* The key the host waits for, the keys asked, and what their replies may do.
AskIsKnown ==
    /\ host = "idle" <=> ask.ask = 0
    /\ ask.ask \notin abandoned /\ ask.ask <= asks
    /\ ask.kind # "none" => ask.kind = "reply" /\ ask.token.epoch \in 1..connections
    /\ host \in {"answered", "drained"} => ask.kind = "reply"

CommandsAreAsked ==
    /\ \A i \in DOMAIN commands : commands[i].ask <= asks
    /\ job.ask <= asks
    /\ job.kind # "key" => job.ask = 0

AbandonedJob ==
    job.ask \in abandoned =>
        /\ job.at = "connecting" => cut
        /\ job.at = "stamp" => live = 0
        /\ job.at \in Phases => Dead(job.token)

AbandonedReplies == \A r \in OnTheWay : r.ask \in abandoned => Dead(r.token)

AppliedAreKept ==
    /\ \A r \in OnTheWay \cup applied : r.ask <= asks
    /\ host \in {"waiting", "answered"} => \A r \in applied : r.ask # ask.ask

\* AbandonedIsDead is its parts.
LEMMA AbandonedParts ==
    AbandonedIsDead <=> AskIsKnown /\ CommandsAreAsked /\ AbandonedJob /\ AbandonedReplies
                        /\ AppliedAreKept
BY DEF AbandonedIsDead, AskIsKnown, CommandsAreAsked, AbandonedJob, AbandonedReplies,
       AppliedAreKept

\* So it is in the next state.
LEMMA AbandonedPartsNext ==
    AbandonedIsDead' <=> AskIsKnown' /\ CommandsAreAsked' /\ AbandonedJob' /\ AbandonedReplies'
                         /\ AppliedAreKept'
BY DEF AbandonedIsDead, AskIsKnown, CommandsAreAsked, AbandonedJob, AbandonedReplies,
       AppliedAreKept

\* Keys are only given up with the gate closed.
LEMMA AbandonedGrows ==
    ASSUME TypeOK, Counted, Next
    PROVE  /\ abandoned' = abandoned
              \/ (GiveUp /\ abandoned' = abandoned \cup {ask.ask} /\ live' = 0 /\ cut')
           /\ asks \in Nat /\ asks' \in Nat /\ asks <= asks'
           /\ asks' = asks \/ (AskKey /\ asks' = asks + 1)
<1>1. asks \in Nat /\ asks + 1 \in Nat BY DEF Counted
<1>2. CASE TakeCommand BY <1>1, <1>2 DEF TakeCommand, hostSide, histVars, boundVars
<1>3. CASE Worker /\ ~TakeCommand
  BY <1>1, <1>3 DEF Worker, ExpireKey, Connected, ConnectFails, StampToken, Prepare,
     SessionOpened, ModeRestored, AnswerKey, ContextDone, RequestFails, Timeout, Disconnect,
     hostSide, histVars, boundVars
<1>4. CASE Engine \/ Subscription
  <2>1. CASE Engine
    <3>1. abandoned' = abandoned /\ asks' = asks
      BY <2>1 DEF Engine, ServeOpen, ServeKey, ServeCommand, Refuse, Push, Lose, hostSide,
         histVars, boundVars
    <3> QED BY <1>1, <3>1
  <2>2. CASE Subscription
    BY <1>1, <2>2 DEF Subscription, Forward, SubscriptionEnds, hostSide, histVars, boundVars
  <2> QED BY <1>4, <2>1, <2>2
<1>5. CASE AskKey BY <1>1, <1>5 DEF AskKey, histVars
<1>6. CASE GiveUp BY <1>1, <1>6 DEF GiveUp, Invalidate, boundVars
<1>7. CASE Key /\ ~AskKey /\ ~GiveUp
  BY <1>1, <1>7 DEF Key, ReuseTested, PassKey, Receive, Drain, ApplyEdit, Decide, boundVars,
     histVars
<1>8. CASE Focus \/ Cancel \/ Remove \/ Log
  BY <1>1, <1>8 DEF Focus, Cancel, Remove, Log, boundVars, histVars
<1> QED BY <1>2, <1>3, <1>4, <1>5, <1>6, <1>7, <1>8 DEF Next

\* Every step keeps what is known of the key the host waits for.
LEMMA AskKnown ==
    ASSUME TypeOK, Counted, JobIsServed, SessionsAreOpened, AnswerFits, AskIsKnown, Next
    PROVE  AskIsKnown'
<1> USE TypeOKParts
<1>0. asks \in Nat /\ abandoned \subseteq 1..asks /\ ask.ask \in Nat
  BY DEF Counted, HostTyped, Replies
<1>12. \A n \in 1..connections : n \in 1..connections'
  <2>1. connections \in Nat /\ connections + 1 \in Nat BY DEF Counted
  <2>2. connections' \in {connections, connections + 1} BY GateSteps
  <2> QED BY <2>1, <2>2
<1>1. CASE UNCHANGED <<host, ask, asks, abandoned>> BY <1>1, <1>12 DEF AskIsKnown
<1>2. CASE AnswerKey
  <2>1. /\ answer.kind = "reply" /\ ask' = answer /\ ask.ask = job.ask /\ job.at = "asking"
        /\ UNCHANGED <<host, asks, abandoned>>
    BY <1>2 DEF AnswerKey, boundVars, histVars
  <2>2. answer.ask = job.ask /\ answer.token.epoch # 0 /\ answer.token.epoch \in {0, conn}
    BY <2>1 DEF AnswerFits, JobIsServed, Asked, Phases, NoAnswer
  <2>3. conn \in Nat /\ connections \in Nat /\ conn <= connections BY DEF Counted, ConnTyped
  <2>4. answer.token.epoch \in 1..connections BY <2>2, <2>3
  <2>5. answer.token.epoch \in 1..connections' BY <2>4, <1>12
  <2> QED BY <2>1, <2>2, <2>5 DEF AskIsKnown
<1>3. CASE Worker /\ ~AnswerKey
  <2>1. CASE TakeCommand
    BY <2>1, <1>1 DEF TakeCommand, hostSide, histVars, keyVars, boundVars
  <2>2. CASE ~TakeCommand
    BY <1>3, <2>2, <1>1 DEF Worker, ExpireKey, Connected, ConnectFails, StampToken, Prepare,
       SessionOpened, ModeRestored, ContextDone, RequestFails, Timeout, Disconnect,
       hostSide, histVars, keyVars, boundVars
  <2> QED BY <2>1, <2>2
<1>4. CASE Engine \/ Subscription
  BY <1>4, <1>1 DEF Engine, ServeOpen, ServeKey, ServeCommand, Refuse, Push, Lose, Subscription,
     Forward, SubscriptionEnds, hostSide, histVars, keyVars, boundVars
<1>5. CASE AskKey
  <2>1. /\ host' = "waiting" /\ ask'.ask = asks + 1 /\ asks' = asks + 1
        /\ ask'.kind = "none" /\ abandoned' = abandoned
    BY <1>5 DEF AskKey, histVars, NoAnswer
  <2>2. asks + 1 # 0 /\ asks + 1 \notin abandoned BY <1>0
  <2> QED BY <2>1, <2>2, <1>0 DEF AskIsKnown
<1>6. CASE GiveUp
  <2>1. /\ host = "waiting" /\ host' = "idle" /\ ask'.ask = 0 /\ ask'.kind = "none"
        /\ abandoned' = abandoned \cup {ask.ask} /\ asks' = asks
    BY <1>6 DEF GiveUp, NoAnswer, boundVars
  <2>2. 0 \notin abandoned' BY <2>1, <1>0 DEF AskIsKnown
  <2> QED BY <2>1, <2>2, <1>0 DEF AskIsKnown
<1>7. CASE Receive
  BY <1>7, <1>12 DEF Receive, AskIsKnown, boundVars, histVars
<1>8. CASE Drain
  BY <1>8, <1>12 DEF Drain, AskIsKnown, boundVars, histVars
<1>9. CASE Decide
  <2>1. /\ host' = "idle" /\ ask'.ask = 0 /\ ask'.kind = "none" /\ asks' = asks
        /\ abandoned' = abandoned
    BY <1>9 DEF Decide, NoAnswer, boundVars
  <2> QED BY <2>1, <1>0 DEF AskIsKnown
<1>10. CASE ReuseTested \/ PassKey \/ ApplyEdit
  BY <1>1, <1>10 DEF ReuseTested, PassKey, ApplyEdit, boundVars, histVars, keyVars
<1>11. CASE Focus \/ Cancel \/ Remove \/ Log
  BY <1>1, <1>11 DEF Focus, Cancel, Remove, Log, histVars, keyVars
<1> QED
  BY <1>2, <1>3, <1>4, <1>5, <1>6, <1>7, <1>8, <1>9, <1>10, <1>11 DEF Next, Key

\* A command that the worker takes was not given up: its deadline is what gives up
\* a key, and a key past its deadline is dropped.
LEMMA TakeStays ==
    ASSUME TypeOK, Counted, QueueIsKnown, GateIsOwned, AskIsKnown, CommandsAreAsked,
           TakeCommand
    PROVE  /\ job'.ask \notin abandoned /\ job'.ask <= asks
           /\ job'.kind # "key" => job'.ask = 0
<1> USE TypeOKParts
<1>1. PICK h \in Jobs :
        /\ h = Head(commands) /\ h = commands[1] /\ 1 \in DOMAIN commands
        /\ job' = Idle \/ (job'.kind = h.kind /\ job'.ask = h.ask)
  BY Taken
<1>2. abandoned \subseteq 1..MaxAsks /\ MaxAsks \in Nat
  BY ConstantsAssumption DEF HistTyped
<1>3. 0 \notin abandoned BY <1>2
<1>4. h.ask \in Nat /\ h.ask <= asks BY <1>1 DEF CommandsAreAsked, Jobs
<1>5. h.kind # "key" => h.ask = 0 BY <1>1 DEF QueueIsKnown
<1>6. h.kind = "key" => h.ask = ask.ask BY <1>1 DEF TakeCommand
<1>7. CASE job' = Idle
  <2>1. 0 <= asks BY DEF Counted
  <2> QED BY <1>7, <1>3, <2>1 DEF Idle
<1>8. CASE job'.kind = h.kind /\ job'.ask = h.ask
  BY <1>8, <1>3, <1>4, <1>5, <1>6 DEF AskIsKnown
<1> QED BY <1>1, <1>7, <1>8

\* No command is of a key not asked yet.
LEMMA CommandsAsked ==
    ASSUME TypeOK, TypeOK', Counted, QueueIsKnown, GateIsOwned, AskIsKnown, CommandsAreAsked,
           JobStays \/ TakeCommand, Next
    PROVE  CommandsAreAsked'
<1> USE TypeOKParts
<1>0. asks \in Nat /\ asks' \in Nat /\ asks <= asks' BY AbandonedGrows
<1>1. /\ \A i \in DOMAIN commands : commands[i].ask \in Nat
      /\ \A i \in DOMAIN commands' : commands'[i].ask \in Nat
      /\ job.ask \in Nat
  <2>1. commands \in Seq(Jobs) /\ job \in Jobs BY DEF GateTyped, ConnTyped
  <2>2. commands' \in Seq(Jobs) BY TypeOKPartsNext DEF GateTyped
  <2>3. \A j \in Jobs : j.ask \in Nat BY DEF Jobs
  <2>4. \A i \in DOMAIN commands : commands[i] \in Jobs BY <2>1
  <2>5. \A i \in DOMAIN commands' : commands'[i] \in Jobs BY <2>2
  <2> QED BY <2>1, <2>3, <2>4, <2>5
<1>2. job'.ask <= asks' /\ (job'.kind # "key" => job'.ask = 0)
  <2>1. CASE TakeCommand
    <3>1. job'.ask <= asks /\ (job'.kind # "key" => job'.ask = 0) BY <2>1, TakeStays
    <3>2. asks' = asks BY <2>1 DEF TakeCommand, boundVars
    <3> QED BY <3>1, <3>2
  <2>2. CASE job' = Idle BY <2>2, <1>0 DEF Idle
  <2>3. CASE job'.kind = job.kind /\ job'.ask = job.ask
    BY <2>3, <1>0, <1>1 DEF CommandsAreAsked
  <2> QED BY <2>1, <2>2, <2>3 DEF JobStays
<1>3. ASSUME NEW i \in DOMAIN commands' PROVE commands'[i].ask <= asks'
  <2>1. CASE commands' = commands BY <2>1, <1>0, <1>1, <1>3 DEF CommandsAreAsked
  <2>2. CASE commands # <<>> /\ commands' = Tail(commands)
    <3>1. i + 1 \in DOMAIN commands /\ commands'[i] = commands[i + 1]
      BY <1>3, <2>2, TailCommands
    <3> QED BY <3>1, <1>0, <1>1 DEF CommandsAreAsked
  <2>3. CASE Enqueue
    <3>1. PICK cs \in Seq(Jobs) : Lengthened(cs) /\ FitsQueue(cs)
      BY <2>3, Enqueues DEF EnqueueShape, Enqueued
    <3>2. \/ i \in DOMAIN commands /\ commands'[i] = commands[i]
          \/ /\ i - Len(commands) \in 1..Len(cs)
             /\ commands'[i] = cs[i - Len(commands)]
      BY <1>3, <3>1, OldAndNew
    <3>3. \A k \in 1..Len(cs) : cs[k].ask <= asks' BY <3>1 DEF FitsQueue
    <3> QED BY <3>2, <3>3, <1>0, <1>1 DEF CommandsAreAsked
  <2>4. commands' = commands \/ (commands # <<>> /\ commands' = Tail(commands)) \/ Enqueue
    <3>1. CASE Worker
      BY <3>1 DEF Worker, ExpireKey, TakeCommand, Connected, ConnectFails, StampToken, Prepare,
         SessionOpened, ModeRestored, AnswerKey, ContextDone, RequestFails, Timeout, Disconnect
    <3>2. CASE Engine
      BY <3>2 DEF Engine, ServeOpen, ServeKey, ServeCommand, Refuse, Push, Lose, workerSide
    <3>3. CASE Subscription BY <3>3 DEF Subscription, Forward, SubscriptionEnds
    <3>4. CASE HostStep
      BY <3>4 DEF HostStep, Enqueue, Key, ReuseTested, PassKey, GiveUp, Receive, Drain,
         ApplyEdit, Decide
    <3> QED BY <3>1, <3>2, <3>3, <3>4 DEF Next, HostStep
  <2> QED BY <2>1, <2>2, <2>3, <2>4
<1> QED BY <1>2, <1>3 DEF CommandsAreAsked

\* A key given up while the worker has it has closed the gate behind its token.
LEMMA AbandonedJobStep ==
    ASSUME TypeOK, Counted, QueueIsKnown, GateIsOwned, JobIsServed, SessionsAreOpened, AskIsKnown,
           CommandsAreAsked, AbandonedJob, Next
    PROVE  AbandonedJob'
<1> USE TypeOKParts
<1>0. 0 \notin abandoned /\ job \in Jobs
  <2>1. abandoned \subseteq 1..MaxAsks /\ MaxAsks \in Nat BY ConstantsAssumption DEF HistTyped
  <2>2. 0 \notin abandoned BY <2>1
  <2> QED BY <2>2 DEF ConnTyped
<1>1. CASE HostStep
  <2>1. job' = job BY <1>1, HostLeaves DEF wire
  <2>2. \/ live' = live /\ cut' = cut
        \/ live' = 0 /\ cut' = TRUE
    BY <1>1, HostLeaves
  <2>3. CASE live' = 0 /\ cut' = TRUE BY <2>1, <2>3 DEF AbandonedJob, Dead
  <2>4. CASE abandoned' = abandoned /\ live' = live /\ cut' = cut
    BY <2>1, <2>4 DEF AbandonedJob, Dead
  <2> QED BY <2>2, <2>3, <2>4, AbandonedGrows
<1>2. CASE Subscription
  <2>1. /\ job' = job /\ abandoned' = abandoned
        /\ \/ live' = live /\ cut' = cut
           \/ live' = 0 /\ cut' = TRUE
    BY <1>2 DEF Subscription, Forward, SubscriptionEnds, Invalidate, gateVars, hostSide, histVars
  <2> QED BY <2>1 DEF AbandonedJob, Dead
<1>3. CASE Engine
  <2>1. UNCHANGED <<live, cut, job, abandoned>>
    BY <1>3 DEF Engine, ServeOpen, ServeKey, ServeCommand, Refuse, Push, Lose, workerSide,
       gateVars, hostSide, histVars
  <2> QED BY <2>1 DEF AbandonedJob, Dead
<1>4. CASE TakeCommand
  <2>1. job'.ask \notin abandoned /\ abandoned' = abandoned
    BY <1>4, TakeStays DEF TakeCommand, hostSide, histVars
  <2> QED BY <2>1 DEF AbandonedJob
<1>5. CASE Worker /\ ~TakeCommand
  <2>0. abandoned' = abandoned
    BY <1>5 DEF Worker, ExpireKey, Connected, ConnectFails, StampToken, Prepare, SessionOpened,
       ModeRestored, AnswerKey, ContextDone, RequestFails, Timeout, Disconnect, hostSide, histVars
  <2>1. CASE job' = Idle BY <2>0, <2>1, <1>0 DEF AbandonedJob, Idle
  <2>2. CASE ExpireKey BY <2>0, <2>2 DEF ExpireKey, AbandonedJob, Dead, gateVars
  <2>3. CASE Connected /\ job' # Idle
    <3>1. ~cut /\ job.at = "connecting" BY <2>3 DEF Connected
    <3>2. job'.ask = job.ask
      <4>1. job' = [job EXCEPT !.at = "stamp"] BY <2>3 DEF Connected
      <4> QED BY <4>1, <1>0, JobMoves
    <3> QED BY <2>0, <3>1, <3>2 DEF AbandonedJob
  <2>4. CASE StampToken
    <3>1. /\ job'.ask = job.ask /\ job'.at = "prepare" /\ job'.token.epoch = live
          /\ live' = live /\ job.at = "stamp"
      BY <2>4, <1>0 DEF StampToken, Jobs, Tokens, gateVars
    <3> QED BY <2>0, <3>1 DEF AbandonedJob, Dead
  <2>5. CASE (Prepare \/ SessionOpened \/ ModeRestored) /\ job' # Idle
    <3>1. /\ live' = live /\ job.at \in Phases
          /\ Send(job.kind, "asking") \/ Send("open", "opening") \/ Send("set_ascii", "restoring")
      BY <2>5 DEF Prepare, SessionOpened, ModeRestored, gateVars, Phases
    <3>2. /\ job'.ask = job.ask /\ job'.token = job.token
          /\ job'.at \notin {"connecting", "stamp"}
      <4>1. job.kind \in Kinds BY <1>0 DEF Jobs
      <4> QED BY <3>1, <4>1, SendTyped
    <3> QED BY <2>0, <3>1, <3>2 DEF AbandonedJob, Dead
  <2>6. job' = Idle \/ ExpireKey \/ Connected \/ StampToken \/ Prepare \/ SessionOpened
        \/ ModeRestored
    BY <1>5 DEF Worker, ConnectFails, AnswerKey, ContextDone, RequestFails, Timeout, Disconnect
  <2> QED BY <2>1, <2>2, <2>3, <2>4, <2>5, <2>6
<1> QED BY <1>1, <1>2, <1>3, <1>4, <1>5 DEF Next, HostStep

\* What an engine's step publishes is of a context with a session, and of the
\* key asked, if of any.
LEMMA WhatIsPublished ==
    ASSUME TypeOK, GateIsOwned, JobIsServed, SessionsAreOpened, EnginePublishes
    PROVE  \E r \in Replies, c \in Contexts :
             /\ up /\ session[c] # NoSession /\ r.token.context = c /\ r.token.epoch = conn
             /\ conn # 0
             /\ \/ r.token = session[c].token /\ r.ask = 0
                \/ r.token = job.token /\ r.ask = job.ask /\ job.at \in Phases
             /\ session'[c] = NoSession =>
                   /\ job.at = "asking" /\ job.kind = "destroy" /\ job.token.context = c
                   /\ answer'.kind = "reply"
             /\ session'[c] # NoSession => session'[c].revision = r.revision
             /\ \A d \in Contexts : d # c => session'[d] = session[d]
             /\ session[c].revision <= r.revision
             /\ \/ sent' = sent
                \/ sent' = sent \cup {r} /\ r.revision = session[c].revision + 1
             /\ stream' = Append(stream, r) \/ stream' = stream
             /\ subscribed => stream' = Append(stream, r)
             /\ OnTheWay' \subseteq OnTheWay \cup {r}
             /\ UNCHANGED <<workerSide, conn, up, contextVars, edits, keyVars, applied,
                            abandoned, connections, asks>>
<1> USE TypeOKParts
<1>0. stream \in Seq(Replies) /\ session \in [Contexts -> Sessions]
  BY DEF ConnTyped, EngineTyped
<1>1. PICK r \in Replies, c \in Contexts :
        /\ up /\ session[c] # NoSession /\ r.token.context = c
        /\ r.kind = "reply" /\ r.token.epoch = conn
        /\ \/ r.token = session[c].token /\ r.ask = 0 /\ answer' = answer
              /\ session'[c] # NoSession
           \/ /\ r.token = request.token /\ r.ask = request.ask /\ answer' = r
              /\ Pending /\ request.kind # "open" /\ Observed(request.token)
              /\ session'[c] = NoSession <=> request.kind = "destroy"
        /\ session[c].revision <= r.revision
        /\ \/ sent' = sent
           \/ sent' = sent \cup {r} /\ r.revision = session[c].revision + 1
        /\ \/ session' = [session EXCEPT ![c] = [token |-> r.token, revision |-> r.revision]]
           \/ session' = [session EXCEPT ![c] = NoSession]
        /\ Publish(r)
        /\ UNCHANGED <<workerSide, conn, up, subscribed, opened, request, focused,
                       contextVars, edits, keyVars, applied, abandoned, passed,
                       connections, asks>>
  BY DEF EnginePublishes
<1>2. \/ r.token = session[c].token /\ r.ask = 0
      \/ r.token = job.token /\ r.ask = job.ask /\ job.at \in Phases
  <2>1. Pending => request.token = job.token /\ request.ask = job.ask /\ job.at \in Phases
    BY DEF Pending, JobIsServed, Asked, Phases
  <2> QED BY <1>1, <2>1
<1>3. session'[c] = NoSession =>
         /\ job.at = "asking" /\ job.kind = "destroy" /\ job.token.context = c
         /\ answer'.kind = "reply"
  <2>1. ASSUME session'[c] = NoSession
        PROVE  /\ request.kind = "destroy" /\ Pending /\ answer'.kind = "reply"
               /\ request.token.context = c
    BY <1>1, <2>1
  <2>2. Pending /\ request.kind = "destroy" => job.at = "asking" /\ job.kind = "destroy"
        /\ request.token = job.token
    BY DEF Pending, JobIsServed, Asked
  <2> QED BY <2>1, <2>2
<1>4. session'[c] # NoSession => session'[c].revision = r.revision
  <2>1. session'[c] \in {NoSession, [token |-> r.token, revision |-> r.revision]}
    BY <1>1, <1>0
  <2> QED BY <2>1
<1>5. \A d \in Contexts : d # c => session'[d] = session[d] BY <1>1, <1>0
<1>6. stream' \in {Append(stream, r), stream} /\ (subscribed => stream' = Append(stream, r))
  BY <1>1 DEF Publish
<1>7. OnTheWay' \subseteq OnTheWay \cup {r}
  <2>1. Elements(Append(stream, r)) = Elements(stream) \cup {r} BY <1>0, ElementsOf
  <2>2. Elements(stream') \subseteq Elements(stream) \cup {r} BY <1>6, <2>1
  <2>3. updates' = updates /\ edits' = edits BY <1>1 DEF workerSide
  <2> QED BY <2>2, <2>3 DEF OnTheWay
<1>8. conn # 0 BY <1>1 DEF GateIsOwned
<1> QED BY <1>1, <1>2, <1>3, <1>4, <1>5, <1>6, <1>7, <1>8

\* A reply to a key that was given up is of a closed gate.
LEMMA AbandonedRepliesStep ==
    ASSUME TypeOK, Counted, GateIsOwned, JobIsServed, SessionsAreOpened, AbandonedJob,
           AbandonedReplies, RepliesAreKnown, Next
    PROVE  AbandonedReplies'
<1>1. CASE live' = 0 BY <1>1 DEF AbandonedReplies, Dead
<1>2. CASE RepliesMoveOn /\ live' = live /\ abandoned' = abandoned
  BY <1>2 DEF RepliesMoveOn, AbandonedReplies, Dead
<1>3. CASE RepliesMoveOn /\ Connected
  <2>1. live' = connections + 1 /\ abandoned' = abandoned /\ connections \in Nat
    BY <1>3 DEF Connected, hostSide, histVars, Counted
  <2>2. \A r \in OnTheWay : r.token.epoch \in 1..connections
    BY DEF RepliesAreKnown, Published
  <2>3. \A r \in OnTheWay : r.token.epoch # live' BY <2>1, <2>2
  <2> QED BY <1>3, <2>1, <2>3 DEF RepliesMoveOn, AbandonedReplies, Dead
<1>4. CASE EnginePublishes
  <2>1. PICK r \in Replies, c \in Contexts :
          /\ session[c] # NoSession
          /\ \/ r.token = session[c].token /\ r.ask = 0
             \/ r.token = job.token /\ r.ask = job.ask /\ job.at \in Phases
          /\ OnTheWay' \subseteq OnTheWay \cup {r}
          /\ abandoned' = abandoned /\ UNCHANGED workerSide
    BY <1>4, WhatIsPublished
  <2>2. r.ask \in abandoned => Dead(r.token)
    <3>1. 0 \notin abandoned
      <4>1. abandoned \subseteq 1..asks /\ asks \in Nat BY DEF Counted
      <4> QED BY <4>1
    <3> QED BY <2>1, <3>1 DEF AbandonedJob
  <2> QED BY <2>1, <2>2 DEF AbandonedReplies, Dead, workerSide, gateVars
<1> QED BY <1>1, <1>2, <1>3, <1>4, RepliesMove, AbandonedGrows, GateSteps

\* A reply is applied while the host waits for none, and only under its token.
LEMMA AppliesOne ==
    ASSUME TypeOK, Counted, GateIsOwned, JobIsServed, SessionsAreOpened, Next
    PROVE  \/ applied' = applied
           \/ \E r \in edits : /\ applied' = applied \cup {r} /\ Matches(r.token)
                               /\ host \in {"idle", "drained"} /\ UNCHANGED keyVars
                               /\ ApplyEdit
<1>1. CASE EnginePublishes
  BY <1>1, WhatIsPublished
<1>2. CASE Worker
  BY <1>2, WorkerMovesNone
<1>3. CASE ServeOpen \/ Refuse \/ Lose \/ Subscription
  BY <1>3 DEF ServeOpen, Refuse, Lose, Subscription, Forward, SubscriptionEnds, hostSide, histVars
<1>4. CASE HostStep /\ ~ApplyEdit
  BY <1>4 DEF HostStep, Key, ReuseTested, AskKey, PassKey, GiveUp, Receive, Drain, Decide,
     Focus, Cancel, Remove, Log, histVars
<1>5. CASE ApplyEdit BY <1>5 DEF ApplyEdit
<1> QED BY <1>1, <1>2, <1>3, <1>4, <1>5, ServesPublish DEF Next, Engine, HostStep

\* The key the host waits for is the one it asked.
LEMMA HostWaits ==
    ASSUME JobIsServed, AnswerFits, Next, host' \in {"waiting", "answered"}
    PROVE  \/ AskKey
           \/ host \in {"waiting", "answered"} /\ ask'.ask = ask.ask
<1>1. CASE AnswerKey
  <2>1. /\ answer.kind = "reply" /\ ask' = answer /\ ask.ask = job.ask /\ job.at = "asking"
        /\ host' = host
    BY <1>1 DEF AnswerKey
  <2>2. answer.ask = job.ask
    BY <2>1 DEF AnswerFits, JobIsServed, Asked, NoAnswer
  <2> QED BY <2>1, <2>2
<1>2. CASE Worker /\ ~AnswerKey
  <2>1. UNCHANGED <<host, ask>>
    <3>1. CASE TakeCommand BY <3>1 DEF TakeCommand, hostSide, keyVars
    <3>2. CASE ~TakeCommand
      BY <1>2, <3>2 DEF Worker, ExpireKey, Connected, ConnectFails, StampToken, Prepare,
         SessionOpened, ModeRestored, ContextDone, RequestFails, Timeout, Disconnect,
         hostSide, keyVars
    <3> QED BY <3>1, <3>2
  <2> QED BY <2>1
<1>3. CASE Engine \/ Subscription
  <2>1. UNCHANGED <<host, ask>>
    BY <1>3 DEF Engine, ServeOpen, ServeKey, ServeCommand, Refuse, Push, Lose, Subscription,
       Forward, SubscriptionEnds, hostSide, keyVars
  <2> QED BY <2>1
<1>4. CASE Key
  BY <1>4 DEF Key, ReuseTested, PassKey, GiveUp, Receive, Drain, ApplyEdit, Decide, keyVars
<1>5. CASE Focus \/ Cancel \/ Remove \/ Log
  BY <1>5 DEF Focus, Cancel, Remove, Log, keyVars
<1> QED BY <1>1, <1>2, <1>3, <1>4, <1>5 DEF Next

\* While the host waits no reply to its key was applied.
LEMMA AppliedKept ==
    ASSUME TypeOK, Counted, GateIsOwned, JobIsServed, SessionsAreOpened, AnswerFits,
           AskIsKnown, CommandsAreAsked, AppliedAreKept, Next
    PROVE  AppliedAreKept'
<1> USE TypeOKParts
<1>0. /\ asks \in Nat /\ asks' \in Nat /\ asks <= asks'
      /\ asks' = asks \/ (AskKey /\ asks' = asks + 1)
  BY AbandonedGrows
<1>1. /\ \A r \in Replies : r.ask \in Nat
      /\ job.ask \in Nat
  BY DEF ConnTyped, Replies, Jobs
<1>2. OnTheWay \subseteq Replies /\ applied \subseteq Replies
  <2>1. Elements(stream) \subseteq Replies
    <3>1. stream \in Seq(Replies) BY DEF ConnTyped
    <3> QED BY <3>1 DEF Elements
  <2>2. Elements(updates) \subseteq Replies
    <3>1. updates \in Seq(Replies) BY DEF GateTyped
    <3> QED BY <3>1 DEF Elements
  <2> QED BY <2>1, <2>2 DEF OnTheWay, HostTyped, HistTyped
<1>3. \A r \in OnTheWay' \cup applied' : r.ask <= asks'
  <2>1. CASE RepliesMoveOn
    <3>1. OnTheWay' \cup applied' \subseteq OnTheWay \cup applied
      BY <2>1 DEF RepliesMoveOn, OnTheWay
    <3>2. \A r \in OnTheWay \cup applied : r.ask <= asks /\ r.ask \in Nat
      BY <1>1, <1>2 DEF AppliedAreKept
    <3>3. \A r \in OnTheWay \cup applied : r.ask <= asks' BY <3>2, <1>0
    <3> QED BY <3>1, <3>3
  <2>2. CASE EnginePublishes
    <3>1. PICK r \in Replies :
            /\ r.ask = 0 \/ r.ask = job.ask
            /\ OnTheWay' \subseteq OnTheWay \cup {r}
            /\ applied' = applied /\ asks' = asks
      BY <2>2, WhatIsPublished
    <3>2. r.ask <= asks BY <3>1, <1>0 DEF CommandsAreAsked
    <3> QED BY <3>1, <3>2 DEF AppliedAreKept
  <2> QED BY <2>1, <2>2, RepliesMove
<1>4. ASSUME host' \in {"waiting", "answered"}, NEW r \in applied'
      PROVE  r.ask # ask'.ask
  <2>1. applied' = applied
    BY <1>4, AppliesOne DEF keyVars
  <2>2. r.ask <= asks /\ r.ask \in Nat BY <2>1, <1>1, <1>2, <1>4 DEF AppliedAreKept
  <2>3. CASE AskKey
    <3>1. ask'.ask = asks + 1 BY <2>3 DEF AskKey, NoAnswer
    <3> QED BY <3>1, <2>2, <1>0
  <2>4. CASE host \in {"waiting", "answered"} /\ ask'.ask = ask.ask
    BY <2>1, <2>4, <1>4 DEF AppliedAreKept
  <2> QED BY <2>3, <2>4, <1>4, HostWaits
<1> QED BY <1>3, <1>4 DEF AppliedAreKept

\* Every step keeps the keys given up dead.
LEMMA AbandonedStep ==
    ASSUME TypeOK, TypeOK', Counted, GateIsOwned, JobIsServed, AnswerFits, SessionsAreOpened,
           QueueIsKnown, AbandonedIsDead, RepliesAreKnown, Next
    PROVE  AbandonedIsDead'
<1> USE AbandonedParts
<1>1. AskIsKnown' BY AskKnown
<1>2. CommandsAreAsked' BY CommandsAsked, JobKeepsItsToken
<1>3. AbandonedJob' BY AbandonedJobStep
<1>4. AbandonedReplies' BY AbandonedRepliesStep
<1>5. AppliedAreKept' BY AppliedKept
<1> QED BY <1>1, <1>2, <1>3, <1>4, <1>5, AbandonedPartsNext

\* And so no reply to such a key is applied.
LEMMA SilentStep ==
    ASSUME TypeOK, Counted, GateIsOwned, JobIsServed, SessionsAreOpened, AbandonedIsDead,
           RepliesAreKnown, AbandonedIsSilent, Next
    PROVE  AbandonedIsSilent'
<1>1. CASE GiveUp
  <2>1. host = "waiting" /\ abandoned' = abandoned \cup {ask.ask} /\ applied' = applied
    BY <1>1 DEF GiveUp
  <2> QED BY <2>1 DEF AbandonedIsSilent, AbandonedIsDead
<1>2. CASE abandoned' = abandoned /\ applied' = applied
  BY <1>2 DEF AbandonedIsSilent
<1>3. CASE abandoned' = abandoned /\ applied' # applied
  <2>1. PICK r \in edits : applied' = applied \cup {r} /\ Matches(r.token)
    BY <1>3, AppliesOne
  <2>2. r \in OnTheWay BY DEF OnTheWay
  <2>3. r.token.epoch # 0 BY <2>2 DEF RepliesAreKnown, Published
  <2>4. r.token.epoch = live
    BY <2>1 DEF Matches, Token
  <2>5. r.ask \notin abandoned BY <2>2, <2>3, <2>4 DEF AbandonedIsDead, Dead
  <2> QED BY <1>3, <2>1, <2>5 DEF AbandonedIsSilent
<1> QED BY <1>1, <1>2, <1>3, AbandonedGrows

-----------------------------------------------------------------------------
(* A key asked is in one place.                                            *)

Dequeue == commands # <<>> /\ commands' = Tail(commands)

\* What a step makes of the queue.
LEMMA QueueSteps ==
    ASSUME Next
    PROVE  commands' = commands \/ Dequeue \/ Enqueue
<1>1. CASE Worker
  BY <1>1 DEF Dequeue, Worker, ExpireKey, TakeCommand, Connected, ConnectFails, StampToken, Prepare,
     SessionOpened, ModeRestored, AnswerKey, ContextDone, RequestFails, Timeout, Disconnect
<1>2. CASE Engine
  BY <1>2 DEF Engine, ServeOpen, ServeKey, ServeCommand, Refuse, Push, Lose, workerSide
<1>3. CASE Subscription BY <1>3 DEF Subscription, Forward, SubscriptionEnds
<1>4. CASE HostStep
  BY <1>4 DEF HostStep, Enqueue, Key, ReuseTested, PassKey, GiveUp, Receive, Drain,
     ApplyEdit, Decide
<1> QED BY <1>1, <1>2, <1>3, <1>4 DEF Next, HostStep

\* What a step makes of the key the host waits for.
LEMMA AskSteps ==
    ASSUME JobIsServed, AnswerFits, Next
    PROVE  \/ ask' = ask
           \/ AnswerKey /\ ask'.ask = job.ask /\ job' = Idle /\ commands' = commands
           \/ ask'.kind = "none" /\ ask'.ask = 0 /\ job' = job /\ commands' = commands
           \/ AskKey /\ ask'.kind = "none"
<1>1. CASE AnswerKey
  <2>1. /\ answer.kind = "reply" /\ ask' = answer /\ job.at = "asking" /\ job' = Idle
        /\ commands' = commands
    BY <1>1 DEF AnswerKey
  <2>2. answer.ask = job.ask
    BY <2>1 DEF AnswerFits, JobIsServed, Asked, NoAnswer
  <2> QED BY <1>1, <2>1, <2>2
<1>2. CASE TakeCommand BY <1>2 DEF TakeCommand, hostSide, keyVars
<1>3. CASE Worker /\ ~AnswerKey /\ ~TakeCommand
  BY <1>3 DEF Worker, ExpireKey, Connected, ConnectFails, StampToken, Prepare,
     SessionOpened, ModeRestored, ContextDone, RequestFails, Timeout, Disconnect,
     hostSide, keyVars
<1>4. CASE Engine
  BY <1>4 DEF Engine, ServeOpen, ServeKey, ServeCommand, Refuse, Push, Lose, hostSide, keyVars
<1>5. CASE Subscription
  BY <1>5 DEF Subscription, Forward, SubscriptionEnds, hostSide, keyVars
<1>6. CASE AskKey BY <1>6 DEF AskKey, NoAnswer
<1>7. CASE Key /\ ~AskKey
  BY <1>7 DEF Key, ReuseTested, PassKey, GiveUp, Receive, Drain, ApplyEdit, Decide, keyVars,
     NoAnswer, wire
<1>8. CASE Focus \/ Cancel \/ Remove \/ Log
  BY <1>8 DEF Focus, Cancel, Remove, Log, keyVars
<1> QED BY <1>1, <1>2, <1>3, <1>4, <1>5, <1>6, <1>7, <1>8 DEF Next

\* The commands of a step are those before it, in their order, and new ones: a
\* key among these is a new key.
LEMMA AsksStep ==
    ASSUME TypeOK, Counted, CommandsAreAsked, Next, NEW i \in DOMAIN commands'
    PROVE  \/ commands'[i].ask = 0
           \/ AskKey /\ commands'[i].ask = asks + 1 /\ i = Len(commands) + 1
           \/ ~Dequeue /\ i \in DOMAIN commands /\ commands'[i] = commands[i]
           \/ Dequeue /\ i + 1 \in DOMAIN commands
              /\ commands'[i] = commands[i + 1]
<1>0. asks \in Nat BY DEF Counted
<1>1. CASE Dequeue BY <1>1, TailCommands DEF Dequeue
<1>2. CASE commands' = commands /\ ~Dequeue BY <1>2
<1>3. CASE Enqueue /\ ~Dequeue
  <2>1. PICK cs \in Seq(Jobs) : Lengthened(cs) /\ FitsQueue(cs)
    BY <1>3, Enqueues DEF EnqueueShape, Enqueued
  <2>2. \/ i \in DOMAIN commands /\ commands'[i] = commands[i]
        \/ /\ i - Len(commands) \in 1..Len(cs)
           /\ commands'[i] = cs[i - Len(commands)]
    BY <2>1, OldAndNew
  <2>3. CASE i - Len(commands) \in 1..Len(cs) /\ commands'[i] = cs[i - Len(commands)]
                /\ cs[i - Len(commands)].kind = "key"
    <3>1. /\ Len(cs) = 1 /\ commands'[i].ask = asks + 1 /\ asks' = asks + 1
      BY <2>1, <2>3 DEF FitsQueue
    <3>2. i - Len(commands) = 1 BY <2>3, <3>1
    <3>3. i \in Nat /\ Len(commands) \in Nat
      <4>1. commands \in Seq(Jobs) BY TypeOKParts DEF GateTyped
      <4> QED BY <4>1, <2>1, OldAndNew
    <3>4. i = Len(commands) + 1 BY <3>2, <3>3
    <3>5. AskKey BY <3>1, <1>0, AbandonedGrows
    <3> QED BY <3>1, <3>4, <3>5
  <2>4. CASE i - Len(commands) \in 1..Len(cs) /\ commands'[i] = cs[i - Len(commands)]
                /\ cs[i - Len(commands)].kind # "key"
    BY <2>1, <2>4 DEF FitsQueue
  <2> QED BY <1>3, <2>2, <2>3, <2>4
<1> QED BY <1>1, <1>2, <1>3, QueueSteps

\* A key is asked under a number of its own, and is in one place at a time.
LEMMA AskedOnceStep ==
    ASSUME TypeOK, TypeOK', Counted, QueueIsKnown, GateIsOwned, JobIsServed, AnswerFits,
           AskIsKnown, CommandsAreAsked, AskedOnce, Next
    PROVE  AskedOnce'
<1> USE TypeOKParts
<1>0. /\ asks \in Nat /\ asks + 1 \in Nat /\ ask.ask \in Nat /\ job.ask \in Nat
      /\ \A i \in DOMAIN commands : i \in Nat /\ commands[i].ask \in Nat
                                   /\ commands[i].ask # asks + 1
      /\ job.ask # asks + 1
  <2>1. asks \in Nat BY DEF Counted
  <2>2. ask.ask \in Nat BY DEF HostTyped, Replies
  <2>3. commands \in Seq(Jobs) /\ job \in Jobs BY DEF GateTyped, ConnTyped
  <2>4. \A j \in Jobs : j.ask \in Nat BY DEF Jobs
  <2>5. \A i \in DOMAIN commands : i \in Nat /\ commands[i] \in Jobs BY <2>3
  <2>6. \A i \in DOMAIN commands : commands[i].ask # asks + 1
    BY <2>1, <2>4, <2>5 DEF CommandsAreAsked
  <2>7. job.ask # asks + 1 BY <2>1, <2>3, <2>4 DEF CommandsAreAsked
  <2> QED BY <2>1, <2>2, <2>3, <2>4, <2>5, <2>6, <2>7
<1>1. ASSUME NEW i \in DOMAIN commands', NEW j \in DOMAIN commands', i # j,
             commands'[i].ask # 0
      PROVE  commands'[j].ask # commands'[i].ask
  <2>1. i \in Nat /\ j \in Nat
    <3>1. commands' \in Seq(Jobs) BY TypeOKPartsNext DEF GateTyped
    <3> QED BY <3>1
  <2>2. CASE commands'[j].ask = 0 BY <2>2, <1>1
  <2>3. CASE Dequeue /\ commands'[j].ask # 0
    <3>1. ~AskKey
      <4>1. SUFFICES ASSUME AskKey PROVE FALSE OBVIOUS
      <4>2. commands \in Seq(Jobs) /\ Len(commands') = Len(commands) - 1
        BY <2>3, TailOf DEF Dequeue, GateTyped
      <4>3. PICK x \in Jobs : commands' = Append(commands, x)
        <5>1. focused \in Contexts /\ generation[focused] \in Nat /\ asks + 1 \in 0..MaxAsks
          <6>1. focused \in Contexts BY <4>1 DEF AskKey, HostTyped
          <6>2. asks \in Nat /\ asks < MaxAsks /\ MaxAsks \in Nat
            BY <4>1, ConstantsAssumption DEF AskKey, Counted
          <6> QED BY <6>1, <6>2 DEF HostTyped
        <5>2. Command("key", focused, generation[focused], asks + 1) \in Jobs
          BY <5>1, CommandTyped DEF Kinds
        <5> QED BY <4>1, <5>2 DEF AskKey
      <4>4. Len(commands') = Len(commands) + 1 BY <4>2, <4>3, AppendOf
      <4> QED BY <4>2, <4>4
    <3>2. /\ i + 1 \in DOMAIN commands /\ commands'[i] = commands[i + 1]
          /\ j + 1 \in DOMAIN commands /\ commands'[j] = commands[j + 1]
      BY <2>3, <3>1, <1>1, AsksStep
    <3>3. i + 1 # j + 1 BY <1>1, <2>1
    <3> QED BY <1>1, <3>2, <3>3 DEF AskedOnce
  <2>4. CASE ~Dequeue /\ commands'[j].ask # 0
    <3>1. \/ commands'[i].ask = asks + 1 /\ i = Len(commands) + 1
          \/ i \in DOMAIN commands /\ commands'[i] = commands[i]
      BY <2>4, <1>1, AsksStep
    <3>2. \/ commands'[j].ask = asks + 1 /\ j = Len(commands) + 1
          \/ j \in DOMAIN commands /\ commands'[j] = commands[j]
      BY <2>4, <1>1, AsksStep
    <3> QED BY <1>0, <1>1, <3>1, <3>2 DEF AskedOnce
  <2> QED BY <2>2, <2>3, <2>4
<1>2. ASSUME NEW n \in Nat, n # 0, n # asks + 1, \A i \in DOMAIN commands : commands[i].ask # n
      PROVE  \A i \in DOMAIN commands' : commands'[i].ask # n
  BY <1>2, AsksStep
<1>3. ASSUME job'.ask # 0 PROVE \A i \in DOMAIN commands' : commands'[i].ask # job'.ask
  <2>1. CASE TakeCommand
    <3>1. /\ commands # <<>> /\ commands' = Tail(commands) /\ 1 \in DOMAIN commands
          /\ job'.ask = commands[1].ask
      BY <1>3, <2>1, Taken DEF Idle
    <3>2. ASSUME NEW i \in DOMAIN commands' PROVE commands'[i].ask # job'.ask
      <4>1. i \in Nat \ {0} /\ i + 1 \in DOMAIN commands /\ commands'[i] = commands[i + 1]
        BY <3>1, <3>2, TailCommands
      <4>2. i + 1 # 1 BY <4>1
      <4> QED BY <1>3, <3>1, <4>1, <4>2 DEF AskedOnce
    <3> QED BY <3>2
  <2>2. CASE ~TakeCommand
    <3>1. job'.ask = job.ask BY <1>3, <2>2, JobKeepsItsToken DEF JobStays, Idle
    <3>2. \A i \in DOMAIN commands : commands[i].ask # job.ask BY <1>3, <3>1 DEF AskedOnce
    <3> QED BY <1>0, <1>2, <1>3, <3>1, <3>2
  <2> QED BY <2>1, <2>2
<1>4. ASSUME ask'.kind = "reply", ask'.ask # 0
      PROVE  job'.ask # ask'.ask /\ \A i \in DOMAIN commands' : commands'[i].ask # ask'.ask
  <2>1. CASE ask' = ask
    <3>1. job.ask # ask.ask /\ \A i \in DOMAIN commands : commands[i].ask # ask.ask
      BY <1>4, <2>1 DEF AskedOnce
    <3>2. ask.ask # asks + 1 BY <1>0 DEF AskIsKnown
    <3>3. \A i \in DOMAIN commands' : commands'[i].ask # ask.ask
      BY <1>0, <1>2, <1>4, <2>1, <3>1, <3>2
    <3>4. job'.ask # ask.ask
      <4>1. CASE TakeCommand
        BY <1>4, <2>1, <3>1, <4>1, Taken DEF Idle
      <4>2. CASE ~TakeCommand
        BY <1>4, <2>1, <3>1, <4>2, JobKeepsItsToken DEF JobStays, Idle
      <4> QED BY <4>1, <4>2
    <3> QED BY <2>1, <3>3, <3>4
  <2>2. CASE AnswerKey /\ ask'.ask = job.ask /\ job' = Idle /\ commands' = commands
    BY <1>4, <2>2 DEF AskedOnce, Idle
  <2> QED BY <1>4, <2>1, <2>2, AskSteps
<1> QED BY <1>1, <1>3, <1>4 DEF AskedOnce

-----------------------------------------------------------------------------
(* The key press under way and the key it was tested with.                 *)

\* Only Matches and Token of the contexts matter to PressIsTested, and a closed
\* or a new gate matches nothing.
LEMMA PressElsewhere ==
    ASSUME TypeOK, Counted, AbandonedIsDead, PressIsTested,
           UNCHANGED <<focused, alive, suspended, generation, host, tested, press>>,
           host' \in {"answered", "drained"} => ask' = ask,
           \/ live' = live /\ connections' = connections
           \/ live' = 0 /\ connections' = connections
           \/ live' = connections + 1 /\ connections' = connections + 1
    PROVE  PressIsTested'
<1> USE TypeOKParts
<1>0. /\ connections \in Nat /\ live \in Nat
      /\ \A n \in 1..connections : n # 0 /\ n # connections + 1 /\ n \in 1..connections'
  <2>1. connections \in Nat /\ MaxConnections \in Nat BY ConstantsAssumption DEF Counted
  <2>2. live \in Nat BY <2>1 DEF GateTyped
  <2> QED BY <2>1, <2>2
<1>1. press # NoToken => press.epoch \in 1..connections' BY <1>0 DEF PressIsTested
<1>2. ASSUME focused # NoContext, press = Token(focused)' PROVE tested = press
  <2>1. press.context = focused /\ press.epoch = live' BY <1>2 DEF Token
  <2>2. press # NoToken BY <1>2, <2>1 DEF NoToken
  <2>3. live' = live BY <1>0, <2>1, <2>2 DEF PressIsTested
  <2>4. press = Token(focused) BY <1>2, <2>3 DEF Token
  <2> QED BY <1>2, <2>4 DEF PressIsTested
<1>3. ASSUME host \in {"answered", "drained"}, press = NoToken, ask.eaten, Matches(ask.token)',
             ask' = ask
      PROVE  tested = ask.token
  <2>1. ask.token.epoch = live' BY <1>3 DEF Matches, Token
  <2>2. ask.token.epoch \in 1..connections BY <1>3 DEF AbandonedIsDead
  <2>3. live' = live BY <1>0, <2>1, <2>2
  <2>4. Matches(ask.token) BY <1>3, <2>3 DEF Matches, Token
  <2> QED BY <1>3, <2>4 DEF PressIsTested
<1> QED BY <1>1, <1>2, <1>3 DEF PressIsTested

\* An answer to a key finds the host without one already.
LEMMA AnswerIsNew ==
    ASSUME JobIsServed, AnswerFits, AbandonedIsDead, AskedOnce, AnswerKey
    PROVE  host \notin {"answered", "drained"}
<1>1. ask.ask = job.ask BY DEF AnswerKey
<1>2. host \in {"answered", "drained"} => ask.kind = "reply" /\ ask.ask # 0
  BY DEF AbandonedIsDead
<1> QED BY <1>1, <1>2 DEF AskedOnce

\* Worker, engine and subscription leave the pressed key and the cache alone.
LEMMA PressWire ==
    ASSUME TypeOK, Counted, JobIsServed, SessionsAreOpened, AnswerFits, AbandonedIsDead,
           AskedOnce, PressIsTested, Worker \/ Engine \/ Subscription
    PROVE  PressIsTested'
<1>1. /\ UNCHANGED <<focused, alive, suspended, generation, host, tested, press>>
      /\ ask' = ask \/ AnswerKey
  <2>1. CASE TakeCommand BY <2>1 DEF TakeCommand, hostSide, contextVars, keyVars
  <2>2. CASE Worker /\ ~TakeCommand
    BY <2>2 DEF Worker, ExpireKey, Connected, ConnectFails, StampToken, Prepare,
       SessionOpened, ModeRestored, AnswerKey, ContextDone, RequestFails, Timeout, Disconnect,
       hostSide, contextVars, keyVars
  <2>3. CASE Engine
    BY <2>3 DEF Engine, ServeOpen, ServeKey, ServeCommand, Refuse, Push, Lose, hostSide,
       contextVars, keyVars
  <2>4. CASE Subscription
    BY <2>4 DEF Subscription, Forward, SubscriptionEnds, hostSide, contextVars, keyVars
  <2> QED BY <2>1, <2>2, <2>3, <2>4
<1>2. host' \in {"answered", "drained"} => ask' = ask BY <1>1, AnswerIsNew
<1>3. \/ live' = live /\ connections' = connections
      \/ live' = 0 /\ connections' = connections
      \/ live' = connections + 1 /\ connections' = connections + 1
  BY GateSteps DEF Next
<1> QED BY <1>1, <1>2, <1>3, PressElsewhere

\* A key press whose test is still good is not sent again.
LEMMA PressAskKey ==
    ASSUME TypeOK, PressIsTested, AskKey
    PROVE  press # Token(focused) /\ focused # NoContext /\ focused \in Contexts
<1> USE TypeOKParts
<1>1. focused \in Contexts /\ focused # NoContext
  BY ConstantsAssumption DEF AskKey, HostTyped
<1>2. ASSUME press = Token(focused) PROVE FALSE
  <2>1. press.context = focused /\ press.epoch = live BY <1>2 DEF Token
  <2>2. press # NoToken BY <1>1, <2>1 DEF NoToken
  <2>3. tested = Token(focused) BY <1>1, <1>2 DEF PressIsTested
  <2>4. live = 0 BY <2>3 DEF AskKey
  <2>5. press.epoch # 0
    <3>1. press.epoch \in 1..connections BY <2>2 DEF PressIsTested
    <3> QED BY <3>1
  <2> QED BY <2>1, <2>4, <2>5
<1> QED BY <1>1, <1>2

\* The steps of a key: what was tested is cached under its token before the press
\* is looked up.
LEMMA PressKey ==
    ASSUME TypeOK, Counted, AbandonedIsDead, PressIsTested, Key
    PROVE  PressIsTested'
<1> USE TypeOKParts
<1>0. NoToken.context = NoContext BY DEF NoToken
<1>1. \A c \in Contexts : NoToken # Token(c) /\ NoToken # Token(c)'
  <2>1. \A c : Token(c).context = c /\ Token(c)'.context = c BY DEF Token
  <2> QED BY <2>1, <1>0, ConstantsAssumption
<1>2. focused \in Contexts \cup {NoContext} BY DEF HostTyped
<1>3. CASE ReuseTested \/ PassKey
  <2>1. press' = NoToken /\ UNCHANGED <<focused, alive, host>> /\ host = "idle"
    BY <1>3 DEF ReuseTested, PassKey, contextVars
  <2> QED BY <2>1, <1>1, <1>2 DEF PressIsTested
<1>4. CASE GiveUp
  <2>1. press' = NoToken /\ UNCHANGED <<focused, alive>> /\ host' = "idle"
    BY <1>4 DEF GiveUp, contextVars
  <2> QED BY <2>1, <1>1, <1>2 DEF PressIsTested
<1>5. CASE AskKey
  <2>1. /\ UNCHANGED <<press, focused, alive, live, generation, connections>>
        /\ host' = "waiting"
    BY <1>5 DEF AskKey, contextVars, gateVars
  <2>2. press # Token(focused) BY <1>5, PressAskKey
  <2>3. press' # Token(focused)' BY <2>1, <2>2 DEF Token
  <2>4. focused # NoContext => focused \in alive BY DEF PressIsTested
  <2>5. press # NoToken => press.epoch \in 1..connections BY DEF PressIsTested
  <2> QED BY <2>1, <2>3, <2>4, <2>5 DEF PressIsTested
<1>6. CASE Receive
  <2>1. /\ UNCHANGED <<press, focused, alive, suspended, live, generation, connections, ask>>
        /\ tested' = IF Matches(ask.token) /\ press = NoToken /\ ask.eaten
                     THEN ask.token ELSE tested
    BY <1>6 DEF Receive, contextVars, gateVars, boundVars
  <2>2. Matches(ask.token)' <=> Matches(ask.token) BY <2>1 DEF Matches, Token
  <2>3. ASSUME focused # NoContext, press = Token(focused)' PROVE tested' = press
    <3>1. press = Token(focused) BY <2>1, <2>3 DEF Token
    <3>2. press # NoToken BY <1>1, <1>2, <2>3, <3>1
    <3> QED BY <2>1, <2>3, <3>1, <3>2 DEF PressIsTested
  <2>4. press = NoToken /\ ask.eaten /\ Matches(ask.token)' => tested' = ask.token
    BY <2>1, <2>2
  <2>5. /\ focused # NoContext => focused \in alive
        /\ press # NoToken => press.epoch \in 1..connections
    BY DEF PressIsTested
  <2> QED BY <2>1, <2>3, <2>4, <2>5 DEF PressIsTested
<1>7. CASE Drain \/ ApplyEdit
  <2>1. /\ UNCHANGED <<press, tested, focused, alive, suspended, live, generation, connections,
                       ask>>
        /\ host' \in {"answered", "drained"} => host \in {"answered", "drained"}
    BY <1>7 DEF Drain, ApplyEdit, contextVars, gateVars, boundVars, keyVars
  <2>2. Matches(ask.token)' <=> Matches(ask.token) BY <2>1 DEF Matches, Token
  <2>3. Token(focused)' = Token(focused) BY <2>1 DEF Token
  <2> QED BY <2>1, <2>2, <2>3 DEF PressIsTested
<1>8. CASE Decide
  <2>1. /\ UNCHANGED <<tested, focused, alive, suspended, live, generation, connections>>
        /\ host = "drained" /\ host' = "idle"
        /\ \/ press' = NoToken
           \/ press = NoToken /\ press' = ask.token /\ Matches(ask.token) /\ ask.eaten
    BY <1>8 DEF Decide, contextVars, gateVars, boundVars
  <2>2. CASE press' = NoToken
    BY <2>1, <2>2, <1>1, <1>2 DEF PressIsTested
  <2>3. CASE press = NoToken /\ press' = ask.token /\ Matches(ask.token) /\ ask.eaten
    <3>1. tested = ask.token BY <2>1, <2>3 DEF PressIsTested
    <3>2. ask.token.epoch \in 1..connections BY <2>1 DEF AbandonedIsDead
    <3> QED BY <2>1, <2>3, <3>1, <3>2 DEF PressIsTested
  <2> QED BY <2>1, <2>2, <2>3
<1> QED BY <1>3, <1>4, <1>5, <1>6, <1>7, <1>8 DEF Key

\* A change of the focus, a cancellation or a removal changes the token, so that
\* the cache is not of it.
LEMMA PressMoves ==
    ASSUME TypeOK, Counted, PressIsTested, Focus \/ Cancel \/ Remove \/ Log
    PROVE  PressIsTested'
<1> USE TypeOKParts
<1>0. \A c \in Contexts : NoToken # Token(c)'
  <2>1. \A c : Token(c)'.context = c BY DEF Token
  <2>2. NoToken.context = NoContext BY DEF NoToken
  <2> QED BY <2>1, <2>2, ConstantsAssumption
<1>1. connections' = connections /\ host' = "idle"
  BY DEF Focus, Cancel, Remove, Log, Move, keyVars
<1>2. \A n \in 1..connections : n # 0 BY DEF Counted
<1>3. focused \in Contexts \cup {NoContext} BY DEF HostTyped
<1>4. CASE Focus
  <2>1. press' = NoToken /\ alive' = alive /\ focused' \in alive \cup {NoContext}
    BY <1>4 DEF Focus
  <2>2. alive \subseteq Contexts BY DEF HostTyped
  <2> QED BY <1>0, <1>1, <2>1, <2>2 DEF PressIsTested
<1>5. CASE Cancel
  <2>1. /\ press' = IF press = NoToken THEN NoToken ELSE [press EXCEPT !.generation = 0]
        /\ UNCHANGED <<focused, alive>>
    BY <1>5 DEF Cancel
  <2>2. press \in Tokens BY DEF HostTyped
  <2>3. press' # NoToken => press'.epoch = press.epoch /\ press'.generation = 0 /\ press # NoToken
    BY <2>1, <2>2 DEF Tokens
  <2>4. ASSUME focused # NoContext, press' = Token(focused)' PROVE FALSE
    <3>1. focused \in Contexts BY <1>3, <2>4
    <3>2. press' # NoToken
      <4>1. Token(focused)'.context = focused BY <2>1 DEF Token
      <4>2. NoToken.context # focused BY <3>1, ConstantsAssumption DEF NoToken
      <4> QED BY <2>4, <4>1, <4>2
    <3>3. Token(focused)'.generation = generation'[focused]
      <4>1. focused' = focused BY <2>1
      <4> QED BY <4>1 DEF Token
    <3>4. generation[focused] >= 1 /\ generation[focused] \in Nat
          /\ generation[focused] <= generation'[focused]
          /\ generation'[focused] \in Nat
      <4>1. ContextsAge BY <1>5, Enqueues DEF EnqueueShape, Enqueue
      <4> QED BY <3>1, <4>1 DEF ContextsAge, HostTyped, Counted
    <3>5. press'.generation = generation'[focused] BY <2>4, <3>3
    <3> QED BY <2>3, <3>2, <3>4, <3>5
  <2>5. press' # NoToken => press'.epoch \in 1..connections BY <2>3 DEF PressIsTested
  <2>6. focused # NoContext => focused \in alive BY DEF PressIsTested
  <2> QED BY <1>1, <2>1, <2>4, <2>5, <2>6 DEF PressIsTested
<1>6. CASE Remove
  <2>1. PICK c \in alive :
          /\ alive' = alive \ {c}
          /\ generation' = [generation EXCEPT ![c] = @ + 1]
          /\ focused' = IF focused = c THEN NoContext ELSE focused
          /\ tested' = IF focused = c THEN NoToken ELSE tested
          /\ press' = IF focused = c THEN NoToken ELSE press
    BY <1>6 DEF Remove
  <2>2. CASE focused = c
    BY <1>1, <2>1, <2>2 DEF PressIsTested
  <2>3. CASE focused # c
    <3>1. UNCHANGED <<focused, tested, press>> BY <2>1, <2>3
    <3>2. focused # NoContext => focused \in alive' BY <2>1, <2>3 DEF PressIsTested
    <3>3. press' # NoToken => press'.epoch \in 1..connections' /\ press'.epoch # 0
      BY <1>1, <1>2, <3>1 DEF PressIsTested
    <3>4. ASSUME focused # NoContext, press = Token(focused)' PROVE tested = press
      <4>1. focused \in Contexts BY <1>3, <3>4
      <4>2. press # NoToken BY <1>0, <3>1, <3>4, <4>1
      <4>3. live' = live \/ live' = 0
        BY <1>6, HostLeaves DEF HostStep
      <4>4. press.epoch = live' BY <3>4 DEF Token
      <4>5. live' = live BY <3>1, <3>3, <4>2, <4>3, <4>4
      <4>6. generation'[focused] = generation[focused]
        BY <2>1, <2>3, <4>1 DEF HostTyped
      <4>7. press = Token(focused) BY <3>1, <3>4, <4>5, <4>6 DEF Token
      <4> QED BY <3>4, <4>7 DEF PressIsTested
    <3> QED BY <1>1, <3>1, <3>2, <3>3, <3>4 DEF PressIsTested
  <2> QED BY <2>2, <2>3
<1>7. CASE Log
  <2>1. UNCHANGED <<press, tested, focused, alive, live, generation>>
    BY <1>7 DEF Log, keyVars, contextVars, gateVars
  <2>2. Token(focused)' = Token(focused) BY <2>1 DEF Token
  <2> QED BY <1>1, <2>1, <2>2 DEF PressIsTested
<1> QED BY <1>4, <1>5, <1>6, <1>7

\* Every step keeps PressIsTested.
LEMMA PressStep ==
    ASSUME TypeOK, Counted, JobIsServed, SessionsAreOpened, AnswerFits, AbandonedIsDead,
           AskedOnce, PressIsTested, Next
    PROVE  PressIsTested'
BY PressWire, PressKey, PressMoves DEF Next

\* Only AskKey makes the host wait.
LEMMA WaitIsAsked ==
    ASSUME Next, host = "idle", host' = "waiting"
    PROVE  AskKey
<1>1. CASE Worker
  <2>1. host' = host
    BY <1>1 DEF Worker, ExpireKey, TakeCommand, Connected, ConnectFails,
       StampToken, Prepare, SessionOpened, ModeRestored, AnswerKey, ContextDone, RequestFails,
       Timeout, Disconnect, hostSide, keyVars
  <2> QED BY <2>1
<1>2. CASE Engine
  <2>1. host' = host
    BY <1>2 DEF Engine, ServeOpen, ServeKey, ServeCommand, Refuse, Push, Lose, hostSide, keyVars
  <2> QED BY <2>1
<1>3. CASE Subscription
  <2>1. host' = host BY <1>3 DEF Subscription, Forward, SubscriptionEnds, hostSide, keyVars
  <2> QED BY <2>1
<1>4. CASE Key
  BY <1>4 DEF Key, ReuseTested, PassKey, GiveUp, Receive, Drain, ApplyEdit, Decide, keyVars
<1>5. CASE Focus \/ Cancel \/ Remove \/ Log
  BY <1>5 DEF Focus, Cancel, Remove, Log, keyVars
<1> QED BY <1>1, <1>2, <1>3, <1>4, <1>5 DEF Next

-----------------------------------------------------------------------------
(* The replies of a session and the revisions it went through.             *)

\* A transport that is up was, unless the worker just connected.
LEMMA UpStays ==
    ASSUME TypeOK, Counted, GateIsOwned, JobIsServed, SessionsAreOpened, Next, up'
    PROVE  \/ /\ Connected /\ ~up /\ conn' = connections + 1 /\ connections' = connections + 1
              /\ UNCHANGED <<route, session>>
           \/ up /\ conn' = conn /\ ~Connected
<1>1. CASE HostStep
  <2>1. UNCHANGED wire BY <1>1, HostLeaves
  <2>2. ~Connected BY <1>1, <2>1 DEF wire, Connected, JobIsServed, Idle, connVars, GateIsOwned, Counted
  <2> QED BY <2>1, <2>2 DEF wire, connVars
<1>2. CASE Connected
  <2>1. ~up BY <1>2 DEF Connected, JobIsServed, GateIsOwned
  <2> QED BY <1>2, <2>1 DEF Connected, hostSide, contextVars, engineVars
<1>3. CASE Engine /\ ~Connected
  BY <1>3 DEF Engine, ServeOpen, ServeKey, ServeCommand, Refuse, Push, Lose, connVars
<1>4. CASE Subscription /\ ~Connected
  BY <1>4 DEF Subscription, Forward, SubscriptionEnds
<1>5. CASE TakeCommand /\ ~Connected
  BY <1>5 DEF TakeCommand, Close, connVars
<1>6. CASE Worker /\ ~Connected /\ ~TakeCommand
  BY <1>6 DEF Worker, ExpireKey, ConnectFails, StampToken, Prepare, SessionOpened,
     ModeRestored, AnswerKey, ContextDone, RequestFails, Timeout, Disconnect, Close, connVars
<1> QED BY <1>1, <1>2, <1>3, <1>4, <1>5, <1>6 DEF Next, HostStep

\* Once its answer has come, the worker's command stays until it is done.
LEMMA AnsweredStays ==
    ASSUME Next, job.at = "asking", answer.kind = "reply"
    PROVE  job' = Idle \/ UNCHANGED <<job, answer>>
<1>1. job # Idle /\ ~Pending BY DEF Idle, Pending, NoAnswer
<1>2. CASE Worker
  BY <1>1, <1>2 DEF Worker, ExpireKey, TakeCommand, Connected, ConnectFails, StampToken, Prepare,
     SessionOpened, ModeRestored, AnswerKey, ContextDone, RequestFails, Timeout, Disconnect
<1>3. CASE Engine
  BY <1>1, <1>3 DEF Engine, ServeOpen, ServeKey, ServeCommand, Refuse, Push, Lose, workerSide
<1>4. CASE Subscription BY <1>4 DEF Subscription, Forward, SubscriptionEnds, engineVars
<1>5. CASE Key \/ Focus \/ Cancel \/ Remove \/ Log
  BY <1>5 DEF Key, ReuseTested, AskKey, PassKey, GiveUp, Receive, Drain, ApplyEdit, Decide,
     Focus, Cancel, Remove, Log, wire, engineVars
<1> QED BY <1>2, <1>3, <1>4, <1>5 DEF Next

\* A context that is gone stays gone: nothing more is queued for it.
LEMMA GoneStays ==
    ASSUME TypeOK, Counted, QueueIsKnown, GateIsOwned, Next, NEW c \in Contexts, Gone(c)
    PROVE  Gone(c)'
<1>0. c # NoContext BY ConstantsAssumption
<1>1. c \notin alive' BY AliveShrinks DEF ContextsAge, Gone
<1>2. ASSUME NEW i \in DOMAIN commands' PROVE commands'[i].token.context # c
  <2>1. CASE commands' = commands BY <1>2, <2>1 DEF Gone
  <2>2. CASE Dequeue
    <3>1. i + 1 \in DOMAIN commands /\ commands'[i] = commands[i + 1]
      BY <1>2, <2>2, TailCommands DEF Dequeue
    <3> QED BY <3>1 DEF Gone
  <2>3. CASE Enqueue
    <3>1. PICK cs \in Seq(Jobs) : Lengthened(cs) /\ FitsQueue(cs)
      BY <2>3, Enqueues DEF EnqueueShape, Enqueued
    <3>2. \/ i \in DOMAIN commands /\ commands'[i] = commands[i]
          \/ /\ i - Len(commands) \in 1..Len(cs)
             /\ commands'[i] = cs[i - Len(commands)]
      BY <1>2, <3>1, OldAndNew
    <3>3. \A k \in 1..Len(cs) :
             cs[k].token.context = NoContext \/ cs[k].token.context \in alive
      BY <3>1 DEF FitsQueue
    <3> QED BY <1>0, <3>2, <3>3 DEF Gone
  <2> QED BY <2>1, <2>2, <2>3, QueueSteps
<1>3. job'.token.context = c =>
         job'.at = "asking" /\ job'.kind = "destroy" /\ answer'.kind = "reply"
  <2>1. CASE job' = Idle BY <1>0, <2>1 DEF Idle, NoToken
  <2>2. CASE TakeCommand
    <3>1. job' = Idle \/ (1 \in DOMAIN commands /\ job'.token = commands[1].token)
      BY <2>2, Taken
    <3> QED BY <2>1, <3>1 DEF Gone
  <2>3. CASE ~TakeCommand /\ job' # Idle /\ job'.token.context = c
    <3>1. job.token.context = c BY <2>3, JobKeepsItsToken DEF JobStays
    <3>2. job.at = "asking" /\ job.kind = "destroy" /\ answer.kind = "reply"
      BY <3>1 DEF Gone
    <3>3. job' = job /\ answer' = answer BY <2>3, <3>2, AnsweredStays
    <3> QED BY <3>2, <3>3
  <2> QED BY <2>1, <2>2, <2>3
<1> QED BY <1>1, <1>2, <1>3 DEF Gone

\* What the engine makes of its sessions while the transport is up.
LEMMA SessionsMove ==
    ASSUME TypeOK, Counted, GateIsOwned, JobIsServed, SessionsAreOpened, Next, up, up'
    PROVE  \/ session' = session
           \/ EnginePublishes
           \/ /\ job.at = "opening" /\ job.token.context \in Contexts
              /\ \A d \in Contexts : d # job.token.context => session'[d] = session[d]
              /\ session[job.token.context] = NoSession
              /\ session'[job.token.context] # NoSession
<1> USE TypeOKParts
<1>1. CASE ServeOpen
  <2>1. Pending /\ request.kind = "open" BY <1>1 DEF ServeOpen
  <2>2. /\ job.at = "opening" /\ request.token = job.token /\ job.token.context \in Contexts
        /\ session[job.token.context] = NoSession /\ request.token \in Tokens
    BY <2>1, PendingPhase, ObservedTyped
  <2>3. session \in [Contexts -> Sessions] BY DEF EngineTyped
  <2>4. \/ session' = session
        \/ session' = [session EXCEPT ![job.token.context].token = job.token]
    BY <1>1, <2>2 DEF ServeOpen
  <2>5. CASE session' = [session EXCEPT ![job.token.context].token = job.token]
    <3>1. PICK n \in Nat : n = session[job.token.context].revision
      BY <2>2, <2>3 DEF Sessions
    <3>2. session'[job.token.context] = [token |-> job.token, revision |-> n]
      BY <2>2, <2>3, <2>5, <3>1 DEF Sessions
    <3>3. session'[job.token.context] # NoSession BY <2>2, <3>2, SomeSession
    <3> QED BY <2>2, <2>3, <2>5, <3>3
  <2> QED BY <2>4, <2>5
<1>2. CASE ServeKey \/ ServeCommand \/ Push BY <1>2, ServesPublish
<1>3. CASE Refuse \/ Lose BY <1>3 DEF Refuse, Lose
<1>4. CASE HostStep BY <1>4, HostLeaves DEF wire, engineVars
<1>5. CASE Subscription BY <1>5 DEF Subscription, Forward, SubscriptionEnds, engineVars
<1>6. CASE TakeCommand BY <1>6 DEF TakeCommand, Close, engineVars
<1>7. CASE Worker /\ ~TakeCommand
  BY <1>7 DEF Worker, ExpireKey, Connected, ConnectFails, StampToken, Prepare, SessionOpened,
     ModeRestored, AnswerKey, ContextDone, RequestFails, Timeout, Disconnect, Close, engineVars
<1> QED BY <1>1, <1>2, <1>3, <1>4, <1>5, <1>6, <1>7 DEF Next, Engine, HostStep

\* A revision the session of a context went through stays behind it.
LEMMA BoundedStays ==
    ASSUME TypeOK, TypeOK', Counted, QueueIsKnown, GateIsOwned, JobIsServed, SessionsAreOpened,
           DestroyIsLast, DestroyIsLast', Next, up, up', NEW c \in Contexts, NEW n \in Nat,
           Bounded(c, n)
    PROVE  Bounded(c, n)'
<1> USE TypeOKParts
<1>1. Gone(c) => Gone(c)' BY GoneStays
<1>2. CASE session'[c] = session[c] BY <1>1, <1>2 DEF Bounded
<1>3. CASE EnginePublishes
  <2>1. PICK r \in Replies, d \in Contexts :
          /\ session[d] # NoSession
          /\ session'[d] = NoSession =>
                /\ job.at = "asking" /\ job.kind = "destroy" /\ job.token.context = d
                /\ answer'.kind = "reply"
          /\ session'[d] # NoSession => session'[d].revision = r.revision
          /\ \A e \in Contexts : e # d => session'[e] = session[e]
          /\ session[d].revision <= r.revision
          /\ job' = job
    BY <1>3, WhatIsPublished DEF workerSide
  <2>2. CASE c # d BY <1>2, <2>1, <2>2
  <2>3. CASE c = d /\ session'[d] # NoSession
    <3>1. n <= session[d].revision BY <2>1, <2>3 DEF Bounded
    <3>2. session[d].revision \in Nat /\ r.revision \in Nat
      BY DEF EngineTyped, Sessions, Replies
    <3>3. n <= r.revision BY <2>1, <3>1, <3>2
    <3> QED BY <2>1, <2>3, <3>3 DEF Bounded
  <2>4. CASE c = d /\ session'[d] = NoSession
    <3>1. /\ job'.at = "asking" /\ job'.kind = "destroy" /\ job'.token.context = c
          /\ answer'.kind = "reply"
      BY <2>1, <2>4
    <3>2. Gone(c)' BY <3>1 DEF Gone, DestroyIsLast
    <3> QED BY <2>4, <3>2 DEF Bounded
  <2> QED BY <2>2, <2>3, <2>4
<1>4. CASE /\ job.at = "opening" /\ session[job.token.context] = NoSession
           /\ c = job.token.context
  BY <1>4 DEF Bounded, Gone
<1> QED BY <1>2, <1>3, <1>4, SessionsMove

\* Only a drain changes a route, to the newest reply it accepts.
LEMMA RouteSteps ==
    ASSUME TypeOK, Counted, Next, NEW c \in Contexts
    PROVE  \/ route'[c] = route[c] /\ (route' = route \/ Drain)
           \/ /\ Drain /\ live' = live
              /\ \E r \in Fresh : /\ r.token.context = c /\ route'[c].epoch = live
                                  /\ route'[c].revision = r.revision
                                  /\ \A q \in Fresh : q.token.context = c =>
                                                         q.revision <= r.revision
<1> USE TypeOKParts
<1>1. CASE Drain
  <2>1. /\ route' = [d \in Contexts |->
                   IF \E r \in Fresh : r.token.context = d
                   THEN [epoch |-> live, revision |-> Newest(d)]
                   ELSE route[d]]
        /\ live' = live
    BY <1>1 DEF Drain, gateVars
  <2>2. CASE \E r \in Fresh : r.token.context = c
    <3>1. PICK r \in Fresh : /\ r.token.context = c /\ r.revision = Newest(c)
                             /\ \A q \in Fresh : q.token.context = c => q.revision <= Newest(c)
      BY <2>2, NewestOf
    <3>2. route'[c] = [epoch |-> live, revision |-> Newest(c)] BY <2>1, <2>2
    <3>3. route'[c].epoch = live /\ route'[c].revision = r.revision BY <3>1, <3>2
    <3> QED BY <1>1, <2>1, <3>1, <3>3
  <2>3. CASE ~ \E r \in Fresh : r.token.context = c BY <1>1, <2>1, <2>3
  <2> QED BY <2>2, <2>3
<1>2. CASE ~Drain
  <2>1. CASE Worker
    BY <2>1 DEF Worker, ExpireKey, TakeCommand, Connected, ConnectFails, StampToken, Prepare,
       SessionOpened, ModeRestored, AnswerKey, ContextDone, RequestFails, Timeout, Disconnect,
       hostSide, contextVars
  <2>2. CASE Engine
    <3>1. route' = route
      BY <2>2 DEF Engine, ServeOpen, ServeKey, ServeCommand, Refuse, Push, Lose, hostSide,
         contextVars
    <3> QED BY <3>1
  <2>3. CASE Subscription
    BY <2>3 DEF Subscription, Forward, SubscriptionEnds, hostSide, contextVars
  <2>4. CASE Key \/ Focus \/ Cancel \/ Remove \/ Log
    BY <1>2, <2>4 DEF Key, ReuseTested, AskKey, PassKey, GiveUp, Receive, ApplyEdit, Decide,
       Focus, Cancel, Remove, Log, contextVars
  <2> QED BY <2>1, <2>2, <2>3, <2>4 DEF Next
<1> QED BY <1>1, <1>2

\* A new reply of the engine is known to its session.
LEMMA PublishedIsKnown ==
    ASSUME TypeOK, Counted, GateIsOwned, JobIsServed, SessionsAreOpened, GenerationsGrow,
           DestroyIsLast', up', EnginePublishes
    PROVE  \E r \in Replies :
             /\ Published' \subseteq Published \cup {r}
             /\ r.token.context \in Contexts
             /\ r.token.epoch \in 1..connections' /\ r.token.epoch = conn'
             /\ r.token.generation <= generation'[r.token.context]
             /\ Bounded(r.token.context, r.revision)'
<1> USE TypeOKParts
<1>1. PICK r \in Replies, c \in Contexts :
             /\ r.token.context = c /\ r.token.epoch = conn /\ conn # 0
             /\ \/ r.token = session[c].token /\ r.ask = 0
                \/ r.token = job.token /\ r.ask = job.ask /\ job.at \in Phases
             /\ session'[c] = NoSession =>
                   /\ job.at = "asking" /\ job.kind = "destroy" /\ job.token.context = c
                   /\ answer'.kind = "reply"
             /\ session'[c] # NoSession => session'[c].revision = r.revision
             /\ \/ sent' = sent
                \/ sent' = sent \cup {r} /\ r.revision = session[c].revision + 1
             /\ OnTheWay' \subseteq OnTheWay \cup {r}
             /\ UNCHANGED <<workerSide, conn, contextVars, applied, connections>>
  BY WhatIsPublished
<1>2. Published' \subseteq Published \cup {r} BY <1>1 DEF Published
<1>3. r.token.epoch \in 1..connections' /\ r.token.epoch = conn'
  <2>1. conn \in Nat /\ connections \in Nat /\ conn <= connections
    BY ConstantsAssumption DEF Counted, ConnTyped
  <2> QED BY <1>1, <2>1
<1>4. r.token.generation <= generation'[c]
  <2>1. generation' = generation BY <1>1 DEF contextVars
  <2> QED BY <1>1, <2>1 DEF GenerationsGrow
<1>5. Bounded(c, r.revision)'
  <2>1. CASE session'[c] # NoSession
    <3>1. r.revision <= r.revision
      <4>1. r.revision \in Nat BY DEF Replies
      <4> QED BY <4>1
    <3> QED BY <1>1, <2>1, <3>1 DEF Bounded
  <2>2. CASE session'[c] = NoSession
    <3>1. /\ job'.at = "asking" /\ job'.kind = "destroy" /\ job'.token.context = c
          /\ answer'.kind = "reply"
      BY <1>1, <2>2 DEF workerSide
    <3>2. Gone(c)' BY <3>1 DEF Gone, DestroyIsLast
    <3> QED BY <2>2, <3>2 DEF Bounded
  <2> QED BY <2>1, <2>2
<1> QED BY <1>1, <1>2, <1>3, <1>4, <1>5

\* Every step keeps the replies known and bounded by their session.
LEMMA KnownStep ==
    ASSUME TypeOK, TypeOK', Counted, QueueIsKnown, GateIsOwned, JobIsServed, SessionsAreOpened,
           GenerationsGrow, DestroyIsLast, DestroyIsLast', RepliesAreKnown, Next
    PROVE  RepliesAreKnown'
<1> USE TypeOKParts
<1>0. /\ connections \in Nat /\ connections' \in Nat /\ connections <= connections'
      /\ connections + 1 \in Nat
      /\ \A c \in Contexts : /\ generation[c] \in Nat /\ generation'[c] \in Nat
                             /\ generation[c] <= generation'[c]
                             /\ route[c].epoch \in Nat /\ route[c].revision \in Nat
      /\ \A r \in Replies : r.revision \in Nat /\ r.token.generation \in Nat
                            /\ r.token.epoch \in Nat
  <2>1. connections \in Nat /\ connections + 1 \in Nat BY DEF Counted
  <2>2. connections' \in {connections, connections + 1} BY GateSteps
  <2>3. \A c \in Contexts : generation[c] \in Nat /\ generation'[c] \in Nat
                            /\ generation[c] <= generation'[c]
    BY AliveShrinks DEF ContextsAge, HostTyped
  <2>4. \A c \in Contexts : route[c].epoch \in Nat /\ route[c].revision \in Nat
    BY ConstantsAssumption DEF HostTyped
  <2>5. \A r \in Replies : r.revision \in Nat /\ r.token.generation \in Nat
                           /\ r.token.epoch \in Nat
    BY ConstantsAssumption DEF Replies, Tokens
  <2> QED BY <2>1, <2>2, <2>3, <2>4, <2>5
<1>1. Published \subseteq Replies
  <2>1. Elements(stream) \subseteq Replies
    <3>1. stream \in Seq(Replies) BY DEF ConnTyped
    <3> QED BY <3>1 DEF Elements
  <2>2. Elements(updates) \subseteq Replies
    <3>1. updates \in Seq(Replies) BY DEF GateTyped
    <3> QED BY <3>1 DEF Elements
  <2> QED BY <2>1, <2>2 DEF Published, OnTheWay, HostTyped, HistTyped
<1>2. ASSUME NEW r \in Published
      PROVE  /\ r.token.context \in Contexts
             /\ r.token.epoch \in 1..connections'
             /\ r.token.generation <= generation'[r.token.context]
             /\ up' /\ r.token.epoch = conn' => Bounded(r.token.context, r.revision)'
  <2> DEFINE c == r.token.context
  <2>1. /\ c \in Contexts /\ r.token.epoch \in 1..connections
        /\ r.token.generation <= generation[c]
        /\ up /\ r.token.epoch = conn => Bounded(c, r.revision)
    BY <1>2 DEF RepliesAreKnown
  <2>2. r \in Replies BY <1>1, <1>2
  <2>3. r.token.epoch \in 1..connections' BY <1>0, <2>1, <2>2
  <2>4. r.token.generation <= generation'[c] BY <1>0, <2>1, <2>2
  <2>5. ASSUME up', r.token.epoch = conn' PROVE Bounded(c, r.revision)'
    <3>1. up /\ r.token.epoch = conn
      <4>1. r.token.epoch # connections + 1 BY <1>0, <2>1
      <4> QED BY <2>5, <4>1, UpStays
    <3>2. Bounded(c, r.revision) /\ r.revision \in Nat BY <1>0, <2>1, <2>2, <3>1
    <3> QED BY <2>1, <2>5, <3>1, <3>2, BoundedStays
  <2> QED BY <2>1, <2>3, <2>4, <2>5
<1>3. \A r \in Published' :
          /\ r.token.context \in Contexts
          /\ r.token.epoch \in 1..connections'
          /\ r.token.generation <= generation'[r.token.context]
          /\ up' /\ r.token.epoch = conn' => Bounded(r.token.context, r.revision)'
  <2>1. CASE RepliesMoveOn
    <3>1. Published' \subseteq Published
      BY <2>1 DEF RepliesMoveOn, Published, OnTheWay
    <3> QED BY <3>1, <1>2
  <2>2. CASE EnginePublishes
    <3>1. up' BY <2>2 DEF EnginePublishes
    <3>2. PICK r \in Replies :
             /\ Published' \subseteq Published \cup {r}
             /\ r.token.context \in Contexts
             /\ r.token.epoch \in 1..connections' /\ r.token.epoch = conn'
             /\ r.token.generation <= generation'[r.token.context]
             /\ Bounded(r.token.context, r.revision)'
      BY <2>2, <3>1, PublishedIsKnown
    <3> QED BY <3>2, <1>2
  <2> QED BY <2>1, <2>2, RepliesMove
<1>4. ASSUME NEW c \in Contexts
      PROVE  /\ route'[c].epoch <= connections'
             /\ up' /\ route'[c].epoch = conn' => Bounded(c, route[c].revision)'
  <2>1. CASE route'[c] = route[c]
    <3>1. route[c].epoch <= connections BY <1>4 DEF RepliesAreKnown
    <3>2. route'[c].epoch <= connections' BY <1>0, <2>1, <3>1
    <3>3. ASSUME up', route'[c].epoch = conn' PROVE Bounded(c, route[c].revision)'
      <4>1. up /\ route[c].epoch = conn
        <5>1. route[c].epoch # connections + 1 BY <1>0, <3>1
        <5> QED BY <2>1, <3>3, <5>1, UpStays
      <4>2. Bounded(c, route[c].revision) /\ route[c].revision \in Nat
        BY <1>0, <1>4, <4>1 DEF RepliesAreKnown
      <4>3. PICK n \in Nat : n = route[c].revision BY <4>2
      <4>4. Bounded(c, n)' BY <3>3, <4>1, <4>2, <4>3, BoundedStays
      <4> QED BY <2>1, <4>3, <4>4 DEF Bounded
    <3> QED BY <3>2, <3>3
  <2>2. CASE Drain /\ live' = live /\
             \E r \in Fresh : /\ r.token.context = c /\ route'[c].epoch = live
                              /\ route'[c].revision = r.revision
    <3>1. PICK r \in Fresh : /\ r.token.context = c /\ route'[c].epoch = live
                             /\ route'[c].revision = r.revision
      BY <2>2
    <3>2. r \in Published /\ Acceptable(r)
      BY FreshTyped DEF Published, OnTheWay
    <3>3. r.token.epoch = live BY <3>2 DEF Acceptable, Matches, Token
    <3>4. /\ r.token.epoch \in 1..connections'
          /\ up' /\ r.token.epoch = conn' => Bounded(c, r.revision)'
      BY <1>2, <3>1, <3>2
    <3>5. route'[c].epoch <= connections' BY <1>0, <3>1, <3>3, <3>4
    <3>6. up' /\ route'[c].epoch = conn' => Bounded(c, r.revision)' BY <3>1, <3>3, <3>4
    <3> QED BY <3>1, <3>5, <3>6 DEF Bounded
  <2> QED BY <2>1, <2>2, <1>4, RouteSteps
<1> QED BY <1>3, <1>4 DEF RepliesAreKnown

-----------------------------------------------------------------------------
(* No live reply is lost or overtaken.                                     *)

\* A token that matches after a step matched before it, over the same gate.
LEMMA MatchesFades ==
    ASSUME TypeOK, Counted, JobIsServed, SessionsAreOpened, RepliesAreKnown, Next,
           NEW r \in Published, live' # 0, Matches(r.token)'
    PROVE  live' = live /\ live # 0 /\ Matches(r.token)
<1> USE TypeOKParts
<1> DEFINE c == r.token.context
<1>1. /\ c \in Contexts /\ r.token.epoch \in 1..connections
      /\ r.token.generation <= generation[c]
  BY DEF RepliesAreKnown
<1>2. c \in alive' \ suspended' /\ r.token = Token(c)' BY DEF Matches
<1>3. r.token.epoch = live' /\ r.token.generation = generation'[c]
      /\ r.token = [context |-> c, epoch |-> live', generation |-> generation'[c]]
  <2>1. r.token = [context |-> c, epoch |-> live', generation |-> generation'[c]]
    BY <1>2 DEF Token
  <2> QED BY <2>1
<1>4. connections \in Nat BY DEF Counted
<1>5. live' = live /\ live # 0
  <2>1. r.token.epoch # connections + 1 BY <1>1, <1>4
  <2> QED BY <1>3, <2>1, GateSteps
<1>6. c \in alive \ suspended /\ generation[c] = generation'[c]
  <2>1. ContextsAge BY AliveShrinks
  <2>2. generation[c] <= generation'[c] /\ generation[c] \in Nat /\ generation'[c] \in Nat
    BY <1>1, <2>1 DEF ContextsAge, HostTyped
  <2>3. c \in alive \ suspended BY <1>2, <2>1 DEF ContextsAge
  <2> QED BY <1>1, <1>3, <2>2, <2>3
<1>7. r.token = Token(c) BY <1>3, <1>5, <1>6 DEF Token
<1> QED BY <1>5, <1>6, <1>7 DEF Matches

\* What a step makes of the replies accepted and applied.
LEMMA EditsSteps ==
    ASSUME TypeOK, Counted, GateIsOwned, JobIsServed, SessionsAreOpened, Next
    PROVE  /\ applied \subseteq applied'
           /\ \/ edits' = edits
              \/ Drain /\ edits' = edits \cup Fresh
              \/ /\ ApplyEdit
                 /\ \E r \in edits :
                       /\ edits' = edits \ {r}
                       /\ applied' = IF Matches(r.token) THEN applied \cup {r} ELSE applied
              \/ \E c \in alive : /\ alive' = alive \ {c}
                                  /\ edits' = {r \in edits : r.token.context # c}
<1>1. CASE Worker BY <1>1, WorkerMovesNone
<1>2. CASE EnginePublishes BY <1>2, WhatIsPublished
<1>3. CASE ServeOpen \/ Refuse \/ Lose \/ Subscription
  BY <1>3 DEF ServeOpen, Refuse, Lose, Subscription, Forward, SubscriptionEnds, hostSide, histVars
<1>4. CASE Drain BY <1>4 DEF Drain, histVars
<1>5. CASE ApplyEdit BY <1>5 DEF ApplyEdit
<1>6. CASE Remove BY <1>6 DEF Remove, histVars
<1>7. CASE HostStep /\ ~Drain /\ ~ApplyEdit /\ ~Remove
  BY <1>7 DEF HostStep, Key, ReuseTested, AskKey, PassKey, GiveUp, Receive, Decide,
     Focus, Cancel, Log, histVars
<1> QED BY <1>1, <1>2, <1>3, <1>4, <1>5, <1>6, <1>7, ServesPublish DEF Next, Engine, HostStep

\* A reply accepted under a token that still matches is kept.
LEMMA EditsKept ==
    ASSUME TypeOK, Counted, GateIsOwned, JobIsServed, SessionsAreOpened, Next,
           NEW q \in edits \cup applied, Matches(q.token), Matches(q.token)'
    PROVE  q \in edits' \cup applied'
<1>1. ASSUME NEW c, alive' = alive \ {c}, edits' = {r \in edits : r.token.context # c}, q \in edits
      PROVE  q \in edits'
  BY <1>1 DEF Matches
<1>2. ASSUME NEW r \in edits, edits' = edits \ {r}, q \in edits,
             applied' = IF Matches(r.token) THEN applied \cup {r} ELSE applied
      PROVE  q \in edits' \cup applied'
  BY <1>2
<1> QED BY <1>1, <1>2, EditsSteps

\* While the gate stays open, replies come closer one at a time.
LEMMA ComingSteps ==
    ASSUME TypeOK, Counted, GateIsOwned, JobIsServed, SessionsAreOpened, Next,
           live' = live, live # 0
    PROVE  \/ UNCHANGED <<updates, stream, route, sent>>
           \/ EnginePublishes
           \/ /\ stream # <<>> /\ stream' = Tail(stream)
              /\ updates' = Append(updates, Head(stream)) /\ UNCHANGED <<route, sent>>
           \/ Drain
<1>0. conn = live /\ subscribed /\ connections + 1 # live
  <2>1. connections \in Nat /\ live \in Nat /\ live <= connections
    <3>1. MaxConnections \in Nat BY ConstantsAssumption
    <3> QED BY <3>1, TypeOKParts DEF Counted, GateTyped
  <2>2. connections + 1 # live BY <2>1
  <2> QED BY <2>2 DEF GateIsOwned
<1>1. CASE TakeCommand
  BY <1>0, <1>1 DEF TakeCommand, connVars, hostSide, contextVars, histVars
<1>2. CASE Worker /\ ~TakeCommand
  BY <1>0, <1>2 DEF Worker, ExpireKey, Connected, ConnectFails, StampToken, Prepare,
     SessionOpened, ModeRestored, AnswerKey, ContextDone, RequestFails, Timeout, Disconnect,
     Invalidate, connVars, hostSide, contextVars, histVars
<1>3. CASE ServeOpen \/ Refuse \/ Lose
  BY <1>3 DEF ServeOpen, Refuse, Lose, workerSide, connVars, hostSide, contextVars, histVars
<1>4. CASE Forward
  BY <1>0, <1>4 DEF Forward, Invalidate, hostSide, contextVars, histVars
<1>5. CASE SubscriptionEnds
  BY <1>0, <1>5 DEF SubscriptionEnds, Invalidate
<1>6. CASE Key /\ ~Drain
  BY <1>0, <1>6 DEF Key, ReuseTested, AskKey, PassKey, GiveUp, Receive, ApplyEdit, Decide,
     Invalidate, wire, connVars, contextVars, histVars
<1>7. CASE Focus \/ Cancel \/ Remove \/ Log
  <2>1. CASE GateOrCut
    BY <1>0, <1>7, <2>1 DEF GateOrCut, Invalidate, Focus, Cancel, Remove, Log, wire, connVars,
       contextVars, histVars
  <2> QED BY <1>7, <2>1, Enqueues DEF EnqueueShape, Enqueue
<1> QED
  BY <1>1, <1>2, <1>3, <1>4, <1>5, <1>6, <1>7, ServesPublish DEF Next, Engine, Subscription

\* Where a coming reply is.
InUpdates(q, j) == j \in DOMAIN updates /\ updates[j] = q /\ Ahead(q, updates, j - 1)
InStream(q, j) == /\ j \in DOMAIN stream /\ stream[j] = q /\ Ahead(q, stream, j - 1)
                  /\ Ahead(q, updates, Len(updates))

\* Coming says where.
LEMMA ComingIs ==
    ASSUME NEW q
    PROVE  Coming(q) <=> /\ q.revision > Known(q.token.context)
                         /\ \E j : InUpdates(q, j) \/ InStream(q, j)
BY DEF Coming, InUpdates, InStream

\* So it does in the next state.
LEMMA ComingIsNext ==
    ASSUME NEW q
    PROVE  Coming(q)' <=> /\ q.revision > Known(q.token.context)'
                          /\ \E j : InUpdates(q, j)' \/ InStream(q, j)'
BY DEF Coming, InUpdates, InStream

\* A queue that keeps its first elements keeps what is ahead of them.
LEMMA AheadKept ==
    ASSUME NEW q, NEW s, NEW t, NEW n, \A k \in 1..n : t[k] = s[k], Ahead(q, s, n)
    PROVE  Ahead(q, t, n)
BY DEF Ahead

\* The queues before a step, as the next lemmas need them.
LEMMA QueueTypes ==
    ASSUME TypeOK
    PROVE  /\ stream \in Seq(Replies) /\ updates \in Seq(Replies)
           /\ DOMAIN stream = 1..Len(stream) /\ Len(stream) \in Nat
           /\ DOMAIN updates = 1..Len(updates) /\ Len(updates) \in Nat
<1> USE TypeOKParts
<1>1. stream \in Seq(Replies) /\ updates \in Seq(Replies) BY DEF ConnTyped, GateTyped
<1> QED BY <1>1

\* The subscription moves a reply on behind those of the queue,
LEMMA ComingForward ==
    ASSUME TypeOK, NEW q \in Replies, Coming(q), stream # <<>>, stream' = Tail(stream),
           updates' = Append(updates, Head(stream)), UNCHANGED <<route, live>>
    PROVE  Coming(q)'
<1>0. /\ stream \in Seq(Replies) /\ updates \in Seq(Replies)
      /\ DOMAIN stream = 1..Len(stream) /\ Len(stream) \in Nat
      /\ DOMAIN updates = 1..Len(updates) /\ Len(updates) \in Nat
  BY QueueTypes
<1>1. /\ Len(stream') = Len(stream) - 1 /\ Len(stream) >= 1 /\ stream' \in Seq(Replies)
      /\ Head(stream) = stream[1] /\ Head(stream) \in Replies
      /\ \A i \in 1..Len(stream) - 1 : stream'[i] = stream[i + 1]
  BY <1>0, TailOf
<1>2. /\ updates' \in Seq(Replies) /\ Len(updates') = Len(updates) + 1
      /\ updates'[Len(updates) + 1] = stream[1]
      /\ \A i \in 1..Len(updates) : updates'[i] = updates[i]
  BY <1>0, <1>1, AppendOf
<1>3. DOMAIN updates' = 1..Len(updates) + 1 /\ DOMAIN stream' = 1..Len(stream) - 1
  BY <1>1, <1>2
<1>4. q.revision > Known(q.token.context)'
  <2>1. Known(q.token.context)' = Known(q.token.context) BY DEF Known
  <2> QED BY <2>1 DEF Coming
<1>5. PICK j : InUpdates(q, j) \/ InStream(q, j) BY ComingIs
<1>6. CASE InUpdates(q, j)
  <2>1. j \in 1..Len(updates) /\ updates[j] = q /\ Ahead(q, updates, j - 1)
    BY <1>0, <1>6 DEF InUpdates
  <2>2. j \in 1..Len(updates) + 1 /\ updates'[j] = q /\ \A k \in 1..j - 1 : updates'[k] = updates[k]
    BY <1>0, <1>2, <2>1
  <2>3. Ahead(q, updates', j - 1) BY <2>1, <2>2, AheadKept
  <2>4. InUpdates(q, j)' BY <1>3, <2>2, <2>3 DEF InUpdates, Ahead
  <2> QED BY <1>4, <2>4, ComingIsNext
<1>7. CASE InStream(q, j) /\ j = 1
  <2>1. updates'[Len(updates) + 1] = q /\ Ahead(q, updates, Len(updates))
    BY <1>2, <1>7 DEF InStream
  <2>2. Ahead(q, updates', Len(updates)) BY <1>2, <2>1, AheadKept
  <2>3. PICK m \in Nat : m = Len(updates) + 1 /\ m - 1 = Len(updates) /\ m \in 1..Len(updates) + 1
    BY <1>0
  <2>4. m \in DOMAIN updates' /\ updates'[m] = q /\ Ahead(q, updates', m - 1)
    BY <1>3, <2>1, <2>2, <2>3
  <2>5. InUpdates(q, m)' BY <2>4 DEF InUpdates, Ahead
  <2> QED BY <1>4, <2>5, ComingIsNext
<1>8. CASE InStream(q, j) /\ j # 1
  <2>1. /\ j \in 1..Len(stream) /\ stream[j] = q /\ Ahead(q, stream, j - 1)
        /\ Ahead(q, updates, Len(updates))
    BY <1>0, <1>8 DEF InStream
  <2>2. PICK m \in Nat : /\ j = m + 1 /\ m \in 1..Len(stream) - 1 /\ j - 1 = m
                         /\ \A k \in 1..m - 1 : k + 1 \in 1..m /\ k \in 1..Len(stream) - 1
    <3>1. j - 1 \in Nat /\ j - 1 \in 1..Len(stream) - 1 /\ j = (j - 1) + 1
          /\ \A k \in 1..(j - 1) - 1 : k + 1 \in 1..j - 1 /\ k \in 1..Len(stream) - 1
      BY <1>0, <1>8, <2>1
    <3> QED BY <3>1
  <2>3. stream'[m] = q /\ m \in DOMAIN stream' BY <1>1, <1>3, <2>1, <2>2
  <2>4. \A k \in 1..m : stream[k].token.context = q.token.context => stream[k].revision < q.revision
    BY <2>1, <2>2 DEF Ahead
  <2>5. Ahead(q, stream', m - 1)
    <3>1. ASSUME NEW k \in 1..m - 1, stream'[k].token.context = q.token.context
          PROVE  stream'[k].revision < q.revision
      <4>1. k + 1 \in 1..m /\ stream'[k] = stream[k + 1] BY <1>1, <2>2, <3>1
      <4> QED BY <2>4, <3>1, <4>1
    <3> QED BY <3>1 DEF Ahead
  <2>6. Ahead(q, updates', Len(updates'))
    <3>1. ASSUME NEW k \in 1..Len(updates) + 1, updates'[k].token.context = q.token.context
          PROVE  updates'[k].revision < q.revision
      <4>1. CASE k \in 1..Len(updates)
        BY <1>2, <2>1, <3>1, <4>1 DEF Ahead
      <4>2. CASE k = Len(updates) + 1
        <5>1. updates'[k] = stream[1] /\ 1 \in 1..m BY <1>2, <2>2, <4>2
        <5> QED BY <2>4, <3>1, <5>1
      <4> QED BY <1>0, <4>1, <4>2
    <3> QED BY <1>2, <3>1 DEF Ahead
  <2>7. InStream(q, m)' BY <2>3, <2>5, <2>6 DEF InStream, Ahead
  <2> QED BY <1>4, <2>7, ComingIsNext
<1> QED BY <1>5, <1>6, <1>7, <1>8

\* a step that touches neither queue, routes nor the gate keeps it coming,
LEMMA ComingKept ==
    ASSUME NEW q, Coming(q), UNCHANGED <<updates, stream, route, live>>
    PROVE  Coming(q)'
BY DEF Coming, Known, Ahead

\* and one published later comes behind it.
LEMMA ComingPublish ==
    ASSUME TypeOK, NEW q \in Replies, Coming(q), NEW r \in Replies, stream' = Append(stream, r),
           UNCHANGED <<updates, route, live>>
    PROVE  Coming(q)'
<1>0. /\ stream \in Seq(Replies) /\ DOMAIN stream = 1..Len(stream) /\ Len(stream) \in Nat
  BY QueueTypes
<1>1. /\ stream' \in Seq(Replies) /\ Len(stream') = Len(stream) + 1
      /\ \A i \in 1..Len(stream) : stream'[i] = stream[i]
  BY <1>0, AppendOf
<1>6. DOMAIN stream' = 1..Len(stream) + 1 BY <1>1
<1>2. q.revision > Known(q.token.context)'
  <2>1. Known(q.token.context)' = Known(q.token.context) BY DEF Known
  <2> QED BY <2>1 DEF Coming
<1>3. PICK j : InUpdates(q, j) \/ InStream(q, j) BY ComingIs
<1>4. CASE InUpdates(q, j)
  <2>1. InUpdates(q, j)' BY <1>4 DEF InUpdates, Ahead
  <2> QED BY <1>2, <2>1, ComingIsNext
<1>5. CASE InStream(q, j)
  <2>1. j \in 1..Len(stream) /\ stream[j] = q /\ Ahead(q, stream, j - 1)
    BY <1>0, <1>5 DEF InStream
  <2>2. /\ j \in 1..Len(stream) + 1 /\ stream'[j] = q
        /\ \A k \in 1..j - 1 : stream'[k] = stream[k]
    BY <1>0, <1>1, <2>1
  <2>3. Ahead(q, stream', j - 1) BY <2>1, <2>2, AheadKept
  <2>6. j \in DOMAIN stream' BY <1>6, <2>2
  <2>4. Ahead(q, updates', Len(updates')) BY <1>5 DEF InStream
  <2>5. InStream(q, j)' BY <2>2, <2>3, <2>4, <2>6 DEF InStream, Ahead
  <2> QED BY <1>2, <2>5, ComingIsNext
<1> QED BY <1>3, <1>4, <1>5

\* A drain accepts a coming reply that is queued, and no reply of its context that
\* is ahead of one that is not.
LEMMA ComingDrain ==
    ASSUME TypeOK, Counted, Drain, Next, NEW q \in Replies, Coming(q), live # 0, Matches(q.token)
    PROVE  q \in Fresh \/ (Coming(q)' /\ \A r \in Fresh :
                              r.token.context = q.token.context => r.revision < q.revision)
<1> USE TypeOKParts
<1>0. /\ updates \in Seq(Replies) /\ DOMAIN updates = 1..Len(updates) /\ Len(updates) \in Nat
  BY QueueTypes
<1>1. PICK j : InUpdates(q, j) \/ InStream(q, j) BY ComingIs
<1>2. CASE InUpdates(q, j)
  <2>1. j \in DOMAIN updates /\ updates[j] = q /\ Ahead(q, updates, j - 1) BY <1>2 DEF InUpdates
  <2>2. Acceptable(q) BY DEF Acceptable, Coming
  <2>3. \A k \in 1..j-1 : updates[k].token = q.token => updates[k].revision < q.revision
    BY <2>1 DEF Ahead
  <2> QED BY <2>1, <2>2, <2>3 DEF Fresh
<1>3. CASE InStream(q, j)
  <2>1. /\ stream' = stream /\ live' = live /\ updates' = <<>>
    BY DEF Drain, wire, connVars, gateVars
  <2>2. \A r \in Fresh : r.token.context = q.token.context => r.revision < q.revision
    <3>1. \A r \in Fresh : \E k \in DOMAIN updates : r = updates[k]
      BY FreshTyped DEF Elements
    <3>2. Ahead(q, updates, Len(updates)) BY <1>3 DEF InStream
    <3> QED BY <1>0, <3>1, <3>2 DEF Ahead
  <2>3. q.revision > Known(q.token.context)'
    <3>1. q.token.context \in Contexts BY DEF Matches, HostTyped
    <3>2. CASE route'[q.token.context] = route[q.token.context]
      BY <2>1, <3>2 DEF Known, Coming
    <3>3. CASE \E r \in Fresh : /\ r.token.context = q.token.context
                                /\ route'[q.token.context].revision = r.revision
                                /\ route'[q.token.context].epoch = live
      <4>1. PICK r \in Fresh : /\ r.token.context = q.token.context
                               /\ route'[q.token.context].revision = r.revision
                               /\ route'[q.token.context].epoch = live
        BY <3>3
      <4>2. r.revision < q.revision /\ r.revision \in Nat /\ q.revision \in Nat
        BY <2>2, <4>1, FreshTyped DEF Replies
      <4>3. Known(q.token.context)' = r.revision BY <2>1, <4>1 DEF Known
      <4> QED BY <4>2, <4>3
    <3> QED BY <3>1, <3>2, <3>3, RouteSteps
  <2>4. InStream(q, j)'
    <3>1. \A k \in 1..Len(<<>>) : FALSE BY OnlyElements
    <3>2. Ahead(q, updates', Len(updates')) BY <2>1, <3>1 DEF Ahead
    <3>3. j \in DOMAIN stream' /\ stream'[j] = q /\ Ahead(q, stream', j - 1)
      BY <1>3, <2>1 DEF InStream
    <3> QED BY <3>2, <3>3 DEF InStream, Ahead
  <2> QED BY <2>2, <2>3, <2>4, ComingIsNext
<1> QED BY <1>1, <1>2, <1>3

\* What the engine's step adds to the replies sent.
LEMMA WhatIsSent ==
    ASSUME TypeOK, Counted, GateIsOwned, JobIsServed, SessionsAreOpened, RepliesAreKnown,
           EnginePublishes, NEW q \in sent', q \notin sent
    PROVE  /\ q \in Replies /\ up /\ q.token.context \in Contexts /\ q.token.epoch = conn
           /\ session[q.token.context] # NoSession
           /\ q.revision = session[q.token.context].revision + 1
           /\ session[q.token.context].revision \in Nat
           /\ subscribed => stream' = Append(stream, q)
           /\ UNCHANGED <<live, updates, route, edits, applied, alive, suspended, generation>>
<1> USE TypeOKParts
<1>1. PICK r \in Replies, c \in Contexts :
             /\ up /\ session[c] # NoSession /\ r.token.context = c /\ r.token.epoch = conn
             /\ \/ sent' = sent
                \/ sent' = sent \cup {r} /\ r.revision = session[c].revision + 1
             /\ subscribed => stream' = Append(stream, r)
             /\ UNCHANGED <<workerSide, contextVars, edits, applied>>
  BY WhatIsPublished
<1>2. q = r /\ r.revision = session[c].revision + 1 BY <1>1
<1>3. session[c].revision \in Nat BY DEF EngineTyped, Sessions
<1> QED BY <1>1, <1>2, <1>3 DEF workerSide, gateVars, contextVars

\* A reply of the connection is behind its session.
LEMMA BehindSession ==
    ASSUME RepliesAreKnown, up, NEW r \in Published, r.token.epoch = conn,
           session[r.token.context] # NoSession
    PROVE  r.revision <= session[r.token.context].revision
BY DEF RepliesAreKnown, Bounded

\* A reply that is published is the newest of its context, so it is coming.
LEMMA NewIsComing ==
    ASSUME TypeOK, Counted, GateIsOwned, JobIsServed, SessionsAreOpened, RepliesAreKnown,
           EnginePublishes, NEW q \in sent', q \notin sent, live # 0
    PROVE  Coming(q)'
<1> USE TypeOKParts
<1> DEFINE c == q.token.context
<1>0. /\ stream \in Seq(Replies) /\ DOMAIN stream = 1..Len(stream) /\ Len(stream) \in Nat
      /\ updates \in Seq(Replies) /\ DOMAIN updates = 1..Len(updates)
  BY QueueTypes
<1>1. /\ q \in Replies /\ up /\ c \in Contexts
      /\ session[c] # NoSession /\ q.revision = session[c].revision + 1
      /\ session[c].revision \in Nat
      /\ subscribed => stream' = Append(stream, q)
      /\ UNCHANGED <<live, updates, route>>
  BY WhatIsSent
<1>2. conn = live /\ subscribed BY DEF GateIsOwned
<1>3. /\ stream' \in Seq(Replies) /\ Len(stream') = Len(stream) + 1
      /\ stream'[Len(stream) + 1] = q /\ \A i \in 1..Len(stream) : stream'[i] = stream[i]
  <2>1. stream' = Append(stream, q) /\ q \in Replies BY <1>1, <1>2
  <2> HIDE DEF c
  <2> QED BY <1>0, <2>1, AppendOf
<1>4. DOMAIN stream' = 1..Len(stream) + 1 BY <1>3
<1>5. \A r \in Published : r.token.epoch = conn /\ r.token.context = c => r.revision < q.revision
  <2>1. ASSUME NEW r \in Published, r.token.epoch = conn, r.token.context = c
        PROVE  r.revision < q.revision
    <3>1. r.revision <= session[c].revision BY <1>1, <2>1, BehindSession
    <3>2. r.revision \in Nat
      <4>1. Published \subseteq Replies
        <5>1. Elements(stream) \subseteq Replies /\ Elements(updates) \subseteq Replies
          BY <1>0 DEF Elements
        <5> QED BY <5>1 DEF Published, OnTheWay, HostTyped, HistTyped
      <4> QED BY <2>1, <4>1 DEF Replies
    <3> QED BY <1>1, <3>1, <3>2
  <2> QED BY <2>1
<1>6. Ahead(q, stream, Len(stream))
  <2>1. ASSUME NEW k \in 1..Len(stream), stream[k].token.context = c
        PROVE  stream[k].revision < q.revision
    <3>1. k \in DOMAIN stream BY <1>0
    <3>2. stream[k] \in Published BY <3>1 DEF Published, OnTheWay, Elements
    <3>3. stream[k].token.epoch = conn BY <3>1 DEF GateIsOwned
    <3> QED BY <1>5, <2>1, <3>2, <3>3
  <2> QED BY <2>1 DEF Ahead
<1>7. Ahead(q, updates, Len(updates))
  <2>1. ASSUME NEW k \in 1..Len(updates), updates[k].token.context = c
        PROVE  updates[k].revision < q.revision
    <3>1. k \in DOMAIN updates BY <1>0
    <3>2. updates[k] \in Published BY <3>1 DEF Published, OnTheWay, Elements
    <3>3. updates[k].token.epoch = conn BY <1>2, <3>1 DEF GateIsOwned
    <3> QED BY <1>5, <2>1, <3>2, <3>3
  <2> QED BY <2>1 DEF Ahead
<1>8. q.revision > Known(c)'
  <2>1. Known(c)' = IF route[c].epoch = live THEN route[c].revision ELSE 0
    BY <1>1 DEF Known
  <2>2. CASE route[c].epoch = live
    <3>1. Bounded(c, route[c].revision) BY <1>1, <1>2, <2>2 DEF RepliesAreKnown
    <3>2. route[c].revision <= session[c].revision BY <1>1, <3>1 DEF Bounded
    <3>3. route[c].revision \in Nat BY <1>1 DEF HostTyped
    <3>4. Known(c)' = route[c].revision BY <2>1, <2>2
    <3> HIDE DEF c
    <3> QED BY <1>1, <3>2, <3>3, <3>4
  <2>3. CASE route[c].epoch # live
    <3>1. Known(c)' = 0 BY <2>1, <2>3
    <3> HIDE DEF c
    <3> QED BY <1>1, <3>1
  <2> QED BY <2>2, <2>3
<1>9. PICK m \in Nat : m = Len(stream) + 1 /\ m - 1 = Len(stream) /\ m \in 1..Len(stream) + 1
  BY <1>0
<1>10. Ahead(q, stream', m - 1) BY <1>3, <1>6, <1>9, AheadKept
<1>11. Ahead(q, updates', Len(updates')) BY <1>1, <1>7
<1>12. m \in DOMAIN stream' /\ stream'[m] = q BY <1>3, <1>4, <1>9
<1>13. InStream(q, m)' BY <1>10, <1>11, <1>12 DEF InStream, Ahead
<1> QED BY <1>8, <1>13, ComingIsNext

\* No step loses a reply of a live token.
LEMMA LostStep ==
    ASSUME TypeOK, Counted, GateIsOwned, JobIsServed, SessionsAreOpened, RepliesAreKnown,
           NothingIsLost, Next
    PROVE  NothingIsLost'
<1> USE TypeOKParts
<1>1. SUFFICES ASSUME NEW q \in sent', live' # 0, Matches(q.token)'
               PROVE  q \in edits' \cup applied' \/ Coming(q)'
  BY DEF NothingIsLost
<1>2. CASE q \notin sent
  <2>1. EnginePublishes BY <1>1, <1>2, RepliesMove DEF RepliesMoveOn
  <2>2. live' = live BY <1>2, <2>1, WhatIsSent
  <2> QED BY <1>1, <1>2, <2>1, <2>2, NewIsComing
<1>3. CASE q \in sent
  <2>1. live' = live /\ live # 0 /\ Matches(q.token)
    BY <1>1, <1>3, MatchesFades DEF Published
  <2>2. q \in Replies BY <1>3 DEF HistTyped
  <2>3. q \in edits \cup applied \/ Coming(q) BY <1>3, <2>1 DEF NothingIsLost
  <2>4. CASE q \in edits \cup applied BY <1>1, <2>1, <2>4, EditsKept
  <2>5. CASE Coming(q)
    <3>1. CASE UNCHANGED <<updates, stream, route, sent>> BY <2>1, <2>5, <3>1, ComingKept
    <3>2. CASE EnginePublishes
      <4>1. PICK r \in Replies :
              /\ stream' = Append(stream, r) \/ stream' = stream
              /\ UNCHANGED <<workerSide, contextVars>>
        BY <3>2, WhatIsPublished
      <4>2. UNCHANGED <<updates, route>> BY <4>1 DEF workerSide, contextVars
      <4> QED BY <2>1, <2>2, <2>5, <4>1, <4>2, ComingPublish, ComingKept
    <3>3. CASE /\ stream # <<>> /\ stream' = Tail(stream)
               /\ updates' = Append(updates, Head(stream)) /\ UNCHANGED <<route, sent>>
      BY <2>1, <2>2, <2>5, <3>3, ComingForward
    <3>4. CASE Drain
      <4>1. q \in Fresh \/ Coming(q)' BY <2>1, <2>2, <2>5, <3>4, ComingDrain
      <4> QED BY <3>4, <4>1 DEF Drain
    <3> QED BY <2>1, <3>1, <3>2, <3>3, <3>4, ComingSteps
  <2> QED BY <2>3, <2>4, <2>5
<1> QED BY <1>2, <1>3

\* No step overtakes a reply of a live token.
LEMMA SkippedStep ==
    ASSUME TypeOK, Counted, GateIsOwned, JobIsServed, SessionsAreOpened, RepliesAreKnown,
           NothingIsLost, NothingIsSkipped, Next
    PROVE  NothingIsSkipped'
<1> USE TypeOKParts
<1>1. SUFFICES ASSUME NEW r \in edits' \cup applied', NEW q \in sent', live' # 0,
                      Matches(r.token)', q.token = r.token, q.revision < r.revision
               PROVE  q \in edits' \cup applied'
  BY DEF NothingIsSkipped
<1>2. r \in edits \cup applied \/ (Drain /\ r \in Fresh)
  <2>1. applied' \subseteq applied \cup edits
    BY AppliesOne
  <2>2. edits' \subseteq edits \/ (Drain /\ edits' = edits \cup Fresh)
    BY EditsSteps
  <2> QED BY <1>1, <2>1, <2>2
<1>3. r \in Published BY <1>2, FreshTyped DEF Published, OnTheWay
<1>4. live' = live /\ live # 0 /\ Matches(r.token) BY <1>1, <1>3, MatchesFades
<1>5. CASE q \in sent
  <2>1. Matches(q.token) /\ Matches(q.token)' BY <1>1, <1>4
  <2>2. q \in Replies BY <1>5 DEF HistTyped
  <2>3. CASE q \in edits \cup applied BY <2>1, <2>3, EditsKept
  <2>4. CASE r \in edits \cup applied
    <3>1. q \in edits \cup applied BY <1>1, <1>4, <1>5, <2>4 DEF NothingIsSkipped
    <3> QED BY <2>3, <3>1
  <2>5. CASE Drain /\ r \in Fresh /\ Coming(q)
    <3>1. \/ q \in Fresh
          \/ \A p \in Fresh : p.token.context = q.token.context => p.revision < q.revision
      BY <1>4, <2>1, <2>2, <2>5, ComingDrain
    <3>2. r.revision \in Nat /\ q.revision \in Nat
      BY <2>2, <2>5, FreshTyped DEF Replies
    <3>3. q \in Fresh BY <1>1, <2>5, <3>1, <3>2
    <3> QED BY <2>5, <3>3 DEF Drain
  <2>6. q \in edits \cup applied \/ Coming(q) BY <1>4, <1>5, <2>1 DEF NothingIsLost
  <2> QED BY <1>2, <2>3, <2>4, <2>5, <2>6
<1>6. CASE q \notin sent
  <2>1. EnginePublishes BY <1>1, <1>6, RepliesMove DEF RepliesMoveOn
  <2>2. /\ up /\ q.token.context \in Contexts /\ q.token.epoch = conn
        /\ session[q.token.context] # NoSession
        /\ q.revision = session[q.token.context].revision + 1
        /\ session[q.token.context].revision \in Nat /\ q.revision \in Nat
    BY <1>6, <2>1, WhatIsSent DEF Replies
  <2>3. r.revision <= session[q.token.context].revision
    BY <1>1, <1>3, <2>2, BehindSession
  <2>4. r.revision \in Nat
    <3>1. r \in Replies BY <1>2, FreshTyped DEF HostTyped, HistTyped
    <3> QED BY <3>1 DEF Replies
  <2> QED BY <1>1, <2>2, <2>3, <2>4
<1> QED BY <1>5, <1>6

\* Edits wait in the order of their revisions.
LEMMA OrderStep ==
    ASSUME TypeOK, Counted, GateIsOwned, JobIsServed, SessionsAreOpened, RepliesAreKnown,
           NothingIsSkipped, InOrder, Next
    PROVE  InOrder'
<1> USE TypeOKParts
<1>1. SUFFICES ASSUME NEW r \in applied', NEW q \in sent', q.token = r.token,
                      q.revision < r.revision
               PROVE  q \in applied'
  BY DEF InOrder
<1>2. applied \subseteq applied' BY EditsSteps
<1>3. r \in Published /\ r \in Replies
  <2>1. r \in applied \cup edits BY <1>1, AppliesOne
  <2> QED BY <2>1 DEF Published, OnTheWay, HostTyped, HistTyped
<1>4. CASE q \in sent /\ r \in applied BY <1>1, <1>2, <1>4 DEF InOrder
<1>5. CASE q \in sent /\ r \notin applied
  <2>1. /\ r \in edits /\ applied' = applied \cup {r} /\ Matches(r.token) /\ ApplyEdit
    BY <1>1, <1>5, AppliesOne
  <2>2. r.token.epoch = live /\ r.token.epoch # 0
    BY <1>3, <2>1 DEF Matches, Token, RepliesAreKnown
  <2>3. q \in edits \cup applied BY <1>1, <1>5, <2>1, <2>2 DEF NothingIsSkipped
  <2>4. PICK p \in edits :
          /\ \A o \in edits : /\ o.token.context = p.token.context
                              /\ o.token.epoch = p.token.epoch
                              => p.revision <= o.revision
          /\ applied' = IF Matches(p.token) THEN applied \cup {p} ELSE applied
    BY <2>1 DEF ApplyEdit
  <2>5. p = r BY <1>1, <1>5, <2>1, <2>4
  <2>6. q.revision \in Nat /\ r.revision \in Nat BY <1>3, <1>5 DEF HistTyped, Replies
  <2>7. q \notin edits BY <1>1, <2>4, <2>5, <2>6
  <2> QED BY <1>2, <2>3, <2>7
<1>6. CASE q \notin sent
  <2>1. EnginePublishes BY <1>1, <1>6, RepliesMove DEF RepliesMoveOn
  <2>2. /\ up /\ q.token.context \in Contexts /\ q.token.epoch = conn
        /\ session[q.token.context] # NoSession
        /\ q.revision = session[q.token.context].revision + 1
        /\ session[q.token.context].revision \in Nat /\ q.revision \in Nat
    BY <1>6, <2>1, WhatIsSent DEF Replies
  <2>3. r.revision <= session[q.token.context].revision
    BY <1>1, <1>3, <2>2, BehindSession
  <2>4. r.revision \in Nat BY <1>3 DEF Replies
  <2> QED BY <1>1, <2>2, <2>3, <2>4
<1> QED BY <1>4, <1>5, <1>6

-----------------------------------------------------------------------------
(* The invariant holds initially and is kept by every step.                *)

\* The initial state has all of it.
LEMMA InitHolds ==
    ASSUME Init
    PROVE  IInv
<1>0. /\ MaxConnections \in Nat /\ MaxAsks \in Nat /\ UpdateLimit \in Nat /\ CommandLimit \in Nat
      /\ NoContext \notin Contexts
  BY ConstantsAssumption
<1>1. TypeOK
  <2>1. <<>> \in Seq(Replies) /\ <<>> \in Seq(Jobs) /\ Len(<<>>) = 0 BY EmptySeq
  <2>2. GateTyped
    <3>1. updates = <<>> /\ commands = <<>> /\ live = 0 /\ cut = FALSE /\ failed = FALSE
      BY DEF Init
    <3>2. updates \in Seq(Replies) /\ commands \in Seq(Jobs) BY <2>1, <3>1
    <3>3. Len(updates) <= UpdateLimit /\ Len(commands) <= CommandLimit BY <1>0, <2>1, <3>1
    <3>4. 0 \in 0..MaxConnections BY <1>0
    <3> QED BY <3>1, <3>2, <3>3, <3>4 DEF GateTyped
  <2>3. ConnTyped
    <3>1. stream = <<>> /\ job = Idle /\ conn = 0 /\ up = FALSE /\ subscribed = FALSE
          /\ opened = {}
      BY DEF Init
    <3>2. stream \in Seq(Replies) BY <2>1, <3>1
    <3>3. 0 \in 0..MaxConnections BY <1>0
    <3> QED BY <3>1, <3>2, <3>3, BlankTyped DEF ConnTyped
  <2>4. EngineTyped BY BlankTyped DEF Init, EngineTyped
  <2>5. HostTyped BY <1>0, BlankTyped DEF Init, HostTyped
  <2>6. HistTyped BY DEF Init, HistTyped
  <2> QED BY <2>2, <2>3, <2>4, <2>5, <2>6, TypeOKParts
<1>2. Counted BY <1>0 DEF Init, Counted
<1>3. GateIsOwned BY NothingIn DEF Init, GateIsOwned
<1>4. JobIsServed /\ AnswerFits /\ NeverRefused
  BY DEF Init, JobIsServed, AnswerFits, NeverRefused, Idle, Asked, Phases, NoAnswer
<1>5. SessionsAreOpened BY DEF Init, SessionsAreOpened, Idle, Asked
<1>6. \A i \in DOMAIN commands : FALSE BY NothingIn DEF Init
<1>7. GenerationsGrow
  <2>1. \A c \in Contexts : session[c].token.generation = 0 /\ generation[c] = 1
    BY DEF Init, NoSession, NoToken
  <2>2. job.token.context \notin Contexts BY <1>0 DEF Init, Idle, NoToken
  <2>3. 0 <= 1 OBVIOUS
  <2> QED BY <1>6, <2>1, <2>2, <2>3 DEF GenerationsGrow
<1>8. QueueIsKnown BY <1>6 DEF QueueIsKnown
<1>9. DestroyIsLast BY <1>6 DEF Init, DestroyIsLast, Idle
<1>10. OnTheWay = {} /\ applied = {} /\ sent = {} /\ edits = {}
  <2>1. \A i \in DOMAIN stream : FALSE BY NothingIn DEF Init
  <2>2. \A i \in DOMAIN updates : FALSE BY NothingIn DEF Init
  <2>3. Elements(stream) = {} /\ Elements(updates) = {} BY <2>1, <2>2 DEF Elements
  <2> QED BY <2>3 DEF Init, OnTheWay
<1>11. AbandonedIsDead
  <2>1. host = "idle" /\ ask.ask = 0 /\ ask.kind = "none" /\ asks = 0 /\ abandoned = {}
        /\ job.ask = 0
    BY DEF Init, NoAnswer, Idle
  <2>2. 0 <= 0 OBVIOUS
  <2> QED BY <1>6, <1>10, <2>1, <2>2 DEF AbandonedIsDead
<1>12. AbandonedIsSilent BY <1>10 DEF AbandonedIsSilent
<1>13. AskedOnce BY <1>6 DEF Init, AskedOnce, Idle, NoAnswer
<1>14. RepliesAreKnown
  <2>1. \A c \in Contexts : route[c].epoch <= connections BY DEF Init
  <2> QED BY <1>10, <2>1 DEF RepliesAreKnown, Published, Init
<1>15. NothingIsLost /\ NothingIsSkipped /\ InOrder
  BY <1>10 DEF NothingIsLost, NothingIsSkipped, InOrder
<1>16. PressIsTested BY DEF Init, PressIsTested
<1> QED
  BY <1>1, <1>2, <1>3, <1>4, <1>5, <1>7, <1>8, <1>9, <1>11, <1>12, <1>13, <1>14, <1>15, <1>16
  DEF IInv

\* Every step keeps all of it.
LEMMA StepHolds ==
    ASSUME IInv, Next
    PROVE  IInv'
<1> USE DEF IInv
<1>1. TypeOK' /\ Counted' BY TypeWorker, TypeEngine, TypeSubscription, TypeKey, TypeMoves DEF Next
<1>2. GateIsOwned' BY GateWorker, GateEngine, GateSubscription, GateHost DEF Next, HostStep
<1>3. JobIsServed' BY JobWorker, JobElsewhere DEF Next, HostStep
<1>4. AnswerFits' BY AnswerWorker, AnswerElsewhere DEF Next, HostStep
<1>5. SessionsAreOpened' BY OpenedWorker, OpenedEngine, OpenedElsewhere DEF Next, HostStep
<1>6. GenerationsGrow' BY <1>1, Grows
<1>7. QueueIsKnown' BY QueueKnown
<1>8. DestroyIsLast' BY DestroyLast
<1>9. AbandonedIsDead' BY <1>1, AbandonedStep
<1>10. AbandonedIsSilent' BY SilentStep
<1>11. AskedOnce' BY <1>1, AskedOnceStep, AbandonedParts
<1>12. RepliesAreKnown' BY <1>1, <1>8, KnownStep
<1>13. NothingIsLost' BY LostStep
<1>14. NothingIsSkipped' BY SkippedStep
<1>15. InOrder' BY OrderStep
<1>16. PressIsTested' BY PressStep
<1>17. NeverRefused' BY NeverRefuses
<1> QED
  BY <1>1, <1>2, <1>3, <1>4, <1>5, <1>6, <1>7, <1>8, <1>9, <1>10, <1>11, <1>12, <1>13, <1>14,
     <1>15, <1>16, <1>17

\* And so does a step that changes nothing.
LEMMA StutterHolds ==
    ASSUME IInv, UNCHANGED vars
    PROVE  IInv'
<1> USE DEF vars, gateVars, connVars, engineVars, contextVars, keyVars, boundVars, histVars, IInv
<1>1. TypeOK' BY DEF TypeOK
<1>2. Counted' /\ GateIsOwned' /\ JobIsServed' /\ AnswerFits'
  BY DEF Counted, GateIsOwned, JobIsServed, AnswerFits
<1>3. SessionsAreOpened' /\ GenerationsGrow' /\ QueueIsKnown' /\ DestroyIsLast'
  BY DEF SessionsAreOpened, GenerationsGrow, QueueIsKnown, DestroyIsLast
<1>4. OnTheWay' = OnTheWay /\ Published' = Published
  BY DEF OnTheWay, Published
<1>5. AbandonedIsDead' /\ AbandonedIsSilent' /\ AskedOnce'
  BY <1>4 DEF AbandonedIsDead, Dead, AbandonedIsSilent, AskedOnce
<1>6. RepliesAreKnown' BY <1>4 DEF RepliesAreKnown, Bounded, Gone
<1>7. NothingIsLost'
  <2>1. ASSUME NEW q \in sent, Coming(q) PROVE Coming(q)' BY <2>1, ComingKept
  <2> QED BY <2>1 DEF NothingIsLost, Matches, Token
<1>8. NothingIsSkipped' /\ InOrder' BY DEF NothingIsSkipped, InOrder, Matches, Token
<1>9. PressIsTested' /\ NeverRefused' BY DEF PressIsTested, NeverRefused, Matches, Token
<1> QED BY <1>1, <1>2, <1>3, <1>5, <1>6, <1>7, <1>8, <1>9

\* For all constants: the inductive invariant holds.  It is what the theorems below
\* are read from.
THEOREM ChannelStrengthened == Spec => []IInv
<1>1. Init => IInv BY InitHolds
<1>2. IInv /\ [Next]_vars => IInv' BY StepHolds, StutterHolds
<1> QED BY <1>1, <1>2, PTL DEF Spec

-----------------------------------------------------------------------------
(* What it says.                                                           *)

\* For every number of contexts, keys, connections, moves and pushes and any size of
\* the two queues: the types and the bounds of both queues are kept, and the engine
\* refuses no request of an open gate, although the host goes on queueing while the
\* worker serves (tip/src/rpc_worker.rs, server/src/engine.rs).
THEOREM ChannelInvariant == Spec => []Inv
<1>1. IInv => Inv BY DEF IInv, Inv
<1> QED BY <1>1, ChannelStrengthened, PTL

\* A key the host gave up at its deadline never changes the text: its command is
\* dropped, or its reply is of an epoch that no later gate has.
THEOREM AbandonedStaysSilent == Spec => []AbandonedIsSilent
<1>1. IInv => AbandonedIsSilent BY DEF IInv
<1> QED BY <1>1, ChannelStrengthened, PTL

\* A reply that is coming is in the stream or in the reply queue.
LEMMA ComingIsSomewhere ==
    ASSUME NEW q, Coming(q)
    PROVE  q \in Elements(stream) \cup Elements(updates)
BY DEF Coming, Elements

\* No reply of a live token is lost or overtaken on its two ways, and the worker's
\* opened contexts are the engine's sessions.
THEOREM RepliesStayRouted == Spec => []RepliesAreRouted
<1>1. IInv => RepliesAreRouted
  <2>1. SUFFICES ASSUME IInv PROVE RepliesAreRouted OBVIOUS
  <2>2. NothingLost BY <2>1, ComingIsSomewhere DEF IInv, NothingIsLost, NothingLost
  <2>3. SessionsAgree BY <2>1 DEF IInv, SessionsAreOpened, SessionsAgree
  <2> QED BY <2>1, <2>2, <2>3 DEF IInv, RepliesAreRouted
<1> QED BY <1>1, ChannelStrengthened, PTL

\* A key consumed in its test is not asked again under the token it was tested with
\* (forward_key_event of tip/src/service/key_event.rs).
THEOREM TestedIsNotAskedAgain == Spec => OncePerPress
<1>1. IInv /\ [Next]_vars => [host = "idle" /\ host' = "waiting" => press # Token(focused)]_vars
  <2>1. SUFFICES ASSUME IInv, Next, host = "idle", host' = "waiting"
                 PROVE  press # Token(focused)
    BY DEF vars
  <2>2. AskKey BY <2>1, WaitIsAsked
  <2> QED BY <2>1, <2>2, PressAskKey DEF IInv
<1> QED BY <1>1, ChannelStrengthened, PTL DEF Spec, OncePerPress
=============================================================================
