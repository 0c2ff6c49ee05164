--------------------------- MODULE EngineSession ---------------------------
(***************************************************************************)
(* The engine's input sessions (server/src/engine.rs, session_route.rs,    *)
(* librime/mod.rs) between the host that types and measures and the        *)
(* renderer that shows and is clicked.                                     *)
(*                                                                         *)
(* A reply travels to the host, the host edits its document and measures   *)
(* where the composition stands (tip/src/service/layout.rs), and only that *)
(* measure lets the engine show the composition's candidates.  Everything  *)
(* on this way can be late.  A click comes back from a snapshot that may   *)
(* be out of date, and so does the place of a mode indicator.              *)
(*                                                                         *)
(* librime is external: a key may begin, go on with or end the composition *)
(* and change the mode.  Its state is numbered (n), and a composition has  *)
(* the number of its birth, which a measure carries as the anchor: that is *)
(* how a property tells whose geometry is used.                            *)
(***************************************************************************)
EXTENDS Naturals, Sequences

CONSTANTS
  Contexts,    \* the documents that take input
  Processes,   \* the hosts, one connection each
  HostOf,      \* the host of a context
  None,
  GlobalMode,  \* .global_ascii_status: one mode for all sessions
  Acts,        \* what a host does to a composition beside keys and focus
  Reasons,     \* .input_mode_indicator: what asks for an indicator
  MaxMoves,    \* bound on what the user and the environment do
  MaxBirths,   \* bound on compositions
  MaxEpoch     \* bound on a host's connections

ASSUME SessionAssumption ==
  /\ HostOf \in [Contexts -> Processes]
  /\ GlobalMode \in BOOLEAN /\ Reasons \in {{"focus", "switch"}, {"switch"}, {}}
  /\ Acts \subseteq {"cancel", "terminated", "submit", "toggle"}
  /\ {MaxMoves, MaxBirths, MaxEpoch} \subseteq Nat

\* The values of the variables.
Modes == {"native", "ascii"}
Keys == Contexts \X (1 .. MaxEpoch)
NoKey == <<None, 0>>
Commands == [kind : {"key", "focus", "blur", "cancel", "terminated", "submit", "toggle", "destroy"},
             c : Contexts, gen : Nat]
Probes == [for : {"nothing", "comp", "tag"}, gen : Nat, epoch : Nat, tag : Nat]
Docs == [alive : BOOLEAN, gen : Nat, comp : Nat, epoch : Nat, applied : Nat,
         probe : Probes, retry : Probes, cleaning : BOOLEAN]
Measures == [gen : Nat, epoch : Nat, rev : Nat, tag : Nat, anchor : Nat, conn : Nat]
Letters == [of : Contexts, layout : Measures]
Replies == [rev : Nat, gen : Nat, epoch : Nat, born : Nat, updated : BOOLEAN, tag : Nat]
Tags == [tag : Nat, mode : Modes]
Lasts == [born : Nat, n : Nat, cands : BOOLEAN, ext : BOOLEAN, ascii : Modes \cup {"none"}]
Rimes == [born : Nat, n : Nat, ascii : Modes]
Sessions == [rev : Nat, gen : Nat, focused : BOOLEAN, anchor : Nat, waiting : Nat, latest : Nat,
             pending : Tags, last : Lasts, rime : Rimes]
Snapshots == [key : Keys \cup {NoKey}, rev : Nat, gen : Nat, on : BOOLEAN, visible : BOOLEAN,
              born : Nat, n : Nat, anchor : Nat, tag : Tags]

ASSUME NoneIsNoValue == None \notin Contexts \cup Letters \cup Measures \cup Sessions \cup Snapshots

VARIABLES
  up,       \* the host's connection is alive
  epoch,    \* its number
  focus,    \* TextService::focused_context of the host
  todo,     \* commands queued or being served
  call,     \* forward_key_event: the host's thread waits for an answer, or has it
  doc,      \* ContextState and LayoutSchedule of a context
  mail,     \* LayoutMailbox: the last measure of a host, not sent yet
  layouts,  \* ClientConnection::layouts: the last measure of a context that arrived
  replies,  \* replies on their way to a context
  sess,     \* Engine::clients, by context and connection
  active,   \* Engine::active_client
  input,    \* ClientConnection::input: focused, composing
  global,   \* Engine::global_ascii
  preedit,  \* RendererPublisher::supports_preedit
  shown,    \* the snapshot last published to the renderer
  at,       \* where the engine's thread is
  click,    \* a renderer event on its way
  births, moves  \* compositions and moves so far

host == <<up, epoch, focus, todo, call, doc, mail>>
engine == <<sess, active, input, global, shown, at>>
vars == <<up, epoch, focus, todo, call, doc, mail, layouts, replies, sess, active, input, global,
          preedit, shown, at, click, births, moves>>

Flip(m) == IF m = "ascii" THEN "native" ELSE "ascii"
Caret == MaxBirths + 1   \* the place of the insertion point without a composition
Key(c) == <<c, epoch[HostOf[c]]>>
Epoch(c) == IF up[HostOf[c]] THEN epoch[HostOf[c]] ELSE 0
Alive(k) == up[HostOf[k[1]]] /\ epoch[HostOf[k[1]]] = k[2]
Exists(k) == sess[k] # None

NoProbe == [for |-> "nothing", gen |-> 0, epoch |-> 0, tag |-> 0]
NoTag == [tag |-> 0, mode |-> "native"]
NoLast == [born |-> 0, n |-> 0, cands |-> FALSE, ext |-> FALSE, ascii |-> "none"]
NoDoc == [alive |-> TRUE, gen |-> 1, comp |-> 0, epoch |-> 0, applied |-> 0,
          probe |-> NoProbe, retry |-> NoProbe, cleaning |-> FALSE]

\* A session of a new native session (OpenInput).
Fresh(g, mode) ==
  [rev |-> 0, gen |-> g, focused |-> FALSE, anchor |-> 0, waiting |-> 0, latest |-> 0,
   pending |-> NoTag, last |-> NoLast, rime |-> [born |-> 0, n |-> 0, ascii |-> mode]]

\* render_snapshot, the snapshot without content that stands in for it, and
\* the one that hides a session.
Visible(s) == (s.last.cands \/ (s.last.ext /\ s.last.born # 0)) /\ s.anchor # 0
Bare(k, s) == [key |-> k, rev |-> s.rev, gen |-> s.gen, on |-> TRUE, visible |-> FALSE,
               born |-> 0, n |-> 0, anchor |-> 0, tag |-> NoTag]
Snapshot(k, s) ==
  IF Visible(s) THEN [Bare(k, s) EXCEPT !.visible = TRUE, !.born = s.last.born, !.n = s.last.n,
                                        !.anchor = s.anchor]
  ELSE Bare(k, s)
Hidden(k, s) == [Bare(k, s) EXCEPT !.on = FALSE]

Init ==
  /\ up = [p \in Processes |-> FALSE] /\ epoch = [p \in Processes |-> 0]
  /\ focus = [p \in Processes |-> None] /\ todo = [p \in Processes |-> <<>>]
  /\ call = [p \in Processes |-> "none"]
  /\ doc = [c \in Contexts |-> NoDoc]
  /\ replies = [c \in Contexts |-> <<>>]
  /\ sess = [k \in Keys |-> None] /\ active = NoKey
  /\ mail = [p \in Processes |-> None] /\ layouts = [c \in Contexts |-> None]
  /\ input = [p \in Processes |-> [focused |-> FALSE, composing |-> FALSE]]
  /\ global = "native" /\ preedit \in BOOLEAN
  /\ shown = Hidden(NoKey, Fresh(0, "native")) /\ at = "loop" /\ click = None
  /\ births = 0 /\ moves = 0

-----------------------------------------------------------------------------
\* The host.

Move == moves < MaxMoves /\ moves' = moves + 1
Command(kind, c, g) == [kind |-> kind, c |-> c, gen |-> g]

\* LayoutSchedule::cancel_indicator.
WithoutIndicator(d) ==
  [d EXCEPT !.retry = NoProbe, !.probe = IF @.for = "tag" THEN NoProbe ELSE @]

\* forward_key_event: a composition of another connection is cleaned up first.
\* The host's thread waits in process_key_event for the answer.
Type(c) ==
  LET p == HostOf[c] IN
  /\ Move /\ focus[p] = c /\ todo[p] = <<>>
  /\ doc[c].alive /\ doc[c].comp # 0 => doc[c].epoch = Epoch(c)
  /\ todo' = [todo EXCEPT ![p] = <<Command("key", c, doc[c].gen)>>]
  /\ call' = [call EXCEPT ![p] = "waits"]
  /\ UNCHANGED <<up, epoch, focus, doc, mail, layouts, replies, engine, preedit, click, births>>

\* focus_context: the old context is blurred before the new one is focused.
\* Like every command of a context, this takes back a measure not sent yet.
MoveFocus(p, c) ==
  /\ Move /\ focus[p] # c /\ (c # None => doc[c].alive)
  /\ focus' = [focus EXCEPT ![p] = c]
  /\ LET old == focus[p] IN
     /\ doc' = IF old = None THEN doc ELSE [doc EXCEPT ![old] = WithoutIndicator(@)]
     /\ todo' = [todo EXCEPT ![p] =
                   @ \o (IF old = None THEN <<>> ELSE <<Command("blur", old, doc[old].gen)>>)
                     \o (IF c = None THEN <<>> ELSE <<Command("focus", c, doc[c].gen)>>)]
  /\ mail' = [mail EXCEPT ![p] = None]
  /\ UNCHANGED <<up, epoch, call, layouts, replies, engine, preedit, click, births>>

\* send_context_action: what ends or cancels a composition invalidates the
\* replies under way by a new generation.
Act(c, kind) ==
  LET p == HostOf[c]
      g == doc[c].gen + (IF kind \in {"cancel", "terminated"} THEN 1 ELSE 0)
  IN
  /\ Move /\ focus[p] = c /\ Len(todo[p]) < 2
  /\ kind = "terminated" => doc[c].comp # 0
  /\ todo' = [todo EXCEPT ![p] = Append(@, Command(kind, c, g))]
  /\ doc' = [doc EXCEPT ![c] = [doc[c] EXCEPT !.gen = g,
                                         !.comp = IF kind = "terminated" THEN 0 ELSE @,
                                         !.epoch = IF kind = "terminated" THEN 0 ELSE @]]
  /\ mail' = [mail EXCEPT ![p] = None]
  /\ UNCHANGED <<up, epoch, focus, call, layouts, replies, engine, preedit, click, births>>

\* remove_context.
Remove(c) ==
  LET p == HostOf[c] IN
  /\ Move /\ doc[c].alive
  /\ focus' = [focus EXCEPT ![p] = IF @ = c THEN None ELSE @]
  /\ doc' = [doc EXCEPT ![c] = [NoDoc EXCEPT !.alive = FALSE, !.gen = doc[c].gen + 1]]
  /\ todo' = [todo EXCEPT ![p] =
                @ \o (IF focus[p] = c THEN <<Command("blur", c, doc[c].gen)>> ELSE <<>>)
                  \o <<Command("destroy", c, doc[c].gen + 1)>>]
  /\ replies' = [replies EXCEPT ![c] = <<>>] /\ mail' = [mail EXCEPT ![p] = None]
  /\ UNCHANGED <<up, epoch, call, layouts, engine, preedit, click, births>>

\* The connection ends, and with it what was under way on it.  The command that
\* is being served may be lost, those that wait are for the next connection.
Lose(p) ==
  /\ Move /\ up[p]
  /\ up' = [up EXCEPT ![p] = FALSE]
  /\ \/ UNCHANGED <<todo, call>>
     \/ /\ todo[p] # <<>> /\ todo' = [todo EXCEPT ![p] = Tail(@)]
        /\ call' = [call EXCEPT ![p] = IF @ = "waits" THEN "none" ELSE @]
  /\ layouts' = [c \in Contexts |-> IF HostOf[c] = p THEN None ELSE layouts[c]]
  /\ replies' = [c \in Contexts |-> IF HostOf[c] = p THEN <<>> ELSE replies[c]]
  /\ UNCHANGED <<epoch, focus, doc, mail, engine, preedit, click, births>>

\* A blur or a removal opens no connection (RpcWorker).
Connect(p) ==
  /\ ~up[p] /\ todo[p] # <<>>
  /\ IF Head(todo[p]).kind \in {"blur", "destroy"}
     THEN todo' = [todo EXCEPT ![p] = Tail(@)] /\ UNCHANGED <<up, epoch, input>>
     ELSE /\ epoch[p] < MaxEpoch
          /\ up' = [up EXCEPT ![p] = TRUE] /\ epoch' = [epoch EXCEPT ![p] = @ + 1]
          /\ input' = [input EXCEPT ![p] = [focused |-> FALSE, composing |-> FALSE]]
          /\ UNCHANGED todo
  /\ UNCHANGED <<focus, call, doc, mail, layouts, replies, sess, active, global, shown, at, preedit,
                 click, births, moves>>

Matches(c, q) == doc[c].alive /\ q.gen = doc[c].gen /\ q.epoch = Epoch(c) /\ Epoch(c) # 0

\* LayoutSchedule::request_composition and request_indicator.
Probing(d, c) ==
  [d EXCEPT !.retry = NoProbe,
            !.probe = [for |-> "comp", gen |-> d.gen, epoch |-> Epoch(c), tag |-> 0]]
Locating(d, q) ==
  [d EXCEPT !.retry = NoProbe, !.probe = IF @.for = "comp" THEN @ ELSE q]

\* drain_context_updates and the edit it leads to.  A composition is started
\* by one edit, which forgets the revision measured, and updated by the next.
Starts(c, r) ==
  /\ r.born # 0 /\ doc[c].comp = 0
  /\ doc' = [doc EXCEPT ![c].comp = r.born, ![c].epoch = r.epoch, ![c].applied = 0]
  /\ mail' = [mail EXCEPT ![HostOf[c]] = None]
  /\ UNCHANGED replies
Updates(c, r) ==
  /\ r.born # 0 /\ doc[c].comp # 0
  /\ doc' = [doc EXCEPT ![c] =
               LET d == [@ EXCEPT !.comp = r.born, !.applied = r.rev]
               IN IF focus[HostOf[c]] = c THEN Probing(d, c) ELSE d]
  /\ replies' = [replies EXCEPT ![c] = Tail(@)]
  /\ UNCHANGED mail
EndsComposition(c, r) ==
  /\ r.born = 0
  /\ doc' = [doc EXCEPT ![c] =
               LET d == IF r.updated THEN [@ EXCEPT !.comp = 0, !.epoch = 0] ELSE @
               IN IF r.tag # 0 /\ d.comp = 0 /\ focus[HostOf[c]] = c
                  THEN Locating(d, [for |-> "tag", gen |-> d.gen, epoch |-> Epoch(c), tag |-> r.tag])
                  ELSE d]
  /\ replies' = [replies EXCEPT ![c] = Tail(@)]
  /\ UNCHANGED mail
Drain(c) ==
  /\ replies[c] # <<>>
  /\ doc[c].comp # 0 => doc[c].epoch = Epoch(c)
  /\ LET r == Head(replies[c]) IN
     IF Matches(c, r) THEN Starts(c, r) \/ Updates(c, r) \/ EndsComposition(c, r)
     ELSE replies' = [replies EXCEPT ![c] = Tail(@)] /\ UNCHANGED <<doc, mail>>
  /\ UNCHANGED <<up, epoch, focus, todo, call, layouts, engine, preedit, click, births, moves>>

\* cleanup_disconnected_composition gives up what is under way and queues an
\* edit, which the host grants.
Orphaned(c) == doc[c].comp # 0 /\ doc[c].epoch # Epoch(c) /\ ~doc[c].cleaning
GivenUp(d) == [d EXCEPT !.gen = @ + 1, !.cleaning = TRUE]

Cleanup(c) ==
  /\ \/ Orphaned(c) /\ doc' = [doc EXCEPT ![c] = GivenUp(@)]
     \/ /\ doc[c].cleaning
        /\ doc' = [doc EXCEPT ![c].comp = 0, ![c].epoch = 0, ![c].cleaning = FALSE]
  /\ UNCHANGED <<up, epoch, focus, todo, call, mail, layouts, replies, engine, preedit, click, births, moves>>

\* The key was answered, perhaps on a new connection: before anything else the
\* host's thread looks for compositions of the old one (drain_context_updates).
Return(p) ==
  /\ call[p] = "answered" /\ call' = [call EXCEPT ![p] = "none"]
  /\ doc' = [c \in Contexts |-> IF HostOf[c] = p /\ Orphaned(c) THEN GivenUp(doc[c]) ELSE doc[c]]
  /\ UNCHANGED <<up, epoch, focus, todo, mail, layouts, replies, engine, preedit, click, births, moves>>

\* OnLayoutChange: the composition is measured, or an indicator tried again.
LayoutChange(c) ==
  /\ Move /\ focus[HostOf[c]] = c
  /\ \/ /\ doc[c].comp # 0 /\ doc' = [doc EXCEPT ![c] = Probing(@, c)]
     \/ /\ doc[c].comp = 0 /\ doc[c].retry # NoProbe
        /\ doc' = [doc EXCEPT ![c] = Locating(@, @.retry)]
  /\ UNCHANGED <<up, epoch, focus, todo, call, mail, layouts, replies, engine, preedit, click, births>>

\* The anchor says which composition was measured (0: no geometry yet), conn of
\* which connection it is; the code sends neither.
Layout(q, rev, anchor, conn) ==
  [gen |-> q.gen, epoch |-> q.epoch, rev |-> rev, tag |-> q.tag, anchor |-> anchor, conn |-> conn]

\* LayoutProbe::DoEditSession and query_mode_indicator.  The host may have no
\* geometry yet; then an indicator waits for the next layout change.
Measure(c) ==
  LET d == doc[c]
      q == doc[c].probe
      done == [d EXCEPT !.probe = NoProbe]
      measured(l) == mail' = [mail EXCEPT ![HostOf[c]] = [of |-> c, layout |-> l]]
  IN
  /\ q # NoProbe
  /\ UNCHANGED <<up, epoch, focus, todo, call, layouts, replies, engine, preedit, click, births, moves>>
  /\ \/ /\ Matches(c, q) /\ q.for = "comp" /\ d.comp # 0 /\ doc' = [doc EXCEPT ![c] = done]
        /\ \E anchor \in {d.comp, 0} : measured(Layout(q, d.applied, anchor, d.epoch))
     \/ /\ Matches(c, q) /\ q.for = "tag" /\ d.comp = 0 /\ doc' = [doc EXCEPT ![c] = done]
        /\ measured(Layout(q, 0, Caret, 0))
     \/ /\ UNCHANGED mail
        /\ doc' = [doc EXCEPT ![c] =
                     IF Matches(c, q) /\ q.for = "tag" /\ d.comp = 0
                     THEN [done EXCEPT !.retry = q] ELSE done]

\* The worker sends a measure when no command is queued or being served, to the
\* connection it was made for (run, handle_layout), which keeps the last one of
\* each context (push_layout).
Send(p) ==
  /\ mail[p] # None /\ todo[p] = <<>> /\ mail' = [mail EXCEPT ![p] = None]
  /\ LET l == mail[p].layout IN
     layouts' = IF up[p] /\ l.epoch = epoch[p] THEN [layouts EXCEPT ![mail[p].of] = l] ELSE layouts
  /\ UNCHANGED <<up, epoch, focus, todo, call, doc, replies, engine, preedit, click, births, moves>>

\* What a host does on its own commutes with the steps of the engine's
\* thread, and is interleaved with whole messages only.
Host ==
  \/ /\ at = "loop"
     /\ \/ \E c \in Contexts :
             /\ call[HostOf[c]] = "none"
             /\ \/ Type(c) \/ Remove(c) \/ Drain(c) \/ Cleanup(c) \/ LayoutChange(c) \/ Measure(c)
                \/ \E kind \in Acts : Act(c, kind)
        \/ \E p \in Processes :
             \/ Connect(p) \/ Send(p) \/ Return(p)
             \/ /\ call[p] = "none"
                /\ \E c \in Contexts \cup {None} : (c # None => HostOf[c] = p) /\ MoveFocus(p, c)
  \/ \E p \in Processes : Lose(p)

-----------------------------------------------------------------------------
\* librime, as RimeSession uses it.

\* process_key: the composition begins, goes on or ends, and with its end the mode
\* may change.
AfterKey(r) ==
  {[r EXCEPT !.born = b, !.n = @ + 1] :
     b \in {0} \cup (IF r.born # 0 THEN {r.born} ELSE IF births < MaxBirths THEN {births + 1} ELSE {})}
  \cup {[r EXCEPT !.born = 0, !.n = @ + 1, !.ascii = Flip(@)]}

\* context_action and set_ascii_mode_response.
Closed(r) == [r EXCEPT !.born = 0, !.n = @ + 1]
AfterCommand(r, kind) ==
  CASE kind \in {"submit", "cancel", "terminated"} -> {Closed(r)}
    [] kind = "toggle" -> {[Closed(r) EXCEPT !.ascii = Flip(@)]}
    [] kind = "set" -> {[(IF m = r.ascii THEN r ELSE Closed(r)) EXCEPT !.ascii = m, !.n = r.n + 1]
                          : m \in Modes}
    [] OTHER -> {r}

\* process_renderer_event: a candidate is taken, which may end the
\* composition; a page is turned; the composition is dismissed; or nothing.
AfterEvent(r) == {Closed(r), [r EXCEPT !.n = @ + 1], r}

\* read_response.
Answers(r) ==
  {[born |-> r.born, n |-> r.n, cands |-> x, ext |-> r.born # 0 /\ preedit, ascii |-> r.ascii]
     : x \in IF r.born = 0 THEN {FALSE} ELSE BOOLEAN}

-----------------------------------------------------------------------------
\* The engine's thread: one message, then idle.

Reply(c, s, born, updated, tag) ==
  replies' = [replies EXCEPT ![c] = Append(@, [rev |-> s.rev, gen |-> s.gen, epoch |-> Epoch(c),
                                               born |-> born, updated |-> updated, tag |-> tag])]

\* OpenInput, which the worker sends before the first command of a context.
Open(c) ==
  LET p == HostOf[c] IN
  /\ at = "loop" /\ up[p] /\ todo[p] # <<>> /\ Head(todo[p]).c = c /\ ~Exists(Key(c))
  /\ Head(todo[p]).kind # "destroy"
  /\ \E m \in IF GlobalMode THEN {global} ELSE Modes :
        sess' = [sess EXCEPT ![Key(c)] = Fresh(Head(todo[p]).gen, m)]
  /\ at' = "inline"
  /\ UNCHANGED <<host, layouts, replies, active, input, global, shown, preedit, click, births, moves>>

\* What set_input_state is told of the sessions of a connection.
Shares(l, k) == HostOf[l[1]] = HostOf[k[1]] /\ l[2] = k[2]
\* Mutant: a session without the focus does not count.
StateOfFocused(ks) == [focused |-> \E l \in ks : sess[l].focused,
                       composing |-> \E l \in ks : sess[l].focused /\ sess[l].last.born # 0]

State(ks) == [focused |-> \E l \in ks : sess[l].focused,
              composing |-> \E l \in ks : sess[l].last.born # 0]

Serves(c) == LET p == HostOf[c] IN
  at = "loop" /\ up[p] /\ todo[p] # <<>> /\ Head(todo[p]).c = c
Command1(c) == Head(todo[HostOf[c]])
Served(c, answer) ==
  /\ todo' = [todo EXCEPT ![HostOf[c]] = Tail(@)]
  /\ call' = [call EXCEPT ![HostOf[c]] = IF @ = "waits" THEN answer ELSE @]

\* SessionRoute::observe fails: the request is refused.
Refuse(c) ==
  /\ Serves(c)
  /\ \/ Exists(Key(c)) /\ Command1(c).gen < sess[Key(c)].gen
     \/ ~Exists(Key(c)) /\ Command1(c).kind = "destroy"
  /\ Served(c, "none")
  /\ UNCHANGED <<up, epoch, focus, doc, mail, layouts, replies, engine, preedit, click, births, moves>>

Observed(c) == Serves(c) /\ Exists(Key(c)) /\ Command1(c).gen >= sess[Key(c)].gen

\* Mutant: the indicator shows the mode before the switch.
RequestedBefore(s, asks, reason, mode) ==
  IF asks /\ reason \in Reasons THEN [tag |-> s.rev + 1, mode |-> Flip(mode)] ELSE NoTag

\* request_mode_indicator; an indicator has the number of the revision that
\* asks for it.
Requested(s, asks, reason, mode) ==
  IF asks /\ reason \in Reasons THEN [tag |-> s.rev + 1, mode |-> mode] ELSE NoTag

\* reset_anchor_for_new_composition: a new composition waits for its layout.
Renewed(s, answer, rev) ==
  IF s.last.born = 0 /\ answer.born # 0
  THEN [s EXCEPT !.anchor = 0, !.waiting = rev]
  ELSE [s EXCEPT !.waiting = IF answer.born = 0 THEN 0 ELSE @]

\* While the composition waits for its layout, the renderer is told only to
\* take away what it shows.
KeyShows(k, was, s) ==
  IF s.waiting = 0 THEN Snapshot(k, s)
  ELSE IF Visible(was) \/ active # k \/ was.last.ascii # s.last.ascii THEN Bare(k, s)
  ELSE shown

\* What a key makes of its session.
Keyed(s, g, r, answer, tag) ==
  [Renewed(s, answer, s.rev + 1) EXCEPT
     !.rev = @ + 1, !.gen = g, !.focused = TRUE, !.last = answer, !.rime = r,
     !.pending = IF answer.born # 0 THEN NoTag ELSE IF tag = NoTag THEN @ ELSE tag]

KeyEvent(c) ==
  LET k == Key(c)
      s == sess[k]
      before == IF GlobalMode THEN [s.rime EXCEPT !.ascii = global] ELSE s.rime
  IN
  /\ Observed(c) /\ Command1(c).kind = "key" /\ Served(c, "answered")
  /\ \E r \in AfterKey(before) : \E answer \in Answers(r) :
        LET tag == Requested(s, answer.born = 0 /\ s.last.ascii \notin {"none", answer.ascii},
                             "switch", r.ascii)
            next == Keyed(s, Command1(c).gen, r, answer, tag)
        IN /\ sess' = [sess EXCEPT ![k] = next]
           /\ global' = IF GlobalMode THEN r.ascii ELSE global
           /\ births' = IF r.born > births THEN r.born ELSE births
           /\ shown' = KeyShows(k, s, next)
           /\ Reply(c, next, r.born, TRUE, tag.tag)
  /\ active' = k /\ at' = "inline"
  /\ UNCHANGED <<up, epoch, focus, doc, mail, layouts, input, preedit, click, moves>>

Endings == {"blur", "cancel", "submit", "terminated"}

\* Focus and blur read nothing of the composition.
Reads(kind) == kind \notin {"focus", "blur"}

\* What a command makes of its session.
Obeyed(s, kind, g, r, answer, tag) ==
  LET closed == Reads(kind) /\ answer.born = 0
      kept == IF kind \in Endings \/ (Reads(kind) /\ answer.born # 0) THEN NoTag ELSE s.pending
  IN [s EXCEPT
        !.rev = @ + 1, !.gen = g, !.rime = r,
        !.focused = IF kind = "focus" THEN TRUE
                    ELSE IF kind \in {"blur", "terminated"} THEN FALSE ELSE @,
        !.waiting = IF kind \in Endings \/ closed THEN 0 ELSE @,
        !.pending = IF tag = NoTag THEN kept ELSE tag,
        !.last = IF Reads(kind) THEN answer
                 ELSE IF kind = "focus" THEN [@ EXCEPT !.ascii = r.ascii] ELSE @]

\* ContextCommand.
Commanded(c, kind, g) ==
  LET k == Key(c)
      s == sess[k]
      before == IF GlobalMode /\ kind \in {"focus", "toggle"}
                THEN [s.rime EXCEPT !.ascii = global] ELSE s.rime
      now == IF kind = "focus" THEN k
             ELSE IF kind \in {"blur", "terminated"} /\ active = k THEN NoKey ELSE active
  IN
  \E r \in AfterCommand(before, kind) : \E answer \in Answers(r) :
     LET tag == CASE kind = "focus" -> Requested(s, TRUE, "focus", r.ascii)
                  [] kind = "toggle" ->
                       Requested(s, s.last.ascii \notin {"none", r.ascii}, "switch", r.ascii)
                  [] OTHER -> NoTag
         next == Obeyed(s, kind, g, r, answer, tag)
     IN /\ ~Reads(kind) => answer.cands = FALSE
        /\ sess' = [sess EXCEPT ![k] = next]
        /\ active' = now
        /\ global' = IF GlobalMode /\ kind = "toggle" THEN r.ascii ELSE global
        /\ shown' = IF now = k THEN Snapshot(k, next)
                    ELSE IF active = k THEN Hidden(k, next) ELSE shown
        /\ Reply(c, next, IF Reads(kind) THEN r.born ELSE 0, Reads(kind), tag.tag)
        /\ at' = "inline"

ContextCommand(c) ==
  /\ Observed(c) /\ Command1(c).kind \notin {"key", "destroy"} /\ Served(c, "answered")
  /\ Commanded(c, Command1(c).kind, Command1(c).gen)
  /\ UNCHANGED <<up, epoch, focus, doc, mail, layouts, input, preedit, click, births, moves>>

\* SetAscii: the worker restores the mode of a session it has just opened.
SetAscii(c) ==
  /\ Observed(c) /\ sess[Key(c)].rev = 0 /\ Command1(c).kind # "blur"
  /\ Commanded(c, "set", Command1(c).gen)
  /\ UNCHANGED <<host, layouts, input, preedit, click, births, moves>>

Destroy(c) ==
  LET k == Key(c) IN
  /\ Observed(c) /\ Command1(c).kind = "destroy" /\ Served(c, "answered")
  /\ shown' = IF active = k THEN Hidden(k, [sess[k] EXCEPT !.rev = @ + 1]) ELSE shown
  /\ active' = IF active = k THEN NoKey ELSE active
  /\ sess' = [sess EXCEPT ![k] = None]
  /\ layouts' = [layouts EXCEPT ![c] = None]
  /\ input' = [input EXCEPT ![HostOf[c]] = State({l \in Keys : l # k /\ Exists(l) /\ Shares(l, k)})]
  /\ at' = "inline"
  /\ UNCHANGED <<up, epoch, focus, doc, mail, replies, global, preedit, click, births, moves>>

\* Mutant: the revision is not compared.
AcceptsAny(k, e) == active = k /\ Exists(k) /\ Alive(k) /\ sess[k].focused /\ e.gen = sess[k].gen

\* renderer_event: only what was done to the snapshot of the session's last
\* revision counts (accepts_ui).
Accepts(k, e) == active = k /\ Exists(k) /\ Alive(k) /\ sess[k].focused
                 /\ e.gen = sess[k].gen /\ e.rev = sess[k].rev
Handled(s, r, answer) ==
  [s EXCEPT !.rev = @ + 1, !.rime = r, !.last = answer, !.waiting = IF r.born = 0 THEN 0 ELSE @]
Event ==
  /\ at = "loop" /\ click # None /\ click' = None
  /\ LET k == click.key
         s == sess[k]
     IN IF ~Accepts(k, click) THEN UNCHANGED <<sess, shown, replies>>
        ELSE \E r \in AfterEvent(s.rime) : \E answer \in Answers(r) :
               LET next == Handled(s, r, answer)
               IN /\ sess' = [sess EXCEPT ![k] = next]
                  /\ shown' = Snapshot(k, next)
                  /\ Reply(k[1], next, r.born, TRUE, 0)
  /\ at' = "inline"
  /\ UNCHANGED <<host, layouts, active, input, global, preedit, births, moves>>

\* idle, when the renderer cannot show the composition's text any more: the
\* host gets it back at once.
IdleInline ==
  LET turned == {k \in Keys : Exists(k) /\ Alive(k) /\ sess[k].last.ext /\ ~preedit}
      back(k) == [sess[k] EXCEPT !.last.ext = FALSE, !.rev = @ + 1]
  IN
  /\ at = "inline" /\ at' = "layout"
  /\ sess' = [k \in Keys |-> IF k \in turned THEN back(k) ELSE sess[k]]
  /\ replies' = [c \in Contexts |->
                   IF Epoch(c) # 0 /\ Key(c) \in turned
                   THEN Append(replies[c], [rev |-> back(Key(c)).rev, gen |-> sess[Key(c)].gen,
                                            epoch |-> Epoch(c), born |-> sess[Key(c)].last.born,
                                            updated |-> TRUE, tag |-> 0])
                   ELSE replies[c]]
  /\ shown' = IF active \in turned THEN Snapshot(active, back(active)) ELSE shown
  /\ UNCHANGED <<host, layouts, active, input, global, preedit, click, births, moves>>

\* idle takes the active session's layout.  That of an indicator shows it, if
\* it is still the one asked for, nothing is composed and it is in time: it
\* may wait MODE_INDICATOR_LAYOUT_TIMEOUT.
Indicates(k, s, u) ==
  /\ sess' = [sess EXCEPT ![k].pending = NoTag]
  /\ \/ UNCHANGED shown
     \/ /\ s.last.born = 0
        /\ shown' = [Snapshot(k, [s EXCEPT !.anchor = u.anchor]) EXCEPT !.tag = s.pending]

\* Mutant: a composition does not wait for a layout of its own.
FitsAnyComposition(s, u) == u.rev >= s.latest

\* layout_matches_pending.
Fits(s, u) == u.rev >= s.waiting /\ u.rev >= s.latest

Places(k, s, u) ==
  LET ready == s.waiting # 0 /\ u.anchor # 0
      next == [s EXCEPT !.latest = u.rev, !.anchor = u.anchor,
                        !.waiting = IF ready THEN 0 ELSE @]
  IN /\ sess' = [sess EXCEPT ![k] = next]
     /\ shown' = IF /\ s.anchor # u.anchor \/ ready
                    /\ next.waiting = 0 /\ (s.last.cands \/ s.last.ext)
                 THEN Snapshot(k, next) ELSE shown

\* take_layout_for.
HasLayout(k) ==
  /\ k # NoKey /\ Exists(k) /\ Alive(k) /\ layouts[k[1]] # None
  /\ layouts[k[1]].gen = sess[k].gen /\ layouts[k[1]].epoch = k[2]

IdleLayout ==
  /\ at = "layout" /\ at' = "retain"
  /\ LET k == active
         s == sess[k]
         u == layouts[k[1]]
     IN IF ~HasLayout(k) THEN UNCHANGED <<sess, shown, layouts>>
        ELSE /\ layouts' = [layouts EXCEPT ![k[1]] = None]
             /\ IF u.tag # 0
                THEN IF u.tag = s.pending.tag THEN Indicates(k, s, u) ELSE UNCHANGED <<sess, shown>>
                ELSE IF Fits(s, u) THEN Places(k, s, u) ELSE UNCHANGED <<sess, shown>>
  /\ UNCHANGED <<host, replies, active, input, global, preedit, click, births, moves>>

\* Mutant: a dead session stays shown.
GoneShown(k) == shown
Gone(k) == IF Exists(k) THEN Hidden(k, [sess[k] EXCEPT !.rev = @ + 1]) ELSE shown

\* idle drops the sessions of dead connections, tells the others what their
\* sessions do, and hides what a dead session showed.
IdleRetain ==
  /\ at = "retain" /\ at' = "loop"
  /\ LET kept == {k \in Keys : Exists(k) /\ Alive(k)}
         of(p) == {k \in kept : HostOf[k[1]] = p}
     IN /\ sess' = [k \in Keys |-> IF k \in kept THEN sess[k] ELSE None]
        /\ input' = [p \in Processes |->
                       IF of(p) = {} THEN input[p] ELSE State(of(p))]
        /\ active' = IF active \in kept THEN active ELSE NoKey
        /\ shown' = IF active # NoKey /\ active \notin kept THEN Gone(active) ELSE shown
  /\ UNCHANGED <<host, replies, layouts, global, preedit, click, births, moves>>

\* The thread is woken: a layout, a dead connection, another capability.
Wake ==
  /\ at = "loop" /\ at' = "inline"
  /\ \/ \E c \in Contexts : layouts[c] # None
     \/ \E k \in Keys : Exists(k) /\ (~Alive(k) \/ (sess[k].last.ext /\ ~preedit))
  /\ UNCHANGED <<host, layouts, replies, sess, active, input, global, shown, preedit, click, births, moves>>

Engine ==
  \/ \E c \in Contexts : \/ Open(c) \/ Refuse(c) \/ KeyEvent(c) \/ ContextCommand(c)
                         \/ SetAscii(c) \/ Destroy(c)
  \/ Event \/ IdleInline \/ IdleLayout \/ IdleRetain \/ Wake

-----------------------------------------------------------------------------
\* The renderer.

\* The user does something to what the renderer shows.
Click ==
  /\ Move /\ shown.visible /\ click = None /\ click' = shown
  /\ UNCHANGED <<host, layouts, replies, engine, preedit, births>>

\* The renderer connects, or goes.
Capability ==
  /\ Move /\ preedit' = ~preedit
  /\ UNCHANGED <<host, layouts, replies, engine, click, births>>

Next == Host \/ Engine \/ Click \/ Capability

Spec == Init /\ [][Next]_vars

-----------------------------------------------------------------------------
\* Properties.

TypeOK ==
  /\ up \in [Processes -> BOOLEAN] /\ epoch \in [Processes -> 0 .. MaxEpoch]
  /\ focus \in [Processes -> Contexts \cup {None}]
  /\ todo \in [Processes -> Seq(Commands)]
  /\ call \in [Processes -> {"none", "waits", "answered"}]
  /\ doc \in [Contexts -> Docs]
  /\ mail \in [Processes -> Letters \cup {None}] /\ layouts \in [Contexts -> Measures \cup {None}]
  /\ replies \in [Contexts -> Seq(Replies)]
  /\ sess \in [Keys -> Sessions \cup {None}] /\ active \in Keys \cup {NoKey}
  /\ input \in [Processes -> [focused : BOOLEAN, composing : BOOLEAN]]
  /\ global \in Modes /\ preedit \in BOOLEAN
  /\ shown \in Snapshots /\ click \in Snapshots \cup {None}
  /\ at \in {"loop", "inline", "layout", "retain"} /\ births \in Nat /\ moves \in 0 .. MaxMoves

\* No state refers to a composition that was not born, to a connection that was
\* not made or to a revision that was not given out.
NothingFromTheFuture ==
  /\ \A c \in Contexts : /\ doc[c].comp <= births /\ doc[c].epoch <= epoch[HostOf[c]]
                         /\ \A i \in DOMAIN replies[c] : replies[c][i].epoch <= epoch[HostOf[c]]
  /\ \A k \in Keys : Exists(k) =>
        /\ k[2] <= epoch[HostOf[k[1]]] /\ sess[k].gen <= doc[k[1]].gen
        /\ sess[k].anchor <= births /\ sess[k].rime.born <= births
        /\ sess[k].pending.tag <= sess[k].rev

\* The candidates stand where their own composition was measured.  This is what
\* reset_anchor_for_new_composition is for, and what the code does not keep: a
\* blur ends the wait, and the composition goes on.
GeometryIsOwn == shown.visible => shown.anchor = shown.born

\* A composition that waits for its geometry gets its own, however late the
\* measure of an earlier one arrives; unless what the host measured was left by
\* an earlier connection, whose revisions are not comparable.
OwnMeasureEndsWait ==
  [][\A k \in Keys :
       /\ Exists(k) /\ sess'[k] # None
       /\ sess[k].waiting # 0 /\ sess'[k].anchor # 0
       => sess'[k].anchor = sess'[k].last.born \/ layouts[k[1]].conn # k[2]]_vars

\* The engine refuses no command of a session as stale, which would end the
\* connection: the generations in the queue are not older than the session's.
NothingIsStale ==
  \A c \in Contexts : Epoch(c) # 0 /\ Exists(Key(c)) =>
    \A i \in DOMAIN todo[HostOf[c]] :
      todo[HostOf[c]][i].c = c => todo[HostOf[c]][i].gen >= sess[Key(c)].gen

\* What can be seen is the last state of the session that has the focus.
VisibleIsCurrent ==
  shown.visible => /\ shown.key = active /\ Exists(active)
                   /\ shown.rev = sess[active].rev /\ shown.n = sess[active].rime.n

\* The renderer is told of no session but the active one, which has the focus.
ShownIsActive ==
  /\ shown.on => shown.key = active
  /\ active # NoKey => Exists(active) /\ sess[active].focused

\* A click changes the very state the user saw when he clicked.
ClickMeansWhatWasSeen ==
  [][click # None /\ click' = None /\ sess' # sess => sess[click.key].rime.n = click.n]_vars

\* An indicator shows the mode its session is in.
IndicatorTellsTheMode ==
  shown.tag.tag # 0 => Exists(shown.key) /\ shown.tag.mode = sess[shown.key].rime.ascii

\* The admission's view of a connection is what librime and the focus say of
\* its sessions, the last one closed included.
ImportanceIsTrue ==
  at = "loop" => \A p \in Processes : up[p] =>
    LET own == {k \in Keys : Exists(k) /\ Alive(k) /\ HostOf[k[1]] = p} IN
    /\ input[p].focused <=> \E k \in own : sess[k].focused
    /\ input[p].composing <=> \E k \in own : sess[k].rime.born # 0

\* The invariant of the sessions: the types and bounds, a renderer that is told of the session
\* with the focus only, as it is now, and no command that is too old.
Inv == TypeOK /\ NothingFromTheFuture /\ VisibleIsCurrent /\ ShownIsActive /\ NothingIsStale
=============================================================================
