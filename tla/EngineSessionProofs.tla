------------------------ MODULE EngineSessionProofs ------------------------
(***************************************************************************)
(* Proofs about EngineSession, for any number of hosts, contexts and        *)
(* connections, either scope of the mode and any choice of the indicators.  *)
(*                                                                         *)
(* The step lemmas say what one step may do to a document, a queue, a       *)
(* session, a reply, a measure and a connection, whatever the action; the   *)
(* lemmas after them keep one part of the invariant each.  The parts are    *)
(*   - FocusInv, QueueInv, BlurInv: a queue's order, and what a context's   *)
(*     loss of the focus leaves in it;                                      *)
(*   - SoundInv, PendingInv: librime and a session's last answer agree, and *)
(*     an indicator is asked for before the context's turn has ended;       *)
(*   - MeasuresInv, ProbeInv, BirthsInv: what is under way was once;        *)
(*   - FreshInv, OwnInv: a new session hears of none before it, and a       *)
(*     measure new enough for a waiting composition is its own;             *)
(*   - ClickInv, ShownInv: what the renderer shows and sends back;          *)
(*   - InputInv: a connection's view of its sessions.                       *)
(***************************************************************************)
EXTENDS EngineSession, TLAPS

\* A probe of a composition asks for no indicator, the others do.
ProbeFits(d) ==
  /\ d.probe.for = "comp" => d.probe.tag = 0
  /\ d.probe.for = "tag" => d.probe.tag # 0
  /\ d.retry # NoProbe => d.retry.for = "tag" /\ d.retry.tag # 0

\* A host's focus is one of its own contexts, and a connection has a number.
FocusInv ==
  /\ \A p \in Processes : focus[p] # None => HostOf[focus[p]] = p /\ doc[focus[p]].alive
  /\ \A p \in Processes : up[p] => epoch[p] # 0

LEMMA HostKeeps ==
  ASSUME Host
  PROVE  UNCHANGED sess /\ UNCHANGED active /\ UNCHANGED global /\ UNCHANGED shown /\ UNCHANGED at
         /\ UNCHANGED preedit /\ UNCHANGED click /\ UNCHANGED births
BY DEF Host, Type, Remove, Drain, Cleanup, LayoutChange, Measure, Act, Connect, Send, Return, MoveFocus,
  Lose, engine

LEMMA EngineKeeps ==
  ASSUME Engine
  PROVE  UNCHANGED up /\ UNCHANGED epoch /\ UNCHANGED focus /\ UNCHANGED doc /\ UNCHANGED mail
         /\ UNCHANGED preedit /\ UNCHANGED moves
BY DEF Engine, Open, Refuse, KeyEvent, ContextCommand, SetAscii, Destroy, Event, IdleInline, IdleLayout,
  IdleRetain, Wake, host

\* librime and the last answer say the same, a session waits for the geometry of what is composed
\* since, and asks for an indicator of its own mode.
Sound(s) ==
  /\ s.rime.born = s.last.born /\ s.rime.n = s.last.n
  /\ s.last.ascii \in {"none", s.rime.ascii}
  /\ s.last.cands => s.last.born # 0
  /\ s.waiting # 0 => s.anchor = 0 /\ s.last.born # 0 /\ s.waiting <= s.rev
  /\ s.pending.tag <= s.rev
  /\ s.pending.tag # 0 =>
       "switch" \in Reasons /\ s.last.ascii = s.rime.ascii /\ s.pending.mode = s.rime.ascii
SoundInv == \A k \in Keys : Exists(k) => Sound(sess[k])

-----------------------------------------------------------------------------
\* The host's documents.

LEMMA NoDocIsDoc == NoDoc \in Docs /\ NoProbe \in Probes
BY DEF NoDoc, Docs, NoProbe, Probes

LEMMA EpochIs ==
  ASSUME TypeOK, NEW c \in Contexts
  PROVE  Epoch(c) \in Nat
BY SessionAssumption DEF TypeOK, Epoch

LEMMA ReplyIs ==
  ASSUME TypeOK, NEW c \in Contexts, replies[c] # <<>>
  PROVE  Head(replies[c]) \in Replies /\ Tail(replies[c]) \in Seq(Replies)
BY DEF TypeOK

\* What a step does to a document: it grows older, is not alive again, and a
\* composition in it is the one that was, or that of the reply applied.
Changes(c, e) ==
  LET d == doc[c]
      r == Head(replies[c])
  IN
  /\ e \in Docs /\ e.gen >= d.gen
  /\ e.alive => d.alive
  /\ d.alive /\ ~e.alive => focus'[HostOf[c]] # c
  /\ ProbeFits(d) => ProbeFits(e)
  /\ \/ e.comp = 0 /\ e.epoch \in {0, d.epoch}
     \/ e.comp = d.comp /\ e.epoch = d.epoch /\ e.applied = d.applied
     \/ /\ replies[c] # <<>> /\ r.epoch = Epoch(c) /\ r.born # 0 /\ e.comp = r.born
        /\ e.epoch = Epoch(c) /\ UNCHANGED epoch
        /\ \/ e.applied = 0
           \/ e.applied = r.rev /\ d.comp # 0 /\ d.epoch = Epoch(c)

LEMMA SameDoc ==
  ASSUME TypeOK, NEW c \in Contexts
  PROVE  Changes(c, doc[c])
<1>1. doc[c] \in Docs
  BY DEF TypeOK
<1> QED
  BY <1>1 DEF Changes, Docs

LEMMA OneDoc ==
  ASSUME TypeOK, NEW c \in Contexts, NEW e, Changes(c, e), doc' = [doc EXCEPT ![c] = e]
  PROVE  doc' \in [Contexts -> Docs] /\ \A x \in Contexts : Changes(x, doc'[x])
<1>1. e \in Docs
  BY DEF Changes
<1>2. \A x \in Contexts : doc'[x] = IF x = c THEN e ELSE doc[x]
  BY DEF TypeOK
<1> QED
  BY <1>1, <1>2, SameDoc DEF TypeOK

LEMMA ProbingChanges ==
  ASSUME TypeOK, NEW c \in Contexts, NEW d \in Docs, Changes(c, d)
  PROVE  Changes(c, Probing(d, c))
<1> DEFINE q == [for |-> "comp", gen |-> d.gen, epoch |-> Epoch(c), tag |-> 0]
<1>1. q \in Probes
  BY EpochIs DEF Docs, Probes
<1>2. Probing(d, c) \in Docs /\ ProbeFits(Probing(d, c))
  BY <1>1, NoDocIsDoc DEF Probing, Docs, ProbeFits
<1> QED
  BY <1>2 DEF Changes, Probing, Docs

LEMMA LocatingChanges ==
  ASSUME TypeOK, NEW c \in Contexts, NEW d \in Docs, Changes(c, d),
         NEW q \in Probes, ProbeFits(doc[c]) => q.for = "tag" /\ q.tag # 0
  PROVE  Changes(c, Locating(d, q))
<1>1. Locating(d, q) \in Docs
  BY NoDocIsDoc DEF Locating, Docs
<1>2. ProbeFits(doc[c]) => ProbeFits(Locating(d, q))
  BY DEF Locating, Docs, ProbeFits, Changes
<1> QED
  BY <1>1, <1>2 DEF Changes, Locating, Docs

LEMMA DrainChanges ==
  ASSUME TypeOK, NEW c \in Contexts, Drain(c)
  PROVE  \E e : Changes(c, e) /\ doc' = [doc EXCEPT ![c] = e]
<1> DEFINE r == Head(replies[c])
           d == doc[c]
<1>1. r \in Replies /\ replies[c] # <<>> /\ UNCHANGED epoch /\ d \in Docs
  BY ReplyIs DEF Drain, TypeOK
<1>2. doc[c].comp # 0 => doc[c].epoch = Epoch(c)
  BY DEF Drain
<1>3. CASE Matches(c, r) /\ Starts(c, r)
  <2> DEFINE e == [d EXCEPT !.comp = r.born, !.epoch = r.epoch, !.applied = 0]
  <2>1. doc' = [doc EXCEPT ![c] = e]
    BY <1>3 DEF Starts, TypeOK
  <2>2. e \in Docs
    BY <1>1 DEF Docs, Replies
  <2>3. Changes(c, e)
    BY <1>1, <1>3, <2>2 DEF Changes, Docs, ProbeFits, Matches, Starts
  <2> QED
    BY <2>1, <2>3
<1>4. CASE Matches(c, r) /\ Updates(c, r)
  <2> DEFINE f == [d EXCEPT !.comp = r.born, !.applied = r.rev]
             e == IF focus[HostOf[c]] = c THEN Probing(f, c) ELSE f
  <2>1. doc' = [doc EXCEPT ![c] = e]
    BY <1>4 DEF Updates, TypeOK
  <2>2. f \in Docs
    BY <1>1 DEF Docs, Replies
  <2>3. Changes(c, f)
    BY <1>1, <1>2, <1>4, <2>2 DEF Changes, Docs, ProbeFits, Matches, Updates
  <2> QED
    BY <2>1, <2>2, <2>3, ProbingChanges
<1>5. CASE Matches(c, r) /\ EndsComposition(c, r)
  <2> DEFINE f == IF r.updated THEN [d EXCEPT !.comp = 0, !.epoch = 0] ELSE d
             q == [for |-> "tag", gen |-> f.gen, epoch |-> Epoch(c), tag |-> r.tag]
             e == IF r.tag # 0 /\ f.comp = 0 /\ focus[HostOf[c]] = c THEN Locating(f, q) ELSE f
  <2>1. doc' = [doc EXCEPT ![c] = e]
    BY <1>5 DEF EndsComposition, TypeOK
  <2>2. f \in Docs
    BY <1>1 DEF Docs
  <2>3. Changes(c, f)
    BY <1>1, <2>2 DEF Changes, Docs, ProbeFits
  <2>4. q \in Probes
    BY <1>1, <2>2, EpochIs DEF Probes, Docs, Replies
  <2>5. r.tag # 0 => Changes(c, Locating(f, q))
    BY <2>2, <2>3, <2>4, LocatingChanges
  <2> QED
    BY <2>1, <2>3, <2>5
<1>6. CASE UNCHANGED doc
  <2>1. doc' = [doc EXCEPT ![c] = d]
    BY <1>6 DEF TypeOK
  <2> QED
    BY <2>1, SameDoc
<1> QED
  BY <1>3, <1>4, <1>5, <1>6 DEF Drain

LEMMA MeasureChanges ==
  ASSUME TypeOK, NEW c \in Contexts, Measure(c)
  PROVE  \E e : Changes(c, e) /\ doc' = [doc EXCEPT ![c] = e]
<1> DEFINE q == doc[c].probe
           done == [doc[c] EXCEPT !.probe = NoProbe]
           again == [done EXCEPT !.retry = q]
<1>1. doc' = [doc EXCEPT ![c] = done] \/ (q.for = "tag" /\ doc' = [doc EXCEPT ![c] = again])
  BY DEF Measure
<1>2. doc[c] \in Docs /\ done \in Docs /\ again \in Docs
  BY NoDocIsDoc DEF TypeOK, Docs
<1>3. Changes(c, done)
  BY <1>2 DEF Changes, ProbeFits, Docs, NoProbe
<1>4. q.for = "tag" => Changes(c, again)
  BY <1>2 DEF Changes, ProbeFits, Docs, NoProbe
<1> QED
  BY <1>1, <1>3, <1>4

LEMMA GivenUpChanges ==
  ASSUME TypeOK, NEW c \in Contexts
  PROVE  Changes(c, GivenUp(doc[c]))
<1> DEFINE g == doc[c].gen + 1
<1>1. doc[c] \in Docs /\ g \in Nat /\ g >= doc[c].gen
  BY DEF TypeOK, Docs
<1>2. GivenUp(doc[c]) = [doc[c] EXCEPT !.gen = g, !.cleaning = TRUE]
  BY DEF GivenUp
<1> HIDE DEF g
<1>3. GivenUp(doc[c]) \in Docs
  BY <1>1, <1>2 DEF Docs
<1> QED
  BY <1>1, <1>2, <1>3 DEF Changes, Docs, ProbeFits

LEMMA DocSteps ==
  ASSUME TypeOK, [Next]_vars
  PROVE  doc' \in [Contexts -> Docs] /\ \A c \in Contexts : Changes(c, doc'[c])
<1>1. CASE UNCHANGED doc
  BY <1>1, SameDoc DEF TypeOK
<1>2. ASSUME NEW c \in Contexts, Drain(c) \/ Measure(c)
      PROVE  doc' \in [Contexts -> Docs] /\ \A x \in Contexts : Changes(x, doc'[x])
  BY <1>2, DrainChanges, MeasureChanges, OneDoc
<1>3. ASSUME NEW p \in Processes, NEW c \in Contexts \cup {None}, MoveFocus(p, c)
      PROVE  doc' \in [Contexts -> Docs] /\ \A x \in Contexts : Changes(x, doc'[x])
  <2>1. CASE focus[p] = None
    BY <2>1, <1>1, <1>3 DEF MoveFocus
  <2>2. CASE focus[p] # None
    <3> DEFINE old == focus[p]
               e == WithoutIndicator(doc[old])
    <3>1. old \in Contexts
      BY <2>2 DEF TypeOK
    <3>2. doc' = [doc EXCEPT ![old] = e]
      BY <2>2, <1>3 DEF MoveFocus
    <3>3. doc[old] \in Docs /\ e \in Docs
      BY <3>1, NoDocIsDoc DEF TypeOK, WithoutIndicator, Docs
    <3>4. Changes(old, e)
      BY <3>3 DEF Changes, WithoutIndicator, ProbeFits, Docs, NoProbe
    <3> QED
      BY <3>1, <3>2, <3>4, OneDoc
  <2> QED
    BY <2>1, <2>2
<1>4. ASSUME NEW c \in Contexts, NEW kind \in Acts, Act(c, kind)
      PROVE  doc' \in [Contexts -> Docs] /\ \A x \in Contexts : Changes(x, doc'[x])
  <2> DEFINE d == doc[c]
             g == d.gen + (IF kind \in {"cancel", "terminated"} THEN 1 ELSE 0)
             e == [d EXCEPT !.gen = g,
                            !.comp = IF kind = "terminated" THEN 0 ELSE @,
                            !.epoch = IF kind = "terminated" THEN 0 ELSE @]
  <2>1. doc' = [doc EXCEPT ![c] = e]
    BY <1>4 DEF Act
  <2>2. d \in Docs /\ d.gen \in Nat /\ g \in Nat /\ g >= d.gen
    BY DEF TypeOK, Docs
  <2>3. e \in Docs
    BY <2>2 DEF Docs
  <2>4. Changes(c, e)
    BY <2>2, <2>3 DEF Changes, Docs, ProbeFits
  <2> QED
    BY <2>1, <2>4, OneDoc
<1>5. ASSUME NEW c \in Contexts, Remove(c)
      PROVE  doc' \in [Contexts -> Docs] /\ \A x \in Contexts : Changes(x, doc'[x])
  <2> DEFINE g == doc[c].gen + 1
             e == [NoDoc EXCEPT !.alive = FALSE, !.gen = g]
  <2>1. doc' = [doc EXCEPT ![c] = e]
    BY <1>5 DEF Remove, TypeOK
  <2>2. doc[c] \in Docs /\ g \in Nat /\ g >= doc[c].gen
    BY DEF TypeOK, Docs
  <2>3. e \in Docs
    <3> HIDE DEF g
    <3> QED
      BY <2>2, NoDocIsDoc DEF Docs
  <2>4. focus'[HostOf[c]] # c
    BY <1>5, SessionAssumption, NoneIsNoValue DEF Remove, TypeOK
  <2>5. Changes(c, e)
    BY <2>2, <2>3, <2>4 DEF Changes, Docs, ProbeFits, NoDoc, NoProbe
  <2> QED
    BY <2>1, <2>5, OneDoc
<1>6. ASSUME NEW c \in Contexts, Cleanup(c)
      PROVE  doc' \in [Contexts -> Docs] /\ \A x \in Contexts : Changes(x, doc'[x])
  <2> DEFINE e == [doc[c] EXCEPT !.comp = 0, !.epoch = 0, !.cleaning = FALSE]
  <2>1. doc' = [doc EXCEPT ![c] = GivenUp(doc[c])] \/ doc' = [doc EXCEPT ![c] = e]
    BY <1>6 DEF Cleanup, TypeOK
  <2>2. doc[c] \in Docs
    BY DEF TypeOK
  <2>3. Changes(c, GivenUp(doc[c]))
    BY <2>2, GivenUpChanges
  <2>4. e \in Docs
    BY <2>2 DEF Docs
  <2>5. Changes(c, e)
    BY <2>2, <2>4 DEF Changes, Docs, ProbeFits
  <2> QED
    BY <2>1, <2>3, <2>5, OneDoc
<1>7. ASSUME NEW p \in Processes, Return(p)
      PROVE  doc' \in [Contexts -> Docs] /\ \A x \in Contexts : Changes(x, doc'[x])
  <2>1. ASSUME NEW x \in Contexts PROVE doc'[x] \in Docs /\ Changes(x, doc'[x])
    <3>1. doc[x] \in Docs
      BY DEF TypeOK
    <3>2. Changes(x, GivenUp(doc[x])) /\ GivenUp(doc[x]) \in Docs
      BY GivenUpChanges DEF Changes
    <3>3. doc'[x] \in {doc[x], GivenUp(doc[x])}
      BY <1>7 DEF Return
    <3> QED
      BY <3>1, <3>2, <3>3, SameDoc
  <2>2. \E F : doc' = [x \in Contexts |-> F[x]]
    BY <1>7 DEF Return
  <2> QED
    BY <1>7, <2>1, <2>2 DEF Return
<1>8. ASSUME NEW c \in Contexts, LayoutChange(c)
      PROVE  doc' \in [Contexts -> Docs] /\ \A x \in Contexts : Changes(x, doc'[x])
  <2> DEFINE d == doc[c]
  <2>1. \/ doc' = [doc EXCEPT ![c] = Probing(d, c)]
        \/ d.retry # NoProbe /\ doc' = [doc EXCEPT ![c] = Locating(d, d.retry)]
    BY <1>8 DEF LayoutChange, TypeOK
  <2>2. d \in Docs /\ d.retry \in Probes
    BY DEF TypeOK, Docs
  <2>3. d.retry # NoProbe => (ProbeFits(d) => d.retry.for = "tag" /\ d.retry.tag # 0)
    BY DEF ProbeFits
  <2> QED
    BY <2>1, <2>2, <2>3, SameDoc, ProbingChanges, LocatingChanges, OneDoc
<1> QED
  <2>1. Host \/ Engine \/ Click \/ Capability \/ UNCHANGED vars
    BY DEF Next
  <2>2. Engine => UNCHANGED doc
    BY EngineKeeps
  <2>3. Click \/ Capability \/ UNCHANGED vars => UNCHANGED doc
    BY DEF Click, Capability, vars, host
  <2>4. ASSUME NEW c \in Contexts, Type(c) PROVE UNCHANGED doc
    BY <2>4 DEF Type
  <2>5. ASSUME NEW p \in Processes, Connect(p) \/ Send(p) \/ Lose(p) PROVE UNCHANGED doc
    BY <2>5 DEF Connect, Send, Lose
  <2> QED
    BY <1>1, <1>2, <1>3, <1>4, <1>5, <1>6, <1>7, <1>8, <2>1, <2>2, <2>3, <2>4, <2>5 DEF Host

-----------------------------------------------------------------------------
\* librime's state and answers.

LEMMA NothingIs == NoTag \in Tags /\ NoLast \in Lasts /\ NoTag.tag = 0
BY DEF NoTag, NoLast, Tags, Lasts, Modes

LEMMA FlipIs ==
  ASSUME NEW m \in Modes
  PROVE  Flip(m) \in Modes
BY DEF Flip, Modes

LEMMA AfterKeyIs ==
  ASSUME births \in Nat, NEW b \in Rimes, NEW r \in AfterKey(b)
  PROVE  /\ r \in Rimes /\ r.n = b.n + 1
         /\ r.born = 0 \/ (b.born # 0 /\ r.born = b.born) \/ (b.born = 0 /\ r.born = births + 1)
<1>1. PICK later \in Nat, next \in Nat, flip \in Modes :
        later = b.n + 1 /\ next = births + 1 /\ flip = Flip(b.ascii)
  BY FlipIs DEF Rimes
<1>2. CASE r = [b EXCEPT !.born = 0, !.n = later, !.ascii = flip]
  BY <1>1, <1>2 DEF Rimes
<1>3. ASSUME NEW x \in {0} \cup (IF b.born # 0 THEN {b.born} ELSE IF births < MaxBirths THEN {next} ELSE {}),
             r = [b EXCEPT !.born = x, !.n = later]
      PROVE  /\ r \in Rimes /\ r.n = b.n + 1
             /\ r.born = 0 \/ (b.born # 0 /\ r.born = b.born) \/ (b.born = 0 /\ r.born = births + 1)
  <2>1. x \in Nat /\ (x = 0 \/ (b.born # 0 /\ x = b.born) \/ (b.born = 0 /\ x = next))
    BY DEF Rimes
  <2>2. r \in Rimes /\ r.n = later /\ r.born = x
    BY <1>3, <2>1 DEF Rimes
  <2> QED
    BY <1>1, <2>1, <2>2
<1> QED
  BY <1>1, <1>2, <1>3 DEF AfterKey

LEMMA ClosedIs ==
  ASSUME NEW r \in Rimes
  PROVE  Closed(r) \in Rimes /\ Closed(r).born = 0 /\ Closed(r).n = r.n + 1 /\ Closed(r).ascii = r.ascii
<1>1. PICK later \in Nat : later = r.n + 1
  BY DEF Rimes
<1>2. PICK q : q = [r EXCEPT !.born = 0, !.n = later]
  OBVIOUS
<1>3. q \in Rimes /\ q.born = 0 /\ q.n = later /\ q.ascii = r.ascii
  BY <1>2 DEF Rimes
<1>4. Closed(r) = q
  BY <1>1, <1>2 DEF Closed
<1> QED
  BY <1>1, <1>3, <1>4

LEMMA AfterCommandIs ==
  ASSUME NEW b \in Rimes, NEW kind, NEW r \in AfterCommand(b, kind)
  PROVE  /\ r \in Rimes /\ r.born \in {0, b.born}
         /\ kind \notin {"toggle", "set"} => r.ascii = b.ascii
         /\ ~Reads(kind) => r = b
<1>1. CASE kind \in {"submit", "cancel", "terminated"}
  BY <1>1, ClosedIs DEF AfterCommand, Reads
<1>2. CASE kind = "toggle"
  <2>1. r = [Closed(b) EXCEPT !.ascii = Flip(@)]
    BY <1>2 DEF AfterCommand
  <2> QED
    BY <1>2, <2>1, ClosedIs, FlipIs DEF Reads, Rimes
<1>3. CASE kind = "set"
  <2>1. PICK m \in Modes : r = [(IF m = b.ascii THEN b ELSE Closed(b)) EXCEPT !.ascii = m, !.n = b.n + 1]
    BY <1>3 DEF AfterCommand
  <2> QED
    BY <1>3, <2>1, ClosedIs DEF Reads, Rimes
<1>4. CASE kind \notin {"submit", "cancel", "terminated", "toggle", "set"}
  BY <1>4 DEF AfterCommand, Reads
<1> QED
  BY <1>1, <1>2, <1>3, <1>4

LEMMA AfterEventIs ==
  ASSUME NEW b \in Rimes, NEW r \in AfterEvent(b)
  PROVE  r \in Rimes /\ r.born \in {0, b.born} /\ r.ascii = b.ascii
BY ClosedIs DEF AfterEvent, Rimes

LEMMA AnswersAre ==
  ASSUME preedit \in BOOLEAN, NEW r \in Rimes, NEW answer \in Answers(r)
  PROVE  /\ answer \in Lasts /\ answer.born = r.born /\ answer.n = r.n /\ answer.ascii = r.ascii
         /\ answer.cands => r.born # 0
         /\ answer.ext => r.born # 0
<1>1. PICK x \in IF r.born = 0 THEN {FALSE} ELSE BOOLEAN :
        answer = [born |-> r.born, n |-> r.n, cands |-> x, ext |-> r.born # 0 /\ preedit,
                  ascii |-> r.ascii]
  BY DEF Answers
<1> DEFINE e == r.born # 0 /\ preedit
<1>2. e \in BOOLEAN /\ x \in BOOLEAN /\ (e => r.born # 0) /\ (x => r.born # 0)
  OBVIOUS
<1>3. answer = [born |-> r.born, n |-> r.n, cands |-> x, ext |-> e, ascii |-> r.ascii]
  BY <1>1
<1> HIDE DEF e
<1>4. answer \in Lasts
  BY <1>2, <1>3 DEF Rimes, Lasts
<1> QED
  BY <1>2, <1>3, <1>4

-----------------------------------------------------------------------------
\* The sessions.

LEMMA FreshIs ==
  ASSUME NEW g \in Nat, NEW m \in Modes
  PROVE  /\ Fresh(g, m) \in Sessions /\ Sound(Fresh(g, m))
         /\ Fresh(g, m).gen = g /\ Fresh(g, m).rev = 0 /\ Fresh(g, m).waiting = 0
         /\ Fresh(g, m).anchor = 0 /\ Fresh(g, m).pending.tag = 0 /\ ~Fresh(g, m).focused
         /\ Fresh(g, m).last.born = 0 /\ Fresh(g, m).rime.born = 0
BY NothingIs DEF Fresh, Sessions, Sound, NoTag, NoLast, Rimes

LEMMA KeyedIs ==
  ASSUME NEW s \in Sessions, NEW g \in Nat, NEW r \in Rimes, NEW answer \in Lasts,
         answer.born = r.born, NEW tag \in Tags
  PROVE  LET t == Keyed(s, g, r, answer, tag) IN
         /\ t \in Sessions
         /\ t.rev = s.rev + 1 /\ t.gen = g /\ t.focused /\ t.last = answer /\ t.rime = r
         /\ t.latest = s.latest
         /\ t.pending = IF r.born # 0 THEN NoTag ELSE IF tag = NoTag THEN s.pending ELSE tag
         /\ s.last.born = 0 /\ r.born # 0 => t.anchor = 0 /\ t.waiting = t.rev
         /\ ~(s.last.born = 0 /\ r.born # 0) =>
              t.anchor = s.anchor /\ t.waiting = IF r.born = 0 THEN 0 ELSE s.waiting
<1> DEFINE u == Renewed(s, answer, s.rev + 1)
           n == s.rev + 1
<1>1. n \in Nat
  BY DEF Sessions
<1>2. /\ u \in Sessions /\ u.rev = s.rev /\ u.latest = s.latest /\ u.pending = s.pending
      /\ s.last.born = 0 /\ r.born # 0 => u.anchor = 0 /\ u.waiting = n
      /\ ~(s.last.born = 0 /\ r.born # 0) =>
           u.anchor = s.anchor /\ u.waiting = IF r.born = 0 THEN 0 ELSE s.waiting
  <2> HIDE DEF n
  <2> QED
    BY <1>1 DEF Renewed, Sessions, n
<1> DEFINE p == IF r.born # 0 THEN NoTag ELSE IF tag = NoTag THEN u.pending ELSE tag
<1>3. Keyed(s, g, r, answer, tag) =
        [u EXCEPT !.rev = n, !.gen = g, !.focused = TRUE, !.last = answer, !.rime = r, !.pending = p]
  BY <1>2 DEF Keyed
<1>4. p \in Tags
  BY <1>2, NothingIs DEF Sessions
<1> HIDE DEF u, n, p
<1>5. Keyed(s, g, r, answer, tag) \in Sessions
  BY <1>1, <1>2, <1>3, <1>4 DEF Sessions
<1> QED
  BY <1>1, <1>2, <1>3, <1>5 DEF Sessions, n, p

LEMMA TagIs ==
  ASSUME NEW s \in Sessions, NEW m \in Modes
  PROVE  LET q == [tag |-> s.rev + 1, mode |-> m]
         IN  q \in Tags /\ q # NoTag /\ q.tag = s.rev + 1 /\ q.mode = m
<1>1. PICK n \in Nat : n = s.rev + 1 /\ n # 0
  BY DEF Sessions
<1>2. PICK q : q = [tag |-> n, mode |-> m]
  OBVIOUS
<1>3. q \in Tags /\ q # NoTag /\ q.tag = n /\ q.mode = m
  BY <1>1, <1>2 DEF Tags, NoTag
<1> QED
  BY <1>1, <1>2, <1>3

\* What a command makes of a session, field by field.
IsObeyed(t, s, kind, g, r, answer, tag) ==
  /\ t \in Sessions
  /\ t.rev = s.rev + 1 /\ t.gen = g /\ t.rime = r /\ t.latest = s.latest /\ t.anchor = s.anchor
  /\ t.focused = IF kind = "focus" THEN TRUE
                 ELSE IF kind \in {"blur", "terminated"} THEN FALSE ELSE s.focused
  /\ t.waiting = IF kind \in Endings \/ (Reads(kind) /\ answer.born = 0) THEN 0 ELSE s.waiting
  /\ t.pending = IF tag # NoTag THEN tag
                 ELSE IF kind \in Endings \/ (Reads(kind) /\ answer.born # 0) THEN NoTag ELSE s.pending
  /\ Reads(kind) => t.last = answer
  /\ kind = "blur" => t.last = s.last
  /\ kind = "focus" => /\ t.last.ascii = r.ascii /\ t.last.born = s.last.born
                       /\ t.last.n = s.last.n /\ (t.last.cands <=> s.last.cands)
                       /\ (t.last.ext <=> s.last.ext)

LEMMA ObeyedIs ==
  ASSUME NEW s \in Sessions, NEW kind, NEW g \in Nat, NEW r \in Rimes, NEW answer \in Lasts,
         NEW tag \in Tags
  PROVE  IsObeyed(Obeyed(s, kind, g, r, answer, tag), s, kind, g, r, answer, tag)
<1> DEFINE closed == Reads(kind) /\ answer.born = 0
           kept == IF kind \in Endings \/ (Reads(kind) /\ answer.born # 0) THEN NoTag ELSE s.pending
<1>1. PICK n \in Nat : n = s.rev + 1
  BY DEF Sessions
<1>2. PICK f \in BOOLEAN : f = IF kind = "focus" THEN TRUE
                               ELSE IF kind \in {"blur", "terminated"} THEN FALSE ELSE s.focused
  BY DEF Sessions
<1>3. PICK w \in Nat : w = IF kind \in Endings \/ closed THEN 0 ELSE s.waiting
  BY DEF Sessions
<1>4. PICK p \in Tags : p = IF tag = NoTag THEN kept ELSE tag
  BY NothingIs DEF Sessions
<1>5. PICK named : named = [s.last EXCEPT !.ascii = r.ascii]
  OBVIOUS
<1>6. /\ named \in Lasts /\ named.ascii = r.ascii /\ named.born = s.last.born
      /\ named.n = s.last.n /\ (named.cands <=> s.last.cands) /\ (named.ext <=> s.last.ext)
  <2>1. s.last \in Lasts /\ r.ascii \in Modes
    BY DEF Sessions, Rimes
  <2> QED
    BY <1>5, <2>1 DEF Lasts
<1>7. PICK last \in Lasts : last = IF Reads(kind) THEN answer
                                   ELSE IF kind = "focus" THEN named ELSE s.last
  BY <1>6 DEF Sessions
<1>8. PICK t : t = [s EXCEPT !.rev = n, !.gen = g, !.rime = r, !.focused = f, !.waiting = w,
                             !.pending = p, !.last = last]
  OBVIOUS
<1>9. /\ t \in Sessions /\ t.rev = n /\ t.gen = g /\ t.rime = r /\ t.latest = s.latest
      /\ t.anchor = s.anchor /\ t.focused = f /\ t.waiting = w /\ t.pending = p /\ t.last = last
  BY <1>8 DEF Sessions
<1>10. Obeyed(s, kind, g, r, answer, tag) = t
  BY <1>1, <1>2, <1>3, <1>4, <1>5, <1>7, <1>8 DEF Obeyed
<1> QED
  BY <1>1, <1>2, <1>3, <1>4, <1>6, <1>7, <1>9, <1>10 DEF Reads, IsObeyed

LEMMA HandledIs ==
  ASSUME NEW s \in Sessions, NEW r \in Rimes, NEW answer \in Lasts
  PROVE  LET t == Handled(s, r, answer) IN
         /\ t \in Sessions
         /\ t.rev = s.rev + 1 /\ t.gen = s.gen /\ t.rime = r /\ t.last = answer
         /\ t.latest = s.latest /\ t.anchor = s.anchor /\ t.focused = s.focused
         /\ t.pending = s.pending /\ t.waiting = IF r.born = 0 THEN 0 ELSE s.waiting
<1>1. PICK n \in Nat : n = s.rev + 1
  BY DEF Sessions
<1>2. PICK w \in Nat : w = IF r.born = 0 THEN 0 ELSE s.waiting
  BY DEF Sessions
<1>3. PICK t : t = [s EXCEPT !.rev = n, !.rime = r, !.last = answer, !.waiting = w]
  OBVIOUS
<1>4. /\ t \in Sessions /\ t.rev = n /\ t.gen = s.gen /\ t.rime = r /\ t.last = answer
      /\ t.latest = s.latest /\ t.anchor = s.anchor /\ t.focused = s.focused
      /\ t.pending = s.pending /\ t.waiting = w
  BY <1>3 DEF Sessions
<1>5. Handled(s, r, answer) = t
  BY <1>1, <1>2, <1>3 DEF Handled
<1> QED
  BY <1>1, <1>2, <1>4, <1>5

\* What a revision does to a session: it waits for what it waited for, for itself, or not at all.
Follows(s, t) ==
  /\ t \in Sessions /\ Sound(t) /\ t.rev = s.rev + 1 /\ t.latest = s.latest
  /\ t.anchor \in {0, s.anchor}
  /\ \/ t.waiting = 0 \/ t.waiting = t.rev
     \/ t.waiting = s.waiting /\ t.anchor = s.anchor /\ t.last.born = s.last.born

LEMMA KeyFollows ==
  ASSUME preedit \in BOOLEAN, NEW s \in Sessions, Sound(s), NEW g \in Nat, NEW b \in Rimes, b.born = s.rime.born,
         NEW r \in AfterKey(b), births \in Nat, NEW answer \in Answers(r),
         NEW tag, tag = Requested(s, answer.born = 0 /\ s.last.ascii \notin {"none", answer.ascii},
                                  "switch", r.ascii)
  PROVE  Follows(s, Keyed(s, g, r, answer, tag)) /\ tag \in Tags
<1> DEFINE t == Keyed(s, g, r, answer, tag)
<1>1. /\ r \in Rimes /\ r.ascii \in Modes
      /\ r.born = 0 \/ (b.born # 0 /\ r.born = b.born) \/ (b.born = 0 /\ r.born = births + 1)
  BY AfterKeyIs DEF Rimes
<1>2. /\ answer \in Lasts /\ answer.born = r.born /\ answer.n = r.n /\ answer.ascii = r.ascii
      /\ answer.cands => r.born # 0
  BY <1>1, AnswersAre
<1>3. /\ tag \in Tags
      /\ tag = NoTag <=> ~(answer.born = 0 /\ s.last.ascii \notin {"none", answer.ascii} /\ "switch" \in Reasons)
      /\ tag # NoTag => "switch" \in Reasons /\ tag.tag = s.rev + 1 /\ tag.mode = r.ascii
  BY <1>1, TagIs, NothingIs DEF Requested
<1>4. /\ t \in Sessions
      /\ t.rev = s.rev + 1 /\ t.gen = g /\ t.focused /\ t.last = answer /\ t.rime = r
      /\ t.latest = s.latest
      /\ t.pending = IF r.born # 0 THEN NoTag ELSE IF tag = NoTag THEN s.pending ELSE tag
      /\ s.last.born = 0 /\ r.born # 0 => t.anchor = 0 /\ t.waiting = t.rev
      /\ ~(s.last.born = 0 /\ r.born # 0) =>
           t.anchor = s.anchor /\ t.waiting = IF r.born = 0 THEN 0 ELSE s.waiting
  BY <1>1, <1>2, <1>3, KeyedIs
<1> HIDE DEF t
<1>5. s.rime.born = s.last.born /\ s.rev \in Nat /\ s.pending.tag <= s.rev /\ s.pending.tag \in Nat
  BY DEF Sound, Sessions, Tags
<1>6. s.pending.tag # 0 => /\ "switch" \in Reasons /\ s.last.ascii = s.rime.ascii
                           /\ s.pending.mode = s.rime.ascii /\ s.rime.ascii # "none"
  BY DEF Sound, Sessions, Rimes, Modes
<1>7. /\ t.pending.tag <= t.rev
      /\ t.pending.tag # 0 => "switch" \in Reasons /\ t.pending.mode = r.ascii
  <2>1. CASE r.born # 0
    BY <2>1, <1>4, <1>5, NothingIs
  <2>2. CASE r.born = 0 /\ tag = NoTag
    BY <2>2, <1>2, <1>3, <1>4, <1>5, <1>6
  <2>3. CASE r.born = 0 /\ tag # NoTag
    BY <2>3, <1>3, <1>4, <1>5
  <2> QED
    BY <2>1, <2>2, <2>3
<1>8. t.waiting # 0 => t.anchor = 0 /\ r.born # 0 /\ t.waiting <= t.rev
  BY <1>1, <1>4, <1>5 DEF Sound, Sessions
<1>9. Sound(t)
  BY <1>2, <1>4, <1>7, <1>8 DEF Sound
<1>10. \/ t.waiting = 0 \/ t.waiting = t.rev
       \/ t.waiting = s.waiting /\ t.anchor = s.anchor /\ t.last.born = s.last.born
  BY <1>1, <1>2, <1>4, <1>5
<1> QED
  BY <1>3, <1>4, <1>9, <1>10 DEF Follows, t

\* What a command but a key and a removal is, and the indicator it asks for.
Kinds == {"focus", "blur", "cancel", "terminated", "submit", "toggle", "set"}
Asked(s, kind, r) ==
  CASE kind = "focus" -> Requested(s, TRUE, "focus", r.ascii)
    [] kind = "toggle" -> Requested(s, s.last.ascii \notin {"none", r.ascii}, "switch", r.ascii)
    [] OTHER -> NoTag

LEMMA CommandFollows ==
  ASSUME preedit \in BOOLEAN, NEW s \in Sessions, Sound(s), NEW kind \in Kinds, NEW g \in Nat, NEW b \in Rimes,
         b.born = s.rime.born, b.n = s.rime.n,
         kind \notin {"focus", "toggle"} => b = s.rime,
         kind = "focus" => s.pending.tag = 0,
         kind = "set" => s.rev = 0,
         NEW r \in AfterCommand(b, kind), NEW answer \in Answers(r)
  PROVE  /\ Follows(s, Obeyed(s, kind, g, r, answer, Asked(s, kind, r)))
         /\ Asked(s, kind, r) \in Tags
<1> DEFINE tag == Asked(s, kind, r)
           t == Obeyed(s, kind, g, r, answer, tag)
           closed == Reads(kind) /\ answer.born = 0
           kept == IF kind \in Endings \/ (Reads(kind) /\ answer.born # 0) THEN NoTag ELSE s.pending
<1>1. /\ r \in Rimes /\ r.ascii \in Modes /\ r.born \in {0, b.born}
      /\ ~Reads(kind) => r = b
  BY AfterCommandIs DEF Rimes
<1>2. /\ answer \in Lasts /\ answer.born = r.born /\ answer.n = r.n /\ answer.ascii = r.ascii
      /\ answer.cands => r.born # 0
  BY <1>1, AnswersAre
<1>3. /\ tag \in Tags
      /\ tag # NoTag => /\ "switch" \in Reasons /\ tag.tag = s.rev + 1 /\ tag.mode = r.ascii
                        /\ kind \in {"focus", "toggle"}
      /\ kind = "toggle" /\ "switch" \in Reasons /\ tag = NoTag => s.last.ascii \in {"none", r.ascii}
  <2>1. "focus" \in Reasons => "switch" \in Reasons
    BY SessionAssumption
  <2>2. CASE kind = "focus"
    BY <2>1, <2>2, <1>1, TagIs, NothingIs DEF Asked, Requested
  <2>3. CASE kind = "toggle"
    BY <2>3, <1>1, TagIs, NothingIs DEF Asked, Requested
  <2>4. CASE kind \notin {"focus", "toggle"}
    BY <2>4, NothingIs DEF Asked
  <2> QED
    BY <2>2, <2>3, <2>4
<1> HIDE DEF tag
<1>4. IsObeyed(t, s, kind, g, r, answer, tag)
  BY <1>1, <1>2, <1>3, ObeyedIs
<1> HIDE DEF t
<1> USE DEF IsObeyed
<1>5. /\ s.rime.born = s.last.born /\ s.rime.n = s.last.n /\ s.rev \in Nat
      /\ s.pending.tag <= s.rev /\ s.pending.tag \in Nat
      /\ s.last.ascii \in {"none", s.rime.ascii}
      /\ s.last.cands => s.last.born # 0
      /\ s.waiting # 0 => s.anchor = 0 /\ s.last.born # 0 /\ s.waiting <= s.rev
      /\ s.waiting \in Nat
  BY DEF Sound, Sessions, Tags
<1>6. s.pending.tag # 0 => /\ "switch" \in Reasons /\ s.last.ascii = s.rime.ascii
                           /\ s.pending.mode = s.rime.ascii /\ s.rime.ascii # "none"
  BY DEF Sound, Sessions, Rimes, Modes
<1>7. \/ kind = "focus" \/ kind = "blur" \/ Reads(kind)
  BY DEF Reads
<1>8. Reads(kind) => kind # "focus" /\ kind # "blur"
  BY DEF Reads
<1>9. kind \in {"cancel", "submit", "terminated"} => r.born = 0 /\ kind \in Endings
  <2>1. b \in Rimes => Closed(b).born = 0
    BY ClosedIs
  <2> QED
    BY <2>1 DEF AfterCommand, Endings
<1>10. /\ t.last.born = r.born /\ t.last.n = r.n /\ t.last.ascii \in {"none", r.ascii}
       /\ t.last.cands => t.last.born # 0
  <2>1. CASE kind = "focus"
    BY <2>1, <1>1, <1>4, <1>5, <1>7, <1>8
  <2>2. CASE kind = "blur"
    BY <2>2, <1>1, <1>4, <1>5, <1>7, <1>8
  <2>3. CASE Reads(kind)
    BY <2>3, <1>2, <1>4
  <2> QED
    BY <2>1, <2>2, <2>3, <1>7
<1>11. /\ t.waiting \in {0, s.waiting}
       /\ t.waiting # 0 => t.last.born = s.last.born
       /\ t.waiting # 0 => t.anchor = 0 /\ t.last.born # 0 /\ t.waiting <= t.rev
  <2>1. t.waiting \in {0, s.waiting}
    BY <1>4
  <2>2. ASSUME t.waiting # 0 PROVE t.last.born = s.last.born
    <3>1. CASE Reads(kind)
      BY <3>1, <2>2, <1>1, <1>2, <1>4, <1>5
    <3>2. CASE ~Reads(kind)
      BY <3>2, <1>4, <1>7
    <3> QED
      BY <3>1, <3>2
  <2> QED
    BY <2>1, <2>2, <1>4, <1>5
<1>12. /\ t.pending.tag <= t.rev
       /\ t.pending.tag # 0 => /\ "switch" \in Reasons /\ t.last.ascii = r.ascii
                               /\ t.pending.mode = r.ascii
  <2>1. CASE kind = "focus"
    BY <2>1, <1>3, <1>4, <1>5, <1>7, <1>8, NothingIs DEF Endings
  <2>2. CASE kind \in Endings
    BY <2>2, <1>3, <1>4, <1>5, NothingIs DEF Endings
  <2>3. CASE kind = "toggle"
    <3>1. Reads(kind) /\ kind \notin Endings /\ t.last.ascii = r.ascii
      BY <2>3, <1>2, <1>4 DEF Reads, Endings
    <3>2. CASE tag # NoTag
      BY <3>1, <3>2, <1>3, <1>4, <1>5
    <3>3. CASE tag = NoTag /\ answer.born # 0
      BY <3>1, <3>3, <1>4, <1>5, NothingIs
    <3>4. CASE tag = NoTag /\ answer.born = 0
      <4>1. t.pending = s.pending
        BY <3>1, <3>4, <1>4
      <4> QED
        BY <2>3, <3>1, <3>4, <4>1, <1>3, <1>4, <1>5, <1>6
    <3> QED
      BY <3>2, <3>3, <3>4
  <2>4. CASE kind = "set"
    <3>1. s.pending.tag = 0 /\ tag = NoTag
      BY <2>4, <1>3, <1>5
    <3> QED
      BY <2>4, <3>1, <1>4, <1>5, NothingIs
  <2> QED
    BY <2>1, <2>2, <2>3, <2>4 DEF Kinds, Endings
<1>13. Sound(t)
  BY <1>4, <1>10, <1>11, <1>12 DEF Sound
<1> QED
  BY <1>3, <1>4, <1>11, <1>13 DEF Follows, t, tag

LEMMA EventFollows ==
  ASSUME preedit \in BOOLEAN, NEW s \in Sessions, Sound(s), NEW r \in AfterEvent(s.rime), NEW answer \in Answers(r)
  PROVE  Follows(s, Handled(s, r, answer))
<1> DEFINE t == Handled(s, r, answer)
<1>1. /\ s.rime \in Rimes /\ s.rime.born = s.last.born /\ s.rev \in Nat /\ s.waiting \in Nat
      /\ s.pending.tag \in Nat
  BY DEF Sound, Sessions, Tags
<1>2. r \in Rimes /\ r.born \in {0, s.last.born} /\ r.ascii = s.rime.ascii
  BY <1>1, AfterEventIs
<1>3. /\ answer \in Lasts /\ answer.born = r.born /\ answer.n = r.n /\ answer.ascii = r.ascii
      /\ answer.cands => r.born # 0
  BY <1>2, AnswersAre
<1>4. /\ t \in Sessions
      /\ t.rev = s.rev + 1 /\ t.gen = s.gen /\ t.rime = r /\ t.last = answer
      /\ t.latest = s.latest /\ t.anchor = s.anchor /\ t.focused = s.focused
      /\ t.pending = s.pending /\ t.waiting = IF r.born = 0 THEN 0 ELSE s.waiting
  BY <1>2, <1>3, HandledIs
<1> HIDE DEF t
<1>5. Sound(t)
  BY <1>1, <1>2, <1>3, <1>4 DEF Sound
<1> QED
  BY <1>1, <1>2, <1>3, <1>4, <1>5 DEF Follows, t

\* What the loss of the renderer makes of a session (IdleInline).
Back(s) == [s EXCEPT !.last.ext = FALSE, !.rev = @ + 1]

LEMMA BackIs ==
  ASSUME NEW s \in Sessions, Sound(s)
  PROVE  LET t == Back(s) IN
         /\ Follows(s, t) /\ t.gen = s.gen /\ t.focused = s.focused /\ t.rime = s.rime
         /\ t.last.born = s.last.born /\ t.last.ascii = s.last.ascii /\ t.pending = s.pending
         /\ ~t.last.ext
<1>1. PICK n \in Nat : n = s.rev + 1
  BY DEF Sessions
<1>2. PICK l : l = [s.last EXCEPT !.ext = FALSE]
  OBVIOUS
<1>3. /\ l \in Lasts /\ l.born = s.last.born /\ l.n = s.last.n /\ l.ascii = s.last.ascii
      /\ (l.cands <=> s.last.cands) /\ ~l.ext
  <2>1. s.last \in Lasts
    BY DEF Sessions
  <2> QED
    BY <1>2, <2>1 DEF Lasts
<1>4. PICK t : t = [s EXCEPT !.last = l, !.rev = n]
  OBVIOUS
<1>5. /\ t \in Sessions /\ t.rev = n /\ t.gen = s.gen /\ t.rime = s.rime /\ t.latest = s.latest
      /\ t.anchor = s.anchor /\ t.focused = s.focused /\ t.pending = s.pending
      /\ t.waiting = s.waiting /\ t.last = l
  BY <1>3, <1>4 DEF Sessions
<1>6. Back(s) = t
  BY <1>1, <1>2, <1>4 DEF Back
<1>7. s.waiting \in Nat /\ s.rev \in Nat /\ s.pending.tag \in Nat
  BY DEF Sessions, Tags
<1>8. Sound(t)
  BY <1>1, <1>3, <1>5, <1>7 DEF Sound
<1> QED
  BY <1>1, <1>3, <1>5, <1>6, <1>8 DEF Follows

\* What a measure makes of a session.
Placed(s, u) == [s EXCEPT !.latest = u.rev, !.anchor = u.anchor,
                          !.waiting = IF s.waiting # 0 /\ u.anchor # 0 THEN 0 ELSE @]

LEMMA PlacedIs ==
  ASSUME NEW s \in Sessions, Sound(s), NEW u \in Measures
  PROVE  LET t == Placed(s, u) IN
         /\ t \in Sessions /\ Sound(t) /\ t.rev = s.rev /\ t.gen = s.gen /\ t.focused = s.focused
         /\ t.last = s.last /\ t.rime = s.rime /\ t.pending = s.pending
         /\ t.anchor = u.anchor /\ t.latest = u.rev
         /\ t.waiting = IF u.anchor = 0 THEN s.waiting ELSE 0
<1>1. PICK w \in Nat : w = IF s.waiting # 0 /\ u.anchor # 0 THEN 0 ELSE s.waiting
  BY DEF Sessions
<1>2. PICK t : t = [s EXCEPT !.latest = u.rev, !.anchor = u.anchor, !.waiting = w]
  OBVIOUS
<1>3. /\ t \in Sessions /\ t.rev = s.rev /\ t.gen = s.gen /\ t.focused = s.focused
      /\ t.last = s.last /\ t.rime = s.rime /\ t.pending = s.pending
      /\ t.anchor = u.anchor /\ t.latest = u.rev /\ t.waiting = w
  BY <1>2 DEF Sessions, Measures
<1>4. Placed(s, u) = t
  BY <1>1, <1>2 DEF Placed
<1>5. Sound(t)
  BY <1>1, <1>3 DEF Sound
<1> QED
  BY <1>1, <1>3, <1>4, <1>5

LEMMA IndicatedIs ==
  ASSUME NEW s \in Sessions, Sound(s)
  PROVE  LET t == [s EXCEPT !.pending = NoTag] IN
         /\ t \in Sessions /\ Sound(t) /\ t.rev = s.rev /\ t.gen = s.gen /\ t.focused = s.focused
         /\ t.last = s.last /\ t.rime = s.rime /\ t.pending = NoTag
         /\ t.anchor = s.anchor /\ t.latest = s.latest /\ t.waiting = s.waiting
<1>1. PICK t : t = [s EXCEPT !.pending = NoTag]
  OBVIOUS
<1>2. /\ t \in Sessions /\ t.rev = s.rev /\ t.gen = s.gen /\ t.focused = s.focused
      /\ t.last = s.last /\ t.rime = s.rime /\ t.pending = NoTag
      /\ t.anchor = s.anchor /\ t.latest = s.latest /\ t.waiting = s.waiting
  BY <1>1, NothingIs DEF Sessions
<1>3. s.rev \in Nat
  BY DEF Sessions
<1>4. Sound(t)
  BY <1>2, <1>3, NothingIs DEF Sound
<1> QED
  BY <1>1, <1>2, <1>4

-----------------------------------------------------------------------------
\* A host's queue of commands.

\* What ends a context's turn of the focus.
Ending(m, c) == m.c = c /\ m.kind \in Endings \cup {"destroy"}

\* Between two commands of a context of which the second is a focus something ends the context's
\* turn; if it has not the focus any more, its last command but endings is followed by one.
Refocus(q, c) ==
  \A i, j \in DOMAIN q : i < j /\ q[i].c = c /\ q[j].c = c /\ q[j].kind = "focus" =>
    \E x \in i .. j - 1 : Ending(q[x], c)
Left(q, c) == \A i \in DOMAIN q : q[i].c = c => \E x \in i .. Len(q) : Ending(q[x], c)

\* The same of a session, which stands before the queue's first command.
Settled(q, c) ==
  \A j \in DOMAIN q : q[j].c = c /\ q[j].kind = "focus" => \E x \in 1 .. j - 1 : Ending(q[x], c)
Ends(q, c) == \E x \in DOMAIN q : Ending(q[x], c)

\* What a host queues, and where that leaves its focus.
Puts(f, m, g) ==
  \/ m.kind # "focus" /\ f = m.c /\ g = f
  \/ m.kind = "focus" /\ f = None /\ g = m.c
  \/ Ending(m, m.c) /\ g = IF f = m.c THEN None ELSE f

LEMMA AppendIs ==
  ASSUME NEW S, NEW q \in Seq(S), NEW m \in S
  PROVE  /\ Append(q, m) \in Seq(S) /\ Len(Append(q, m)) = Len(q) + 1 /\ Len(q) \in Nat
         /\ DOMAIN q = 1 .. Len(q) /\ DOMAIN Append(q, m) = 1 .. Len(q) + 1
         /\ \A i \in 1 .. Len(q) : Append(q, m)[i] = q[i]
         /\ Append(q, m)[Len(q) + 1] = m
OBVIOUS

LEMMA TailIs ==
  ASSUME NEW S, NEW q \in Seq(S), q # <<>>
  PROVE  /\ Tail(q) \in Seq(S) /\ Len(q) \in Nat /\ Len(q) >= 1 /\ Len(Tail(q)) = Len(q) - 1
         /\ DOMAIN q = 1 .. Len(q) /\ DOMAIN Tail(q) = 1 .. Len(q) - 1
         /\ \A i \in 1 .. Len(q) - 1 : Tail(q)[i] = q[i + 1] /\ i + 1 \in 1 .. Len(q)
         /\ Head(q) = q[1] /\ Head(q) \in S
OBVIOUS

LEMMA BlurPut ==
  ASSUME NEW q \in Seq(Commands), NEW m \in Commands, NEW f, NEW g, NEW c \in Contexts, Puts(f, m, g),
         Refocus(q, c), f # c => Left(q, c)
  PROVE  Refocus(Append(q, m), c) /\ (g # c => Left(Append(q, m), c))
<1> DEFINE a == Append(q, m)
<1>1. /\ Len(a) = Len(q) + 1 /\ Len(q) \in Nat /\ DOMAIN q = 1 .. Len(q) /\ DOMAIN a = 1 .. Len(q) + 1
      /\ \A i \in 1 .. Len(q) : a[i] = q[i]
      /\ a[Len(q) + 1] = m
  BY AppendIs
<1>2. c # None
  BY NoneIsNoValue
<1> HIDE DEF a
<1>3. ASSUME NEW i \in DOMAIN a, NEW j \in DOMAIN a, i < j, a[i].c = c, a[j].c = c, a[j].kind = "focus"
      PROVE  \E x \in i .. j - 1 : Ending(a[x], c)
  <2>1. i \in DOMAIN q /\ a[i] = q[i] /\ i \in Nat /\ j \in Nat
    BY <1>1, <1>3
  <2>2. CASE j \in DOMAIN q
    <3>1. PICK x \in i .. j - 1 : Ending(q[x], c)
      BY <2>1, <2>2, <1>1, <1>3 DEF Refocus
    <3>2. a[x] = q[x]
      BY <1>1, <2>1, <2>2
    <3> QED
      BY <3>1, <3>2
  <2>3. CASE j = Len(q) + 1
    <3>1. m.kind = "focus" /\ m.c = c
      BY <2>3, <1>1, <1>3
    <3>2. f # c
      BY <3>1, <1>2 DEF Puts, Ending, Endings
    <3>3. PICK x \in i .. Len(q) : Ending(q[x], c)
      BY <3>2, <2>1, <1>3 DEF Left
    <3>4. a[x] = q[x] /\ x \in i .. j - 1
      BY <1>1, <2>1, <2>3
    <3> QED
      BY <3>3, <3>4
  <2> QED
    BY <1>1, <2>2, <2>3
<1>4. ASSUME g # c, NEW i \in DOMAIN a, a[i].c = c
      PROVE  \E x \in i .. Len(a) : Ending(a[x], c)
  <2>1. CASE Ending(m, c)
    BY <2>1, <1>1
  <2>2. CASE ~Ending(m, c)
    <3>1. f # c /\ m.c # c
      BY <2>2, <1>2, <1>4 DEF Puts, Ending
    <3>2. i \in DOMAIN q /\ a[i] = q[i]
      BY <3>1, <1>1, <1>4
    <3>3. PICK x \in i .. Len(q) : Ending(q[x], c)
      BY <3>1, <3>2, <1>4 DEF Left
    <3>4. x \in i .. Len(a) /\ a[x] = q[x]
      BY <3>2, <1>1
    <3> QED
      BY <3>3, <3>4
  <2> QED
    BY <2>1, <2>2
<1> QED
  BY <1>3, <1>4 DEF Refocus, Left, a

LEMMA SettledPut ==
  ASSUME NEW q \in Seq(Commands), NEW m \in Commands, NEW f, NEW g, NEW c \in Contexts, Puts(f, m, g),
         Settled(q, c), f # c => Ends(q, c)
  PROVE  Settled(Append(q, m), c) /\ (g # c => Ends(Append(q, m), c))
<1> DEFINE a == Append(q, m)
<1>1. /\ Len(a) = Len(q) + 1 /\ Len(q) \in Nat /\ DOMAIN q = 1 .. Len(q) /\ DOMAIN a = 1 .. Len(q) + 1
      /\ \A i \in 1 .. Len(q) : a[i] = q[i]
      /\ a[Len(q) + 1] = m
  BY AppendIs
<1>2. c # None
  BY NoneIsNoValue
<1> HIDE DEF a
<1>3. ASSUME NEW j \in DOMAIN a, a[j].c = c, a[j].kind = "focus"
      PROVE  \E x \in 1 .. j - 1 : Ending(a[x], c)
  <2>1. CASE j \in DOMAIN q
    <3>1. PICK x \in 1 .. j - 1 : Ending(q[x], c)
      BY <2>1, <1>1, <1>3 DEF Settled
    <3>2. a[x] = q[x]
      BY <1>1, <2>1
    <3> QED
      BY <3>1, <3>2
  <2>2. CASE j = Len(q) + 1
    <3>1. m.kind = "focus" /\ m.c = c
      BY <2>2, <1>1, <1>3
    <3>2. f # c
      BY <3>1, <1>2 DEF Puts, Ending, Endings
    <3>3. PICK x \in DOMAIN q : Ending(q[x], c)
      BY <3>2 DEF Ends
    <3>4. a[x] = q[x] /\ x \in 1 .. j - 1
      BY <1>1, <2>2
    <3> QED
      BY <3>3, <3>4
  <2> QED
    BY <1>1, <2>1, <2>2
<1>4. ASSUME g # c PROVE \E x \in DOMAIN a : Ending(a[x], c)
  <2>1. CASE Ending(m, c)
    BY <2>1, <1>1
  <2>2. CASE ~Ending(m, c)
    <3>1. f # c
      BY <2>2, <1>2, <1>4 DEF Puts, Ending
    <3>2. PICK x \in DOMAIN q : Ending(q[x], c)
      BY <3>1 DEF Ends
    <3>3. x \in DOMAIN a /\ a[x] = q[x]
      BY <1>1
    <3> QED
      BY <3>2, <3>3
  <2> QED
    BY <2>1, <2>2
<1> QED
  BY <1>3, <1>4 DEF Settled, Ends, a

LEMMA BlurTail ==
  ASSUME NEW q \in Seq(Commands), q # <<>>, NEW c \in Contexts, Refocus(q, c)
  PROVE  /\ Refocus(Tail(q), c)
         /\ Left(q, c) => Left(Tail(q), c)
         /\ Head(q).c = c /\ ~Ending(Head(q), c) => Settled(Tail(q), c) /\ (Left(q, c) => Ends(Tail(q), c))
         /\ Settled(q, c) /\ ~Ending(Head(q), c) => Settled(Tail(q), c)
         /\ Ends(q, c) /\ ~Ending(Head(q), c) => Ends(Tail(q), c)
         /\ Settled(q, c) => Head(q).c # c \/ Head(q).kind # "focus"
<1> DEFINE b == Tail(q)
           n == Len(q)
<1>1. /\ n \in Nat /\ n >= 1 /\ Len(b) = n - 1 /\ DOMAIN q = 1 .. n /\ DOMAIN b = 1 .. n - 1
      /\ \A i \in 1 .. n - 1 : b[i] = q[i + 1] /\ i + 1 \in 1 .. n
      /\ Head(q) = q[1]
  BY TailIs
<1> HIDE DEF b, n
<1>2. \A x \in 2 .. n : x - 1 \in 1 .. n - 1 /\ b[x - 1] = q[x]
  <2>1. ASSUME NEW x \in 2 .. n PROVE x - 1 \in 1 .. n - 1 /\ b[x - 1] = q[x]
    <3>1. x - 1 \in 1 .. n - 1 /\ (x - 1) + 1 = x
      BY <1>1
    <3> QED
      BY <3>1, <1>1
  <2> QED
    BY <2>1
<1>3. Refocus(b, c)
  <2>1. ASSUME NEW i \in DOMAIN b, NEW j \in DOMAIN b, i < j, b[i].c = c, b[j].c = c, b[j].kind = "focus"
        PROVE  \E x \in i .. j - 1 : Ending(b[x], c)
    <3>1. i \in 1 .. n - 1 /\ j \in 1 .. n - 1 /\ i + 1 \in DOMAIN q /\ j + 1 \in DOMAIN q
      BY <1>1
    <3>2. q[i + 1].c = c /\ q[j + 1].c = c /\ q[j + 1].kind = "focus" /\ i + 1 < j + 1
      BY <1>1, <2>1, <3>1
    <3>3. PICK x \in i + 1 .. (j + 1) - 1 : Ending(q[x], c)
      BY <3>1, <3>2 DEF Refocus
    <3>4. x \in 2 .. n /\ x - 1 \in i .. j - 1
      BY <1>1, <3>1
    <3> QED
      BY <3>3, <3>4, <1>2
  <2> QED
    BY <2>1 DEF Refocus
<1>4. ASSUME Left(q, c) PROVE Left(b, c)
  <2>1. ASSUME NEW i \in DOMAIN b, b[i].c = c PROVE \E x \in i .. Len(b) : Ending(b[x], c)
    <3>1. i \in 1 .. n - 1 /\ i + 1 \in DOMAIN q /\ q[i + 1].c = c
      BY <1>1, <2>1
    <3>2. PICK x \in i + 1 .. n : Ending(q[x], c)
      BY <3>1, <1>4 DEF Left, n
    <3>3. x \in 2 .. n /\ x - 1 \in i .. Len(b)
      BY <1>1, <3>1
    <3> QED
      BY <3>2, <3>3, <1>2
  <2> QED
    BY <2>1 DEF Left
<1>5. ASSUME Head(q).c = c, ~Ending(Head(q), c) PROVE Settled(b, c) /\ (Left(q, c) => Ends(b, c))
  <2>1. ASSUME NEW j \in DOMAIN b, b[j].c = c, b[j].kind = "focus"
        PROVE  \E x \in 1 .. j - 1 : Ending(b[x], c)
    <3>1. j \in 1 .. n - 1 /\ 1 \in DOMAIN q /\ j + 1 \in DOMAIN q /\ q[j + 1].c = c
          /\ q[j + 1].kind = "focus" /\ 1 < j + 1 /\ q[1].c = c
      BY <1>1, <1>5, <2>1
    <3>2. PICK x \in 1 .. (j + 1) - 1 : Ending(q[x], c)
      BY <3>1 DEF Refocus
    <3>3. x # 1
      BY <1>1, <1>5, <3>2
    <3>4. x \in 2 .. n /\ x - 1 \in 1 .. j - 1
      BY <1>1, <3>1, <3>3
    <3> QED
      BY <3>2, <3>4, <1>2
  <2>2. ASSUME Left(q, c) PROVE \E x \in DOMAIN b : Ending(b[x], c)
    <3>1. 1 \in DOMAIN q /\ q[1].c = c
      BY <1>1, <1>5
    <3>2. PICK x \in 1 .. n : Ending(q[x], c)
      BY <3>1, <2>2 DEF Left, n
    <3>3. x # 1
      BY <1>1, <1>5, <3>2
    <3>4. x \in 2 .. n
      BY <1>1, <3>3
    <3> QED
      BY <3>2, <3>4, <1>1, <1>2
  <2> QED
    BY <2>1, <2>2 DEF Settled, Ends
<1>6. ASSUME Settled(q, c), ~Ending(Head(q), c) PROVE Settled(b, c)
  <2>1. ASSUME NEW j \in DOMAIN b, b[j].c = c, b[j].kind = "focus"
        PROVE  \E x \in 1 .. j - 1 : Ending(b[x], c)
    <3>1. j \in 1 .. n - 1 /\ j + 1 \in DOMAIN q /\ q[j + 1].c = c /\ q[j + 1].kind = "focus"
      BY <1>1, <2>1
    <3>2. PICK x \in 1 .. (j + 1) - 1 : Ending(q[x], c)
      BY <3>1, <1>6 DEF Settled
    <3>3. x # 1
      BY <1>1, <1>6, <3>2
    <3>4. x \in 2 .. n /\ x - 1 \in 1 .. j - 1
      BY <1>1, <3>1, <3>3
    <3> QED
      BY <3>2, <3>4, <1>2
  <2> QED
    BY <2>1 DEF Settled
<1>7. ASSUME Ends(q, c), ~Ending(Head(q), c) PROVE Ends(b, c)
  <2>1. PICK x \in DOMAIN q : Ending(q[x], c)
    BY <1>7 DEF Ends
  <2>2. x \in 2 .. n
    BY <1>1, <1>7, <2>1
  <2> QED
    BY <2>1, <2>2, <1>1, <1>2 DEF Ends
<1>8. ASSUME Settled(q, c) PROVE Head(q).c # c \/ Head(q).kind # "focus"
  <2>1. 1 \in DOMAIN q /\ ~\E x \in 1 .. 1 - 1 : TRUE
    BY <1>1
  <2> QED
    BY <1>1, <1>8, <2>1 DEF Settled
<1> QED
  BY <1>3, <1>4, <1>5, <1>6, <1>7, <1>8 DEF b

\* A command a host sends: of its own time, and as its focus demands.
Sends(p, m, f, g) ==
  /\ m \in Commands /\ HostOf[m.c] = p /\ doc[m.c].alive /\ Puts(f, m, g)
  /\ doc[m.c].gen <= m.gen /\ m.gen <= doc'[m.c].gen
  /\ m.kind = "destroy" => ~doc'[m.c].alive

\* The queue stays, loses its first command or gets one or two more.
QueueStep(p) ==
  \/ todo'[p] = todo[p] /\ focus'[p] = focus[p]
  \/ /\ todo[p] # <<>> /\ todo'[p] = Tail(todo[p]) /\ focus'[p] = focus[p]
     /\ up'[p] => Engine
  \/ \E m : /\ Sends(p, m, focus[p], focus'[p]) /\ todo'[p] = Append(todo[p], m)
            /\ UNCHANGED sess /\ UNCHANGED up /\ UNCHANGED epoch
  \/ \E m, n, f : /\ Sends(p, m, focus[p], f) /\ Sends(p, n, f, focus'[p])
                  /\ m.kind = "blur" /\ m.gen = doc[m.c].gen
                  /\ todo'[p] = Append(Append(todo[p], m), n)
                  /\ UNCHANGED sess /\ UNCHANGED up /\ UNCHANGED epoch

LEMMA JoinIs ==
  ASSUME NEW q \in Seq(Commands)
  PROVE  /\ q \o <<>> = q
         /\ \A m \in Commands : q \o <<m>> = Append(q, m) /\ Append(q, m) \in Seq(Commands)
OBVIOUS

LEMMA CommandIs ==
  ASSUME NEW c \in Contexts, NEW g \in Nat,
         NEW kind \in {"key", "focus", "blur", "cancel", "terminated", "submit", "toggle", "destroy"}
  PROVE  /\ Command(kind, c, g) \in Commands /\ Command(kind, c, g).kind = kind
         /\ Command(kind, c, g).c = c /\ Command(kind, c, g).gen = g
BY DEF Command, Commands

\* The hosts' queues after a step, which is one of one host.
QueueSteps(q) == q \in [Processes -> Seq(Commands)] /\ \A p \in Processes : QueueStep(p)

LEMMA OneQueue ==
  ASSUME TypeOK, NEW p \in Processes, NEW q \in Seq(Commands), todo' = [todo EXCEPT ![p] = q],
         \A x \in Processes : x # p => focus'[x] = focus[x], QueueStep(p)
  PROVE  QueueSteps(todo')
<1>1. \A x \in Processes : x # p => todo'[x] = todo[x]
  BY DEF TypeOK
<1>2. \A x \in Processes : QueueStep(x)
  BY <1>1 DEF QueueStep
<1> QED
  BY <1>2 DEF QueueSteps, TypeOK

LEMMA SameQueues ==
  ASSUME TypeOK, UNCHANGED todo, UNCHANGED focus
  PROVE  QueueSteps(todo')
BY DEF QueueSteps, QueueStep, TypeOK

LEMMA TypeQueues ==
  ASSUME TypeOK, FocusInv, NEW c \in Contexts, Type(c)
  PROVE  QueueSteps(todo')
<1> DEFINE p == HostOf[c]
           m == Command("key", c, doc[c].gen)
<1>1. p \in Processes /\ doc[c] \in Docs /\ doc[c].gen \in Nat /\ todo[p] = <<>> /\ focus[p] = c
  BY SessionAssumption DEF TypeOK, Docs, Type
<1>2. m \in Commands /\ m.kind = "key" /\ m.c = c /\ m.gen = doc[c].gen
  BY <1>1, CommandIs
<1> HIDE DEF m
<1>3. todo' = [todo EXCEPT ![p] = <<m>>] /\ <<m>> = Append(todo[p], m) /\ <<m>> \in Seq(Commands)
  BY <1>1, <1>2 DEF Type, m
<1>4. UNCHANGED up /\ UNCHANGED epoch /\ UNCHANGED focus /\ UNCHANGED doc /\ UNCHANGED sess
  BY DEF Type, engine
<1>5. doc[c].alive
  BY <1>1, NoneIsNoValue DEF FocusInv
<1>6. Sends(p, m, focus[p], focus'[p])
  BY <1>1, <1>2, <1>4, <1>5 DEF Sends, Puts
<1>7. todo'[p] = Append(todo[p], m)
  BY <1>1, <1>3 DEF TypeOK
<1>8. QueueStep(p)
  BY <1>4, <1>6, <1>7 DEF QueueStep
<1> QED
  BY <1>1, <1>3, <1>4, <1>8, OneQueue

LEMMA ActQueues ==
  ASSUME TypeOK, FocusInv, [Next]_vars, NEW c \in Contexts, NEW kind \in Acts, Act(c, kind)
  PROVE  QueueSteps(todo')
<1> DEFINE p == HostOf[c]
           g == doc[c].gen + (IF kind \in {"cancel", "terminated"} THEN 1 ELSE 0)
           m == Command(kind, c, g)
<1>0. p \in Processes /\ kind \in {"cancel", "terminated", "submit", "toggle"} /\ focus[p] = c
  BY SessionAssumption DEF Act
<1>1. /\ p \in Processes /\ doc[c] \in Docs /\ doc[c].gen \in Nat /\ focus[p] = c
      /\ g \in Nat /\ g >= doc[c].gen /\ todo[p] \in Seq(Commands)
      /\ kind \in {"cancel", "terminated", "submit", "toggle"}
  BY <1>0 DEF TypeOK, Docs
<1>2. m \in Commands /\ m.kind = kind /\ m.c = c /\ m.gen = g
  BY <1>1, CommandIs
<1>3. todo' = [todo EXCEPT ![p] = Append(@, m)]
  BY DEF Act
<1>4. UNCHANGED up /\ UNCHANGED epoch /\ UNCHANGED focus /\ UNCHANGED sess
  BY DEF Act, engine
<1>5. doc'[c].gen = g
  <2> DEFINE e == [doc[c] EXCEPT !.gen = g,
                                 !.comp = IF kind = "terminated" THEN 0 ELSE @,
                                 !.epoch = IF kind = "terminated" THEN 0 ELSE @]
  <2>1. doc' = [doc EXCEPT ![c] = e]
    BY DEF Act
  <2>2. e.gen = g
    BY <1>1 DEF Docs
  <2> QED
    BY <2>1, <2>2 DEF TypeOK
<1> HIDE DEF m, g
<1>6. doc[c].alive
  BY <1>1, NoneIsNoValue DEF FocusInv
<1>7. Sends(p, m, focus[p], focus'[p])
  BY <1>1, <1>2, <1>4, <1>5, <1>6 DEF Sends, Puts
<1>8. todo'[p] = Append(todo[p], m) /\ Append(todo[p], m) \in Seq(Commands)
  BY <1>1, <1>2, <1>3, AppendIs DEF TypeOK
<1>9. QueueStep(p)
  BY <1>4, <1>7, <1>8 DEF QueueStep
<1> QED
  BY <1>1, <1>3, <1>4, <1>8, <1>9, OneQueue

LEMMA RemoveQueues ==
  ASSUME TypeOK, FocusInv, NEW c \in Contexts, Remove(c)
  PROVE  QueueSteps(todo')
<1> DEFINE p == HostOf[c]
           g == doc[c].gen + 1
           b == Command("blur", c, doc[c].gen)
           m == Command("destroy", c, g)
           q == todo[p]
<1>0. p \in Processes /\ doc[c].alive
  BY SessionAssumption DEF Remove
<1>1. /\ p \in Processes /\ doc[c] \in Docs /\ doc[c].gen \in Nat /\ doc[c].alive
      /\ g \in Nat /\ g > doc[c].gen /\ q \in Seq(Commands)
  BY <1>0 DEF TypeOK, Docs
<1>2. /\ m \in Commands /\ m.kind = "destroy" /\ m.c = c /\ m.gen = g
      /\ b \in Commands /\ b.kind = "blur" /\ b.c = c /\ b.gen = doc[c].gen
  BY <1>1, CommandIs
<1>3. /\ todo' = [todo EXCEPT ![p] = @ \o (IF focus[p] = c THEN <<b>> ELSE <<>>) \o <<m>>]
      /\ focus' = [focus EXCEPT ![p] = IF @ = c THEN None ELSE @]
      /\ UNCHANGED up /\ UNCHANGED epoch /\ UNCHANGED sess
  BY DEF Remove, engine
<1>4. doc'[c].gen = g /\ ~doc'[c].alive
  <2> DEFINE e == [NoDoc EXCEPT !.alive = FALSE, !.gen = g]
  <2>1. doc' = [doc EXCEPT ![c] = e]
    BY DEF Remove
  <2>2. e.gen = g /\ ~e.alive
    BY NoDocIsDoc DEF Docs
  <2> QED
    BY <2>1, <2>2 DEF TypeOK
<1> HIDE DEF b, m, g
<1>5. \A x \in Processes : x # p => focus'[x] = focus[x]
  BY <1>3 DEF TypeOK
<1>6. focus'[p] = IF focus[p] = c THEN None ELSE focus[p]
  BY <1>1, <1>3 DEF TypeOK
<1>7. Sends(p, m, IF focus[p] = c THEN None ELSE focus[p], focus'[p])
  BY <1>1, <1>2, <1>4, <1>6, NoneIsNoValue DEF Sends, Puts, Ending
<1>8. CASE focus[p] = c
  <2>1. Sends(p, b, focus[p], None)
    BY <1>8, <1>1, <1>2, <1>4 DEF Sends, Puts, Ending, Endings
  <2>2. /\ todo' = [todo EXCEPT ![p] = Append(Append(q, b), m)]
        /\ Append(Append(q, b), m) \in Seq(Commands)
    <3>1. q \o <<b>> = Append(q, b) /\ Append(q, b) \in Seq(Commands)
      BY <1>1, <1>2, JoinIs
    <3>2. /\ Append(q, b) \o <<m>> = Append(Append(q, b), m)
          /\ Append(Append(q, b), m) \in Seq(Commands)
      BY <3>1, <1>2, JoinIs
    <3> QED
      BY <3>1, <3>2, <1>8, <1>3
  <2>3. todo'[p] = Append(Append(q, b), m)
    BY <2>2, <1>1 DEF TypeOK
  <2>4. QueueStep(p)
    BY <2>1, <2>3, <1>2, <1>3, <1>7, <1>8 DEF QueueStep
  <2> QED
    BY <2>2, <2>4, <1>1, <1>5, OneQueue
<1>9. CASE focus[p] # c
  <2>1. todo' = [todo EXCEPT ![p] = Append(q, m)] /\ Append(q, m) \in Seq(Commands)
    BY <1>9, <1>1, <1>2, <1>3, JoinIs
  <2>2. todo'[p] = Append(q, m)
    BY <2>1, <1>1 DEF TypeOK
  <2>3. QueueStep(p)
    BY <2>2, <1>3, <1>7, <1>9 DEF QueueStep
  <2> QED
    BY <2>1, <2>3, <1>1, <1>5, OneQueue
<1> QED
  BY <1>8, <1>9

LEMMA FocusQueues ==
  ASSUME TypeOK, FocusInv, [Next]_vars, NEW p \in Processes, NEW c \in Contexts \cup {None},
         c # None => HostOf[c] = p, MoveFocus(p, c)
  PROVE  QueueSteps(todo')
<1> DEFINE old == focus[p]
           b == Command("blur", old, doc[old].gen)
           m == Command("focus", c, doc[c].gen)
           q == todo[p]
<1>1. q \in Seq(Commands) /\ old # c /\ (c # None => doc[c].alive /\ doc[c].gen \in Nat)
  BY DEF TypeOK, MoveFocus, Docs
<1>2. c # None => c \in Contexts /\ m \in Commands /\ m.kind = "focus" /\ m.c = c /\ m.gen = doc[c].gen
  BY <1>1, CommandIs
<1>3. old # None => /\ old \in Contexts /\ HostOf[old] = p /\ doc[old].alive
                    /\ b \in Commands /\ b.kind = "blur" /\ b.c = old /\ b.gen = doc[old].gen
  <2>1. old # None => old \in Contexts /\ doc[old].gen \in Nat
    BY DEF TypeOK, Docs
  <2> QED
    BY <2>1, CommandIs DEF FocusInv
<1>4. /\ todo' = [todo EXCEPT ![p] = @ \o (IF old = None THEN <<>> ELSE <<b>>)
                                       \o (IF c = None THEN <<>> ELSE <<m>>)]
      /\ focus' = [focus EXCEPT ![p] = c]
      /\ UNCHANGED up /\ UNCHANGED epoch /\ UNCHANGED sess
  BY DEF MoveFocus, engine
<1>5. \A x \in Contexts : doc'[x].gen >= doc[x].gen
  BY DocSteps DEF Changes
<1> HIDE DEF b, m
<1>6. focus'[p] = c /\ \A x \in Processes : x # p => focus'[x] = focus[x]
  BY <1>4 DEF TypeOK
<1>7. c # None => Sends(p, m, None, c)
  BY <1>1, <1>2, <1>5 DEF Sends, Puts
<1>8. old # None => Sends(p, b, old, None)
  BY <1>3, <1>5 DEF Sends, Puts, Ending, Endings, Commands
<1>9. CASE old # None /\ c # None
  <2>1. /\ todo' = [todo EXCEPT ![p] = Append(Append(q, b), m)]
        /\ Append(Append(q, b), m) \in Seq(Commands)
    <3>1. q \o <<b>> = Append(q, b) /\ Append(q, b) \in Seq(Commands)
      BY <1>9, <1>1, <1>2, <1>3, JoinIs
    <3>2. /\ Append(q, b) \o <<m>> = Append(Append(q, b), m)
          /\ Append(Append(q, b), m) \in Seq(Commands)
      BY <3>1, <1>9, <1>2, JoinIs
    <3> QED
      BY <3>1, <3>2, <1>9, <1>1, <1>2, <1>3, <1>4
  <2>2. todo'[p] = Append(Append(q, b), m)
    BY <2>1 DEF TypeOK
  <2>3. QueueStep(p)
    BY <2>2, <1>3, <1>4, <1>6, <1>7, <1>8, <1>9 DEF QueueStep
  <2> QED
    BY <2>1, <2>3, <1>6, OneQueue
<1>10. CASE old = None
  <2>1. /\ todo' = [todo EXCEPT ![p] = Append(q, m)] /\ Append(q, m) \in Seq(Commands)
        /\ c # None
    BY <1>10, <1>1, <1>2, <1>4, JoinIs
  <2>2. todo'[p] = Append(q, m)
    BY <2>1 DEF TypeOK
  <2>3. QueueStep(p)
    BY <2>1, <2>2, <1>4, <1>6, <1>7, <1>10 DEF QueueStep
  <2> QED
    BY <2>1, <2>3, <1>6, OneQueue
<1>11. CASE c = None
  <2>1. /\ todo' = [todo EXCEPT ![p] = Append(q, b)] /\ Append(q, b) \in Seq(Commands)
        /\ old # None
    BY <1>11, <1>1, <1>3, <1>4, JoinIs
  <2>2. todo'[p] = Append(q, b)
    BY <2>1 DEF TypeOK
  <2>3. QueueStep(p)
    BY <2>1, <2>2, <1>4, <1>6, <1>8, <1>11 DEF QueueStep
  <2> QED
    BY <2>1, <2>3, <1>6, OneQueue
<1> QED
  BY <1>9, <1>10, <1>11

LEMMA TailQueues ==
  ASSUME TypeOK, NEW p \in Processes, todo[p] # <<>>, todo' = [todo EXCEPT ![p] = Tail(@)],
         UNCHANGED focus, up'[p] => Engine
  PROVE  QueueSteps(todo')
<1>1. Tail(todo[p]) \in Seq(Commands) /\ todo'[p] = Tail(todo[p])
  BY DEF TypeOK
<1>2. QueueStep(p)
  BY <1>1 DEF QueueStep
<1> QED
  BY <1>1, <1>2, OneQueue

LEMMA QueuesStep ==
  ASSUME TypeOK, FocusInv, [Next]_vars
  PROVE  QueueSteps(todo')
<1>1. ASSUME NEW c \in Contexts, Drain(c) \/ Cleanup(c) \/ LayoutChange(c) \/ Measure(c)
      PROVE  UNCHANGED todo /\ UNCHANGED focus
  BY <1>1 DEF Drain, Cleanup, LayoutChange, Measure
<1>2. ASSUME NEW p \in Processes, Send(p) \/ Return(p)
      PROVE  UNCHANGED todo /\ UNCHANGED focus
  BY <1>2 DEF Send, Return
<1>3. ASSUME NEW p \in Processes, Connect(p) PROVE QueueSteps(todo')
  <2>1. CASE UNCHANGED todo
    BY <2>1, <1>3, SameQueues DEF Connect
  <2>2. CASE todo[p] # <<>> /\ todo' = [todo EXCEPT ![p] = Tail(@)] /\ UNCHANGED up /\ ~up[p]
    BY <2>2, <1>3, TailQueues DEF Connect
  <2> QED
    BY <1>3, <2>1, <2>2 DEF Connect
<1>4. ASSUME NEW p \in Processes, Lose(p) PROVE QueueSteps(todo')
  <2>1. UNCHANGED focus /\ ~up'[p]
    BY <1>4 DEF Lose, TypeOK
  <2>2. UNCHANGED todo \/ (todo[p] # <<>> /\ todo' = [todo EXCEPT ![p] = Tail(@)])
    BY <1>4 DEF Lose
  <2> QED
    BY <2>1, <2>2, SameQueues, TailQueues
<1>5. ASSUME NEW c \in Contexts, Engine, Serves(c), todo' = [todo EXCEPT ![HostOf[c]] = Tail(@)]
      PROVE  QueueSteps(todo')
  <2>1. HostOf[c] \in Processes /\ todo[HostOf[c]] # <<>>
    BY <1>5, SessionAssumption DEF Serves
  <2> QED
    BY <1>5, <2>1, EngineKeeps, TailQueues
<1>6. CASE Engine
  <2>1. ASSUME NEW c \in Contexts, Refuse(c) \/ KeyEvent(c) \/ ContextCommand(c) \/ Destroy(c)
        PROVE  QueueSteps(todo')
    BY <2>1, <1>5, <1>6 DEF Refuse, KeyEvent, ContextCommand, Destroy, Served, Observed
  <2>2. ASSUME NEW c \in Contexts, Open(c) \/ SetAscii(c) PROVE UNCHANGED todo
    BY <2>2 DEF Open, SetAscii, host
  <2>3. ASSUME Event \/ IdleInline \/ IdleLayout \/ IdleRetain \/ Wake PROVE UNCHANGED todo
    BY <2>3 DEF Event, IdleInline, IdleLayout, IdleRetain, Wake, host
  <2> QED
    BY <1>6, <2>1, <2>2, <2>3, EngineKeeps, SameQueues DEF Engine
<1>7. CASE Click \/ Capability \/ UNCHANGED vars
  BY <1>7, SameQueues DEF Click, Capability, vars, host
<1>8. CASE Host
  BY <1>1, <1>2, <1>3, <1>4, <1>8, SameQueues, TypeQueues, ActQueues, RemoveQueues, FocusQueues
  DEF Host
<1> QED
  BY <1>6, <1>7, <1>8 DEF Next

\* What a step does to a host's connection: nothing, it ends, or there is a new one.
Connecting(p) ==
  \/ up'[p] = up[p] /\ epoch'[p] = epoch[p]
  \/ up[p] /\ ~up'[p] /\ epoch'[p] = epoch[p] /\ Host
  \/ ~up[p] /\ up'[p] /\ epoch'[p] = epoch[p] + 1 /\ epoch[p] < MaxEpoch /\ UNCHANGED todo /\ Connect(p) /\ Host

\* The connections after a step.
ConnectedStays ==
  /\ up' \in [Processes -> BOOLEAN] /\ epoch' \in [Processes -> 0 .. MaxEpoch]
  /\ \A p \in Processes : Connecting(p)
  /\ \A p \in Processes : up'[p] => epoch'[p] # 0

LEMMA ConnectionsStay ==
  ASSUME TypeOK, FocusInv, [Next]_vars
  PROVE  ConnectedStays
<1>1. CASE UNCHANGED up /\ UNCHANGED epoch
  BY <1>1 DEF TypeOK, FocusInv, ConnectedStays, Connecting
<1>2. ASSUME NEW p \in Processes, Lose(p) PROVE ConnectedStays
  <2>1. up' = [up EXCEPT ![p] = FALSE] /\ up[p] /\ UNCHANGED epoch /\ Host
    BY <1>2 DEF Lose, Host
  <2> QED
    BY <2>1 DEF TypeOK, FocusInv, ConnectedStays, Connecting
<1>3. ASSUME NEW p \in Processes, Connect(p), Host PROVE ConnectedStays
  <2>1. CASE Head(todo[p]).kind \in {"blur", "destroy"}
    BY <2>1, <1>1, <1>3 DEF Connect
  <2>2. CASE Head(todo[p]).kind \notin {"blur", "destroy"}
    <3>1. /\ epoch[p] < MaxEpoch /\ ~up[p] /\ UNCHANGED todo
          /\ up' = [up EXCEPT ![p] = TRUE] /\ epoch' = [epoch EXCEPT ![p] = @ + 1]
      BY <2>2, <1>3 DEF Connect
    <3>2. MaxEpoch \in Nat
      BY SessionAssumption
    <3>3. epoch[p] \in Nat /\ epoch[p] + 1 \in 0 .. MaxEpoch /\ epoch[p] + 1 # 0
      BY <3>1, <3>2 DEF TypeOK
    <3>4. epoch' \in [Processes -> 0 .. MaxEpoch] /\ up' \in [Processes -> BOOLEAN]
      BY <3>1, <3>3 DEF TypeOK
    <3>5. /\ up'[p] /\ epoch'[p] = epoch[p] + 1
          /\ \A x \in Processes : x # p => up'[x] = up[x] /\ epoch'[x] = epoch[x]
      BY <3>1 DEF TypeOK
    <3> QED
      BY <1>3, <3>1, <3>3, <3>4, <3>5 DEF FocusInv, ConnectedStays, Connecting
  <2> QED
    BY <2>1, <2>2
<1>4. ASSUME NEW c \in Contexts,
             \/ Type(c) \/ Remove(c) \/ Drain(c) \/ Cleanup(c) \/ LayoutChange(c) \/ Measure(c)
             \/ \E kind \in Acts : Act(c, kind)
      PROVE  UNCHANGED up /\ UNCHANGED epoch
  BY <1>4 DEF Type, Remove, Drain, Cleanup, LayoutChange, Measure, Act
<1>5. ASSUME NEW p \in Processes, Send(p) \/ Return(p) \/ \E c \in Contexts \cup {None} : MoveFocus(p, c)
      PROVE  UNCHANGED up /\ UNCHANGED epoch
  BY <1>5 DEF Send, Return, MoveFocus
<1>6. CASE Click \/ Capability \/ UNCHANGED vars
  BY <1>1, <1>6 DEF Click, Capability, vars, host
<1>7. CASE Engine
  BY <1>1, <1>7, EngineKeeps
<1>8. CASE Host
  BY <1>1, <1>2, <1>3, <1>4, <1>5, <1>8 DEF Host
<1> QED
  BY <1>6, <1>7, <1>8 DEF Next

\* The commands of a queue are those of its host's contexts, in the order of their time, and a
\* removal is the last one.
Ordered(q, p, d) ==
  /\ \A i \in DOMAIN q : HostOf[q[i].c] = p /\ q[i].gen <= d[q[i].c].gen
  /\ \A i, j \in DOMAIN q : i < j /\ q[i].c = q[j].c => q[i].gen <= q[j].gen /\ q[i].kind # "destroy"
  /\ \A i \in DOMAIN q : q[i].kind = "destroy" => ~d[q[i].c].alive

\* The queues' order, and what is left in them of a context that lost the focus.
QueueInv == \A p \in Processes : Ordered(todo[p], p, doc)
BlurInv == \A c \in Contexts : /\ Refocus(todo[HostOf[c]], c)
                               /\ focus[HostOf[c]] # c => Left(todo[HostOf[c]], c)

\* Documents grow older and are not alive again.
Older(d, e) ==
  \A c \in Contexts : /\ d[c].gen \in Nat /\ e[c].gen \in Nat /\ d[c].gen <= e[c].gen
                      /\ e[c].alive => d[c].alive

LEMMA ElementIs ==
  ASSUME NEW q \in Seq(Commands), NEW i \in DOMAIN q
  PROVE  q[i] \in Commands /\ q[i].c \in Contexts /\ q[i].gen \in Nat
<1>1. q[i] \in Commands
  OBVIOUS
<1> QED
  BY <1>1 DEF Commands

LEMMA OrderedLater ==
  ASSUME NEW q \in Seq(Commands), NEW p, NEW d, NEW e, Ordered(q, p, d), Older(d, e)
  PROVE  Ordered(q, p, e)
<1>1. \A i \in DOMAIN q : q[i].c \in Contexts /\ q[i].gen \in Nat
  BY ElementIs
<1> QED
  BY <1>1 DEF Ordered, Older

LEMMA OrderedTail ==
  ASSUME NEW q \in Seq(Commands), q # <<>>, NEW p, NEW d, Ordered(q, p, d)
  PROVE  /\ Ordered(Tail(q), p, d)
         /\ \A i \in DOMAIN Tail(q) : Tail(q)[i].c = Head(q).c =>
              Tail(q)[i].gen >= Head(q).gen /\ Head(q).kind # "destroy"
<1> DEFINE b == Tail(q)
           n == Len(q)
<1>1. /\ n \in Nat /\ n >= 1 /\ DOMAIN q = 1 .. n /\ DOMAIN b = 1 .. n - 1
      /\ \A i \in 1 .. n - 1 : b[i] = q[i + 1] /\ i + 1 \in 1 .. n
      /\ Head(q) = q[1]
  BY TailIs
<1>2. \A i \in DOMAIN q : q[i].gen \in Nat
  BY ElementIs
<1> HIDE DEF b, n
<1>3. \A i \in DOMAIN b : i \in Nat /\ i >= 1 /\ i + 1 \in DOMAIN q /\ b[i] = q[i + 1] /\ 1 \in DOMAIN q
  BY <1>1
<1>4. \A i \in DOMAIN b : b[i].c = q[1].c => b[i].gen >= q[1].gen /\ q[1].kind # "destroy"
  BY <1>2, <1>3 DEF Ordered
<1>5. \A i, j \in DOMAIN b : i < j => i + 1 < j + 1
  BY <1>3
<1>6. Ordered(b, p, d)
  BY <1>3, <1>5 DEF Ordered
<1> QED
  BY <1>1, <1>4, <1>6 DEF b

LEMMA OrderedPut ==
  ASSUME NEW q \in Seq(Commands), NEW p, NEW d, Ordered(q, p, d), NEW e, Older(d, e),
         NEW m \in Commands, HostOf[m.c] = p, d[m.c].alive, d[m.c].gen <= m.gen, m.gen <= e[m.c].gen,
         m.kind = "destroy" => ~e[m.c].alive
  PROVE  Ordered(Append(q, m), p, e)
<1> DEFINE a == Append(q, m)
<1>1. /\ Len(q) \in Nat /\ DOMAIN q = 1 .. Len(q) /\ DOMAIN a = 1 .. Len(q) + 1
      /\ \A i \in 1 .. Len(q) : a[i] = q[i]
      /\ a[Len(q) + 1] = m
  BY AppendIs
<1> HIDE DEF a
<1>2. /\ \A i \in DOMAIN q : q[i].c \in Contexts /\ q[i].gen \in Nat
      /\ m.c \in Contexts /\ m.gen \in Nat
  BY ElementIs DEF Commands
<1>3. Ordered(q, p, e)
  BY OrderedLater
<1>4. \A i \in DOMAIN q : q[i].c = m.c => q[i].gen <= m.gen /\ q[i].kind # "destroy"
  BY <1>2 DEF Ordered, Older
<1>5. \A i \in DOMAIN a : (i \in DOMAIN q /\ a[i] = q[i]) \/ (i = Len(q) + 1 /\ a[i] = m)
  BY <1>1
<1>6. \A i, j \in DOMAIN a : i < j => i \in DOMAIN q
  BY <1>1
<1>7. \A i \in DOMAIN a : HostOf[a[i].c] = p /\ a[i].gen <= e[a[i].c].gen
  BY <1>3, <1>5 DEF Ordered
<1>8. \A i \in DOMAIN a : a[i].kind = "destroy" => ~e[a[i].c].alive
  BY <1>3, <1>5 DEF Ordered
<1>9. \A i, j \in DOMAIN a : i < j /\ a[i].c = a[j].c => a[i].gen <= a[j].gen /\ a[i].kind # "destroy"
  <2>1. ASSUME NEW i \in DOMAIN a, NEW j \in DOMAIN a, i < j, a[i].c = a[j].c
        PROVE  a[i].gen <= a[j].gen /\ a[i].kind # "destroy"
    <3>1. i \in DOMAIN q /\ a[i] = q[i]
      BY <2>1, <1>1, <1>6
    <3>2. CASE j \in DOMAIN q /\ a[j] = q[j]
      BY <3>1, <3>2, <2>1, <1>3 DEF Ordered
    <3>3. CASE a[j] = m
      BY <3>1, <3>3, <2>1, <1>4
    <3> QED
      BY <3>2, <3>3, <1>5
  <2> QED
    BY <2>1
<1> QED
  BY <1>7, <1>8, <1>9 DEF Ordered, a

LEMMA DocsOlder ==
  ASSUME TypeOK, [Next]_vars
  PROVE  Older(doc, doc') /\ Older(doc, doc)
<1>1. \A c \in Contexts : doc[c].gen \in Nat
  BY DEF TypeOK, Docs
<1>2. \A c \in Contexts : doc'[c].gen \in Nat
  BY DocSteps DEF Docs
<1> QED
  BY <1>1, <1>2, DocSteps DEF Older, Changes

LEMMA QueueStays ==
  ASSUME TypeOK, FocusInv, QueueInv, BlurInv, [Next]_vars
  PROVE  QueueInv' /\ BlurInv'
<1>1. Older(doc, doc') /\ Older(doc, doc) /\ QueueSteps(todo')
  BY DocsOlder, QueuesStep
<1>2. ASSUME NEW p \in Processes
      PROVE  /\ Ordered(todo'[p], p, doc')
             /\ \A c \in Contexts : HostOf[c] = p =>
                  Refocus(todo'[p], c) /\ (focus'[p] # c => Left(todo'[p], c))
  <2>1. QueueStep(p) /\ todo[p] \in Seq(Commands) /\ Ordered(todo[p], p, doc)
    BY <1>1 DEF QueueSteps, TypeOK, QueueInv
  <2>2. \A c \in Contexts : HostOf[c] = p => Refocus(todo[p], c) /\ (focus[p] # c => Left(todo[p], c))
    BY DEF BlurInv
  <2>3. CASE todo'[p] = todo[p] /\ focus'[p] = focus[p]
    BY <2>1, <2>2, <2>3, <1>1, OrderedLater
  <2>4. CASE todo[p] # <<>> /\ todo'[p] = Tail(todo[p]) /\ focus'[p] = focus[p]
    <3>1. Tail(todo[p]) \in Seq(Commands) /\ Ordered(Tail(todo[p]), p, doc)
      BY <2>1, <2>4, TailIs, OrderedTail
    <3> QED
      BY <3>1, <2>1, <2>2, <2>4, <1>1, OrderedLater, BlurTail
  <2>5. ASSUME NEW m, Sends(p, m, focus[p], focus'[p]), todo'[p] = Append(todo[p], m)
        PROVE  /\ Ordered(todo'[p], p, doc')
               /\ \A c \in Contexts : HostOf[c] = p =>
                    Refocus(todo'[p], c) /\ (focus'[p] # c => Left(todo'[p], c))
    <3>1. Ordered(todo'[p], p, doc')
      BY <2>1, <2>5, <1>1, OrderedPut DEF Sends
    <3>2. \A c \in Contexts : HostOf[c] = p =>
            Refocus(todo'[p], c) /\ (focus'[p] # c => Left(todo'[p], c))
      BY <2>1, <2>2, <2>5, BlurPut DEF Sends
    <3> QED
      BY <3>1, <3>2
  <2>6. ASSUME NEW m, NEW n, NEW f, Sends(p, m, focus[p], f), Sends(p, n, f, focus'[p]),
               m.kind = "blur", m.gen = doc[m.c].gen, todo'[p] = Append(Append(todo[p], m), n)
        PROVE  /\ Ordered(todo'[p], p, doc')
               /\ \A c \in Contexts : HostOf[c] = p =>
                    Refocus(todo'[p], c) /\ (focus'[p] # c => Left(todo'[p], c))
    <3>1. m \in Commands /\ n \in Commands /\ Puts(focus[p], m, f) /\ Puts(f, n, focus'[p])
      BY <2>6 DEF Sends
    <3>2. Append(todo[p], m) \in Seq(Commands)
      BY <2>1, <3>1, AppendIs
    <3>3. doc[m.c].gen <= m.gen /\ m.gen <= doc[m.c].gen /\ HostOf[m.c] = p /\ doc[m.c].alive
      BY <2>6 DEF Sends
    <3>4. Ordered(Append(todo[p], m), p, doc)
      BY <2>1, <2>6, <3>1, <3>3, <1>1, OrderedPut
    <3>5. Ordered(todo'[p], p, doc')
      BY <2>6, <3>1, <3>2, <3>4, <1>1, OrderedPut DEF Sends
    <3>6. ASSUME NEW c \in Contexts, HostOf[c] = p
          PROVE  Refocus(todo'[p], c) /\ (focus'[p] # c => Left(todo'[p], c))
      <4>1. PICK q \in Seq(Commands) : q = Append(todo[p], m)
        BY <3>2
      <4>2. Refocus(q, c) /\ (f # c => Left(q, c))
        BY <2>1, <2>2, <3>1, <3>6, <4>1, BlurPut
      <4>3. Refocus(Append(q, n), c) /\ (focus'[p] # c => Left(Append(q, n), c))
        BY <3>1, <4>2, BlurPut
      <4> QED
        BY <2>6, <4>1, <4>3
    <3> QED
      BY <3>5, <3>6
  <2> QED
    BY <2>1, <2>3, <2>4, <2>5, <2>6 DEF QueueStep
<1>3. \A c \in Contexts : HostOf[c] \in Processes
  BY SessionAssumption
<1> QED
  BY <1>2, <1>3 DEF QueueInv, BlurInv

LEMMA FocusStays ==
  ASSUME TypeOK, FocusInv, [Next]_vars, ConnectedStays
  PROVE  FocusInv'
<1>1. ASSUME NEW p \in Processes, focus'[p] # None
      PROVE  HostOf[focus'[p]] = p /\ doc'[focus'[p]].alive
  <2>1. QueueStep(p)
    BY QueuesStep DEF QueueSteps
  <2>2. focus'[p] \in Contexts /\ HostOf[focus'[p]] = p /\ doc[focus'[p]].alive
    BY <1>1, <2>1 DEF QueueStep, Sends, Puts, FocusInv, TypeOK, Commands
  <2> QED
    BY <2>2, DocSteps DEF Changes
<1> QED
  BY <1>1 DEF FocusInv, ConnectedStays

-----------------------------------------------------------------------------
\* The engine's messages.

LEMMA KeyIs ==
  ASSUME TypeOK, FocusInv, NEW c \in Contexts, up[HostOf[c]]
  PROVE  /\ Key(c) \in Keys /\ Key(c)[1] = c /\ Key(c)[2] = Epoch(c) /\ Epoch(c) # 0 /\ Epoch(c) \in Nat
         /\ Epoch(c) = epoch[HostOf[c]] /\ HostOf[c] \in Processes
         /\ Alive(Key(c)) /\ Key(c) # NoKey
<1>1. HostOf[c] \in Processes /\ c # None
  BY SessionAssumption, NoneIsNoValue
<1>2. epoch[HostOf[c]] \in 1 .. MaxEpoch /\ MaxEpoch \in Nat
  BY <1>1, SessionAssumption DEF TypeOK, FocusInv
<1> QED
  BY <1>1, <1>2 DEF Key, Keys, Epoch, Alive, NoKey

LEMMA KeysAre ==
  ASSUME TypeOK, NEW k \in Keys
  PROVE  /\ k[1] \in Contexts /\ k[2] \in Nat /\ k[2] # 0 /\ HostOf[k[1]] \in Processes /\ k # NoKey
         /\ k = <<k[1], k[2]>>
         /\ Alive(k) => k = Key(k[1]) /\ up[HostOf[k[1]]]
<1>1. PICK c \in Contexts, e \in 1 .. MaxEpoch : k = <<c, e>>
  BY DEF Keys
<1>2. HostOf[c] \in Processes /\ c # None
  BY SessionAssumption, NoneIsNoValue
<1> QED
  BY <1>1, <1>2, SessionAssumption DEF Key, Alive, NoKey

LEMMA CommandServed ==
  ASSUME TypeOK, NEW c \in Contexts, Serves(c)
  PROVE  /\ Command1(c) \in Commands /\ Command1(c).c = c /\ Command1(c).gen \in Nat
         /\ todo[HostOf[c]] \in Seq(Commands) /\ todo[HostOf[c]] # <<>> /\ up[HostOf[c]]
         /\ Tail(todo[HostOf[c]]) \in Seq(Commands) /\ HostOf[c] \in Processes
<1>1. HostOf[c] \in Processes
  BY SessionAssumption
<1>2. Command1(c) \in Commands /\ Tail(todo[HostOf[c]]) \in Seq(Commands)
  BY <1>1, TailIs DEF TypeOK, Serves, Command1
<1> QED
  BY <1>1, <1>2 DEF TypeOK, Serves, Command1, Commands

LEMMA SessionIs ==
  ASSUME TypeOK, NEW k \in Keys, Exists(k)
  PROVE  sess[k] \in Sessions /\ sess[k].rime \in Rimes /\ sess[k].rev \in Nat /\ sess[k].rime.born \in Nat
BY DEF TypeOK, Exists, Sessions, Rimes

\* A session of context c is revised to t, and its host is told.
Revises(c, t) ==
  LET k == Key(c) IN
  /\ k \in Keys /\ Exists(k) /\ Follows(sess[k], t) /\ sess' = [sess EXCEPT ![k] = t]
  /\ births \in Nat /\ births' \in Nat /\ births <= births' /\ t.last.born <= births'
  /\ up[HostOf[c]]
  /\ \E r \in Replies : /\ replies' = [replies EXCEPT ![c] = Append(@, r)]
                        /\ r.rev = t.rev /\ r.epoch = Epoch(c) /\ r.born \in {0, t.last.born}

\* Context c is told of t.
Tells(c, t, born, n) ==
  \E u \in BOOLEAN :
    replies' = [replies EXCEPT ![c] = Append(@, [rev |-> t.rev, gen |-> t.gen, epoch |-> Epoch(c),
                                                 born |-> born, updated |-> u, tag |-> n])]

LEMMA ReplyMade ==
  ASSUME TypeOK, FocusInv, NEW c \in Contexts, up[HostOf[c]], NEW t \in Sessions,
         NEW born \in Nat, NEW n \in Nat, Tells(c, t, born, n)
  PROVE  \E r \in Replies : /\ replies' = [replies EXCEPT ![c] = Append(@, r)]
                            /\ r.rev = t.rev /\ r.epoch = Epoch(c) /\ r.born = born
<1>1. PICK u \in BOOLEAN :
        replies' = [replies EXCEPT ![c] = Append(@, [rev |-> t.rev, gen |-> t.gen, epoch |-> Epoch(c),
                                                     born |-> born, updated |-> u, tag |-> n])]
  BY DEF Tells
<1> DEFINE r == [rev |-> t.rev, gen |-> t.gen, epoch |-> Epoch(c), born |-> born,
                 updated |-> u, tag |-> n]
<1>2. r \in Replies
  BY KeyIs DEF Replies, Sessions
<1> QED
  BY <1>1, <1>2

\* The mode librime starts from.
Mode(s, follows) == IF GlobalMode /\ follows THEN [s.rime EXCEPT !.ascii = global] ELSE s.rime

LEMMA ModeIs ==
  ASSUME TypeOK, NEW s \in Sessions, NEW f \in BOOLEAN
  PROVE  /\ Mode(s, f) \in Rimes /\ Mode(s, f).born = s.rime.born /\ Mode(s, f).n = s.rime.n
         /\ ~f => Mode(s, f) = s.rime
<1>1. s.rime \in Rimes /\ global \in Modes
  BY DEF Sessions, TypeOK
<1> QED
  BY <1>1 DEF Mode, Rimes

LEMMA KeyRevises ==
  ASSUME TypeOK, FocusInv, SoundInv, NothingFromTheFuture, NEW c \in Contexts, KeyEvent(c)
  PROVE  \E t : /\ Revises(c, t) /\ t.gen = Command1(c).gen /\ t.focused
                /\ t.rime.ascii = t.last.ascii
                /\ active' = Key(c) /\ shown' = KeyShows(Key(c), sess[Key(c)], t) /\ global' \in Modes
<1> DEFINE k == Key(c)
           s == sess[k]
           before == IF GlobalMode THEN [s.rime EXCEPT !.ascii = global] ELSE s.rime
           g == Command1(c).gen
<1>1. Serves(c) /\ Exists(k) /\ k \in Keys /\ up[HostOf[c]]
  BY KeyIs, CommandServed DEF KeyEvent, Observed
<1>2. s \in Sessions /\ Sound(s) /\ g \in Nat /\ births \in Nat /\ preedit \in BOOLEAN
      /\ s.rime.born \in Nat
  BY <1>1, SessionIs, CommandServed DEF SoundInv, TypeOK
<1>3. before \in Rimes /\ before.born = s.rime.born /\ before = Mode(s, TRUE)
  BY <1>2, ModeIs DEF Mode
<1> HIDE DEF before, g
<1>4. PICK r \in AfterKey(before) : \E answer \in Answers(r) :
        LET tag == Requested(s, answer.born = 0 /\ s.last.ascii \notin {"none", answer.ascii},
                             "switch", r.ascii)
            next == Keyed(s, g, r, answer, tag)
        IN /\ sess' = [sess EXCEPT ![k] = next]
           /\ global' = IF GlobalMode THEN r.ascii ELSE global
           /\ births' = IF r.born > births THEN r.born ELSE births
           /\ shown' = KeyShows(k, s, next)
           /\ Reply(c, next, r.born, TRUE, tag.tag)
  BY DEF KeyEvent, before, g
<1>4a. PICK answer \in Answers(r) :
        LET tag == Requested(s, answer.born = 0 /\ s.last.ascii \notin {"none", answer.ascii},
                             "switch", r.ascii)
            next == Keyed(s, g, r, answer, tag)
        IN /\ sess' = [sess EXCEPT ![k] = next]
           /\ global' = IF GlobalMode THEN r.ascii ELSE global
           /\ births' = IF r.born > births THEN r.born ELSE births
           /\ shown' = KeyShows(k, s, next)
           /\ Reply(c, next, r.born, TRUE, tag.tag)
  BY <1>4
<1>5. PICK tag : tag = Requested(s, answer.born = 0 /\ s.last.ascii \notin {"none", answer.ascii},
                                 "switch", r.ascii)
  OBVIOUS
<1>6. PICK t : t = Keyed(s, g, r, answer, tag)
  OBVIOUS
<1>7. /\ sess' = [sess EXCEPT ![k] = t] /\ global' = IF GlobalMode THEN r.ascii ELSE global
      /\ births' = IF r.born > births THEN r.born ELSE births
      /\ shown' = KeyShows(k, s, t) /\ Reply(c, t, r.born, TRUE, tag.tag)
  BY <1>4a, <1>5, <1>6
<1>8. Follows(s, t) /\ tag \in Tags
  BY <1>2, <1>3, <1>5, <1>6, KeyFollows
<1>9. r \in Rimes /\ r.born \in Nat /\ r.ascii \in Modes
  BY <1>2, <1>3, AfterKeyIs DEF Rimes
<1>10. answer \in Lasts /\ answer.born = r.born /\ answer.ascii = r.ascii
  BY <1>2, <1>9, AnswersAre
<1>11. t.gen = g /\ t.focused /\ t.last = answer /\ t.rime = r
  BY <1>2, <1>6, <1>8, <1>9, <1>10, KeyedIs
<1>12. births' \in Nat /\ births <= births' /\ r.born <= births'
  BY <1>2, <1>7, <1>9
<1>13. tag.tag \in Nat /\ t \in Sessions
  BY <1>8 DEF Tags, Follows
<1>14. \E q \in Replies : /\ replies' = [replies EXCEPT ![c] = Append(@, q)]
                          /\ q.rev = t.rev /\ q.epoch = Epoch(c) /\ q.born = r.born
  <2>1. Tells(c, t, r.born, tag.tag)
    BY <1>7 DEF Reply, Tells
  <2> QED
    BY <1>1, <1>9, <1>13, <2>1, ReplyMade
<1>15. Revises(c, t)
  BY <1>1, <1>2, <1>7, <1>8, <1>10, <1>11, <1>12, <1>14 DEF Revises
<1>16. active' = k /\ global' \in Modes
  BY <1>7, <1>9 DEF KeyEvent, TypeOK
<1> QED
  BY <1>7, <1>10, <1>11, <1>15, <1>16 DEF g

\* The session that is active after a command.
Now(c, kind) ==
  IF kind = "focus" THEN Key(c)
  ELSE IF kind \in {"blur", "terminated"} /\ active = Key(c) THEN NoKey ELSE active

\* What a command makes of the renderer's view and of the focus.
CommandShows(c, kind, t) ==
  LET k == Key(c) IN
  /\ active' = Now(c, kind)
  /\ shown' = IF Now(c, kind) = k THEN Snapshot(k, t) ELSE IF active = k THEN Hidden(k, t) ELSE shown
  /\ kind = "focus" => t.focused
  /\ kind \notin {"blur", "terminated"} /\ sess[k].focused => t.focused
  /\ kind \in Endings \cup {"set"} => t.pending.tag = 0
  /\ global' \in Modes

LEMMA CommandRevises ==
  ASSUME TypeOK, FocusInv, SoundInv, NothingFromTheFuture, NEW c \in Contexts, NEW kind \in Kinds,
         Observed(c), Commanded(c, kind, Command1(c).gen), UNCHANGED births,
         kind = "focus" => sess[Key(c)].pending.tag = 0,
         kind = "set" => sess[Key(c)].rev = 0
  PROVE  \E t : Revises(c, t) /\ t.gen = Command1(c).gen /\ CommandShows(c, kind, t)
<1> DEFINE k == Key(c)
           s == sess[k]
           before == IF GlobalMode /\ kind \in {"focus", "toggle"}
                     THEN [s.rime EXCEPT !.ascii = global] ELSE s.rime
           g == Command1(c).gen
<1>1. Serves(c) /\ Exists(k) /\ k \in Keys /\ up[HostOf[c]]
  BY KeyIs, CommandServed DEF Observed
<1>2. /\ s \in Sessions /\ Sound(s) /\ g \in Nat /\ births \in Nat /\ preedit \in BOOLEAN
      /\ s.rime.born \in Nat /\ s.rime.born <= births
  BY <1>1, SessionIs, CommandServed DEF SoundInv, TypeOK, NothingFromTheFuture
<1>3. /\ before \in Rimes /\ before.born = s.rime.born /\ before.n = s.rime.n
      /\ kind \notin {"focus", "toggle"} => before = s.rime
  BY <1>2, ModeIs DEF Mode
<1> HIDE DEF before, g
<1>4. PICK r \in AfterCommand(before, kind) : \E answer \in Answers(r) :
        LET tag == Asked(s, kind, r)
            next == Obeyed(s, kind, g, r, answer, tag)
        IN /\ sess' = [sess EXCEPT ![k] = next]
           /\ active' = Now(c, kind)
           /\ global' = IF GlobalMode /\ kind = "toggle" THEN r.ascii ELSE global
           /\ shown' = IF Now(c, kind) = k THEN Snapshot(k, next)
                       ELSE IF active = k THEN Hidden(k, next) ELSE shown
           /\ Reply(c, next, IF Reads(kind) THEN r.born ELSE 0, Reads(kind), tag.tag)
  BY DEF Commanded, before, g, Asked, Now
<1>5. PICK answer \in Answers(r) :
        LET tag == Asked(s, kind, r)
            next == Obeyed(s, kind, g, r, answer, tag)
        IN /\ sess' = [sess EXCEPT ![k] = next]
           /\ active' = Now(c, kind)
           /\ global' = IF GlobalMode /\ kind = "toggle" THEN r.ascii ELSE global
           /\ shown' = IF Now(c, kind) = k THEN Snapshot(k, next)
                       ELSE IF active = k THEN Hidden(k, next) ELSE shown
           /\ Reply(c, next, IF Reads(kind) THEN r.born ELSE 0, Reads(kind), tag.tag)
  BY <1>4
<1>6. PICK tag : tag = Asked(s, kind, r)
  OBVIOUS
<1>7. PICK t : t = Obeyed(s, kind, g, r, answer, tag)
  OBVIOUS
<1>8. PICK born : born = IF Reads(kind) THEN r.born ELSE 0
  OBVIOUS
<1>9. /\ sess' = [sess EXCEPT ![k] = t] /\ active' = Now(c, kind)
      /\ global' = IF GlobalMode /\ kind = "toggle" THEN r.ascii ELSE global
      /\ shown' = IF Now(c, kind) = k THEN Snapshot(k, t) ELSE IF active = k THEN Hidden(k, t) ELSE shown
  BY <1>5, <1>6, <1>7
<1>10. Tells(c, t, born, tag.tag)
  BY <1>5, <1>6, <1>7, <1>8 DEF Reply, Tells, Reads
<1>11. Follows(s, t) /\ tag \in Tags
  BY <1>1, <1>2, <1>3, <1>6, <1>7, CommandFollows
<1>12. r \in Rimes /\ r.born \in Nat /\ r.ascii \in Modes /\ r.born \in {0, s.rime.born}
       /\ (~Reads(kind) => r = before)
  BY <1>2, <1>3, AfterCommandIs DEF Rimes
<1>13. answer \in Lasts /\ answer.born = r.born /\ answer.ascii = r.ascii
  BY <1>2, <1>12, AnswersAre
<1>14. IsObeyed(t, s, kind, g, r, answer, tag)
  BY <1>2, <1>7, <1>11, <1>12, <1>13, ObeyedIs
<1>15. t.gen = g /\ t.last.born = r.born /\ t \in Sessions
  <2>1. t.last.born = r.born
    BY <1>11, <1>14 DEF Follows, Sound, IsObeyed
  <2> QED
    BY <2>1, <1>14 DEF IsObeyed
<1>16. tag.tag \in Nat /\ born \in Nat /\ born \in {0, t.last.born}
  BY <1>8, <1>11, <1>12, <1>15 DEF Tags
<1>17. \E q \in Replies : /\ replies' = [replies EXCEPT ![c] = Append(@, q)]
                          /\ q.rev = t.rev /\ q.epoch = Epoch(c) /\ q.born = born
  BY <1>1, <1>10, <1>15, <1>16, ReplyMade
<1>18. Revises(c, t)
  <2>1. births' \in Nat /\ births <= births' /\ t.last.born <= births'
    BY <1>2, <1>12, <1>15
  <2>2. \E q \in Replies : /\ replies' = [replies EXCEPT ![c] = Append(@, q)]
                           /\ q.rev = t.rev /\ q.epoch = Epoch(c) /\ q.born \in {0, t.last.born}
    BY <1>16, <1>17
  <2> QED
    BY <2>1, <2>2, <1>1, <1>2, <1>9, <1>11 DEF Revises
<1>19. kind \in Endings \cup {"set"} => t.pending.tag = 0
  <2>1. kind \notin {"focus", "toggle"} => tag = NoTag
    BY <1>6 DEF Asked
  <2>2. kind = "set" => s.pending.tag = 0
    BY <1>2 DEF Sound, Sessions, Tags
  <2> QED
    BY <2>1, <2>2, <1>14, NothingIs DEF IsObeyed, Endings
<1>20. global' \in Modes
  BY <1>9, <1>12 DEF TypeOK
<1>21. /\ kind = "focus" => t.focused
       /\ kind \notin {"blur", "terminated"} /\ sess[k].focused => t.focused
  BY <1>14 DEF IsObeyed
<1> QED
  BY <1>9, <1>15, <1>18, <1>19, <1>20, <1>21 DEF CommandShows, g

LEMMA EventRevises ==
  ASSUME TypeOK, FocusInv, SoundInv, NothingFromTheFuture, click # None => click.key \in Keys,
         Event, ~(UNCHANGED sess /\ UNCHANGED shown /\ UNCHANGED replies)
  PROVE  \E t : /\ active \in Keys /\ active = Key(active[1]) /\ click.key = active /\ click # None
                /\ click.rev = sess[active].rev
                /\ Revises(active[1], t) /\ t.gen = sess[active].gen /\ t.focused
                /\ t.pending = sess[active].pending /\ t.last.born \in {0, sess[active].last.born}
                /\ shown' = Snapshot(active, t)
<1> DEFINE k == click.key
           s == sess[k]
           c == k[1]
<1>1. Accepts(k, click) /\ click # None
  BY DEF Event
<1>2. k \in Keys
  BY <1>1
<1>3. k = Key(c) /\ c \in Contexts /\ Exists(k) /\ up[HostOf[c]] /\ active = k /\ s.focused /\ click.rev = s.rev
  BY <1>1, <1>2, KeysAre DEF Accepts
<1>4. /\ s \in Sessions /\ Sound(s) /\ births \in Nat /\ preedit \in BOOLEAN
      /\ s.rime.born \in Nat /\ s.rime.born <= births /\ s.rime \in Rimes
  BY <1>2, <1>3, SessionIs DEF SoundInv, TypeOK, NothingFromTheFuture
<1>5. PICK r \in AfterEvent(s.rime) : \E answer \in Answers(r) :
               LET next == Handled(s, r, answer)
               IN /\ sess' = [sess EXCEPT ![k] = next]
                  /\ shown' = Snapshot(k, next)
                  /\ Reply(k[1], next, r.born, TRUE, 0)
  BY <1>1 DEF Event
<1>6. PICK answer \in Answers(r) :
               LET next == Handled(s, r, answer)
               IN /\ sess' = [sess EXCEPT ![k] = next]
                  /\ shown' = Snapshot(k, next)
                  /\ Reply(k[1], next, r.born, TRUE, 0)
  BY <1>5
<1>7. PICK t : t = Handled(s, r, answer)
  OBVIOUS
<1>8. sess' = [sess EXCEPT ![k] = t] /\ shown' = Snapshot(k, t) /\ Tells(c, t, r.born, 0)
  BY <1>6, <1>7 DEF Reply, Tells
<1>9. Follows(s, t) /\ t \in Sessions
  BY <1>4, <1>7, EventFollows DEF Follows
<1>10. r \in Rimes /\ r.born \in Nat /\ r.born \in {0, s.rime.born}
  BY <1>4, AfterEventIs DEF Rimes
<1>11. answer \in Lasts /\ answer.born = r.born
  BY <1>4, <1>10, AnswersAre
<1>12. t.gen = s.gen /\ t.focused = s.focused /\ t.pending = s.pending /\ t.last = answer
  BY <1>4, <1>7, <1>10, <1>11, HandledIs
<1>13. \E q \in Replies : /\ replies' = [replies EXCEPT ![c] = Append(@, q)]
                          /\ q.rev = t.rev /\ q.epoch = Epoch(c) /\ q.born = r.born
  BY <1>3, <1>8, <1>9, <1>10, ReplyMade
<1>14. UNCHANGED births
  BY DEF Event
<1>15. Revises(c, t)
  <2>1. births' \in Nat /\ births <= births' /\ t.last.born <= births' /\ r.born = t.last.born
    BY <1>4, <1>10, <1>11, <1>12, <1>14
  <2>2. \E q \in Replies : /\ replies' = [replies EXCEPT ![c] = Append(@, q)]
                           /\ q.rev = t.rev /\ q.epoch = Epoch(c) /\ q.born \in {0, t.last.born}
    BY <1>13, <2>1
  <2> QED
    BY <2>1, <2>2, <1>2, <1>3, <1>4, <1>8, <1>9 DEF Revises
<1> QED
  BY <1>1, <1>2, <1>3, <1>4, <1>8, <1>10, <1>11, <1>12, <1>15 DEF Sound

\* An indicator that is asked for has its context's turn still before it in the queue.
PendingInv ==
  \A c \in Contexts : Epoch(c) # 0 /\ Exists(Key(c)) /\ sess[Key(c)].pending.tag # 0 =>
    /\ Settled(todo[HostOf[c]], c)
    /\ focus[HostOf[c]] # c => Ends(todo[HostOf[c]], c)

\* A click is of a snapshot that was shown: of the session's revision if that is still the last one.
ClickInv ==
  click # None =>
    /\ click.key \in Keys /\ click.key[2] <= epoch[HostOf[click.key[1]]]
    /\ Exists(click.key) =>
         /\ click.rev <= sess[click.key].rev
         /\ click.rev = sess[click.key].rev => click.n = sess[click.key].rime.n

LEMMA ContextCommandRevises ==
  ASSUME TypeOK, FocusInv, SoundInv, NothingFromTheFuture, PendingInv, BlurInv, NEW c \in Contexts,
         ContextCommand(c)
  PROVE  /\ Command1(c).kind \in Kinds \ {"set"}
         /\ \E t : /\ Revises(c, t) /\ t.gen = Command1(c).gen
                   /\ CommandShows(c, Command1(c).kind, t)
<1>1. Observed(c) /\ Serves(c) /\ UNCHANGED births
  BY DEF ContextCommand, Observed
<1>2. Command1(c) \in Commands /\ Command1(c).c = c
  BY <1>1, CommandServed
<1>3. Command1(c).kind \in Kinds \ {"set"}
  BY <1>2 DEF ContextCommand, Commands, Kinds
<1>4. Command1(c).kind = "focus" => sess[Key(c)].pending.tag = 0
  <2>1. todo[HostOf[c]] \in Seq(Commands) /\ todo[HostOf[c]] # <<>> /\ Refocus(todo[HostOf[c]], c)
    BY <1>1, CommandServed DEF BlurInv
  <2>2. Settled(todo[HostOf[c]], c) => Command1(c).c # c \/ Command1(c).kind # "focus"
    BY <2>1, BlurTail DEF Command1
  <2>3. up[HostOf[c]] /\ Epoch(c) # 0
    BY <1>1, CommandServed, KeyIs
  <2> QED
    BY <2>2, <2>3, <1>1, <1>2 DEF PendingInv, Observed
<1> QED
  BY <1>1, <1>3, <1>4, CommandRevises DEF ContextCommand

LEMMA SetAsciiRevises ==
  ASSUME TypeOK, FocusInv, SoundInv, NothingFromTheFuture, NEW c \in Contexts, SetAscii(c)
  PROVE  \E t : Revises(c, t) /\ t.gen = Command1(c).gen /\ CommandShows(c, "set", t)
BY CommandRevises DEF SetAscii, Kinds

\* What a step makes of a session.
Opened(k) ==
  ~Exists(k) /\ \E c \in Contexts, m \in Modes :
                  Open(c) /\ k = Key(c) /\ sess'[k] = Fresh(Command1(c).gen, m)
Closes(k) == sess'[k] = None /\ (~Alive(k) \/ \E c \in Contexts : Destroy(c) /\ k = Key(c))
\* A command revised the session; one that ends its context's turn takes back the indicator.
ByCommand(k) ==
  \E c \in Contexts :
    /\ Observed(c) /\ k = Key(c) /\ sess'[k].gen = Command1(c).gen
    /\ todo'[HostOf[c]] \in {todo[HostOf[c]], Tail(todo[HostOf[c]])}
    /\ sess'[k].pending.tag # 0 =>
         ~Ending(Command1(c), c) /\ todo'[HostOf[c]] = Tail(todo[HostOf[c]])
\* By a command, or by the renderer or the thread itself, which leave time and indicator alone.
Revised(k) ==
  /\ Exists(k) /\ Follows(sess[k], sess'[k]) /\ sess'[k].last.born <= births'
  /\ ByCommand(k) \/ (sess'[k].gen = sess[k].gen /\ sess'[k].pending = sess[k].pending /\ UNCHANGED todo)
\* By a measure.
Measured(k) ==
  /\ Exists(k) /\ HasLayout(k) /\ layouts[k[1]].tag = 0 /\ Fits(sess[k], layouts[k[1]])
  /\ sess'[k] = Placed(sess[k], layouts[k[1]]) /\ UNCHANGED todo
\* By the place of an indicator.
Informed(k) == Exists(k) /\ sess'[k] = [sess[k] EXCEPT !.pending = NoTag] /\ UNCHANGED todo
SessionStep(k) == sess'[k] = sess[k] \/ Closes(k) \/ Opened(k) \/ Revised(k) \/ Measured(k) \/ Informed(k)
SessionSteps(s) == s \in [Keys -> Sessions \cup {None}] /\ \A k \in Keys : SessionStep(k)

LEMMA OneSession ==
  ASSUME TypeOK, NEW k \in Keys, NEW t \in Sessions \cup {None}, sess' = [sess EXCEPT ![k] = t],
         SessionStep(k)
  PROVE  SessionSteps(sess')
<1>1. \A x \in Keys : x # k => sess'[x] = sess[x]
  BY DEF TypeOK
<1>2. sess' \in [Keys -> Sessions \cup {None}]
  BY DEF TypeOK
<1> QED
  BY <1>1, <1>2 DEF SessionSteps, SessionStep

LEMMA RevisedSession ==
  ASSUME TypeOK, NEW c \in Contexts, NEW t, Revises(c, t),
         LET k == Key(c) IN
         \/ /\ Observed(c) /\ t.gen = Command1(c).gen
            /\ todo'[HostOf[c]] \in {todo[HostOf[c]], Tail(todo[HostOf[c]])}
            /\ t.pending.tag # 0 =>
                 ~Ending(Command1(c), c) /\ todo'[HostOf[c]] = Tail(todo[HostOf[c]])
         \/ t.gen = sess[k].gen /\ t.pending = sess[k].pending /\ UNCHANGED todo
  PROVE  SessionSteps(sess')
<1> DEFINE k == Key(c)
<1>1. k \in Keys /\ t \in Sessions /\ sess' = [sess EXCEPT ![k] = t] /\ Exists(k)
      /\ Follows(sess[k], t) /\ t.last.born <= births'
  BY DEF Revises, Follows
<1>2. sess'[k] = t
  BY <1>1 DEF TypeOK
<1>3. ByCommand(k) \/ (sess'[k].gen = sess[k].gen /\ sess'[k].pending = sess[k].pending /\ UNCHANGED todo)
  BY <1>2 DEF ByCommand
<1>4. Revised(k)
  BY <1>1, <1>2, <1>3 DEF Revised
<1> QED
  BY <1>1, <1>4, OneSession DEF SessionStep

LEMMA TailOf ==
  ASSUME TypeOK, NEW c \in Contexts, NEW a, Served(c, a)
  PROVE  todo'[HostOf[c]] = Tail(todo[HostOf[c]])
BY SessionAssumption DEF Served, TypeOK

LEMMA SessionsStep ==
  ASSUME TypeOK, FocusInv, SoundInv, NothingFromTheFuture, PendingInv, BlurInv, ClickInv, [Next]_vars
  PROVE  SessionSteps(sess')
<1>1. CASE UNCHANGED sess
  BY <1>1 DEF SessionSteps, SessionStep, TypeOK
<1>2. ASSUME NEW c \in Contexts, KeyEvent(c) PROVE SessionSteps(sess')
  <2>1. PICK t : Revises(c, t) /\ t.gen = Command1(c).gen
    BY <1>2, KeyRevises
  <2>2. Observed(c) /\ todo'[HostOf[c]] = Tail(todo[HostOf[c]]) /\ ~Ending(Command1(c), c)
    BY <1>2, TailOf DEF KeyEvent, Ending, Endings
  <2> QED
    BY <2>1, <2>2, RevisedSession
<1>3. ASSUME NEW c \in Contexts, ContextCommand(c) PROVE SessionSteps(sess')
  <2>1. PICK t : Revises(c, t) /\ t.gen = Command1(c).gen /\ CommandShows(c, Command1(c).kind, t)
    BY <1>3, ContextCommandRevises
  <2>2. Observed(c) /\ todo'[HostOf[c]] = Tail(todo[HostOf[c]]) /\ Command1(c).kind # "destroy"
    BY <1>3, TailOf DEF ContextCommand
  <2>3. t.pending.tag # 0 => ~Ending(Command1(c), c)
    BY <2>1, <2>2 DEF CommandShows, Ending
  <2> QED
    BY <2>1, <2>2, <2>3, RevisedSession
<1>4. ASSUME NEW c \in Contexts, SetAscii(c) PROVE SessionSteps(sess')
  <2>1. PICK t : Revises(c, t) /\ t.gen = Command1(c).gen /\ CommandShows(c, "set", t)
    BY <1>4, SetAsciiRevises
  <2>2. Observed(c) /\ UNCHANGED todo /\ t.pending.tag = 0
    BY <1>4, <2>1 DEF SetAscii, host, CommandShows
  <2> QED
    BY <2>1, <2>2, RevisedSession
<1>5. CASE Event
  <2>1. CASE ~(UNCHANGED sess /\ UNCHANGED shown /\ UNCHANGED replies)
    <3>1. PICK t : /\ active \in Keys /\ active = Key(active[1]) /\ Revises(active[1], t)
                   /\ t.gen = sess[active].gen /\ t.pending = sess[active].pending
      BY <1>5, <2>1, EventRevises DEF ClickInv
    <3>2. UNCHANGED todo /\ active[1] \in Contexts
      BY <1>5, <3>1, KeysAre DEF Event, host
    <3> QED
      BY <3>1, <3>2, RevisedSession
  <2> QED
    BY <2>1, <1>1
<1>6. ASSUME NEW c \in Contexts, Open(c) PROVE SessionSteps(sess')
  <2>1. PICK m \in Modes : sess' = [sess EXCEPT ![Key(c)] = Fresh(Head(todo[HostOf[c]]).gen, m)]
    BY <1>6 DEF Open, TypeOK
  <2>2. Serves(c) /\ ~Exists(Key(c))
    BY <1>6 DEF Open, Serves
  <2>3. Key(c) \in Keys /\ Command1(c).gen \in Nat /\ up[HostOf[c]]
    BY <2>2, CommandServed, KeyIs
  <2>4. sess' = [sess EXCEPT ![Key(c)] = Fresh(Command1(c).gen, m)] /\ Fresh(Command1(c).gen, m) \in Sessions
    BY <2>1, <2>3, FreshIs DEF Command1
  <2>5. sess'[Key(c)] = Fresh(Command1(c).gen, m)
    BY <2>3, <2>4 DEF TypeOK
  <2>6. Opened(Key(c))
    BY <1>6, <2>2, <2>5 DEF Opened
  <2> QED
    BY <2>3, <2>4, <2>6, OneSession DEF SessionStep
<1>7. ASSUME NEW c \in Contexts, Destroy(c) PROVE SessionSteps(sess')
  <2>1. Key(c) \in Keys /\ sess' = [sess EXCEPT ![Key(c)] = None]
    BY <1>7, CommandServed, KeyIs DEF Destroy, Observed
  <2>2. Closes(Key(c))
    BY <1>7, <2>1 DEF Closes, TypeOK
  <2> QED
    BY <2>1, <2>2, OneSession DEF SessionStep
<1>8. CASE IdleInline
  <2> DEFINE turned == {k \in Keys : Exists(k) /\ Alive(k) /\ sess[k].last.ext /\ ~preedit}
  <2>1. sess' = [k \in Keys |-> IF k \in turned THEN Back(sess[k]) ELSE sess[k]]
    BY <1>8 DEF IdleInline, Back
  <2>2. UNCHANGED todo /\ UNCHANGED births
    BY <1>8 DEF IdleInline, host
  <2>3. ASSUME NEW k \in Keys PROVE sess'[k] \in Sessions \cup {None} /\ SessionStep(k)
    <3>1. CASE k \in turned
      <4>1. Exists(k) /\ sess[k] \in Sessions /\ Sound(sess[k]) /\ sess'[k] = Back(sess[k])
        BY <3>1, <2>1, SessionIs DEF SoundInv
      <4>2. PICK t : t = Back(sess[k])
        OBVIOUS
      <4>3. /\ Follows(sess[k], t) /\ t.gen = sess[k].gen /\ t.pending = sess[k].pending
            /\ t.last.born = sess[k].last.born
        BY <4>1, <4>2, BackIs
      <4>4. sess[k].last.born <= births
        BY <4>1 DEF Sound, NothingFromTheFuture
      <4> QED
        BY <4>1, <4>2, <4>3, <4>4, <2>2 DEF SessionStep, Revised, Follows
    <3>2. CASE k \notin turned
      BY <3>2, <2>1 DEF SessionStep, TypeOK
    <3> QED
      BY <3>1, <3>2
  <2> QED
    BY <2>1, <2>3 DEF SessionSteps
<1>9. CASE IdleLayout
  <2> DEFINE k == active
             u == layouts[k[1]]
  <2>1. CASE ~HasLayout(k)
    BY <1>1, <1>9, <2>1 DEF IdleLayout
  <2>2. CASE HasLayout(k)
    <3>1. k \in Keys /\ Exists(k) /\ u \in Measures /\ UNCHANGED todo
      <4>1. k \in Keys /\ Exists(k) /\ u # None /\ UNCHANGED todo
        BY <1>9, <2>2 DEF HasLayout, TypeOK, IdleLayout, host
      <4> QED
        BY <4>1, KeysAre DEF TypeOK
    <3>2. sess[k] \in Sessions /\ Sound(sess[k])
      BY <3>1, SessionIs DEF SoundInv
    <3>3. CASE Indicates(k, sess[k], u)
      <4>1. sess' = [sess EXCEPT ![k] = [sess[k] EXCEPT !.pending = NoTag]]
        BY <3>3 DEF Indicates
      <4>2. [sess[k] EXCEPT !.pending = NoTag] \in Sessions
        BY <3>2, IndicatedIs
      <4>3. Informed(k)
        BY <4>1, <3>1 DEF Informed, TypeOK
      <4> QED
        BY <4>1, <4>2, <4>3, <3>1, OneSession DEF SessionStep
    <3>4. CASE u.tag = 0 /\ Fits(sess[k], u) /\ Places(k, sess[k], u)
      <4>1. sess' = [sess EXCEPT ![k] = Placed(sess[k], u)]
        BY <3>4 DEF Places, Placed
      <4>2. Placed(sess[k], u) \in Sessions
        BY <3>1, <3>2, PlacedIs
      <4>3. Measured(k)
        BY <4>1, <3>1, <3>4, <2>2 DEF Measured, TypeOK
      <4> QED
        BY <4>1, <4>2, <4>3, <3>1, OneSession DEF SessionStep
    <3> QED
      BY <1>1, <1>9, <2>2, <3>3, <3>4 DEF IdleLayout
  <2> QED
    BY <2>1, <2>2
<1>10. CASE IdleRetain
  <2>1. sess' = [k \in Keys |-> IF Exists(k) /\ Alive(k) THEN sess[k] ELSE None]
    BY <1>10 DEF IdleRetain
  <2>2. ASSUME NEW k \in Keys PROVE sess'[k] \in Sessions \cup {None} /\ SessionStep(k)
    BY <2>1 DEF SessionStep, Closes, Exists, TypeOK
  <2> QED
    BY <2>1, <2>2 DEF SessionSteps
<1>11. ASSUME NEW c \in Contexts, Refuse(c) PROVE UNCHANGED sess
  BY <1>11 DEF Refuse, engine
<1>12. CASE Wake
  BY <1>1, <1>12 DEF Wake
<1>13. CASE Host \/ Click \/ Capability \/ UNCHANGED vars
  BY <1>1, <1>13, HostKeeps DEF Click, Capability, vars, engine
<1> QED
  BY <1>1, <1>2, <1>3, <1>4, <1>5, <1>6, <1>7, <1>8, <1>9, <1>10, <1>11, <1>12, <1>13 DEF Next, Engine

-----------------------------------------------------------------------------
\* What is under way between a host and the engine.

\* The engine tells context c of the state its session is in.
Told(c, r) ==
  LET k == Key(c) IN
  /\ r \in Replies /\ r.epoch = Epoch(c) /\ up[HostOf[c]] /\ Exists(k) /\ k \in Keys
  /\ Follows(sess[k], sess'[k]) /\ r.rev = sess'[k].rev
  /\ r.born \in {0, sess'[k].last.born} /\ sess'[k].last.born <= births'
\* The replies under way are taken one by one, dropped, or get one more.
ReplyStep(c) ==
  \/ replies'[c] \in {replies[c], <<>>}
  \/ replies[c] # <<>> /\ replies'[c] = Tail(replies[c])
  \/ Engine /\ \E r : Told(c, r) /\ replies'[c] = Append(replies[c], r)
ReplySteps(r) == r \in [Contexts -> Seq(Replies)] /\ \A c \in Contexts : ReplyStep(c)

LEMMA OneReply ==
  ASSUME TypeOK, NEW c \in Contexts, NEW q \in Seq(Replies), replies' = [replies EXCEPT ![c] = q],
         ReplyStep(c)
  PROVE  ReplySteps(replies')
<1>1. \A x \in Contexts : x # c => replies'[x] = replies[x]
  BY DEF TypeOK
<1>2. replies' \in [Contexts -> Seq(Replies)]
  BY DEF TypeOK
<1> QED
  BY <1>1, <1>2 DEF ReplySteps, ReplyStep

LEMMA SameReplies ==
  ASSUME TypeOK, UNCHANGED replies
  PROVE  ReplySteps(replies')
BY DEF TypeOK, ReplySteps, ReplyStep

LEMMA RevisedReplies ==
  ASSUME TypeOK, Engine, NEW c \in Contexts, NEW t, Revises(c, t)
  PROVE  ReplySteps(replies')
<1> DEFINE k == Key(c)
<1>1. /\ k \in Keys /\ Exists(k) /\ Follows(sess[k], t) /\ sess' = [sess EXCEPT ![k] = t]
      /\ t.last.born <= births' /\ up[HostOf[c]]
  BY DEF Revises
<1>2. PICK r \in Replies : /\ replies' = [replies EXCEPT ![c] = Append(@, r)]
                           /\ r.rev = t.rev /\ r.epoch = Epoch(c) /\ r.born \in {0, t.last.born}
  BY DEF Revises
<1>3. sess'[k] = t
  BY <1>1 DEF TypeOK
<1>4. Append(replies[c], r) \in Seq(Replies) /\ replies'[c] = Append(replies[c], r)
  BY <1>2, AppendIs DEF TypeOK
<1>5. Told(c, r)
  BY <1>1, <1>2, <1>3 DEF Told
<1>6. ReplyStep(c)
  BY <1>4, <1>5 DEF ReplyStep
<1> QED
  BY <1>2, <1>4, <1>6, OneReply

LEMMA RepliesStep ==
  ASSUME TypeOK, FocusInv, SoundInv, NothingFromTheFuture, PendingInv, BlurInv, ClickInv, [Next]_vars
  PROVE  ReplySteps(replies')
<1>1. CASE UNCHANGED replies
  BY <1>1, SameReplies
<1>2. CASE Engine
  <2>1. ASSUME NEW c \in Contexts, KeyEvent(c) \/ ContextCommand(c) \/ SetAscii(c)
        PROVE  ReplySteps(replies')
    BY <2>1, <1>2, KeyRevises, ContextCommandRevises, SetAsciiRevises, RevisedReplies
  <2>2. ASSUME NEW c \in Contexts, Open(c) \/ Refuse(c) \/ Destroy(c)
        PROVE  UNCHANGED replies
    BY <2>2 DEF Open, Refuse, Destroy
  <2>3. CASE Event
    <3>1. CASE ~(UNCHANGED sess /\ UNCHANGED shown /\ UNCHANGED replies)
      <4>1. PICK t : active \in Keys /\ Revises(active[1], t)
        BY <2>3, <3>1, EventRevises DEF ClickInv
      <4>2. active[1] \in Contexts
        BY <4>1, KeysAre
      <4> QED
        BY <1>2, <4>1, <4>2, RevisedReplies
    <3> QED
      BY <3>1, <1>1
  <2>4. CASE IdleInline
    <3> DEFINE turned == {k \in Keys : Exists(k) /\ Alive(k) /\ sess[k].last.ext /\ ~preedit}
               made(c) == [rev |-> Back(sess[Key(c)]).rev, gen |-> sess[Key(c)].gen,
                           epoch |-> Epoch(c), born |-> sess[Key(c)].last.born,
                           updated |-> TRUE, tag |-> 0]
    <3>1. /\ sess' = [k \in Keys |-> IF k \in turned THEN Back(sess[k]) ELSE sess[k]]
          /\ replies' = [c \in Contexts |-> IF Epoch(c) # 0 /\ Key(c) \in turned
                                            THEN Append(replies[c], made(c)) ELSE replies[c]]
          /\ UNCHANGED births
      BY <2>4 DEF IdleInline, Back
    <3>2. ASSUME NEW c \in Contexts PROVE replies'[c] \in Seq(Replies) /\ ReplyStep(c)
      <4>1. CASE Epoch(c) # 0 /\ Key(c) \in turned
        <5> DEFINE k == Key(c)
                   s == sess[k]
        <5>1. /\ k \in Keys /\ Exists(k) /\ s \in Sessions /\ Sound(s) /\ sess'[k] = Back(s)
              /\ up[HostOf[c]] /\ Epoch(c) \in Nat /\ s.gen \in Nat
          BY <4>1, <3>1, SessionIs, EpochIs DEF SoundInv, Epoch, Sessions
        <5>2. PICK t : t = Back(s)
          OBVIOUS
        <5>3. Follows(s, t) /\ t.last.born = s.last.born
          BY <5>1, <5>2, BackIs
        <5>4. s.last.born <= births /\ s.last.born \in Nat /\ t.rev \in Nat
          BY <5>1, <5>3, SessionIs DEF Sound, NothingFromTheFuture, Follows, Sessions
        <5>5. PICK r : r = [rev |-> t.rev, gen |-> s.gen, epoch |-> Epoch(c), born |-> s.last.born,
                            updated |-> TRUE, tag |-> 0]
          OBVIOUS
        <5>6. r \in Replies /\ r.rev = t.rev /\ r.epoch = Epoch(c) /\ r.born = s.last.born
          BY <5>1, <5>4, <5>5 DEF Replies
        <5>7. Told(c, r)
          BY <5>1, <5>2, <5>3, <5>4, <5>6, <3>1 DEF Told
        <5>8. replies'[c] = Append(replies[c], r)
          BY <4>1, <3>1, <5>2, <5>5
        <5>9. Append(replies[c], r) \in Seq(Replies)
          BY <5>6, AppendIs DEF TypeOK
        <5> QED
          BY <1>2, <5>7, <5>8, <5>9 DEF ReplyStep
      <4>2. CASE ~(Epoch(c) # 0 /\ Key(c) \in turned)
        BY <4>2, <3>1 DEF ReplyStep, TypeOK
      <4> QED
        BY <4>1, <4>2
    <3>3. \E F : replies' = [c \in Contexts |-> F[c]]
      <4> DEFINE F == replies'
      <4>1. replies' = [c \in Contexts |-> F[c]]
        BY <3>1
      <4> QED
        BY <4>1
    <3> QED
      BY <3>2, <3>3 DEF ReplySteps
  <2>5. CASE IdleLayout \/ IdleRetain \/ Wake
    BY <2>5, <1>1 DEF IdleLayout, IdleRetain, Wake
  <2> QED
    BY <1>1, <1>2, <2>1, <2>2, <2>3, <2>4, <2>5 DEF Engine
<1>3. ASSUME NEW c \in Contexts, Remove(c) PROVE ReplySteps(replies')
  <2>1. replies' = [replies EXCEPT ![c] = <<>>] /\ <<>> \in Seq(Replies)
    BY <1>3 DEF Remove
  <2>2. ReplyStep(c)
    BY <2>1 DEF ReplyStep, TypeOK
  <2> QED
    BY <2>1, <2>2, OneReply
<1>4. ASSUME NEW c \in Contexts, Drain(c) PROVE ReplySteps(replies')
  <2>1. \/ UNCHANGED replies
        \/ replies[c] # <<>> /\ replies' = [replies EXCEPT ![c] = Tail(replies[c])]
    BY <1>4 DEF Drain, Starts, Updates, EndsComposition
  <2>2. CASE replies[c] # <<>> /\ replies' = [replies EXCEPT ![c] = Tail(replies[c])]
    <3>1. Tail(replies[c]) \in Seq(Replies)
      BY <2>2, ReplyIs
    <3>2. ReplyStep(c)
      BY <2>2 DEF ReplyStep, TypeOK
    <3> QED
      BY <2>2, <3>1, <3>2, OneReply
  <2> QED
    BY <2>1, <2>2, <1>1
<1>5. ASSUME NEW p \in Processes, Lose(p) PROVE ReplySteps(replies')
  <2>1. replies' = [c \in Contexts |-> IF HostOf[c] = p THEN <<>> ELSE replies[c]]
    BY <1>5 DEF Lose
  <2>2. <<>> \in Seq(Replies)
    OBVIOUS
  <2> QED
    BY <2>1, <2>2 DEF ReplySteps, ReplyStep, TypeOK
<1>6. ASSUME NEW c \in Contexts, Type(c) \/ Cleanup(c) \/ LayoutChange(c) \/ Measure(c)
                                 \/ \E kind \in Acts : Act(c, kind)
      PROVE  UNCHANGED replies
  BY <1>6 DEF Type, Cleanup, LayoutChange, Measure, Act
<1>7. ASSUME NEW p \in Processes, Connect(p) \/ Send(p) \/ Return(p)
                                  \/ \E c \in Contexts \cup {None} : MoveFocus(p, c)
      PROVE  UNCHANGED replies
  BY <1>7 DEF Connect, Send, Return, MoveFocus
<1>8. CASE Host
  BY <1>1, <1>3, <1>4, <1>5, <1>6, <1>7, <1>8 DEF Host
<1>9. CASE Click \/ Capability \/ UNCHANGED vars
  BY <1>1, <1>9 DEF Click, Capability, vars
<1> QED
  BY <1>2, <1>8, <1>9 DEF Next

\* A measure of a composition is of one that was, and every measure is of a connection that was.
OfKind(u) == u.tag = 0 => u.anchor <= births
MeasuresInv ==
  /\ \A c \in Contexts : layouts[c] # None =>
       /\ OfKind(layouts[c])
       /\ layouts[c].epoch <= epoch[HostOf[c]] /\ layouts[c].conn <= epoch[HostOf[c]]
  /\ \A p \in Processes : mail[p] # None =>
       /\ OfKind(mail[p].layout) /\ HostOf[mail[p].of] = p
       /\ mail[p].layout.epoch <= epoch[p] /\ mail[p].layout.conn <= epoch[p]
\* What a document asks to be measured.
ProbeInv == \A c \in Contexts : ProbeFits(doc[c])

\* A measure that a host takes: of a composition as it was last applied, or of an indicator.
Taken(c, l) ==
  /\ l \in Measures /\ l.epoch = Epoch(c)
  /\ \/ /\ l.tag = 0 /\ doc[c].comp # 0 /\ l.anchor \in {doc[c].comp, 0} /\ l.rev = doc[c].applied
        /\ l.conn = doc[c].epoch
     \/ l.tag # 0 /\ l.conn = 0
\* A measure waits, goes or is replaced by a new one.
MailStep(p) ==
  \/ mail'[p] \in {mail[p], None}
  \/ /\ \E l : \E c \in Contexts : HostOf[c] = p /\ Taken(c, l) /\ mail'[p] = [of |-> c, layout |-> l]
     /\ UNCHANGED sess /\ UNCHANGED up /\ UNCHANGED epoch
MailSteps(m) == m \in [Processes -> Letters \cup {None}] /\ \A p \in Processes : MailStep(p)

LEMMA OneMail ==
  ASSUME TypeOK, NEW p \in Processes, NEW l \in Letters \cup {None}, mail' = [mail EXCEPT ![p] = l],
         MailStep(p)
  PROVE  MailSteps(mail')
<1>1. \A x \in Processes : x # p => mail'[x] = mail[x]
  BY DEF TypeOK
<1>2. mail' \in [Processes -> Letters \cup {None}]
  BY DEF TypeOK
<1> QED
  BY <1>1, <1>2 DEF MailSteps, MailStep

LEMMA NoMail ==
  ASSUME TypeOK, NEW p \in Processes, UNCHANGED mail \/ mail' = [mail EXCEPT ![p] = None]
  PROVE  MailSteps(mail')
BY DEF TypeOK, MailSteps, MailStep

LEMMA MeasureMail ==
  ASSUME TypeOK, ProbeInv, NEW c \in Contexts, Measure(c)
  PROVE  MailSteps(mail')
<1> DEFINE p == HostOf[c]
           q == doc[c].probe
           d == doc[c]
<1>1. p \in Processes /\ d \in Docs /\ q \in Probes
  BY SessionAssumption DEF TypeOK, Docs
<1>2. ASSUME NEW l, Taken(c, l), mail' = [mail EXCEPT ![p] = [of |-> c, layout |-> l]]
      PROVE  MailSteps(mail')
  <2>1. [of |-> c, layout |-> l] \in Letters
    BY <1>2 DEF Letters, Taken
  <2>2. UNCHANGED sess /\ UNCHANGED up /\ UNCHANGED epoch
    BY DEF Measure, engine
  <2>3. MailStep(p)
    BY <1>1, <1>2, <2>1, <2>2 DEF MailStep, TypeOK
  <2> QED
    BY <1>1, <1>2, <2>1, <2>3, OneMail
<1>3. CASE /\ Matches(c, q) /\ q.for = "comp" /\ d.comp # 0
           /\ \E anchor \in {d.comp, 0} :
                mail' = [mail EXCEPT ![p] = [of |-> c, layout |-> Layout(q, d.applied, anchor, d.epoch)]]
  <2>1. PICK anchor \in {d.comp, 0} :
          mail' = [mail EXCEPT ![p] = [of |-> c, layout |-> Layout(q, d.applied, anchor, d.epoch)]]
    BY <1>3
  <2>2. q.tag = 0 /\ q.epoch = Epoch(c) /\ q.gen \in Nat /\ q.epoch \in Nat /\ anchor \in Nat
        /\ d.applied \in Nat /\ d.epoch \in Nat
    BY <1>1, <1>3 DEF ProbeInv, ProbeFits, Matches, Probes, Docs
  <2>3. Taken(c, Layout(q, d.applied, anchor, d.epoch))
    BY <1>3, <2>2 DEF Taken, Layout, Measures
  <2> QED
    BY <1>2, <2>1, <2>3
<1>4. CASE /\ Matches(c, q) /\ q.for = "tag"
           /\ mail' = [mail EXCEPT ![p] = [of |-> c, layout |-> Layout(q, 0, Caret, 0)]]
  <2>1. q.tag # 0 /\ q.epoch = Epoch(c) /\ q.gen \in Nat /\ q.epoch \in Nat /\ q.tag \in Nat
        /\ Caret \in Nat
    BY <1>1, <1>4, SessionAssumption DEF ProbeInv, ProbeFits, Matches, Probes, Caret
  <2>2. Taken(c, Layout(q, 0, Caret, 0))
    <3> HIDE DEF q
    <3> QED
      BY <2>1 DEF Taken, Layout, Measures
  <2> QED
    BY <1>2, <1>4, <2>2
<1> QED
  BY <1>1, <1>3, <1>4, NoMail DEF Measure

LEMMA MailsStep ==
  ASSUME TypeOK, ProbeInv, [Next]_vars
  PROVE  MailSteps(mail')
<1>1. CASE UNCHANGED mail
  BY <1>1 DEF TypeOK, MailSteps, MailStep
<1>2. ASSUME NEW c \in Contexts, Remove(c) \/ Drain(c) \/ \E kind \in Acts : Act(c, kind)
      PROVE  MailSteps(mail')
  <2>1. UNCHANGED mail \/ mail' = [mail EXCEPT ![HostOf[c]] = None]
    BY <1>2 DEF Remove, Drain, Starts, Updates, EndsComposition, Act
  <2> QED
    BY <2>1, SessionAssumption, NoMail
<1>3. ASSUME NEW p \in Processes, Send(p) \/ \E c \in Contexts \cup {None} : MoveFocus(p, c)
      PROVE  MailSteps(mail')
  BY <1>3, NoMail DEF Send, MoveFocus
<1>4. ASSUME NEW p \in Processes, Connect(p) \/ Return(p) \/ Lose(p) PROVE UNCHANGED mail
  BY <1>4 DEF Connect, Return, Lose
<1>5. ASSUME NEW c \in Contexts, Type(c) \/ Cleanup(c) \/ LayoutChange(c) PROVE UNCHANGED mail
  BY <1>5 DEF Type, Cleanup, LayoutChange
<1>6. CASE Host
  BY <1>1, <1>2, <1>3, <1>4, <1>5, <1>6, MeasureMail DEF Host
<1>7. CASE Engine \/ Click \/ Capability \/ UNCHANGED vars
  BY <1>1, <1>7, EngineKeeps DEF Click, Capability, vars, host
<1> QED
  BY <1>6, <1>7 DEF Next

\* A measure arrives, is taken or dropped.
LayoutStep(c) ==
  \/ layouts'[c] \in {layouts[c], None}
  \/ LET p == HostOf[c] IN
     /\ mail[p] # None /\ mail[p].of = c /\ layouts'[c] = mail[p].layout
     /\ UNCHANGED sess /\ UNCHANGED up /\ UNCHANGED epoch
LayoutSteps(l) == l \in [Contexts -> Measures \cup {None}] /\ \A c \in Contexts : LayoutStep(c)

LEMMA LayoutsStep ==
  ASSUME TypeOK, MeasuresInv, [Next]_vars
  PROVE  LayoutSteps(layouts')
<1>1. CASE UNCHANGED layouts
  BY <1>1 DEF TypeOK, LayoutSteps, LayoutStep
<1>2. ASSUME NEW c \in Contexts, layouts' = [layouts EXCEPT ![c] = None]
      PROVE  LayoutSteps(layouts')
  BY <1>2 DEF TypeOK, LayoutSteps, LayoutStep
<1>3. ASSUME NEW p \in Processes, Send(p) PROVE LayoutSteps(layouts')
  <2>1. CASE up[p] /\ mail[p].layout.epoch = epoch[p]
    <3> DEFINE c == mail[p].of
    <3>1. mail[p] \in Letters /\ mail[p] # None
      BY <1>3 DEF Send, TypeOK
    <3>2. c \in Contexts /\ HostOf[c] = p /\ mail[p].layout \in Measures
      BY <3>1 DEF MeasuresInv, Letters
    <3>3. layouts' = [layouts EXCEPT ![c] = mail[p].layout]
      BY <1>3, <2>1 DEF Send
    <3>4. UNCHANGED sess /\ UNCHANGED up /\ UNCHANGED epoch
      BY <1>3 DEF Send, engine
    <3>5. layouts' \in [Contexts -> Measures \cup {None}]
      BY <3>2, <3>3 DEF TypeOK
    <3>6. \A x \in Contexts : layouts'[x] = IF x = c THEN mail[p].layout ELSE layouts[x]
      BY <3>2, <3>3 DEF TypeOK
    <3> QED
      BY <3>1, <3>2, <3>4, <3>5, <3>6 DEF LayoutSteps, LayoutStep
  <2>2. CASE ~(up[p] /\ mail[p].layout.epoch = epoch[p])
    BY <1>1, <1>3, <2>2 DEF Send
  <2> QED
    BY <2>1, <2>2
<1>4. ASSUME NEW p \in Processes, Lose(p) PROVE LayoutSteps(layouts')
  <2>1. layouts' = [c \in Contexts |-> IF HostOf[c] = p THEN None ELSE layouts[c]]
    BY <1>4 DEF Lose
  <2> QED
    BY <2>1 DEF TypeOK, LayoutSteps, LayoutStep
<1>5. ASSUME NEW c \in Contexts, Type(c) \/ Cleanup(c) \/ LayoutChange(c) \/ Measure(c) \/ Remove(c)
                                 \/ Drain(c) \/ \E kind \in Acts : Act(c, kind)
      PROVE  UNCHANGED layouts
  BY <1>5 DEF Type, Cleanup, LayoutChange, Measure, Act, Drain, Remove
<1>6. ASSUME NEW p \in Processes, Connect(p) \/ Return(p) \/ \E c \in Contexts \cup {None} : MoveFocus(p, c)
      PROVE  UNCHANGED layouts
  BY <1>6 DEF Connect, Return, MoveFocus
<1>7. CASE Host
  BY <1>1, <1>3, <1>4, <1>5, <1>6, <1>7 DEF Host
<1>8. CASE IdleLayout
  <2>1. CASE HasLayout(active)
    <3>1. active[1] \in Contexts /\ layouts' = [layouts EXCEPT ![active[1]] = None]
      BY <1>8, <2>1, KeysAre DEF IdleLayout, HasLayout, TypeOK
    <3> QED
      BY <3>1, <1>2
  <2> QED
    BY <1>1, <1>8, <2>1 DEF IdleLayout
<1>9. ASSUME NEW c \in Contexts, Destroy(c) PROVE LayoutSteps(layouts')
  BY <1>2, <1>9 DEF Destroy
<1>10. ASSUME NEW c \in Contexts, Open(c) \/ Refuse(c) \/ KeyEvent(c) \/ ContextCommand(c) \/ SetAscii(c)
       PROVE  UNCHANGED layouts
  BY <1>10 DEF Open, Refuse, KeyEvent, ContextCommand, SetAscii
<1>11. CASE Event \/ IdleInline \/ IdleRetain \/ Wake
  BY <1>1, <1>11 DEF Event, IdleInline, IdleRetain, Wake
<1>12. CASE Click \/ Capability \/ UNCHANGED vars
  BY <1>1, <1>12 DEF Click, Capability, vars
<1> QED
  BY <1>1, <1>7, <1>8, <1>9, <1>10, <1>11, <1>12 DEF Next, Engine

-----------------------------------------------------------------------------
\* The types.

\* No reply is of a composition not born yet.
BirthsInv == \A c \in Contexts : \A i \in DOMAIN replies[c] : replies[c][i].born <= births

\* What the lemmas above ask of a state.
Base == /\ TypeOK /\ FocusInv /\ SoundInv /\ NothingFromTheFuture /\ PendingInv /\ QueueInv /\ BlurInv
        /\ ClickInv /\ ProbeInv /\ MeasuresInv /\ BirthsInv

LEMMA SnapshotIs ==
  ASSUME NEW k \in Keys \cup {NoKey}, NEW s \in Sessions
  PROVE  /\ Snapshot(k, s) \in Snapshots /\ Bare(k, s) \in Snapshots /\ Hidden(k, s) \in Snapshots
         /\ Bare(k, s).key = k /\ Bare(k, s).on /\ ~Bare(k, s).visible /\ Bare(k, s).tag.tag = 0
         /\ Hidden(k, s).key = k /\ ~Hidden(k, s).on /\ ~Hidden(k, s).visible /\ Hidden(k, s).tag.tag = 0
         /\ Snapshot(k, s).key = k /\ Snapshot(k, s).on /\ Snapshot(k, s).tag.tag = 0
         /\ Snapshot(k, s).visible <=> Visible(s)
         /\ Visible(s) => Snapshot(k, s).rev = s.rev /\ Snapshot(k, s).n = s.last.n
<1>1. /\ s.rev \in Nat /\ s.gen \in Nat /\ s.anchor \in Nat /\ s.last.born \in Nat /\ s.last.n \in Nat
  BY DEF Sessions, Lasts
<1>2. PICK b : b = [key |-> k, rev |-> s.rev, gen |-> s.gen, on |-> TRUE, visible |-> FALSE,
                    born |-> 0, n |-> 0, anchor |-> 0, tag |-> NoTag]
  OBVIOUS
<1>3. /\ b \in Snapshots /\ b.key = k /\ b.on /\ ~b.visible /\ b.tag.tag = 0 /\ b.rev = s.rev
  BY <1>1, <1>2, NothingIs DEF Snapshots
<1>4. Bare(k, s) = b
  BY <1>2 DEF Bare
<1>5. PICK h : h = [b EXCEPT !.on = FALSE]
  OBVIOUS
<1>6. h \in Snapshots /\ h.key = k /\ ~h.on /\ ~h.visible /\ h.tag.tag = 0
  BY <1>3, <1>5 DEF Snapshots
<1>7. Hidden(k, s) = h
  BY <1>4, <1>5 DEF Hidden
<1>8. PICK v : v = [b EXCEPT !.visible = TRUE, !.born = s.last.born, !.n = s.last.n, !.anchor = s.anchor]
  OBVIOUS
<1>9. /\ v \in Snapshots /\ v.key = k /\ v.on /\ v.visible /\ v.tag.tag = 0 /\ v.rev = s.rev
      /\ v.n = s.last.n
  BY <1>1, <1>3, <1>8 DEF Snapshots
<1>10. Snapshot(k, s) = IF Visible(s) THEN v ELSE b
  BY <1>4, <1>8 DEF Snapshot
<1> QED
  BY <1>3, <1>4, <1>6, <1>7, <1>9, <1>10

-----------------------------------------------------------------------------
\* What the renderer is told.

\* What v shows is the state s of the active session a.
View(a, s, v) ==
  /\ v.on => v.key = a /\ a # NoKey
  /\ a # NoKey => s # None /\ s.focused
  /\ v.visible => v.on /\ Visible(s) /\ v.rev = s.rev /\ v.n = s.rime.n
  /\ v.tag.tag # 0 => v.on /\ s.last.ascii = v.tag.mode /\ s.rime.ascii = v.tag.mode

\* What the renderer shows is a view of the active session.
ShownInv == View(active, sess[active], shown)

\* The view after a step.
Viewed(a, s, v) ==
  /\ a \in Keys \cup {NoKey} /\ v \in Snapshots
  /\ View(a, s[a], v)

LEMMA SnapshotViews ==
  ASSUME NEW k \in Keys, NEW s \in Sessions, Sound(s), s.focused
  PROVE  View(k, s, Snapshot(k, s)) /\ View(k, s, Bare(k, s)) /\ View(k, s, Hidden(k, s))
<1>1. k # NoKey /\ s # None
  BY NoneIsNoValue DEF Keys, NoKey
<1> QED
  BY <1>1, SnapshotIs DEF View, Sound

LEMMA NothingViewed ==
  ASSUME NEW s, NEW t, NEW v, View(NoKey, s, v)
  PROVE  View(NoKey, t, v)
BY DEF View

LEMMA SameView ==
  ASSUME TypeOK, ShownInv, UNCHANGED active, UNCHANGED shown,
         active # NoKey => sess'[active] = sess[active]
  PROVE  Viewed(active', sess', shown')
<1>1. View(active, sess'[active], shown)
  BY NothingViewed DEF ShownInv
<1> QED
  BY <1>1 DEF Viewed, TypeOK

LEMMA KeyViewed ==
  ASSUME Base, ShownInv, NEW c \in Contexts, KeyEvent(c)
  PROVE  Viewed(active', sess', shown')
<1> DEFINE k == Key(c)
           s == sess[k]
<1>1. PICK t : /\ Revises(c, t) /\ t.focused /\ t.rime.ascii = t.last.ascii
               /\ active' = k /\ shown' = KeyShows(k, s, t)
  BY KeyRevises DEF Base
<1>2. /\ k \in Keys /\ t \in Sessions /\ Sound(t) /\ sess' = [sess EXCEPT ![k] = t]
      /\ k # NoKey /\ t # None
  BY <1>1, KeysAre, NoneIsNoValue DEF Revises, Follows, Base
<1>3. sess'[k] = t
  BY <1>2 DEF Base, TypeOK
<1>4. /\ View(k, t, Snapshot(k, t)) /\ View(k, t, Bare(k, t)) /\ Snapshot(k, t) \in Snapshots
      /\ Bare(k, t) \in Snapshots
  BY <1>1, <1>2, SnapshotViews, SnapshotIs
<1>5. CASE shown' \in {Snapshot(k, t), Bare(k, t)}
  BY <1>1, <1>2, <1>3, <1>4, <1>5 DEF Viewed
<1>6. CASE shown' = shown /\ ~Visible(s) /\ active = k /\ s.last.ascii = t.last.ascii
  <2>1. View(k, t, shown)
    BY <1>1, <1>2, <1>6 DEF View, ShownInv
  <2> QED
    BY <1>1, <1>2, <1>3, <1>6, <2>1 DEF Viewed, Base, TypeOK
<1> QED
  BY <1>1, <1>5, <1>6 DEF KeyShows

LEMMA CommandViewed ==
  ASSUME Base, ShownInv, NEW c \in Contexts, NEW kind \in Kinds, NEW t, Revises(c, t),
         CommandShows(c, kind, t)
  PROVE  Viewed(active', sess', shown')
<1> DEFINE k == Key(c)
           s == sess[k]
<1>1. /\ active' = Now(c, kind)
      /\ shown' = IF Now(c, kind) = k THEN Snapshot(k, t) ELSE IF active = k THEN Hidden(k, t) ELSE shown
      /\ kind = "focus" => t.focused
      /\ kind \notin {"blur", "terminated"} /\ s.focused => t.focused
  BY DEF CommandShows
<1>2. /\ k \in Keys /\ t \in Sessions /\ Sound(t) /\ sess' = [sess EXCEPT ![k] = t]
      /\ k # NoKey /\ t # None
  BY KeysAre, NoneIsNoValue DEF Revises, Follows, Base
<1>3. /\ sess'[k] = t
      /\ active # k /\ active # NoKey => sess'[active] = sess[active]
      /\ active \in Keys \cup {NoKey} /\ shown \in Snapshots
  BY <1>2 DEF Base, TypeOK
<1>4. active # NoKey => sess[active].focused
  BY DEF ShownInv, View
<1>5. CASE Now(c, kind) = k
  <2>1. t.focused
    BY <1>1, <1>2, <1>4, <1>5 DEF Now
  <2> QED
    BY <1>1, <1>2, <1>3, <1>5, <2>1, SnapshotViews, SnapshotIs DEF Viewed
<1>6. CASE Now(c, kind) # k /\ active = k
  <2>1. Now(c, kind) = NoKey
    BY <1>6 DEF Now
  <2>2. View(NoKey, sess'[NoKey], Hidden(k, t)) /\ Hidden(k, t) \in Snapshots
    BY <1>2, SnapshotIs DEF View
  <2> QED
    BY <1>1, <1>2, <1>6, <2>1, <2>2 DEF Viewed
<1>7. CASE Now(c, kind) # k /\ active # k
  <2>1. UNCHANGED active /\ UNCHANGED shown
    BY <1>1, <1>7 DEF Now
  <2> QED
    BY <1>3, <1>7, <2>1, SameView DEF Base
<1> QED
  BY <1>5, <1>6, <1>7

LEMMA DestroyViewed ==
  ASSUME Base, ShownInv, NEW c \in Contexts, Destroy(c)
  PROVE  Viewed(active', sess', shown')
<1> DEFINE k == Key(c)
<1>1. k \in Keys /\ Exists(k)
  BY CommandServed, KeyIs DEF Destroy, Observed, Base
<1>2. CASE active = k
  <2> DEFINE u == [sess[k] EXCEPT !.rev = @ + 1]
  <2>1. u \in Sessions
    <3>1. PICK n \in Nat : n = sess[k].rev + 1
      BY <1>1, SessionIs DEF Base
    <3>2. u = [sess[k] EXCEPT !.rev = n] /\ sess[k] \in Sessions
      BY <1>1, <3>1, SessionIs DEF Base
    <3> QED
      BY <3>2 DEF Sessions
  <2>2. active' = NoKey /\ shown' = Hidden(k, u)
    BY <1>2 DEF Destroy
  <2> HIDE DEF u
  <2>3. View(NoKey, sess'[NoKey], Hidden(k, u)) /\ Hidden(k, u) \in Snapshots
    BY <1>1, <2>1, SnapshotIs DEF View
  <2> QED
    BY <2>2, <2>3 DEF Viewed
<1>3. CASE active # k
  <2>1. UNCHANGED active /\ UNCHANGED shown /\ sess' = [sess EXCEPT ![k] = None]
    BY <1>3 DEF Destroy
  <2>2. active # NoKey => sess'[active] = sess[active]
    BY <1>3, <2>1 DEF Base, TypeOK
  <2> QED
    BY <2>1, <2>2, SameView DEF Base
<1> QED
  BY <1>2, <1>3

LEMMA InlineViewed ==
  ASSUME Base, ShownInv, IdleInline
  PROVE  Viewed(active', sess', shown')
<1> DEFINE turned == {k \in Keys : Exists(k) /\ Alive(k) /\ sess[k].last.ext /\ ~preedit}
<1>1. /\ sess' = [k \in Keys |-> IF k \in turned THEN Back(sess[k]) ELSE sess[k]]
      /\ shown' = IF active \in turned THEN Snapshot(active, Back(sess[active])) ELSE shown
      /\ UNCHANGED active
  BY DEF IdleInline, Back
<1>2. CASE active \in turned
  <2>1. active \in Keys /\ Exists(active) /\ sess[active] \in Sessions /\ Sound(sess[active])
        /\ sess[active].focused
    BY <1>2, SessionIs, KeysAre DEF SoundInv, Base, ShownInv, View
  <2>2. PICK t : t = Back(sess[active])
    OBVIOUS
  <2>3. t \in Sessions /\ Sound(t) /\ t.focused
    BY <2>1, <2>2, BackIs DEF Follows
  <2>4. sess'[active] = t /\ shown' = Snapshot(active, t)
    BY <1>1, <1>2, <2>1, <2>2
  <2> QED
    BY <1>1, <2>1, <2>3, <2>4, SnapshotViews, SnapshotIs DEF Viewed
<1>3. CASE active \notin turned
  <2>1. active # NoKey => sess'[active] = sess[active]
    BY <1>1, <1>3 DEF Base, TypeOK
  <2> QED
    BY <1>1, <1>3, <2>1, SameView DEF Base
<1> QED
  BY <1>2, <1>3

LEMMA LayoutViewed ==
  ASSUME Base, ShownInv, IdleLayout
  PROVE  Viewed(active', sess', shown')
<1> DEFINE k == active
           s == sess[k]
           u == layouts[k[1]]
<1>1. UNCHANGED active
  BY DEF IdleLayout
<1>2. CASE UNCHANGED sess /\ UNCHANGED shown
  BY <1>1, <1>2, SameView DEF Base
<1>3. CASE HasLayout(k) /\ (Indicates(k, s, u) \/ Places(k, s, u))
  <2>1. k \in Keys /\ Exists(k) /\ k # NoKey /\ u # None
    BY <1>3 DEF HasLayout, Base, TypeOK
  <2>2. s \in Sessions /\ Sound(s) /\ u \in Measures /\ shown \in Snapshots /\ s.focused
    BY <2>1, SessionIs, KeysAre DEF SoundInv, Base, TypeOK, ShownInv, View
  <2>3. CASE Indicates(k, s, u)
    <3>1. PICK t : t = [s EXCEPT !.pending = NoTag]
      OBVIOUS
    <3>2. /\ t \in Sessions /\ Sound(t) /\ t.rev = s.rev /\ t.focused
          /\ t.last = s.last /\ t.rime = s.rime /\ t.anchor = s.anchor /\ t # None
      BY <2>2, <3>1, IndicatedIs, NoneIsNoValue
    <3>3. sess'[k] = t
      BY <2>1, <2>3, <3>1 DEF Indicates, Base, TypeOK
    <3>4. CASE UNCHANGED shown
      <4>1. View(k, t, shown)
        BY <3>2 DEF View, ShownInv, Visible
      <4> QED
        BY <1>1, <2>1, <2>2, <3>3, <3>4, <4>1 DEF Viewed
    <3>5. CASE /\ s.last.born = 0
               /\ shown' = [Snapshot(k, [s EXCEPT !.anchor = u.anchor]) EXCEPT !.tag = s.pending]
      <4>1. PICK x : x = [s EXCEPT !.anchor = u.anchor]
        OBVIOUS
      <4>2. x \in Sessions /\ ~Visible(x) /\ s.pending \in Tags
        BY <2>2, <3>5, <4>1 DEF Sessions, Measures, Sound, Visible
      <4>3. PICK b : b = Snapshot(k, x)
        OBVIOUS
      <4>4. b \in Snapshots /\ b.key = k /\ b.on /\ ~b.visible
        BY <2>1, <4>2, <4>3, SnapshotIs
      <4>5. PICK v : v = [b EXCEPT !.tag = s.pending]
        OBVIOUS
      <4>6. v \in Snapshots /\ v.key = k /\ v.on /\ ~v.visible /\ v.tag = s.pending
        BY <4>2, <4>4, <4>5 DEF Snapshots
      <4>7. s.pending.tag # 0 => s.last.ascii = s.pending.mode /\ s.rime.ascii = s.pending.mode
        BY <2>2 DEF Sound
      <4>8. View(k, t, v)
        BY <2>1, <3>2, <4>6, <4>7 DEF View
      <4> QED
        BY <1>1, <2>1, <3>3, <3>5, <4>1, <4>3, <4>5, <4>6, <4>8 DEF Viewed
    <3> QED
      BY <2>3, <3>4, <3>5 DEF Indicates
  <2>4. CASE Places(k, s, u)
    <3>1. PICK t : t = Placed(s, u)
      OBVIOUS
    <3>2. /\ t \in Sessions /\ Sound(t) /\ t.rev = s.rev /\ t.focused
          /\ t.last = s.last /\ t.rime = s.rime /\ t.anchor = u.anchor /\ t # None
          /\ t.waiting = IF u.anchor = 0 THEN s.waiting ELSE 0
      BY <2>2, <3>1, PlacedIs, NoneIsNoValue
    <3>3. /\ sess' = [sess EXCEPT ![k] = t]
          /\ shown' = IF /\ s.anchor # u.anchor \/ (s.waiting # 0 /\ u.anchor # 0)
                         /\ t.waiting = 0 /\ (s.last.cands \/ s.last.ext)
                      THEN Snapshot(k, t) ELSE shown
      BY <2>4, <3>1 DEF Places, Placed
    <3>4. sess'[k] = t
      BY <2>1, <3>3 DEF Base, TypeOK
    <3>5. CASE shown' = Snapshot(k, t)
      BY <1>1, <2>1, <3>2, <3>4, <3>5, SnapshotViews, SnapshotIs DEF Viewed
    <3>6. CASE /\ UNCHANGED shown
               /\ ~(/\ s.anchor # u.anchor \/ (s.waiting # 0 /\ u.anchor # 0)
                    /\ t.waiting = 0 /\ (s.last.cands \/ s.last.ext))
      <4>1. Visible(s) => Visible(t)
        BY <2>2, <3>2, <3>6 DEF Visible, Sound
      <4>2. View(k, t, shown)
        BY <3>2, <4>1 DEF View, ShownInv
      <4> QED
        BY <1>1, <2>1, <2>2, <3>4, <3>6, <4>2 DEF Viewed
    <3> QED
      BY <3>3, <3>5, <3>6
  <2> QED
    BY <1>3, <2>3, <2>4
<1> QED
  BY <1>2, <1>3 DEF IdleLayout

LEMMA RetainViewed ==
  ASSUME Base, ShownInv, IdleRetain
  PROVE  Viewed(active', sess', shown')
<1> DEFINE kept == {k \in Keys : Exists(k) /\ Alive(k)}
<1>1. /\ sess' = [k \in Keys |-> IF k \in kept THEN sess[k] ELSE None]
      /\ active' = IF active \in kept THEN active ELSE NoKey
      /\ shown' = IF active # NoKey /\ active \notin kept THEN Gone(active) ELSE shown
  BY DEF IdleRetain
<1>2. active \in Keys \cup {NoKey} /\ NoKey \notin Keys /\ (active # NoKey => Exists(active))
  <2>1. NoKey \notin Keys
    BY KeysAre DEF Base
  <2> QED
    BY <2>1 DEF Base, TypeOK, ShownInv, View, Exists
<1>3. CASE active \in kept
  <2>1. UNCHANGED active /\ UNCHANGED shown /\ sess'[active] = sess[active]
    BY <1>1, <1>3
  <2> QED
    BY <2>1, SameView DEF Base
<1>4. CASE active = NoKey
  <2>1. UNCHANGED active /\ UNCHANGED shown
    BY <1>1, <1>2, <1>4
  <2> QED
    BY <1>4, <2>1, SameView DEF Base
<1>5. CASE active # NoKey /\ active \notin kept
  <2> DEFINE u == [sess[active] EXCEPT !.rev = @ + 1]
  <2>1. u \in Sessions
    <3>1. PICK n \in Nat : n = sess[active].rev + 1
      BY <1>2, <1>5, SessionIs DEF Base
    <3>2. u = [sess[active] EXCEPT !.rev = n] /\ sess[active] \in Sessions
      BY <1>2, <1>5, <3>1, SessionIs DEF Base
    <3> QED
      BY <3>2 DEF Sessions
  <2>2. active' = NoKey /\ shown' = Hidden(active, u)
    BY <1>1, <1>2, <1>5 DEF Gone
  <2> HIDE DEF u
  <2>3. View(NoKey, sess'[NoKey], Hidden(active, u)) /\ Hidden(active, u) \in Snapshots
    BY <1>2, <2>1, SnapshotIs DEF View
  <2> QED
    BY <2>2, <2>3 DEF Viewed
<1> QED
  BY <1>2, <1>3, <1>4, <1>5

LEMMA ViewStays ==
  ASSUME Base, ShownInv, [Next]_vars
  PROVE  Viewed(active', sess', shown')
<1>1. CASE UNCHANGED active /\ UNCHANGED shown /\ UNCHANGED sess
  BY <1>1, SameView DEF Base
<1>2. ASSUME NEW c \in Contexts, ContextCommand(c) PROVE Viewed(active', sess', shown')
  BY <1>2, ContextCommandRevises, CommandViewed DEF Base
<1>3. ASSUME NEW c \in Contexts, SetAscii(c) PROVE Viewed(active', sess', shown')
  <2>1. "set" \in Kinds
    BY DEF Kinds
  <2> QED
    BY <1>3, <2>1, SetAsciiRevises, CommandViewed DEF Base
<1>4. CASE Event
  <2>1. UNCHANGED active
    BY <1>4 DEF Event
  <2>2. CASE ~(UNCHANGED sess /\ UNCHANGED shown /\ UNCHANGED replies)
    <3>1. PICK t : /\ active \in Keys /\ active = Key(active[1]) /\ Revises(active[1], t) /\ t.focused
                   /\ shown' = Snapshot(active, t)
      BY <1>4, <2>2, EventRevises DEF ClickInv, Base
    <3>2. t \in Sessions /\ Sound(t) /\ sess'[active] = t
      BY <3>1 DEF Revises, Follows, Base, TypeOK
    <3> QED
      BY <2>1, <3>1, <3>2, SnapshotViews, SnapshotIs DEF Viewed
  <2> QED
    BY <1>1, <2>1, <2>2
<1>5. ASSUME NEW c \in Contexts, Open(c) PROVE Viewed(active', sess', shown')
  <2>1. PICK f : sess' = [sess EXCEPT ![Key(c)] = f]
    BY <1>5 DEF Open
  <2>2. UNCHANGED active /\ UNCHANGED shown /\ ~Exists(Key(c))
    BY <1>5 DEF Open
  <2>3. active # NoKey => sess'[active] = sess[active]
    BY <2>1, <2>2 DEF Base, TypeOK, ShownInv, View, Exists
  <2> QED
    BY <2>2, <2>3, SameView DEF Base
<1>6. ASSUME NEW c \in Contexts, Refuse(c) PROVE Viewed(active', sess', shown')
  BY <1>1, <1>6 DEF Refuse, engine
<1>7. CASE Wake
  BY <1>1, <1>7 DEF Wake
<1>8. CASE Host \/ Click \/ Capability \/ UNCHANGED vars
  BY <1>1, <1>8, HostKeeps DEF Click, Capability, vars, engine
<1> QED
  BY <1>2, <1>3, <1>4, <1>5, <1>6, <1>7, <1>8, KeyViewed, DestroyViewed, InlineViewed, LayoutViewed,
     RetainViewed DEF Next, Engine

-----------------------------------------------------------------------------
\* The parts of the invariant.

LEMMA BirthsGrow ==
  ASSUME Base, [Next]_vars
  PROVE  births \in Nat /\ births' \in Nat /\ births <= births'
<1>1. births \in Nat
  BY DEF Base, TypeOK
<1>2. CASE UNCHANGED births
  BY <1>1, <1>2
<1>3. ASSUME NEW c \in Contexts, KeyEvent(c) PROVE births' \in Nat /\ births <= births'
  BY <1>3, KeyRevises DEF Base, Revises
<1>4. ASSUME NEW c \in Contexts, Open(c) \/ Refuse(c) \/ ContextCommand(c) \/ SetAscii(c) \/ Destroy(c)
      PROVE  UNCHANGED births
  BY <1>4 DEF Open, Refuse, ContextCommand, SetAscii, Destroy
<1>5. CASE Event \/ IdleInline \/ IdleLayout \/ IdleRetain \/ Wake
  BY <1>2, <1>5 DEF Event, IdleInline, IdleLayout, IdleRetain, Wake
<1>6. CASE Host \/ Click \/ Capability \/ UNCHANGED vars
  BY <1>2, <1>6, HostKeeps DEF Click, Capability, vars
<1> QED
  BY <1>1, <1>2, <1>3, <1>4, <1>5, <1>6 DEF Next, Engine

LEMMA EpochGrows ==
  ASSUME Base, [Next]_vars, NEW p \in Processes
  PROVE  epoch[p] \in Nat /\ epoch'[p] \in Nat /\ epoch[p] <= epoch'[p]
<1>1. ConnectedStays
  BY ConnectionsStay DEF Base
<1>2. epoch[p] \in Nat /\ epoch'[p] \in Nat
  BY <1>1 DEF ConnectedStays, Base, TypeOK
<1>3. Connecting(p)
  BY <1>1 DEF ConnectedStays
<1> QED
  BY <1>2, <1>3 DEF Connecting

LEMMA StateIs ==
  ASSUME NEW ks
  PROVE  State(ks) \in [focused : BOOLEAN, composing : BOOLEAN]
BY DEF State

LEMMA TypesStay ==
  ASSUME Base, ShownInv, [Next]_vars
  PROVE  TypeOK'
<1> USE DEF Base
<1>1. up' \in [Processes -> BOOLEAN] /\ epoch' \in [Processes -> 0 .. MaxEpoch]
  BY ConnectionsStay DEF ConnectedStays
<1>2. todo' \in [Processes -> Seq(Commands)]
  BY QueuesStep DEF QueueSteps
<1>3. doc' \in [Contexts -> Docs]
  BY DocSteps
<1>4. sess' \in [Keys -> Sessions \cup {None}]
  BY SessionsStep DEF SessionSteps
<1>5. replies' \in [Contexts -> Seq(Replies)]
  BY RepliesStep DEF ReplySteps
<1>6. mail' \in [Processes -> Letters \cup {None}]
  BY MailsStep DEF MailSteps
<1>7. layouts' \in [Contexts -> Measures \cup {None}]
  BY LayoutsStep DEF LayoutSteps
<1>8. active' \in Keys \cup {NoKey} /\ shown' \in Snapshots
  BY ViewStays DEF Viewed
<1>9. births' \in Nat
  BY BirthsGrow
<1>10. focus' \in [Processes -> Contexts \cup {None}] /\ moves' \in 0 .. MaxMoves
  <2>1. focus \in [Processes -> Contexts \cup {None}] /\ moves \in 0 .. MaxMoves /\ MaxMoves \in Nat
    BY SessionAssumption DEF TypeOK
  <2>2. Move => moves' \in 0 .. MaxMoves
    BY <2>1 DEF Move
  <2>3. ASSUME NEW c \in Contexts, Type(c) \/ LayoutChange(c) \/ \E kind \in Acts : Act(c, kind)
        PROVE  UNCHANGED focus /\ Move
    BY <2>3 DEF Type, LayoutChange, Act
  <2>4. ASSUME NEW c \in Contexts, Remove(c)
        PROVE  focus' \in [Processes -> Contexts \cup {None}] /\ Move
    BY <2>1, <2>4 DEF Remove
  <2>5. ASSUME NEW p \in Processes, NEW c \in Contexts \cup {None}, MoveFocus(p, c)
        PROVE  focus' \in [Processes -> Contexts \cup {None}] /\ Move
    BY <2>1, <2>5 DEF MoveFocus
  <2>6. ASSUME NEW c \in Contexts, Drain(c) \/ Cleanup(c) \/ Measure(c)
        PROVE  UNCHANGED focus /\ UNCHANGED moves
    BY <2>6 DEF Drain, Cleanup, Measure
  <2>7. ASSUME NEW p \in Processes, Connect(p) \/ Send(p) \/ Return(p)
        PROVE  UNCHANGED focus /\ UNCHANGED moves
    BY <2>7 DEF Connect, Send, Return
  <2>8. ASSUME NEW p \in Processes, Lose(p) PROVE UNCHANGED focus /\ Move
    BY <2>8 DEF Lose
  <2>9. CASE Host
    BY <2>1, <2>2, <2>3, <2>4, <2>5, <2>6, <2>7, <2>8, <2>9 DEF Host
  <2>10. CASE Engine
    BY <2>1, <2>10, EngineKeeps
  <2>11. CASE Click \/ Capability
    BY <2>1, <2>2, <2>11 DEF Click, Capability, host
  <2>12. CASE UNCHANGED vars
    BY <2>1, <2>12 DEF vars
  <2> QED
    BY <2>9, <2>10, <2>11, <2>12 DEF Next
<1>11. call' \in [Processes -> {"none", "waits", "answered"}]
  <2>1. call \in [Processes -> {"none", "waits", "answered"}]
    BY DEF TypeOK
  <2>2. ASSUME NEW c \in Contexts, NEW a \in {"none", "answered"}, Served(c, a)
        PROVE  call' \in [Processes -> {"none", "waits", "answered"}]
    BY <2>1, <2>2 DEF Served
  <2>3. ASSUME NEW c \in Contexts, Type(c) PROVE call' \in [Processes -> {"none", "waits", "answered"}]
    BY <2>1, <2>3 DEF Type
  <2>4. ASSUME NEW p \in Processes, Lose(p) \/ Return(p)
        PROVE  call' \in [Processes -> {"none", "waits", "answered"}]
    BY <2>1, <2>4 DEF Lose, Return
  <2>5. ASSUME NEW c \in Contexts, Remove(c) \/ Drain(c) \/ Cleanup(c) \/ LayoutChange(c) \/ Measure(c)
                                   \/ \E kind \in Acts : Act(c, kind)
        PROVE  UNCHANGED call
    BY <2>5 DEF Remove, Drain, Cleanup, LayoutChange, Measure, Act
  <2>6. ASSUME NEW p \in Processes, Connect(p) \/ Send(p) \/ \E c \in Contexts \cup {None} : MoveFocus(p, c)
        PROVE  UNCHANGED call
    BY <2>6 DEF Connect, Send, MoveFocus
  <2>7. CASE Host
    BY <2>1, <2>3, <2>4, <2>5, <2>6, <2>7 DEF Host
  <2>8. ASSUME NEW c \in Contexts, Refuse(c) \/ KeyEvent(c) \/ ContextCommand(c) \/ Destroy(c)
        PROVE  call' \in [Processes -> {"none", "waits", "answered"}]
    BY <2>2, <2>8 DEF Refuse, KeyEvent, ContextCommand, Destroy
  <2>9. ASSUME NEW c \in Contexts, Open(c) \/ SetAscii(c) PROVE UNCHANGED call
    BY <2>9 DEF Open, SetAscii, host
  <2>10. CASE Event \/ IdleInline \/ IdleLayout \/ IdleRetain \/ Wake \/ Click \/ Capability
              \/ UNCHANGED vars
    BY <2>1, <2>10 DEF Event, IdleInline, IdleLayout, IdleRetain, Wake, Click, Capability, host, vars
  <2> QED
    BY <2>1, <2>7, <2>8, <2>9, <2>10 DEF Next, Engine
<1>12. input' \in [Processes -> [focused : BOOLEAN, composing : BOOLEAN]]
  <2> DEFINE T == [focused : BOOLEAN, composing : BOOLEAN]
  <2>1. input \in [Processes -> T]
    BY DEF TypeOK
  <2>2. ASSUME NEW c \in Contexts, Destroy(c) PROVE input' \in [Processes -> T]
    <3> DEFINE x == State({l \in Keys : l # Key(c) /\ Exists(l) /\ Shares(l, Key(c))})
    <3>1. x \in T
      BY StateIs
    <3>2. input' = [input EXCEPT ![HostOf[c]] = x]
      BY <2>2 DEF Destroy
    <3> QED
      BY <2>1, <3>1, <3>2
  <2>3. CASE IdleRetain
    <3> DEFINE kept == {k \in Keys : Exists(k) /\ Alive(k)}
               of(p) == {k \in kept : HostOf[k[1]] = p}
    <3>1. input' = [p \in Processes |-> IF of(p) = {} THEN input[p] ELSE State(of(p))]
      BY <2>3 DEF IdleRetain
    <3>2. \A p \in Processes : State(of(p)) \in T
      BY StateIs
    <3> HIDE DEF of
    <3> QED
      BY <2>1, <3>1, <3>2
  <2>4. ASSUME NEW p \in Processes, Connect(p) PROVE input' \in [Processes -> T]
    <3>1. [focused |-> FALSE, composing |-> FALSE] \in T
      OBVIOUS
    <3>2. UNCHANGED input \/ input' = [input EXCEPT ![p] = [focused |-> FALSE, composing |-> FALSE]]
      BY <2>4 DEF Connect
    <3> HIDE DEF T
    <3> QED
      BY <2>1, <3>1, <3>2
  <2>5. ASSUME NEW c \in Contexts, Type(c) \/ Remove(c) \/ Drain(c) \/ Cleanup(c) \/ LayoutChange(c)
                                   \/ Measure(c) \/ \E kind \in Acts : Act(c, kind)
        PROVE  UNCHANGED input
    BY <2>5 DEF Type, Remove, Drain, Cleanup, LayoutChange, Measure, Act, engine
  <2>6. ASSUME NEW p \in Processes, Lose(p) \/ Send(p) \/ Return(p)
                                    \/ \E c \in Contexts \cup {None} : MoveFocus(p, c)
        PROVE  UNCHANGED input
    BY <2>6 DEF Lose, Send, Return, MoveFocus, engine
  <2>7. CASE Host
    BY <2>1, <2>4, <2>5, <2>6, <2>7 DEF Host
  <2>8. ASSUME NEW c \in Contexts, Open(c) \/ Refuse(c) \/ KeyEvent(c) \/ ContextCommand(c) \/ SetAscii(c)
        PROVE  UNCHANGED input
    BY <2>8 DEF Open, Refuse, KeyEvent, ContextCommand, SetAscii, engine
  <2>9. CASE Event \/ IdleInline \/ IdleLayout \/ Wake \/ Click \/ Capability \/ UNCHANGED vars
    BY <2>1, <2>9 DEF Event, IdleInline, IdleLayout, Wake, Click, Capability, engine, vars
  <2> QED
    BY <2>1, <2>2, <2>3, <2>7, <2>8, <2>9 DEF Next, Engine
<1>13. global' \in Modes
  <2>1. global \in Modes
    BY DEF TypeOK
  <2>2. ASSUME NEW c \in Contexts, KeyEvent(c) \/ ContextCommand(c) \/ SetAscii(c) PROVE global' \in Modes
    BY <2>2, KeyRevises, ContextCommandRevises, SetAsciiRevises DEF CommandShows
  <2>3. ASSUME NEW c \in Contexts, Open(c) \/ Refuse(c) \/ Destroy(c) PROVE UNCHANGED global
    BY <2>3 DEF Open, Refuse, Destroy, engine
  <2>4. CASE Event \/ IdleInline \/ IdleLayout \/ IdleRetain \/ Wake \/ Click \/ Capability
             \/ UNCHANGED vars
    BY <2>1, <2>4 DEF Event, IdleInline, IdleLayout, IdleRetain, Wake, Click, Capability, engine, vars
  <2> QED
    BY <2>1, <2>2, <2>3, <2>4, HostKeeps DEF Next, Engine
<1>14. preedit' \in BOOLEAN /\ click' \in Snapshots \cup {None}
  <2>1. preedit \in BOOLEAN /\ click \in Snapshots \cup {None} /\ shown \in Snapshots
    BY DEF TypeOK
  <2>2. Engine => UNCHANGED preedit /\ click' \in {click, None}
    BY DEF Engine, Open, Refuse, KeyEvent, ContextCommand, SetAscii, Destroy, Event, IdleInline,
       IdleLayout, IdleRetain, Wake
  <2>3. Click \/ Capability \/ UNCHANGED vars => preedit' \in BOOLEAN /\ click' \in {click, shown}
    BY <2>1 DEF Click, Capability, vars
  <2> QED
    BY <2>1, <2>2, <2>3, HostKeeps DEF Next
<1>15. at' \in {"loop", "inline", "layout", "retain"}
  <2>1. at \in {"loop", "inline", "layout", "retain"}
    BY DEF TypeOK
  <2>2. Engine => at' \in {at, "loop", "inline", "layout", "retain"}
    <3>1. ASSUME NEW c \in Contexts, NEW kind, NEW g, Commanded(c, kind, g) PROVE at' = "inline"
      BY <3>1 DEF Commanded
    <3>2. ASSUME NEW c \in Contexts, Open(c) \/ KeyEvent(c) \/ ContextCommand(c) \/ SetAscii(c) \/ Destroy(c)
          PROVE  at' = "inline"
      BY <3>1, <3>2 DEF Open, KeyEvent, ContextCommand, SetAscii, Destroy
    <3>3. ASSUME NEW c \in Contexts, Refuse(c) PROVE at' = at
      BY <3>3 DEF Refuse, engine
    <3>4. Event \/ IdleInline \/ IdleLayout \/ IdleRetain \/ Wake =>
            at' \in {"loop", "inline", "layout", "retain"}
      BY DEF Event, IdleInline, IdleLayout, IdleRetain, Wake
    <3> QED
      BY <3>2, <3>3, <3>4 DEF Engine
  <2>3. Click \/ Capability \/ UNCHANGED vars => UNCHANGED at
    BY DEF Click, Capability, vars, engine
  <2> QED
    BY <2>1, <2>2, <2>3, HostKeeps DEF Next
<1> QED
  BY <1>1, <1>2, <1>3, <1>4, <1>5, <1>6, <1>7, <1>8, <1>9, <1>10, <1>11, <1>12, <1>13, <1>14, <1>15
  DEF TypeOK

LEMMA SessionFollows ==
  ASSUME Base, [Next]_vars, NEW k \in Keys, sess'[k] # None
  PROVE  /\ sess'[k] \in Sessions /\ Sound(sess'[k])
         /\ sess'[k].last.born <= births' /\ sess'[k].anchor <= births'
         /\ \/ Exists(k) /\ sess'[k].gen = sess[k].gen
            \/ \E c \in Contexts : Serves(c) /\ k = Key(c) /\ sess'[k].gen = Command1(c).gen
         /\ Exists(k) => /\ sess[k].rev <= sess'[k].rev
                         /\ sess'[k].rev = sess[k].rev => sess'[k].rime = sess[k].rime
<1> USE DEF Base
<1>1. SessionStep(k) /\ sess'[k] \in Sessions
  BY SessionsStep DEF SessionSteps
<1>2. births \in Nat /\ births' \in Nat /\ births <= births'
  BY BirthsGrow
<1>3. Exists(k) => /\ sess[k] \in Sessions /\ Sound(sess[k]) /\ sess[k].rev \in Nat
                   /\ sess[k].last.born <= births /\ sess[k].anchor <= births
                   /\ sess[k].last.born \in Nat /\ sess[k].anchor \in Nat
  BY SessionIs DEF SoundInv, NothingFromTheFuture, Sound, Sessions, Lasts
<1>4. CASE sess'[k] = sess[k]
  BY <1>1, <1>2, <1>3, <1>4 DEF Exists
<1>5. CASE Opened(k)
  <2>1. PICK c \in Contexts, m \in Modes : Open(c) /\ k = Key(c) /\ sess'[k] = Fresh(Command1(c).gen, m)
    BY <1>5 DEF Opened
  <2>2. Serves(c) /\ Command1(c).gen \in Nat
    BY <2>1, CommandServed DEF Open, Serves
  <2>3. PICK t : t = Fresh(Command1(c).gen, m)
    OBVIOUS
  <2>4. Sound(t) /\ t.gen = Command1(c).gen /\ t.last.born = 0 /\ t.anchor = 0
    BY <2>2, <2>3, FreshIs
  <2> QED
    BY <1>1, <1>2, <1>5, <2>1, <2>2, <2>3, <2>4 DEF Opened
<1>6. CASE Revised(k)
  <2>1. /\ Exists(k) /\ Sound(sess'[k]) /\ sess'[k].rev = sess[k].rev + 1
        /\ sess'[k].anchor \in {0, sess[k].anchor} /\ sess'[k].last.born <= births'
    BY <1>6 DEF Revised, Follows
  <2>2. \/ sess'[k].gen = sess[k].gen
        \/ \E c \in Contexts : Serves(c) /\ k = Key(c) /\ sess'[k].gen = Command1(c).gen
    BY <1>6 DEF Revised, ByCommand, Observed
  <2> QED
    BY <1>1, <1>2, <1>3, <2>1, <2>2
<1>7. CASE Measured(k)
  <2> DEFINE u == layouts[k[1]]
  <2>1. Exists(k) /\ u # None /\ u.tag = 0 /\ sess'[k] = Placed(sess[k], u) /\ k[1] \in Contexts
    BY <1>7, KeysAre DEF Measured, HasLayout
  <2>2. u \in Measures /\ u.anchor <= births /\ u.anchor \in Nat
    BY <2>1 DEF TypeOK, MeasuresInv, OfKind, Measures
  <2>3. PICK t : t = Placed(sess[k], u)
    OBVIOUS
  <2>4. Sound(t) /\ t.rev = sess[k].rev /\ t.gen = sess[k].gen /\ t.last = sess[k].last
        /\ t.rime = sess[k].rime /\ t.anchor = u.anchor
    BY <1>3, <2>1, <2>2, <2>3, PlacedIs
  <2> QED
    BY <1>1, <1>2, <1>3, <2>1, <2>2, <2>3, <2>4
<1>8. CASE Informed(k)
  <2>1. PICK t : t = [sess[k] EXCEPT !.pending = NoTag]
    OBVIOUS
  <2>2. Sound(t) /\ t.rev = sess[k].rev /\ t.gen = sess[k].gen /\ t.last = sess[k].last
        /\ t.rime = sess[k].rime /\ t.anchor = sess[k].anchor
    BY <1>3, <1>8, <2>1, IndicatedIs DEF Informed
  <2> QED
    BY <1>1, <1>2, <1>3, <1>8, <2>1, <2>2 DEF Informed
<1> QED
  BY <1>1, <1>4, <1>5, <1>6, <1>7, <1>8 DEF SessionStep, Closes

LEMMA SoundStays ==
  ASSUME Base, [Next]_vars
  PROVE  SoundInv'
BY SessionFollows DEF SoundInv, Exists

LEMMA FutureStays ==
  ASSUME Base, [Next]_vars
  PROVE  NothingFromTheFuture' /\ BirthsInv'
<1> USE DEF Base
<1>1. births \in Nat /\ births' \in Nat /\ births <= births'
  BY BirthsGrow
<1>2. ASSUME NEW c \in Contexts
      PROVE  /\ doc'[c].comp <= births' /\ doc'[c].epoch <= epoch'[HostOf[c]]
             /\ \A i \in DOMAIN replies'[c] : /\ replies'[c][i].epoch <= epoch'[HostOf[c]]
                                              /\ replies'[c][i].born <= births'
  <2> DEFINE e == epoch[HostOf[c]]
  <2>1. HostOf[c] \in Processes /\ e \in Nat /\ epoch'[HostOf[c]] \in Nat /\ e <= epoch'[HostOf[c]]
    BY SessionAssumption, EpochGrows
  <2>2. replies[c] \in Seq(Replies) /\ \A i \in DOMAIN replies[c] :
          replies[c][i] \in Replies /\ replies[c][i].epoch <= e /\ replies[c][i].born <= births
    BY DEF TypeOK, NothingFromTheFuture, BirthsInv
  <2>3. \A i \in DOMAIN replies[c] : replies[c][i].epoch \in Nat /\ replies[c][i].born \in Nat
    BY <2>2 DEF Replies
  <2>4. doc[c] \in Docs /\ doc[c].comp <= births /\ doc[c].epoch <= e /\ doc'[c] \in Docs
    BY DocSteps DEF TypeOK, NothingFromTheFuture
  <2>5. Epoch(c) <= e /\ Epoch(c) \in Nat
    BY <2>1 DEF Epoch
  <2>6. doc'[c].comp <= births' /\ doc'[c].epoch <= epoch'[HostOf[c]]
    <3>1. replies[c] # <<>> => Head(replies[c]).born <= births /\ Head(replies[c]).born \in Nat
      <4>1. replies[c] # <<>> => 1 \in DOMAIN replies[c] /\ Head(replies[c]) = replies[c][1]
        BY <2>2
      <4> QED
        BY <4>1, <2>2, <2>3
    <3>2. Changes(c, doc'[c])
      BY DocSteps
    <3>3. doc'[c].comp \in Nat /\ doc'[c].epoch \in Nat /\ doc[c].comp \in Nat /\ doc[c].epoch \in Nat
      BY <2>4 DEF Docs
    <3>4. /\ doc'[c].comp = 0 \/ doc'[c].comp = doc[c].comp
              \/ (replies[c] # <<>> /\ doc'[c].comp = Head(replies[c]).born)
          /\ doc'[c].epoch \in {0, doc[c].epoch, Epoch(c)}
      BY <3>2 DEF Changes
    <3> QED
      BY <1>1, <2>1, <2>4, <2>5, <3>1, <3>3, <3>4
  <2>7. ASSUME NEW i \in DOMAIN replies'[c]
        PROVE  replies'[c][i].epoch <= epoch'[HostOf[c]] /\ replies'[c][i].born <= births'
    <3>1. ReplyStep(c)
      BY RepliesStep DEF ReplySteps
    <3>2. CASE replies'[c] = replies[c]
      BY <3>2, <1>1, <2>1, <2>2, <2>3, <2>7
    <3>3. CASE replies'[c] = <<>>
      BY <3>3, <2>7
    <3>4. CASE replies[c] # <<>> /\ replies'[c] = Tail(replies[c])
      <4>1. PICK j \in DOMAIN replies[c] : replies'[c][i] = replies[c][j]
        <5>1. i \in DOMAIN Tail(replies[c])
          BY <2>7, <3>4
        <5>2. i \in 1 .. Len(replies[c]) - 1 /\ i + 1 \in DOMAIN replies[c]
              /\ Tail(replies[c])[i] = replies[c][i + 1]
          BY <2>2, <3>4, <5>1, TailIs
        <5> QED
          BY <3>4, <5>2
      <4> QED
        BY <4>1, <1>1, <2>1, <2>2, <2>3
    <3>5. ASSUME NEW r, Told(c, r), replies'[c] = Append(replies[c], r)
          PROVE  replies'[c][i].epoch <= epoch'[HostOf[c]] /\ replies'[c][i].born <= births'
      <4>1. /\ r \in Replies /\ r.epoch = Epoch(c) /\ r.born \in {0, sess'[Key(c)].last.born}
            /\ sess'[Key(c)].last.born <= births' /\ r.born \in Nat
        BY <3>5 DEF Told, Replies
      <4>2. r.epoch <= epoch'[HostOf[c]] /\ r.born <= births'
        BY <1>1, <2>1, <2>5, <4>1
      <4>3. \A j \in DOMAIN Append(replies[c], r) :
              (j \in DOMAIN replies[c] /\ Append(replies[c], r)[j] = replies[c][j])
                \/ Append(replies[c], r)[j] = r
        BY <2>2, <4>1, AppendIs
      <4>4. (i \in DOMAIN replies[c] /\ replies'[c][i] = replies[c][i]) \/ replies'[c][i] = r
        BY <2>7, <3>5, <4>3
      <4> QED
        BY <4>2, <4>4, <1>1, <2>1, <2>2, <2>3
    <3> QED
      BY <3>1, <3>2, <3>3, <3>4, <3>5 DEF ReplyStep
  <2> QED
    BY <2>6, <2>7
<1>3. ASSUME NEW k \in Keys, sess'[k] # None
      PROVE  /\ k[2] <= epoch'[HostOf[k[1]]] /\ sess'[k].gen <= doc'[k[1]].gen
             /\ sess'[k].anchor <= births' /\ sess'[k].rime.born <= births'
             /\ sess'[k].pending.tag <= sess'[k].rev
  <2>1. /\ sess'[k] \in Sessions /\ Sound(sess'[k])
        /\ sess'[k].last.born <= births' /\ sess'[k].anchor <= births'
        /\ \/ Exists(k) /\ sess'[k].gen = sess[k].gen
           \/ \E c \in Contexts : Serves(c) /\ k = Key(c) /\ sess'[k].gen = Command1(c).gen
    BY <1>3, SessionFollows
  <2>2. /\ k[1] \in Contexts /\ k[2] \in Nat /\ HostOf[k[1]] \in Processes
        /\ doc[k[1]].gen \in Nat /\ doc'[k[1]].gen \in Nat /\ doc[k[1]].gen <= doc'[k[1]].gen
    BY KeysAre, DocsOlder DEF Older
  <2>3. /\ epoch[HostOf[k[1]]] \in Nat /\ epoch'[HostOf[k[1]]] \in Nat
        /\ epoch[HostOf[k[1]]] <= epoch'[HostOf[k[1]]]
    BY <2>2, EpochGrows
  <2>4. k[2] <= epoch[HostOf[k[1]]] /\ sess'[k].gen <= doc[k[1]].gen /\ sess'[k].gen \in Nat
    <3>1. sess'[k].gen \in Nat
      BY <2>1 DEF Sessions
    <3>2. CASE Exists(k) /\ sess'[k].gen = sess[k].gen
      BY <3>1, <3>2 DEF NothingFromTheFuture
    <3>3. ASSUME NEW c \in Contexts, Serves(c), k = Key(c), sess'[k].gen = Command1(c).gen
          PROVE  k[2] <= epoch[HostOf[k[1]]] /\ sess'[k].gen <= doc[k[1]].gen
      <4>1. /\ todo[HostOf[c]] \in Seq(Commands) /\ todo[HostOf[c]] # <<>> /\ Command1(c).c = c
            /\ up[HostOf[c]] /\ HostOf[c] \in Processes
        BY <3>3, CommandServed
      <4>2. k[1] = c /\ k[2] = epoch[HostOf[c]]
        BY <3>3, <4>1, KeyIs
      <4>3. 1 \in DOMAIN todo[HostOf[c]] /\ Command1(c) = todo[HostOf[c]][1]
        BY <4>1 DEF Command1
      <4>4. Command1(c).gen <= doc[c].gen
        BY <4>1, <4>3 DEF QueueInv, Ordered
      <4> QED
        BY <3>3, <4>2, <4>4, <2>3
    <3> QED
      BY <2>1, <3>1, <3>2, <3>3
  <2> QED
    BY <2>1, <2>2, <2>3, <2>4 DEF Sound
<1> QED
  BY <1>2, <1>3 DEF NothingFromTheFuture, BirthsInv, Exists

LEMMA ProbesStay ==
  ASSUME Base, [Next]_vars
  PROVE  ProbeInv'
BY DocSteps DEF ProbeInv, Changes, Base

LEMMA MeasuresStay ==
  ASSUME Base, [Next]_vars
  PROVE  MeasuresInv'
<1> USE DEF Base
<1>1. births \in Nat /\ births' \in Nat /\ births <= births'
  BY BirthsGrow
<1>2. ASSUME NEW p \in Processes
      PROVE  epoch[p] \in Nat /\ epoch'[p] \in Nat /\ epoch[p] <= epoch'[p]
  BY <1>2, EpochGrows
<1>3. ASSUME NEW p \in Processes, mail[p] # None
      PROVE  /\ mail[p].layout \in Measures /\ mail[p].of \in Contexts
             /\ mail[p].layout.anchor \in Nat /\ mail[p].layout.epoch \in Nat /\ mail[p].layout.conn \in Nat
  BY <1>3 DEF TypeOK, Letters, Measures
<1>4. ASSUME NEW p \in Processes, mail'[p] # None
      PROVE  /\ (mail'[p].layout.tag = 0 => mail'[p].layout.anchor <= births') /\ HostOf[mail'[p].of] = p
             /\ mail'[p].layout.epoch <= epoch'[p] /\ mail'[p].layout.conn <= epoch'[p]
  <2>1. CASE mail'[p] = mail[p]
    BY <2>1, <1>1, <1>2, <1>3, <1>4 DEF MeasuresInv, OfKind
  <2>2. ASSUME NEW c \in Contexts, NEW l, HostOf[c] = p, Taken(c, l),
               mail'[p] = [of |-> c, layout |-> l]
        PROVE  /\ (mail'[p].layout.tag = 0 => mail'[p].layout.anchor <= births') /\ HostOf[mail'[p].of] = p
               /\ mail'[p].layout.epoch <= epoch'[p] /\ mail'[p].layout.conn <= epoch'[p]
    <3>1. doc[c].comp <= births /\ doc[c].comp \in Nat /\ doc[c].epoch <= epoch[p] /\ doc[c].epoch \in Nat
      BY <2>2 DEF NothingFromTheFuture, TypeOK, Docs
    <3>2. l.tag = 0 => l.anchor <= births'
      BY <1>1, <2>2, <3>1 DEF Taken
    <3>3. l.epoch <= epoch'[p] /\ l.conn <= epoch'[p]
      BY <1>2, <2>2, <3>1 DEF Taken, Epoch
    <3> QED
      BY <2>2, <3>2, <3>3 DEF OfKind
  <2>3. MailStep(p)
    BY MailsStep DEF MailSteps
  <2> QED
    BY <1>4, <2>1, <2>2, <2>3 DEF MailStep
<1>5. ASSUME NEW c \in Contexts, layouts'[c] # None
      PROVE  /\ layouts'[c].tag = 0 => layouts'[c].anchor <= births'
             /\ layouts'[c].epoch <= epoch'[HostOf[c]] /\ layouts'[c].conn <= epoch'[HostOf[c]]
  <2>1. HostOf[c] \in Processes
    BY SessionAssumption
  <2>2. CASE layouts'[c] = layouts[c]
    <3>1. layouts[c] \in Measures
      BY <1>5, <2>2 DEF TypeOK
    <3>2. layouts[c].anchor \in Nat /\ layouts[c].epoch \in Nat /\ layouts[c].conn \in Nat
      BY <3>1 DEF Measures
    <3> QED
      BY <2>1, <2>2, <3>2, <1>1, <1>2, <1>5 DEF MeasuresInv, OfKind
  <2>3. CASE mail[HostOf[c]] # None /\ layouts'[c] = mail[HostOf[c]].layout
    BY <2>1, <2>3, <1>1, <1>2, <1>3 DEF MeasuresInv, OfKind
  <2>4. LayoutStep(c)
    BY LayoutsStep DEF LayoutSteps
  <2> QED
    BY <1>5, <2>2, <2>3, <2>4 DEF LayoutStep
<1> QED
  BY <1>4, <1>5 DEF MeasuresInv, OfKind

-----------------------------------------------------------------------------
\* What an earlier state left behind.

\* The measure of a context that waits to be sent, and whether a measure is of its connection.
MailOf(c) == IF mail[HostOf[c]] # None /\ mail[HostOf[c]].of = c THEN mail[HostOf[c]].layout ELSE None
OfConn(u, c) == u # None /\ u.epoch = Epoch(c) /\ u.conn = Epoch(c)

\* The context is removed and its queue is empty.
Over(c) == ~doc[c].alive /\ \A i \in DOMAIN todo[HostOf[c]] : todo[HostOf[c]][i].c # c
\* Nothing refers to a session of the connection.
Blank(c) ==
  /\ \A i \in DOMAIN replies[c] : replies[c][i].epoch # Epoch(c)
  /\ doc[c].comp # 0 => doc[c].epoch # Epoch(c)
  /\ ~OfConn(layouts[c], c) /\ ~OfConn(MailOf(c), c)
  /\ click = None \/ click.key # Key(c)
\* A session that is not there yet will hear of nothing before it.
FreshInv == \A c \in Contexts : Epoch(c) # 0 /\ ~Exists(Key(c)) => Over(c) \/ Blank(c)

\* A composition that has a measure newer than the wait is the one that waits.
Agrees(s, rev, born) ==
  /\ rev <= s.rev
  /\ s.waiting # 0 /\ rev >= s.waiting /\ born # 0 => born = s.last.born
\* Whatever will reach a session agrees with it.
OwnInv ==
  \A c \in Contexts : Epoch(c) # 0 /\ Exists(Key(c)) =>
    LET s == sess[Key(c)] IN
    /\ \A i \in DOMAIN replies[c] :
         replies[c][i].epoch = Epoch(c) => Agrees(s, replies[c][i].rev, replies[c][i].born)
    /\ doc[c].comp # 0 /\ doc[c].epoch = Epoch(c) => Agrees(s, doc[c].applied, doc[c].comp)
    /\ OfConn(layouts[c], c) /\ layouts[c].tag = 0 => Agrees(s, layouts[c].rev, layouts[c].anchor)
    /\ OfConn(MailOf(c), c) /\ MailOf(c).tag = 0 => Agrees(s, MailOf(c).rev, MailOf(c).anchor)

\* The sessions of a connection.
Own(p) == {k \in Keys : Exists(k) /\ Alive(k) /\ HostOf[k[1]] = p}
\* Its view: true of a connection without sessions always, of the others between two messages.
InputInv ==
  \A p \in Processes : up[p] =>
    /\ Own(p) = {} => ~input[p].focused /\ ~input[p].composing
    /\ at = "loop" => /\ input[p].focused <=> \E k \in Own(p) : sess[k].focused
                      /\ input[p].composing <=> \E k \in Own(p) : sess[k].last.born # 0

\* The connection of a context is the one it was, or one that no session is of yet.
LEMMA Connected ==
  ASSUME Base, [Next]_vars, NEW c \in Contexts, (Epoch(c))' # 0
  PROVE  LET p == HostOf[c] IN
         /\ p \in Processes /\ (Epoch(c))' = epoch'[p] /\ (Key(c))' = <<c, epoch'[p]>>
         /\ \/ up[p] /\ UNCHANGED Epoch(c) /\ UNCHANGED Key(c) /\ Key(c) \in Keys /\ Epoch(c) # 0
               /\ Alive(Key(c))
            \/ /\ Connect(p) /\ Host /\ epoch'[p] = epoch[p] + 1 /\ epoch[p] \in Nat /\ UNCHANGED todo
               /\ (Key(c))' \in Keys /\ sess'[(Key(c))'] = None
<1> USE DEF Base
<1> DEFINE p == HostOf[c]
<1>1. p \in Processes /\ (Epoch(c))' = epoch'[p] /\ (Key(c))' = <<c, epoch'[p]>> /\ up'[p]
  BY SessionAssumption DEF Epoch, Key
<1>2. Connecting(p) /\ epoch[p] \in 0 .. MaxEpoch /\ epoch'[p] \in 0 .. MaxEpoch /\ MaxEpoch \in Nat
  BY <1>1, ConnectionsStay, SessionAssumption DEF ConnectedStays, TypeOK
<1>3. CASE up'[p] = up[p] /\ epoch'[p] = epoch[p]
  BY <1>1, <1>2, <1>3, KeyIs DEF Epoch, Key, Connect
<1>4. CASE up[p] /\ ~up'[p]
  BY <1>1, <1>4
<1>5. CASE ~up[p] /\ up'[p] /\ epoch'[p] = epoch[p] + 1 /\ UNCHANGED todo /\ Connect(p) /\ Host
  <2>1. (Key(c))' \in Keys /\ (Key(c))'[1] = c /\ (Key(c))'[2] = epoch[p] + 1
    BY <1>1, <1>2, <1>5 DEF Keys
  <2>2. ~Exists((Key(c))')
    BY <2>1, <1>2 DEF NothingFromTheFuture
  <2>3. sess'[(Key(c))'] = None
    BY <2>2, <1>5, HostKeeps DEF Exists
  <2> QED
    BY <1>1, <1>2, <1>5, <2>1, <2>3
<1> QED
  BY <1>2, <1>3, <1>4, <1>5 DEF Connecting

-----------------------------------------------------------------------------
\* The queue and the sessions.

LEMMA HeadServed ==
  ASSUME Base, NothingIsStale, Engine, NEW c \in Contexts, todo[HostOf[c]] # <<>>, up[HostOf[c]],
         todo'[HostOf[c]] = Tail(todo[HostOf[c]]), Exists(Key(c)), sess'[Key(c)] # None, [Next]_vars
  PROVE  Head(todo[HostOf[c]]).c # c \/ (Revised(Key(c)) /\ ByCommand(Key(c)))
<1> USE DEF Base
<1> DEFINE p == HostOf[c]
<1>1. p \in Processes /\ todo[p] \in Seq(Commands) /\ todo'[p] # todo[p] /\ Key(c) \in Keys /\ Epoch(c) # 0
      /\ 1 \in DOMAIN todo[p] /\ Head(todo[p]) = todo[p][1]
  <2>1. p \in Processes /\ todo[p] \in Seq(Commands)
    BY SessionAssumption DEF TypeOK
  <2>2. Len(Tail(todo[p])) # Len(todo[p])
    BY <2>1, TailIs
  <2>3. todo'[p] # todo[p]
    BY <2>2
  <2>4. 1 \in DOMAIN todo[p] /\ Head(todo[p]) = todo[p][1]
    BY <2>1, TailIs
  <2>5. Key(c) \in Keys /\ Epoch(c) # 0
    BY KeyIs
  <2> QED
    BY <2>1, <2>3, <2>4, <2>5
<1>2. ASSUME NEW d \in Contexts, Serves(d), todo' = [todo EXCEPT ![HostOf[d]] = Tail(@)]
      PROVE  HostOf[d] = p /\ Head(todo[p]).c = d
  BY <1>1, <1>2 DEF Serves, TypeOK
<1>3. ASSUME NEW d \in Contexts, Refuse(d) PROVE Head(todo[p]).c # c
  <2>1. Serves(d) /\ todo' = [todo EXCEPT ![HostOf[d]] = Tail(@)]
    BY <1>3 DEF Refuse, Served
  <2>2. d # c
    <3>1. ASSUME d = c PROVE FALSE
      <4>1. Command1(c).gen < sess[Key(c)].gen /\ Command1(c) = todo[p][1] /\ Command1(c).c = c
        BY <1>1, <1>3, <2>1, <3>1 DEF Refuse, Command1, Serves
      <4>2. Command1(c).gen >= sess[Key(c)].gen
        BY <1>1, <4>1 DEF NothingIsStale
      <4>3. Command1(c).gen \in Nat /\ sess[Key(c)].gen \in Nat
        BY <1>1, <2>1, <3>1, CommandServed, SessionIs DEF Sessions
      <4> QED
        BY <4>1, <4>2, <4>3
    <3> QED
      BY <3>1
  <2>3. Head(todo[p]).c = d
    BY <1>2, <2>1
  <2> QED
    BY <2>2, <2>3
<1>4. ASSUME NEW d \in Contexts, KeyEvent(d) \/ ContextCommand(d)
      PROVE  Head(todo[p]).c # c \/ (Revised(Key(c)) /\ ByCommand(Key(c)))
  <2>1. Serves(d) /\ todo' = [todo EXCEPT ![HostOf[d]] = Tail(@)]
    BY <1>4 DEF KeyEvent, ContextCommand, Served, Observed
  <2>2. CASE d = c
    <3>1. PICK t : Revises(c, t)
      BY <1>4, <2>2, KeyRevises, ContextCommandRevises
    <3>2. sess'[Key(c)] = t /\ t.rev = sess[Key(c)].rev + 1 /\ sess[Key(c)].rev \in Nat
      BY <1>1, <3>1, SessionIs DEF Revises, Follows, TypeOK
    <3>3. SessionStep(Key(c))
      BY <1>1, SessionsStep DEF SessionSteps
    <3>4. t # None /\ t.rev # sess[Key(c)].rev
      BY <3>1, <3>2, NoneIsNoValue DEF Revises, Follows
    <3>5. ~Measured(Key(c)) /\ ~Informed(Key(c)) /\ ~UNCHANGED todo
      BY <1>1 DEF Measured, Informed
    <3> QED
      BY <3>2, <3>3, <3>4, <3>5 DEF SessionStep, Closes, Opened, Revised
  <2>3. Head(todo[p]).c = d
    BY <1>2, <2>1
  <2> QED
    BY <2>2, <2>3
<1>5. ASSUME NEW d \in Contexts, Destroy(d) PROVE Head(todo[p]).c # c
  <2>1. Serves(d) /\ todo' = [todo EXCEPT ![HostOf[d]] = Tail(@)]
    BY <1>5 DEF Destroy, Served, Observed
  <2>2. d # c
    <3>1. sess' = [sess EXCEPT ![Key(d)] = None]
      BY <1>5 DEF Destroy
    <3> QED
      BY <1>1, <3>1 DEF TypeOK
  <2>3. Head(todo[p]).c = d
    BY <1>2, <2>1
  <2> QED
    BY <2>2, <2>3
<1>6. ASSUME NEW d \in Contexts, Open(d) \/ SetAscii(d) PROVE FALSE
  BY <1>1, <1>6 DEF Open, SetAscii, host
<1>7. ASSUME Event \/ IdleInline \/ IdleLayout \/ IdleRetain \/ Wake PROVE FALSE
  BY <1>1, <1>7 DEF Event, IdleInline, IdleLayout, IdleRetain, Wake, host
<1>8. \/ \E d \in Contexts : \/ Open(d) \/ Refuse(d) \/ KeyEvent(d) \/ ContextCommand(d)
                            \/ SetAscii(d) \/ Destroy(d)
      \/ Event \/ IdleInline \/ IdleLayout \/ IdleRetain \/ Wake
  BY DEF Engine
<1> QED
  BY <1>3, <1>4, <1>5, <1>6, <1>7, <1>8

LEMMA PendingStays ==
  ASSUME Base, NothingIsStale, [Next]_vars
  PROVE  PendingInv'
<1> USE DEF Base
<1>1. SUFFICES ASSUME NEW c \in Contexts, (Epoch(c))' # 0, sess'[(Key(c))'] # None,
                      sess'[(Key(c))'].pending.tag # 0
               PROVE  /\ Settled(todo'[HostOf[c]], c)
                      /\ focus'[HostOf[c]] # c => Ends(todo'[HostOf[c]], c)
  BY DEF PendingInv, Exists
<1> DEFINE p == HostOf[c]
           k == Key(c)
           q == todo[p]
<1>2. /\ p \in Processes /\ up[p] /\ k \in Keys /\ Epoch(c) # 0 /\ (Key(c))' = k /\ (Key(c))' \in Keys
      /\ sess'[k] # None /\ sess'[k].pending.tag # 0 /\ up'[p]
  BY <1>1, Connected DEF Epoch
<1>3. SessionStep(k) /\ QueueStep(p) /\ q \in Seq(Commands)
  BY <1>2, SessionsStep, QueuesStep DEF SessionSteps, QueueSteps, TypeOK
<1>4. Refocus(q, c) /\ (focus[p] # c => Left(q, c))
  BY DEF BlurInv
<1>5. CASE Revised(k) /\ ByCommand(k)
  <2>1. PICK d \in Contexts :
          /\ Observed(d) /\ k = Key(d)
          /\ ~Ending(Command1(d), d) /\ todo'[HostOf[d]] = Tail(todo[HostOf[d]])
    BY <1>2, <1>5 DEF ByCommand
  <2>2. d = c
    <3>1. up[HostOf[d]]
      BY <2>1, CommandServed DEF Observed
    <3> QED
      BY <2>1, <3>1, <1>2, KeyIs
  <2>3. q # <<>> /\ Head(q).c = c /\ ~Ending(Head(q), c) /\ todo'[p] = Tail(q)
    BY <2>1, <2>2 DEF Observed, Serves, Command1
  <2>4. Settled(Tail(q), c) /\ (Left(q, c) => Ends(Tail(q), c))
    BY <1>3, <1>4, <2>3, BlurTail
  <2>5. Len(Tail(q)) # Len(q)
    BY <1>3, <2>3, TailIs
  <2>6. focus'[p] = focus[p]
    <3>1. Len(todo'[p]) # Len(q) /\ Len(todo'[p]) < Len(q)
      BY <1>3, <2>3, TailIs
    <3>2. \A m \in Commands : Append(q, m) \in Seq(Commands) /\ Len(Append(q, m)) = Len(q) + 1
      BY <1>3, AppendIs
    <3>3. ASSUME NEW m \in Commands, NEW n \in Commands PROVE Len(Append(Append(q, m), n)) = Len(q) + 2
      <4>1. PICK r \in Seq(Commands) : r = Append(q, m) /\ Len(r) = Len(q) + 1
        BY <3>2, <3>3
      <4>2. Len(Append(r, n)) = Len(r) + 1 /\ Len(q) \in Nat
        BY <1>3, <4>1, AppendIs
      <4> QED
        BY <4>1, <4>2
    <3>4. Len(q) \in Nat
      BY <1>3
    <3> QED
      BY <1>3, <3>1, <3>2, <3>3, <3>4 DEF QueueStep, Sends
  <2> QED
    BY <1>4, <2>3, <2>4, <2>6
<1>6. CASE ~(Revised(k) /\ ByCommand(k))
  <2>1. Exists(k) /\ sess[k].pending.tag # 0
    <3>1. CASE sess'[k] = sess[k]
      BY <3>1, <1>2 DEF Exists
    <3>2. CASE Revised(k)
      BY <3>2, <1>2, <1>6 DEF Revised
    <3>3. CASE Measured(k)
      <4>1. /\ Exists(k) /\ layouts[k[1]] # None /\ sess'[k] = Placed(sess[k], layouts[k[1]])
            /\ k[1] \in Contexts
        BY <1>2, <3>3, KeysAre DEF Measured, HasLayout
      <4>2. layouts[k[1]] \in Measures /\ sess[k] \in Sessions /\ Sound(sess[k])
        BY <1>2, <4>1, SessionIs DEF TypeOK, SoundInv
      <4>3. sess'[k].pending = sess[k].pending
        BY <4>1, <4>2, PlacedIs
      <4> QED
        BY <1>2, <4>1, <4>3
    <3>4. CASE Informed(k)
      <4>1. sess[k] \in Sessions /\ Sound(sess[k]) /\ sess'[k] = [sess[k] EXCEPT !.pending = NoTag]
        BY <1>2, <3>4, SessionIs DEF SoundInv, Informed
      <4>2. sess'[k].pending = NoTag
        BY <4>1, IndicatedIs
      <4> QED
        BY <1>2, <4>2, NothingIs
    <3>5. CASE Opened(k)
      <4>1. PICK d \in Contexts, m \in Modes : Open(d) /\ k = Key(d) /\ sess'[k] = Fresh(Command1(d).gen, m)
        BY <3>5 DEF Opened
      <4>2. Command1(d).gen \in Nat
        BY <4>1, CommandServed DEF Open, Serves
      <4>3. sess'[k].pending.tag = 0
        BY <4>1, <4>2, FreshIs
      <4> QED
        BY <1>2, <4>3
    <3> QED
      BY <1>2, <1>3, <3>1, <3>2, <3>3, <3>4, <3>5 DEF SessionStep, Closes
  <2>2. Settled(q, c) /\ (focus[p] # c => Ends(q, c))
    BY <1>2, <2>1 DEF PendingInv
  <2>3. CASE todo'[p] = q /\ focus'[p] = focus[p]
    BY <2>2, <2>3
  <2>4. CASE q # <<>> /\ todo'[p] = Tail(q) /\ focus'[p] = focus[p] /\ (up'[p] => Engine)
    <3>1. Head(q).c # c
      BY <1>2, <1>6, <2>1, <2>4, HeadServed
    <3>2. ~Ending(Head(q), c)
      BY <3>1 DEF Ending
    <3> QED
      BY <1>3, <1>4, <2>2, <2>4, <3>2, BlurTail
  <2>5. ASSUME NEW m, Sends(p, m, focus[p], focus'[p]), todo'[p] = Append(q, m)
        PROVE  Settled(todo'[p], c) /\ (focus'[p] # c => Ends(todo'[p], c))
    BY <1>3, <2>2, <2>5, SettledPut DEF Sends
  <2>6. ASSUME NEW m, NEW n, NEW f, Sends(p, m, focus[p], f), Sends(p, n, f, focus'[p]),
               todo'[p] = Append(Append(q, m), n)
        PROVE  Settled(todo'[p], c) /\ (focus'[p] # c => Ends(todo'[p], c))
    <3>1. m \in Commands /\ n \in Commands /\ Puts(focus[p], m, f) /\ Puts(f, n, focus'[p])
      BY <2>6 DEF Sends
    <3>2. PICK r \in Seq(Commands) : r = Append(q, m)
      BY <1>3, <3>1, AppendIs
    <3>3. Settled(r, c) /\ (f # c => Ends(r, c))
      BY <1>3, <2>2, <3>1, <3>2, SettledPut
    <3>4. Settled(Append(r, n), c) /\ (focus'[p] # c => Ends(Append(r, n), c))
      BY <3>1, <3>3, SettledPut
    <3> QED
      BY <2>6, <3>2, <3>4
  <2> QED
    BY <1>3, <2>3, <2>4, <2>5, <2>6 DEF QueueStep
<1> QED
  BY <1>5, <1>6

LEMMA StaleStays ==
  ASSUME Base, NothingIsStale, [Next]_vars
  PROVE  NothingIsStale'
<1> USE DEF Base
<1>1. SUFFICES ASSUME NEW c \in Contexts, (Epoch(c))' # 0, sess'[(Key(c))'] # None,
                      NEW i \in DOMAIN todo'[HostOf[c]], todo'[HostOf[c]][i].c = c
               PROVE  todo'[HostOf[c]][i].gen >= sess'[(Key(c))'].gen
  BY DEF NothingIsStale, Exists
<1> DEFINE p == HostOf[c]
           k == Key(c)
           q == todo[p]
           g == sess'[k].gen
<1>2. /\ p \in Processes /\ up[p] /\ k \in Keys /\ Epoch(c) # 0 /\ (Key(c))' = k
      /\ sess'[k] # None /\ k[1] = c
  BY <1>1, Connected, KeyIs
<1>3. QueueStep(p) /\ q \in Seq(Commands) /\ Ordered(q, p, doc)
  BY <1>2, QueuesStep DEF QueueSteps, TypeOK, QueueInv
<1>4. /\ sess'[k] \in Sessions /\ g \in Nat
      /\ \/ Exists(k) /\ g = sess[k].gen
         \/ \E d \in Contexts : Serves(d) /\ k = Key(d) /\ g = Command1(d).gen
  BY <1>2, SessionFollows DEF Sessions
<1>5. \A j \in DOMAIN q : q[j].c = c => q[j].gen >= g /\ q[j].gen \in Nat
  <2>1. CASE Exists(k) /\ g = sess[k].gen
    BY <1>2, <1>3, <2>1, ElementIs DEF NothingIsStale
  <2>2. ASSUME NEW d \in Contexts, Serves(d), k = Key(d), g = Command1(d).gen
        PROVE  \A j \in DOMAIN q : q[j].c = c => q[j].gen >= g /\ q[j].gen \in Nat
    <3>1. d = c /\ q # <<>> /\ Head(q).c = c /\ Head(q).gen = g
      BY <1>2, <2>2, CommandServed, KeyIs DEF Command1
    <3>2. /\ Len(q) \in Nat /\ DOMAIN q = 1 .. Len(q) /\ Head(q) = q[1] /\ 1 \in DOMAIN q
      BY <1>3, <3>1, TailIs
    <3>3. ASSUME NEW j \in DOMAIN q, q[j].c = c PROVE q[j].gen >= g /\ q[j].gen \in Nat
      <4>1. q[j].gen \in Nat
        BY <1>3, ElementIs
      <4>2. CASE j = 1
        BY <1>4, <3>1, <3>2, <4>1, <4>2
      <4>3. CASE 1 < j
        BY <1>3, <3>1, <3>2, <3>3, <4>1, <4>3 DEF Ordered
      <4> QED
        BY <3>2, <4>2, <4>3
    <3> QED
      BY <3>3
  <2> QED
    BY <1>4, <2>1, <2>2
<1>6. CASE todo'[p] = q
  BY <1>1, <1>2, <1>5, <1>6
<1>7. CASE q # <<>> /\ todo'[p] = Tail(q)
  <2>1. i \in DOMAIN Tail(q) /\ i + 1 \in DOMAIN q /\ Tail(q)[i] = q[i + 1]
    BY <1>1, <1>3, <1>7, TailIs
  <2> QED
    BY <1>1, <1>2, <1>5, <1>7, <2>1
<1>8. ASSUME UNCHANGED sess, NEW m, NEW f, NEW x, Sends(p, m, f, x), m.c = c
      PROVE  m.gen >= g
  <2>1. Exists(k) /\ g = sess[k].gen
    BY <1>2, <1>8 DEF Exists
  <2>2. g <= doc[c].gen /\ doc[c].gen \in Nat /\ doc[c].gen <= m.gen /\ m.gen \in Nat
    BY <1>2, <1>8, <2>1 DEF NothingFromTheFuture, Sends, TypeOK, Docs, Commands
  <2> QED
    BY <1>4, <2>2
<1>9. ASSUME NEW m, UNCHANGED sess, Sends(p, m, focus[p], focus'[p]), todo'[p] = Append(q, m)
      PROVE  todo'[p][i].gen >= g
  <2>1. m \in Commands
    BY <1>9 DEF Sends
  <2>2. (i \in DOMAIN q /\ todo'[p][i] = q[i]) \/ todo'[p][i] = m
    BY <1>1, <1>3, <1>9, <2>1, AppendIs
  <2> QED
    BY <1>1, <1>5, <1>8, <1>9, <2>2
<1>10. ASSUME NEW m, NEW n, NEW f, UNCHANGED sess, Sends(p, m, focus[p], f), Sends(p, n, f, focus'[p]),
              todo'[p] = Append(Append(q, m), n)
       PROVE  todo'[p][i].gen >= g
  <2>1. m \in Commands /\ n \in Commands
    BY <1>10 DEF Sends
  <2>2. PICK r \in Seq(Commands) : r = Append(q, m)
    BY <1>3, <2>1, AppendIs
  <2>3. (i \in DOMAIN r /\ todo'[p][i] = r[i]) \/ todo'[p][i] = n
    <3>1. todo'[p] = Append(r, n) /\ i \in DOMAIN Append(r, n)
      BY <1>1, <1>10, <2>2
    <3> QED
      BY <2>1, <3>1, AppendIs
  <2>4. i \in DOMAIN r => (i \in DOMAIN q /\ r[i] = q[i]) \/ r[i] = m
    BY <1>3, <2>1, <2>2, AppendIs
  <2> QED
    BY <1>1, <1>5, <1>8, <1>10, <2>3, <2>4
<1> QED
  BY <1>2, <1>3, <1>6, <1>7, <1>9, <1>10 DEF QueueStep

-----------------------------------------------------------------------------
\* The click.

LEMMA Opening ==
  ASSUME Base, FreshInv, NEW k \in Keys, Opened(k)
  PROVE  /\ k[1] \in Contexts /\ Open(k[1]) /\ k = Key(k[1]) /\ Epoch(k[1]) # 0 /\ Blank(k[1])
         /\ \E m \in Modes : sess'[k] = Fresh(Command1(k[1]).gen, m)
<1> USE DEF Base
<1>1. PICK c \in Contexts, m \in Modes : Open(c) /\ k = Key(c) /\ sess'[k] = Fresh(Command1(c).gen, m)
  BY DEF Opened
<1>2. Serves(c)
  BY <1>1 DEF Open, Serves
<1>3. /\ todo[HostOf[c]] \in Seq(Commands) /\ todo[HostOf[c]] # <<>> /\ Command1(c).c = c
      /\ up[HostOf[c]]
  BY <1>2, CommandServed
<1>4. k[1] = c /\ Epoch(c) # 0
  BY <1>1, <1>3, KeyIs
<1>5. 1 \in DOMAIN todo[HostOf[c]] /\ todo[HostOf[c]][1] = Command1(c)
  BY <1>3, TailIs DEF Command1
<1>6. ~Over(c)
  BY <1>3, <1>5 DEF Over
<1>7. Blank(c)
  BY <1>1, <1>4, <1>6 DEF FreshInv, Opened
<1> QED
  BY <1>1, <1>4, <1>7

LEMMA ClickSteps ==
  ASSUME [Next]_vars
  PROVE  click' = click \/ click' = None \/ Click
<1>1. CASE Host \/ Click \/ Capability \/ UNCHANGED vars
  BY <1>1, HostKeeps DEF Capability, vars
<1>2. CASE Engine
  BY <1>2 DEF Engine, Open, Refuse, KeyEvent, ContextCommand, SetAscii, Destroy, Event, IdleInline,
    IdleLayout, IdleRetain, Wake
<1> QED
  BY <1>1, <1>2 DEF Next

\* What is clicked is what the renderer shows of the active session.
LEMMA ClickIs ==
  ASSUME Base, ShownInv, Click
  PROVE  /\ click' # None /\ UNCHANGED sess /\ UNCHANGED epoch /\ active \in Keys /\ Exists(active)
         /\ click'.key = active /\ click'.rev = sess[active].rev /\ click'.n = sess[active].rime.n
<1>1. /\ click' = shown /\ shown.visible /\ UNCHANGED sess /\ UNCHANGED epoch
      /\ shown \in Snapshots /\ active \in Keys \cup {NoKey}
  BY DEF Click, host, engine, Base, TypeOK
<1>2. shown # None
  BY <1>1, NoneIsNoValue
<1> QED
  BY <1>1, <1>2 DEF ShownInv, View, Exists

LEMMA ClickStays ==
  ASSUME Base, ShownInv, FreshInv, [Next]_vars
  PROVE  ClickInv'
<1> USE DEF Base
<1>1. SUFFICES ASSUME click' # None
               PROVE  /\ click'.key \in Keys /\ click'.key[2] <= epoch'[HostOf[click'.key[1]]]
                      /\ sess'[click'.key] # None =>
                           /\ click'.rev <= sess'[click'.key].rev
                           /\ click'.rev = sess'[click'.key].rev => click'.n = sess'[click'.key].rime.n
  BY DEF ClickInv, Exists
<1>2. CASE click' = click
  <2> DEFINE k == click.key
  <2>1. k \in Keys /\ k[2] <= epoch[HostOf[k[1]]] /\ k[2] \in Nat /\ HostOf[k[1]] \in Processes
        /\ click.rev \in Nat
    <3>1. click # None /\ click \in Snapshots
      BY <1>1, <1>2 DEF TypeOK
    <3> QED
      BY <3>1, KeysAre DEF ClickInv, Snapshots
  <2>2. k[2] <= epoch'[HostOf[k[1]]]
    BY <2>1, EpochGrows
  <2>3. ASSUME sess'[k] # None
        PROVE  /\ click.rev <= sess'[k].rev
               /\ click.rev = sess'[k].rev => click.n = sess'[k].rime.n
    <3>1. Exists(k)
      <4>1. ASSUME ~Exists(k) PROVE FALSE
        <5>1. Opened(k)
          <6>1. SessionStep(k)
            BY <2>1, SessionsStep DEF SessionSteps
          <6> QED
            BY <2>3, <4>1, <6>1 DEF SessionStep, Closes, Revised, Measured, Informed, Exists
        <5>2. Blank(k[1]) /\ k = Key(k[1])
          BY <2>1, <5>1, Opening
        <5> QED
          BY <5>2, <1>1, <1>2 DEF Blank
      <4> QED
        BY <4>1
    <3>2. sess[k].rev <= sess'[k].rev /\ (sess'[k].rev = sess[k].rev => sess'[k].rime = sess[k].rime)
          /\ sess'[k].rev \in Nat /\ sess[k].rev \in Nat
      BY <2>1, <2>3, <3>1, SessionFollows, SessionIs DEF Sessions
    <3>3. click.rev <= sess[k].rev /\ (click.rev = sess[k].rev => click.n = sess[k].rime.n)
      BY <1>1, <1>2, <3>1 DEF ClickInv
    <3> QED
      BY <2>1, <3>2, <3>3
  <2> QED
    BY <1>2, <2>1, <2>2, <2>3
<1>3. CASE Click
  <2>1. /\ click'.key = active /\ active \in Keys /\ Exists(active) /\ UNCHANGED sess /\ UNCHANGED epoch
        /\ click'.rev = sess[active].rev /\ click'.n = sess[active].rime.n
    BY <1>3, ClickIs
  <2>2. sess[active].rev \in Nat
    BY <2>1, SessionIs
  <2>3. active[2] <= epoch[HostOf[active[1]]]
    BY <2>1 DEF NothingFromTheFuture
  <2> QED
    BY <2>1, <2>2, <2>3
<1> QED
  BY <1>1, <1>2, <1>3, ClickSteps

-----------------------------------------------------------------------------
\* What an earlier state left behind stays there.

\* A session goes with its connection or its context.
LEMMA Closing ==
  ASSUME Base, [Next]_vars, NEW k \in Keys, Exists(k), sess'[k] = None
  PROVE  Closes(k)
<1> USE DEF Base
<1>1. SessionStep(k) /\ sess[k] \in Sessions /\ Sound(sess[k])
  BY SessionsStep, SessionIs DEF SessionSteps, SoundInv
<1>2. ~Revised(k)
  BY NoneIsNoValue DEF Revised, Follows
<1>3. ~Measured(k)
  <2>1. ASSUME Measured(k) PROVE FALSE
    <3>1. k[1] \in Contexts /\ layouts[k[1]] # None /\ sess'[k] = Placed(sess[k], layouts[k[1]])
      BY <2>1, KeysAre DEF Measured, HasLayout
    <3>2. layouts[k[1]] \in Measures
      BY <3>1 DEF TypeOK
    <3>3. Placed(sess[k], layouts[k[1]]) \in Sessions
      BY <1>1, <3>2, PlacedIs
    <3> QED
      BY <3>1, <3>3, NoneIsNoValue
  <2> QED
    BY <2>1
<1>4. ~Informed(k)
  BY <1>1, IndicatedIs, NoneIsNoValue DEF Informed
<1> QED
  BY <1>1, <1>2, <1>3, <1>4 DEF SessionStep, Opened, Exists

LEMMA MailIs ==
  ASSUME TypeOK, NEW c \in Contexts, MailOf(c) # None
  PROVE  /\ MailOf(c) \in Measures /\ mail[HostOf[c]] # None /\ mail[HostOf[c]].of = c
         /\ MailOf(c) = mail[HostOf[c]].layout
<1>1. HostOf[c] \in Processes
  BY SessionAssumption
<1> QED
  BY <1>1 DEF MailOf, TypeOK, Letters

\* A host takes a measure of a context, or loses it.
LEMMA MailFollows ==
  ASSUME Base, [Next]_vars, NEW c \in Contexts
  PROVE  \/ (MailOf(c))' \in {MailOf(c), None}
         \/ Taken(c, (MailOf(c))') /\ UNCHANGED sess
<1> USE DEF Base
<1> DEFINE p == HostOf[c]
<1>1. MailStep(p) /\ p \in Processes
  BY MailsStep, SessionAssumption DEF MailSteps
<1>2. CASE mail'[p] \in {mail[p], None}
  BY <1>2 DEF MailOf
<1>3. ASSUME NEW d \in Contexts, NEW l, Taken(d, l), mail'[p] = [of |-> d, layout |-> l], UNCHANGED sess
      PROVE  (MailOf(c))' = None \/ (Taken(c, (MailOf(c))') /\ UNCHANGED sess)
  <2>1. mail'[p].of = d /\ mail'[p].layout = l
    BY <1>3
  <2>2. (MailOf(c))' = IF mail'[p] # None /\ d = c THEN l ELSE None
    BY <2>1 DEF MailOf
  <2> QED
    BY <1>3, <2>2
<1> QED
  BY <1>1, <1>2, <1>3 DEF MailStep

\* What was measured arrives at the engine.
LEMMA LayoutFollows ==
  ASSUME Base, [Next]_vars, NEW c \in Contexts
  PROVE  \/ layouts'[c] \in {layouts[c], None}
         \/ layouts'[c] = MailOf(c) /\ MailOf(c) # None /\ UNCHANGED sess
<1> USE DEF Base
<1>1. LayoutStep(c) /\ HostOf[c] \in Processes
  BY LayoutsStep, SessionAssumption DEF LayoutSteps
<1>2. CASE mail[HostOf[c]] # None /\ mail[HostOf[c]].of = c /\ layouts'[c] = mail[HostOf[c]].layout
           /\ UNCHANGED sess
  <2>1. MailOf(c) = mail[HostOf[c]].layout
    BY <1>2 DEF MailOf
  <2>2. MailOf(c) \in Measures
    BY <1>1, <1>2, <2>1 DEF TypeOK, Letters
  <2> QED
    BY <1>2, <2>1, <2>2, NoneIsNoValue
<1> QED
  BY <1>1, <1>2 DEF LayoutStep

\* Where the replies to a context come from.
LEMMA ReplyFollows ==
  ASSUME Base, [Next]_vars, NEW c \in Contexts, NEW i \in DOMAIN replies'[c]
  PROVE  \/ \E j \in DOMAIN replies[c] : replies'[c][i] = replies[c][j]
         \/ Told(c, replies'[c][i])
<1> USE DEF Base
<1>1. ReplyStep(c) /\ replies[c] \in Seq(Replies)
  BY RepliesStep DEF ReplySteps, TypeOK
<1>2. CASE replies'[c] = replies[c]
  BY <1>2
<1>3. CASE replies'[c] = <<>>
  BY <1>3
<1>4. CASE replies[c] # <<>> /\ replies'[c] = Tail(replies[c])
  <2>1. i \in DOMAIN Tail(replies[c])
    BY <1>4
  <2>2. i + 1 \in DOMAIN replies[c] /\ Tail(replies[c])[i] = replies[c][i + 1]
    BY <1>1, <1>4, <2>1, TailIs
  <2> QED
    BY <1>4, <2>2
<1>5. ASSUME NEW r, Told(c, r), replies'[c] = Append(replies[c], r)
      PROVE  (\E j \in DOMAIN replies[c] : replies'[c][i] = replies[c][j]) \/ Told(c, replies'[c][i])
  <2>1. r \in Replies
    BY <1>5 DEF Told
  <2>2. i \in DOMAIN Append(replies[c], r)
    BY <1>5
  <2>3. (i \in DOMAIN replies[c] /\ Append(replies[c], r)[i] = replies[c][i]) \/ Append(replies[c], r)[i] = r
    BY <1>1, <2>1, <2>2, AppendIs
  <2> QED
    BY <1>5, <2>3
<1> QED
  BY <1>1, <1>2, <1>3, <1>4, <1>5 DEF ReplyStep

\* Nothing refers to a new connection.
LEMMA NewBlank ==
  ASSUME Base, [Next]_vars, NEW c \in Contexts, Connect(HostOf[c]), epoch'[HostOf[c]] = epoch[HostOf[c]] + 1,
         epoch[HostOf[c]] \in Nat, (Epoch(c))' = epoch'[HostOf[c]], (Key(c))' = <<c, epoch'[HostOf[c]]>>
  PROVE  Blank(c)'
<1> USE DEF Base
<1> DEFINE p == HostOf[c]
           e == epoch[p] + 1
<1>1. /\ (Epoch(c))' = e /\ UNCHANGED replies /\ UNCHANGED doc /\ UNCHANGED layouts /\ UNCHANGED mail
      /\ UNCHANGED click /\ p \in Processes /\ (Key(c))' = <<c, e>>
  BY SessionAssumption DEF Connect
<1>2. \A n \in Nat : n <= epoch[p] => n # e
  OBVIOUS
<1> HIDE DEF e
<1>3. \A i \in DOMAIN replies[c] : replies[c][i].epoch # e
  <2>1. ASSUME NEW i \in DOMAIN replies[c] PROVE replies[c][i].epoch # e
    <3>1. replies[c] \in Seq(Replies)
      BY DEF TypeOK
    <3>2. replies[c][i] \in Replies
      BY <3>1
    <3>3. replies[c][i].epoch \in Nat
      BY <3>2 DEF Replies
    <3>4. replies[c][i].epoch <= epoch[p]
      BY DEF NothingFromTheFuture
    <3> QED
      BY <1>2, <3>3, <3>4
  <2> QED
    BY <2>1
<1>4. doc[c].epoch # e
  BY <1>2 DEF NothingFromTheFuture, TypeOK, Docs
<1>5. layouts[c] # None => layouts[c].epoch # e
  BY <1>2 DEF MeasuresInv, TypeOK, Measures
<1>6. MailOf(c) # None => MailOf(c).epoch # e
  <2>1. ASSUME MailOf(c) # None PROVE MailOf(c).epoch # e
    <3>1. MailOf(c) \in Measures /\ mail[p] # None /\ MailOf(c) = mail[p].layout
      BY <2>1, MailIs
    <3>2. MailOf(c).epoch <= epoch[p]
      BY <1>1, <3>1 DEF MeasuresInv
    <3>3. MailOf(c).epoch \in Nat
      BY <3>1 DEF Measures
    <3> QED
      BY <1>2, <3>2, <3>3
  <2> QED
    BY <2>1
<1>7. click # None => click.key # <<c, e>>
  <2>1. ASSUME click # None, click.key = <<c, e>> PROVE FALSE
    <3>1. click.key[1] = c /\ click.key[2] = e /\ click.key[2] <= epoch[p] /\ click.key \in Keys
      BY <2>1 DEF ClickInv
    <3>2. e \in Nat
      BY DEF e
    <3> QED
      BY <1>2, <3>1, <3>2
  <2> QED
    BY <2>1
<1>8. (MailOf(c))' = MailOf(c)
  BY <1>1 DEF MailOf
<1> QED
  BY <1>1, <1>3, <1>4, <1>5, <1>6, <1>7, <1>8 DEF Blank, OfConn

\* Nothing comes to refer to a session that is not.
LEMMA BlankStays ==
  ASSUME Base, ShownInv, [Next]_vars, NEW c \in Contexts, Epoch(c) # 0, UNCHANGED Epoch(c), UNCHANGED Key(c),
         ~Exists(Key(c)), Blank(c)
  PROVE  Blank(c)'
<1> USE DEF Base
<1>1. \A i \in DOMAIN replies'[c] : replies'[c][i].epoch # Epoch(c)
  <2>1. ASSUME NEW i \in DOMAIN replies'[c] PROVE replies'[c][i].epoch # Epoch(c)
    <3>1. \E j \in DOMAIN replies[c] : replies'[c][i] = replies[c][j]
      BY ReplyFollows DEF Told
    <3> QED
      BY <3>1 DEF Blank
  <2> QED
    BY <2>1
<1>2. doc'[c].comp # 0 => doc'[c].epoch # Epoch(c)
  <2>1. Changes(c, doc'[c])
    BY DocSteps
  <2>2. replies[c] # <<>> => Head(replies[c]).epoch # Epoch(c)
    <3>1. replies[c] \in Seq(Replies)
      BY DEF TypeOK
    <3>2. replies[c] # <<>> => 1 \in DOMAIN replies[c] /\ Head(replies[c]) = replies[c][1]
      BY <3>1, TailIs
    <3> QED
      BY <3>2 DEF Blank
  <2>3. CASE doc'[c].comp = 0
    BY <2>3
  <2>4. CASE doc'[c].comp = doc[c].comp /\ doc'[c].epoch = doc[c].epoch
    BY <2>4 DEF Blank
  <2> QED
    BY <2>1, <2>2, <2>3, <2>4 DEF Changes
<1>3. ~OfConn((MailOf(c))', c)
  <2>1. CASE (MailOf(c))' \in {MailOf(c), None}
    BY <2>1 DEF OfConn, Blank
  <2>2. CASE Taken(c, (MailOf(c))')
    BY <2>2 DEF Taken, OfConn, Blank
  <2> QED
    BY <2>1, <2>2, MailFollows
<1>4. ~OfConn(layouts'[c], c)
  BY LayoutFollows DEF OfConn, Blank
<1>5. click' = None \/ click'.key # Key(c)
  BY ClickSteps, ClickIs DEF Blank
<1> QED
  BY <1>1, <1>2, <1>3, <1>4, <1>5 DEF Blank, OfConn

\* A context that is removed gets no more commands.
LEMMA OverStays ==
  ASSUME Base, [Next]_vars, NEW c \in Contexts, Over(c)
  PROVE  Over(c)'
<1> USE DEF Base
<1> DEFINE p == HostOf[c]
           q == todo[p]
           Without(b) == \A i \in DOMAIN b : b[i].c # c
<1>1. p \in Processes
  BY SessionAssumption
<1>2. QueueStep(p) /\ q \in Seq(Commands) /\ ~doc[c].alive /\ ~doc'[c].alive /\ Without(q)
  BY <1>1, QueuesStep, DocSteps DEF QueueSteps, TypeOK, Over, Changes
<1>3. ASSUME NEW b \in Seq(Commands), Without(b), NEW m, NEW f, NEW g, Sends(p, m, f, g)
      PROVE  Without(Append(b, m))
  <2>1. m \in Commands /\ m.c # c
    BY <1>2, <1>3 DEF Sends
  <2> QED
    BY <1>3, <2>1, AppendIs
<1>4. CASE todo'[p] = q
  BY <1>2, <1>4 DEF Over
<1>5. CASE q # <<>> /\ todo'[p] = Tail(q)
  <2>1. Without(Tail(q))
    BY <1>2, <1>5, TailIs
  <2> QED
    BY <1>2, <1>5, <2>1 DEF Over
<1>6. ASSUME NEW m, Sends(p, m, focus[p], focus'[p]), todo'[p] = Append(q, m)
      PROVE  Over(c)'
  <2>1. Without(Append(q, m))
    BY <1>2, <1>3, <1>6
  <2> QED
    BY <1>2, <1>6, <2>1 DEF Over
<1>7. ASSUME NEW m, NEW n, NEW f, Sends(p, m, focus[p], f), Sends(p, n, f, focus'[p]),
             todo'[p] = Append(Append(q, m), n)
      PROVE  Over(c)'
  <2>1. m \in Commands
    BY <1>7 DEF Sends
  <2>2. PICK r \in Seq(Commands) : r = Append(q, m)
    BY <1>2, <2>1, AppendIs
  <2>3. Without(r)
    BY <1>2, <1>3, <1>7, <2>2
  <2>4. Without(Append(r, n))
    BY <1>3, <1>7, <2>3
  <2> QED
    BY <1>2, <1>7, <2>2, <2>4 DEF Over
<1> QED
  BY <1>2, <1>4, <1>5, <1>6, <1>7 DEF QueueStep

\* With a removal the context's queue ends.
LEMMA DestroyEnds ==
  ASSUME Base, NEW c \in Contexts, Destroy(c)
  PROVE  Over(c)'
<1> USE DEF Base
<1> DEFINE p == HostOf[c]
           q == todo[p]
<1>1. Serves(c) /\ UNCHANGED doc /\ Command1(c).kind = "destroy" /\ todo' = [todo EXCEPT ![p] = Tail(@)]
  BY DEF Destroy, Observed, Served
<1>2. /\ Command1(c).c = c /\ q \in Seq(Commands) /\ q # <<>> /\ p \in Processes
      /\ Head(q) = Command1(c) /\ 1 \in DOMAIN q /\ Head(q) = q[1]
  BY <1>1, CommandServed, TailIs DEF Command1
<1>3. Ordered(q, p, doc) /\ todo'[p] = Tail(q)
  BY <1>1, <1>2 DEF QueueInv, TypeOK
<1>4. ~doc[c].alive
  BY <1>1, <1>2, <1>3 DEF Ordered
<1>5. \A i \in DOMAIN Tail(q) : Tail(q)[i].c # c
  BY <1>1, <1>2, <1>3, OrderedTail
<1> QED
  BY <1>1, <1>3, <1>4, <1>5 DEF Over

LEMMA FreshStays ==
  ASSUME Base, ShownInv, FreshInv, [Next]_vars
  PROVE  FreshInv'
<1> USE DEF Base
<1>1. SUFFICES ASSUME NEW c \in Contexts, (Epoch(c))' # 0, sess'[(Key(c))'] = None
               PROVE  Over(c)' \/ Blank(c)'
  BY DEF FreshInv, Exists
<1>2. CASE Connect(HostOf[c]) /\ epoch'[HostOf[c]] = epoch[HostOf[c]] + 1 /\ epoch[HostOf[c]] \in Nat
  BY <1>1, <1>2, Connected, NewBlank
<1>3. CASE /\ up[HostOf[c]] /\ UNCHANGED Epoch(c) /\ UNCHANGED Key(c) /\ Key(c) \in Keys
           /\ Epoch(c) # 0 /\ Alive(Key(c))
  <2>1. CASE ~Exists(Key(c))
    BY <1>3, <2>1, BlankStays, OverStays DEF FreshInv
  <2>2. CASE Exists(Key(c))
    <3>1. PICK d \in Contexts : Destroy(d) /\ Key(c) = Key(d)
      BY <1>1, <1>3, <2>2, Closing DEF Closes
    <3>2. up[HostOf[d]]
      BY <3>1, CommandServed DEF Destroy, Observed
    <3>3. d = c
      BY <1>3, <3>1, <3>2, KeyIs
    <3> QED
      BY <3>1, <3>3, DestroyEnds
  <2> QED
    BY <2>1, <2>2
<1> QED
  BY <1>1, <1>2, <1>3, Connected

-----------------------------------------------------------------------------
\* What a session hears of is its own.

\* A measure that is not of the composition that waits is too old for it, and stays so.
LEMMA AgreesOn ==
  ASSUME Base, [Next]_vars, NEW k \in Keys, Exists(k), sess'[k] # None,
         NEW rev \in Nat, NEW born, Agrees(sess[k], rev, born)
  PROVE  Agrees(sess'[k], rev, born)
<1> USE DEF Base
<1>1. SessionStep(k) /\ sess[k] \in Sessions /\ Sound(sess[k])
  BY SessionsStep, SessionIs DEF SessionSteps, SoundInv
<1>2. CASE sess'[k] = sess[k]
  BY <1>2
<1>3. CASE Revised(k)
  <2>1. Follows(sess[k], sess'[k]) /\ sess[k].rev \in Nat /\ sess[k].waiting \in Nat
    BY <1>1, <1>3 DEF Revised, Sessions
  <2>2. rev <= sess'[k].rev /\ ~(rev >= sess'[k].rev)
    BY <2>1 DEF Follows, Agrees
  <2> QED
    BY <2>1, <2>2 DEF Follows, Agrees
<1>4. CASE Measured(k)
  <2>1. k[1] \in Contexts /\ layouts[k[1]] # None /\ sess'[k] = Placed(sess[k], layouts[k[1]])
    BY <1>4, KeysAre DEF Measured, HasLayout
  <2>2. layouts[k[1]] \in Measures
    BY <2>1 DEF TypeOK
  <2>3. /\ sess'[k].rev = sess[k].rev /\ sess'[k].last = sess[k].last
        /\ sess'[k].waiting \in {0, sess[k].waiting}
    BY <1>1, <2>1, <2>2, PlacedIs
  <2> QED
    BY <2>3 DEF Agrees
<1>5. CASE Informed(k)
  <2>1. /\ sess'[k].rev = sess[k].rev /\ sess'[k].last = sess[k].last
        /\ sess'[k].waiting = sess[k].waiting
    BY <1>1, <1>5, IndicatedIs DEF Informed
  <2> QED
    BY <2>1 DEF Agrees
<1> QED
  BY <1>1, <1>2, <1>3, <1>4, <1>5 DEF SessionStep, Closes, Opened

\* The measures and replies of a context, each with its own session if that is the one it is of.
OwnOf(c, s, e) ==
  /\ \A i \in DOMAIN replies[c] : replies[c][i].epoch = e => Agrees(s, replies[c][i].rev, replies[c][i].born)
  /\ doc[c].comp # 0 /\ doc[c].epoch = e => Agrees(s, doc[c].applied, doc[c].comp)
  /\ OfConn(layouts[c], c) /\ layouts[c].tag = 0 => Agrees(s, layouts[c].rev, layouts[c].anchor)
  /\ OfConn(MailOf(c), c) /\ MailOf(c).tag = 0 => Agrees(s, MailOf(c).rev, MailOf(c).anchor)

LEMMA OwnKeeps ==
  ASSUME Base, OwnInv, [Next]_vars, NEW c \in Contexts, up[HostOf[c]], UNCHANGED Epoch(c), UNCHANGED Key(c),
         Exists(Key(c)), sess'[Key(c)] # None
  PROVE  /\ \A i \in DOMAIN replies'[c] : replies'[c][i].epoch = Epoch(c) =>
              Agrees(sess'[Key(c)], replies'[c][i].rev, replies'[c][i].born)
         /\ doc'[c].comp # 0 /\ doc'[c].epoch = Epoch(c) => Agrees(sess'[Key(c)], doc'[c].applied, doc'[c].comp)
         /\ OfConn(layouts'[c], c) /\ layouts'[c].tag = 0 =>
              Agrees(sess'[Key(c)], layouts'[c].rev, layouts'[c].anchor)
         /\ OfConn((MailOf(c))', c) /\ (MailOf(c))'.tag = 0 =>
              Agrees(sess'[Key(c)], (MailOf(c))'.rev, (MailOf(c))'.anchor)
<1> USE DEF Base
<1> DEFINE k == Key(c)
           s == sess[k]
           t == sess'[k]
<1>1. k \in Keys /\ Epoch(c) # 0 /\ s \in Sessions /\ t \in Sessions /\ t.rev \in Nat /\ doc[c] \in Docs
  BY KeyIs, SessionIs, SessionFollows DEF Sessions, TypeOK
<1>2. /\ \A i \in DOMAIN replies[c] :
           replies[c][i].epoch = Epoch(c) => Agrees(s, replies[c][i].rev, replies[c][i].born)
      /\ doc[c].comp # 0 /\ doc[c].epoch = Epoch(c) => Agrees(s, doc[c].applied, doc[c].comp)
      /\ OfConn(layouts[c], c) /\ layouts[c].tag = 0 => Agrees(s, layouts[c].rev, layouts[c].anchor)
      /\ OfConn(MailOf(c), c) /\ MailOf(c).tag = 0 => Agrees(s, MailOf(c).rev, MailOf(c).anchor)
  BY <1>1 DEF OwnInv
<1>3. \A rev \in Nat : \A born : Agrees(s, rev, born) => Agrees(t, rev, born)
  BY <1>1, AgreesOn
<1>4. replies[c] \in Seq(Replies) /\ \A i \in DOMAIN replies[c] : replies[c][i].rev \in Nat
  <2>1. replies[c] \in Seq(Replies)
    BY DEF TypeOK
  <2>2. ASSUME NEW i \in DOMAIN replies[c] PROVE replies[c][i].rev \in Nat
    <3>1. replies[c][i] \in Replies
      BY <2>1
    <3> QED
      BY <3>1 DEF Replies
  <2> QED
    BY <2>1, <2>2
<1> HIDE DEF k, s, t
<1>5. ASSUME NEW i \in DOMAIN replies'[c], replies'[c][i].epoch = Epoch(c)
      PROVE  Agrees(t, replies'[c][i].rev, replies'[c][i].born)
  <2>1. CASE \E j \in DOMAIN replies[c] : replies'[c][i] = replies[c][j]
    BY <1>2, <1>3, <1>4, <1>5, <2>1
  <2>2. CASE Told(c, replies'[c][i])
    <3>1. replies'[c][i].rev = t.rev /\ replies'[c][i].born \in {0, t.last.born}
      BY <2>2 DEF Told, t, k
    <3> QED
      BY <1>1, <3>1 DEF Agrees
  <2> QED
    BY <2>1, <2>2, ReplyFollows
<1>6. ASSUME doc'[c].comp # 0, doc'[c].epoch = Epoch(c) PROVE Agrees(t, doc'[c].applied, doc'[c].comp)
  <2>1. CASE doc'[c].comp = doc[c].comp /\ doc'[c].epoch = doc[c].epoch /\ doc'[c].applied = doc[c].applied
    BY <1>1, <1>2, <1>3, <1>6, <2>1 DEF Docs
  <2>2. CASE /\ replies[c] # <<>> /\ Head(replies[c]).epoch = Epoch(c)
             /\ doc'[c].comp = Head(replies[c]).born
             /\ doc'[c].applied \in {0, Head(replies[c]).rev}
    <3>1. 1 \in DOMAIN replies[c] /\ Head(replies[c]) = replies[c][1]
      BY <1>4, <2>2, TailIs
    <3>2. Agrees(t, Head(replies[c]).rev, doc'[c].comp)
      BY <1>2, <1>3, <1>4, <2>2, <3>1
    <3>3. 0 <= t.rev /\ t.waiting \in Nat
      BY <1>1 DEF Sessions
    <3>4. Agrees(t, 0, doc'[c].comp)
      BY <3>3 DEF Agrees
    <3> QED
      BY <2>2, <3>2, <3>4
  <2> QED
    BY <1>6, <2>1, <2>2, DocSteps DEF Changes
<1>7. ASSUME OfConn(layouts'[c], c), layouts'[c].tag = 0
      PROVE  Agrees(t, layouts'[c].rev, layouts'[c].anchor)
  <2>1. CASE layouts'[c] = layouts[c]
    <3>1. layouts[c].rev \in Nat
      BY <1>7, <2>1 DEF OfConn, TypeOK, Measures
    <3> QED
      BY <1>2, <1>3, <1>7, <2>1, <3>1
  <2>2. CASE layouts'[c] = MailOf(c) /\ UNCHANGED sess
    BY <1>2, <1>7, <2>2 DEF s, t
  <2> QED
    BY <1>7, <2>1, <2>2, LayoutFollows DEF OfConn
<1>8. ASSUME OfConn((MailOf(c))', c), (MailOf(c))'.tag = 0
      PROVE  Agrees(t, (MailOf(c))'.rev, (MailOf(c))'.anchor)
  <2>1. CASE (MailOf(c))' = MailOf(c)
    <3>1. MailOf(c).rev \in Nat
      BY <1>8, <2>1, MailIs DEF OfConn, Measures
    <3> QED
      BY <1>2, <1>3, <1>8, <2>1, <3>1
  <2>2. CASE Taken(c, (MailOf(c))') /\ UNCHANGED sess
    <3>1. /\ doc[c].comp # 0 /\ doc[c].epoch = Epoch(c) /\ (MailOf(c))'.rev = doc[c].applied
          /\ (MailOf(c))'.anchor \in {doc[c].comp, 0}
      BY <1>8, <2>2 DEF Taken, OfConn
    <3>2. Agrees(t, doc[c].applied, doc[c].comp) /\ Agrees(t, doc[c].applied, 0)
      BY <1>2, <2>2, <3>1 DEF Agrees, s, t
    <3> QED
      BY <3>1, <3>2
  <2> QED
    BY <1>8, <2>1, <2>2, MailFollows DEF OfConn
<1> QED
  BY <1>5, <1>6, <1>7, <1>8 DEF k, t

LEMMA OwnStays ==
  ASSUME Base, FreshInv, OwnInv, [Next]_vars
  PROVE  OwnInv'
<1> USE DEF Base
<1>1. SUFFICES ASSUME NEW c \in Contexts, (Epoch(c))' # 0, sess'[(Key(c))'] # None
               PROVE  (OwnOf(c, sess[Key(c)], Epoch(c)))'
  BY DEF OwnInv, Exists, OwnOf
<1>2. /\ up[HostOf[c]] /\ UNCHANGED Epoch(c) /\ UNCHANGED Key(c) /\ Key(c) \in Keys /\ Epoch(c) # 0
      /\ sess'[Key(c)] # None
  BY <1>1, Connected
<1>3. CASE Exists(Key(c))
  BY <1>1, <1>2, <1>3, OwnKeeps DEF OwnOf, OfConn
<1>4. CASE ~Exists(Key(c))
  <2>1. Opened(Key(c))
    <3>1. SessionStep(Key(c))
      BY <1>2, SessionsStep DEF SessionSteps
    <3> QED
      BY <1>2, <1>4, <3>1 DEF SessionStep, Closes, Revised, Measured, Informed, Exists
  <2>2. Key(c)[1] = c
    BY <1>2, KeyIs
  <2>3. Blank(c) /\ Open(c)
    BY <1>2, <2>1, <2>2, Opening
  <2>4. UNCHANGED replies /\ UNCHANGED doc /\ UNCHANGED layouts /\ UNCHANGED mail
    BY <2>3 DEF Open, host
  <2> QED
    BY <1>2, <2>3, <2>4 DEF OwnOf, Blank, OfConn, MailOf
<1> QED
  BY <1>3, <1>4

-----------------------------------------------------------------------------
\* The admission's view of a connection.

\* The view i says of the sessions ks what s says of them.
Says(i, ks, s) ==
  /\ i.focused <=> \E k \in ks : s[k].focused
  /\ i.composing <=> \E k \in ks : s[k].last.born # 0
\* No session of the connection has the focus or composes.
Quiet(i) == ~i.focused /\ ~i.composing

LEMMA StateSays ==
  ASSUME NEW ks, NEW s, \A k \in ks : s[k] = sess[k]
  PROVE  Says(State(ks), ks, s) /\ (ks = {} => Quiet(State(ks)))
BY DEF State, Says, Quiet

\* What a step makes of the connection's view: nothing, unless the connection is new or a session ends.
Still(p) == /\ input'[p] = input[p] /\ up[p] /\ epoch'[p] = epoch[p]
            /\ at' = "loop" => at = "loop" /\ UNCHANGED sess
InputStep(p) ==
  \/ Still(p)
  \/ /\ Connect(p) /\ Host /\ epoch'[p] = epoch[p] + 1
     /\ input'[p] = [focused |-> FALSE, composing |-> FALSE]
  \/ \E c \in Contexts : Destroy(c) /\ HostOf[c] = p
  \/ IdleRetain

LEMMA InputSteps ==
  ASSUME Base, [Next]_vars, NEW p \in Processes, up'[p]
  PROVE  InputStep(p)
<1> USE DEF Base
<1>1. Connecting(p)
  BY ConnectionsStay DEF ConnectedStays
<1>2. CASE Host
  <2>1. UNCHANGED sess /\ UNCHANGED at
    BY <1>2, HostKeeps
  <2>2. CASE ~up[p] /\ epoch'[p] = epoch[p] + 1 /\ Connect(p)
    <3>1. epoch' # epoch
      <4>1. epoch[p] \in Nat
        BY DEF TypeOK
      <4> QED
        BY <2>2, <4>1
    <3>2. input'[p] = [focused |-> FALSE, composing |-> FALSE]
      BY <2>2, <3>1 DEF Connect, TypeOK
    <3> QED
      BY <1>2, <2>2, <3>2 DEF InputStep
  <2>3. CASE up[p] /\ epoch'[p] = epoch[p]
    <3>1. ASSUME NEW x \in Processes, Connect(x) PROVE input'[p] = input[p]
      <4>1. x # p
        BY <2>3, <3>1 DEF Connect
      <4> QED
        BY <3>1, <4>1 DEF Connect, TypeOK
    <3>2. ASSUME ~\E x \in Processes : Connect(x) PROVE UNCHANGED input
      BY <1>2, <3>2 DEF Host, Type, Remove, Drain, Cleanup, LayoutChange, Measure, Act, Send, Return,
        MoveFocus, Lose, engine
    <3> QED
      BY <2>1, <2>3, <3>1, <3>2 DEF InputStep, Still
  <2>4. CASE ~up[p] /\ up'[p] = up[p]
    BY <2>4
  <2> QED
    BY <1>1, <2>2, <2>3, <2>4 DEF Connecting
<1>3. CASE Engine
  <2>1. up[p] /\ epoch'[p] = epoch[p]
    BY <1>3, EngineKeeps
  <2>2. ASSUME NEW c \in Contexts, Destroy(c) PROVE InputStep(p)
    <3>1. CASE HostOf[c] = p
      BY <2>2, <3>1 DEF InputStep
    <3>2. CASE HostOf[c] # p
      <4>1. input'[p] = input[p] /\ at' = "inline"
        BY <2>2, <3>2 DEF Destroy, TypeOK
      <4> QED
        BY <2>1, <4>1 DEF InputStep, Still
    <3> QED
      BY <3>1, <3>2
  <2>3. ASSUME NEW c \in Contexts, Open(c) \/ KeyEvent(c) \/ ContextCommand(c) \/ SetAscii(c)
        PROVE  InputStep(p)
    <3>1. UNCHANGED input /\ at' = "inline"
      BY <2>3 DEF Open, KeyEvent, ContextCommand, Commanded, SetAscii
    <3> QED
      BY <2>1, <3>1 DEF InputStep, Still
  <2>4. ASSUME NEW c \in Contexts, Refuse(c) PROVE InputStep(p)
    <3>1. UNCHANGED input /\ UNCHANGED at /\ UNCHANGED sess
      BY <2>4 DEF Refuse, engine
    <3> QED
      BY <2>1, <3>1 DEF InputStep, Still
  <2>5. CASE Event \/ IdleInline \/ IdleLayout \/ Wake
    <3>1. UNCHANGED input /\ at' # "loop"
      BY <2>5 DEF Event, IdleInline, IdleLayout, Wake
    <3> QED
      BY <2>1, <3>1 DEF InputStep, Still
  <2>6. CASE IdleRetain
    BY <2>6 DEF InputStep
  <2> QED
    BY <1>3, <2>2, <2>3, <2>4, <2>5, <2>6 DEF Engine
<1>4. CASE Click \/ Capability \/ UNCHANGED vars
  <2>1. UNCHANGED input /\ UNCHANGED up /\ UNCHANGED epoch /\ UNCHANGED at /\ UNCHANGED sess
    BY <1>4 DEF Click, Capability, vars, engine, host
  <2> QED
    BY <2>1 DEF InputStep, Still
<1> QED
  BY <1>2, <1>3, <1>4 DEF Next

\* The sessions of a connection after a step.
OwnNext(p) == {k \in Keys : sess'[k] # None /\ up'[HostOf[k[1]]] /\ epoch'[HostOf[k[1]]] = k[2] /\ HostOf[k[1]] = p}

LEMMA InputStays ==
  ASSUME Base, InputInv, [Next]_vars
  PROVE  InputInv'
<1> USE DEF Base
<1>1. SUFFICES ASSUME NEW p \in Processes, up'[p]
               PROVE  /\ OwnNext(p) = {} => Quiet(input'[p])
                      /\ at' = "loop" => Says(input'[p], OwnNext(p), sess')
  BY DEF InputInv, Own, OwnNext, Quiet, Says, Exists, Alive
<1>2. \A k \in Keys : k[1] \in Contexts /\ HostOf[k[1]] \in Processes /\ k[2] \in Nat
  BY KeysAre
<1>3. CASE /\ Connect(p) /\ Host /\ epoch'[p] = epoch[p] + 1
           /\ input'[p] = [focused |-> FALSE, composing |-> FALSE]
  <2>1. OwnNext(p) = {}
    <3>1. ASSUME NEW k \in OwnNext(p) PROVE FALSE
      <4>1. k \in Keys /\ Exists(k) /\ HostOf[k[1]] = p /\ k[2] = epoch[p] + 1
        BY <1>3, <3>1, HostKeeps DEF OwnNext, Exists
      <4>2. k[2] <= epoch[p] /\ epoch[p] \in Nat
        BY <4>1 DEF NothingFromTheFuture, TypeOK
      <4> QED
        BY <4>1, <4>2
    <3> QED
      BY <3>1
  <2>2. Quiet(input'[p])
    BY <1>3 DEF Quiet
  <2> QED
    BY <2>1, <2>2 DEF Says, Quiet
<1>4. CASE Still(p) /\ ~IdleRetain /\ ~\E c \in Contexts : Destroy(c) /\ HostOf[c] = p
  <2>1. ASSUME NEW k \in Own(p) PROVE k \in OwnNext(p)
    <3>1. k \in Keys /\ Exists(k) /\ Alive(k) /\ HostOf[k[1]] = p /\ k[2] = epoch'[p]
      BY <1>4, <2>1 DEF Own, Alive, Still
    <3>2. ~Closes(k)
      <4>1. ASSUME NEW c \in Contexts, Destroy(c), k = Key(c) PROVE FALSE
        <5>1. up[HostOf[c]]
          BY <4>1, CommandServed DEF Destroy, Observed
        <5>2. k[1] = c
          BY <4>1, <5>1, KeyIs
        <5> QED
          BY <1>4, <3>1, <4>1, <5>2
      <4> QED
        BY <3>1, <4>1 DEF Closes
    <3>3. sess'[k] # None
      BY <3>1, <3>2, Closing
    <3> QED
      BY <1>1, <3>1, <3>3 DEF OwnNext
  <2>2. OwnNext(p) = {} => Quiet(input'[p])
    BY <1>4, <2>1 DEF InputInv, Quiet, Still
  <2>3. ASSUME at' = "loop" PROVE Says(input'[p], OwnNext(p), sess')
    <3>1. OwnNext(p) = Own(p)
      BY <1>1, <1>4, <2>3 DEF OwnNext, Own, Still, Exists, Alive
    <3> QED
      BY <1>4, <2>3, <3>1 DEF InputInv, Says, Still
  <2> QED
    BY <2>2, <2>3
<1>5. ASSUME NEW c \in Contexts, Destroy(c), HostOf[c] = p
      PROVE  OwnNext(p) = {} => Quiet(input'[p])
  <2> DEFINE k == Key(c)
             ks == {l \in Keys : l # k /\ Exists(l) /\ Shares(l, k)}
  <2>1. /\ input' = [input EXCEPT ![p] = State(ks)] /\ sess' = [sess EXCEPT ![k] = None] /\ Serves(c)
        /\ UNCHANGED up /\ UNCHANGED epoch
    BY <1>5 DEF Destroy, Observed
  <2>2. k[1] = c /\ k[2] = epoch[p]
    BY <1>1, <1>5, <2>1, KeyIs
  <2>3. input'[p] = State(ks)
    BY <2>1 DEF TypeOK
  <2>4. ks = OwnNext(p)
    <3>1. \A l \in Keys : l # k => sess'[l] = sess[l]
      BY <2>1 DEF TypeOK
    <3>2. sess'[k] = None \/ k \notin Keys
      BY <2>1 DEF TypeOK
    <3> QED
      BY <1>1, <1>5, <2>1, <2>2, <3>1, <3>2 DEF OwnNext, Shares, Exists
  <2> QED
    BY <2>3, <2>4, StateSays
<1>6. CASE IdleRetain
  <2> DEFINE kept == {k \in Keys : Exists(k) /\ Alive(k)}
             of == {k \in kept : HostOf[k[1]] = p}
  <2>1. /\ input'[p] = IF of = {} THEN input[p] ELSE State(of)
        /\ sess' = [k \in Keys |-> IF k \in kept THEN sess[k] ELSE None]
        /\ UNCHANGED up /\ UNCHANGED epoch
    BY <1>6 DEF IdleRetain, host
  <2>2. of = Own(p)
    BY DEF Own
  <2>3. OwnNext(p) = Own(p)
    BY <2>1 DEF OwnNext, Own, Exists, Alive
  <2>4. \A k \in Own(p) : sess'[k] = sess[k]
    BY <2>1 DEF Own
  <2> HIDE DEF of
  <2>5. CASE Own(p) = {}
    <3>1. Quiet(input'[p])
      BY <1>1, <2>1, <2>2, <2>5 DEF InputInv, Quiet
    <3> QED
      BY <2>3, <2>5, <3>1 DEF Says, Quiet
  <2>6. CASE Own(p) # {}
    <3>1. input'[p] = State(Own(p))
      BY <2>1, <2>2, <2>6
    <3> QED
      BY <2>3, <2>4, <2>6, <3>1, StateSays
  <2> QED
    BY <2>5, <2>6
<1>7. ASSUME NEW c \in Contexts, Destroy(c) PROVE at' # "loop"
  BY <1>7 DEF Destroy
<1> QED
  BY <1>1, <1>3, <1>4, <1>5, <1>6, <1>7, InputSteps DEF InputStep

-----------------------------------------------------------------------------
\* The invariant.

\* What every state has, and every step keeps.
IInv == Base /\ ShownInv /\ NothingIsStale /\ FreshInv /\ OwnInv /\ InputInv

LEMMA InitTypes == Init => TypeOK
<1> SUFFICES ASSUME Init PROVE TypeOK
  OBVIOUS
<1>1. Fresh(0, "native") \in Sessions
  BY FreshIs DEF Modes
<1>2. Hidden(NoKey, Fresh(0, "native")) \in Snapshots
  BY <1>1, SnapshotIs
<1>3. 0 \in 0 .. MaxMoves /\ 0 \in 0 .. MaxEpoch
  BY SessionAssumption
<1>4. <<>> \in Seq(Commands) /\ <<>> \in Seq(Replies)
  OBVIOUS
<1>5. [focused |-> FALSE, composing |-> FALSE] \in [focused : BOOLEAN, composing : BOOLEAN]
  OBVIOUS
<1>6. "native" \in Modes
  BY DEF Modes
<1> QED
  BY <1>2, <1>3, <1>4, <1>5, <1>6, NoDocIsDoc DEF Init, TypeOK

LEMMA InitInv == Init => IInv
<1> SUFFICES ASSUME Init PROVE IInv
  OBVIOUS
<1>1. TypeOK
  BY InitTypes
<1>2. /\ \A p \in Processes : ~up[p] /\ focus[p] = None /\ todo[p] = <<>> /\ mail[p] = None /\ epoch[p] = 0
      /\ \A c \in Contexts : doc[c] = NoDoc /\ replies[c] = <<>> /\ layouts[c] = None
                             /\ HostOf[c] \in Processes
      /\ \A k \in Keys : sess[k] = None
      /\ click = None /\ active = NoKey /\ births = 0
  BY SessionAssumption DEF Init
<1>3. /\ NoDoc.alive /\ NoDoc.comp = 0 /\ NoDoc.epoch = 0 /\ NoDoc.probe = NoProbe /\ NoDoc.retry = NoProbe
      /\ NoProbe.for = "nothing"
  BY DEF NoDoc, NoProbe
<1>4. FocusInv
  BY <1>2 DEF FocusInv
<1>5. SoundInv /\ NothingFromTheFuture /\ BirthsInv
  BY <1>2, <1>3 DEF SoundInv, NothingFromTheFuture, BirthsInv, Exists
<1>6. \A c \in Contexts : Epoch(c) = 0
  BY <1>2 DEF Epoch
<1>7. PendingInv /\ NothingIsStale /\ FreshInv /\ OwnInv
  BY <1>6 DEF PendingInv, NothingIsStale, FreshInv, OwnInv
<1>8. \A p \in Processes : Ordered(<<>>, p, doc)
  BY DEF Ordered
<1>9. \A c \in Contexts : Refocus(<<>>, c) /\ Left(<<>>, c)
  BY DEF Refocus, Left
<1>10. QueueInv /\ BlurInv
  BY <1>2, <1>8, <1>9 DEF QueueInv, BlurInv
<1>11. ClickInv /\ MeasuresInv
  BY <1>2 DEF ClickInv, MeasuresInv
<1>12. ProbeInv
  BY <1>2, <1>3 DEF ProbeInv, ProbeFits
<1>13. InputInv
  BY <1>2 DEF InputInv
<1>14. ShownInv
  <2>1. PICK s : s = Fresh(0, "native")
    OBVIOUS
  <2>2. s \in Sessions
    BY <2>1, FreshIs DEF Modes
  <2>3. shown = Hidden(NoKey, s)
    BY <2>1 DEF Init
  <2>4. ~shown.on /\ ~shown.visible /\ shown.tag.tag = 0
    BY <2>2, <2>3, SnapshotIs
  <2> QED
    BY <1>2, <2>4 DEF ShownInv, View
<1> QED
  BY <1>1, <1>4, <1>5, <1>7, <1>10, <1>11, <1>12, <1>13, <1>14 DEF IInv, Base

LEMMA NextInv == IInv /\ [Next]_vars => IInv'
<1> SUFFICES ASSUME IInv, [Next]_vars PROVE IInv'
  OBVIOUS
<1>1. Base /\ ShownInv /\ NothingIsStale /\ FreshInv /\ OwnInv /\ InputInv
  BY DEF IInv
<1>2. TypeOK /\ FocusInv /\ QueueInv /\ BlurInv
  BY <1>1 DEF Base
<1>3. TypeOK'
  BY <1>1, TypesStay
<1>4. FocusInv'
  BY <1>2, ConnectionsStay, FocusStays
<1>5. SoundInv' /\ NothingFromTheFuture' /\ BirthsInv' /\ PendingInv' /\ ProbeInv' /\ MeasuresInv'
  BY <1>1, SoundStays, FutureStays, PendingStays, ProbesStay, MeasuresStay
<1>6. QueueInv' /\ BlurInv'
  BY <1>2, QueueStays
<1>7. ClickInv' /\ FreshInv' /\ OwnInv' /\ InputInv' /\ NothingIsStale'
  BY <1>1, ClickStays, FreshStays, OwnStays, InputStays, StaleStays
<1>8. ShownInv'
  BY <1>1, ViewStays DEF Viewed, ShownInv
<1> QED
  BY <1>3, <1>4, <1>5, <1>6, <1>7, <1>8 DEF IInv, Base

LEMMA Always == Spec => []IInv
BY InitInv, NextInv, PTL DEF Spec

LEMMA InvImplied == IInv => Inv /\ IndicatorTellsTheMode /\ ImportanceIsTrue
<1> SUFFICES ASSUME IInv PROVE Inv /\ IndicatorTellsTheMode /\ ImportanceIsTrue
  OBVIOUS
<1>1. TypeOK /\ NothingFromTheFuture /\ NothingIsStale /\ SoundInv /\ View(active, sess[active], shown) /\ InputInv
  BY DEF IInv, Base, ShownInv
<1>2. VisibleIsCurrent
  BY <1>1 DEF VisibleIsCurrent, View, Exists
<1>3. ShownIsActive
  BY <1>1 DEF ShownIsActive, View, Exists
<1>4. IndicatorTellsTheMode
  BY <1>1 DEF IndicatorTellsTheMode, View, Exists
<1>5. ImportanceIsTrue
  <2>1. \A p \in Processes : \A k \in Own(p) : sess[k].rime.born = sess[k].last.born
    BY <1>1 DEF SoundInv, Sound, Own
  <2> QED
    BY <1>1, <2>1 DEF ImportanceIsTrue, InputInv, Own
<1> QED
  BY <1>1, <1>2, <1>3, <1>4, <1>5 DEF Inv

-----------------------------------------------------------------------------
\* The theorems.

\* The renderer is told of the session with the focus only, what it can see is the session's last
\* state (render_snapshot, publish), no generation, revision or composition is ahead of the one who
\* gives it out, and no queued command is refused as stale (SessionRoute::observe).
THEOREM SessionInvariant == Spec => []Inv
BY Always, InvImplied, PTL

\* A mode indicator on the screen shows the mode that librime is in (request_mode_indicator, idle):
\* every revision that changes the mode takes it off, and one that waits for its place is of the
\* session's own mode.
THEOREM IndicatorInvariant == Spec => []IndicatorTellsTheMode
BY Always, InvImplied, PTL

\* When the engine's thread waits for a message, each connection's view of its sessions
\* (set_input_state), which the admission reclaims by, is what librime and the focus say.
THEOREM ImportanceInvariant == Spec => []ImportanceIsTrue
BY Always, InvImplied, PTL

LEMMA ClickStep ==
  IInv /\ [Next]_vars =>
    [click # None /\ click' = None /\ sess' # sess => sess[click.key].rime.n = click.n]_vars
<1> SUFFICES ASSUME IInv, [Next]_vars, click # None, click' = None, sess' # sess
             PROVE  sess[click.key].rime.n = click.n
  OBVIOUS
<1>1. TypeOK /\ FocusInv /\ SoundInv /\ NothingFromTheFuture /\ ClickInv /\ Base /\ ShownInv
  BY DEF IInv, Base
<1>2. Event
  <2>1. ~Host /\ ~Click /\ ~Capability /\ ~UNCHANGED vars
    BY HostKeeps DEF Click, Capability, engine, vars
  <2>2. Engine
    BY <2>1 DEF Next
  <2> QED
    BY <2>2 DEF Engine, Open, Refuse, KeyEvent, ContextCommand, SetAscii, Destroy, IdleInline, IdleLayout,
      IdleRetain, Wake
<1>3. click.key = active /\ active \in Keys /\ Exists(active) /\ click.rev = sess[active].rev
  <2>1. PICK t : /\ active \in Keys /\ active = Key(active[1]) /\ click.key = active
                 /\ click.rev = sess[active].rev /\ Revises(active[1], t)
    BY <1>1, <1>2, EventRevises DEF ClickInv
  <2> QED
    BY <2>1 DEF Revises
<1> QED
  BY <1>1, <1>3 DEF ClickInv

\* A click or a key in the candidate window takes effect only in the state the user saw
\* (renderer_event, accepts_ui): the revision he clicked is the session's last.
THEOREM ClicksTakeWhatWasSeen == Spec => ClickMeansWhatWasSeen
BY Always, ClickStep, PTL DEF Spec, ClickMeansWhatWasSeen

LEMMA WaitStep ==
  IInv /\ [Next]_vars =>
    [\A k \in Keys :
       /\ Exists(k) /\ sess'[k] # None
       /\ sess[k].waiting # 0 /\ sess'[k].anchor # 0
       => sess'[k].anchor = sess'[k].last.born \/ layouts[k[1]].conn # k[2]]_vars
<1> SUFFICES ASSUME IInv, [Next]_vars, NEW k \in Keys, Exists(k), sess'[k] # None,
                    sess[k].waiting # 0, sess'[k].anchor # 0, layouts[k[1]].conn = k[2]
             PROVE  sess'[k].anchor = sess'[k].last.born
  OBVIOUS
<1>1. Base /\ TypeOK /\ FocusInv /\ OwnInv
  BY DEF IInv, Base
<1>2. SessionStep(k) /\ sess[k] \in Sessions /\ Sound(sess[k])
  BY SessionsStep, SessionIs DEF SessionSteps, SoundInv, IInv, Base
<1>3. sess[k].anchor = 0
  BY <1>2 DEF Sound
<1>4. Measured(k)
  <2>1. ~Informed(k)
    BY <1>2, <1>3, IndicatedIs DEF Informed
  <2>2. ~Revised(k)
    BY <1>3 DEF Revised, Follows
  <2> QED
    BY <1>2, <1>3, <2>1, <2>2 DEF SessionStep, Closes, Opened
<1> DEFINE c == k[1]
           u == layouts[c]
<1>5. /\ c \in Contexts /\ k = Key(c) /\ up[HostOf[c]] /\ u # None /\ u.epoch = k[2] /\ u.tag = 0
      /\ u.rev >= sess[k].waiting /\ sess'[k] = Placed(sess[k], u)
  BY <1>1, <1>4, KeysAre DEF Measured, HasLayout, Fits
<1>6. u \in Measures /\ Epoch(c) = k[2] /\ Epoch(c) # 0
  BY <1>1, <1>5, KeyIs DEF TypeOK
<1>7. Agrees(sess[k], u.rev, u.anchor)
  BY <1>1, <1>5, <1>6 DEF OwnInv, OfConn
<1>8. sess'[k].anchor = u.anchor /\ sess'[k].last = sess[k].last
  BY <1>2, <1>5, <1>6, PlacedIs
<1> QED
  BY <1>5, <1>7, <1>8 DEF Agrees

\* A composition that waits for its geometry is placed by its own measure (layout_matches_pending,
\* reset_anchor_for_new_composition), however late that of an earlier one arrives.
THEOREM WaitEndsWithOwnMeasure == Spec => OwnMeasureEndsWait
BY Always, WaitStep, PTL DEF Spec, OwnMeasureEndsWait
=============================================================================
