--------------------------- MODULE EditScheduler ---------------------------
(***************************************************************************)
(* How the replies of the engine become edits of the host's document       *)
(* (tip/src/service: composition.rs, edit_session.rs, host_edit.rs,        *)
(* safety.rs, and the drain of context.rs).                                *)
(*                                                                         *)
(* The host owns the document: an edit is a request for a session, which   *)
(* the host grants late, refuses or forgets, and it edits, moves its       *)
(* selection and ends compositions on its own in between, also while one   *)
(* of our sessions writes.  A reply is cut into steps, one session each.   *)
(*                                                                         *)
(* A session is in flight while its ticket is the current one, and stale   *)
(* after: the ticket and edit_requested are not modelled apart from that.  *)
(* Text is the revision of the reply it comes from.                        *)
(***************************************************************************)
EXTENDS Naturals, Sequences, FiniteSets, SequencesExt

CONSTANTS
  Contexts,     \* the documents of the host
  NoTask,       \* no session is in flight
  QueueLimit,   \* edits that wait (64)
  MaxRevision,  \* bound on the replies
  MaxEpoch,     \* bound on the connections
  MaxHost,      \* bound on what the host does of its own accord
  MaxFaults     \* bound on the sessions that are refused, lost or fail

\* What is assumed of the constants.
EditSchedulerAssumption ==
  /\ IsFiniteSet(Contexts)
  /\ {QueueLimit, MaxRevision, MaxEpoch, MaxHost, MaxFaults} \subseteq Nat

VARIABLES
  ctx,       \* the ContextState of each document
  queue,     \* TextService.pending_edit
  inflight,  \* the task whose session the host holds and whose ticket is current
  stale,     \* the tasks of the other sessions the host holds
  wake,      \* an UPDATE_MESSAGE or the maintenance timer is on its way
  faulted,   \* TextService.faulted
  epoch,     \* the connection
  stream,    \* replies that were published and not drained
  engine,    \* the engine's session of each document
  revision,  \* replies made so far
  document,  \* history: what was written for good
  barrier,   \* history: the last reply made before the host last intervened
  hosted, faults

vars == <<ctx, queue, inflight, stale, wake, faulted, epoch, stream, engine, revision,
          document, barrier, hosted, faults>>

NoReply == [revision |-> 0, commit |-> FALSE, composing |-> FALSE]

\* A task: the reply it applies, the token it was made for, and its step.
Task(c, s, reply, step) ==
  [context |-> c, reply |-> reply, step |-> step,
   epoch |-> epoch, generation |-> s.ctx[c].generation]

FreshContext ==
  [alive |-> TRUE, suspended |-> FALSE, generation |-> 1, composition |-> 0, content |-> "none",
   text |-> 0, epoch |-> 0, disconnect |-> FALSE, finishing |-> FALSE, reconciling |-> FALSE,
   revision |-> 0]

(***************************************************************************)
(* The work in hand, as one value.                                         *)
(***************************************************************************)
Now == [ctx |-> ctx, queue |-> queue, inflight |-> inflight, stale |-> stale, wake |-> wake,
        stream |-> stream, engine |-> engine, revision |-> revision, document |-> document,
        barrier |-> barrier]

Put(s) ==
  /\ ctx' = s.ctx /\ queue' = s.queue /\ inflight' = s.inflight /\ stale' = s.stale
  /\ wake' = s.wake /\ stream' = s.stream /\ engine' = s.engine /\ revision' = s.revision
  /\ document' = s.document /\ barrier' = s.barrier

\* PendingEdit::matches and ContextState::matches: the document, the connection
\* and the generation are those of the task; the end of a lost composition may
\* come from another connection.
Matches(s, t) ==
  LET x == s.ctx[t.context] IN
  /\ x.alive /\ ~x.suspended /\ t.generation = x.generation
  /\ t.step # "disconnect" => t.epoch = epoch

\* safety.rs: quarantine.
Quarantined(s, c) ==
  IF s.ctx[c].suspended THEN [s EXCEPT !.ctx[c].finishing = FALSE]
  ELSE [s EXCEPT !.ctx[c].finishing = FALSE, !.ctx[c].suspended = TRUE,
                 !.ctx[c].generation = @ + 1, !.wake = TRUE]

Steps(s, c) == {s.queue[i].step : i \in {j \in DOMAIN s.queue : s.queue[j].context = c}}

\* safety.rs: discard_context_edits.
Discarded(s, c) ==
  [s EXCEPT !.queue = SelectSeq(@, LAMBDA t : t.context # c),
            !.ctx[c].finishing = @ /\ "finishRaw" \notin Steps(s, c)]

\* The flags of a task that is given up before it ran (ResponseEdit::drop).
Released(s, t) ==
  [s EXCEPT !.ctx[t.context].disconnect = @ /\ t.step # "disconnect",
            !.ctx[t.context].finishing = @ /\ t.step # "finishRaw"]

\* schedule_edit: a task that is passed over gives back the flag of its step.
Passed(s, tasks) ==
  [s EXCEPT !.ctx = [c \in Contexts |->
     [@[c] EXCEPT !.finishing = @ /\ \A t \in tasks : ~(t.context = c /\ t.step = "finishRaw")]]]

\* schedule_edit: the first task that still matches is handed to the host.
Scheduled(s) ==
  LET fit == {i \in DOMAIN s.queue : Matches(s, s.queue[i])}
      first == CHOOSE i \in fit : \A j \in fit : i <= j
  IN  IF s.inflight # NoTask \/ faulted THEN s
      ELSE IF fit = {} THEN [Passed(s, ToSet(s.queue)) EXCEPT !.queue = <<>>]
      ELSE [Passed(s, ToSet(SubSeq(s.queue, 1, first - 1))) EXCEPT
              !.queue = SubSeq(@, first + 1, Len(@)),
              !.inflight = s.queue[first]]

\* request_edit_session: a reply waits its turn, a step of one is the next.
Requested(s, t) ==
  IF t.step # "disconnect" /\ ~Matches(s, t) THEN s
  ELSE IF Len(s.queue) >= QueueLimit THEN Quarantined(s, t.context)
  ELSE Scheduled([s EXCEPT !.queue = IF t.step = "apply" THEN Append(@, t) ELSE <<t>> \o @])

(***************************************************************************)
(* The engine: a reply to a key or to a command.                           *)
(***************************************************************************)
Answered(s, c, commit, composing) ==
  [s EXCEPT !.revision = @ + 1, !.engine[c] = [composing |-> composing, revision |-> s.revision + 1],
            !.stream[c] = Append(@, [revision |-> s.revision + 1, commit |-> commit,
                                     composing |-> composing,
                                     generation |-> s.ctx[c].generation]),
            !.wake = TRUE]

\* Mutant of Invalidated: the generation stays.
InvalidatedInPlace(s, c) ==
  IF s.ctx[c].suspended THEN s
  ELSE LET own == s.inflight # NoTask /\ s.inflight.context = c
           x == [s EXCEPT !.ctx[c].reconciling = TRUE,
                          !.inflight = IF own THEN NoTask ELSE @,
                          !.barrier[c] = s.revision]
       IN  Answered(x, c, FALSE, FALSE)

\* send_context_action with invalidate: what was asked for before is not edited
\* any more, and the engine forgets its composition.
Invalidated(s, c) ==
  IF s.ctx[c].suspended THEN s
  ELSE LET own == s.inflight # NoTask /\ s.inflight.context = c
           x == [s EXCEPT !.ctx[c].reconciling = TRUE, !.ctx[c].generation = @ + 1,
                          !.inflight = IF own THEN NoTask ELSE @,
                          !.barrier[c] = s.revision]
       IN  Answered(x, c, FALSE, FALSE)

\* The session in flight is one the host still holds when its ticket is spent,
\* unless it is the one that is running.
Left(s) == IF s.inflight = NoTask THEN s ELSE [s EXCEPT !.stale = @ \cup {s.inflight}]

Interrupted(s, c) ==
  IF s.inflight # NoTask /\ s.inflight.context = c /\ ~s.ctx[c].suspended
  THEN Invalidated(Left(s), c) ELSE Invalidated(s, c)

(***************************************************************************)
(* The steps, in a session of the host.                                    *)
(***************************************************************************)
Written(s, c, kind, composition, rev) ==
  [s EXCEPT !.document[c] = Append(@, [kind |-> kind, composition |-> composition, revision |-> rev])]

\* finish_raw_composition: the preedit becomes the keys that were typed, unless
\* its commit has begun.
RawFinished(s, c) ==
  LET x == s.ctx[c]
      gone == [s EXCEPT !.ctx[c].composition = 0, !.ctx[c].content = "none", !.ctx[c].text = 0,
                        !.ctx[c].finishing = FALSE]
  IN  IF x.composition = 0 THEN s
      ELSE IF x.content = "preedit" THEN Written(gone, c, "raw", x.composition, x.text) ELSE gone

\* start_composition: the composition is named by the reply that began it.
Started(s, t) ==
  Requested([s EXCEPT !.ctx[t.context].composition = t.reply.revision,
                      !.ctx[t.context].content = IF t.reply.commit THEN "none" ELSE "preedit",
                      !.ctx[t.context].epoch = t.epoch, !.ctx[t.context].text = 0],
            [t EXCEPT !.step = IF t.reply.commit THEN "commit" ELSE "update"])

Updated(s, t) ==
  [s EXCEPT !.ctx[t.context].content = "preedit", !.ctx[t.context].text = t.reply.revision]

Uncommitted(reply) == [reply EXCEPT !.commit = FALSE]

Inserted(s, t) ==
  LET x == Written(s, t.context, "commit", 0, t.reply.revision) IN
  IF t.reply.composing
  THEN Requested(x, [t EXCEPT !.reply = Uncommitted(@), !.step = "start"]) ELSE x

\* commit_composition: writing the text may make the host end the composition.
Committed(s, t, terminated) ==
  LET c == t.context
      x == Written(s, c, "commit", s.ctx[c].composition, t.reply.revision)
  IN  IF terminated
      THEN Invalidated(RawFinished([x EXCEPT !.ctx[c].content = "committing"], c), c)
      ELSE Requested([x EXCEPT !.ctx[c].content = "committed"], [t EXCEPT !.step = "end"])

\* end_composition: after a commit a reply that goes on composing starts anew.
Ended(s, t) ==
  LET x == [s EXCEPT !.ctx[t.context].composition = 0, !.ctx[t.context].content = "none",
                     !.ctx[t.context].text = 0]
  IN  IF t.reply.composing
      THEN Requested(x, [t EXCEPT !.reply = Uncommitted(@), !.step = "start"]) ELSE x

\* The preedit of a lost connection stays as text.
Disconnected(s, t) ==
  [s EXCEPT !.ctx[t.context].composition = 0, !.ctx[t.context].content = "none",
            !.ctx[t.context].text = 0, !.ctx[t.context].epoch = 0,
            !.ctx[t.context].disconnect = FALSE]

\* apply_edit: ApplyResponse is cut into its first step.
FirstStep(s, t) ==
  LET composed == s.ctx[t.context].composition # 0 IN
  CASE t.step # "apply" -> t.step
    [] t.reply.commit -> IF composed THEN "commit" ELSE "insert"
    [] ~t.reply.composing -> "end"
    [] OTHER -> IF composed THEN "update" ELSE "start"

Applied(s, t, terminated) ==
  LET u == [t EXCEPT !.step = FirstStep(s, t)] IN
  CASE u.step = "start" -> Started(s, u)
    [] u.step = "update" -> Updated(s, u)
    [] u.step = "commit" -> Committed(s, u, terminated)
    [] u.step = "insert" -> Inserted(s, u)
    [] u.step = "end" -> Ended(s, u)
    [] u.step = "disconnect" -> Disconnected(s, u)
    [] u.step = "finishRaw" -> [RawFinished(s, u.context) EXCEPT !.ctx[u.context].finishing = FALSE]

(***************************************************************************)
(* What the host makes of a request.                                       *)
(***************************************************************************)
Healthy == ~faulted

\* The steps that need a composition have one.
Possible(s, t) == FirstStep(s, t) \in {"update", "commit"} => s.ctx[t.context].composition # 0

\* The end of DoEditSession: the scheduler goes on in a message of its own.
Completed(s, t) ==
  IF s.inflight = t THEN [Released(s, t) EXCEPT !.inflight = NoTask, !.wake = TRUE] ELSE s

\* DoEditSession, with a selection that may have moved out of the composition.
Grant ==
  /\ Healthy /\ inflight # NoTask
  /\ LET t == inflight IN
     \/ /\ ~Matches(Now, t)
        /\ Put(Completed(Now, t))
        /\ UNCHANGED hosted
     \/ /\ Matches(Now, t) /\ Possible(Now, t)
        /\ Put(Completed(Applied(Now, t, FALSE), t))
        /\ UNCHANGED hosted
     \/ /\ Matches(Now, t) /\ hosted < MaxHost /\ ctx[t.context].composition # 0
        /\ FirstStep(Now, t) = "commit"
        /\ Put(Applied(Now, t, TRUE))
        /\ hosted' = hosted + 1
     \/ /\ Matches(Now, t) /\ hosted < MaxHost /\ ctx[t.context].composition # 0
        /\ t.step \in {"apply", "update", "commit"}
        /\ Put(Invalidated(RawFinished(Now, t.context), t.context))
        /\ hosted' = hosted + 1
  /\ UNCHANGED <<faulted, epoch, faults>>

\* A write that fails may have been made.
Half(t) ==
  {[Released(Now, t) EXCEPT !.inflight = NoTask]} \cup
  (IF FirstStep(Now, t) \in {"commit", "insert"}
   THEN {Written([Released(Now, t) EXCEPT !.inflight = NoTask], t.context, "commit",
                 IF FirstStep(Now, t) = "insert" THEN 0 ELSE ctx[t.context].composition,
                 t.reply.revision)}
   ELSE {})

\* Mutant of GrantFails: a write that failed is tried again.
GrantRetries ==
  /\ Healthy /\ inflight # NoTask /\ faults < MaxFaults
  /\ Matches(Now, inflight)
  /\ \E s \in Half(inflight) : Put([s EXCEPT !.queue = <<inflight>> \o @, !.wake = TRUE])
  /\ faults' = faults + 1
  /\ UNCHANGED <<faulted, epoch, hosted>>

\* A session fails: before the document was changed, and the document is left
\* alone from then on; or in a write, and the whole service stops.
GrantFails ==
  /\ Healthy /\ inflight # NoTask /\ faults < MaxFaults
  /\ Matches(Now, inflight)
  /\ \/ /\ Put(Discarded(Quarantined([Released(Now, inflight) EXCEPT !.inflight = NoTask],
                                    inflight.context), inflight.context))
        /\ UNCHANGED faulted
     \/ /\ \E s \in Half(inflight) : Put([s EXCEPT !.queue = <<>>])
        /\ faulted' = TRUE
  /\ faults' = faults + 1
  /\ UNCHANGED <<epoch, hosted>>

\* reject_readonly_edit, by the request or by the session: what the engine has
\* is cancelled, and the answer to that is not edited either.
RejectReadonly ==
  /\ Healthy /\ inflight # NoTask /\ faults < MaxFaults
  /\ Matches(Now, inflight)
  /\ LET c == inflight.context
         s == Discarded([Now EXCEPT !.inflight = NoTask, !.ctx[c].generation = @ + 1], c)
         a == Answered(s, c, FALSE, FALSE)
     IN  Put([a EXCEPT !.ctx[c].generation = @ + 1, !.ctx[c].epoch = 0,
                       !.ctx[c].disconnect = FALSE, !.ctx[c].finishing = FALSE])
  /\ faults' = faults + 1
  /\ UNCHANGED <<faulted, epoch, hosted>>

\* RequestEditSession fails; the session it was made for is dropped unused.
Refuse ==
  /\ Healthy /\ inflight # NoTask /\ faults < MaxFaults
  /\ Matches(Now, inflight)
  /\ LET s == [Released(Now, inflight) EXCEPT !.inflight = NoTask, !.wake = TRUE]
     IN  Put(Discarded(Quarantined(s, inflight.context), inflight.context))
  /\ faults' = faults + 1
  /\ UNCHANGED <<faulted, epoch, hosted>>

\* The host lets a session go without running it.
Forget ==
  /\ inflight # NoTask /\ faults < MaxFaults
  /\ Put([Released(Now, inflight) EXCEPT !.inflight = NoTask, !.wake = TRUE])
  /\ faults' = faults + 1
  /\ UNCHANGED <<faulted, epoch, hosted>>

\* A session with a spent ticket does nothing when it is granted, and is let go.
StaleEnds(t) ==
  /\ t \in stale
  /\ Put([Released(Now, t) EXCEPT !.stale = @ \ {t}, !.wake = TRUE])
  /\ UNCHANGED <<faulted, epoch, hosted, faults>>

(***************************************************************************)
(* The update window.                                                      *)
(***************************************************************************)
\* cleanup_disconnected_composition.
Lost(s, c) == s.ctx[c].composition # 0 /\ s.ctx[c].epoch # epoch

CleanedUp(s, c) ==
  IF s.ctx[c].disconnect THEN s
  ELSE LET x == Discarded([s EXCEPT !.ctx[c].disconnect = TRUE, !.ctx[c].generation = @ + 1], c)
       IN  Requested(x, Task(c, x, NoReply, "disconnect"))

\* ResponseRoute::accept.
Accepted(s, c, r) == r.generation = s.ctx[c].generation /\ r.revision > s.ctx[c].revision

Busy(s, c) ==
  Steps(s, c) # {} \/ (s.inflight # NoTask /\ s.inflight.context = c)

\* A reply that changes nothing of what is shown or asked for needs no edit.
Delivered(s, c, r) ==
  LET x == [s EXCEPT !.ctx[c].revision = r.revision, !.ctx[c].reconciling = FALSE]
      reply == [revision |-> r.revision, commit |-> r.commit, composing |-> r.composing]
      same == ~r.commit /\ ~r.composing /\ s.ctx[c].composition = 0
  IN  IF ~Accepted(s, c, r) THEN s
      ELSE IF same /\ ~Busy(s, c) THEN x
      ELSE Requested(x, Task(c, x, reply, "apply"))

\* drain_context_updates, for one document.
Drained(s, c) ==
  IF ~s.ctx[c].alive \/ s.ctx[c].suspended THEN [s EXCEPT !.stream[c] = <<>>]
  ELSE IF Lost(s, c) THEN CleanedUp(s, c)
  ELSE [FoldLeft(LAMBDA y, r : Delivered(y, c, r), s, s.stream[c]) EXCEPT !.stream[c] = <<>>]

\* The callback of the update window.
Update ==
  /\ wake
  /\ IF faulted THEN Put([Now EXCEPT !.wake = FALSE])
     ELSE Put(Scheduled(FoldLeft(Drained, [Now EXCEPT !.wake = FALSE], SetToSeq(Contexts))))
  /\ UNCHANGED <<faulted, epoch, hosted, faults>>

(***************************************************************************)
(* The user, the host and the connection.                                  *)
(***************************************************************************)
\* A key that the engine answers; none is sent while the keys typed so far are
\* being restored (process_key_event).
Key(c) ==
  /\ Healthy /\ revision < MaxRevision
  /\ ctx[c].alive /\ ~ctx[c].suspended /\ ~ctx[c].finishing /\ ~Lost(Now, c)
  /\ \E commit, composing \in BOOLEAN :
       /\ ~engine[c].composing => commit \/ composing
       /\ Put(Answered(Now, c, commit, composing))
  /\ UNCHANGED <<faulted, epoch, hosted, faults>>

\* on_host_edit: the selection moved out of the composition, whose text becomes
\* the keys that were typed; a task is left for the update window to do it.
ClickOutside(c) ==
  /\ Healthy /\ hosted < MaxHost
  /\ ctx[c].alive /\ ctx[c].composition # 0
  /\ ~ctx[c].suspended /\ ~ctx[c].reconciling /\ ~ctx[c].finishing
  /\ LET s == Discarded(Interrupted(Now, c), c)
         x == [s EXCEPT !.ctx[c].finishing = TRUE]
     IN  Put([x EXCEPT !.queue = <<Task(c, x, NoReply, "finishRaw")>> \o @, !.wake = TRUE])
  /\ hosted' = hosted + 1
  /\ UNCHANGED <<faulted, epoch, faults>>

\* on_host_edit: the host removed the text of the preedit.
HostDeletes(c) ==
  /\ Healthy /\ hosted < MaxHost
  /\ ctx[c].alive /\ ctx[c].composition # 0 /\ ctx[c].text # 0
  /\ ~ctx[c].suspended /\ ~ctx[c].reconciling /\ ~ctx[c].finishing
  /\ inflight = NoTask /\ Steps(Now, c) = {}
  /\ Put(Invalidated(Now, c))
  /\ hosted' = hosted + 1
  /\ UNCHANGED <<faulted, epoch, faults>>

\* OnCompositionTerminated.
HostTerminates(c) ==
  /\ Healthy /\ hosted < MaxHost
  /\ ctx[c].alive /\ ctx[c].composition # 0
  /\ Put(Interrupted(RawFinished(Now, c), c))
  /\ hosted' = hosted + 1
  /\ UNCHANGED <<faulted, epoch, faults>>

\* remove_context.
RemoveContext(c) ==
  /\ hosted < MaxHost /\ ctx[c].alive
  /\ LET own == inflight # NoTask /\ inflight.context = c
         s == [Left(Now) EXCEPT !.stale = IF own THEN @ ELSE stale,
                                !.inflight = IF own THEN NoTask ELSE @,
                                !.ctx[c] = [FreshContext EXCEPT !.alive = FALSE],
                                !.stream[c] = <<>>, !.engine[c].composing = FALSE]
     IN  Put(Scheduled(Discarded(s, c)))
  /\ hosted' = hosted + 1
  /\ UNCHANGED <<faulted, epoch, faults>>

\* The connection is lost and another one is made: the replies are gone, and the
\* engine begins anew.
Reconnect ==
  /\ epoch < MaxEpoch
  /\ epoch' = epoch + 1
  /\ Put([Now EXCEPT !.stream = [c \in Contexts |-> <<>>], !.wake = TRUE,
                     !.engine = [c \in Contexts |-> [composing |-> FALSE, revision |-> 0]]])
  /\ UNCHANGED <<faulted, hosted, faults>>

(***************************************************************************)
(* Specification.                                                          *)
(***************************************************************************)
Init ==
  /\ ctx = [c \in Contexts |-> FreshContext]
  /\ queue = <<>> /\ inflight = NoTask /\ stale = {} /\ wake = FALSE /\ faulted = FALSE
  /\ epoch = 1 /\ stream = [c \in Contexts |-> <<>>]
  /\ engine = [c \in Contexts |-> [composing |-> FALSE, revision |-> 0]]
  /\ revision = 0
  /\ document = [c \in Contexts |-> <<>>] /\ barrier = [c \in Contexts |-> 0]
  /\ hosted = 0 /\ faults = 0

Next ==
  \/ Grant \/ GrantFails \/ RejectReadonly \/ Refuse \/ Forget \/ Update \/ Reconnect
  \/ \E t \in stale : StaleEnds(t)
  \/ \E c \in Contexts :
       Key(c) \/ ClickOutside(c) \/ HostDeletes(c) \/ HostTerminates(c) \/ RemoveContext(c)

Spec == Init /\ [][Next]_vars

(***************************************************************************)
(* Properties.                                                             *)
(***************************************************************************)
Tasks == ToSet(queue) \cup stale \cup ({inflight} \ {NoTask})

TypeOK ==
  /\ Len(queue) <= QueueLimit + 1
  /\ \A c \in Contexts :
       /\ ctx[c].content \in {"none", "preedit", "committing", "committed"}
       /\ ctx[c].generation \in Nat /\ ctx[c].epoch \in 0 .. MaxEpoch
       /\ {ctx[c].composition, ctx[c].text, ctx[c].revision} \subseteq 0 .. revision
  /\ \A t \in Tasks : t.context \in Contexts /\ t.epoch \in 1 .. epoch
  /\ {wake, faulted} \subseteq BOOLEAN

Commits(c) == SelectSeq(document[c], LAMBDA w : w.kind = "commit")

\* A commit is written once, in the order the engine made them, whatever sessions
\* the host grants late, runs after they were cancelled, or forgets.
CommittedOnceInOrder ==
  \A c \in Contexts : \A i, j \in DOMAIN Commits(c) :
    i < j => Commits(c)[i].revision < Commits(c)[j].revision

\* The keys of a composition are never put back when its text was committed
\* (CompositionContent::begin_commit, finish).
RawOrCommitted ==
  \A c \in Contexts : \A i, j \in DOMAIN document[c] :
    document[c][i].kind = "raw" /\ document[c][j].kind = "commit" =>
      document[c][i].composition # document[c][j].composition

\* A commit that was asked for before the host intervened is not written after
\* (send_context_action, PendingEdit::matches).
HostWins ==
  [][\A c \in Contexts : Len(Commits(c)') > Len(Commits(c)) =>
       Last(Commits(c)').revision > barrier[c]]_vars

\* A step that changes a composition finds one, though it is a session of its own
\* and the host may have ended the composition in between (E_POINTER otherwise).
StepsFindComposition ==
  inflight # NoTask /\ Healthy /\ Matches(Now, inflight) => Possible(Now, inflight)

\* Keys are held back only while there is a task that ends it (finishing_raw).
FinishingHasTask ==
  \A c \in Contexts : ctx[c].finishing /\ ~faulted =>
    \E t \in Tasks : t.context = c /\ t.step = "finishRaw"

\* Edits that wait are waited for: something will call the scheduler.
WorkIsRoused == queue # <<>> /\ inflight = NoTask /\ ~faulted => wake

\* When nothing is on its way and no session was lost, the document shows a composition exactly when the
\* engine has one, and what it shows is the last reply.
QuietAgrees ==
  \A c \in Contexts :
    /\ ~faulted /\ ~wake /\ queue = <<>> /\ inflight = NoTask /\ stream[c] = <<>>
    /\ ctx[c].alive /\ ~ctx[c].suspended /\ ~Lost(Now, c) /\ faults = 0
    => /\ (ctx[c].composition # 0) = engine[c].composing
       /\ engine[c].composing => ctx[c].text = engine[c].revision

\* The invariant of the edits: each commit once and in order, never beside its raw
\* keys; sessions that find what they change, marks that are taken back, work that
\* is called for; and a quiet document that shows what the engine has.
Inv ==
  /\ TypeOK
  /\ CommittedOnceInOrder /\ RawOrCommitted
  /\ StepsFindComposition /\ FinishingHasTask /\ WorkIsRoused
  /\ QuietAgrees
=============================================================================
