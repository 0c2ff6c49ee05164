---------------------------- MODULE ServerProofs ----------------------------
(***************************************************************************)
(* Proofs about three parts of the server, for all constants: the engine's *)
(* thread, the deployment and the RPC connection.  Each has an inductive   *)
(* invariant of its own (EngineInv, WindowInv, RpcInv).                    *)
(***************************************************************************)
EXTENDS Server, SequenceTheorems, FiniteSetTheorems, TLAPS

-----------------------------------------------------------------------------
(* The engine's thread.                                                    *)

\* The thread is awake, or will be woken.
Roused == owed # {} \/ unparked

\* Behind the place where the thread last looked at a fact, one that is there again
\* comes with an unpark.
FactsRouse ==
  /\ at \in {"idle", "layout", "retain", "parking", "parked"} /\ parks /\ mailbox > 0 => Roused
  /\ at \in {"layout", "retain", "parking", "parked"} /\ known /\ alive /\ external /\ ~preedit
       => Roused
  /\ at \in {"retain", "parking", "parked"} /\ known /\ alive /\ layout => Roused
  /\ at \in {"parking", "parked"} /\ known /\ ~alive => Roused
  /\ at = "parked" /\ stop => Roused
  /\ at \in {"parking", "parked"} => parks
  /\ at \in {"received", "process", "apply"} => ~parks

EngineInv == Engine!TypeOK /\ FactsRouse

\* The thread starts with nothing looked at.
LEMMA EngineInit == Engine!Init => EngineInv
<1>1. SUFFICES ASSUME Engine!Init PROVE EngineInv OBVIOUS
<1>2. mailbox \in 0..Mailbox /\ messages \in Nat /\ changes \in Nat
  BY <1>1, ConstantsAreRight DEF ConstantsAssumption, Engine!Init, Engine!ConstantsAssumption
<1>3. Engine!TypeOK BY <1>1, <1>2, Zenon DEF Engine!Init, Engine!TypeOK, Engine!Places
<1>4. at = "create" BY <1>1 DEF Engine!Init
<1>5. FactsRouse BY <1>4 DEF FactsRouse
<1> QED BY <1>3, <1>5 DEF EngineInv

\* The thread and the other tasks keep to their types.
LEMMA EngineCounts ==
  ASSUME Engine!TypeOK, Engine!Next
  PROVE  mailbox' \in 0..Mailbox /\ messages' \in Nat /\ changes' \in Nat
<1>1. mailbox \in 0..Mailbox /\ messages \in Nat /\ changes \in Nat BY DEF Engine!TypeOK
<1>2. /\ mailbox' \in {mailbox, mailbox - 1, mailbox + 1}
      /\ mailbox' = mailbox - 1 => mailbox > 0
      /\ mailbox' = mailbox + 1 => mailbox < Mailbox
      /\ messages' \in {messages, messages + 1} /\ changes' \in {changes, changes + 1}
  <2>1. CASE Engine!TrySend BY <1>1, <2>1 DEF Engine!TrySend
  <2>2. CASE Engine!Receive BY <1>1, <2>2 DEF Engine!Receive, Engine!boundVars
  <2>3. CASE Engine!PreeditChanges BY <1>1, <2>3 DEF Engine!PreeditChanges
  <2>4. CASE UNCHANGED <<mailbox, messages, changes>> BY <1>1, <2>4
  <2>5. CASE ~Engine!TrySend /\ ~Engine!Receive /\ ~Engine!PreeditChanges
    BY <2>4, <2>5 DEF Engine!Next, Engine!Outside, Engine!Thread, Engine!PushLayout,
       Engine!ClientEnds, Engine!RequestStop, Engine!StoreStop,
       Engine!Unpark, Engine!Create, Engine!Look, Engine!LookAgain, Engine!ReadCapability,
       Engine!Apply, Engine!IdleInline, Engine!IdleLayout, Engine!IdleRetain,
       Engine!LookBeforePark, Engine!Wakes, Engine!DropProcessor, Engine!factVars,
       Engine!boundVars
  <2> QED BY <2>1, <2>2, <2>3, <2>5
<1> QED BY <1>1, <1>2, ConstantsAreRight DEF ConstantsAssumption, Engine!ConstantsAssumption

\* Every step of the thread and of the other tasks keeps to the types.
LEMMA EngineTypes == Engine!TypeOK /\ Engine!Next => Engine!TypeOK'
<1>1. SUFFICES ASSUME Engine!TypeOK, Engine!Next PROVE Engine!TypeOK' OBVIOUS
<1>2. mailbox' \in 0..Mailbox /\ messages' \in Nat /\ changes' \in Nat
  BY <1>1, EngineCounts
<1>3. /\ layout' \in BOOLEAN /\ alive' \in BOOLEAN /\ preedit' \in BOOLEAN
      /\ stop' \in BOOLEAN /\ ready' \in BOOLEAN /\ unparked' \in BOOLEAN
  BY <1>1 DEF Engine!TypeOK, Engine!Next, Engine!Outside, Engine!Thread, Engine!TrySend,
     Engine!PushLayout, Engine!ClientEnds, Engine!PreeditChanges,
     Engine!RequestStop, Engine!StoreStop, Engine!Unpark, Engine!Create, Engine!Look,
     Engine!Receive, Engine!LookAgain, Engine!ReadCapability, Engine!Apply,
     Engine!IdleInline, Engine!IdleLayout, Engine!IdleRetain, Engine!LookBeforePark,
     Engine!Wakes, Engine!DropProcessor, Engine!factVars, Engine!stopVars
<1>4. /\ owed' \subseteq Engine!Tasks \cup {"closing"}
  BY <1>1 DEF Engine!TypeOK, Engine!Next, Engine!Outside, Engine!Thread, Engine!TrySend,
     Engine!PushLayout, Engine!ClientEnds, Engine!PreeditChanges,
     Engine!RequestStop, Engine!StoreStop, Engine!Unpark, Engine!Create, Engine!Look,
     Engine!Receive, Engine!LookAgain, Engine!ReadCapability, Engine!Apply,
     Engine!IdleInline, Engine!IdleLayout, Engine!IdleRetain, Engine!LookBeforePark,
     Engine!Wakes, Engine!DropProcessor, Engine!Owe, Engine!Tasks
<1>5. at' \in Engine!Places /\ parks' \in BOOLEAN
  BY <1>1 DEF Engine!TypeOK, Engine!Next, Engine!Outside, Engine!Thread, Engine!TrySend,
     Engine!PushLayout, Engine!ClientEnds, Engine!PreeditChanges,
     Engine!RequestStop, Engine!StoreStop, Engine!Unpark, Engine!Create, Engine!Look,
     Engine!Receive, Engine!LookAgain, Engine!ReadCapability, Engine!Apply,
     Engine!IdleInline, Engine!IdleLayout, Engine!IdleRetain, Engine!LookBeforePark,
     Engine!Wakes, Engine!DropProcessor, Engine!loopVars, Engine!Places
<1>6. sawPreedit' \in BOOLEAN /\ known' \in BOOLEAN /\ external' \in BOOLEAN
  BY <1>1 DEF Engine!TypeOK, Engine!Next, Engine!Outside, Engine!Thread, Engine!TrySend,
     Engine!PushLayout, Engine!ClientEnds, Engine!PreeditChanges,
     Engine!RequestStop, Engine!StoreStop, Engine!Unpark, Engine!Create, Engine!Look,
     Engine!Receive, Engine!LookAgain, Engine!ReadCapability, Engine!Apply,
     Engine!IdleInline, Engine!IdleLayout, Engine!IdleRetain, Engine!LookBeforePark,
     Engine!Wakes, Engine!DropProcessor, Engine!engineVars
<1> QED BY <1>2, <1>3, <1>4, <1>5, <1>6 DEF Engine!TypeOK

\* Whoever stores a fact owes an unpark from then on, and gives it.
LEMMA OthersRouse ==
  Engine!Outside \/ (\E t \in Engine!Tasks : Engine!Unpark(t))
    => Roused' /\ UNCHANGED Engine!loopVars
BY DEF Engine!Outside, Engine!TrySend, Engine!PushLayout, Engine!ClientEnds,
   Engine!PreeditChanges, Engine!RequestStop, Engine!StoreStop, Engine!Owe,
   Engine!Unpark, Roused

\* The thread sees to a fact at its place, and comes to no place behind it before.
LEMMA EngineFacts == Engine!TypeOK /\ FactsRouse /\ Engine!Next => FactsRouse'
<1>1. SUFFICES ASSUME Engine!TypeOK, FactsRouse, Engine!Next PROVE FactsRouse' OBVIOUS
<1>2. CASE Engine!Outside \/ \E t \in Engine!Tasks : Engine!Unpark(t)
  BY <1>1, <1>2, OthersRouse DEF FactsRouse, Engine!loopVars
<1> USE DEF Engine!TypeOK, FactsRouse, Roused, Engine!factVars, Engine!stopVars,
Engine!loopVars, Engine!engineVars, Engine!boundVars
<1>3. CASE Engine!Create \/ Engine!Look \/ Engine!LookAgain \/ Engine!ReadCapability
           \/ Engine!Apply \/ Engine!Wakes \/ Engine!DropProcessor
  BY <1>1, <1>3 DEF Engine!Create, Engine!Look, Engine!LookAgain, Engine!ReadCapability,
     Engine!Apply, Engine!Wakes, Engine!DropProcessor
<1>4. CASE Engine!Receive BY <1>1, <1>4 DEF Engine!Receive
<1>5. CASE Engine!IdleInline BY <1>1, <1>5 DEF Engine!IdleInline
<1>6. CASE Engine!IdleLayout BY <1>1, <1>6 DEF Engine!IdleLayout
<1>7. CASE Engine!IdleRetain BY <1>1, <1>7 DEF Engine!IdleRetain
<1>8. CASE Engine!LookBeforePark BY <1>1, <1>8 DEF Engine!LookBeforePark
<1> QED BY <1>1, <1>2, <1>3, <1>4, <1>5, <1>6, <1>7, <1>8 DEF Engine!Next, Engine!Thread

\* No step of the thread or of another task loses a wake-up.
LEMMA EngineStep == EngineInv /\ [Engine!Next]_Engine!vars => EngineInv'
<1>1. CASE UNCHANGED Engine!vars
  BY <1>1 DEF Engine!vars, EngineInv, Engine!TypeOK, FactsRouse, Roused, Engine!factVars,
     Engine!stopVars, Engine!loopVars,
     Engine!engineVars, Engine!boundVars
<1>2. CASE Engine!Next BY <1>2, EngineTypes, EngineFacts DEF EngineInv
<1> QED BY <1>1, <1>2

\* A parked thread with a fact stored has its wake-up (Worker::spawn).
LEMMA EngineSafe == EngineInv => Engine!Inv
BY DEF EngineInv, Engine!Inv, Engine!TypeOK, FactsRouse, Roused, Engine!NeverSleepsOverFact,
   Engine!Unseen

-----------------------------------------------------------------------------
(* The deployment.                                                         *)

\* The deployer has ended, and its lock is given back.
Done == worker \in {"released", "reported", "finished", "gone"}

ThreadTypes ==
  /\ main \in {"init", "loop", "showing", "applying", "dialog", "joining", "failing", "waiting",
               "exited"}
  /\ kind \in {"xaml", "dialog"} /\ guard \in {"main", "worker", "free", "other"}
  /\ worker \in {"none", "started", "child", "pushed", "ended", "released", "reported",
                 "finished", "gone"}
  /\ writer \in {"none", "look", "recv", "closing", "park", "log", "done", "gone"}
  /\ waking \in BOOLEAN /\ finished \in BOOLEAN /\ slot \in BOOLEAN /\ shut \in BOOLEAN
  /\ token \in BOOLEAN /\ told \in BOOLEAN /\ stalled \in BOOLEAN
  /\ runs \in Nat /\ produced \in Nat /\ faults \in Nat

UiTypes ==
  /\ mail \in [chunks : Seq(Nat), omitted : BOOLEAN, complete : BOOLEAN]
  /\ text \in [lines : Seq(Nat), truncated : BOOLEAN]
  /\ dialog \in [window : BOOLEAN, cached : BOOLEAN, copied : BOOLEAN, shown : BOOLEAN,
                 sending : BOOLEAN]
  /\ Len(mail.chunks) <= Preview /\ Len(text.lines) <= Preview

\* The queue of log events has the writer's one at its head, and no result in it.
LogInv ==
  /\ logs \in Seq(Nat) /\ \A i \in DOMAIN logs : logs[i] # 0
  /\ writer = "log" => logs # <<>>
  /\ Window!Waiting <= LogQueue

\* A message is posted for each piece at most, and one for the result.
PostedInv ==
  /\ produced <= MaxOutput /\ (worker = "pushed" => produced > 0)
  /\ posted \in Nat
  /\ worker = "pushed" => posted < produced
  /\ worker # "gone" => posted <= produced
  /\ posted <= produced + 1

\* What there is of a deployment that has not begun, and that it begins once.
StageInv ==
  /\ main \in {"init", "failing", "waiting"} => worker = "none"
  /\ main \in {"init", "failing"} => writer = "none" /\ wire = <<>> /\ ~slot
  /\ worker = "none" =>
       /\ produced = 0 /\ logs = <<>> /\ ~finished
       /\ mail.chunks = <<>> /\ ~mail.complete /\ text.lines = <<>>
       /\ ~dialog.cached /\ ~dialog.copied /\ ~dialog.shown /\ ~dialog.sending
  /\ worker \in {"none", "started"} => runs = 0
  /\ runs <= 1
  /\ main \in {"showing", "applying", "dialog"} => kind = "dialog"

\* Whatever tells of the result does so when the deployer has ended, and nobody
\* holds the lock then.
OutcomeInv ==
  /\ Done => guard = "free"
  /\ mail.complete \/ finished => Done
  /\ dialog.cached \/ dialog.copied \/ dialog.shown \/ dialog.sending => Done
  /\ main = "joining" /\ kind = "xaml" => Done
  /\ worker # "none" /\ (slot \/ writer = "done") => Done
  /\ \A i \in DOMAIN wire : worker # "none" /\ wire[i] = 0 => Done

\* The result is the writer's last word.
WireInv ==
  /\ wire \in Seq(Nat)
  /\ \A i \in DOMAIN wire : wire[i] = 0 => i = Len(wire) /\ writer = "gone"

\* What waits are the newest pieces; while nothing is missing, what is shown are the
\* pieces before them; and one of the two has the newest.
TailInv ==
  LET k == Len(mail.chunks)
      n == Len(text.lines)
  IN  kind = "xaml" =>
        /\ \A i \in 1..k : mail.chunks[i] = produced - k + i
        /\ ~text.truncated /\ ~mail.omitted =>
             n + k = produced /\ \A i \in 1..n : text.lines[i] = i
        /\ k = 0 /\ produced > 0 => n > 0 /\ text.lines[n] = produced

WindowInv ==
  /\ ThreadTypes /\ UiTypes /\ LogInv /\ PostedInv
  /\ StageInv /\ OutcomeInv /\ WireInv /\ TailInv

-----------------------------------------------------------------------------
\* What the deployment assumes of its sizes.
LEMMA WindowConstants ==
  /\ MaxOutput \in Nat /\ Preview \in Nat /\ Preview > 0 /\ LogQueue \in Nat /\ DeployFaults \in Nat
BY ConstantsAreRight DEF ConstantsAssumption, Window!DeployAssumption

\* Sequences: what appending, taking the first and dropping the first do.
LEMMA PiecesFacts ==
  ASSUME NEW S, NEW q \in Seq(S)
  PROVE  /\ Len(q) \in Nat /\ DOMAIN q = 1..Len(q) /\ <<>> \in Seq(S) /\ Len(<<>>) = 0
         /\ \A x \in S : /\ Append(q, x) \in Seq(S) /\ Len(Append(q, x)) = Len(q) + 1
                         /\ \A i \in 1..Len(q) : Append(q, x)[i] = q[i]
                         /\ Append(q, x)[Len(q) + 1] = x
         /\ q # <<>> => /\ Len(q) > 0 /\ Head(q) = q[1] /\ Head(q) \in S
                        /\ Tail(q) \in Seq(S) /\ Len(Tail(q)) = Len(q) - 1
                        /\ \A i \in 1..Len(q) - 1 : Tail(q)[i] = q[i + 1]
         /\ \A i \in 1..Len(q) : q[i] \in S
OBVIOUS

\* The newest pieces are the end of all.
LEMMA NewestFacts ==
  ASSUME NEW S, NEW q \in Seq(S), NEW n \in Nat, n > 0
  PROVE  /\ Window!Newest(q, n) \in Seq(S)
         /\ Len(Window!Newest(q, n)) = IF Len(q) > n THEN n ELSE Len(q)
         /\ \A i \in 1..Len(Window!Newest(q, n)) :
              Window!Newest(q, n)[i] = q[i + (Len(q) - Len(Window!Newest(q, n)))]
<1>1. Len(q) \in Nat BY PiecesFacts
<1>2. CASE Len(q) > n
  <2>1. Window!Newest(q, n) = SubSeq(q, Len(q) - n + 1, Len(q)) BY <1>2 DEF Window!Newest
  <2>2. Len(q) - n + 1 \in 1..Len(q) + 1 /\ Len(q) \in Nat BY <1>1, <1>2
  <2>3. \A i \in Len(q) - n + 1..Len(q) : q[i] \in S BY <1>1, <1>2, PiecesFacts
  <2>4. /\ SubSeq(q, Len(q) - n + 1, Len(q)) \in Seq(S)
        /\ Len(SubSeq(q, Len(q) - n + 1, Len(q))) = n
        /\ \A i \in 1..n : SubSeq(q, Len(q) - n + 1, Len(q))[i] = q[Len(q) - n + i]
    BY <1>1, <1>2, <2>2
  <2> QED BY <1>1, <1>2, <2>1, <2>4
<1>3. CASE ~(Len(q) > n)
  <2>1. Window!Newest(q, n) = q BY <1>3 DEF Window!Newest
  <2> QED BY <1>1, <1>3, <2>1
<1> QED BY <1>2, <1>3

\* Two sequences one behind the other.
LEMMA JoinFacts ==
  ASSUME NEW S, NEW p \in Seq(S), NEW q \in Seq(S)
  PROVE  /\ p \o q \in Seq(S) /\ Len(p \o q) = Len(p) + Len(q)
         /\ \A i \in 1..Len(p) : (p \o q)[i] = p[i]
         /\ \A i \in Len(p) + 1..Len(p) + Len(q) : (p \o q)[i] = q[i - Len(p)]
BY ConcatProperties

\* Nothing is produced, posted or told when the window starts.
LEMMA WindowInit == Window!Init => WindowInv
<1>1. SUFFICES ASSUME Window!Init PROVE WindowInv OBVIOUS
<1>2. <<>> \in Seq(Nat) /\ Len(<<>>) = 0 /\ DOMAIN <<>> = {} OBVIOUS
<1>3. ThreadTypes BY <1>1 DEF Window!Init, ThreadTypes
<1>4. UiTypes
  <2>1. mail \in [chunks : Seq(Nat), omitted : BOOLEAN, complete : BOOLEAN]
        /\ mail.chunks = <<>>
    BY <1>1, <1>2 DEF Window!Init, Window!EmptyMail
  <2>2. text \in [lines : Seq(Nat), truncated : BOOLEAN] /\ text.lines = <<>>
    BY <1>1, <1>2 DEF Window!Init
  <2>3. dialog \in [window : BOOLEAN, cached : BOOLEAN, copied : BOOLEAN, shown : BOOLEAN,
                    sending : BOOLEAN]
    BY <1>1 DEF Window!Init
  <2> QED BY <1>2, <2>1, <2>2, <2>3, WindowConstants DEF UiTypes
<1>5. LogInv /\ WireInv BY <1>1, <1>2, WindowConstants DEF Window!Init, LogInv, WireInv,
  Window!Waiting
<1>6. PostedInv BY <1>1, WindowConstants DEF Window!Init, PostedInv
<1>7. StageInv /\ OutcomeInv
  BY <1>1, <1>2 DEF Window!Init, StageInv, OutcomeInv, Done, Window!EmptyMail
<1>8. TailInv BY <1>1, <1>2 DEF Window!Init, TailInv, Window!EmptyMail
<1> QED BY <1>3, <1>4, <1>5, <1>6, <1>7, <1>8 DEF WindowInv

\* The deployment's threads keep to their types.
LEMMA ThreadTypesStep == ThreadTypes /\ Window!Next => ThreadTypes'
<1>1. SUFFICES ASSUME ThreadTypes, Window!Next PROVE ThreadTypes' OBVIOUS
<1> USE DEF Window!Next, Window!WorkerNext, Window!WriterNext, Window!MainNext,
Window!StartDeployer, Window!Push, Window!Publish, Window!DeployerExits,
    Window!ReleaseGuard, Window!ReportResult, Window!FinishUi, Window!WorkerEnds,
    Window!WriterLooks, Window!WriterReceives, Window!WriterCloses,
    Window!WriterWakes, Window!WriterWrites, Window!FindsAnother, Window!StartXaml,
    Window!StartDialog, Window!SpawnFails, Window!Fails,
    Window!FailureTold, Window!FailureTimesOut, Window!WindowMessage, Window!OtherMessage,
    Window!CloseWindow, Window!DialogFails,
    Window!DialogCreated, Window!DialogApplied, Window!DialogClosed, Window!Exits,
    Window!Stall, Window!StartedWorker, Window!WriterOnly, Window!ui,
    Window!telemetry
<1>2. main' \in {"init", "loop", "showing", "applying", "dialog", "joining", "failing", "waiting",
                 "exited"}
  BY <1>1 DEF ThreadTypes
<1>3. kind' \in {"xaml", "dialog"} /\ guard' \in {"main", "worker", "free", "other"}
  BY <1>1 DEF ThreadTypes
<1>4. worker' \in {"none", "started", "child", "pushed", "ended", "released", "reported",
                   "finished", "gone"}
  BY <1>1 DEF ThreadTypes
<1>5. writer' \in {"none", "look", "recv", "closing", "park", "log", "done", "gone"}
  BY <1>1 DEF ThreadTypes
<1>6. waking' \in BOOLEAN /\ finished' \in BOOLEAN BY <1>1 DEF ThreadTypes, Window!Notified,
  Window!Taken
<1>7. slot' \in BOOLEAN /\ shut' \in BOOLEAN /\ token' \in BOOLEAN /\ told' \in BOOLEAN
      /\ stalled' \in BOOLEAN
  BY <1>1 DEF ThreadTypes
<1>8. runs' \in Nat /\ produced' \in Nat /\ faults' \in Nat
  <2>1. runs' \in {runs, runs + 1} BY <1>1
  <2>2. produced' \in {produced, produced + 1} BY <1>1
  <2>3. faults' \in {faults, faults + 1} BY <1>1 DEF Window!Fault, Window!Notified
  <2> QED BY <1>1, <2>1, <2>2, <2>3 DEF ThreadTypes
<1> QED BY <1>2, <1>3, <1>4, <1>5, <1>6, <1>7, <1>8 DEF ThreadTypes

\* What is posted and shown keeps to its types.
LEMMA UiTypesStep == ThreadTypes /\ UiTypes /\ Window!Next => UiTypes'
<1>1. SUFFICES ASSUME ThreadTypes, UiTypes, Window!Next PROVE UiTypes' OBVIOUS
<1> DEFINE Mails == [chunks : Seq(Nat), omitted : BOOLEAN, complete : BOOLEAN]
           Texts == [lines : Seq(Nat), truncated : BOOLEAN]
           Dialogs == [window : BOOLEAN, cached : BOOLEAN, copied : BOOLEAN, shown : BOOLEAN,
                       sending : BOOLEAN]
<1>2. mail \in Mails /\ text \in Texts /\ dialog \in Dialogs
      /\ Len(mail.chunks) <= Preview /\ Len(text.lines) <= Preview
  BY <1>1 DEF UiTypes
<1>3. <<>> \in Seq(Nat) /\ Len(<<>>) = 0 OBVIOUS
<1>4. CASE Window!Push
  <2>1. text' = text /\ dialog' = dialog BY <1>4 DEF Window!Push
  <2>2. CASE kind # "xaml" BY <1>2, <1>4, <2>1, <2>2 DEF Window!Push, UiTypes
  <2>3. CASE kind = "xaml"
    <3> DEFINE all == Append(mail.chunks, produced + 1)
    <3>1. mail' = [mail EXCEPT !.chunks = Window!Newest(all, Preview),
                               !.omitted = @ \/ Len(all) > Preview]
      BY <1>4, <2>3 DEF Window!Push
    <3>2. all \in Seq(Nat)
      <4>1. produced + 1 \in Nat /\ mail.chunks \in Seq(Nat) BY <1>1, <1>2 DEF ThreadTypes
      <4> QED BY <4>1, PiecesFacts
    <3> HIDE DEF all
    <3>3. Window!Newest(all, Preview) \in Seq(Nat) /\ Len(Window!Newest(all, Preview)) <= Preview
      <4>1. Len(all) \in Nat BY <3>2, PiecesFacts
      <4> QED BY <3>2, <4>1, NewestFacts, WindowConstants
    <3>4. mail' \in Mails /\ mail'.chunks = Window!Newest(all, Preview) BY <1>2, <3>1, <3>3
    <3> QED BY <1>2, <2>1, <3>3, <3>4 DEF UiTypes
  <2> QED BY <2>2, <2>3
<1>5. CASE Window!FinishUi \/ Window!WorkerEnds \/ Window!DialogCreated
           \/ Window!DialogApplied \/ Window!DialogClosed
  <2>1. text' = text BY <1>5 DEF Window!FinishUi, Window!WorkerEnds, Window!DialogCreated,
    Window!DialogApplied, Window!DialogClosed
  <2>2. mail' \in Mails /\ mail'.chunks = mail.chunks
    BY <1>2, <1>5 DEF Window!FinishUi, Window!WorkerEnds, Window!DialogCreated,
       Window!DialogApplied, Window!DialogClosed
  <2>3. dialog' \in Dialogs
    BY <1>2, <1>5 DEF Window!FinishUi, Window!WorkerEnds, Window!DialogCreated,
       Window!DialogApplied, Window!DialogClosed
  <2> QED BY <1>2, <2>1, <2>2, <2>3 DEF UiTypes
<1>6. CASE Window!WindowMessage \/ Window!OtherMessage \/ Window!CloseWindow
  <2>1. Window!Taken /\ dialog' = dialog BY <1>6 DEF Window!WindowMessage, Window!OtherMessage,
    Window!CloseWindow
  <2> DEFINE all == text.lines \o mail.chunks
  <2>2. mail' \in Mails /\ mail'.chunks = <<>> BY <1>3, <2>1 DEF Window!Taken, Window!EmptyMail
  <2>3. all \in Seq(Nat) BY <1>2
  <2> HIDE DEF all
  <2>4. Window!Newest(all, Preview) \in Seq(Nat) /\ Len(Window!Newest(all, Preview)) <= Preview
    <3>1. Len(all) \in Nat BY <2>3, PiecesFacts
    <3> QED BY <2>3, <3>1, NewestFacts, WindowConstants
  <2>5. text' = [lines |-> Window!Newest(all, Preview),
                 truncated |-> text.truncated \/ mail.omitted \/ Len(all) > Preview]
    BY <2>1 DEF Window!Taken, all
  <2>6. text' \in Texts /\ text'.lines = Window!Newest(all, Preview) BY <2>4, <2>5
  <2> QED BY <1>2, <1>3, <2>1, <2>2, <2>4, <2>6, WindowConstants DEF UiTypes
<1>7. CASE UNCHANGED <<mail, text, dialog>> BY <1>1, <1>7 DEF UiTypes
<1>8. CASE Window!Stall \/ Window!StartDeployer \/ Window!Publish \/ Window!DeployerExits
           \/ Window!ReleaseGuard \/ Window!ReportResult
           \/ Window!WriterNext \/ Window!FindsAnother \/ Window!StartXaml \/ Window!StartDialog \/ Window!SpawnFails \/ Window!Fails
           \/ Window!FailureTold \/ Window!FailureTimesOut \/ Window!DialogFails \/ Window!Exits
  BY <1>7, <1>8 DEF Window!Stall, Window!StartDeployer, Window!Publish, Window!DeployerExits,
     Window!ReleaseGuard, Window!ReportResult,
     Window!WriterNext, Window!WriterLooks, Window!WriterReceives, Window!WriterCloses,
     Window!WriterWakes, Window!WriterWrites, Window!WriterOnly,
     Window!FindsAnother, Window!StartXaml, Window!StartDialog, Window!SpawnFails,
     Window!Fails, Window!FailureTold, Window!FailureTimesOut,
     Window!DialogFails, Window!Exits, Window!ui
<1> QED BY <1>1, <1>4, <1>5, <1>6, <1>8 DEF Window!Next, Window!WorkerNext, Window!MainNext

\* What changes the queue of log events and the writer's place in it.
LEMMA LogStep == ThreadTypes /\ LogInv /\ PostedInv /\ StageInv /\ Window!Next => LogInv'
<1>1. SUFFICES ASSUME ThreadTypes, LogInv, PostedInv, StageInv, Window!Next PROVE LogInv' OBVIOUS
<1>2. logs \in Seq(Nat) /\ Len(logs) \in Nat /\ LogQueue \in Nat
  BY <1>1, WindowConstants DEF LogInv
<1>3. CASE Window!Publish
  <2>1. writer' = writer /\ worker = "pushed" BY <1>3 DEF Window!Publish
  <2>2. CASE Window!Waiting < LogQueue /\ writer # "gone"
    <3>1. logs' = Append(logs, produced) BY <1>3, <2>2 DEF Window!Publish
    <3>2. produced \in Nat /\ produced # 0 BY <1>1, <2>1 DEF PostedInv, ThreadTypes
    <3>3. /\ logs' \in Seq(Nat) /\ Len(logs') = Len(logs) + 1 /\ DOMAIN logs' = 1..Len(logs) + 1
          /\ DOMAIN logs = 1..Len(logs)
          /\ \A i \in 1..Len(logs) : logs'[i] = logs[i]
          /\ logs'[Len(logs) + 1] = produced
      BY <1>2, <3>1, <3>2
    <3>4. \A i \in DOMAIN logs' : logs'[i] # 0 BY <1>1, <1>2, <3>2, <3>3 DEF LogInv
    <3>5. logs' # <<>> BY <1>2, <3>3
    <3>6. Window!Waiting' <= LogQueue BY <1>2, <2>1, <2>2, <3>3 DEF Window!Waiting
    <3> QED BY <3>3, <3>4, <3>5, <3>6 DEF LogInv
  <2>3. CASE ~(Window!Waiting < LogQueue /\ writer # "gone")
    <3>1. logs' = logs BY <1>3, <2>3 DEF Window!Publish
    <3> QED BY <1>1, <2>1, <3>1 DEF LogInv, Window!Waiting
  <2> QED BY <2>2, <2>3
<1>4. ASSUME logs # <<>>, logs' = Tail(logs), writer' # "log",
             writer = "log" \/ writer = "recv"
      PROVE  LogInv'
  <2>1. /\ logs' \in Seq(Nat) /\ Len(logs') = Len(logs) - 1 /\ Len(logs) > 0
        /\ \A i \in 1..Len(logs) - 1 : logs'[i] = logs[i + 1]
    BY <1>2, <1>4, PiecesFacts
  <2>2. DOMAIN logs' = 1..Len(logs) - 1 /\ DOMAIN logs = 1..Len(logs) BY <1>2, <2>1
  <2>3. \A i \in DOMAIN logs' : i + 1 \in DOMAIN logs /\ logs'[i] = logs[i + 1]
    BY <1>2, <2>1, <2>2
  <2>4. \A i \in DOMAIN logs' : logs'[i] # 0 BY <1>1, <2>3 DEF LogInv
  <2>5. Window!Waiting' <= LogQueue BY <1>1, <1>2, <1>4, <2>1 DEF Window!Waiting, LogInv
  <2> QED BY <1>4, <2>1, <2>4, <2>5 DEF LogInv
<1>5. CASE Window!WriterReceives
  <2>1. CASE logs # <<>> /\ slot
    BY <1>4, <1>5, <2>1 DEF Window!WriterReceives
  <2>2. CASE logs # <<>> /\ ~slot
    <3>1. logs' = logs /\ writer' = "log" /\ writer = "recv" BY <1>5,
      <2>2 DEF Window!WriterReceives
    <3>2. Window!Waiting' <= LogQueue BY <1>1, <1>2, <3>1 DEF Window!Waiting, LogInv
    <3> QED BY <1>1, <2>2, <3>1, <3>2 DEF LogInv
  <2>3. CASE logs = <<>>
    <3>1. logs' = logs /\ writer' # "log" /\ writer = "recv" BY <1>5,
      <2>3 DEF Window!WriterReceives
    <3> QED BY <1>1, <3>1 DEF LogInv, Window!Waiting
  <2> QED BY <2>1, <2>2, <2>3
<1>6. CASE Window!WriterWrites
  <2>1. CASE writer = "log"
    <3>1. logs # <<>> BY <1>1, <2>1 DEF LogInv
    <3>2. logs' = Tail(logs) /\ writer' # "log" BY <1>6, <2>1 DEF Window!WriterWrites
    <3> QED BY <1>4, <2>1, <3>1, <3>2
  <2>2. CASE writer = "done"
    <3>1. logs' = logs /\ writer' = "gone" BY <1>6, <2>2 DEF Window!WriterWrites
    <3> QED BY <1>1, <2>2, <3>1 DEF LogInv, Window!Waiting
  <2> QED BY <1>6, <2>1, <2>2 DEF Window!WriterWrites
<1>7. CASE logs' = logs /\ (writer' = writer \/ (writer # "log" /\ writer' # "log"))
  BY <1>1, <1>7 DEF LogInv, Window!Waiting
<1>8. CASE Window!WriterLooks \/ Window!WriterCloses \/ Window!WriterWakes
           \/ Window!MainNext \/ Window!Stall
  <2>1. logs' = logs BY <1>8 DEF Window!WriterLooks, Window!WriterCloses, Window!WriterWakes,
    Window!MainNext, Window!Stall,
       Window!FindsAnother, Window!StartXaml, Window!StartDialog, Window!SpawnFails,
       Window!Fails, Window!FailureTold, Window!FailureTimesOut,
       Window!WindowMessage, Window!OtherMessage, Window!CloseWindow, Window!DialogFails,
       Window!DialogCreated, Window!DialogApplied,
       Window!DialogClosed, Window!Exits, Window!telemetry
  <2>2. writer' = writer \/ (writer # "log" /\ writer' # "log")
    BY <1>1, <1>8 DEF Window!WriterLooks, Window!WriterCloses, Window!WriterWakes,
       Window!MainNext, Window!Stall,
       Window!FindsAnother, Window!StartXaml, Window!StartDialog, Window!SpawnFails,
       Window!Fails, Window!FailureTold, Window!FailureTimesOut,
       Window!WindowMessage, Window!OtherMessage, Window!CloseWindow, Window!DialogFails,
       Window!DialogCreated, Window!DialogApplied,
       Window!DialogClosed, Window!Exits, Window!telemetry, Window!StartedWorker, StageInv
  <2> QED BY <2>1, <2>2, <1>7
<1>9. CASE Window!StartDeployer \/ Window!Push \/ Window!DeployerExits
           \/ Window!ReleaseGuard \/ Window!ReportResult \/ Window!FinishUi
           \/ Window!WorkerEnds
  BY <1>7, <1>9 DEF Window!StartDeployer, Window!Push, Window!DeployerExits,
     Window!ReleaseGuard, Window!ReportResult, Window!FinishUi,
     Window!WorkerEnds, Window!telemetry
<1> QED BY <1>1, <1>3, <1>5, <1>6, <1>8, <1>9 DEF Window!Next, Window!WorkerNext,
  Window!WriterNext

\* What is posted is bounded by what was printed.
LEMMA PostedStep == ThreadTypes /\ PostedInv /\ StageInv /\ Window!Next => PostedInv'
<1>1. SUFFICES ASSUME ThreadTypes, PostedInv, StageInv, Window!Next PROVE PostedInv' OBVIOUS
<1>2. produced \in Nat /\ posted \in Nat /\ MaxOutput \in Nat
  BY <1>1, WindowConstants DEF ThreadTypes, PostedInv
<1>3. CASE Window!Push BY <1>1, <1>2, <1>3 DEF Window!Push, PostedInv
<1>4. CASE Window!Publish
  <2>1. posted' \in {posted, posted + 1} BY <1>4 DEF Window!Publish, Window!Notified
  <2>2. worker = "pushed" /\ worker' = "child" /\ produced' = produced BY <1>4 DEF Window!Publish
  <2> QED BY <1>1, <1>2, <2>1, <2>2 DEF PostedInv
<1>5. CASE Window!WorkerEnds
  <2>1. posted' \in {posted, posted + 1} BY <1>5 DEF Window!WorkerEnds, Window!Notified
  <2>2. worker = "finished" /\ worker' = "gone" /\ produced' = produced BY <1>5 DEF Window!WorkerEnds
  <2> QED BY <1>1, <1>2, <2>1, <2>2 DEF PostedInv
<1>6. CASE Window!WindowMessage BY <1>1, <1>2, <1>6 DEF Window!WindowMessage, PostedInv
<1>7. CASE UNCHANGED <<produced, posted>> /\ worker' # "pushed"
           /\ (worker' = worker \/ (worker # "gone" /\ worker # "pushed"))
  BY <1>1, <1>2, <1>7 DEF PostedInv
<1>8. CASE UNCHANGED <<produced, posted, worker>>
  BY <1>1, <1>8 DEF PostedInv
<1>9. CASE Window!StartDeployer \/ Window!DeployerExits \/ Window!ReleaseGuard
           \/ Window!ReportResult \/ Window!FinishUi
  BY <1>7, <1>9 DEF Window!StartDeployer, Window!DeployerExits, Window!ReleaseGuard,
     Window!ReportResult, Window!FinishUi, Window!ui
<1>10. CASE Window!StartXaml \/ Window!StartDialog
  <2>1. worker = "none" BY <1>1, <1>10 DEF Window!StartXaml, Window!StartDialog, StageInv
  <2> QED BY <2>1, <1>7, <1>10 DEF Window!StartXaml, Window!StartDialog, Window!StartedWorker,
    Window!ui
<1>11. CASE Window!WriterNext \/ Window!FindsAnother \/ Window!SpawnFails \/ Window!Fails
            \/ Window!FailureTold \/ Window!FailureTimesOut
            \/ Window!OtherMessage \/ Window!CloseWindow \/ Window!DialogFails \/ Window!DialogCreated \/ Window!DialogApplied
            \/ Window!DialogClosed \/ Window!Exits \/ Window!Stall
  BY <1>8, <1>11 DEF Window!WriterNext, Window!WriterLooks, Window!WriterReceives,
     Window!WriterCloses, Window!WriterWakes,
     Window!WriterWrites, Window!WriterOnly, Window!FindsAnother, Window!SpawnFails,
     Window!Fails, Window!FailureTold, Window!FailureTimesOut,
     Window!OtherMessage, Window!CloseWindow, Window!DialogFails, Window!DialogCreated,
     Window!DialogApplied, Window!DialogClosed, Window!Exits,
     Window!Stall, Window!ui
<1> QED BY <1>1, <1>3, <1>4, <1>5, <1>6, <1>9, <1>10, <1>11 DEF Window!Next, Window!WorkerNext,
  Window!MainNext

\* A deployment begins once, with nothing of an earlier one.
LEMMA StageStep == ThreadTypes /\ UiTypes /\ LogInv /\ StageInv /\ Window!Next => StageInv'
<1>1. SUFFICES ASSUME ThreadTypes, UiTypes, LogInv, StageInv, Window!Next PROVE StageInv'
  OBVIOUS
<1>2. CASE Window!WorkerNext
  <2>1. /\ worker # "none" /\ worker' \notin {"none", "started"}
        /\ UNCHANGED <<main, kind, writer, wire>>
        /\ runs' = (IF Window!StartDeployer THEN runs + 1 ELSE runs)
        /\ Window!StartDeployer => worker = "started"
    BY <1>2 DEF Window!WorkerNext, Window!StartDeployer, Window!Push, Window!Publish,
       Window!DeployerExits, Window!ReleaseGuard,
       Window!ReportResult, Window!FinishUi, Window!WorkerEnds, Window!telemetry
  <2>2. main \notin {"init", "failing", "waiting"} BY <1>1, <2>1 DEF StageInv
  <2>3. runs' <= 1 BY <1>1, <2>1 DEF StageInv, ThreadTypes
  <2> QED BY <1>1, <2>1, <2>2, <2>3 DEF StageInv
<1>3. CASE Window!WriterNext
  <2>1. /\ writer # "none" /\ UNCHANGED <<main, kind, worker, runs, produced, Window!ui>>
        /\ (worker = "none" /\ logs = <<>> => logs' = <<>>)
    <3>1. writer = "log" => logs # <<>> BY <1>1 DEF LogInv
    <3>2. CASE ~Window!WriterWrites
      BY <1>3, <3>2 DEF Window!WriterNext, Window!WriterLooks, Window!WriterReceives,
         Window!WriterCloses, Window!WriterWakes,
         Window!WriterOnly
    <3>3. CASE Window!WriterWrites
      BY <1>3, <3>1, <3>3 DEF Window!WriterWrites, Window!WriterOnly
    <3> QED BY <3>2, <3>3
  <2> QED BY <1>1, <2>1 DEF StageInv, Window!ui
<1>4. CASE Window!FindsAnother \/ Window!SpawnFails \/ Window!Fails
  BY <1>1, <1>4 DEF Window!FindsAnother, Window!SpawnFails, Window!Fails, StageInv, Window!ui,
     Window!telemetry
<1>5. CASE Window!StartXaml \/ Window!StartDialog
  BY <1>1, <1>5 DEF Window!StartXaml, Window!StartDialog, Window!StartedWorker, StageInv,
     Window!ui
<1>6. CASE Window!WindowMessage \/ Window!OtherMessage \/ Window!CloseWindow
  <2>1. main = "loop" /\ Window!Taken /\ UNCHANGED <<kind, worker, runs, produced, dialog, logs, writer,
                                              wire, slot>>
        /\ main' \in {"loop", "joining"}
    BY <1>6 DEF Window!WindowMessage, Window!OtherMessage, Window!CloseWindow, Window!telemetry
  <2>2. CASE worker # "none" BY <1>1, <2>1, <2>2 DEF StageInv
  <2>3. CASE worker = "none"
    <3>1. mail.chunks = <<>> /\ text.lines = <<>> BY <1>1, <2>3 DEF StageInv
    <3>2. text'.lines = <<>>
      <4>1. text'.lines = Window!Newest(<<>> \o <<>>, Preview) BY <2>1, <3>1 DEF Window!Taken
      <4>2. <<>> \o <<>> = <<>> /\ Len(<<>>) = 0 OBVIOUS
      <4> QED BY <4>1, <4>2, WindowConstants DEF Window!Newest
    <3>3. mail'.chunks = <<>> /\ ~mail'.complete
      BY <2>1 DEF Window!Taken, Window!EmptyMail
    <3>4. ~finished' BY <1>1, <2>1, <2>3 DEF Window!Taken, StageInv
    <3> QED BY <1>1, <2>1, <2>3, <3>2, <3>3, <3>4 DEF StageInv
  <2> QED BY <2>2, <2>3
<1>7. CASE Window!DialogCreated \/ Window!DialogApplied \/ Window!DialogClosed
  <2>1. /\ main \in {"showing", "applying", "dialog"}
        /\ main' \in {"applying", "dialog", "joining"}
        /\ UNCHANGED <<kind, worker, runs, produced, mail, text, finished, logs, writer, wire,
                       slot>>
    BY <1>7 DEF Window!DialogCreated, Window!DialogApplied, Window!DialogClosed,
       Window!telemetry
  <2>2. dialog'.cached = dialog.cached /\ dialog'.sending = dialog.sending
        /\ dialog'.copied \in {dialog.copied, dialog.cached}
        /\ dialog'.shown \in {dialog.shown, dialog.copied}
    BY <1>1, <1>7 DEF Window!DialogCreated, Window!DialogApplied, Window!DialogClosed, UiTypes
  <2> QED BY <1>1, <2>1, <2>2 DEF StageInv
<1>8. CASE Window!FailureTold \/ Window!FailureTimesOut \/ Window!DialogFails
           \/ Window!Exits \/ Window!Stall
  BY <1>1, <1>8 DEF Window!FailureTold, Window!FailureTimesOut, Window!DialogFails,
     Window!Exits, Window!Stall, StageInv, Window!ui,
     Window!telemetry
<1> QED BY <1>1, <1>2, <1>3, <1>4, <1>5, <1>6, <1>7, <1>8 DEF Window!Next, Window!MainNext

\* What a deployment that has ended stays: ended, with the lock free.
LEMMA DoneStays ==
  ASSUME StageInv, OutcomeInv, Window!Next, Done
  PROVE  Done' /\ guard' = "free"
<1>1. worker # "none" /\ main \notin {"init", "failing", "waiting"} /\ guard = "free"
  BY DEF Done, StageInv, OutcomeInv
<1>2. CASE Window!WorkerNext
  BY <1>1, <1>2 DEF Done, Window!WorkerNext, Window!StartDeployer, Window!Push, Window!Publish,
     Window!DeployerExits, Window!ReleaseGuard,
     Window!ReportResult, Window!FinishUi, Window!WorkerEnds
<1>3. CASE Window!WriterNext \/ Window!Stall
  BY <1>1, <1>3 DEF Done, Window!WriterNext, Window!WriterLooks, Window!WriterReceives,
     Window!WriterCloses, Window!WriterWakes,
     Window!WriterWrites, Window!WriterOnly, Window!Stall
<1>4. CASE Window!MainNext
  BY <1>1, <1>4 DEF Done, Window!MainNext, Window!FindsAnother, Window!StartXaml,
     Window!StartDialog, Window!SpawnFails, Window!Fails,
     Window!FailureTold, Window!FailureTimesOut, Window!WindowMessage, Window!OtherMessage,
     Window!CloseWindow, Window!DialogFails,
     Window!DialogCreated, Window!DialogApplied, Window!DialogClosed, Window!Exits
<1> QED BY <1>2, <1>3, <1>4 DEF Window!Next

\* Before that nothing tells of a result.
LEMMA OutcomeStep ==
  ThreadTypes /\ UiTypes /\ LogInv /\ StageInv /\ WireInv /\ OutcomeInv /\ Window!Next => OutcomeInv'
<1>1. SUFFICES ASSUME ThreadTypes, UiTypes, LogInv, StageInv, WireInv, OutcomeInv, Window!Next
               PROVE  OutcomeInv'
  OBVIOUS
<1>2. CASE Done
  <2>1. Done' /\ guard' = "free" BY <1>1, <1>2, DoneStays
  <2> QED BY <2>1 DEF OutcomeInv
<1>3. CASE ~Done
  <2>1. /\ ~mail.complete /\ ~finished
        /\ ~dialog.cached /\ ~dialog.copied /\ ~dialog.shown /\ ~dialog.sending
        /\ ~(main = "joining" /\ kind = "xaml")
        /\ worker # "none" => ~slot /\ writer # "done" /\ \A i \in DOMAIN wire : wire[i] # 0
    BY <1>1, <1>3 DEF OutcomeInv
  <2>2. CASE Window!ReleaseGuard BY <2>2 DEF Window!ReleaseGuard, Done, OutcomeInv
  <2>3. CASE Window!WorkerNext /\ ~Window!ReleaseGuard
    <3>1. /\ worker \in {"started", "child", "pushed"}
          /\ worker' \in {"child", "pushed", "ended"}
          /\ UNCHANGED <<main, kind, finished, dialog, slot, writer, wire>>
          /\ mail'.complete = mail.complete
      BY <1>1, <1>3, <2>3 DEF Window!WorkerNext, Window!StartDeployer, Window!Push,
         Window!Publish, Window!DeployerExits, Window!ReportResult,
         Window!FinishUi, Window!WorkerEnds, Done, Window!telemetry, Window!ui, UiTypes
    <3> QED BY <2>1, <3>1 DEF OutcomeInv, Done
  <2>4. CASE Window!WriterNext
    <3>1. worker' = worker /\ guard' = guard /\ UNCHANGED <<main, kind, Window!ui>>
      BY <2>4 DEF Window!WriterNext, Window!WriterLooks, Window!WriterReceives,
         Window!WriterCloses, Window!WriterWakes, Window!WriterWrites,
         Window!WriterOnly
    <3>2. ASSUME worker # "none"
          PROVE  ~slot' /\ writer' # "done" /\ \A i \in DOMAIN wire' : wire'[i] # 0
      <4>1. CASE ~Window!WriterWrites
        BY <2>1, <2>4, <3>2, <4>1 DEF Window!WriterNext, Window!WriterLooks,
           Window!WriterReceives, Window!WriterCloses,
           Window!WriterWakes
      <4>2. CASE Window!WriterWrites
        <5>1. writer = "log" /\ slot' = slot /\ writer' \in {"look", "gone"}
              /\ wire' \in {wire, Append(wire, Head(logs))}
          BY <2>1, <3>2, <4>2 DEF Window!WriterWrites
        <5>2. Head(logs) \in Nat /\ Head(logs) # 0
          <6>1. logs \in Seq(Nat) /\ logs # <<>> BY <1>1, <5>1 DEF LogInv
          <6>2. Head(logs) = logs[1] /\ 1 \in DOMAIN logs /\ Head(logs) \in Nat
            BY <6>1, PiecesFacts
          <6> QED BY <1>1, <6>2 DEF LogInv
        <5>3. wire \in Seq(Nat) BY <1>1 DEF WireInv
        <5>4. \A i \in DOMAIN Append(wire, Head(logs)) :
                \/ i \in DOMAIN wire /\ Append(wire, Head(logs))[i] = wire[i]
                \/ Append(wire, Head(logs))[i] = Head(logs)
          BY <5>2, <5>3
        <5> QED BY <2>1, <3>2, <5>1, <5>2, <5>4
      <4> QED BY <4>1, <4>2
    <3> QED BY <1>3, <2>1, <3>1, <3>2 DEF OutcomeInv, Done, Window!ui
  <2>5. CASE Window!FindsAnother \/ Window!SpawnFails \/ Window!Fails
    <3>1. worker = "none" /\ worker' = "none" /\ UNCHANGED <<kind, Window!ui>>
          /\ main' \in {"failing", "waiting"}
      BY <1>1, <2>5 DEF Window!FindsAnother, Window!SpawnFails, Window!Fails, StageInv
    <3> QED BY <2>1, <3>1 DEF OutcomeInv, Done, Window!ui
  <2>6. CASE Window!StartXaml \/ Window!StartDialog
    <3>1. /\ worker' = "started" /\ wire' = <<>> /\ ~slot' /\ writer' = "look"
          /\ main' \in {"loop", "showing"} /\ UNCHANGED Window!ui
      BY <1>1, <2>6 DEF Window!StartXaml, Window!StartDialog, Window!StartedWorker, StageInv
    <3> QED BY <2>1, <3>1 DEF OutcomeInv, Done, Window!ui
  <2>7. CASE Window!WindowMessage \/ Window!OtherMessage \/ Window!CloseWindow
    <3>1. /\ Window!Taken /\ UNCHANGED <<kind, worker, dialog, slot, writer, wire>>
          /\ main' = IF Window!CloseWindow /\ finished' THEN "joining" ELSE main
          /\ main = "loop"
      BY <2>7 DEF Window!WindowMessage, Window!OtherMessage, Window!CloseWindow,
         Window!telemetry
    <3>2. ~finished' /\ ~mail'.complete BY <2>1, <3>1 DEF Window!Taken, Window!EmptyMail
    <3> QED BY <1>3, <2>1, <3>1, <3>2 DEF OutcomeInv, Done
  <2>8. CASE Window!DialogCreated \/ Window!DialogApplied
    <3>1. /\ UNCHANGED <<kind, worker, mail, finished, slot, writer, wire>>
          /\ main' \in {"applying", "dialog"}
          /\ ~dialog'.cached /\ ~dialog'.copied /\ ~dialog'.shown /\ ~dialog'.sending
      BY <1>1, <2>1, <2>8 DEF Window!DialogCreated, Window!DialogApplied, Window!telemetry,
         UiTypes
    <3> QED BY <1>3, <2>1, <3>1 DEF OutcomeInv, Done
  <2>9. CASE Window!DialogClosed BY <2>1, <2>9 DEF Window!DialogClosed
  <2>10. CASE Window!DialogFails \/ Window!FailureTold \/ Window!FailureTimesOut
              \/ Window!Exits \/ Window!Stall
    <3>1. /\ UNCHANGED <<kind, worker, mail, finished, dialog, slot, writer, wire>>
          /\ main' = "joining" => kind = "dialog"
      BY <1>1, <1>3, <2>1, <2>10 DEF Window!DialogFails, Window!FailureTold,
         Window!FailureTimesOut, Window!Exits, Window!Stall, Window!ui,
         Window!telemetry, StageInv, ThreadTypes
    <3> QED BY <1>3, <2>1, <3>1 DEF OutcomeInv, Done
  <2> QED BY <1>1, <2>2, <2>3, <2>4, <2>5, <2>6, <2>7, <2>8, <2>9, <2>10 DEF Window!Next,
    Window!MainNext
<1> QED BY <1>2, <1>3

\* The writer writes the result and is gone.
LEMMA WireStep == ThreadTypes /\ LogInv /\ StageInv /\ WireInv /\ Window!Next => WireInv'
<1>1. SUFFICES ASSUME ThreadTypes, LogInv, StageInv, WireInv, Window!Next PROVE WireInv' OBVIOUS
<1>2. wire \in Seq(Nat) /\ Len(wire) \in Nat BY <1>1 DEF WireInv
<1>3. CASE Window!WriterWrites
  <2>1. writer # "gone" /\ \A i \in DOMAIN wire : wire[i] # 0
    BY <1>1, <1>3 DEF Window!WriterWrites, WireInv
  <2>2. CASE wire' = wire BY <1>2, <2>1, <2>2 DEF WireInv
  <2>3. ASSUME NEW m \in Nat, wire' = Append(wire, m), m = 0 => writer' = "gone"
        PROVE  WireInv'
    <3>1. /\ wire' \in Seq(Nat) /\ Len(wire') = Len(wire) + 1
          /\ \A i \in DOMAIN wire' : \/ i = Len(wire) + 1 /\ wire'[i] = m
                                     \/ i \in DOMAIN wire /\ wire'[i] = wire[i]
      BY <1>2, <2>3
    <3> QED BY <2>1, <2>3, <3>1 DEF WireInv
  <2>4. CASE writer = "log" /\ wire' # wire
    <3>1. wire' = Append(wire, Head(logs)) BY <1>3, <2>4 DEF Window!WriterWrites
    <3>2. Head(logs) \in Nat /\ Head(logs) # 0
      <4>1. logs \in Seq(Nat) /\ logs # <<>> BY <1>1, <2>4 DEF LogInv
      <4>2. Head(logs) = logs[1] /\ 1 \in DOMAIN logs /\ Head(logs) \in Nat
        BY <4>1, PiecesFacts
      <4> QED BY <1>1, <4>2 DEF LogInv
    <3> QED BY <2>3, <3>1, <3>2
  <2>5. CASE writer = "done" /\ wire' # wire
    <3>1. wire' = Append(wire, 0) /\ writer' = "gone" BY <1>3, <2>5 DEF Window!WriterWrites
    <3> QED BY <2>3, <3>1
  <2> QED BY <1>3, <2>2, <2>4, <2>5 DEF Window!WriterWrites
<1>4. CASE main \in {"init", "failing"} /\ Window!MainNext
  <2>1. wire' = <<>>
    BY <1>1, <1>4 DEF StageInv, Window!MainNext, Window!FindsAnother, Window!StartXaml,
       Window!StartDialog, Window!SpawnFails, Window!Fails,
       Window!FailureTold, Window!FailureTimesOut, Window!WindowMessage, Window!OtherMessage,
       Window!CloseWindow, Window!DialogFails,
       Window!DialogCreated, Window!DialogApplied, Window!DialogClosed, Window!Exits,
       Window!telemetry
  <2> QED BY <2>1 DEF WireInv
<1>5. CASE wire' = wire /\ (writer = "gone" => writer' = "gone") BY <1>1, <1>5 DEF WireInv
<1>6. CASE main \notin {"init", "failing"} /\ Window!MainNext
  BY <1>5, <1>6 DEF Window!MainNext, Window!FindsAnother, Window!StartXaml, Window!StartDialog,
     Window!SpawnFails, Window!Fails,
     Window!FailureTold, Window!FailureTimesOut, Window!WindowMessage, Window!OtherMessage,
     Window!CloseWindow, Window!DialogFails,
     Window!DialogCreated, Window!DialogApplied, Window!DialogClosed, Window!Exits,
     Window!telemetry
<1>7. CASE Window!WorkerNext \/ Window!Stall \/ (Window!WriterNext /\ ~Window!WriterWrites)
  BY <1>5, <1>7 DEF Window!WorkerNext, Window!StartDeployer, Window!Push, Window!Publish,
     Window!DeployerExits, Window!ReleaseGuard,
     Window!ReportResult, Window!FinishUi, Window!WorkerEnds, Window!Stall, Window!WriterNext,
     Window!WriterLooks, Window!WriterReceives,
     Window!WriterCloses, Window!WriterWakes, Window!telemetry
<1> QED BY <1>1, <1>3, <1>4, <1>6, <1>7 DEF Window!Next, Window!WriterNext

\* A piece more: it is the newest of those that wait.
LEMMA TailPush ==
  ASSUME ThreadTypes, UiTypes, TailInv, Window!Push
  PROVE  TailInv'
<1>1. kind' = kind /\ text' = text /\ produced' = produced + 1 /\ produced \in Nat
  BY DEF Window!Push, ThreadTypes
<1>2. SUFFICES ASSUME kind = "xaml" PROVE TailInv'
  BY <1>1 DEF TailInv
<1> DEFINE all == Append(mail.chunks, produced + 1)
<1>3. mail' = [mail EXCEPT !.chunks = Window!Newest(all, Preview),
                           !.omitted = @ \/ Len(all) > Preview]
  BY <1>2 DEF Window!Push
<1>4. mail.chunks \in Seq(Nat) /\ Len(mail.chunks) <= Preview
      /\ mail \in [chunks : Seq(Nat), omitted : BOOLEAN, complete : BOOLEAN]
  BY DEF UiTypes
<1>5. mail'.chunks = Window!Newest(all, Preview)
      /\ (mail'.omitted <=> mail.omitted \/ Len(all) > Preview)
  BY <1>3, <1>4
<1> DEFINE k == Len(mail.chunks)
<1>6. k \in Nat BY <1>4
<1>7. /\ all \in Seq(Nat) /\ Len(all) = k + 1
      /\ \A i \in 1..k : all[i] = mail.chunks[i]
      /\ all[k + 1] = produced + 1
  <2>1. produced + 1 \in Nat BY <1>1
  <2> QED BY <1>4, <2>1, PiecesFacts
<1>8. \A i \in 1..k : mail.chunks[i] = produced - k + i BY <1>2 DEF TailInv
<1> HIDE DEF all, k
<1>9. \A i \in 1..k + 1 : all[i] = produced - k + i
  <2>1. TAKE i \in 1..k + 1
  <2>2. CASE i \in 1..k BY <1>7, <1>8, <2>2
  <2>3. CASE i = k + 1 BY <1>1, <1>6, <1>7, <2>3
  <2> QED BY <1>6, <2>1, <2>2, <2>3
<1> DEFINE kk == Len(Window!Newest(all, Preview))
<1>10. /\ kk = IF k + 1 > Preview THEN Preview ELSE k + 1
       /\ \A i \in 1..kk : Window!Newest(all, Preview)[i] = all[i + (k + 1 - kk)]
  <2>1. /\ Len(Window!Newest(all, Preview)) = IF Len(all) > Preview THEN Preview ELSE Len(all)
        /\ \A i \in 1..Len(Window!Newest(all, Preview)) :
             Window!Newest(all, Preview)[i] = all[i + (Len(all) - Len(Window!Newest(all, Preview)))]
    BY <1>7, NewestFacts, WindowConstants
  <2>2. Len(all) = k + 1 BY <1>7
  <2>3. kk = IF k + 1 > Preview THEN Preview ELSE k + 1 BY <2>1, <2>2 DEF kk
  <2>5. Len(Window!Newest(all, Preview)) \in Nat BY <1>6, <2>1, <2>2, WindowConstants
  <2>4. ASSUME NEW i \in 1..kk PROVE Window!Newest(all, Preview)[i] = all[i + (k + 1 - kk)]
    <3>1. Window!Newest(all, Preview)[i] = all[i + (Len(all) - Len(Window!Newest(all, Preview)))]
      BY <2>1, <2>4 DEF kk
    <3>2. Len(all) - Len(Window!Newest(all, Preview)) = k + 1 - kk BY <1>6, <2>2, <2>5 DEF kk
    <3> QED BY <3>1, <3>2
  <2> QED BY <2>3, <2>4
<1> HIDE DEF kk
<1>11. kk \in Nat /\ kk > 0 /\ kk <= k + 1 /\ (~(k + 1 > Preview) => kk = k + 1)
  BY <1>6, <1>10, WindowConstants
<1>12. \A i \in 1..kk : Window!Newest(all, Preview)[i] = (produced + 1) - kk + i
  <2>1. TAKE i \in 1..kk
  <2>2. i + (k + 1 - kk) \in 1..k + 1 BY <1>6, <1>11
  <2>3. all[i + (k + 1 - kk)] = produced - k + (i + (k + 1 - kk)) BY <1>9, <2>2
  <2>4. produced - k + (i + (k + 1 - kk)) = (produced + 1) - kk + i
    BY <1>1, <1>6, <1>11
  <2> QED BY <1>10, <2>3, <2>4
<1>13. ~text.truncated /\ ~mail'.omitted =>
         Len(text.lines) + kk = produced + 1 /\ \A i \in 1..Len(text.lines) : text.lines[i] = i
  <2>1. ASSUME ~text.truncated, ~mail'.omitted
        PROVE  Len(text.lines) + kk = produced + 1
               /\ \A i \in 1..Len(text.lines) : text.lines[i] = i
    <3>1. ~mail.omitted /\ ~(k + 1 > Preview) BY <1>5, <1>7, <2>1
    <3>2. Len(text.lines) + k = produced /\ \A i \in 1..Len(text.lines) : text.lines[i] = i
      BY <1>2, <2>1, <3>1 DEF TailInv, k
    <3>3. Len(text.lines) \in Nat BY DEF UiTypes
    <3> QED BY <1>6, <1>11, <3>1, <3>2, <3>3
  <2> QED BY <2>1
<1>14. Len(mail'.chunks) = kk BY <1>5 DEF kk
<1>15. \A i \in 1..Len(mail'.chunks) : mail'.chunks[i] = produced' - Len(mail'.chunks) + i
  BY <1>1, <1>5, <1>12, <1>14
<1>16. ~text'.truncated /\ ~mail'.omitted =>
         /\ Len(text'.lines) + Len(mail'.chunks) = produced'
         /\ \A i \in 1..Len(text'.lines) : text'.lines[i] = i
  BY <1>1, <1>13, <1>14
<1>17. Len(mail'.chunks) # 0 BY <1>11, <1>14
<1> QED BY <1>15, <1>16, <1>17 DEF TailInv

\* All that waits is shown: nothing waits then, and the end is the same.
LEMMA TailTaken ==
  ASSUME ThreadTypes, UiTypes, TailInv, Window!Taken, UNCHANGED <<kind, produced>>
  PROVE  TailInv'
<1>1. SUFFICES ASSUME kind = "xaml" PROVE TailInv' BY DEF TailInv
<1> DEFINE all == text.lines \o mail.chunks
           n == Len(text.lines)
           k == Len(mail.chunks)
<1>2. text.lines \in Seq(Nat) /\ mail.chunks \in Seq(Nat) /\ n \in Nat /\ k \in Nat
      /\ produced \in Nat
  BY DEF UiTypes, ThreadTypes
<1>3. /\ all \in Seq(Nat) /\ Len(all) = n + k
      /\ \A i \in 1..n : all[i] = text.lines[i]
      /\ \A i \in n + 1..n + k : all[i] = mail.chunks[i - n]
  BY <1>2, JoinFacts
<1>4. mail'.chunks = <<>> /\ ~mail'.omitted
      /\ text' = [lines |-> Window!Newest(all, Preview),
                  truncated |-> text.truncated \/ mail.omitted \/ Len(all) > Preview]
  BY DEF Window!Taken, Window!EmptyMail
<1> HIDE DEF all, n, k
<1>5. text'.lines = Window!Newest(all, Preview)
      /\ (text'.truncated <=> text.truncated \/ mail.omitted \/ Len(all) > Preview)
  BY <1>4
<1> DEFINE nn == Len(Window!Newest(all, Preview))
<1>6. /\ nn = IF n + k > Preview THEN Preview ELSE n + k
      /\ \A i \in 1..nn : Window!Newest(all, Preview)[i] = all[i + (n + k - nn)]
  <2>1. /\ Len(Window!Newest(all, Preview)) = IF Len(all) > Preview THEN Preview ELSE Len(all)
        /\ \A i \in 1..Len(Window!Newest(all, Preview)) :
             Window!Newest(all, Preview)[i] = all[i + (Len(all) - Len(Window!Newest(all, Preview)))]
    BY <1>3, NewestFacts, WindowConstants
  <2>2. Len(all) = n + k BY <1>3
  <2>3. nn = IF n + k > Preview THEN Preview ELSE n + k BY <2>1, <2>2 DEF nn
  <2>5. Len(Window!Newest(all, Preview)) \in Nat BY <1>2, <2>1, <2>2, WindowConstants
  <2>4. ASSUME NEW i \in 1..nn PROVE Window!Newest(all, Preview)[i] = all[i + (n + k - nn)]
    <3>1. Window!Newest(all, Preview)[i] = all[i + (Len(all) - Len(Window!Newest(all, Preview)))]
      BY <2>1, <2>4 DEF nn
    <3>2. Len(all) - Len(Window!Newest(all, Preview)) = n + k - nn BY <1>2, <2>2, <2>5 DEF nn
    <3> QED BY <3>1, <3>2
  <2> QED BY <2>3, <2>4
<1> HIDE DEF nn
<1>7. nn \in Nat /\ nn <= n + k /\ (n + k > 0 => nn > 0) BY <1>2, <1>6, WindowConstants
<1>8. /\ \A i \in 1..k : mail.chunks[i] = produced - k + i
      /\ ~text.truncated /\ ~mail.omitted =>
           n + k = produced /\ \A i \in 1..n : text.lines[i] = i
      /\ k = 0 /\ produced > 0 => n > 0 /\ text.lines[n] = produced
  BY <1>1 DEF TailInv, n, k
<1>9. ASSUME ~text'.truncated
      PROVE  nn = produced /\ \A i \in 1..nn : Window!Newest(all, Preview)[i] = i
  <2>1. ~text.truncated /\ ~mail.omitted /\ ~(n + k > Preview) BY <1>3, <1>5, <1>9
  <2>2. nn = n + k /\ n + k = produced /\ \A i \in 1..n : text.lines[i] = i
    BY <1>2, <1>6, <1>8, <2>1
  <2>3. ASSUME NEW i \in 1..nn PROVE Window!Newest(all, Preview)[i] = i
    <3>1. Window!Newest(all, Preview)[i] = all[i]
      <4>1. Window!Newest(all, Preview)[i] = all[i + (n + k - nn)] BY <1>6, <2>3
      <4>2. i \in Nat /\ nn \in Nat /\ n + k = nn BY <1>7, <2>2, <2>3
      <4>3. n + k - nn = nn - nn /\ nn - nn = 0 BY <1>2, <4>2
      <4>4. i + (n + k - nn) = i BY <4>2, <4>3
      <4> QED BY <4>1, <4>4
    <3>2. CASE i \in 1..n BY <1>3, <2>2, <3>1, <3>2
    <3>3. CASE i \in n + 1..n + k
      <4>1. i - n \in 1..k BY <1>2, <3>3
      <4>2. all[i] = mail.chunks[i - n] BY <1>3, <3>3
      <4>3. mail.chunks[i - n] = produced - k + (i - n) BY <1>8, <4>1
      <4> QED BY <1>2, <2>2, <3>1, <3>3, <4>2, <4>3
    <3> QED BY <1>2, <2>2, <2>3, <3>2, <3>3
  <2> QED BY <2>2, <2>3
<1>10. ASSUME produced > 0 PROVE nn > 0 /\ Window!Newest(all, Preview)[nn] = produced
  <2>1. all[n + k] = produced /\ n + k > 0
    <3>1. CASE k = 0 BY <1>2, <1>3, <1>8, <1>10, <3>1
    <3>2. CASE k > 0
      <4>1. n + k \in n + 1..n + k /\ (n + k) - n = k /\ k \in 1..k BY <1>2, <3>2
      <4>2. all[n + k] = mail.chunks[k] BY <1>3, <4>1
      <4>3. mail.chunks[k] = produced - k + k BY <1>8, <4>1
      <4> QED BY <1>2, <3>2, <4>2, <4>3
    <3> QED BY <1>2, <3>1, <3>2
  <2>2. nn \in 1..nn /\ nn + (n + k - nn) = n + k BY <1>2, <1>7, <2>1
  <2> QED BY <1>6, <1>7, <2>1, <2>2
<1>11. Len(<<>>) = 0 /\ Len(text'.lines) = nn BY <1>5 DEF nn
<1> QED BY <1>2, <1>4, <1>5, <1>7, <1>9, <1>10, <1>11 DEF TailInv

\* A step of the deployment keeps what is shown an end of what was produced.
LEMMA TailStep == ThreadTypes /\ UiTypes /\ StageInv /\ TailInv /\ Window!Next => TailInv'
<1>1. SUFFICES ASSUME ThreadTypes, UiTypes, StageInv, TailInv, Window!Next PROVE TailInv' OBVIOUS
<1>2. CASE Window!Push BY <1>1, <1>2, TailPush
<1>3. CASE Window!WindowMessage \/ Window!OtherMessage \/ Window!CloseWindow
  <2>1. Window!Taken /\ UNCHANGED <<kind, produced>>
    BY <1>3 DEF Window!WindowMessage, Window!OtherMessage, Window!CloseWindow
  <2> QED BY <1>1, <2>1, TailTaken
<1>4. CASE Window!StartXaml \/ Window!StartDialog
  <2>1. /\ produced' = 0 /\ mail'.chunks = <<>> /\ text'.lines = <<>>
    BY <1>1, <1>4 DEF Window!StartXaml, Window!StartDialog, StageInv, Window!ui
  <2>2. Len(<<>>) = 0 OBVIOUS
  <2> QED BY <2>1, <2>2 DEF TailInv
<1>5. CASE UNCHANGED <<kind, produced, mail, text>> BY <1>1, <1>5 DEF TailInv
<1>6. CASE Window!FinishUi
  <2>1. UNCHANGED <<kind, produced, text>> /\ mail'.chunks = mail.chunks
        /\ mail'.omitted = mail.omitted
    BY <1>1, <1>6 DEF Window!FinishUi, UiTypes
  <2> QED BY <1>1, <2>1 DEF TailInv
<1>7. CASE Window!StartDeployer \/ Window!Publish \/ Window!DeployerExits
           \/ Window!ReleaseGuard \/ Window!ReportResult \/ Window!WorkerEnds
           \/ Window!WriterNext \/ Window!Stall
  BY <1>5, <1>7 DEF Window!StartDeployer, Window!Publish, Window!DeployerExits,
     Window!ReleaseGuard, Window!ReportResult, Window!WorkerEnds,
     Window!WriterNext, Window!WriterLooks, Window!WriterReceives, Window!WriterCloses,
     Window!WriterWakes, Window!WriterWrites, Window!WriterOnly,
     Window!Stall, Window!ui
<1>8. CASE Window!FindsAnother \/ Window!SpawnFails \/ Window!Fails \/ Window!FailureTold
           \/ Window!FailureTimesOut \/ Window!DialogFails
           \/ Window!DialogCreated \/ Window!DialogApplied \/ Window!DialogClosed \/ Window!Exits
  BY <1>5, <1>8 DEF Window!FindsAnother, Window!SpawnFails, Window!Fails, Window!FailureTold,
     Window!FailureTimesOut, Window!DialogFails,
     Window!DialogCreated, Window!DialogApplied, Window!DialogClosed, Window!Exits, Window!ui
<1> QED BY <1>1, <1>2, <1>3, <1>4, <1>6, <1>7, <1>8 DEF Window!Next, Window!WorkerNext,
  Window!MainNext

\* A step of the deployment keeps all parts of its invariant.
LEMMA WindowStep == WindowInv /\ [Window!Next]_Window!vars => WindowInv'
<1>1. CASE UNCHANGED Window!vars
  BY <1>1 DEF WindowInv, Window!vars, ThreadTypes, UiTypes, LogInv, Window!Waiting, PostedInv,
     StageInv,
     OutcomeInv, Done, WireInv, TailInv
<1>2. CASE Window!Next
  BY <1>2, ThreadTypesStep, UiTypesStep, LogStep, PostedStep, StageStep, OutcomeStep, WireStep,
     TailStep DEF WindowInv
<1> QED BY <1>1, <1>2

\* What is seen is the log up to its last piece.
LEMMA TailShows == ThreadTypes /\ UiTypes /\ TailInv => Window!ShowsTheTail
<1>1. SUFFICES ASSUME ThreadTypes, UiTypes, TailInv, kind = "xaml", produced > 0
               PROVE  LET seen == text.lines \o mail.chunks IN
                      /\ seen # <<>> /\ Window!Last(seen) = produced
                      /\ \A i \in DOMAIN mail.chunks :
                           i > 1 => mail.chunks[i] = mail.chunks[i - 1] + 1
                      /\ \A i \in DOMAIN seen :
                           i > 1 /\ seen[i] # seen[i - 1] + 1 => text.truncated \/ mail.omitted
                      /\ Head(seen) # 1 => text.truncated \/ mail.omitted
  BY DEF Window!ShowsTheTail
<1> DEFINE seen == text.lines \o mail.chunks
           n == Len(text.lines)
           k == Len(mail.chunks)
<1>2. text.lines \in Seq(Nat) /\ mail.chunks \in Seq(Nat) /\ n \in Nat /\ k \in Nat
      /\ produced \in Nat
  BY <1>1 DEF UiTypes, ThreadTypes
<1>3. /\ seen \in Seq(Nat) /\ Len(seen) = n + k
      /\ \A i \in 1..n : seen[i] = text.lines[i]
      /\ \A i \in n + 1..n + k : seen[i] = mail.chunks[i - n]
  BY <1>2, JoinFacts
<1>11. DOMAIN seen = 1..n + k
  <2>1. DOMAIN seen = 1..Len(seen) BY <1>3, PiecesFacts
  <2> QED BY <1>3, <2>1
<1>4. /\ \A i \in 1..k : mail.chunks[i] = produced - k + i
      /\ ~text.truncated /\ ~mail.omitted =>
           n + k = produced /\ \A i \in 1..n : text.lines[i] = i
      /\ k = 0 /\ produced > 0 => n > 0 /\ text.lines[n] = produced
  BY <1>1 DEF TailInv
<1>5. DOMAIN mail.chunks = 1..k BY <1>2
<1> HIDE DEF seen, n, k
<1>6. seen[n + k] = produced /\ n + k > 0
  <2>1. CASE k = 0 BY <1>1, <1>2, <1>3, <1>4, <2>1
  <2>2. CASE k > 0
    <3>1. n + k \in n + 1..n + k /\ (n + k) - n = k /\ k \in 1..k BY <1>2, <2>2
    <3>2. seen[n + k] = mail.chunks[k] BY <1>3, <3>1
    <3>3. mail.chunks[k] = produced - k + k BY <1>4, <3>1
    <3> QED BY <1>2, <2>2, <3>2, <3>3
  <2> QED BY <1>2, <2>1, <2>2
<1>7. seen # <<>> /\ Window!Last(seen) = produced
  <2>1. Window!Last(seen) = seen[Len(seen)] BY DEF Window!Last
  <2> QED BY <1>2, <1>3, <1>6, <2>1
<1>8. \A i \in DOMAIN mail.chunks : i > 1 => mail.chunks[i] = mail.chunks[i - 1] + 1
  <2>1. SUFFICES ASSUME NEW i \in 1..k, i > 1
                 PROVE  mail.chunks[i] = mail.chunks[i - 1] + 1
    BY <1>5
  <2>2. i - 1 \in 1..k BY <1>2, <2>1
  <2>3. mail.chunks[i] = produced - k + i /\ mail.chunks[i - 1] = produced - k + (i - 1)
    BY <1>4, <2>2
  <2> QED BY <1>2, <2>1, <2>3
<1>9. ASSUME ~text.truncated, ~mail.omitted PROVE \A i \in 1..n + k : seen[i] = i
  <2>1. TAKE i \in 1..n + k
  <2>2. n + k = produced /\ \A j \in 1..n : text.lines[j] = j BY <1>4, <1>9
  <2>3. CASE i \in 1..n BY <1>3, <2>2, <2>3
  <2>4. CASE i \in n + 1..n + k
    <3>1. i - n \in 1..k BY <1>2, <2>4
    <3>2. seen[i] = mail.chunks[i - n] BY <1>3, <2>4
    <3>3. mail.chunks[i - n] = produced - k + (i - n) BY <1>4, <3>1
    <3> QED BY <1>2, <2>2, <2>4, <3>2, <3>3
  <2> QED BY <1>2, <2>1, <2>3, <2>4
<1>10. ASSUME ~text.truncated, ~mail.omitted
       PROVE  /\ \A i \in DOMAIN seen : i > 1 => seen[i] = seen[i - 1] + 1
              /\ Head(seen) = 1
  <2>1. \A i \in DOMAIN seen : i > 1 => seen[i] = seen[i - 1] + 1
    <3>1. SUFFICES ASSUME NEW i \in 1..n + k, i > 1 PROVE seen[i] = seen[i - 1] + 1 BY <1>11
    <3>2. i - 1 \in 1..n + k BY <1>2, <3>1
    <3>3. seen[i] = i /\ seen[i - 1] = i - 1 BY <1>9, <1>10, <3>2
    <3> QED BY <3>1, <3>3
  <2>2. Head(seen) = seen[1] BY <1>3, <1>7
  <2>3. 1 \in 1..n + k BY <1>2, <1>6
  <2>4. seen[1] = 1 BY <1>9, <1>10, <2>3
  <2> QED BY <2>1, <2>2, <2>4
<1> QED BY <1>7, <1>8, <1>10 DEF seen

\* The parts say what Deploy.Inv asks of the window, the lock and the result.
LEMMA WindowSafe == WindowInv => Window!Inv
<1>1. SUFFICES ASSUME WindowInv PROVE Window!Inv OBVIOUS
<1>2. Window!TypeOK
  <2>1. posted \in 0 .. MaxOutput + 1
    BY <1>1, WindowConstants DEF WindowInv, PostedInv, ThreadTypes
  <2>2. {waking, finished, slot, shut, token, told, stalled} \subseteq BOOLEAN
    BY <1>1 DEF WindowInv, ThreadTypes
  <2> QED BY <1>1, <2>1, <2>2 DEF WindowInv, Window!TypeOK, ThreadTypes, UiTypes, LogInv
<1>3. Window!DeployedOnce BY <1>1 DEF WindowInv, StageInv, Window!DeployedOnce
<1>4. Window!ShowsTheTail BY <1>1, TailShows DEF WindowInv
<1>5. Window!ResultMeansFree
  <2>1. 0 \in Window!ToSet(wire) => \E i \in DOMAIN wire : wire[i] = 0 BY DEF Window!ToSet
  <2> QED BY <1>1, <2>1 DEF WindowInv, OutcomeInv, Done, Window!ResultMeansFree
<1>6. Window!ClosesWhenDone BY <1>1 DEF WindowInv, OutcomeInv, Window!ClosesWhenDone
<1>7. Window!ResultIsLast BY <1>1 DEF WindowInv, WireInv, Window!ResultIsLast
<1> QED BY <1>2, <1>3, <1>4, <1>5, <1>6, <1>7 DEF Window!Inv

-----------------------------------------------------------------------------
(* The RPC connection.                                                     *)

Messages == Calls \cup {Rpc!Event, Rpc!Bad, Rpc!Hello}
Places == {"none", "hello", "run", "gone"}

\* What TypeOK leaves out.
ConnectionTyped ==
  /\ ended \in [Rpc!Sides -> BOOLEAN]
  /\ waiting \in [open : BOOLEAN, ids : SUBSET Calls] /\ IsFiniteSet(waiting.ids)
  /\ outq \in [Rpc!Sides -> Seq(Messages)] /\ pipe \in [Rpc!Sides -> Seq(Messages)]
  /\ inq \in Seq(Messages)
  /\ business \subseteq Messages /\ stream \subseteq Messages /\ dispatched \subseteq Messages
  /\ events \in Nat /\ failures \in Nat

\* A request that waits for its answer is registered, and none is once the client
\* drained its requests for the last time.
RegisteredInv ==
  /\ \A c \in Calls : Rpc!Open(c) /\ call[c] # "checked" /\ answer[c] = "none" => c \in waiting.ids
  /\ ~waiting.open => waiting.ids = {}
  /\ reads.client = "gone" \/ writing.client = "gone" => ~waiting.open

\* An answer that a request was told of was published before.
PublishedInv ==
  /\ dispatched \subseteq stream
  /\ \A c \in Calls : answer[c] = "reply" => c \in stream

\* The server's end is made once.
ServedInv ==
  /\ reads.client = "none" => instance # "connected" /\ reads.server = "none"
  /\ instance = "connected" => reads.server = "none"

RpcInv ==
  /\ Rpc!TypeOK /\ ConnectionTyped
  /\ RegisteredInv /\ Rpc!PlacesAreGivenBack
  /\ PublishedInv /\ Rpc!StreamComesFirst
  /\ ServedInv /\ Rpc!ErrorIsLast

-----------------------------------------------------------------------------

\* What the connection assumes of its sizes; the marks are not requests.
LEMMA RpcConstants ==
  /\ Calls \subseteq Nat \ {0}
  /\ MaxPending \in Nat /\ OutQueue \in Nat /\ InQueue \in Nat /\ Pipe \in Nat /\ MaxEvents \in Nat
  /\ RpcFaults \in Nat
  /\ Rpc!Bad \notin Calls /\ Rpc!Event \notin Calls /\ Rpc!Hello \notin Calls
BY ConstantsAreRight DEF ConstantsAssumption, Rpc!RpcCallAssumption, Rpc!Bad, Rpc!Event,
   Rpc!Hello

\* Sequences: the types and lengths of what a queue becomes.
LEMMA QueueFacts ==
  ASSUME NEW S, NEW q \in Seq(S)
  PROVE  /\ Len(q) \in Nat
         /\ \A x \in S : Append(q, x) \in Seq(S) /\ Len(Append(q, x)) = Len(q) + 1
         /\ q # <<>> => Head(q) \in S /\ Tail(q) \in Seq(S) /\ Len(Tail(q)) = Len(q) - 1
         /\ <<>> \in Seq(S) /\ Len(<<>>) = 0
OBVIOUS

\* The parts say what RpcCall.Inv asks of the connection.
LEMMA RpcSafe == RpcInv => Rpc!Inv
BY DEF RpcInv, Rpc!Inv, Rpc!NobodyWaitsOnTheDead, RegisteredInv, Rpc!Hung, Rpc!Open

\* The library's Cardinality, as the instance of RpcCall sees it.
LEMMA RpcCardinality == \A S : Rpc!Cardinality(S) = Cardinality(S)
<1>1. ASSUME NEW S PROVE Rpc!IsFiniteSet(S) = IsFiniteSet(S)
  BY DEF Rpc!IsFiniteSet, IsFiniteSet
<1>2. ASSUME NEW S PROVE Rpc!Cardinality(S) = Cardinality(S)
  BY DEF Rpc!Cardinality, Cardinality
<1> QED BY <1>2

\* An RPC connection starts with nothing registered and nothing on its way.
LEMMA RpcInit == Rpc!Init => RpcInv
<1>1. SUFFICES ASSUME Rpc!Init PROVE RpcInv OBVIOUS
<1>2. Rpc!TypeOK
  <2>1. Cardinality({}) = 0 /\ Len(<<>>) = 0 BY FS_EmptySet
  <2> QED BY <1>1, <2>1, RpcConstants, RpcCardinality DEF Rpc!Init, Rpc!TypeOK, Rpc!Sides
<1>3. ConnectionTyped
  <2>1. IsFiniteSet({}) /\ <<>> \in Seq(Messages) BY FS_EmptySet
  <2> QED BY <1>1, <2>1 DEF Rpc!Init, ConnectionTyped, Rpc!Sides
<1>4. RegisteredInv /\ Rpc!PlacesAreGivenBack /\ PublishedInv /\ Rpc!StreamComesFirst /\ ServedInv
  BY <1>1 DEF Rpc!Init, RegisteredInv, Rpc!PlacesAreGivenBack, PublishedInv,
     Rpc!StreamComesFirst, ServedInv,
              Rpc!Sides, Rpc!Open
<1>5. Rpc!ErrorIsLast BY <1>1 DEF Rpc!Init, Rpc!ErrorIsLast
<1> QED BY <1>2, <1>3, <1>4, <1>5 DEF RpcInv

-----------------------------------------------------------------------------
\* The two sides of a connection, and the types of what each has.
LEMMA SideTypes ==
  ASSUME Rpc!TypeOK, ConnectionTyped
  PROVE  /\ Rpc!Sides = {"client", "server"}
         /\ reads \in [Rpc!Sides -> Places] /\ writing \in [Rpc!Sides -> Places]
         /\ call \in [Calls -> {"idle", "checked", "sending", "waiting"} \cup Rpc!Ends]
         /\ answer \in [Calls -> {"none", "reply", "disconnected"}]
         /\ ended \in [Rpc!Sides -> BOOLEAN]
         /\ waiting \in [open : BOOLEAN, ids : SUBSET Calls]
BY DEF Rpc!TypeOK, ConnectionTyped, Places, Rpc!Sides

\* The requests told when the client's connection closes.
LEMMA ClosesTyped ==
  ASSUME Rpc!TypeOK, ConnectionTyped, NEW s \in Rpc!Sides, Rpc!Closes(s)
  PROVE  /\ answer' \in [Calls -> {"none", "reply", "disconnected"}]
         /\ waiting' \in [open : BOOLEAN, ids : SUBSET Calls]
         /\ IsFiniteSet(waiting'.ids) /\ Cardinality(waiting'.ids) <= MaxPending
         /\ ended' \in [Rpc!Sides -> BOOLEAN]
<1>1. IsFiniteSet({}) /\ Cardinality({}) = 0 BY FS_EmptySet
<1>2. ended' \in [Rpc!Sides -> BOOLEAN] BY DEF Rpc!Closes, ConnectionTyped
<1>3. CASE s = "client"
  <2>1. /\ waiting' = [open |-> FALSE, ids |-> {}]
        /\ answer' = [c \in Calls |-> IF c \in waiting.ids THEN "disconnected" ELSE answer[c]]
    BY <1>3 DEF Rpc!Closes, Rpc!Drained, Rpc!Disconnected
  <2>2. waiting' \in [open : BOOLEAN, ids : SUBSET Calls] /\ waiting'.ids = {} BY <2>1
  <2>3. answer' \in [Calls -> {"none", "reply", "disconnected"}] BY <2>1 DEF Rpc!TypeOK
  <2>4. IsFiniteSet(waiting'.ids) /\ Cardinality(waiting'.ids) = 0 BY <1>1, <2>2
  <2> QED BY <1>2, <2>2, <2>3, <2>4, RpcConstants
<1>4. CASE s # "client"
  BY <1>2, <1>4, RpcCardinality DEF Rpc!Closes, Rpc!TypeOK, ConnectionTyped
<1> QED BY <1>3, <1>4

\* A request that leaves the pending ones leaves fewer.
LEMMA CancelledTyped ==
  ASSUME Rpc!TypeOK, ConnectionTyped, NEW c
  PROVE  /\ [waiting EXCEPT !.ids = @ \ {c}] \in [open : BOOLEAN, ids : SUBSET Calls]
         /\ [waiting EXCEPT !.ids = @ \ {c}].ids = waiting.ids \ {c}
         /\ [waiting EXCEPT !.ids = @ \ {c}].open = waiting.open
         /\ IsFiniteSet(waiting.ids \ {c}) /\ Cardinality(waiting.ids \ {c}) <= MaxPending
<1>1. waiting \in [open : BOOLEAN, ids : SUBSET Calls] /\ IsFiniteSet(waiting.ids)
      /\ Cardinality(waiting.ids) <= MaxPending
  BY RpcCardinality DEF Rpc!TypeOK, ConnectionTyped
<1>2. IsFiniteSet(waiting.ids \ {c})
      /\ Cardinality(waiting.ids \ {c}) = IF c \in waiting.ids THEN Cardinality(waiting.ids) - 1
                                          ELSE Cardinality(waiting.ids)
  BY <1>1, FS_RemoveElement
<1>3. Cardinality(waiting.ids) \in Nat BY <1>1, FS_CardinalityType
<1>4. Cardinality(waiting.ids \ {c}) <= MaxPending BY <1>1, <1>2, <1>3, RpcConstants
<1> QED BY <1>1, <1>2, <1>4

CallTypes ==
  /\ call \in [Calls -> {"idle", "checked", "sending", "waiting"} \cup Rpc!Ends]
  /\ answer \in [Calls -> {"none", "reply", "disconnected"}]
  /\ waiting \in [open : BOOLEAN, ids : SUBSET Calls] /\ IsFiniteSet(waiting.ids)
  /\ Cardinality(waiting.ids) <= MaxPending
  /\ ended \in [Rpc!Sides -> BOOLEAN]

TaskTypes ==
  /\ instance \in {"none", "listening", "connected"}
  /\ reads \in [Rpc!Sides -> Places] /\ writing \in [Rpc!Sides -> Places]
  /\ events \in Nat /\ failures \in Nat

QueueTypes ==
  /\ outq \in [Rpc!Sides -> Seq(Messages)]
  /\ pipe \in [Rpc!Sides -> Seq(Messages)] /\ \A s \in Rpc!Sides : Len(pipe[s]) <= Pipe
  /\ inq \in Seq(Messages) /\ Len(inq) <= InQueue
  /\ business \subseteq Messages /\ stream \subseteq Messages /\ dispatched \subseteq Messages

\* The types of the connection, in three parts.
LEMMA TypeParts == Rpc!TypeOK /\ ConnectionTyped <=> CallTypes /\ TaskTypes /\ QueueTypes
BY RpcCardinality DEF Rpc!TypeOK, ConnectionTyped, CallTypes, TaskTypes, QueueTypes, Places,
   Rpc!Sides

\* The same of the next state.
LEMMA TypePartsNext == (Rpc!TypeOK /\ ConnectionTyped)' <=> CallTypes' /\ TaskTypes' /\ QueueTypes'
BY RpcCardinality DEF Rpc!TypeOK, ConnectionTyped, CallTypes, TaskTypes, QueueTypes, Places,
   Rpc!Sides

CallStep(c) == Rpc!Ask(c) \/ Rpc!Register(c) \/ Rpc!Queue(c) \/ Rpc!QueueFails(c) \/ Rpc!Answered(c) \/ Rpc!TimesOut(c)
SideStep(s) ==
  \/ Rpc!WriterStops(s) \/ Rpc!ReaderStops(s) \/ Rpc!WritesHello(s) \/ Rpc!Write(s) \/ Rpc!WriteFails(s)
  \/ Rpc!WriteTimesOut(s) \/ Rpc!ReadsHello(s) \/ Rpc!HelloFails(s) \/ Rpc!Disconnect(s)

\* A step of a caller keeps the types of the requests.
LEMMA CallTypesCall ==
  ASSUME Rpc!TypeOK, ConnectionTyped, NEW c \in Calls, CallStep(c)
  PROVE  CallTypes'
<1>1. CallTypes BY TypeParts
<1>2. CASE Rpc!Ask(c) BY <1>1, <1>2 DEF Rpc!Ask, CallTypes, Rpc!Ends
<1>3. CASE Rpc!Register(c)
  <2>1. CASE ~(waiting.open /\ Cardinality(waiting.ids) < MaxPending)
    <3>1. Cardinality(waiting.ids) \in Nat BY <1>1, FS_CardinalityType DEF CallTypes
    <3>2. waiting' = waiting BY <1>3, <2>1, <3>1, RpcConstants, RpcCardinality DEF Rpc!Register
    <3> QED BY <1>1, <1>3, <3>2 DEF Rpc!Register, CallTypes, Rpc!Ends
  <2>2. CASE waiting.open /\ Cardinality(waiting.ids) < MaxPending
    <3>1. Cardinality(waiting.ids) \in Nat /\ IsFiniteSet(waiting.ids)
          /\ waiting \in [open : BOOLEAN, ids : SUBSET Calls]
      BY <1>1, FS_CardinalityType DEF CallTypes
    <3>2. waiting' = [waiting EXCEPT !.ids = @ \cup {c}] /\ call' = [call EXCEPT ![c] = "sending"]
          /\ answer' = answer /\ ended' = ended
      BY <1>3, <2>2, <3>1, RpcConstants, RpcCardinality DEF Rpc!Register
    <3>3. waiting' \in [open : BOOLEAN, ids : SUBSET Calls] /\ waiting'.ids = waiting.ids \cup {c}
      BY <3>1, <3>2
    <3>4. IsFiniteSet(waiting.ids \cup {c})
          /\ (\/ Cardinality(waiting.ids \cup {c}) = Cardinality(waiting.ids)
              \/ Cardinality(waiting.ids \cup {c}) = Cardinality(waiting.ids) + 1)
      BY <3>1, FS_AddElement
    <3>5. Cardinality(waiting'.ids) <= MaxPending BY <2>2, <3>1, <3>3, <3>4, RpcConstants
    <3> QED BY <1>1, <3>2, <3>3, <3>4, <3>5 DEF CallTypes
  <2> QED BY <2>1, <2>2
<1>4. CASE Rpc!Queue(c) BY <1>1, <1>4 DEF Rpc!Queue, CallTypes
<1>5. CASE Rpc!QueueFails(c) \/ Rpc!Answered(c) \/ Rpc!TimesOut(c)
  <2>1. PICK how \in {"reply", "disconnected", "timeout"} :
          call' = [call EXCEPT ![c] = how] /\ waiting' = Rpc!Cancelled(c)
          /\ answer' = answer /\ ended' = ended
    BY <1>1, <1>5 DEF Rpc!QueueFails, Rpc!Answered, Rpc!TimesOut, Rpc!Ended, CallTypes
  <2>2. waiting' = [waiting EXCEPT !.ids = @ \ {c}] BY <2>1 DEF Rpc!Cancelled
  <2>3. call' \in [Calls -> {"idle", "checked", "sending", "waiting"} \cup Rpc!Ends]
    BY <1>1, <2>1 DEF CallTypes, Rpc!Ends
  <2>4. /\ waiting' \in [open : BOOLEAN, ids : SUBSET Calls]
        /\ IsFiniteSet(waiting'.ids) /\ Cardinality(waiting'.ids) <= MaxPending
    <3>1. waiting'.ids = waiting.ids \ {c} BY <2>2, CancelledTyped
    <3> QED BY <2>2, <3>1, CancelledTyped
  <2> QED BY <1>1, <2>1, <2>3, <2>4 DEF CallTypes
<1> QED BY <1>2, <1>3, <1>4, <1>5 DEF CallStep

\* A step of an end's task keeps the types of the requests.
LEMMA CallTypesSide ==
  ASSUME Rpc!TypeOK, ConnectionTyped, NEW s \in Rpc!Sides, SideStep(s)
  PROVE  CallTypes'
<1>1. CallTypes BY TypeParts
<1>2. (Rpc!Closes(s) /\ call' = call) \/ UNCHANGED <<call, answer, waiting, ended>>
  BY DEF SideStep, Rpc!WriterStops, Rpc!ReaderStops, Rpc!WritesHello, Rpc!Write,
     Rpc!WriteFails, Rpc!WriteTimesOut,
     Rpc!ReadsHello, Rpc!HelloFails, Rpc!Disconnect, Rpc!ReaderEnds, Rpc!WriterEnds
<1>3. CASE Rpc!Closes(s) /\ call' = call BY <1>1, <1>3, ClosesTyped DEF CallTypes
<1>4. CASE UNCHANGED <<call, answer, waiting, ended>> BY <1>1, <1>4 DEF CallTypes
<1> QED BY <1>2, <1>3, <1>4

\* The other steps keep the types of the requests.
LEMMA CallTypesRest ==
  ASSUME Rpc!TypeOK, ConnectionTyped,
         \/ Rpc!ClientPublishes \/ Rpc!ClientCompletes \/ Rpc!ServerReads \/ Rpc!Publish \/ Rpc!PublishBad \/ Rpc!Receive
         \/ Rpc!Reply \/ Rpc!Bind \/ Rpc!Connect \/ Rpc!Accept \/ Rpc!AcceptFails
  PROVE  CallTypes'
<1>1. CallTypes BY TypeParts
<1>2. CASE Rpc!ClientPublishes \/ Rpc!Bind \/ Rpc!Connect \/ Rpc!Accept \/ Rpc!AcceptFails
  BY <1>1, <1>2 DEF Rpc!ClientPublishes, Rpc!Bind, Rpc!Connect, Rpc!Accept, Rpc!AcceptFails,
     CallTypes
<1>3. CASE Rpc!Publish \/ Rpc!PublishBad \/ Rpc!Receive \/ Rpc!Reply
  <2>1. UNCHANGED <<call, answer, waiting>> /\ ended' \in [Rpc!Sides -> BOOLEAN]
    BY <1>1, <1>3 DEF Rpc!Publish, Rpc!PublishBad, Rpc!PublishEvent, Rpc!Receive, Rpc!Reply,
       CallTypes, Rpc!Sides
  <2> QED BY <1>1, <2>1 DEF CallTypes
<1>4. CASE Rpc!ClientCompletes
  <2>1. PICK m \in dispatched :
          /\ answer' = [c \in Calls |-> IF c = m /\ c \in waiting.ids THEN "reply" ELSE answer[c]]
          /\ waiting' = [waiting EXCEPT !.ids = @ \ {m}]
          /\ UNCHANGED <<call, ended>>
    BY <1>4 DEF Rpc!ClientCompletes
  <2>2. answer' \in [Calls -> {"none", "reply", "disconnected"}] BY <1>1, <2>1 DEF CallTypes
  <2> QED BY <1>1, <2>1, <2>2, CancelledTyped DEF CallTypes
<1>5. CASE Rpc!ServerReads
  <2>1. call' = call /\ (UNCHANGED <<answer, waiting, ended>> \/ Rpc!Closes("server"))
    BY <1>5 DEF Rpc!ServerReads, Rpc!ReaderEnds
  <2> QED BY <1>1, <2>1, ClosesTyped DEF CallTypes, Rpc!Sides
<1> QED BY <1>2, <1>3, <1>4, <1>5

\* Every step keeps the types of the tasks.
LEMMA TaskTypesStep ==
  ASSUME Rpc!TypeOK, ConnectionTyped, Rpc!Next
  PROVE  TaskTypes'
<1>1. TaskTypes BY TypeParts
<1>2. events' \in Nat /\ failures' \in Nat
  <2>1. events' \in {events, events + 1} /\ failures' \in {failures, failures + 1}
    BY DEF Rpc!Next, Rpc!CallNext, Rpc!TaskNext, Rpc!Ask, Rpc!Register, Rpc!Queue,
       Rpc!QueueFails, Rpc!Answered, Rpc!TimesOut, Rpc!Ended,
       Rpc!Publish, Rpc!PublishBad, Rpc!PublishEvent, Rpc!WriterStops, Rpc!ReaderStops,
       Rpc!WritesHello, Rpc!Write, Rpc!WriteFails,
       Rpc!WriteTimesOut, Rpc!ReadsHello, Rpc!HelloFails, Rpc!Disconnect, Rpc!ClientPublishes,
       Rpc!ClientCompletes,
       Rpc!ServerReads, Rpc!Receive, Rpc!Reply, Rpc!Bind, Rpc!Connect, Rpc!Accept,
       Rpc!AcceptFails, Rpc!Fault
  <2> QED BY <1>1, <2>1 DEF TaskTypes
<1>3. instance' \in {"none", "listening", "connected"}
  BY <1>1 DEF TaskTypes, Rpc!Next, Rpc!CallNext, Rpc!TaskNext, Rpc!Ask, Rpc!Register,
     Rpc!Queue, Rpc!QueueFails, Rpc!Answered,
     Rpc!TimesOut, Rpc!Ended, Rpc!Publish, Rpc!PublishBad, Rpc!PublishEvent, Rpc!WriterStops,
     Rpc!ReaderStops, Rpc!WritesHello,
     Rpc!Write, Rpc!WriteFails, Rpc!WriteTimesOut, Rpc!ReadsHello, Rpc!HelloFails,
     Rpc!Disconnect, Rpc!ClientPublishes,
     Rpc!ClientCompletes, Rpc!ServerReads, Rpc!Receive, Rpc!Reply, Rpc!Bind, Rpc!Connect,
     Rpc!Accept, Rpc!AcceptFails
<1>4. reads' \in [Rpc!Sides -> Places] /\ writing' \in [Rpc!Sides -> Places]
  BY <1>1 DEF TaskTypes, Rpc!Next, Rpc!CallNext, Rpc!TaskNext, Rpc!Ask, Rpc!Register,
     Rpc!Queue, Rpc!QueueFails, Rpc!Answered,
     Rpc!TimesOut, Rpc!Ended, Rpc!Publish, Rpc!PublishBad, Rpc!PublishEvent, Rpc!WriterStops,
     Rpc!ReaderStops, Rpc!WritesHello,
     Rpc!Write, Rpc!WriteFails, Rpc!WriteTimesOut, Rpc!ReadsHello, Rpc!HelloFails,
     Rpc!Disconnect, Rpc!ClientPublishes,
     Rpc!ClientCompletes, Rpc!ServerReads, Rpc!Receive, Rpc!Reply, Rpc!Bind, Rpc!Connect,
     Rpc!Accept, Rpc!AcceptFails,
     Rpc!WriterEnds, Rpc!ReaderEnds, Rpc!Spawned, Places
<1> QED BY <1>2, <1>3, <1>4 DEF TaskTypes

\* A step of an end's task keeps the types of the queues.
LEMMA QueueTypesSide ==
  ASSUME Rpc!TypeOK, ConnectionTyped, NEW s \in Rpc!Sides, SideStep(s)
  PROVE  QueueTypes'
<1>1. QueueTypes BY TypeParts
<1>2. <<>> \in Seq(Messages) /\ Len(<<>>) = 0 BY QueueFacts
<1>3. Rpc!Other(s) \in Rpc!Sides BY DEF Rpc!Other, Rpc!Sides
<1>4. outq' \in [Rpc!Sides -> Seq(Messages)]
  <2>1. CASE UNCHANGED outq \/ outq' = [outq EXCEPT ![s] = <<>>]
    BY <1>1, <1>2, <2>1 DEF QueueTypes
  <2>2. CASE Rpc!Write(s) BY <1>1, <2>2, QueueFacts DEF Rpc!Write, QueueTypes
  <2> QED BY <2>1, <2>2 DEF SideStep, Rpc!WriterStops, Rpc!ReaderStops, Rpc!WritesHello,
    Rpc!WriteFails,
             Rpc!WriteTimesOut, Rpc!ReadsHello, Rpc!HelloFails, Rpc!Disconnect, Rpc!ReaderEnds,
             Rpc!WriterEnds
<1>5. pipe' \in [Rpc!Sides -> Seq(Messages)] /\ \A t \in Rpc!Sides : Len(pipe'[t]) <= Pipe
  <2>1. CASE UNCHANGED pipe BY <1>1, <2>1 DEF QueueTypes
  <2>2. CASE Rpc!WritesHello(s) \/ Rpc!Write(s)
    <3>1. PICK m \in Messages : pipe' = [pipe EXCEPT ![s] = Append(@, m)] /\ Len(pipe[s]) < Pipe
      BY <1>1, <2>2, QueueFacts DEF Rpc!WritesHello, Rpc!Write, QueueTypes, Messages
    <3>2. Append(pipe[s], m) \in Seq(Messages) /\ Len(Append(pipe[s], m)) <= Pipe
      BY <1>1, <3>1, QueueFacts, RpcConstants DEF QueueTypes
    <3> QED BY <1>1, <3>1, <3>2 DEF QueueTypes
  <2>3. CASE Rpc!ReadsHello(s)
    <3>1. pipe' = [pipe EXCEPT ![Rpc!Other(s)] = Tail(@)] /\ pipe[Rpc!Other(s)] # <<>>
      BY <2>3 DEF Rpc!ReadsHello
    <3>2. pipe[Rpc!Other(s)] \in Seq(Messages) /\ Len(pipe[Rpc!Other(s)]) <= Pipe
      BY <1>1, <1>3 DEF QueueTypes
    <3>3. Tail(pipe[Rpc!Other(s)]) \in Seq(Messages) /\ Len(Tail(pipe[Rpc!Other(s)])) <= Pipe
      BY <3>1, <3>2, QueueFacts, RpcConstants
    <3> QED BY <1>1, <3>1, <3>3 DEF QueueTypes
  <2> QED BY <2>1, <2>2, <2>3 DEF SideStep, Rpc!WriterStops, Rpc!ReaderStops, Rpc!WriteFails,
    Rpc!WriteTimesOut,
             Rpc!HelloFails, Rpc!Disconnect
<1>6. inq' \in Seq(Messages) /\ Len(inq') <= InQueue
  <2>1. CASE inq' = inq BY <1>1, <2>1 DEF QueueTypes
  <2>3. CASE inq' = <<>> BY <1>2, <2>3, RpcConstants
  <2>2. CASE Rpc!HelloFails(s) /\ inq' = Append(inq, Rpc!Bad) /\ Len(inq) < InQueue
    BY <1>1, <2>2, QueueFacts, RpcConstants DEF QueueTypes, Messages
  <2> QED BY <2>1, <2>2, <2>3 DEF SideStep, Rpc!WriterStops, Rpc!ReaderStops, Rpc!WritesHello,
    Rpc!Write,
             Rpc!WriteFails, Rpc!WriteTimesOut, Rpc!ReadsHello, Rpc!HelloFails, Rpc!Disconnect
<1>7. business' \subseteq Messages /\ stream' \subseteq Messages /\ dispatched' \subseteq Messages
  BY <1>1 DEF QueueTypes, SideStep, Rpc!WriterStops, Rpc!ReaderStops, Rpc!WritesHello,
     Rpc!Write, Rpc!WriteFails,
     Rpc!WriteTimesOut, Rpc!ReadsHello, Rpc!HelloFails, Rpc!Disconnect
<1> QED BY <1>4, <1>5, <1>6, <1>7 DEF QueueTypes

\* The other steps keep the types of the queues.
LEMMA QueueTypesRest ==
  ASSUME Rpc!TypeOK, ConnectionTyped, Rpc!Next, \A s \in Rpc!Sides : ~SideStep(s)
  PROVE  QueueTypes'
<1>1. QueueTypes BY TypeParts
<1>2. "client" \in Rpc!Sides /\ "server" \in Rpc!Sides BY DEF Rpc!Sides
<1>3. CASE \E c \in Calls : CallStep(c)
  <2>1. PICK c \in Calls : CallStep(c) BY <1>3
  <2>2. UNCHANGED <<pipe, inq, business, stream, dispatched>>
        /\ (outq' = outq \/ outq' = [outq EXCEPT !.client = Append(@, c)])
    BY <2>1 DEF CallStep, Rpc!Ask, Rpc!Register, Rpc!Queue, Rpc!QueueFails, Rpc!Answered,
       Rpc!TimesOut, Rpc!Ended
  <2>3. Append(outq.client, c) \in Seq(Messages)
    BY <1>1, <1>2, QueueFacts DEF QueueTypes, Messages
  <2> QED BY <1>1, <2>2, <2>3 DEF QueueTypes
<1>4. CASE Rpc!Publish \/ Rpc!PublishBad
  <2>1. PICK s \in Rpc!Sides, m \in Messages : Rpc!PublishEvent(s, m)
    BY <1>4 DEF Rpc!Publish, Rpc!PublishBad, Rpc!Sides, Messages
  <2>2. Append(outq[s], m) \in Seq(Messages) BY <1>1, QueueFacts DEF QueueTypes
  <2> QED BY <1>1, <2>1, <2>2 DEF Rpc!PublishEvent, QueueTypes
<1>5. CASE Rpc!Receive
  <2>1. inq # <<>> /\ inq' = Tail(inq) /\ business' = business \cup ({Head(inq)} \ {Rpc!Event, Rpc!Bad})
        /\ UNCHANGED <<outq, pipe, stream, dispatched>>
    BY <1>5 DEF Rpc!Receive
  <2>2. Tail(inq) \in Seq(Messages) /\ Len(Tail(inq)) <= InQueue /\ Head(inq) \in Messages
    BY <1>1, <2>1, QueueFacts, RpcConstants DEF QueueTypes
  <2> QED BY <1>1, <2>1, <2>2 DEF QueueTypes
<1>6. CASE Rpc!Reply
  <2>1. PICK c \in Messages : (outq' = outq \/ outq' = [outq EXCEPT !.server = Append(@, c)])
        /\ business' = business \ {c}
    BY <1>1, <1>6 DEF Rpc!Reply, QueueTypes
  <2>2. UNCHANGED <<pipe, inq, stream, dispatched>> BY <1>6 DEF Rpc!Reply
  <2>3. Append(outq.server, c) \in Seq(Messages) BY <1>1, <1>2, QueueFacts DEF QueueTypes
  <2> QED BY <1>1, <2>1, <2>2, <2>3 DEF QueueTypes
<1>7. CASE Rpc!ClientPublishes
  <2>1. pipe.server # <<>> /\ stream' = stream \cup {Head(pipe.server)}
        /\ dispatched' = {Head(pipe.server)} \ {Rpc!Event}
        /\ pipe' = [pipe EXCEPT !.server = Tail(@)] /\ UNCHANGED <<outq, inq, business>>
    BY <1>7 DEF Rpc!ClientPublishes
  <2>2. pipe.server \in Seq(Messages) /\ Len(pipe.server) <= Pipe BY <1>1, <1>2 DEF QueueTypes
  <2>3. /\ Head(pipe.server) \in Messages /\ Tail(pipe.server) \in Seq(Messages)
        /\ Len(Tail(pipe.server)) <= Pipe
    BY <2>1, <2>2, QueueFacts, RpcConstants
  <2> QED BY <1>1, <2>1, <2>3 DEF QueueTypes
<1>8. CASE Rpc!ServerReads
  <2>1. PICK m \in Messages : inq' = Append(inq, m)
    <3>1. Head(pipe.client) \in Messages
      BY <1>1, <1>2, <1>8, QueueFacts DEF Rpc!ServerReads, QueueTypes
    <3> QED BY <1>8, <3>1 DEF Rpc!ServerReads, Rpc!Unpacked, Rpc!Allowed, Messages
  <2>2. pipe.client # <<>> /\ pipe' = [pipe EXCEPT !.client = Tail(@)] /\ Len(inq) < InQueue
        /\ UNCHANGED <<outq, business, stream, dispatched>>
    BY <1>8 DEF Rpc!ServerReads, Rpc!ReaderEnds
  <2>3. pipe.client \in Seq(Messages) /\ Len(pipe.client) <= Pipe BY <1>1, <1>2 DEF QueueTypes
  <2>4. Tail(pipe.client) \in Seq(Messages) /\ Len(Tail(pipe.client)) <= Pipe
    BY <2>2, <2>3, QueueFacts, RpcConstants
  <2>5. Append(inq, m) \in Seq(Messages) /\ Len(Append(inq, m)) <= InQueue
    BY <1>1, <2>2, QueueFacts, RpcConstants DEF QueueTypes
  <2> QED BY <1>1, <2>1, <2>2, <2>4, <2>5 DEF QueueTypes
<1>9. CASE Rpc!ClientCompletes \/ Rpc!Bind \/ Rpc!Connect \/ Rpc!Accept \/ Rpc!AcceptFails
  BY <1>1, <1>9 DEF Rpc!ClientCompletes, Rpc!Bind, Rpc!Connect, Rpc!Accept, Rpc!AcceptFails,
     QueueTypes
<1> QED BY <1>3, <1>4, <1>5, <1>6, <1>7, <1>8, <1>9
    DEF Rpc!Next, Rpc!CallNext, Rpc!TaskNext, CallStep, SideStep

\* Every step of the connection keeps its types.
LEMMA TypesStep ==
  ASSUME Rpc!TypeOK, ConnectionTyped, Rpc!Next
  PROVE  (Rpc!TypeOK /\ ConnectionTyped)'
<1>1. CallTypes'
  BY CallTypesCall, CallTypesSide, CallTypesRest DEF Rpc!Next, Rpc!CallNext, Rpc!TaskNext,
     CallStep, SideStep
<1>2. QueueTypes' BY QueueTypesSide, QueueTypesRest
<1> QED BY <1>1, <1>2, TaskTypesStep, TypePartsNext

-----------------------------------------------------------------------------
\* The drain leaves no request waiting and closes the pending ones for good.
LEMMA RegisteredCloses ==
  ASSUME Rpc!TypeOK, ConnectionTyped, RegisteredInv, NEW s \in Rpc!Sides, Rpc!Closes(s), call' = call,
         s = "server" => reads'.client = reads.client /\ writing'.client = writing.client
  PROVE  RegisteredInv' /\ (Rpc!PlacesAreGivenBack => Rpc!PlacesAreGivenBack')
<1> USE SideTypes
<1>1. CASE s = "client"
  <2>1. waiting'.open = FALSE /\ waiting'.ids = {}
        /\ answer' = [c \in Calls |-> Rpc!Disconnected(c)]
    BY <1>1 DEF Rpc!Closes, Rpc!Drained
  <2>2. \A c \in Calls : answer'[c] = IF c \in waiting.ids THEN "disconnected" ELSE answer[c]
    BY <2>1 DEF Rpc!Disconnected
  <2> QED BY <2>1, <2>2 DEF RegisteredInv, Rpc!PlacesAreGivenBack, Rpc!Open
<1>2. CASE s = "server"
  BY <1>2 DEF Rpc!Closes, RegisteredInv, Rpc!PlacesAreGivenBack, Rpc!Open
<1> QED BY <1>1, <1>2 DEF Rpc!Sides

\* A caller's step keeps its place in the table (rpc/client.rs, RpcClient::request).
LEMMA RegisteredCall ==
  ASSUME Rpc!TypeOK, ConnectionTyped, RegisteredInv, Rpc!PlacesAreGivenBack,
         NEW c \in Calls, CallStep(c)
  PROVE  (RegisteredInv /\ Rpc!PlacesAreGivenBack)'
<1> USE SideTypes
<1>1. CASE Rpc!Ask(c) BY <1>1 DEF Rpc!Ask, RegisteredInv, Rpc!PlacesAreGivenBack, Rpc!Open
<1>2. CASE Rpc!Register(c)
  BY <1>2 DEF Rpc!Register, RegisteredInv, Rpc!PlacesAreGivenBack, Rpc!Open
<1>3. CASE Rpc!Queue(c) BY <1>3 DEF Rpc!Queue, RegisteredInv, Rpc!PlacesAreGivenBack, Rpc!Open
<1>4. CASE Rpc!QueueFails(c) \/ Rpc!Answered(c) \/ Rpc!TimesOut(c)
  <2>1. PICK how \in {"reply", "disconnected", "timeout"} : Rpc!Ended(c, how)
    BY <1>4 DEF Rpc!QueueFails, Rpc!Answered, Rpc!TimesOut
  <2>2. /\ call' = [call EXCEPT ![c] = how] /\ waiting' = [waiting EXCEPT !.ids = @ \ {c}]
        /\ UNCHANGED <<answer, reads, writing>>
    BY <2>1 DEF Rpc!Ended, Rpc!Cancelled
  <2>3. waiting'.ids = waiting.ids \ {c} /\ waiting'.open = waiting.open BY <2>2
  <2>4. \A d \in Calls : call'[d] = IF d = c THEN how ELSE call[d] BY <2>2
  <2> QED BY <2>2, <2>3, <2>4 DEF RegisteredInv, Rpc!PlacesAreGivenBack, Rpc!Open
<1> QED BY <1>1, <1>2, <1>3, <1>4 DEF CallStep

\* An end that stops drains the table of those who wait.
LEMMA RegisteredSide ==
  ASSUME Rpc!TypeOK, ConnectionTyped, RegisteredInv, Rpc!PlacesAreGivenBack,
         NEW s \in Rpc!Sides, SideStep(s)
  PROVE  (RegisteredInv /\ Rpc!PlacesAreGivenBack)'
<1> USE SideTypes
<1>1. CASE Rpc!WritesHello(s) \/ Rpc!Write(s) \/ Rpc!ReadsHello(s)
  BY <1>1 DEF Rpc!WritesHello, Rpc!Write, Rpc!ReadsHello, RegisteredInv,
     Rpc!PlacesAreGivenBack, Rpc!Open
<1>2. CASE Rpc!WriterStops(s) \/ Rpc!ReaderStops(s) \/ Rpc!WriteFails(s)
           \/ Rpc!WriteTimesOut(s) \/ Rpc!HelloFails(s)
           \/ Rpc!Disconnect(s)
  <2>1. /\ Rpc!Closes(s) /\ call' = call
        /\ \A t \in Rpc!Sides \ {s} : reads'[t] = reads[t] /\ writing'[t] = writing[t]
    BY <1>2 DEF Rpc!WriterStops, Rpc!ReaderStops, Rpc!WriteFails, Rpc!WriteTimesOut,
       Rpc!HelloFails, Rpc!Disconnect,
       Rpc!ReaderEnds, Rpc!WriterEnds
  <2> QED BY <2>1, RegisteredCloses DEF Rpc!Sides
<1> QED BY <1>1, <1>2 DEF SideStep

\* The other steps leave the table with those who wait.
LEMMA RegisteredRest ==
  ASSUME Rpc!TypeOK, ConnectionTyped, RegisteredInv, Rpc!PlacesAreGivenBack,
         \/ Rpc!ClientPublishes \/ Rpc!ClientCompletes \/ Rpc!ServerReads \/ Rpc!Publish \/ Rpc!PublishBad \/ Rpc!Receive
         \/ Rpc!Reply \/ Rpc!Bind \/ Rpc!Connect \/ Rpc!Accept \/ Rpc!AcceptFails
  PROVE  (RegisteredInv /\ Rpc!PlacesAreGivenBack)'
<1> USE SideTypes
<1>1. CASE Rpc!ClientPublishes \/ Rpc!Publish \/ Rpc!PublishBad \/ Rpc!Receive \/ Rpc!Reply
           \/ Rpc!Bind \/ Rpc!AcceptFails
  <2>1. UNCHANGED <<call, answer, waiting, reads, writing>>
    BY <1>1 DEF Rpc!ClientPublishes, Rpc!Publish, Rpc!PublishBad, Rpc!PublishEvent,
       Rpc!Receive, Rpc!Reply, Rpc!Bind,
       Rpc!AcceptFails
  <2> QED BY <2>1 DEF RegisteredInv, Rpc!PlacesAreGivenBack, Rpc!Open
<1>2. CASE Rpc!Connect \/ Rpc!Accept
  BY <1>2 DEF Rpc!Connect, Rpc!Accept, Rpc!Spawned, RegisteredInv, Rpc!PlacesAreGivenBack,
     Rpc!Open
<1>3. CASE Rpc!ClientCompletes
  <2>1. PICK m \in dispatched :
          /\ answer' = [c \in Calls |-> IF c = m /\ c \in waiting.ids THEN "reply" ELSE answer[c]]
          /\ waiting' = [waiting EXCEPT !.ids = @ \ {m}]
    BY <1>3 DEF Rpc!ClientCompletes
  <2>2. UNCHANGED <<call, reads, writing>> BY <1>3 DEF Rpc!ClientCompletes
  <2>3. waiting'.ids = waiting.ids \ {m} /\ waiting'.open = waiting.open BY <2>1
  <2>4. \A c \in Calls : answer'[c] = IF c = m /\ c \in waiting.ids THEN "reply" ELSE answer[c]
    BY <2>1
  <2> QED BY <2>2, <2>3, <2>4 DEF RegisteredInv, Rpc!PlacesAreGivenBack, Rpc!Open
<1>4. CASE Rpc!ServerReads
  <2>1. CASE UNCHANGED <<call, answer, waiting, reads, writing>>
    BY <2>1 DEF RegisteredInv, Rpc!PlacesAreGivenBack, Rpc!Open
  <2>2. CASE Rpc!ReaderEnds("server")
    <3>1. Rpc!Closes("server") /\ reads'.client = reads.client /\ writing' = writing
          /\ call' = call
      BY <1>4, <2>2 DEF Rpc!ReaderEnds, Rpc!ServerReads
    <3> QED BY <3>1, RegisteredCloses DEF Rpc!Sides
  <2> QED BY <1>4, <2>1, <2>2 DEF Rpc!ServerReads
<1> QED BY <1>1, <1>2, <1>3, <1>4

\* An answer comes after its publication.
LEMMA PublishedStep ==
  ASSUME Rpc!TypeOK, ConnectionTyped, PublishedInv, Rpc!StreamComesFirst, Rpc!Next
  PROVE  (PublishedInv /\ Rpc!StreamComesFirst)'
<1> USE SideTypes
<1>1. CASE \E c \in Calls : CallStep(c)
  <2>1. PICK c \in Calls : CallStep(c) BY <1>1
  <2>2. UNCHANGED <<answer, stream, dispatched>>
    BY <2>1 DEF CallStep, Rpc!Ask, Rpc!Register, Rpc!Queue, Rpc!QueueFails, Rpc!Answered,
       Rpc!TimesOut, Rpc!Ended
  <2>3. \A d \in Calls : call'[d] = "reply" => call[d] = "reply" \/ answer[d] = "reply"
    <3>1. CASE Rpc!Answered(c) BY <3>1 DEF Rpc!Answered, Rpc!Ended
    <3>2. CASE ~Rpc!Answered(c)
      BY <2>1, <3>2 DEF CallStep, Rpc!Ask, Rpc!Register, Rpc!Queue, Rpc!QueueFails,
         Rpc!TimesOut, Rpc!Ended
    <3> QED BY <3>1, <3>2
  <2> QED BY <2>2, <2>3 DEF PublishedInv, Rpc!StreamComesFirst
<1>2. CASE Rpc!ClientCompletes
  <2>1. PICK m \in dispatched :
          answer' = [c \in Calls |-> IF c = m /\ c \in waiting.ids THEN "reply" ELSE answer[c]]
    BY <1>2 DEF Rpc!ClientCompletes
  <2>2. UNCHANGED <<call, stream>> /\ dispatched' = {} BY <1>2 DEF Rpc!ClientCompletes
  <2>3. \A c \in Calls : answer'[c] = IF c = m /\ c \in waiting.ids THEN "reply" ELSE answer[c]
    BY <2>1
  <2> QED BY <2>2, <2>3 DEF PublishedInv, Rpc!StreamComesFirst
<1>3. CASE Rpc!ClientPublishes
  BY <1>3 DEF Rpc!ClientPublishes, PublishedInv, Rpc!StreamComesFirst
<1>4. ASSUME call' = call, stream' = stream, dispatched' \in {dispatched, {}},
             answer' = answer \/ answer' = [c \in Calls |-> Rpc!Disconnected(c)]
      PROVE  (PublishedInv /\ Rpc!StreamComesFirst)'
  <2>1. \A c \in Calls : answer'[c] = "reply" => answer[c] = "reply"
    BY <1>4 DEF Rpc!Disconnected
  <2> QED BY <1>4, <2>1 DEF PublishedInv, Rpc!StreamComesFirst
<1>5. CASE \E s \in Rpc!Sides : SideStep(s)
  BY <1>4, <1>5 DEF SideStep, Rpc!WriterStops, Rpc!ReaderStops, Rpc!WritesHello, Rpc!Write,
     Rpc!WriteFails,
     Rpc!WriteTimesOut, Rpc!ReadsHello, Rpc!HelloFails, Rpc!Disconnect, Rpc!ReaderEnds,
     Rpc!WriterEnds, Rpc!Closes
<1>6. CASE Rpc!ServerReads \/ Rpc!Publish \/ Rpc!PublishBad \/ Rpc!Receive \/ Rpc!Reply
           \/ Rpc!Bind \/ Rpc!Connect \/ Rpc!Accept
           \/ Rpc!AcceptFails
  BY <1>4, <1>6 DEF Rpc!ServerReads, Rpc!Publish, Rpc!PublishBad, Rpc!PublishEvent,
     Rpc!Receive, Rpc!Reply, Rpc!Bind, Rpc!Connect,
     Rpc!Accept, Rpc!AcceptFails, Rpc!ReaderEnds, Rpc!Closes
<1> QED BY <1>1, <1>2, <1>3, <1>5, <1>6 DEF Rpc!Next, Rpc!CallNext, Rpc!TaskNext, CallStep,
  SideStep

\* The server's end is made once.
LEMMA ServedStep ==
  ASSUME Rpc!TypeOK, ConnectionTyped, ServedInv, Rpc!Next
  PROVE  ServedInv'
<1> USE SideTypes
<1>1. CASE \E s \in Rpc!Sides : SideStep(s)
  <2>1. PICK s \in Rpc!Sides : SideStep(s) BY <1>1
  <2>2. instance' = instance
        /\ (reads' = reads \/ (reads[s] # "none" /\ \E place \in {"run", "gone"} :
                                    reads' = [reads EXCEPT ![s] = place]))
    BY <2>1 DEF SideStep, Rpc!WriterStops, Rpc!ReaderStops, Rpc!WritesHello, Rpc!Write,
       Rpc!WriteFails,
     Rpc!WriteTimesOut, Rpc!ReadsHello, Rpc!HelloFails, Rpc!Disconnect, Rpc!ReaderEnds,
     Rpc!WriterEnds
  <2> QED BY <2>2 DEF ServedInv
<1>2. CASE Rpc!Bind BY <1>2 DEF Rpc!Bind, ServedInv
<1>3. CASE Rpc!Connect BY <1>3 DEF Rpc!Connect, Rpc!Spawned, ServedInv
<1>4. CASE Rpc!Accept BY <1>4 DEF Rpc!Accept, Rpc!Spawned, ServedInv
<1>5. CASE Rpc!ServerReads BY <1>5 DEF Rpc!ServerReads, Rpc!ReaderEnds, ServedInv
<1>6. CASE UNCHANGED <<instance, reads>> BY <1>6 DEF ServedInv
<1>7. CASE Rpc!CallNext BY <1>6, <1>7 DEF Rpc!CallNext, Rpc!Ask, Rpc!Register, Rpc!Queue,
  Rpc!QueueFails, Rpc!Answered,
              Rpc!TimesOut, Rpc!Ended
<1>8. CASE Rpc!ClientPublishes \/ Rpc!ClientCompletes \/ Rpc!Publish \/ Rpc!PublishBad
           \/ Rpc!Receive \/ Rpc!Reply
           \/ Rpc!AcceptFails
  BY <1>6, <1>8 DEF Rpc!ClientPublishes, Rpc!ClientCompletes, Rpc!Publish, Rpc!PublishBad,
     Rpc!PublishEvent, Rpc!Receive,
     Rpc!Reply, Rpc!AcceptFails
<1> QED BY <1>1, <1>2, <1>3, <1>4, <1>5, <1>7, <1>8 DEF Rpc!Next, Rpc!TaskNext, SideStep

\* An error is put behind messages none of which is one, by a reader that ends.
LEMMA ErrorComesLast ==
  ASSUME NEW q \in Seq(Messages), \A i \in DOMAIN q : q[i] # Rpc!Bad, NEW m \in Messages
  PROVE  \A i \in DOMAIN Append(q, m) : Append(q, m)[i] = Rpc!Bad =>
           i = Len(Append(q, m)) /\ m = Rpc!Bad
OBVIOUS

\* Nothing is read behind an unreadable packet.
LEMMA ErrorStep ==
  ASSUME Rpc!TypeOK, ConnectionTyped, ServedInv, Rpc!ErrorIsLast, Rpc!Next
  PROVE  Rpc!ErrorIsLast'
<1> USE SideTypes
<1>0. inq \in Seq(Messages) BY DEF ConnectionTyped
<1>1. ASSUME reads.server # "gone" PROVE \A i \in DOMAIN inq : inq[i] # Rpc!Bad
  BY <1>1 DEF Rpc!ErrorIsLast
<1>2. CASE inq' = inq /\ (reads.server = "gone" => reads'.server = "gone")
  BY <1>2 DEF Rpc!ErrorIsLast
<1>3. CASE inq' = inq /\ reads.server = "none"
  <2>1. \A i \in DOMAIN inq : inq[i] # Rpc!Bad BY <1>1, <1>3
  <2> QED BY <1>3, <2>1 DEF Rpc!ErrorIsLast
<1>4. CASE inq' = <<>> BY <1>4 DEF Rpc!ErrorIsLast
<1>5. CASE \E s \in Rpc!Sides : SideStep(s)
  <2>1. PICK s \in Rpc!Sides : SideStep(s) BY <1>5
  <2>2. CASE ~Rpc!HelloFails(s)
    <3>1. inq' \in {inq, <<>>} /\ (reads.server = "gone" => reads'.server = "gone")
      BY <2>1, <2>2 DEF SideStep, Rpc!WriterStops, Rpc!ReaderStops, Rpc!WritesHello, Rpc!Write,
         Rpc!WriteFails,
         Rpc!WriteTimesOut, Rpc!ReadsHello, Rpc!Disconnect, Rpc!ReaderEnds, Rpc!WriterEnds
    <3> QED BY <3>1, <1>2, <1>4
  <2>3. CASE Rpc!HelloFails(s) /\ s = "client"
    BY <2>3, <1>2 DEF Rpc!HelloFails, Rpc!ReaderEnds
  <2>4. CASE Rpc!HelloFails(s) /\ s = "server"
    <3>1. reads.server = "hello" /\ inq' = Append(inq, Rpc!Bad) /\ reads'.server = "gone"
      BY <2>4 DEF Rpc!HelloFails, Rpc!ReaderEnds
    <3>2. \A i \in DOMAIN inq' : inq'[i] = Rpc!Bad => i = Len(inq')
      BY <3>1, <1>0, <1>1, ErrorComesLast DEF Messages
    <3> QED BY <3>1, <3>2 DEF Rpc!ErrorIsLast
  <2> QED BY <2>1, <2>2, <2>3, <2>4 DEF Rpc!Sides
<1>6. CASE Rpc!ServerReads
  <2>1. Head(pipe.client) \in Messages
    BY <1>6, QueueFacts DEF Rpc!ServerReads, ConnectionTyped
  <2>2. PICK m \in Messages : inq' = Append(inq, m) /\ (m = Rpc!Bad => reads'.server = "gone")
    BY <1>6, <2>1 DEF Rpc!ServerReads, Rpc!Unpacked, Rpc!Allowed, Rpc!ReaderEnds, Messages
  <2>3. reads.server = "run" BY <1>6 DEF Rpc!ServerReads
  <2>4. \A i \in DOMAIN inq' : inq'[i] = Rpc!Bad => i = Len(inq') /\ m = Rpc!Bad
    BY <2>2, <2>3, <1>0, <1>1, ErrorComesLast
  <2> QED BY <2>2, <2>4 DEF Rpc!ErrorIsLast
<1>7. CASE Rpc!Receive
  <2>1. inq # <<>> /\ inq' = Tail(inq) /\ reads' = reads BY <1>7 DEF Rpc!Receive
  <2>2. \A i \in DOMAIN Tail(inq) :
          i + 1 \in DOMAIN inq /\ Tail(inq)[i] = inq[i + 1] /\ Len(Tail(inq)) = Len(inq) - 1
    BY <1>0, <2>1
  <2>3. \A i \in DOMAIN inq' : i \in Nat BY <1>0, <2>1
  <2>4. Len(inq) \in Nat BY <1>0
  <2> QED BY <2>1, <2>2, <2>3, <2>4 DEF Rpc!ErrorIsLast
<1>8. CASE Rpc!Accept
  BY <1>3, <1>8 DEF Rpc!Accept, ServedInv
<1>9. CASE Rpc!CallNext
  BY <1>2, <1>9 DEF Rpc!CallNext, Rpc!Ask, Rpc!Register, Rpc!Queue, Rpc!QueueFails,
     Rpc!Answered, Rpc!TimesOut, Rpc!Ended
<1>10. CASE Rpc!ClientPublishes \/ Rpc!ClientCompletes \/ Rpc!Publish \/ Rpc!PublishBad
            \/ Rpc!Reply \/ Rpc!Bind \/ Rpc!Connect
            \/ Rpc!AcceptFails
  BY <1>2, <1>10 DEF Rpc!ClientPublishes, Rpc!ClientCompletes, Rpc!Publish, Rpc!PublishBad,
     Rpc!PublishEvent, Rpc!Reply,
     Rpc!Bind, Rpc!Connect, Rpc!AcceptFails, Rpc!Spawned
<1> QED BY <1>5, <1>6, <1>7, <1>8, <1>9, <1>10 DEF Rpc!Next, Rpc!TaskNext, SideStep

\* Every step of the connection keeps its invariant.
LEMMA RpcNextStep == RpcInv /\ Rpc!Next => RpcInv'
<1>1. SUFFICES ASSUME RpcInv, Rpc!Next PROVE RpcInv' OBVIOUS
<1>2. Rpc!TypeOK /\ ConnectionTyped /\ RegisteredInv /\ Rpc!PlacesAreGivenBack /\ PublishedInv
      /\ Rpc!StreamComesFirst /\ ServedInv /\ Rpc!ErrorIsLast
  BY <1>1 DEF RpcInv
<1>3. (Rpc!TypeOK /\ ConnectionTyped)' BY <1>1, <1>2, TypesStep
<1>4. (RegisteredInv /\ Rpc!PlacesAreGivenBack)'
  BY <1>1, <1>2, RegisteredCall, RegisteredSide, RegisteredRest
  DEF Rpc!Next, Rpc!CallNext, Rpc!TaskNext, CallStep, SideStep
<1>5. (PublishedInv /\ Rpc!StreamComesFirst)' BY <1>1, <1>2, PublishedStep
<1>6. ServedInv' /\ Rpc!ErrorIsLast' BY <1>1, <1>2, ServedStep, ErrorStep
<1> QED BY <1>3, <1>4, <1>5, <1>6 DEF RpcInv

\* A step elsewhere keeps the connection's invariant.
LEMMA RpcStutter == RpcInv /\ UNCHANGED Rpc!vars => RpcInv'
BY DEF RpcInv, Rpc!vars, Rpc!TypeOK, ConnectionTyped, RegisteredInv, Rpc!PlacesAreGivenBack,
   PublishedInv,
   Rpc!StreamComesFirst, ServedInv, Rpc!ErrorIsLast, Rpc!Open


-----------------------------------------------------------------------------
(* The server.                                                             *)

ServerStrengthened == EngineInv /\ WindowInv /\ RpcInv

\* Each part starts with its invariant.
LEMMA ServerInit == Init => ServerStrengthened
BY EngineInit, WindowInit, RpcInit DEF Init, ServerStrengthened

\* A step of the server is a step of one part and leaves the others alone.
LEMMA ServerStep == ServerStrengthened /\ [Next]_vars => ServerStrengthened'
<1>1. SUFFICES ASSUME ServerStrengthened, [Next]_vars PROVE ServerStrengthened' OBVIOUS
<1>2. /\ [Engine!Next]_Engine!vars /\ [Window!Next]_Window!vars /\ [Rpc!Next]_Rpc!vars
  BY <1>1 DEF Next, vars, engineVars, windowVars, rpcVars, Engine!vars, Engine!factVars,
     Engine!stopVars, Engine!loopVars, Engine!engineVars, Engine!boundVars, Window!vars,
     Rpc!vars
<1>3. EngineInv' BY <1>1, <1>2, EngineStep DEF ServerStrengthened
<1>4. WindowInv' BY <1>1, <1>2, WindowStep DEF ServerStrengthened
<1>5. RpcInv' BY <1>1, <1>2, RpcNextStep, RpcStutter DEF ServerStrengthened
<1> QED BY <1>3, <1>4, <1>5 DEF ServerStrengthened

\* For any sizes of the mailbox, the log, the queues and the pipe, and any number of
\* requests and faults: the engine's thread does not park over a stored fact
\* (Worker::spawn, Engine::idle), the deployment runs once, shows an end of its log
\* without a hidden gap and tells its result once, last, and with the lock free
\* (deploy_ui.rs, deploy_telemetry.rs), and no request waits on an RPC connection whose
\* tasks are gone or is answered before its stream (rpc/client.rs, rpc/server.rs).
THEOREM ServerInvariant == Spec => []ServerInv
<1>1. ServerStrengthened => ServerInv
  BY EngineSafe, WindowSafe, RpcSafe DEF ServerStrengthened, ServerInv
<1> QED BY ServerInit, ServerStep, <1>1, PTL DEF Spec
=============================================================================
