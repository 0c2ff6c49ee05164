-------------------------- MODULE RenderPathProofs --------------------------
(***************************************************************************)
(* Proofs about RenderPath, for every number of snapshots, connections and *)
(* restarts and every size of a connection's queue.                        *)
(***************************************************************************)
EXTENDS RenderPath, SequenceTheorems, TLAPS

-----------------------------------------------------------------------------
\* The inductive invariant.

\* The elements of a sequence, and the frames of a connection on their way.
Items(s) == {s[i] : i \in 1..Len(s)}
Frames(c) == Items(wire[c])

\* Connections are numbered as they are made, and only the last one is written.
LinksInv ==
    /\ newestOwner <= links /\ link \in {0, links}
    /\ \A c \in Links : c > links => wire[c] = <<>>

\* Frames on their way are older than the slot; what a connection newer than the
\* owner carries is as new as anything the mailbox took or the window showed; and
\* a newer connection carries nothing older than an older one does.
WireInv ==
    /\ \A c \in Links : \A f \in Frames(c) :
          /\ f.sequence # 0 /\ f.sequence <= slot.sequence
          /\ c > newestOwner => newest <= f.sequence /\ latest <= f.sequence
    /\ \A c, d \in Links : c < d =>
          \A f \in Frames(c), g \in Frames(d) : f.sequence <= g.sequence

\* Without a number there is nothing to show.
Honest(s) == s.sequence = 0 => s.kind = "hide"

\* What is in the mailbox is the latest, what the UI thread took is between it
\* and what was shown, and nothing is newer than the slot.
OrderInv ==
    /\ slot.sequence = 0 => slot = NoSnapshot
    /\ newest <= slot.sequence /\ latest <= slot.sequence
    /\ newestOwner = 0 => latest = 0
    /\ newestOwner # 0 => newest <= latest
    /\ mail.snapshot.sequence \in {0, latest} /\ Honest(mail.snapshot)
    /\ taken.snapshot.sequence <= latest /\ Honest(taken.snapshot)
    /\ taken.snapshot.sequence # 0 => newest <= taken.snapshot.sequence

\* What a refresh would draw is what was shown last.
PictureInv ==
    /\ last.kind = "window" => last.sequence = newest /\ newest # 0
    /\ hint # 0 => last.kind = "hint" /\ last.sequence = hint /\ hint = newest

\* A message is in hand or in the queue for every wake, and only a message that
\* takes the mail is handled to its end.
LoopInv ==
    /\ mail # NoMail => wakePending
    /\ wakePending => \/ \E i \in 1..Len(posts) : posts[i] = "update"
                      \/ ui = "got"
    /\ taken # NoMail => ui = "apply"
    /\ ui \in {"got", "apply"} => message # "quit"
    /\ ~up => ui = "down"

\* Whoever is behind the owner has the mail that tells so still before it.
OwnerInv ==
    closed \/ /\ mail.snapshot.sequence # 0 => mail.owner = owner
              /\ taken.snapshot.sequence # 0 /\ mail = NoMail
                   => taken.owner = owner
              /\ ui = "refresh" /\ readOwner # owner => mail # NoMail

IInv == TypeOK /\ LinksInv /\ WireInv /\ OrderInv /\ PictureInv /\ LoopInv
        /\ OwnerInv /\ StaleIsLeaving

-----------------------------------------------------------------------------
\* Frames on their way.

\* A frame that is written is one more, at the end.
LEMMA ItemsOfAppend ==
    ASSUME NEW s \in Seq(Snapshot), NEW x \in Snapshot
    PROVE /\ Append(s, x) \in Seq(Snapshot) /\ Len(Append(s, x)) = Len(s) + 1
          /\ Items(Append(s, x)) = Items(s) \cup {x}
<1>1. /\ Append(s, x) \in Seq(Snapshot) /\ Len(Append(s, x)) = Len(s) + 1
      /\ \A i \in 1..Len(s) : Append(s, x)[i] = s[i]
      /\ Append(s, x)[Len(s) + 1] = x /\ Len(s) \in Nat
  BY AppendProperties, LenProperties
<1>2. ASSUME NEW y \in Items(Append(s, x)) PROVE y \in Items(s) \cup {x}
  <2>1. PICK i \in 1..(Len(s) + 1) : y = Append(s, x)[i]
    BY <1>1, <1>2 DEF Items
  <2>2. CASE i = Len(s) + 1
    BY <1>1, <2>1, <2>2
  <2>3. CASE i \in 1..Len(s)
    BY <1>1, <2>1, <2>3 DEF Items
  <2> QED
    BY <1>1, <2>2, <2>3
<1>3. ASSUME NEW y \in Items(s) \cup {x} PROVE y \in Items(Append(s, x))
  <2>1. CASE y = x
    BY <1>1, <2>1 DEF Items
  <2>2. CASE y \in Items(s)
    BY <1>1, <2>2 DEF Items
  <2> QED
    BY <1>3, <2>1, <2>2
<1> QED
  BY <1>1, <1>2, <1>3

\* A frame that is read was there; the others stay.
LEMMA ItemsOfTail ==
    ASSUME NEW s \in Seq(Snapshot), s # <<>>
    PROVE /\ Tail(s) \in Seq(Snapshot) /\ Len(Tail(s)) = Len(s) - 1
          /\ Head(s) \in Snapshot /\ Head(s) \in Items(s)
          /\ Items(Tail(s)) \subseteq Items(s)
<1>1. /\ Tail(s) \in Seq(Snapshot) /\ Len(Tail(s)) = Len(s) - 1
      /\ Head(s) \in Snapshot /\ Head(s) = s[1] /\ Len(s) \in Nat \ {0}
      /\ \A i \in 1..Len(Tail(s)) : Tail(s)[i] = s[i + 1]
  BY HeadTailProperties, EmptySeq, LenProperties
<1> QED
  BY <1>1 DEF Items

\* What is left of a queue whose end was lost.
LEMMA ItemsOfPrefix ==
    ASSUME NEW s \in Seq(Snapshot), NEW n \in 0..Len(s)
    PROVE /\ SubSeq(s, 1, n) \in Seq(Snapshot) /\ Len(SubSeq(s, 1, n)) = n
          /\ Items(SubSeq(s, 1, n)) \subseteq Items(s)
<1>1. Len(s) \in Nat /\ \A i \in 1..n : s[i] \in Snapshot
  BY LenProperties, ElementOfSeq
<1>2. /\ SubSeq(s, 1, n) \in Seq(Snapshot)
      /\ Len(SubSeq(s, 1, n)) = IF 1 <= n THEN n - 1 + 1 ELSE 0
      /\ \A i \in 1 .. n - 1 + 1 : SubSeq(s, 1, n)[i] = s[1 + i - 1]
  BY <1>1, SubSeqProperties
<1>3. Len(SubSeq(s, 1, n)) = n /\ \A i \in 1..n : SubSeq(s, 1, n)[i] = s[i]
  BY <1>1, <1>2
<1> QED
  BY <1>1, <1>2, <1>3 DEF Items

\* What a step does to the frames on their way: the connection it is about gets
\* the slot, or some connections lose frames.
LEMMA WireMoves ==
    ASSUME TypeOK, [Next]_vars
    PROVE /\ wire' \in [Links -> Seq(Snapshot)]
          /\ \A c \in Links : Len(wire'[c]) <= WireLimit
          /\ \A c \in Links :
                \/ Frames(c)' \subseteq Frames(c)
                \/ /\ BridgeSends /\ c = link /\ slot # NoSnapshot
                   /\ Frames(c)' = Frames(c) \cup {slot}
<1> DEFINE Goal == /\ wire' \in [Links -> Seq(Snapshot)]
                   /\ \A c \in Links : Len(wire'[c]) <= WireLimit
                   /\ \A c \in Links :
                         \/ Frames(c)' \subseteq Frames(c)
                         \/ /\ BridgeSends /\ c = link /\ slot # NoSnapshot
                            /\ Frames(c)' = Frames(c) \cup {slot}
<1>0. /\ wire \in [Links -> Seq(Snapshot)] /\ slot \in Snapshot
      /\ \A c \in Links : Len(wire[c]) <= WireLimit /\ Len(wire[c]) \in Nat
      /\ WireLimit \in Nat /\ live \subseteq Links /\ serving \subseteq Links
  BY ConstantsAssumption, LenProperties DEF TypeOK
<1>1. ASSUME wire' = wire PROVE Goal
  BY <1>0, <1>1 DEF Frames
<1>2. CASE BridgeSends
  <2>1. CASE slot = NoSnapshot
    BY <1>1, <1>2, <2>1 DEF BridgeSends
  <2>2. CASE slot # NoSnapshot
    <3>1. /\ link \in Links /\ Len(wire[link]) < WireLimit
          /\ wire' = [wire EXCEPT ![link] = Append(wire[link], slot)]
      BY <1>0, <1>2, <2>2 DEF BridgeSends
    <3>2. /\ Append(wire[link], slot) \in Seq(Snapshot)
          /\ Len(Append(wire[link], slot)) = Len(wire[link]) + 1
          /\ Items(Append(wire[link], slot)) = Items(wire[link]) \cup {slot}
      BY <1>0, <3>1, ItemsOfAppend
    <3>3. /\ wire' \in [Links -> Seq(Snapshot)]
          /\ \A c \in Links : Len(wire'[c]) <= WireLimit
      BY <1>0, <3>1, <3>2
    <3>4. \A c \in Links : c = link => Frames(c)' = Frames(c) \cup {slot}
      BY <1>0, <3>1, <3>2 DEF Frames
    <3>5. \A c \in Links : c # link => Frames(c)' = Frames(c)
      BY <1>0, <3>1 DEF Frames
    <3> QED
      BY <1>2, <2>2, <3>3, <3>4, <3>5
  <2> QED
    BY <2>1, <2>2
<1>3. ASSUME NEW c, NEW s \in Seq(Snapshot), wire' = [wire EXCEPT ![c] = s],
             c \in Links => Len(s) <= WireLimit /\ Items(s) \subseteq Items(wire[c])
      PROVE Goal
  <2>1. /\ wire' \in [Links -> Seq(Snapshot)]
        /\ \A d \in Links : Len(wire'[d]) <= WireLimit
    BY <1>0, <1>3
  <2>2. \A d \in Links : Frames(d)' \subseteq Frames(d)
    BY <1>0, <1>3 DEF Frames
  <2> QED
    BY <2>1, <2>2
<1>4. CASE BridgeLeaves
  <2>1. PICK n \in 0..Len(wire[link]) :
            wire' = [wire EXCEPT ![link] = SubSeq(wire[link], 1, n)]
    BY <1>4 DEF BridgeLeaves
  <2>2. CASE link \in Links
    <3>1. /\ SubSeq(wire[link], 1, n) \in Seq(Snapshot)
          /\ Len(SubSeq(wire[link], 1, n)) = n
          /\ Items(SubSeq(wire[link], 1, n)) \subseteq Items(wire[link])
      BY <1>0, <2>2, ItemsOfPrefix
    <3>2. n <= WireLimit
      BY <1>0, <2>2
    <3> QED
      BY <1>3, <2>1, <3>1, <3>2
  <2>3. CASE link \notin Links
    <3>1. wire' = wire
      BY <1>0, <2>1, <2>3
    <3> QED
      BY <1>1, <3>1
  <2> QED
    BY <2>2, <2>3
<1>5. ASSUME NEW c \in Links, ServeSnapshot(c) PROVE Goal
  <2>1. wire[c] # <<>> /\ wire' = [wire EXCEPT ![c] = Tail(wire[c])]
    BY <1>5 DEF ServeSnapshot
  <2>2. /\ Tail(wire[c]) \in Seq(Snapshot) /\ Len(Tail(wire[c])) = Len(wire[c]) - 1
        /\ Items(Tail(wire[c])) \subseteq Items(wire[c])
    BY <1>0, <1>5, <2>1, ItemsOfTail
  <2>3. Len(Tail(wire[c])) <= WireLimit
    BY <1>0, <1>5, <2>2
  <2> QED
    BY <1>3, <2>1, <2>2, <2>3
<1>6. /\ <<>> \in Seq(Snapshot) /\ Len(<<>>) <= WireLimit /\ Items(<<>>) = {}
  BY <1>0, EmptySeq DEF Items
<1>7. ASSUME NEW c \in Links, ServeEnds(c) PROVE Goal
  BY <1>3, <1>6, <1>7 DEF ServeEnds
<1>8. CASE RendererDies
  <2>1. wire' = [c \in Links |-> <<>>]
    BY <1>8 DEF RendererDies
  <2> QED
    BY <1>6, <2>1 DEF Frames
<1>9. CASE Publish \/ BridgeConnects \/ BridgeNegotiated \/ UiGets \/ UiSteps
           \/ HintDue \/ RendererQuits \/ RendererStarts \/ UNCHANGED vars
  <2>1. wire' = wire
    BY <1>9 DEF Publish, BridgeConnects, BridgeNegotiated, UiGets, UiSteps,
       HintDue, RendererQuits, RendererStarts, UiGetsPosted, UiGetsTimer,
       UiGetsOther, UiTakes, UiApplies, UiExpires, UiReadsOwner, UiRefreshes,
       UiChecks, UiLeaves, vars, wireVars
  <2> QED
    BY <1>1, <2>1
<1> QED
  BY <1>2, <1>4, <1>5, <1>7, <1>8, <1>9 DEF Next, Bridge, Serve

-----------------------------------------------------------------------------
\* What the window shows after a message.

\* A snapshot that is shown is not older than what was shown before.
LEMMA ApplyFacts ==
    ASSUME TypeOK, OrderInv, UiApplies
    PROVE \/ shown' = 0 /\ newest' = newest
          \/ /\ taken.snapshot.sequence # 0
             /\ shown' = taken.snapshot.sequence
             /\ newest' = taken.snapshot.sequence
             /\ newest <= taken.snapshot.sequence
             /\ taken.snapshot.sequence <= latest
<1> DEFINE s == taken.snapshot
<1>1. /\ shown' = IF s.kind = "window" \/ hint' # 0 THEN s.sequence ELSE 0
      /\ newest' = IF shown' # 0 THEN shown' ELSE newest
      /\ hint' = s.sequence \/ hint' = 0
  BY DEF UiApplies, Display
<1>2. /\ s.sequence = 0 => s.kind = "hide"
      /\ s.sequence # 0 => newest <= s.sequence
      /\ s.sequence <= latest
  BY DEF OrderInv, Honest
<1> HIDE DEF s
<1>3. shown' = 0 \/ (s.sequence # 0 /\ shown' = s.sequence)
  BY <1>1, <1>2
<1> QED
  BY <1>1, <1>2, <1>3 DEF s

\* A change of appearance draws what was shown last, or nothing.
LEMMA RefreshFacts ==
    ASSUME PictureInv, UiRefreshes
    PROVE /\ newest' = newest
          /\ shown' = shown \/ (shown' = newest /\ newest # 0)
BY DEF UiRefreshes, Display, PictureInv

\* The newest number shown grows, and not past what the mailbox took.
LEMMA NewestMoves ==
    ASSUME TypeOK, OrderInv, PictureInv, [Next]_vars
    PROVE \/ newest' = newest
          \/ /\ UiApplies /\ newest' = taken.snapshot.sequence
             /\ newest <= newest' /\ newest' <= latest
<1>1. CASE UiApplies
  BY <1>1, ApplyFacts
<1>2. CASE UiRefreshes
  BY <1>2, RefreshFacts
<1>3. CASE ~UiApplies /\ ~UiRefreshes
  BY <1>3 DEF Next, Bridge, Serve, UiGets, UiSteps, Publish, BridgeConnects,
     BridgeNegotiated, BridgeSends, BridgeLeaves, ServeSnapshot, ServeEnds,
     UiGetsPosted, UiGetsTimer, UiGetsOther, UiTakes, UiExpires, UiReadsOwner,
     UiChecks, UiLeaves, HintDue, RendererQuits, RendererDies, RendererStarts,
     vars, screenVars
<1> QED
  BY <1>1, <1>2, <1>3

\* The slot's number never goes back.
LEMMA SlotGrows ==
    ASSUME TypeOK, [Next]_vars
    PROVE /\ slot' \in Snapshot /\ slot.sequence <= slot'.sequence
          /\ \/ slot' = slot
             \/ Publish /\ slot'.sequence = slot.sequence + 1
<1>1. CASE Publish
  BY <1>1 DEF Publish, TypeOK, Snapshot
<1>2. CASE ~Publish
  <2>1. slot' = slot
    BY <1>2 DEF Next, Bridge, Serve, UiGets, UiSteps, BridgeConnects,
       BridgeNegotiated, BridgeSends, BridgeLeaves, ServeSnapshot, ServeEnds,
       UiGetsPosted, UiGetsTimer, UiGetsOther, UiTakes, UiApplies, UiExpires,
       UiReadsOwner, UiRefreshes, UiChecks, UiLeaves, HintDue, RendererQuits,
       RendererDies, RendererStarts, vars
  <2> QED
    BY <2>1 DEF TypeOK, Snapshot
<1> QED
  BY <1>1, <1>2

\* What a step may do to the numbers the mailbox keeps: nothing, take the frame
\* of a connection that is not behind, or forget them with the process.
LEMMA LatestMoves ==
    ASSUME [Next]_vars
    PROVE \/ UNCHANGED <<newestOwner, latest>>
          \/ \E c \in Links : ServeSnapshot(c) /\ Accepts(c, Head(wire[c]))
          \/ RendererDies
BY DEF Next, Bridge, Serve, UiGets, UiSteps, Publish, BridgeConnects,
   BridgeNegotiated, BridgeSends, BridgeLeaves, ServeSnapshot, ServeEnds,
   UiGetsPosted, UiGetsTimer, UiGetsOther, UiTakes, UiApplies, UiExpires,
   UiReadsOwner, UiRefreshes, UiChecks, UiLeaves, HintDue, RendererQuits,
   RendererStarts, vars, mailVars

-----------------------------------------------------------------------------
\* Every step keeps the invariant, one part at a time.

\* Connections are numbered in the order they are made.
LEMMA LinksStep == TypeOK /\ LinksInv /\ WireInv /\ [Next]_vars => LinksInv'
<1> SUFFICES ASSUME TypeOK, LinksInv, WireInv, [Next]_vars PROVE LinksInv'
  OBVIOUS
<1>0. /\ links \in Nat /\ newestOwner \in Nat /\ Links \subseteq Nat
      /\ wire \in [Links -> Seq(Snapshot)]
      /\ \A c \in Links : Len(wire[c]) \in Nat
  BY LenProperties, ConstantsAssumption DEF TypeOK, Links
<1>1. /\ wire' \in [Links -> Seq(Snapshot)]
      /\ \A c \in Links : wire[c] = <<>> /\ ~(BridgeSends /\ c = link)
             => wire'[c] = <<>>
  <2>1. wire' \in [Links -> Seq(Snapshot)]
    BY WireMoves
  <2>2. ASSUME NEW c \in Links, wire[c] = <<>>, ~(BridgeSends /\ c = link)
        PROVE wire'[c] = <<>>
    <3>1. Frames(c)' \subseteq Frames(c)
      BY <2>2, WireMoves
    <3>2. Frames(c) = {}
      BY <2>2, EmptySeq DEF Frames, Items
    <3>3. \A i \in 1..Len(wire'[c]) : FALSE
      BY <3>1, <3>2 DEF Frames, Items
    <3>4. Len(wire'[c]) = 0
      BY <2>1, <3>3, LenProperties
    <3> QED
      BY <2>1, <3>4, EmptySeq
  <2> QED
    BY <2>1, <2>2
<1>2. CASE BridgeConnects
  BY <1>0, <1>2 DEF BridgeConnects, LinksInv, mailVars
<1>3. CASE ~BridgeConnects
  <2>1. links' = links /\ link' \in {0, link}
    BY <1>3 DEF Next, Bridge, Serve, UiGets, UiSteps, Publish,
       BridgeNegotiated, BridgeSends, BridgeLeaves, ServeSnapshot, ServeEnds,
       UiGetsPosted, UiGetsTimer, UiGetsOther, UiTakes, UiApplies, UiExpires,
       UiReadsOwner, UiRefreshes, UiChecks, UiLeaves, HintDue, RendererQuits,
       RendererDies, RendererStarts, vars, bridgeVars
  <2>2. newestOwner' <= links
    <3>1. CASE UNCHANGED newestOwner
      BY <3>1 DEF LinksInv
    <3>2. CASE RendererDies
      BY <1>0, <3>2 DEF RendererDies
    <3>3. ASSUME NEW c \in Links, ServeSnapshot(c), Accepts(c, Head(wire[c]))
          PROVE newestOwner' <= links
      BY <1>0, <3>3 DEF ServeSnapshot, LinksInv
    <3> QED
      BY <3>1, <3>2, <3>3, LatestMoves
  <2>3. \A c \in Links : c > links => wire'[c] = <<>>
    BY <1>0, <1>1 DEF LinksInv, BridgeSends, Links
  <2> QED
    BY <2>1, <2>2, <2>3 DEF LinksInv
<1> QED
  BY <1>2, <1>3

\* The order of the frames: what a new connection carries was written after what
\* the older ones carry, and after what the mailbox took from them.
LEMMA WireStep ==
    TypeOK /\ LinksInv /\ WireInv /\ OrderInv /\ PictureInv /\ [Next]_vars
        => WireInv'
<1> SUFFICES ASSUME TypeOK, LinksInv, WireInv, OrderInv, PictureInv, [Next]_vars
             PROVE WireInv'
  OBVIOUS
<1>0. /\ slot \in Snapshot /\ slot.sequence \in Nat /\ slot'.sequence \in Nat
      /\ slot.sequence <= slot'.sequence
      /\ newest \in Nat /\ latest \in Nat /\ newestOwner \in Nat
      /\ Links \subseteq Nat /\ links \in Nat
      /\ \A c \in Links : Frames(c) \subseteq Snapshot
      /\ \A f \in Snapshot : f.sequence \in Nat
      /\ newest <= slot.sequence /\ latest <= slot.sequence
      /\ slot # NoSnapshot => slot.sequence # 0
  <2>1. \A c \in Links : Frames(c) \subseteq Snapshot
    BY ElementOfSeq DEF TypeOK, Frames, Items
  <2>2. slot \in Snapshot /\ \A f \in Snapshot : f.sequence \in Nat
    BY DEF TypeOK, Snapshot
  <2>3. slot' \in Snapshot /\ slot.sequence <= slot'.sequence
    BY SlotGrows
  <2> QED
    BY <2>1, <2>2, <2>3, ConstantsAssumption DEF TypeOK, Links, OrderInv
<1>1. newest' \in Nat /\ (newest' = newest \/ newest' <= latest)
  BY <1>0, NewestMoves DEF TypeOK
<1>2. \A c \in Links : \A f \in Frames(c) :
         f \in Snapshot /\ f.sequence \in Nat /\ f.sequence # 0
         /\ f.sequence <= slot.sequence
  BY <1>0 DEF WireInv
<1>3. ASSUME \A c \in Links : Frames(c)' \subseteq Frames(c),
             UNCHANGED <<newestOwner, latest>>
      PROVE WireInv'
  <2>1. \A c, d \in Links : c < d =>
            \A f \in Frames(c)', g \in Frames(d)' : f.sequence <= g.sequence
    BY <1>3 DEF WireInv
  <2>2. ASSUME NEW c \in Links, NEW f \in Frames(c)'
        PROVE /\ f.sequence # 0 /\ f.sequence <= slot'.sequence
              /\ c > newestOwner' =>
                    newest' <= f.sequence /\ latest' <= f.sequence
    <3>1. f \in Frames(c) /\ f.sequence \in Nat /\ f.sequence # 0
          /\ f.sequence <= slot.sequence
      BY <1>2, <1>3
    <3>2. c > newestOwner => newest <= f.sequence /\ latest <= f.sequence
      BY <3>1 DEF WireInv
    <3> QED
      BY <1>0, <1>1, <1>3, <3>1, <3>2
  <2> QED
    BY <2>1, <2>2 DEF WireInv
<1>4. CASE BridgeSends
  <2>1. /\ link \in Links /\ links = link /\ link' = link
        /\ UNCHANGED <<newestOwner, latest, newest, slot>>
    BY <1>0, <1>4 DEF BridgeSends, TypeOK, LinksInv, Links, mailVars, screenVars
  <2>2. /\ \A c \in Links : c # link => Frames(c)' \subseteq Frames(c)
        /\ \A c \in Links : \A f \in Frames(c)' :
              f \in Frames(c) \/ (c = link /\ f = slot /\ slot # NoSnapshot)
    BY WireMoves
  <2>3. \A c \in Links : c > link => Frames(c) = {}
    <3>1. \A c \in Links : c > links => wire[c] = <<>>
      BY DEF LinksInv
    <3> QED
      BY <2>1, <3>1, EmptySeq DEF Frames, Items
  <2>4. ASSUME NEW c \in Links, NEW f \in Frames(c)'
        PROVE /\ f.sequence # 0 /\ f.sequence <= slot'.sequence
              /\ c > newestOwner' =>
                    newest' <= f.sequence /\ latest' <= f.sequence
    <3>1. CASE f \in Frames(c)
      BY <1>2, <2>1, <3>1 DEF WireInv
    <3>2. CASE f = slot /\ slot # NoSnapshot
      BY <1>0, <2>1, <3>2
    <3> QED
      BY <2>2, <3>1, <3>2
  <2>5. ASSUME NEW c \in Links, NEW d \in Links, c < d,
               NEW f \in Frames(c)', NEW g \in Frames(d)'
        PROVE f.sequence <= g.sequence
    <3>1. CASE f \in Frames(c) /\ g \in Frames(d)
      BY <2>5, <3>1 DEF WireInv
    <3>2. CASE f \in Frames(c) /\ g = slot
      BY <1>2, <3>2
    <3>3. CASE c = link
      <4>1. d > link
        BY <1>0, <2>1, <2>5, <3>3
      <4> QED
        BY <1>0, <2>2, <2>3, <4>1
    <3> QED
      BY <2>2, <3>1, <3>2, <3>3
  <2> QED
    BY <2>4, <2>5 DEF WireInv
<1>5. ASSUME NEW c \in Links, ServeSnapshot(c), Accepts(c, Head(wire[c]))
      PROVE WireInv'
  <2> DEFINE s == Head(wire[c])
  <2>1. s \in Frames(c)
    BY <1>5, ItemsOfTail DEF ServeSnapshot, TypeOK, Frames
  <2>2. /\ newestOwner' = c /\ latest' = s.sequence /\ c >= newestOwner
        /\ UNCHANGED <<newest, slot>>
    BY <1>5 DEF ServeSnapshot, Accepts, screenVars
  <2> HIDE DEF s
  <2>3. \A d \in Links : Frames(d)' \subseteq Frames(d)
    <3>1. ~BridgeSends
      BY <1>5 DEF ServeSnapshot, BridgeSends, Unsent, bridgeVars, TypeOK
    <3> QED
      BY <3>1, WireMoves
  <2>4. \A d, e \in Links : d < e =>
            \A f \in Frames(d)', g \in Frames(e)' : f.sequence <= g.sequence
    BY <2>3 DEF WireInv
  <2>5. ASSUME NEW d \in Links, NEW f \in Frames(d)'
        PROVE /\ f.sequence # 0 /\ f.sequence <= slot'.sequence
              /\ d > newestOwner' =>
                    newest' <= f.sequence /\ latest' <= f.sequence
    <3>1. f \in Frames(d)
      BY <2>3
    <3>2. ASSUME d > c PROVE newest <= f.sequence /\ s.sequence <= f.sequence
      <4>1. d > newestOwner
        BY <1>0, <2>2, <3>2
      <4> QED
        BY <1>0, <2>1, <3>1, <3>2, <4>1 DEF WireInv
    <3> QED
      BY <1>2, <2>2, <3>1, <3>2
  <2> QED
    BY <2>4, <2>5 DEF WireInv
<1>6. CASE RendererDies
  <2>1. \A c \in Links : Frames(c)' = {}
    BY <1>6, EmptySeq DEF RendererDies, Frames, Items
  <2> QED
    BY <2>1 DEF WireInv
<1>7. CASE ~BridgeSends /\ UNCHANGED <<newestOwner, latest>>
  BY <1>3, <1>7, WireMoves
<1>8. CASE BridgeSends \/ UNCHANGED <<newestOwner, latest>>
  BY <1>4, <1>7, <1>8
<1> QED
  BY <1>5, <1>6, <1>8, LatestMoves

\* The numbers keep their order, from the slot to the window.
LEMMA OrderStep ==
    TypeOK /\ LinksInv /\ WireInv /\ OrderInv /\ PictureInv /\ [Next]_vars
        => OrderInv'
<1> SUFFICES ASSUME TypeOK, LinksInv, WireInv, OrderInv, PictureInv, [Next]_vars
             PROVE OrderInv'
  OBVIOUS
<1>0. /\ slot.sequence \in Nat /\ newest \in Nat /\ latest \in Nat
      /\ newestOwner \in Nat /\ mail.snapshot.sequence \in Nat
      /\ taken.snapshot.sequence \in Nat
  BY DEF TypeOK, Snapshot
<1>1. ASSUME UNCHANGED <<slot, newest, latest, newestOwner, mail, taken>>
      PROVE OrderInv'
  BY <1>1 DEF OrderInv
<1>2. CASE Publish
  BY <1>0, <1>2 DEF Publish, OrderInv, mailVars, loopVars, screenVars, Honest
<1>3. ASSUME NEW c \in Links, ServeSnapshot(c) PROVE OrderInv'
  <2> DEFINE s == Head(wire[c])
  <2>1. CASE Accepts(c, s)
    <3>1. s \in Frames(c) /\ s.sequence \in Nat
      BY <1>3, ItemsOfTail DEF ServeSnapshot, TypeOK, Frames, Snapshot
    <3>2. /\ newestOwner' = c /\ latest' = s.sequence /\ mail' = Mail(c, s)
          /\ UNCHANGED <<newest, slot, taken>>
          /\ c >= newestOwner /\ s.sequence # 0
          /\ c = newestOwner => s.sequence > latest
      BY <1>3, <2>1 DEF ServeSnapshot, Accepts, Deliver, screenVars, loopVars
    <3> HIDE DEF s
    <3>3. /\ s.sequence <= slot.sequence
          /\ c > newestOwner => newest <= s.sequence /\ latest <= s.sequence
      BY <3>1 DEF WireInv
    <3>4. c \in Nat /\ c # 0
      BY ConstantsAssumption DEF Links
    <3>5. newest <= s.sequence /\ latest <= s.sequence
      BY <1>0, <3>1, <3>2, <3>3, <3>4 DEF OrderInv
    <3> QED
      BY <1>0, <3>1, <3>2, <3>3, <3>4, <3>5 DEF OrderInv, Honest, Mail
  <2>2. CASE ~Accepts(c, s)
    BY <1>1, <1>3, <2>2 DEF ServeSnapshot, loopVars, screenVars
  <2> QED
    BY <2>1, <2>2
<1>4. ASSUME NEW c \in Links, ServeEnds(c) PROVE OrderInv'
  <2>1. UNCHANGED <<slot, newest, latest, newestOwner, taken>>
    BY <1>4 DEF ServeEnds, loopVars, screenVars
  <2>2. mail' = mail \/ mail' = Mail(c, NoSnapshot)
    BY <1>4 DEF ServeEnds, Deliver
  <2> QED
    BY <2>1, <2>2 DEF OrderInv, Mail, NoSnapshot, Honest
<1>5. CASE RendererQuits
  BY <1>5 DEF RendererQuits, OrderInv, NoMail, NoSnapshot, Honest, loopVars,
     screenVars
<1>6. CASE UiTakes
  BY <1>0, <1>6 DEF UiTakes, OrderInv, NoMail, NoSnapshot, Honest, screenVars
<1>7. CASE UiApplies
  <2>1. /\ taken' = NoMail /\ UNCHANGED <<slot, latest, newestOwner, mail>>
    BY <1>7 DEF UiApplies, mailVars
  <2>2. newest' = newest \/ (newest' = taken.snapshot.sequence
                             /\ taken.snapshot.sequence # 0)
    BY <1>7, ApplyFacts
  <2> QED
    BY <1>0, <2>1, <2>2 DEF OrderInv, NoMail, NoSnapshot, Honest
<1>8. CASE UiRefreshes
  <2>1. newest' = newest
    BY <1>8, RefreshFacts
  <2> QED
    BY <1>1, <1>8, <2>1 DEF UiRefreshes, mailVars
<1>9. CASE RendererDies
  BY <1>0, <1>9 DEF RendererDies, OrderInv, NoMail, NoSnapshot, Honest
<1>10. CASE \/ Bridge \/ UiGets \/ UiExpires \/ UiReadsOwner \/ UiChecks
            \/ UiLeaves \/ HintDue \/ RendererStarts \/ UNCHANGED vars
  BY <1>1, <1>10 DEF Bridge, BridgeConnects, BridgeNegotiated, BridgeSends,
     BridgeLeaves, UiGets, UiGetsPosted, UiGetsTimer, UiGetsOther, UiExpires,
     UiReadsOwner, UiChecks, UiLeaves, HintDue, RendererStarts, vars, mailVars,
     loopVars, screenVars
<1> QED
  BY <1>2, <1>3, <1>4, <1>5, <1>6, <1>7, <1>8, <1>9, <1>10
     DEF Next, Serve, UiSteps

\* What a refresh would draw stays what was shown last.
LEMMA PictureStep == TypeOK /\ OrderInv /\ PictureInv /\ [Next]_vars => PictureInv'
<1> SUFFICES ASSUME TypeOK, OrderInv, PictureInv, [Next]_vars PROVE PictureInv'
  OBVIOUS
<1>1. ASSUME UNCHANGED <<last, hint, newest>> PROVE PictureInv'
  BY <1>1 DEF PictureInv
<1>2. CASE UiApplies
  <2> DEFINE s == taken.snapshot
  <2>1. /\ last' = s
        /\ hint' # 0 => s.kind = "hint" /\ hint' = s.sequence
        /\ shown' = IF s.kind = "window" \/ hint' # 0 THEN s.sequence ELSE 0
        /\ newest' = IF shown' # 0 THEN shown' ELSE newest
    BY <1>2 DEF UiApplies, Display
  <2>2. s.kind = "window" => s.sequence # 0
    BY DEF OrderInv, Honest
  <2> HIDE DEF s
  <2> QED
    BY <2>1, <2>2 DEF PictureInv
<1>3. CASE UiExpires
  BY <1>3 DEF UiExpires, PictureInv
<1>4. CASE UiRefreshes
  <2>1. newest' = newest
    BY <1>4, RefreshFacts
  <2> QED
    BY <1>1, <1>4, <2>1 DEF UiRefreshes
<1>5. CASE RendererDies
  BY <1>5 DEF RendererDies, PictureInv, NoSnapshot
<1>6. CASE ~(UiApplies \/ UiExpires \/ UiRefreshes \/ RendererDies)
  BY <1>1, <1>6 DEF Next, Bridge, Serve, UiGets, UiSteps, Publish,
     BridgeConnects, BridgeNegotiated, BridgeSends, BridgeLeaves, ServeSnapshot,
     ServeEnds, UiGetsPosted, UiGetsTimer, UiGetsOther, UiTakes, UiReadsOwner,
     UiChecks, UiLeaves, HintDue, RendererQuits, RendererStarts, vars, screenVars
<1> QED
  BY <1>2, <1>3, <1>4, <1>5, <1>6

\* A wake is not lost: while it is pending, the message for it is queued, or the
\* UI thread has one in hand that takes the mail.
LEMMA LoopStep == TypeOK /\ LoopInv /\ [Next]_vars => LoopInv'
<1> SUFFICES ASSUME TypeOK, LoopInv, [Next]_vars PROVE LoopInv'
  OBVIOUS
<1> DEFINE Queued == \E i \in 1..Len(posts) : posts[i] = "update"
<1>0. posts \in Seq({"update", "quit"}) /\ Len(posts) \in Nat
  BY LenProperties DEF TypeOK
<1>1. ASSUME NEW x \in {"update", "quit"}, posts' = Append(posts, x)
      PROVE (Queued => Queued') /\ (x = "update" => Queued')
  <2>1. /\ Len(posts') = Len(posts) + 1 /\ posts'[Len(posts) + 1] = x
        /\ \A i \in 1..Len(posts) : posts'[i] = posts[i]
    BY <1>0, <1>1, AppendProperties
  <2>2. ASSUME Queued PROVE Queued'
    <3>1. PICK i \in 1..Len(posts) : posts[i] = "update"
      BY <2>2
    <3>2. i \in 1..Len(posts') /\ posts'[i] = "update"
      BY <1>0, <2>1, <3>1
    <3> QED
      BY <3>2
  <2>3. ASSUME x = "update" PROVE Queued'
    <3>1. Len(posts) + 1 \in 1..Len(posts')
      BY <1>0, <2>1
    <3> QED
      BY <2>1, <2>3, <3>1
  <2> QED
    BY <2>2, <2>3
<1>2. ASSUME NEW m, Deliver(m), UNCHANGED loopVars, UNCHANGED up PROVE LoopInv'
  <2>1. CASE wakePending
    BY <1>2, <2>1 DEF Deliver, LoopInv, loopVars
  <2>2. CASE ~wakePending
    <3>1. posts' = Append(posts, "update")
      BY <1>2, <2>2 DEF Deliver
    <3>2. Queued'
      BY <1>1, <3>1
    <3> HIDE DEF Queued
    <3>3. wakePending' /\ UNCHANGED <<ui, message, taken, up>>
      BY <1>2 DEF Deliver, loopVars
    <3> QED
      BY <3>2, <3>3 DEF LoopInv, Queued
  <2> QED
    BY <2>1, <2>2
<1>3. ASSUME UNCHANGED <<mail, wakePending, posts>>, UNCHANGED loopVars,
             UNCHANGED up
      PROVE LoopInv'
  BY <1>3 DEF LoopInv, loopVars
<1>4. ASSUME NEW c \in Links, Serve(c) PROVE LoopInv'
  BY <1>2, <1>3, <1>4 DEF Serve, ServeSnapshot, ServeEnds, processVars
<1>5. CASE RendererQuits
  <2>1. /\ mail' = NoMail /\ UNCHANGED <<wakePending, up>> /\ UNCHANGED loopVars
        /\ posts' = Append(posts, "quit")
    BY <1>5 DEF RendererQuits, processVars
  <2>2. Queued => Queued'
    BY <1>1, <2>1
  <2> QED
    BY <2>1, <2>2 DEF LoopInv, loopVars
<1>6. CASE UiGetsPosted
  <2>1. /\ ui = "wait" /\ posts # <<>> /\ message' = Head(posts)
        /\ posts' = Tail(posts) /\ UNCHANGED <<mail, wakePending, taken, up>>
        /\ ui' = IF Head(posts) = "quit" THEN "leave" ELSE "got"
    BY <1>6 DEF UiGetsPosted, processVars
  <2>2. /\ Head(posts) = posts[1] /\ Len(posts') = Len(posts) - 1
        /\ \A i \in 1..Len(posts') : posts'[i] = posts[i + 1]
    BY <1>0, <2>1, HeadTailProperties
  <2>3. taken = NoMail
    BY <2>1 DEF LoopInv
  <2>4. CASE Head(posts) # "quit"
    BY <2>1, <2>3, <2>4 DEF LoopInv
  <2>5. CASE Head(posts) = "quit"
    <3>1. ASSUME wakePending PROVE Queued'
      <4>1. PICK i \in 1..Len(posts) : posts[i] = "update"
        BY <2>1, <3>1 DEF LoopInv
      <4>2. i # 1
        BY <2>2, <2>5, <4>1
      <4>3. i - 1 \in 1..Len(posts') /\ posts'[i - 1] = "update"
        BY <1>0, <2>2, <4>1, <4>2
      <4> QED
        BY <4>3
    <3> QED
      BY <2>1, <2>3, <2>5, <3>1 DEF LoopInv
  <2> QED
    BY <2>4, <2>5
<1>7. CASE UiGetsTimer \/ UiGetsOther
  BY <1>7 DEF UiGetsTimer, UiGetsOther, LoopInv, mailVars, processVars
<1>8. CASE UiTakes
  BY <1>8 DEF UiTakes, LoopInv, TypeOK, processVars
<1>9. CASE UiApplies
  BY <1>9 DEF UiApplies, LoopInv, mailVars, processVars, TypeOK
<1>10. CASE UiExpires \/ UiReadsOwner \/ UiRefreshes \/ UiChecks \/ UiLeaves
  BY <1>10 DEF UiExpires, UiReadsOwner, UiRefreshes, UiChecks, UiLeaves,
     LoopInv, mailVars, processVars
<1>11. CASE RendererDies
  BY <1>11 DEF RendererDies, LoopInv
<1>12. CASE RendererStarts
  <2>1. /\ ui' = "wait" /\ UNCHANGED <<mail, wakePending, posts, taken, message>>
        /\ ~up /\ up'
    BY <1>12 DEF RendererStarts, mailVars
  <2> QED
    BY <2>1 DEF LoopInv
<1>13. CASE Publish \/ Bridge \/ HintDue \/ UNCHANGED vars
  BY <1>3, <1>13 DEF Publish, Bridge, BridgeConnects, BridgeNegotiated,
     BridgeSends, BridgeLeaves, HintDue, vars, mailVars, processVars
<1> QED
  BY <1>4, <1>5, <1>6, <1>7, <1>8, <1>9, <1>10, <1>11, <1>12, <1>13
     DEF Next, UiGets, UiSteps

\* Who is behind the owner keeps the mail that tells so before it.
LEMMA OwnerStep == TypeOK /\ OwnerInv /\ [Next]_vars => OwnerInv'
<1> SUFFICES ASSUME TypeOK, OwnerInv, [Next]_vars PROVE OwnerInv'
  OBVIOUS
<1>0. Links \subseteq Nat /\ 0 \notin Links
  BY ConstantsAssumption DEF Links
<1>1. ASSUME UNCHANGED <<closed, mail, owner, taken, readOwner>>,
             ui' = "refresh" => ui = "refresh"
      PROVE OwnerInv'
  BY <1>1 DEF OwnerInv
<1>2. ASSUME NEW c \in Links, NEW s, Deliver(Mail(c, s)), owner' = c \/ s.sequence = 0
      PROVE OwnerInv'
  <2>1. mail' = Mail(c, s) /\ mail' # NoMail
    BY <1>0, <1>2 DEF Deliver, Mail, NoMail
  <2> QED
    BY <1>2, <2>1 DEF OwnerInv, Mail
<1>3. ASSUME NEW c \in Links, ServeSnapshot(c) PROVE OwnerInv'
  <2>1. CASE Accepts(c, Head(wire[c]))
    BY <1>2, <1>3, <2>1 DEF ServeSnapshot
  <2>2. CASE ~Accepts(c, Head(wire[c]))
    BY <1>1, <1>3, <2>2 DEF ServeSnapshot, loopVars
  <2> QED
    BY <2>1, <2>2
<1>4. ASSUME NEW c \in Links, ServeEnds(c) PROVE OwnerInv'
  <2>1. CASE ~closed /\ owner = c
    BY <1>2, <1>4, <2>1 DEF ServeEnds, NoSnapshot
  <2>2. CASE ~(~closed /\ owner = c)
    BY <1>1, <1>4, <2>2 DEF ServeEnds, loopVars
  <2> QED
    BY <2>1, <2>2
<1>5. CASE RendererQuits
  BY <1>5 DEF RendererQuits, OwnerInv
<1>6. CASE UiTakes
  <2>1. /\ taken' = mail /\ mail' = NoMail /\ ui' # "refresh"
        /\ UNCHANGED <<closed, owner, readOwner>>
    BY <1>6 DEF UiTakes, TypeOK
  <2> QED
    BY <2>1 DEF OwnerInv, NoMail, NoSnapshot
<1>7. CASE UiApplies
  <2>1. /\ taken' = NoMail /\ ui' # "refresh"
        /\ UNCHANGED <<closed, owner, mail, readOwner>>
    BY <1>7 DEF UiApplies, TypeOK, mailVars
  <2> QED
    BY <2>1 DEF OwnerInv, NoMail, NoSnapshot
<1>8. CASE UiReadsOwner
  BY <1>8 DEF UiReadsOwner, OwnerInv, mailVars
<1>9. CASE RendererDies
  BY <1>9 DEF RendererDies, OwnerInv, NoMail, NoSnapshot
<1>10. CASE \/ Publish \/ Bridge \/ UiGets \/ UiExpires \/ UiRefreshes \/ UiChecks
            \/ UiLeaves \/ HintDue \/ RendererStarts \/ UNCHANGED vars
  BY <1>1, <1>10 DEF Publish, Bridge, BridgeConnects, BridgeNegotiated,
     BridgeSends, BridgeLeaves, UiGets, UiGetsPosted, UiGetsTimer, UiGetsOther,
     UiExpires, UiRefreshes, UiChecks, UiLeaves, HintDue, RendererStarts, vars,
     mailVars, loopVars
<1> QED
  BY <1>3, <1>4, <1>5, <1>6, <1>7, <1>8, <1>9, <1>10 DEF Next, Serve, UiSteps

\* A picture that became stale is on its way out.
LEMMA StaleStep ==
    TypeOK /\ OrderInv /\ PictureInv /\ LoopInv /\ OwnerInv /\ StaleIsLeaving
        /\ [Next]_vars => StaleIsLeaving'
<1> SUFFICES ASSUME TypeOK, OrderInv, PictureInv, LoopInv, OwnerInv,
                    StaleIsLeaving, [Next]_vars
             PROVE StaleIsLeaving'
  OBVIOUS
<1>0. Links \subseteq Nat /\ 0 \notin Links
  BY ConstantsAssumption DEF Links
<1>1. ASSUME UNCHANGED <<owner, presenter, mail, taken, closed>>,
             shown' \in {0, shown}
      PROVE StaleIsLeaving'
  BY <1>1 DEF StaleIsLeaving
<1>2. ASSUME NEW c \in Links, NEW s, Deliver(Mail(c, s)) PROVE StaleIsLeaving'
  BY <1>0, <1>2 DEF Deliver, Mail, NoMail, StaleIsLeaving
<1>3. ASSUME NEW c \in Links, Serve(c) PROVE StaleIsLeaving'
  <2>1. CASE UNCHANGED <<owner, mail>>
    BY <1>1, <1>3, <2>1 DEF Serve, ServeSnapshot, ServeEnds, loopVars, screenVars
  <2>2. CASE ~UNCHANGED <<owner, mail>>
    BY <1>2, <1>3, <2>2 DEF Serve, ServeSnapshot, ServeEnds
  <2> QED
    BY <2>1, <2>2
<1>4. CASE RendererQuits
  BY <1>4 DEF RendererQuits, StaleIsLeaving
<1>5. CASE UiTakes
  <2>1. /\ taken' = mail /\ taken = NoMail
        /\ UNCHANGED <<shown, owner, presenter, closed>>
    BY <1>5 DEF UiTakes, LoopInv, screenVars
  <2> QED
    BY <2>1 DEF StaleIsLeaving
<1>6. CASE UiApplies
  <2>1. presenter' = taken.owner /\ UNCHANGED <<owner, mail, closed>>
    BY <1>6 DEF UiApplies, mailVars
  <2>2. shown' # 0 => taken.snapshot.sequence # 0
    BY <1>6, ApplyFacts
  <2> QED
    BY <2>1, <2>2 DEF StaleIsLeaving, OwnerInv
<1>7. CASE UiRefreshes
  <2>1. UNCHANGED <<owner, presenter, mail, taken, closed>> /\ ui = "refresh"
    BY <1>7 DEF UiRefreshes, mailVars
  <2>2. shown' = shown \/ readOwner = presenter
    BY <1>7 DEF UiRefreshes
  <2> QED
    BY <1>1, <2>1, <2>2 DEF StaleIsLeaving, OwnerInv
<1>8. CASE RendererDies
  BY <1>8 DEF RendererDies, StaleIsLeaving
<1>9. CASE \/ Publish \/ Bridge \/ UiGets \/ UiExpires \/ UiReadsOwner \/ UiChecks
           \/ UiLeaves \/ HintDue \/ RendererStarts \/ UNCHANGED vars
  BY <1>1, <1>9 DEF Publish, Bridge, BridgeConnects, BridgeNegotiated,
     BridgeSends, BridgeLeaves, UiGets, UiGetsPosted, UiGetsTimer, UiGetsOther,
     UiExpires, UiReadsOwner, UiChecks, UiLeaves, HintDue, RendererStarts, vars,
     mailVars, loopVars, screenVars
<1> QED
  BY <1>3, <1>4, <1>5, <1>6, <1>7, <1>8, <1>9 DEF Next, UiSteps

\* The types, a group of variables at a time.
BridgeTypes ==
    /\ slot \in Snapshot
    /\ bridge \in {"apart", "negotiate", "serve"}
    /\ link \in 0..MaxLinks /\ links \in 0..MaxLinks
    /\ seen \in Nat /\ dirty \in BOOLEAN
    /\ live \subseteq Links /\ serving \subseteq Links
    /\ up \in BOOLEAN /\ starts \in Nat

MailTypes ==
    /\ owner \in 0..MaxLinks /\ newestOwner \in 0..MaxLinks /\ latest \in Nat
    /\ mail \in [owner : 0..MaxLinks, snapshot : Snapshot]
    /\ wakePending \in BOOLEAN /\ closed \in BOOLEAN
    /\ posts \in Seq({"update", "quit"})

UiTypes ==
    /\ ui \in UiPlaces
    /\ message \in {"update", "window", "timer", "theme", "quit"}
    /\ taken \in [owner : 0..MaxLinks, snapshot : Snapshot]
    /\ readOwner \in 0..MaxLinks
    /\ presenter \in 0..MaxLinks /\ last \in Snapshot
    /\ hint \in Nat /\ hintDue \in BOOLEAN
    /\ shown \in Nat /\ newest \in Nat

\* The bridge, the connections and the process.
LEMMA BridgeTypesStep == TypeOK /\ [Next]_vars => BridgeTypes'
<1> SUFFICES ASSUME TypeOK, [Next]_vars PROVE BridgeTypes'
  OBVIOUS
<1>0. /\ BridgeTypes /\ MaxLinks \in Nat /\ Links \subseteq 0..MaxLinks
      /\ \A n \in Nat : n < MaxLinks => n + 1 \in Links
      /\ slot.sequence \in Nat /\ 0 \in 0..MaxLinks
  BY ConstantsAssumption DEF TypeOK, BridgeTypes, Links, Snapshot
<1>1. slot' \in Snapshot
  BY SlotGrows
<1>2. ASSUME UNCHANGED <<bridgeVars, live, serving, processVars>>
      PROVE BridgeTypes'
  BY <1>0, <1>1, <1>2 DEF BridgeTypes, bridgeVars, processVars
<1>3. CASE BridgeConnects
  BY <1>0, <1>3 DEF BridgeConnects, BridgeTypes, processVars
<1>4. CASE BridgeNegotiated \/ BridgeSends
  BY <1>0, <1>1, <1>4 DEF BridgeNegotiated, BridgeSends, BridgeTypes, wireVars,
     processVars
<1>5. CASE BridgeLeaves
  <2>1. /\ bridge' = "apart" /\ link' = 0 /\ live' \subseteq live
        /\ UNCHANGED <<links, seen, dirty, serving, up, starts>>
    BY <1>5 DEF BridgeLeaves, processVars
  <2> QED
    BY <1>0, <1>1, <2>1 DEF BridgeTypes
<1>6. ASSUME NEW c \in Links, Serve(c) PROVE BridgeTypes'
  BY <1>0, <1>6 DEF Serve, ServeSnapshot, ServeEnds, BridgeTypes, bridgeVars,
     processVars
<1>7. CASE RendererDies \/ RendererStarts
  <2>1. /\ UNCHANGED <<bridge, link, links, seen, dirty>>
        /\ live' \subseteq live /\ serving' \subseteq serving
        /\ up' \in BOOLEAN /\ starts' \in {starts, starts + 1}
    BY <1>7 DEF RendererDies, RendererStarts, bridgeVars, wireVars
  <2> QED
    BY <1>0, <1>1, <2>1 DEF BridgeTypes
<1>8. CASE \/ Publish \/ UiGets \/ UiSteps \/ HintDue \/ RendererQuits
           \/ UNCHANGED vars
  BY <1>2, <1>8 DEF Publish, UiGets, UiGetsPosted, UiGetsTimer, UiGetsOther,
     UiSteps, UiTakes, UiApplies, UiExpires, UiReadsOwner, UiRefreshes, UiChecks,
     UiLeaves, HintDue, RendererQuits, vars, wireVars
<1> QED
  BY <1>3, <1>4, <1>5, <1>6, <1>7, <1>8 DEF Next, Bridge

\* The mailbox.
LEMMA MailTypesStep == TypeOK /\ [Next]_vars => MailTypes'
<1> SUFFICES ASSUME TypeOK, [Next]_vars PROVE MailTypes'
  OBVIOUS
<1>0. /\ MailTypes /\ MaxLinks \in Nat /\ Links \subseteq 0..MaxLinks
      /\ NoSnapshot \in Snapshot
      /\ NoMail \in [owner : 0..MaxLinks, snapshot : Snapshot]
      /\ \A s \in Snapshot : s.sequence \in Nat
      /\ 0 \in 0..MaxLinks
  BY ConstantsAssumption
     DEF TypeOK, MailTypes, Links, Snapshot, NoSnapshot, Kinds, NoMail
<1>1. \A x \in {"update", "quit"} :
         Append(posts, x) \in Seq({"update", "quit"})
  BY <1>0, AppendProperties DEF MailTypes
<1>2. ASSUME UNCHANGED mailVars PROVE MailTypes'
  BY <1>0, <1>2 DEF MailTypes, mailVars
<1>3. ASSUME NEW c \in Links, NEW s \in Snapshot, Deliver(Mail(c, s))
      PROVE /\ mail' \in [owner : 0..MaxLinks, snapshot : Snapshot]
            /\ wakePending' \in BOOLEAN /\ posts' \in Seq({"update", "quit"})
  BY <1>0, <1>1, <1>3 DEF Deliver, Mail, MailTypes
<1>4. ASSUME NEW c \in Links, ServeSnapshot(c) PROVE MailTypes'
  <2>1. Head(wire[c]) \in Snapshot
    BY <1>4, ItemsOfTail DEF ServeSnapshot, TypeOK
  <2>2. CASE Accepts(c, Head(wire[c]))
    BY <1>0, <1>3, <1>4, <2>1, <2>2 DEF ServeSnapshot, MailTypes
  <2>3. CASE ~Accepts(c, Head(wire[c]))
    BY <1>2, <1>4, <2>3 DEF ServeSnapshot, mailVars
  <2> QED
    BY <2>2, <2>3
<1>5. ASSUME NEW c \in Links, ServeEnds(c) PROVE MailTypes'
  BY <1>0, <1>3, <1>5 DEF ServeEnds, MailTypes
<1>6. CASE RendererQuits
  BY <1>0, <1>1, <1>6 DEF RendererQuits, MailTypes
<1>7. CASE UiGetsPosted
  <2>1. Tail(posts) \in Seq({"update", "quit"})
    BY <1>0, <1>7, HeadTailProperties DEF UiGetsPosted, MailTypes
  <2> QED
    BY <1>0, <1>7, <2>1 DEF UiGetsPosted, MailTypes
<1>8. CASE UiTakes
  BY <1>0, <1>8 DEF UiTakes, MailTypes
<1>9. CASE RendererDies
  <2>1. <<>> \in Seq({"update", "quit"})
    BY EmptySeq
  <2> QED
    BY <1>0, <1>9, <2>1 DEF RendererDies, MailTypes
<1>10. CASE \/ Publish \/ Bridge \/ UiGetsTimer \/ UiGetsOther \/ UiApplies
            \/ UiExpires \/ UiReadsOwner \/ UiRefreshes \/ UiChecks \/ UiLeaves
            \/ HintDue \/ RendererStarts \/ UNCHANGED vars
  BY <1>2, <1>10 DEF Publish, Bridge, BridgeConnects, BridgeNegotiated,
     BridgeSends, BridgeLeaves, UiGetsTimer, UiGetsOther, UiApplies, UiExpires,
     UiReadsOwner, UiRefreshes, UiChecks, UiLeaves, HintDue, RendererStarts, vars
<1> QED
  BY <1>4, <1>5, <1>6, <1>7, <1>8, <1>9, <1>10 DEF Next, Serve, UiGets, UiSteps

\* The UI thread; a message that reaches apply has a place to go on to.
LEMMA UiTypesStep == TypeOK /\ LoopInv /\ [Next]_vars => UiTypes'
<1> SUFFICES ASSUME TypeOK, LoopInv, [Next]_vars PROVE UiTypes'
  OBVIOUS
<1>0. /\ UiTypes /\ MaxLinks \in Nat /\ NoSnapshot \in Snapshot
      /\ NoMail \in [owner : 0..MaxLinks, snapshot : Snapshot]
      /\ mail \in [owner : 0..MaxLinks, snapshot : Snapshot]
      /\ owner \in 0..MaxLinks /\ 0 \in 0..MaxLinks
      /\ \A s \in Snapshot : s.sequence \in Nat
      /\ \A m \in [owner : 0..MaxLinks, snapshot : Snapshot] :
            m.owner \in 0..MaxLinks /\ m.snapshot \in Snapshot
  BY ConstantsAssumption
     DEF TypeOK, UiTypes, Snapshot, NoSnapshot, Kinds, NoMail
<1>1. ASSUME UNCHANGED <<loopVars, screenVars>> PROVE UiTypes'
  BY <1>0, <1>1 DEF UiTypes, loopVars, screenVars
<1>2. CASE UiGetsPosted
  <2>1. Head(posts) \in {"update", "quit"}
    BY <1>2, HeadTailProperties DEF UiGetsPosted, TypeOK
  <2> QED
    BY <1>0, <1>2, <2>1 DEF UiGetsPosted, UiTypes, UiPlaces, screenVars
<1>3. CASE UiGetsTimer \/ UiGetsOther
  BY <1>0, <1>3 DEF UiGetsTimer, UiGetsOther, UiTypes, UiPlaces, screenVars
<1>4. CASE UiTakes
  BY <1>0, <1>4 DEF UiTakes, UiTypes, UiPlaces, screenVars, LoopInv
<1>5. CASE UiApplies
  <2>1. /\ ui' = message /\ message # "quit" /\ UNCHANGED <<message, readOwner>>
        /\ taken' = NoMail /\ presenter' = taken.owner /\ last' = taken.snapshot
        /\ hint' = 0 \/ hint' = taken.snapshot.sequence
        /\ hintDue' \in BOOLEAN
        /\ shown' = 0 \/ shown' = taken.snapshot.sequence
        /\ newest' = newest \/ newest' = shown'
    BY <1>5 DEF UiApplies, Display, LoopInv
  <2> QED
    BY <1>0, <2>1 DEF UiTypes, UiPlaces
<1>6. CASE UiReadsOwner \/ UiChecks \/ UiLeaves
  BY <1>0, <1>6 DEF UiReadsOwner, UiChecks, UiLeaves, UiTypes, UiPlaces, mailVars,
     screenVars
<1>7. CASE UiExpires
  <2>1. /\ ui' = "check" /\ hint' \in {0, hint} /\ hintDue' \in BOOLEAN
        /\ shown' \in {0, shown}
        /\ UNCHANGED <<message, taken, readOwner, presenter, last, newest>>
    BY <1>0, <1>7 DEF UiExpires, UiTypes
  <2> QED
    BY <1>0, <2>1 DEF UiTypes, UiPlaces
<1>8. CASE UiRefreshes
  <2>1. /\ shown' = last.sequence \/ shown' = 0 \/ shown' = shown
        /\ newest' = newest \/ newest' = shown'
    BY <1>8 DEF UiRefreshes, Display
  <2> QED
    BY <1>0, <1>8, <2>1 DEF UiRefreshes, UiTypes, UiPlaces
<1>9. CASE HintDue \/ RendererStarts
  BY <1>0, <1>9 DEF HintDue, RendererStarts, UiTypes, UiPlaces, loopVars,
     screenVars
<1>10. CASE RendererDies
  BY <1>0, <1>10 DEF RendererDies, UiTypes, UiPlaces
<1>11. CASE \/ Publish \/ Bridge \/ RendererQuits \/ UNCHANGED vars
  BY <1>1, <1>11 DEF Publish, Bridge, BridgeConnects, BridgeNegotiated,
     BridgeSends, BridgeLeaves, RendererQuits, vars
<1>12. ASSUME NEW c \in Links, Serve(c) PROVE UiTypes'
  BY <1>1, <1>12 DEF Serve, ServeSnapshot, ServeEnds
<1> QED
  BY <1>2, <1>3, <1>4, <1>5, <1>6, <1>7, <1>8, <1>9, <1>10, <1>11, <1>12
     DEF Next, UiGets, UiSteps

\* Every variable keeps its type.
LEMMA TypeStep == TypeOK /\ LoopInv /\ [Next]_vars => TypeOK'
BY WireMoves, BridgeTypesStep, MailTypesStep, UiTypesStep
   DEF TypeOK, BridgeTypes, MailTypes, UiTypes

-----------------------------------------------------------------------------
\* The path starts in the invariant, and every step keeps it.
LEMMA InitInv == Init => IInv
<1> SUFFICES ASSUME Init PROVE IInv
  OBVIOUS
<1>0. /\ MaxLinks \in Nat /\ WireLimit \in Nat /\ <<>> \in Seq(Snapshot)
      /\ <<>> \in Seq({"update", "quit"}) /\ Len(<<>>) = 0
      /\ NoSnapshot \in Snapshot /\ NoSnapshot.sequence = 0
      /\ NoSnapshot.kind = "hide"
      /\ NoMail \in [owner : 0..MaxLinks, snapshot : Snapshot]
      /\ NoMail.snapshot = NoSnapshot
  BY ConstantsAssumption, EmptySeq DEF NoMail, NoSnapshot, Snapshot, Kinds
<1>1. TypeOK
  <2>1. wire \in [Links -> Seq(Snapshot)] /\ \A c \in Links : Len(wire[c]) <= WireLimit
    BY <1>0 DEF Init
  <2>2. 0 \in 0..MaxLinks
    BY <1>0
  <2> QED
    BY <1>0, <2>1, <2>2 DEF Init, TypeOK, UiPlaces
<1>2. \A c \in Links : wire[c] = <<>> /\ Frames(c) = {}
  BY <1>0 DEF Init, Frames, Items
<1>3. LinksInv /\ WireInv
  BY <1>0, <1>2 DEF Init, LinksInv, WireInv
<1>4. OrderInv /\ PictureInv /\ LoopInv /\ OwnerInv /\ StaleIsLeaving
  BY <1>0 DEF Init, OrderInv, Honest, PictureInv, LoopInv, OwnerInv, StaleIsLeaving
<1> QED
  BY <1>1, <1>3, <1>4 DEF IInv

\* All parts together.
LEMMA StepInv == IInv /\ [Next]_vars => IInv'
BY TypeStep, LinksStep, WireStep, OrderStep, PictureStep, LoopStep, OwnerStep,
   StaleStep DEF IInv

\* The invariant of the path: the types, mail that is always found by a wake, and
\* no picture of a lost or replaced connection that is not on its way out.
THEOREM PathInvariant == Spec => []Inv
<1>1. IInv => Inv
  BY DEF IInv, Inv, LoopInv, WakeIsNotLost
<1> QED
  BY InitInv, StepInv, <1>1, PTL DEF Spec

\* A step of the path publishes, shows something not older, hides, or changes
\* nothing that can be seen.
LEMMA StepShows == IInv /\ [Next]_vars => [Shown!Next]_(Shown!vars)
<1> SUFFICES ASSUME IInv, [Next]_vars PROVE [Shown!Next]_(Shown!vars)
  OBVIOUS
<1> USE DEF IInv
<1>0. /\ newest \in Nat /\ latest \in Nat /\ slot.sequence \in Nat
      /\ newest <= slot.sequence /\ latest <= slot.sequence
  BY DEF TypeOK, OrderInv, Snapshot
<1>1. ASSUME UNCHANGED <<slot, shown, newest>> PROVE UNCHANGED Shown!vars
  BY <1>1 DEF Shown!vars
<1>2. ASSUME UNCHANGED <<slot, newest>>, shown' = 0 PROVE Shown!Hide
  BY <1>2 DEF Shown!Hide
<1>3. ASSUME UNCHANGED slot, NEW n \in Nat, n # 0, newest <= n, n <= slot.sequence,
             shown' = n, newest' = n
      PROVE Shown!Show
  <2>1. n \in (newest..slot.sequence) \ {0}
    BY <1>0, <1>3
  <2> QED
    BY <1>3, <2>1 DEF Shown!Show
<1>4. CASE Publish
  BY <1>4 DEF Publish, screenVars, Shown!Next, Shown!Publish
<1>5. CASE UiApplies
  <2>1. UNCHANGED slot /\ taken.snapshot.sequence \in Nat
    BY <1>5 DEF UiApplies, TypeOK, Snapshot
  <2>2. CASE shown' = 0 /\ newest' = newest
    BY <1>2, <2>1, <2>2 DEF Shown!Next
  <2>3. CASE ~(shown' = 0 /\ newest' = newest)
    BY <1>0, <1>3, <1>5, <2>1, <2>3, ApplyFacts DEF Shown!Next
  <2> QED
    BY <2>2, <2>3
<1>6. CASE UiRefreshes
  <2>1. UNCHANGED slot
    BY <1>6 DEF UiRefreshes
  <2> QED
    BY <1>0, <1>1, <1>3, <1>6, <2>1, RefreshFacts DEF Shown!Next
<1>7. CASE UiExpires \/ UiLeaves \/ RendererDies
  BY <1>1, <1>2, <1>7 DEF UiExpires, UiLeaves, RendererDies, Shown!Next
<1>8. ASSUME NEW c \in Links, Serve(c) PROVE UNCHANGED Shown!vars
  BY <1>1, <1>8 DEF Serve, ServeSnapshot, ServeEnds, screenVars
<1>9. CASE \/ Bridge \/ UiGets \/ UiTakes \/ UiReadsOwner \/ UiChecks \/ HintDue
           \/ RendererQuits \/ RendererStarts \/ UNCHANGED vars
  BY <1>1, <1>9 DEF Bridge, BridgeConnects, BridgeNegotiated, BridgeSends,
     BridgeLeaves, UiGets, UiGetsPosted, UiGetsTimer, UiGetsOther, UiTakes,
     UiReadsOwner, UiChecks, HintDue, RendererQuits, RendererStarts, vars,
     screenVars
<1> QED
  BY <1>4, <1>5, <1>6, <1>7, <1>8, <1>9 DEF Next, UiSteps

\* The whole path implements the promise of Display: over reconnections, restarts
\* and frames of old connections, the window never goes back.
THEOREM Implements == Spec => ImplementsDisplay
<1>1. Init => Shown!Init
  BY DEF Init, Shown!Init, NoSnapshot
<1> QED
  BY InitInv, StepInv, StepShows, <1>1, PTL DEF Spec, ImplementsDisplay, Shown!Spec
=============================================================================
