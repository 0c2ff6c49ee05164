-------------------------- MODULE AdmissionProofs --------------------------
(***************************************************************************)
(* Proofs about Admission, for every set of connections, every number of   *)
(* slots, every size of the engine's mailbox and every bound on frames.    *)
(***************************************************************************)
EXTENDS Admission, SequenceTheorems, FiniteSetTheorems, TLAPS

-----------------------------------------------------------------------------
\* The inductive invariant.

\* The request a promotion holds in hand.
Hand(c) == IF phase[c] \in {"check", "reclaim", "wait", "full"} THEN 1 ELSE 0

\* The places where c stands in a sequence of connections.
Places(s, c) == {i \in 1..Len(s) : s[i] = c}

InEngine(c) == IF c \in engine THEN 1 ELSE 0

\* Every request counted is somewhere: in the inbox, in hand, in the mailbox
\* or in the engine.
Accounted == \A c \in Conns :
    requests[c] = inbox[c] + Hand(c) + Cardinality(Places(work, c)) + InEngine(c)

\* Who is active, and who may stand in the semaphore's queue.
SeatsInv ==
    /\ active = {c \in Conns : phase[c] \in {"active", "full"}}
    /\ \A c \in granted : phase[c] = "wait"
    /\ \A i \in 1..Len(queue) : phase[queue[i]] = "wait" /\ queue[i] \notin granted
    /\ \A i, j \in 1..Len(queue) : queue[i] = queue[j] => i = j

RetiredInv == \A c \in Conns : retired[c] => requests[c] = 0 /\ writes[c] = 0

\* A promotion that looked at the victims, listens, and was not notified since.
Listens(w) == phase[w] \in {"reclaim", "wait"} /\ w \notin reclaimed \cup woken

\* It still has the victim c to try, as c is now.
Knows(w, c) ==
    phase[w] = "reclaim" /\ [peer |-> c, rank |-> Rank(c)] \in plan[w]

\* A promotion that listens knows every victim as it is, and has none left when
\* it sleeps.
ListenInv == \A w \in Conns, c \in active :
    Listens(w) /\ Reclaimable(c) => Knows(w, c)

PlanType == DOMAIN plan = Conns

IInv == TypeOK /\ PlanType /\ Accounted /\ SeatsInv /\ PermitsConserved
        /\ PendingIsExact /\ RetiredInv /\ ListenInv

-----------------------------------------------------------------------------
\* Sequences of connections.

\* The places of a connection are finitely many.
LEMMA PlacesFinite ==
    ASSUME NEW s \in Seq(Conns), NEW c
    PROVE IsFiniteSet(Places(s, c)) /\ Cardinality(Places(s, c)) \in Nat
<1>1. Places(s, c) \in SUBSET (1..Len(s))
  BY DEF Places
<1>2. IsFiniteSet(1..Len(s))
  BY FS_Interval
<1> QED
  BY <1>1, <1>2, FS_Subset, FS_CardinalityType

\* A request that joins the mailbox is one more of its connection's.
LEMMA PlacesOfAppend ==
    ASSUME NEW s \in Seq(Conns), NEW d \in Conns, NEW c
    PROVE Cardinality(Places(Append(s, d), c)) =
              Cardinality(Places(s, c)) + IF c = d THEN 1 ELSE 0
<1>1. CASE c = d
  <2>1. Places(Append(s, d), c) = Places(s, c) \cup {Len(s) + 1}
    BY <1>1, AppendProperties DEF Places
  <2>2. Len(s) + 1 \notin Places(s, c)
    BY DEF Places
  <2>3. QED
    BY <1>1, <2>1, <2>2, PlacesFinite, FS_AddElement
<1>2. CASE c # d
  <2>1. Places(Append(s, d), c) = Places(s, c)
    BY <1>2, AppendProperties DEF Places
  <2>2. QED
    BY <1>2, <2>1, PlacesFinite
<1>3. QED
  BY <1>1, <1>2

\* A request the engine takes from the head is one less of its connection's.
LEMMA PlacesOfTail ==
    ASSUME NEW s \in Seq(Conns), s # <<>>, NEW c
    PROVE Cardinality(Places(s, c)) =
              Cardinality(Places(Tail(s), c)) + IF c = Head(s) THEN 1 ELSE 0
<1> DEFINE S == Places(Tail(s), c)
           T == Places(s, c) \ {1}
           f == [i \in S |-> i + 1]
<1>0. /\ Tail(s) \in Seq(Conns) /\ Len(s) \in Nat \ {0}
      /\ Len(Tail(s)) = Len(s) - 1
      /\ \A i \in 1..Len(Tail(s)) : Tail(s)[i] = s[i + 1]
      /\ Head(s) = s[1]
  BY HeadTailProperties, EmptySeq, LenProperties
<1>1. f \in [S -> T]
  BY <1>0 DEF Places
<1>2. \A x, y \in S : f[x] = f[y] => x = y
  BY DEF Places
<1>3. \A t \in T : \E x \in S : f[x] = t
  <2> SUFFICES ASSUME NEW t \in T PROVE \E x \in S : f[x] = t
    OBVIOUS
  <2>1. t - 1 \in S
    BY <1>0 DEF Places
  <2>2. f[t - 1] = t
    BY <2>1 DEF Places
  <2>3. QED
    BY <2>1, <2>2
<1> HIDE DEF f
<1>4. f \in Bijection(S, T)
  BY <1>1, <1>2, <1>3, Zenon DEF Bijection, Injection, Surjection, IsInjective
<1>5. Cardinality(T) = Cardinality(S)
  <2>1. IsFiniteSet(S)
    BY <1>0, PlacesFinite
  <2>2. ExistsBijection(S, T)
    BY <1>4 DEF ExistsBijection
  <2>3. QED
    BY <2>1, <2>2, FS_Bijection, Zenon
<1>6. (1 \in Places(s, c)) <=> (c = Head(s))
  BY <1>0 DEF Places
<1>7. /\ Cardinality(T) = IF 1 \in Places(s, c) THEN Cardinality(Places(s, c)) - 1
                          ELSE Cardinality(Places(s, c))
      /\ Cardinality(Places(s, c)) \in Nat
  BY PlacesFinite, FS_RemoveElement
<1> QED
  BY <1>5, <1>6, <1>7

\* A place that closes up leaves the others in their order.
LEMMA RemoveAtFacts ==
    ASSUME NEW s \in Seq(Conns), NEW i \in 1..Len(s)
    PROVE /\ RemoveAt(s, i) \in Seq(Conns)
          /\ Len(RemoveAt(s, i)) = Len(s) - 1
          /\ \A j \in 1..(Len(s) - 1) :
                RemoveAt(s, i)[j] = IF j < i THEN s[j] ELSE s[j + 1]
<1> DEFINE a == SubSeq(s, 1, i - 1)
           b == SubSeq(s, i + 1, Len(s))
<1>0. Len(s) \in Nat /\ \A j \in 1..Len(s) : s[j] \in Conns
  BY LenProperties, ElementOfSeq
<1>1. /\ a \in Seq(Conns) /\ Len(a) = i - 1
      /\ \A j \in 1..(i - 1) : a[j] = s[j]
  <2>1. \A j \in 1..(i - 1) : s[j] \in Conns
    BY <1>0
  <2>2. /\ a \in Seq(Conns)
        /\ Len(a) = IF 1 <= i - 1 THEN i - 1 - 1 + 1 ELSE 0
        /\ \A j \in 1 .. (i - 1) - 1 + 1 : a[j] = s[1 + j - 1]
    BY <2>1, SubSeqProperties
  <2> HIDE DEF a
  <2>3. QED
    BY <2>2, <1>0
<1>2. /\ b \in Seq(Conns) /\ Len(b) = Len(s) - i
      /\ \A j \in 1..(Len(s) - i) : b[j] = s[i + j]
  <2>1. \A j \in (i + 1)..Len(s) : s[j] \in Conns
    BY <1>0
  <2>2. /\ b \in Seq(Conns)
        /\ Len(b) = IF i + 1 <= Len(s) THEN Len(s) - (i + 1) + 1 ELSE 0
        /\ \A j \in 1 .. Len(s) - (i + 1) + 1 : b[j] = s[(i + 1) + j - 1]
    BY <1>0, <2>1, SubSeqProperties
  <2> HIDE DEF b
  <2>3. QED
    BY <2>2, <1>0
<1>3. RemoveAt(s, i) = a \o b
  BY DEF RemoveAt
<1> HIDE DEF a, b
<1>4. /\ a \o b \in Seq(Conns) /\ Len(a \o b) = Len(a) + Len(b)
      /\ \A j \in 1..(Len(a) + Len(b)) :
            (a \o b)[j] = IF j <= Len(a) THEN a[j] ELSE b[j - Len(a)]
  BY <1>1, <1>2, ConcatProperties
<1> QED
  BY <1>0, <1>1, <1>2, <1>3, <1>4

\* What the semaphore does when a permit comes free: the oldest in the queue
\* has it, or nobody waits and it is free.
LEMMA PassPermitFacts ==
    ASSUME TypeOK, SeatsInv, NEW g \in SUBSET granted, PassPermit(queue, g)
    PROVE /\ free' \in Nat /\ queue' \in Seq(Conns) /\ granted' \in SUBSET Conns
          /\ free' + Cardinality(granted') = free + Cardinality(g) + 1
          /\ \A x \in granted' : x \in g \/ \E k \in 1..Len(queue) : x = queue[k]
          /\ \A i \in 1..Len(queue') :
                /\ \E k \in 1..Len(queue) : queue'[i] = queue[k]
                /\ queue'[i] \notin granted'
          /\ \A i, j \in 1..Len(queue') : queue'[i] = queue'[j] => i = j
<1>0. /\ free \in Nat /\ queue \in Seq(Conns) /\ granted \in SUBSET Conns
      /\ g \in SUBSET Conns /\ IsFiniteSet(g) /\ Cardinality(g) \in Nat
  BY FS_Subset, FS_CardinalityType, ConstantsAssumption DEF TypeOK
<1>1. CASE queue = <<>>
  <2>1. free' = free + 1 /\ queue' = queue /\ granted' = g
    BY <1>1 DEF PassPermit
  <2>2. Len(queue) = 0
    BY <1>1
  <2> QED
    BY <1>0, <2>1, <2>2
<1>2. CASE queue # <<>>
  <2>1. /\ free' = free /\ queue' = Tail(queue)
        /\ granted' = g \cup {Head(queue)}
    BY <1>2 DEF PassPermit
  <2>2. /\ Tail(queue) \in Seq(Conns) /\ Head(queue) \in Conns
        /\ Len(queue) \in Nat \ {0} /\ Len(Tail(queue)) = Len(queue) - 1
        /\ \A i \in 1..Len(Tail(queue)) : Tail(queue)[i] = queue[i + 1]
        /\ Head(queue) = queue[1]
    BY <1>0, <1>2, HeadTailProperties, EmptySeq, LenProperties
  <2>3. Head(queue) \notin g
    BY <2>2 DEF SeatsInv
  <2>4. Cardinality(granted') = Cardinality(g) + 1
    BY <1>0, <2>1, <2>3, FS_AddElement
  <2>5. \A i \in 1..Len(queue') : queue'[i] = queue[i + 1] /\ i + 1 \in 1..Len(queue)
    BY <2>1, <2>2
  <2>6. \A i \in 1..Len(queue') : queue'[i] \notin granted'
    BY <2>1, <2>2, <2>5 DEF SeatsInv
  <2>7. \A i, j \in 1..Len(queue') : queue'[i] = queue'[j] => i = j
    <3> SUFFICES ASSUME NEW i \in 1..Len(queue'), NEW j \in 1..Len(queue'),
                        queue'[i] = queue'[j]
                 PROVE i = j
      OBVIOUS
    <3>1. i + 1 = j + 1
      BY <2>5 DEF SeatsInv
    <3> QED
      BY <3>1, <2>1, <2>2
  <2>8. \A x \in granted' : x \in g \/ \E k \in 1..Len(queue) : x = queue[k]
    BY <2>1, <2>2
  <2>9. /\ free' \in Nat /\ queue' \in Seq(Conns) /\ granted' \in SUBSET Conns
        /\ free' + Cardinality(granted') = free + Cardinality(g) + 1
    BY <1>0, <2>1, <2>2, <2>4
  <2>10. \A i \in 1..Len(queue') : \E k \in 1..Len(queue) : queue'[i] = queue[k]
    BY <2>5
  <2> QED
    BY <2>6, <2>7, <2>8, <2>9, <2>10
<1> QED
  BY <1>1, <1>2

\* A promotion that stops waiting stands in the queue no more, and the others
\* keep their order.
LEMMA WithdrawFacts ==
    ASSUME TypeOK, SeatsInv, NEW c \in Conns, Withdraw(c)
    PROVE /\ free' = free /\ granted' = granted /\ queue' \in Seq(Conns)
          /\ \A i \in 1..Len(queue') :
                queue'[i] # c /\ \E k \in 1..Len(queue) : queue'[i] = queue[k]
          /\ \A i, j \in 1..Len(queue') : queue'[i] = queue'[j] => i = j
<1>0. queue \in Seq(Conns) /\ Len(queue) \in Nat
  BY LenProperties DEF TypeOK
<1>1. CASE c \notin Range(queue) /\ queue' = queue
  <2>1. \A i \in 1..Len(queue) : queue[i] # c
    BY <1>0, <1>1, LenProperties DEF Range
  <2> QED
    BY <1>0, <1>1, <2>1 DEF Withdraw, SeatsInv
<1>2. ASSUME NEW p \in 1..Len(queue), queue[p] = c, queue' = RemoveAt(queue, p)
      PROVE /\ queue' \in Seq(Conns)
            /\ \A i \in 1..Len(queue') :
                  queue'[i] # c /\ \E k \in 1..Len(queue) : queue'[i] = queue[k]
            /\ \A i, j \in 1..Len(queue') : queue'[i] = queue'[j] => i = j
  <2>1. /\ queue' \in Seq(Conns) /\ Len(queue') = Len(queue) - 1
        /\ \A j \in 1..Len(queue') :
              queue'[j] = IF j < p THEN queue[j] ELSE queue[j + 1]
    BY <1>0, <1>2, RemoveAtFacts
  <2> DEFINE from(j) == IF j < p THEN j ELSE j + 1
  <2>2. ASSUME NEW j \in 1..Len(queue')
        PROVE from(j) \in 1..Len(queue) /\ from(j) # p /\ queue'[j] = queue[from(j)]
    <3>1. CASE j < p
      BY <1>0, <2>1, <3>1
    <3>2. CASE ~(j < p)
      BY <1>0, <2>1, <3>2
    <3> QED
      BY <3>1, <3>2
  <2>3. ASSUME NEW i \in 1..Len(queue'), NEW j \in 1..Len(queue'), from(i) = from(j)
        PROVE i = j
    <3>1. i \in Nat /\ j \in Nat /\ p \in Nat
      BY <1>0, <2>1
    <3> QED
      BY <2>3, <3>1
  <2> HIDE DEF from
  <2>4. \A k, m \in 1..Len(queue) : queue[k] = queue[m] => k = m
    BY DEF SeatsInv
  <2>5. ASSUME NEW i \in 1..Len(queue')
        PROVE queue'[i] # c /\ \E k \in 1..Len(queue) : queue'[i] = queue[k]
    <3>1. from(i) \in 1..Len(queue) /\ from(i) # p /\ queue'[i] = queue[from(i)]
      BY <2>2
    <3> QED
      BY <1>2, <2>4, <3>1
  <2>6. ASSUME NEW i \in 1..Len(queue'), NEW j \in 1..Len(queue'),
               queue'[i] = queue'[j]
        PROVE i = j
    <3>1. from(i) = from(j)
      BY <2>2, <2>4, <2>6
    <3> QED
      BY <2>3, <3>1
  <2> QED
    BY <2>1, <2>5, <2>6
<1> QED
  BY <1>1, <1>2 DEF Withdraw

\* What leaving means, whatever the reason.
LEMMA Leaving ==
    ASSUME NEW c \in Conns, LeaveClosed(c) \/ LeaveLate(c) \/ LeaveFull(c)
    PROVE Leave(c) /\ phase[c] \in {"pending", "active", "wait", "full"}
BY DEF LeaveClosed, LeaveLate, LeaveFull

\* Sets of connections can be counted.
LEMMA Counted ==
    ASSUME NEW S \in SUBSET Conns
    PROVE IsFiniteSet(S) /\ Cardinality(S) \in Nat
BY ConstantsAssumption, FS_Subset, FS_CardinalityType

-----------------------------------------------------------------------------
\* Every step keeps the invariant, one part at a time.

\* Requests are never lost or counted twice, so the count stays a number.
LEMMA AccountedStep ==
    TypeOK /\ Accounted /\ [Next]_vars
        => Accounted' /\ requests' \in [Conns -> Nat] /\ inbox' \in [Conns -> Nat]
<1> SUFFICES ASSUME TypeOK, Accounted, [Next]_vars
             PROVE /\ Accounted' /\ requests' \in [Conns -> Nat]
                   /\ inbox' \in [Conns -> Nat]
  OBVIOUS
<1> DEFINE n(c) == Cardinality(Places(work, c))
           Goal == /\ Accounted' /\ requests' \in [Conns -> Nat]
                   /\ inbox' \in [Conns -> Nat]
<1>0. /\ requests \in [Conns -> Nat] /\ inbox \in [Conns -> Nat]
      /\ phase \in [Conns -> Phases] /\ work \in Seq(Conns)
      /\ \A c \in Conns : n(c) \in Nat
  BY PlacesFinite DEF TypeOK
<1>00. \A d \in Conns :
           /\ requests[d] = inbox[d] + Hand(d) + n(d) + InEngine(d)
           /\ requests[d] \in Nat /\ inbox[d] \in Nat /\ Hand(d) \in Nat
           /\ n(d) \in Nat /\ InEngine(d) \in Nat
  BY <1>0 DEF Accounted, Hand, InEngine
<1>1. ASSUME UNCHANGED <<requests, inbox, work, engine>>,
             \A c \in Conns : Hand(c)' = Hand(c)
      PROVE Goal
  BY <1>0, <1>1 DEF Accounted, InEngine
<1>2. ASSUME NEW c \in Conns, Accept(c) PROVE Goal
  BY <1>0, <1>1, <1>2 DEF Accept, Hand, engineVars, activityVars
<1>3. ASSUME NEW c \in Conns, Frame(c) PROVE Goal
  <2>1. UNCHANGED <<phase, work, engine>>
    BY <1>3 DEF Frame, engineVars
  <2>2. CASE retired[c]
    BY <1>1, <1>3, <2>1, <2>2 DEF Frame, Hand
  <2>3. CASE ~retired[c]
    <3>1. /\ requests' = [requests EXCEPT ![c] = @ + 1]
          /\ inbox' = [inbox EXCEPT ![c] = @ + 1]
      BY <1>3, <2>3 DEF Frame
    <3>2. \A d \in Conns : /\ Hand(d)' = Hand(d) /\ InEngine(d)' = InEngine(d)
                           /\ n(d)' = n(d)
      BY <2>1 DEF Hand, InEngine
    <3> HIDE DEF n
    <3>3. ASSUME NEW d \in Conns
          PROVE requests'[d] = inbox'[d] + Hand(d)' + n(d)' + InEngine(d)'
      <4>1. CASE d = c
        <5>1. requests'[d] = requests[d] + 1 /\ inbox'[d] = inbox[d] + 1
          BY <1>0, <3>1, <4>1
        <5> QED
          BY <1>00, <3>2, <5>1
      <4>2. CASE d # c
        <5>1. requests'[d] = requests[d] /\ inbox'[d] = inbox[d]
          BY <1>0, <3>1, <4>2
        <5> QED
          BY <1>00, <3>2, <5>1
      <4> QED
        BY <4>1, <4>2
    <3> QED
      BY <1>0, <3>1, <3>3 DEF Accounted, Hand, InEngine, Places, n
  <2> QED
    BY <2>2, <2>3
<1>4. ASSUME NEW c \in Conns, Close(c) PROVE Goal
  BY <1>1, <1>4 DEF Close, Hand, taskVars, activityVars, engineVars
<1>5. ASSUME NEW c \in Conns, Written(c) PROVE Goal
  BY <1>1, <1>5 DEF Written, Hand, taskVars, engineVars
<1>6. ASSUME NEW c \in Conns, TakeOpen(c) \/ TakeActive(c) PROVE Goal
  <2>1. /\ UNCHANGED <<phase, requests, engine>> /\ work' = Append(work, c)
        /\ inbox' = [inbox EXCEPT ![c] = @ - 1] /\ inbox[c] > 0
    BY <1>6 DEF TakeOpen, TakeActive, Forward, activityVars
  <2>2. \A d \in Conns : n(d)' = n(d) + IF d = c THEN 1 ELSE 0
    BY <1>0, <2>1, PlacesOfAppend
  <2>3. inbox' \in [Conns -> Nat]
    BY <1>0, <2>1
  <2> HIDE DEF n
  <2>4. ASSUME NEW d \in Conns
        PROVE requests'[d] = inbox'[d] + Hand(d)' + n(d)' + InEngine(d)'
    <3>1. Hand(d)' = Hand(d) /\ InEngine(d)' = InEngine(d)
      BY <2>1 DEF Hand, InEngine
    <3>2. CASE d = c
      <4>1. /\ requests'[d] = requests[d] /\ inbox'[d] = inbox[d] - 1
            /\ n(d)' = n(d) + 1
        BY <1>0, <2>1, <2>2, <3>2
      <4> QED
        BY <1>00, <3>1, <4>1
    <3>3. CASE d # c
      <4>1. /\ requests'[d] = requests[d] /\ inbox'[d] = inbox[d]
            /\ n(d)' = n(d)
        BY <1>0, <1>00, <2>1, <2>2, <3>3
      <4> QED
        BY <1>00, <3>1, <4>1
    <3> QED
      BY <3>2, <3>3
  <2> QED
    BY <1>0, <2>1, <2>3, <2>4 DEF Accounted, Hand, InEngine, Places, n
<1>7. ASSUME NEW c \in Conns, TakeIntent(c) PROVE Goal
  BY <1>0, <1>7 DEF TakeIntent, Accounted, Hand, InEngine, activityVars, engineVars
<1>8. ASSUME NEW c \in Conns, Leave(c),
             phase[c] \in {"pending", "active", "wait", "full"}
      PROVE Goal
  <2>1. /\ UNCHANGED <<work, engine>> /\ phase' = [phase EXCEPT ![c] = "done"]
        /\ requests' = [requests EXCEPT ![c] = @ - inbox[c]
               - IF phase[c] \in {"wait", "full"} THEN 1 ELSE 0]
        /\ inbox' = [inbox EXCEPT ![c] = 0]
    BY <1>8 DEF Leave, engineVars
  <2>2. requests'[c] = n(c) + InEngine(c)
    BY <1>0, <1>8, <2>1 DEF Accounted, Hand, InEngine
  <2> HIDE DEF n
  <2>3. requests'[c] \in Nat
    BY <1>0, <2>2 DEF InEngine
  <2>4. requests' \in [Conns -> Nat] /\ inbox' \in [Conns -> Nat]
    BY <1>0, <2>1, <2>3
  <2> QED
    BY <1>0, <2>1, <2>2, <2>4 DEF Accounted, Hand, InEngine, n
<1>9. ASSUME NEW c \in Conns, Check(c) \/ Admit(c) PROVE Goal
  <2>1. UNCHANGED <<requests, inbox, engine>>
    BY <1>9 DEF Check, Admit, activityVars
  <2>2. CASE /\ phase[c] \in {"check", "wait"}
             /\ phase' = [phase EXCEPT ![c] = "active"]
             /\ work' = Append(work, c)
    <3>1. \A d \in Conns : n(d)' = n(d) + IF d = c THEN 1 ELSE 0
      BY <1>0, <2>2, PlacesOfAppend
    <3> HIDE DEF n
    <3>2. ASSUME NEW d \in Conns
          PROVE requests'[d] = inbox'[d] + Hand(d)' + n(d)' + InEngine(d)'
      <4>1. /\ requests'[d] = requests[d] /\ inbox'[d] = inbox[d]
            /\ InEngine(d)' = InEngine(d)
        BY <2>1 DEF InEngine
      <4>2. CASE d = c
        <5>1. n(d)' = n(d) + 1 /\ Hand(d) = 1 /\ Hand(d)' = 0
          BY <1>0, <2>2, <3>1, <4>2 DEF Hand
        <5> QED
          BY <1>00, <4>1, <5>1
      <4>3. CASE d # c
        <5>1. n(d)' = n(d) /\ Hand(d)' = Hand(d)
          BY <1>0, <1>00, <2>2, <3>1, <4>3 DEF Hand
        <5> QED
          BY <1>00, <4>1, <5>1
      <4> QED
        BY <4>2, <4>3
    <3> QED
      BY <1>0, <2>1, <3>2 DEF Accounted, Hand, InEngine, Places, n
  <2>3. CASE /\ phase[c] \in {"check", "wait"} /\ UNCHANGED work
             /\ \/ phase' = [phase EXCEPT ![c] = "full"]
                \/ phase' = [phase EXCEPT ![c] = "reclaim"]
    BY <1>0, <1>1, <2>1, <2>3 DEF Hand
  <2> QED
    BY <1>9, <2>2, <2>3 DEF Check, Admit, Activate
<1>10. ASSUME NEW c \in Conns, RetireFirst(c) PROVE Goal
  BY <1>1, <1>10 DEF RetireFirst, Hand, taskVars, engineVars
<1>11. ASSUME NEW c \in Conns, Enqueue(c) \/ Wake(c) PROVE Goal
  BY <1>0, <1>1, <1>11 DEF Enqueue, Wake, Hand, activityVars, engineVars
<1>12. CASE EngineApplies
  <2>1. /\ UNCHANGED <<phase, requests, inbox>> /\ engine = {} /\ work # <<>>
        /\ engine' = {Head(work)} /\ work' = Tail(work)
    BY <1>12 DEF EngineApplies, taskVars, NoConn
  <2>2. \A d \in Conns : n(d) = n(d)' + IF d = Head(work) THEN 1 ELSE 0
    BY <1>0, <2>1, PlacesOfTail
  <2>3. \A d \in Conns : n(d)' \in Nat
    BY <1>0, <2>1, HeadTailProperties, PlacesFinite
  <2> HIDE DEF n
  <2>4. ASSUME NEW d \in Conns
        PROVE requests'[d] = inbox'[d] + Hand(d)' + n(d)' + InEngine(d)'
    <3>1. /\ requests'[d] = requests[d] /\ inbox'[d] = inbox[d]
          /\ Hand(d)' = Hand(d) /\ n(d)' \in Nat
      BY <2>1, <2>3 DEF Hand
    <3>2. CASE d = Head(work)
      <4>1. n(d) = n(d)' + 1 /\ InEngine(d) = 0 /\ InEngine(d)' = 1
        BY <2>1, <2>2, <3>2 DEF InEngine
      <4> QED
        BY <1>00, <3>1, <4>1
    <3>3. CASE d # Head(work)
      <4>1. n(d) = n(d)' /\ InEngine(d) = 0 /\ InEngine(d)' = 0
        BY <2>1, <2>2, <2>3, <3>3 DEF InEngine
      <4> QED
        BY <1>00, <3>1, <4>1
    <3> QED
      BY <3>2, <3>3
  <2> QED
    BY <1>0, <2>1, <2>4 DEF Accounted, Hand, InEngine, Places, n
<1>13. CASE EngineFinishes
  <2>1. /\ UNCHANGED <<phase, inbox, work>> /\ engine' = {}
        /\ requests' = [c \in Conns |->
               IF c \in engine THEN requests[c] - 1 ELSE requests[c]]
    BY <1>13 DEF EngineFinishes, taskVars, NoConn
  <2> HIDE DEF n
  <2>2. ASSUME NEW d \in Conns
        PROVE /\ requests'[d] = inbox'[d] + Hand(d)' + n(d) + InEngine(d)'
              /\ requests'[d] \in Nat
    BY <1>0, <2>1 DEF Accounted, Hand, InEngine, n
  <2>3. \A d \in Conns : n(d)' = n(d)
    BY <2>1 DEF n
  <2> QED
    BY <1>0, <2>1, <2>2, <2>3 DEF Accounted, Hand, InEngine, Places, n
<1>14. CASE UNCHANGED vars
  BY <1>1, <1>14 DEF vars, taskVars, activityVars, engineVars, Hand
<1> QED
  BY <1>2, <1>3, <1>4, <1>5, <1>6, <1>7, <1>8, <1>9, <1>10, <1>11, <1>12,
     <1>13, <1>14, Leaving DEF Next, Client, Task

\* The seats: who holds a permit is active or was granted one while it waits,
\* and the semaphore's queue holds waiting promotions, each once.
LEMMA SeatsStep == TypeOK /\ SeatsInv /\ [Next]_vars => SeatsInv'
<1> SUFFICES ASSUME TypeOK, SeatsInv, [Next]_vars PROVE SeatsInv'
  OBVIOUS
<1>0. /\ phase \in [Conns -> Phases] /\ active \in SUBSET Conns
      /\ granted \in SUBSET Conns /\ queue \in Seq(Conns) /\ Len(queue) \in Nat
      /\ \A i \in 1..Len(queue) : queue[i] \in Conns
  BY LenProperties, ElementOfSeq DEF TypeOK
<1>1. ASSUME UNCHANGED <<phase, active, granted, queue>> PROVE SeatsInv'
  BY <1>1 DEF SeatsInv
<1>2. ASSUME NEW c \in Conns, Accept(c) PROVE SeatsInv'
  <2>1. /\ UNCHANGED <<active, granted, queue>> /\ phase[c] = "absent"
        /\ \A d \in Conns \ {c} : phase'[d] = phase[d]
        /\ phase'[c] \in {"pending", "done"}
    BY <1>0, <1>2 DEF Accept, semVars
  <2> QED
    BY <1>0, <2>1 DEF SeatsInv
<1>3. ASSUME NEW c \in Conns, TakeIntent(c) PROVE SeatsInv'
  <2>1. /\ UNCHANGED <<active, granted, queue>> /\ phase[c] = "pending"
        /\ \A d \in Conns \ {c} : phase'[d] = phase[d]
        /\ phase'[c] = "check"
    BY <1>0, <1>3 DEF TakeIntent, semVars, gateVars
  <2> QED
    BY <1>0, <2>1 DEF SeatsInv
<1>4. ASSUME NEW c \in Conns, Leave(c) PROVE SeatsInv'
  <2>1. /\ \A d \in Conns \ {c} : phase'[d] = phase[d]
        /\ phase'[c] = "done" /\ active' = active \ {c}
    BY <1>0, <1>4 DEF Leave
  <2>2. active' = {d \in Conns : phase'[d] \in {"active", "full"}}
    BY <1>0, <2>1 DEF SeatsInv
  <2>3. CASE PassPermit(queue, granted \ {c})
             /\ (phase[c] \in {"active", "full"} \/ c \in granted)
    <3>1. \A i \in 1..Len(queue) : queue[i] # c
      BY <1>0, <2>3 DEF SeatsInv
    <3>2. /\ \A x \in granted' :
                x \in granted \ {c} \/ \E k \in 1..Len(queue) : x = queue[k]
          /\ \A i \in 1..Len(queue') :
                /\ \E k \in 1..Len(queue) : queue'[i] = queue[k]
                /\ queue'[i] \notin granted'
          /\ \A i, j \in 1..Len(queue') : queue'[i] = queue'[j] => i = j
      BY <2>3, PassPermitFacts
    <3>3. \A x \in granted' : phase'[x] = "wait"
      BY <1>0, <2>1, <3>1, <3>2 DEF SeatsInv
    <3>4. \A i \in 1..Len(queue') : phase'[queue'[i]] = "wait"
      BY <1>0, <2>1, <3>1, <3>2 DEF SeatsInv
    <3> QED
      BY <2>2, <3>2, <3>3, <3>4 DEF SeatsInv
  <2>4. CASE Withdraw(c) /\ c \notin granted
    <3>1. /\ granted' = granted
          /\ \A i \in 1..Len(queue') :
                queue'[i] # c /\ \E k \in 1..Len(queue) : queue'[i] = queue[k]
          /\ \A i, j \in 1..Len(queue') : queue'[i] = queue'[j] => i = j
      BY <2>4, WithdrawFacts
    <3>2. \A x \in granted' : phase'[x] = "wait"
      BY <1>0, <2>1, <2>4, <3>1 DEF SeatsInv
    <3>3. \A i \in 1..Len(queue') :
              phase'[queue'[i]] = "wait" /\ queue'[i] \notin granted'
      BY <1>0, <2>1, <3>1 DEF SeatsInv
    <3> QED
      BY <2>2, <3>1, <3>2, <3>3 DEF SeatsInv
  <2> QED
    BY <1>4, <2>3, <2>4 DEF Leave
<1>5. ASSUME NEW c \in Conns, Check(c) \/ Admit(c) PROVE SeatsInv'
  <2>1. CASE /\ phase[c] \in {"check", "wait"} /\ active' = active \cup {c}
             /\ \/ phase' = [phase EXCEPT ![c] = "active"]
                \/ phase' = [phase EXCEPT ![c] = "full"]
             /\ granted' = granted \ {c} /\ UNCHANGED queue
             /\ \A i \in 1..Len(queue) : queue[i] # c
    <3>1. /\ \A d \in Conns \ {c} : phase'[d] = phase[d]
          /\ phase'[c] \in {"active", "full"}
      BY <1>0, <2>1
    <3>2. active' = {d \in Conns : phase'[d] \in {"active", "full"}}
      BY <1>0, <2>1, <3>1 DEF SeatsInv
    <3> QED
      BY <1>0, <2>1, <3>1, <3>2 DEF SeatsInv
  <2>2. CASE /\ phase[c] = "check" /\ phase' = [phase EXCEPT ![c] = "reclaim"]
             /\ UNCHANGED <<active, granted, queue>>
    <3>1. /\ \A d \in Conns \ {c} : phase'[d] = phase[d]
          /\ phase'[c] = "reclaim"
      BY <1>0, <2>2
    <3> QED
      BY <1>0, <2>2, <3>1 DEF SeatsInv
  <2>3. CASE Check(c)
    <3>1. c \notin granted /\ \A i \in 1..Len(queue) : queue[i] # c
      BY <1>0, <2>3 DEF Check, SeatsInv
    <3> QED
      BY <2>1, <2>2, <2>3, <3>1 DEF Check, Activate, gateVars
  <2>4. CASE Admit(c)
    <3>1. \A i \in 1..Len(queue) : queue[i] # c
      BY <1>0, <2>4 DEF Admit, SeatsInv
    <3> QED
      BY <2>1, <2>4, <3>1 DEF Admit, Activate
  <2> QED
    BY <1>5, <2>3, <2>4
<1>6. ASSUME NEW c \in Conns, Enqueue(c) PROVE SeatsInv'
  <2>1. /\ UNCHANGED active /\ phase[c] = "reclaim"
        /\ \A d \in Conns \ {c} : phase'[d] = phase[d]
        /\ phase'[c] = "wait"
        /\ c \notin granted /\ \A i \in 1..Len(queue) : queue[i] # c
    BY <1>0, <1>6 DEF Enqueue, gateVars, SeatsInv
  <2>2. active' = {d \in Conns : phase'[d] \in {"active", "full"}}
    BY <1>0, <2>1 DEF SeatsInv
  <2>3. CASE granted' = granted \cup {c} /\ UNCHANGED queue
    BY <1>0, <2>1, <2>2, <2>3 DEF SeatsInv
  <2>4. CASE queue' = Append(queue, c) /\ UNCHANGED granted
    <3>1. /\ Len(queue') = Len(queue) + 1 /\ queue'[Len(queue) + 1] = c
          /\ \A i \in 1..Len(queue) : queue'[i] = queue[i]
      BY <1>0, <2>4, AppendProperties
    <3>2. \A i \in 1..Len(queue') :
              phase'[queue'[i]] = "wait" /\ queue'[i] \notin granted'
      <4> TAKE i \in 1..Len(queue')
      <4>1. CASE i = Len(queue) + 1
        BY <2>1, <2>4, <3>1, <4>1
      <4>2. CASE i \in 1..Len(queue)
        BY <1>0, <2>1, <2>4, <3>1, <4>2 DEF SeatsInv
      <4> QED
        BY <1>0, <3>1, <4>1, <4>2
    <3>3. \A i, j \in 1..Len(queue') : queue'[i] = queue'[j] => i = j
      <4> TAKE i, j \in 1..Len(queue')
      <4>1. CASE i \in 1..Len(queue) /\ j \in 1..Len(queue)
        BY <3>1, <4>1 DEF SeatsInv
      <4>2. CASE i = Len(queue) + 1 /\ j \in 1..Len(queue)
        BY <2>1, <3>1, <4>2
      <4>3. CASE i \in 1..Len(queue) /\ j = Len(queue) + 1
        BY <2>1, <3>1, <4>3
      <4> QED
        BY <1>0, <3>1, <4>1, <4>2, <4>3
    <3> QED
      BY <1>0, <2>1, <2>2, <2>4, <3>2, <3>3 DEF SeatsInv
  <2> QED
    BY <1>6, <2>3, <2>4 DEF Enqueue
<1>7. ASSUME NEW c \in Conns, Wake(c) PROVE SeatsInv'
  <2>1. /\ UNCHANGED active /\ phase[c] = "wait"
        /\ \A d \in Conns \ {c} : phase'[d] = phase[d]
        /\ phase'[c] = "check"
    BY <1>0, <1>7 DEF Wake, gateVars
  <2>2. active' = {d \in Conns : phase'[d] \in {"active", "full"}}
    BY <1>0, <2>1 DEF SeatsInv
  <2>3. CASE PassPermit(queue, granted \ {c}) /\ c \in granted
    <3>1. \A i \in 1..Len(queue) : queue[i] # c
      BY <1>0, <2>3 DEF SeatsInv
    <3>2. /\ \A x \in granted' :
                x \in granted \ {c} \/ \E k \in 1..Len(queue) : x = queue[k]
          /\ \A i \in 1..Len(queue') :
                /\ \E k \in 1..Len(queue) : queue'[i] = queue[k]
                /\ queue'[i] \notin granted'
          /\ \A i, j \in 1..Len(queue') : queue'[i] = queue'[j] => i = j
      BY <2>3, PassPermitFacts
    <3>3. \A x \in granted' : phase'[x] = "wait"
      BY <1>0, <2>1, <3>1, <3>2 DEF SeatsInv
    <3>4. \A i \in 1..Len(queue') : phase'[queue'[i]] = "wait"
      BY <1>0, <2>1, <3>1, <3>2 DEF SeatsInv
    <3> QED
      BY <2>2, <3>2, <3>3, <3>4 DEF SeatsInv
  <2>4. CASE Withdraw(c) /\ c \notin granted
    <3>1. /\ granted' = granted
          /\ \A i \in 1..Len(queue') :
                queue'[i] # c /\ \E k \in 1..Len(queue) : queue'[i] = queue[k]
          /\ \A i, j \in 1..Len(queue') : queue'[i] = queue'[j] => i = j
      BY <2>4, WithdrawFacts
    <3>2. \A x \in granted' : phase'[x] = "wait"
      BY <1>0, <2>1, <2>4, <3>1 DEF SeatsInv
    <3>3. \A i \in 1..Len(queue') :
              phase'[queue'[i]] = "wait" /\ queue'[i] \notin granted'
      BY <1>0, <2>1, <3>1 DEF SeatsInv
    <3> QED
      BY <2>2, <3>1, <3>2, <3>3 DEF SeatsInv
  <2> QED
    BY <1>7, <2>3, <2>4 DEF Wake
<1>8. ASSUME NEW c \in Conns,
             \/ Frame(c) \/ Close(c) \/ Written(c)
             \/ TakeOpen(c) \/ TakeActive(c) \/ RetireFirst(c)
      PROVE SeatsInv'
  BY <1>1, <1>8 DEF Frame, Close, Written, TakeOpen, TakeActive, RetireFirst,
     taskVars, semVars, gateVars
<1>9. CASE EngineApplies \/ EngineFinishes
  BY <1>1, <1>9 DEF EngineApplies, EngineFinishes, taskVars, semVars, gateVars
<1>10. CASE UNCHANGED vars
  BY <1>1, <1>10 DEF vars, taskVars, semVars, gateVars
<1> QED
  BY <1>2, <1>3, <1>4, <1>5, <1>6, <1>7, <1>8, <1>9, <1>10, Leaving
     DEF Next, Client, Task

\* A permit is free, granted or held by an active connection, and stays one.
LEMMA PermitsStep ==
    TypeOK /\ SeatsInv /\ PermitsConserved /\ [Next]_vars
        => PermitsConserved' /\ free' \in Nat
<1> SUFFICES ASSUME TypeOK, SeatsInv, PermitsConserved, [Next]_vars
             PROVE PermitsConserved' /\ free' \in Nat
  OBVIOUS
<1> DEFINE Goal == PermitsConserved' /\ free' \in Nat
<1>0. /\ phase \in [Conns -> Phases] /\ free \in Nat /\ Slots \in Nat
      /\ IsFiniteSet(active) /\ Cardinality(active) \in Nat
      /\ IsFiniteSet(granted) /\ Cardinality(granted) \in Nat
      /\ free + Cardinality(active) + Cardinality(granted) = Slots
  BY Counted, ConstantsAssumption DEF TypeOK, PermitsConserved
<1>1. ASSUME UNCHANGED <<free, active, granted>> PROVE Goal
  BY <1>0, <1>1 DEF PermitsConserved
<1>2. ASSUME NEW c \in Conns, c \in granted, PassPermit(queue, granted \ {c}),
             UNCHANGED active
      PROVE Goal
  <2>1. Cardinality(granted \ {c}) = Cardinality(granted) - 1
    BY <1>0, <1>2, FS_RemoveElement
  <2>2. /\ free' \in Nat /\ granted' \in SUBSET Conns
        /\ free' + Cardinality(granted') = free + Cardinality(granted \ {c}) + 1
    BY <1>2, PassPermitFacts
  <2>3. Cardinality(granted') \in Nat
    BY <2>2, Counted
  <2> QED
    BY <1>0, <1>2, <2>1, <2>2, <2>3 DEF PermitsConserved
<1>3. ASSUME NEW c \in Conns, Leave(c) PROVE Goal
  <2>1. active' = active \ {c}
    BY <1>3 DEF Leave
  <2>2. CASE c \in granted
    <3>1. UNCHANGED active
      BY <1>0, <2>1, <2>2 DEF SeatsInv
    <3> QED
      BY <1>2, <1>3, <2>2, <3>1 DEF Leave
  <2>3. CASE phase[c] \in {"active", "full"}
    <3>1. c \in active /\ granted \ {c} = granted
      BY <1>0, <2>3 DEF SeatsInv
    <3>2. Cardinality(active') = Cardinality(active) - 1
      BY <1>0, <2>1, <3>1, FS_RemoveElement
    <3>3. PassPermit(queue, granted)
      BY <1>3, <2>3, <3>1 DEF Leave
    <3>4. /\ free' \in Nat /\ granted' \in SUBSET Conns
          /\ free' + Cardinality(granted') = free + Cardinality(granted) + 1
      BY <3>3, PassPermitFacts
    <3>5. Cardinality(granted') \in Nat
      BY <3>4, Counted
    <3> QED
      BY <1>0, <3>2, <3>4, <3>5 DEF PermitsConserved
  <2>4. CASE c \notin granted /\ phase[c] \notin {"active", "full"}
    <3>1. UNCHANGED <<free, active, granted>>
      BY <1>0, <1>3, <2>1, <2>4 DEF Leave, Withdraw, SeatsInv
    <3> QED
      BY <1>1, <3>1
  <2> QED
    BY <2>2, <2>3, <2>4
<1>4. ASSUME NEW c \in Conns, Check(c) PROVE Goal
  <2>1. CASE free > 0
    <3>1. /\ free' = free - 1 /\ UNCHANGED granted
          /\ active' = active \cup {c} /\ c \notin active
      BY <1>0, <1>4, <2>1 DEF Check, Activate, SeatsInv
    <3>2. Cardinality(active') = Cardinality(active) + 1
      BY <1>0, <3>1, FS_AddElement
    <3> QED
      BY <1>0, <2>1, <3>1, <3>2 DEF PermitsConserved
  <2>2. CASE ~(free > 0)
    BY <1>1, <1>4, <2>2 DEF Check, gateVars
  <2> QED
    BY <2>1, <2>2
<1>5. ASSUME NEW c \in Conns, Enqueue(c) PROVE Goal
  <2>1. CASE free > 0
    <3>1. /\ free' = free - 1 /\ UNCHANGED active
          /\ granted' = granted \cup {c} /\ c \notin granted
      BY <1>5, <2>1 DEF Enqueue, gateVars, SeatsInv
    <3>2. Cardinality(granted') = Cardinality(granted) + 1
      BY <1>0, <3>1, FS_AddElement
    <3> QED
      BY <1>0, <2>1, <3>1, <3>2 DEF PermitsConserved
  <2>2. CASE ~(free > 0)
    BY <1>1, <1>5, <2>2 DEF Enqueue, gateVars
  <2> QED
    BY <2>1, <2>2
<1>6. ASSUME NEW c \in Conns, Admit(c) PROVE Goal
  <2>1. /\ UNCHANGED free /\ granted' = granted \ {c} /\ c \in granted
        /\ active' = active \cup {c} /\ c \notin active
    BY <1>0, <1>6 DEF Admit, Activate, SeatsInv
  <2>2. /\ Cardinality(active') = Cardinality(active) + 1
        /\ Cardinality(granted') = Cardinality(granted) - 1
    BY <1>0, <2>1, FS_AddElement, FS_RemoveElement
  <2> QED
    BY <1>0, <2>1, <2>2 DEF PermitsConserved
<1>7. ASSUME NEW c \in Conns, Wake(c) PROVE Goal
  <2>1. CASE c \in granted
    BY <1>2, <1>7, <2>1 DEF Wake, gateVars
  <2>2. CASE c \notin granted
    BY <1>1, <1>7, <2>2 DEF Wake, Withdraw, gateVars
  <2> QED
    BY <2>1, <2>2
<1>8. ASSUME NEW c \in Conns,
             \/ Accept(c) \/ Frame(c) \/ Close(c) \/ Written(c)
             \/ TakeOpen(c) \/ TakeIntent(c) \/ TakeActive(c) \/ RetireFirst(c)
      PROVE Goal
  BY <1>1, <1>8 DEF Accept, Frame, Close, Written, TakeOpen, TakeIntent,
     TakeActive, RetireFirst, semVars, gateVars
<1>9. CASE EngineApplies \/ EngineFinishes
  BY <1>1, <1>9 DEF EngineApplies, EngineFinishes, semVars, gateVars
<1>10. CASE UNCHANGED vars
  BY <1>1, <1>10 DEF vars, semVars, gateVars
<1> QED
  BY <1>3, <1>4, <1>5, <1>6, <1>7, <1>8, <1>9, <1>10, Leaving
     DEF Next, Client, Task

\* The pending counter follows the connections that are pending, one by one.
LEMMA PendingStep ==
    TypeOK /\ PendingIsExact /\ [Next]_vars => PendingIsExact' /\ pending' \in Nat
<1> SUFFICES ASSUME TypeOK, PendingIsExact, [Next]_vars
             PROVE PendingIsExact' /\ pending' \in Nat
  OBVIOUS
<1> DEFINE Undecided == {"pending", "check", "reclaim", "wait"}
           P == {c \in Conns : phase[c] \in Undecided}
           Goal == PendingIsExact' /\ pending' \in Nat
<1>0. /\ phase \in [Conns -> Phases] /\ pending \in Nat /\ PendingLimit \in Nat
      /\ IsFiniteSet(P) /\ Cardinality(P) \in Nat
      /\ pending = Cardinality(P) /\ pending <= PendingLimit
  BY Counted, ConstantsAssumption DEF TypeOK, PendingIsExact
<1>1. ASSUME UNCHANGED pending, P' = P PROVE Goal
  BY <1>0, <1>1 DEF PendingIsExact
<1>2. ASSUME NEW c \in P, pending' = pending - 1, P' = P \ {c} PROVE Goal
  <2>1. Cardinality(P') = Cardinality(P) - 1
    BY <1>0, <1>2, FS_RemoveElement
  <2>2. pending' \in Nat /\ pending' <= PendingLimit
    <3>1. Cardinality(P') \in Nat
      BY Counted
    <3> QED
      BY <1>0, <1>2, <2>1, <3>1
  <2> QED
    BY <1>0, <1>2, <2>1, <2>2 DEF PendingIsExact
<1>3. ASSUME NEW c \in Conns, Accept(c) PROVE Goal
  <2>1. CASE pending < PendingLimit
    <3>1. pending' = pending + 1 /\ P' = P \cup {c} /\ c \notin P
      BY <1>0, <1>3, <2>1 DEF Accept
    <3>2. Cardinality(P') = Cardinality(P) + 1
      BY <1>0, <3>1, FS_AddElement
    <3> QED
      BY <1>0, <2>1, <3>1, <3>2 DEF PendingIsExact
  <2>2. CASE ~(pending < PendingLimit)
    <3>1. UNCHANGED pending /\ P' = P
      BY <1>0, <1>3, <2>2 DEF Accept
    <3> QED
      BY <1>1, <3>1
  <2> QED
    BY <2>1, <2>2
<1>4. ASSUME NEW c \in Conns, Leave(c),
             phase[c] \in {"pending", "active", "wait", "full"}
      PROVE Goal
  <2>1. CASE phase[c] \in {"active", "full"}
    <3>1. UNCHANGED pending /\ P' = P
      BY <1>0, <1>4, <2>1 DEF Leave
    <3> QED
      BY <1>1, <3>1
  <2>2. CASE phase[c] \in {"pending", "wait"}
    <3>1. pending' = pending - 1 /\ P' = P \ {c} /\ c \in P
      BY <1>0, <1>4, <2>2 DEF Leave
    <3> QED
      BY <1>2, <3>1
  <2> QED
    BY <1>4, <2>1, <2>2
<1>5. ASSUME NEW c \in Conns, Check(c) \/ Admit(c) PROVE Goal
  <2>1. CASE /\ phase[c] \in {"check", "wait"} /\ pending' = pending - 1
             /\ \/ phase' = [phase EXCEPT ![c] = "active"]
                \/ phase' = [phase EXCEPT ![c] = "full"]
    <3>1. P' = P \ {c} /\ c \in P
      BY <1>0, <2>1
    <3> QED
      BY <1>2, <2>1, <3>1
  <2>2. CASE /\ phase[c] = "check" /\ UNCHANGED pending
             /\ phase' = [phase EXCEPT ![c] = "reclaim"]
    <3>1. P' = P
      BY <1>0, <2>2
    <3> QED
      BY <1>1, <2>2, <3>1
  <2> QED
    BY <1>5, <2>1, <2>2 DEF Check, Admit, Activate, gateVars
<1>6. ASSUME NEW c \in Conns, TakeIntent(c) \/ Enqueue(c) \/ Wake(c) PROVE Goal
  <2>1. UNCHANGED pending /\ P' = P
    BY <1>0, <1>6 DEF TakeIntent, Enqueue, Wake, gateVars
  <2> QED
    BY <1>1, <2>1
<1>7. ASSUME UNCHANGED <<phase, pending>> PROVE Goal
  BY <1>1, <1>7
<1>8. ASSUME NEW c \in Conns,
             \/ Frame(c) \/ Close(c) \/ Written(c)
             \/ TakeOpen(c) \/ TakeActive(c) \/ RetireFirst(c)
      PROVE Goal
  BY <1>7, <1>8 DEF Frame, Close, Written, TakeOpen, TakeActive, RetireFirst,
     taskVars, gateVars
<1>9. CASE EngineApplies \/ EngineFinishes
  BY <1>7, <1>9 DEF EngineApplies, EngineFinishes, taskVars, gateVars
<1>10. CASE UNCHANGED vars
  BY <1>7, <1>10 DEF vars, taskVars, gateVars
<1> QED
  BY <1>3, <1>4, <1>5, <1>6, <1>8, <1>9, <1>10, Leaving DEF Next, Client, Task

\* Every variable keeps its type.
LEMMA TypeStep ==
    /\ TypeOK /\ PlanType /\ Accounted /\ SeatsInv /\ PermitsConserved
    /\ PendingIsExact /\ [Next]_vars
    => TypeOK' /\ PlanType'
<1> SUFFICES ASSUME TypeOK, PlanType, Accounted, SeatsInv, PermitsConserved,
                    PendingIsExact, [Next]_vars
             PROVE TypeOK' /\ PlanType'
  OBVIOUS
<1> DEFINE TaskType == phase \in [Conns -> Phases] /\ opened \in [Conns -> BOOLEAN]
           PipeType == /\ closed \in [Conns -> BOOLEAN] /\ writes \in [Conns -> Nat]
                       /\ retired \in [Conns -> BOOLEAN]
                       /\ last \in [Conns -> Nat] /\ clock \in Nat
           InputType == /\ registered \in [Conns -> BOOLEAN]
                        /\ priority \in [Conns -> Priorities]
           SemType == queue \in Seq(Conns) /\ granted \in SUBSET Conns
           WaitType == /\ woken \in SUBSET Conns /\ reclaimed \in SUBSET Conns
                       /\ active \in SUBSET Conns /\ PlanType
           EngineType == /\ work \in Seq(Conns)
                         /\ engine \in {NoConn} \cup {{c} : c \in Conns}
           Types == TaskType /\ PipeType /\ InputType /\ SemType /\ WaitType
                    /\ EngineType
<1>0. Types
  BY DEF TypeOK
<1>1. /\ requests' \in [Conns -> Nat] /\ inbox' \in [Conns -> Nat]
      /\ free' \in Nat /\ pending' \in Nat
  BY AccountedStep, PermitsStep, PendingStep
<1>2. /\ UNCHANGED <<phase, opened>> => TaskType'
      /\ UNCHANGED <<closed, writes, retired, last, clock>> => PipeType'
      /\ UNCHANGED <<registered, priority>> => InputType'
      /\ UNCHANGED <<queue, granted>> => SemType'
      /\ UNCHANGED <<woken, reclaimed, active, plan>> => WaitType'
      /\ UNCHANGED <<work, engine>> => EngineType'
  <2>1. UNCHANGED <<phase, opened>> => TaskType'
    BY <1>0
  <2>2. UNCHANGED <<closed, writes, retired, last, clock>> => PipeType'
    BY <1>0
  <2>3. UNCHANGED <<registered, priority>> => InputType'
    BY <1>0
  <2>4. UNCHANGED <<queue, granted>> => SemType'
    BY <1>0
  <2>5. UNCHANGED <<woken, reclaimed, active, plan>> => WaitType'
    BY <1>0 DEF PlanType
  <2>6. UNCHANGED <<work, engine>> => EngineType'
    BY <1>0
  <2> QED
    BY <2>1, <2>2, <2>3, <2>4, <2>5, <2>6
<1>3. /\ \A c \in Conns : \A p \in Phases :
            phase' = [phase EXCEPT ![c] = p] => phase' \in [Conns -> Phases]
      /\ \A c \in Conns : \A b \in BOOLEAN :
            opened' = [opened EXCEPT ![c] = b] => opened' \in [Conns -> BOOLEAN]
      /\ \A c \in Conns : \A b \in BOOLEAN :
            closed' = [closed EXCEPT ![c] = b] => closed' \in [Conns -> BOOLEAN]
  BY <1>0
<1>4. Notified \in SUBSET Conns
  BY <1>0 DEF Notified
<1> USE DEF Phases
<1>5. ASSUME NEW c \in Conns, Accept(c) PROVE Types'
  <2>1. TaskType'
    BY <1>0, <1>3, <1>5 DEF Accept
  <2> HIDE DEF TaskType, PipeType, InputType, SemType, WaitType, EngineType
  <2> QED
    BY <1>2, <1>5, <2>1 DEF Accept, clientVars, activityVars, inputVars, semVars,
       waitVars, engineVars
<1>6. ASSUME NEW c \in Conns, Frame(c) PROVE Types'
  <2>1. closed' \in [Conns -> BOOLEAN] /\ UNCHANGED <<writes, retired>>
    BY <1>0, <1>3, <1>6 DEF Frame
  <2>2. last' \in [Conns -> Nat] /\ clock' \in Nat
    BY <1>0, <1>6 DEF Frame
  <2>3. PipeType'
    BY <1>0, <2>1, <2>2
  <2>4. WaitType'
    BY <1>0, <1>4, <1>6 DEF Frame, gateVars, PlanType
  <2> HIDE DEF TaskType, PipeType, InputType, SemType, WaitType, EngineType
  <2> QED
    BY <1>2, <1>6, <2>3, <2>4 DEF Frame, inputVars, semVars, engineVars
<1>7. ASSUME NEW c \in Conns, Close(c) \/ Written(c) PROVE Types'
  <2>1. closed' \in [Conns -> BOOLEAN] /\ UNCHANGED <<retired, last, clock>>
    BY <1>0, <1>3, <1>7 DEF Close, Written, clientVars, activityVars
  <2>2. writes' \in [Conns -> Nat]
    <3>1. CASE Close(c)
      BY <1>0, <3>1 DEF Close, activityVars
    <3>2. CASE Written(c)
      BY <1>0, <1>7, <3>2 DEF Written
    <3> QED
      BY <1>7, <3>1, <3>2
  <2>3. PipeType'
    BY <1>0, <2>1, <2>2
  <2>4. WaitType'
    BY <1>0, <1>4, <1>7 DEF Close, Written, gateVars, PlanType
  <2> HIDE DEF TaskType, PipeType, InputType, SemType, WaitType, EngineType
  <2> QED
    BY <1>2, <1>7, <2>3, <2>4
       DEF Close, Written, taskVars, inputVars, semVars, engineVars
<1>8. ASSUME NEW c \in Conns, TakeOpen(c) \/ TakeActive(c) \/ TakeIntent(c)
      PROVE Types'
  <2>1. UNCHANGED engine /\ (work' = work \/ work' = Append(work, c))
    BY <1>8 DEF TakeOpen, TakeActive, TakeIntent, Forward, engineVars
  <2>2. Append(work, c) \in Seq(Conns)
    BY <1>0, <1>8, AppendProperties
  <2>3. EngineType'
    BY <1>0, <2>1, <2>2
  <2>4. TaskType'
    BY <1>0, <1>3, <1>8 DEF TakeOpen, TakeActive, TakeIntent
  <2> HIDE DEF TaskType, PipeType, InputType, SemType, WaitType, EngineType
  <2> QED
    BY <1>2, <1>8, <2>3, <2>4 DEF TakeOpen, TakeActive, TakeIntent,
       clientVars, activityVars, inputVars, semVars, waitVars, gateVars
<1>9. ASSUME NEW c \in Conns, Leave(c) PROVE Types'
  <2>1. SemType'
    BY <1>9, PassPermitFacts, WithdrawFacts DEF Leave, TypeOK
  <2>2. TaskType'
    BY <1>0, <1>3, <1>9 DEF Leave
  <2>3. PipeType'
    BY <1>0, <1>3, <1>9 DEF Leave
  <2>4. WaitType'
    BY <1>0, <1>4, <1>9 DEF Leave, PlanType
  <2> HIDE DEF TaskType, PipeType, InputType, SemType, WaitType, EngineType
  <2> QED
    BY <1>2, <1>9, <2>1, <2>2, <2>3, <2>4 DEF Leave, inputVars, engineVars
<1>10. ASSUME NEW c \in Conns, Check(c) \/ Admit(c) PROVE Types'
  <2>1. UNCHANGED engine /\ (work' = work \/ work' = Append(work, c))
    BY <1>10 DEF Check, Admit, Activate
  <2>2. Append(work, c) \in Seq(Conns)
    BY <1>0, <1>10, AppendProperties
  <2>3. EngineType'
    BY <1>0, <2>1, <2>2
  <2>4. TaskType'
    BY <1>0, <1>3, <1>10 DEF Check, Admit, Activate
  <2>5. WaitType'
    BY <1>0, <1>10 DEF Check, Admit, Activate, gateVars, PlanType
  <2>6. SemType'
    BY <1>0, <1>10 DEF Check, Admit
  <2> HIDE DEF TaskType, PipeType, InputType, SemType, WaitType, EngineType
  <2> QED
    BY <1>2, <1>10, <2>3, <2>4, <2>5, <2>6 DEF Check, Admit, clientVars,
       activityVars, inputVars
<1>11. ASSUME NEW c \in Conns, RetireFirst(c) PROVE Types'
  <2>1. WaitType'
    BY <1>0, <1>11 DEF RetireFirst, gateVars, PlanType
  <2>2. retired' \in [Conns -> BOOLEAN] /\ UNCHANGED <<closed, clock, writes, last>>
    BY <1>0, <1>11 DEF RetireFirst, clientVars
  <2>3. PipeType'
    BY <1>0, <2>2
  <2> HIDE DEF TaskType, PipeType, InputType, SemType, WaitType, EngineType
  <2> QED
    BY <1>2, <1>11, <2>1, <2>3 DEF RetireFirst, taskVars, inputVars, semVars,
       engineVars
<1>12. ASSUME NEW c \in Conns, Enqueue(c) \/ Wake(c) PROVE Types'
  <2>1. CASE Enqueue(c)
    <3>1. Append(queue, c) \in Seq(Conns)
      BY <1>0, <1>12, AppendProperties
    <3> QED
      <4>1. SemType'
        BY <1>0, <1>12, <2>1, <3>1 DEF Enqueue
      <4>2. TaskType'
        BY <1>0, <1>3, <1>12, <2>1 DEF Enqueue
      <4> HIDE DEF TaskType, PipeType, InputType, SemType, WaitType, EngineType
      <4> QED
        BY <1>2, <2>1, <4>1, <4>2 DEF Enqueue, clientVars, activityVars,
           inputVars, waitVars, gateVars, engineVars
  <2>2. CASE Wake(c)
    <3>1. SemType'
      BY <1>12, <2>2, PassPermitFacts, WithdrawFacts DEF Wake, TypeOK
    <3>2. TaskType'
      BY <1>0, <1>3, <1>12, <2>2 DEF Wake
    <3> HIDE DEF TaskType, PipeType, InputType, SemType, WaitType, EngineType
    <3> QED
      BY <1>2, <2>2, <3>1, <3>2 DEF Wake, clientVars, activityVars,
         inputVars, waitVars, gateVars, engineVars
  <2> QED
    BY <1>12, <2>1, <2>2
<1>13. ASSUME EngineApplies PROVE Types'
  <2>1. /\ Head(work) \in Conns /\ Tail(work) \in Seq(Conns)
        /\ work' = Tail(work) /\ engine' = {Head(work)}
    BY <1>0, <1>13, HeadTailProperties DEF EngineApplies
  <2>2. EngineType'
    BY <2>1
  <2>3. InputType'
    BY <1>0, <1>13, <2>1 DEF EngineApplies, inputVars
  <2>4. \/ UNCHANGED writes
        \/ writes' = [writes EXCEPT ![Head(work)] = @ + 1]
        \/ writes' = [writes EXCEPT ![Head(work)] = @]
    BY <1>13 DEF EngineApplies
  <2>5. writes' \in [Conns -> Nat] /\ UNCHANGED <<closed, retired, last, clock>>
    BY <1>0, <1>13, <2>1, <2>4 DEF EngineApplies, clientVars
  <2>6. PipeType'
    BY <1>0, <2>5
  <2> HIDE DEF TaskType, PipeType, InputType, SemType, WaitType, EngineType
  <2> QED
    BY <1>2, <1>13, <2>2, <2>3, <2>6 DEF EngineApplies, taskVars, semVars,
       waitVars, gateVars
<1>14. ASSUME EngineFinishes PROVE Types'
  <2>1. EngineType' /\ WaitType'
    BY <1>0, <1>4, <1>14 DEF EngineFinishes, gateVars, PlanType
  <2> HIDE DEF TaskType, PipeType, InputType, SemType, WaitType, EngineType
  <2> QED
    BY <1>2, <1>14, <2>1 DEF EngineFinishes, taskVars, clientVars, inputVars,
       semVars
<1>15. ASSUME UNCHANGED vars PROVE Types'
  <2> HIDE DEF TaskType, PipeType, InputType, SemType, WaitType, EngineType
  <2> QED
    BY <1>2, <1>15 DEF vars, taskVars, clientVars, activityVars, inputVars,
       semVars, waitVars, gateVars, engineVars
<1>16. Types'
  <2> HIDE DEF Types
  <2> QED
    BY <1>5, <1>6, <1>7, <1>8, <1>9, <1>10, <1>11, <1>12, <1>13, <1>14, <1>15,
       Leaving DEF Next, Client, Task
<1> QED
  BY <1>1, <1>16 DEF TypeOK

\* What is retired has nothing anywhere.
LEMMA NothingInFlight ==
    ASSUME TypeOK, Accounted, RetiredInv, NEW c \in Conns, retired[c]
    PROVE /\ requests[c] = 0 /\ writes[c] = 0
          /\ inbox[c] = 0 /\ Hand(c) = 0 /\ InEngine(c) = 0
          /\ Cardinality(Places(work, c)) = 0
<1>1. /\ inbox[c] \in Nat /\ Hand(c) \in Nat /\ InEngine(c) \in Nat
      /\ Cardinality(Places(work, c)) \in Nat
  BY PlacesFinite DEF TypeOK, Hand, InEngine
<1>2. /\ requests[c] = 0 /\ writes[c] = 0
      /\ requests[c] = inbox[c] + Hand(c) + Cardinality(Places(work, c))
                       + InEngine(c)
  BY DEF Accounted, RetiredInv
<1> QED
  BY <1>1, <1>2

\* A retired connection stays quiet: it takes no frame, and it is retired only
\* while nothing of it is in flight.
LEMMA RetiredStep ==
    TypeOK /\ Accounted /\ RetiredInv /\ [Next]_vars => RetiredInv'
<1> SUFFICES ASSUME TypeOK, Accounted, RetiredInv, [Next]_vars PROVE RetiredInv'
  OBVIOUS
<1>0. /\ requests \in [Conns -> Nat] /\ inbox \in [Conns -> Nat]
      /\ writes \in [Conns -> Nat] /\ retired \in [Conns -> BOOLEAN]
      /\ work \in Seq(Conns)
      /\ \A c \in Conns : Hand(c) \in Nat /\ InEngine(c) \in Nat
                          /\ Cardinality(Places(work, c)) \in Nat
  BY PlacesFinite DEF TypeOK, Hand, InEngine
<1>1. \A c \in Conns : retired[c] =>
          /\ requests[c] = 0 /\ writes[c] = 0
          /\ inbox[c] = 0 /\ Hand(c) = 0 /\ InEngine(c) = 0
  BY NothingInFlight
<1>2. ASSUME UNCHANGED <<requests, writes, retired>> PROVE RetiredInv'
  BY <1>2 DEF RetiredInv
<1>3. ASSUME NEW c \in Conns, Frame(c) PROVE RetiredInv'
  BY <1>0, <1>3 DEF Frame, RetiredInv
<1>4. ASSUME NEW c \in Conns, Written(c) PROVE RetiredInv'
  BY <1>0, <1>4 DEF Written, RetiredInv
<1>5. ASSUME NEW c \in Conns, Leave(c) PROVE RetiredInv'
  <2>1. ASSUME retired[c] PROVE requests'[c] = 0
    BY <1>0, <1>1, <1>5, <2>1 DEF Leave, Hand
  <2> QED
    BY <1>0, <1>5, <2>1 DEF Leave, RetiredInv
<1>6. ASSUME NEW c \in Conns, RetireFirst(c) PROVE RetiredInv'
  <2>1. PICK v : \/ /\ StillValid(v)
                    /\ retired' = [retired EXCEPT ![v.peer] = TRUE]
                 \/ retired' = retired
    BY <1>6 DEF RetireFirst
  <2>2. UNCHANGED <<requests, writes>>
    BY <1>6 DEF RetireFirst
  <2> QED
    BY <1>0, <2>1, <2>2 DEF StillValid, Reclaimable, RetiredInv
<1>7. CASE EngineApplies
  <2>1. /\ UNCHANGED <<requests, retired>> /\ work # <<>>
        /\ \/ UNCHANGED writes
           \/ writes' = [writes EXCEPT ![Head(work)] =
                 IF closed[Head(work)] \/ retired[Head(work)] THEN @ ELSE @ + 1]
    BY <1>7 DEF EngineApplies
  <2>2. Head(work) \in Conns
    BY <1>0, <2>1, HeadTailProperties
  <2> QED
    BY <1>0, <2>1, <2>2 DEF RetiredInv
<1>8. CASE EngineFinishes
  <2>1. ASSUME NEW c \in Conns, retired[c] PROVE c \notin engine
    BY <1>1, <2>1 DEF InEngine
  <2> QED
    BY <1>0, <1>8, <2>1 DEF EngineFinishes, RetiredInv
<1>9. ASSUME NEW c \in Conns,
             \/ Accept(c) \/ Close(c) \/ TakeOpen(c) \/ TakeIntent(c)
             \/ TakeActive(c) \/ Check(c) \/ Enqueue(c) \/ Admit(c) \/ Wake(c)
      PROVE RetiredInv'
  BY <1>2, <1>9 DEF Accept, Close, TakeOpen, TakeIntent, TakeActive, Check,
     Enqueue, Admit, Wake, activityVars
<1>10. CASE UNCHANGED vars
  BY <1>2, <1>10 DEF vars, activityVars
<1> QED
  BY <1>3, <1>4, <1>5, <1>6, <1>7, <1>8, <1>9, <1>10, Leaving
     DEF Next, Client, Task

\* No connection becomes reclaimable behind the back of a promotion that
\* listens: what makes it so notifies, and what changes its importance happens
\* while a request protects it.
LEMMA ListenStep ==
    /\ TypeOK /\ PlanType /\ Accounted /\ SeatsInv /\ ListenInv /\ [Next]_vars
    => ListenInv'
<1> SUFFICES ASSUME TypeOK, PlanType, Accounted, SeatsInv, ListenInv, [Next]_vars
             PROVE ListenInv'
  OBVIOUS
<1>0. /\ phase \in [Conns -> Phases] /\ active \in SUBSET Conns
      /\ DOMAIN plan = Conns
      /\ requests \in [Conns -> Nat] /\ inbox \in [Conns -> Nat]
      /\ retired \in [Conns -> BOOLEAN] /\ work \in Seq(Conns)
      /\ \A c \in Conns : Cardinality(Places(work, c)) \in Nat
  BY PlacesFinite DEF TypeOK, PlanType
<1>1. ASSUME NEW c \in Conns,
             \/ phase[c] \in {"check", "reclaim", "wait", "full"}
             \/ work # <<>> /\ c = Head(work)
      PROVE requests[c] > 0
  <2>1. /\ requests[c] = inbox[c] + Hand(c) + Cardinality(Places(work, c))
                         + InEngine(c)
        /\ Hand(c) \in Nat /\ InEngine(c) \in Nat
    BY DEF Accounted, Hand, InEngine
  <2>2. CASE phase[c] \in {"check", "reclaim", "wait", "full"}
    <3>1. Hand(c) = 1
      BY <2>2 DEF Hand
    <3> QED
      BY <1>0, <2>1, <3>1
  <2>3. CASE work # <<>> /\ c = Head(work)
    <3>1. /\ Cardinality(Places(work, c)) = Cardinality(Places(Tail(work), c)) + 1
          /\ Cardinality(Places(Tail(work), c)) \in Nat
      BY <1>0, <2>3, PlacesOfTail, PlacesFinite, HeadTailProperties
    <3> QED
      BY <1>0, <2>1, <3>1
  <2> QED
    BY <1>1, <2>2, <2>3
<1>2. ASSUME \A w \in Conns : Listens(w)' =>
                 Listens(w) /\ phase'[w] = phase[w] /\ plan'[w] = plan[w],
             \A d \in active' : Reclaimable(d)' =>
                 d \in active /\ Reclaimable(d) /\ Rank(d)' = Rank(d)
      PROVE ListenInv'
  BY <1>2 DEF ListenInv, Knows
<1>3. ASSUME \A w \in Conns : ~Listens(w)' PROVE ListenInv'
  BY <1>3 DEF ListenInv
<1>4. ASSUME UNCHANGED <<active, registered, retired, requests, writes,
                         priority, last>>
      PROVE \A d \in active' : Reclaimable(d)' =>
                 d \in active /\ Reclaimable(d) /\ Rank(d)' = Rank(d)
  BY <1>4 DEF Reclaimable, Rank
<1>5. ASSUME NEW c \in Conns,
             Accept(c) \/ TakeOpen(c) \/ TakeIntent(c) \/ TakeActive(c) \/ Wake(c)
      PROVE ListenInv'
  <2>1. UNCHANGED <<active, registered, retired, requests, writes, priority, last>>
    BY <1>5 DEF Accept, TakeOpen, TakeIntent, TakeActive, Wake, activityVars,
       inputVars, gateVars
  <2>2. ASSUME NEW w \in Conns, Listens(w)'
        PROVE Listens(w) /\ phase'[w] = phase[w] /\ plan'[w] = plan[w]
    BY <1>0, <1>5, <2>2 DEF Accept, TakeOpen, TakeIntent, TakeActive, Wake,
       waitVars, Listens
  <2> QED
    BY <1>2, <1>4, <2>1, <2>2
<1>6. ASSUME woken' = Notified, UNCHANGED <<phase, reclaimed>> PROVE ListenInv'
  <2>1. \A w \in Conns : ~Listens(w)'
    BY <1>6 DEF Notified, Listens
  <2> QED
    BY <1>3, <2>1
<1>7. ASSUME NEW c \in Conns, Frame(c) PROVE ListenInv'
  <2>1. CASE retired[c]
    BY <1>6, <1>7, <2>1 DEF Frame
  <2>2. CASE ~retired[c]
    <3>1. /\ UNCHANGED <<phase, woken, reclaimed, plan, active, registered,
                         retired, writes, priority>>
          /\ requests'[c] > 0
          /\ \A d \in Conns \ {c} : requests'[d] = requests[d] /\ last'[d] = last[d]
      BY <1>0, <1>7, <2>2 DEF Frame, inputVars, gateVars, TypeOK
    <3>2. ASSUME NEW d \in active', Reclaimable(d)'
          PROVE d \in active /\ Reclaimable(d) /\ Rank(d)' = Rank(d)
      <4>1. d \in active /\ d \in Conns /\ requests'[d] = 0
        BY <1>0, <3>1, <3>2 DEF Reclaimable
      <4>2. d # c
        BY <3>1, <4>1
      <4>3. requests'[d] = requests[d] /\ last'[d] = last[d]
        BY <3>1, <4>1, <4>2
      <4> QED
        BY <3>1, <3>2, <4>1, <4>3 DEF Reclaimable, Rank
    <3> QED
      BY <1>2, <3>1, <3>2 DEF Listens
  <2> QED
    BY <2>1, <2>2
<1>8. ASSUME NEW c \in Conns, Close(c) \/ Written(c) PROVE ListenInv'
  BY <1>6, <1>8 DEF Close, Written, taskVars
<1>9. ASSUME NEW c \in Conns, Leave(c) PROVE ListenInv'
  <2>1. \A w \in Conns : ~Listens(w)'
    BY <1>0, <1>9 DEF Leave, Notified, Listens
  <2> QED
    BY <1>3, <2>1
<1>10. ASSUME NEW c \in Conns, phase[c] \in {"check", "wait"},
              phase'[c] \in {"active", "full"},
              \A w \in Conns \ {c} : phase'[w] = phase[w],
              active' = active \cup {c}, woken' = woken \ {c},
              reclaimed' = reclaimed \ {c}, UNCHANGED plan,
              UNCHANGED <<registered, retired, requests, writes, priority, last>>
       PROVE ListenInv'
  <2>1. requests'[c] > 0
    BY <1>1, <1>10
  <2>2. ASSUME NEW d \in active', Reclaimable(d)'
        PROVE d \in active /\ Reclaimable(d) /\ Rank(d)' = Rank(d)
    BY <1>0, <1>10, <2>1, <2>2 DEF Reclaimable, Rank
  <2>3. ASSUME NEW w \in Conns, Listens(w)'
        PROVE Listens(w) /\ phase'[w] = phase[w] /\ plan'[w] = plan[w]
    BY <1>10, <2>3 DEF Listens
  <2> QED
    BY <1>2, <2>2, <2>3
<1>11. ASSUME NEW c \in Conns, Admit(c) PROVE ListenInv'
  <2>1. /\ phase[c] = "wait" /\ phase'[c] \in {"active", "full"}
        /\ \A w \in Conns \ {c} : phase'[w] = phase[w]
    BY <1>0, <1>11 DEF Admit, Activate
  <2> QED
    BY <1>10, <1>11, <2>1 DEF Admit, Activate, activityVars, inputVars
<1>12. ASSUME NEW c \in Conns, Check(c) PROVE ListenInv'
  <2>1. CASE free > 0
    <3>1. /\ phase[c] = "check" /\ phase'[c] \in {"active", "full"}
          /\ \A w \in Conns \ {c} : phase'[w] = phase[w]
      BY <1>0, <1>12, <2>1 DEF Check, Activate
    <3> QED
      BY <1>10, <1>12, <2>1, <3>1 DEF Check, Activate, activityVars, inputVars
  <2>2. CASE ~(free > 0)
    <3>1. /\ phase[c] = "check" /\ phase'[c] = "reclaim"
          /\ \A w \in Conns \ {c} : phase'[w] = phase[w] /\ plan'[w] = plan[w]
          /\ plan'[c] = {[peer |-> p, rank |-> Rank(p)] :
                             p \in {q \in active \ {c} : Reclaimable(q)}}
          /\ woken' = woken \ {c} /\ reclaimed' = reclaimed \ {c}
          /\ UNCHANGED <<active, registered, retired, requests, writes,
                         priority, last>>
      BY <1>0, <1>12, <2>2 DEF Check, activityVars, inputVars, gateVars
    <3>2. c \notin active
      BY <3>1 DEF SeatsInv
    <3> SUFFICES ASSUME NEW w \in Conns, NEW d \in active', Listens(w)',
                        Reclaimable(d)'
                 PROVE Knows(w, d)'
      BY DEF ListenInv
    <3>3. d \in active /\ Reclaimable(d) /\ Rank(d)' = Rank(d)
      BY <3>1 DEF Reclaimable, Rank
    <3>4. CASE w = c
      BY <3>1, <3>2, <3>3, <3>4 DEF Knows
    <3>5. CASE w # c
      BY <3>1, <3>3, <3>5 DEF ListenInv, Listens, Knows
    <3> QED
      BY <3>4, <3>5
  <2> QED
    BY <2>1, <2>2
<1>13. ASSUME NEW c \in Conns, RetireFirst(c) PROVE ListenInv'
  <2> DEFINE v == FirstOf(plan[c])
  <2>1. UNCHANGED <<phase, woken, active, registered, requests, writes,
                    priority, last>>
    BY <1>13 DEF RetireFirst, taskVars, inputVars, gateVars
  <2>2. CASE StillValid(v)
    <3>1. /\ retired' = [retired EXCEPT ![v.peer] = TRUE]
          /\ reclaimed' = reclaimed \cup {c}
          /\ plan' = [plan EXCEPT ![c] = {}]
      BY <1>13, <2>2 DEF RetireFirst
    <3> HIDE DEF v
    <3>2. ASSUME NEW d \in active', Reclaimable(d)'
          PROVE d \in active /\ Reclaimable(d) /\ Rank(d)' = Rank(d)
      BY <1>0, <2>1, <3>1, <3>2 DEF Reclaimable, Rank
    <3>3. ASSUME NEW w \in Conns, Listens(w)'
          PROVE Listens(w) /\ phase'[w] = phase[w] /\ plan'[w] = plan[w]
      BY <1>0, <2>1, <3>1, <3>3 DEF Listens
    <3> QED
      BY <1>2, <3>2, <3>3
  <2>3. CASE ~StillValid(v)
    <3>1. /\ UNCHANGED <<retired, reclaimed>>
          /\ plan' = [plan EXCEPT ![c] = plan[c] \ {v}]
      BY <1>13, <2>3 DEF RetireFirst
    <3> HIDE DEF v
    <3> SUFFICES ASSUME NEW w \in Conns, NEW d \in active', Listens(w)',
                        Reclaimable(d)'
                 PROVE Knows(w, d)'
      BY DEF ListenInv
    <3>2. /\ d \in active /\ Reclaimable(d) /\ Rank(d)' = Rank(d) /\ Listens(w)
      BY <2>1, <3>1 DEF Reclaimable, Rank, Listens
    <3>3. Knows(w, d)
      BY <3>2 DEF ListenInv
    <3>4. [peer |-> d, rank |-> Rank(d)] # v
      BY <2>3, <3>2 DEF StillValid
    <3> QED
      BY <1>0, <2>1, <3>1, <3>2, <3>3, <3>4 DEF Knows
  <2> QED
    BY <2>2, <2>3
<1>14. ASSUME NEW c \in Conns, Enqueue(c) PROVE ListenInv'
  <2>1. /\ phase[c] = "reclaim" /\ plan[c] = {} /\ phase'[c] = "wait"
        /\ \A w \in Conns \ {c} : phase'[w] = phase[w]
        /\ UNCHANGED <<woken, reclaimed, plan, active, registered, retired,
                       requests, writes, priority, last>>
    BY <1>0, <1>14 DEF Enqueue, activityVars, inputVars, waitVars, gateVars
  <2> SUFFICES ASSUME NEW w \in Conns, NEW d \in active', Listens(w)',
                      Reclaimable(d)'
               PROVE Knows(w, d)'
    BY DEF ListenInv
  <2>2. /\ d \in active /\ Reclaimable(d) /\ Rank(d)' = Rank(d) /\ Listens(w)
    BY <2>1 DEF Reclaimable, Rank, Listens
  <2>3. Knows(w, d)
    BY <2>2 DEF ListenInv
  <2> QED
    BY <2>1, <2>2, <2>3 DEF Knows
<1>15. CASE EngineApplies
  <2>1. /\ work # <<>>
        /\ UNCHANGED <<phase, woken, reclaimed, plan, active, retired, requests,
                       last>>
    BY <1>15 DEF EngineApplies, taskVars, waitVars, gateVars
  <2>3. ASSUME NEW d \in Conns, d # Head(work)
        PROVE /\ registered'[d] = registered[d] /\ writes'[d] = writes[d]
              /\ priority'[d] = priority[d]
    <3>1. CASE UNCHANGED <<registered, priority, writes>>
      BY <3>1
    <3>2. CASE /\ registered' = [registered EXCEPT ![Head(work)] = TRUE]
               /\ \E p \in Priorities :
                      priority' = [priority EXCEPT ![Head(work)] = p]
               /\ \/ writes' = [writes EXCEPT ![Head(work)] = @ + 1]
                  \/ writes' = [writes EXCEPT ![Head(work)] = @]
      BY <2>3, <3>2 DEF TypeOK
    <3> QED
      BY <1>15, <3>1, <3>2 DEF EngineApplies, inputVars
  <2>2. ASSUME NEW d \in active', Reclaimable(d)'
        PROVE d \in active /\ Reclaimable(d) /\ Rank(d)' = Rank(d)
    <3>1. d \in active /\ requests[d] = 0
      BY <2>1, <2>2 DEF Reclaimable
    <3>2. d # Head(work)
      BY <1>0, <1>1, <2>1, <3>1
    <3> QED
      BY <1>0, <2>1, <2>2, <2>3, <3>1, <3>2 DEF Reclaimable, Rank
  <2> QED
    BY <1>2, <2>1, <2>2 DEF Listens
<1>16. CASE EngineFinishes
  BY <1>6, <1>16 DEF EngineFinishes, taskVars
<1>17. CASE UNCHANGED vars
  <2>1. \A w \in Conns : Listens(w)' =>
            Listens(w) /\ phase'[w] = phase[w] /\ plan'[w] = plan[w]
    BY <1>17 DEF vars, taskVars, waitVars, Listens
  <2> QED
    BY <1>2, <1>4, <1>17, <2>1 DEF vars, activityVars, inputVars, gateVars
<1> QED
  BY <1>5, <1>7, <1>8, <1>9, <1>11, <1>12, <1>13, <1>14, <1>15, <1>16, <1>17,
     Leaving DEF Next, Client, Task

-----------------------------------------------------------------------------
\* The theorems.

\* The first state has nothing in flight, nobody active and every permit free.
LEMMA InitInv == Init => IInv
<1> SUFFICES ASSUME Init PROVE IInv
  OBVIOUS
<1>1. TypeOK /\ PlanType
  BY ConstantsAssumption DEF Init, TypeOK, PlanType, Phases, NoConn
<1>2. Accounted
  <2>1. \A c \in Conns : Places(work, c) = {}
    BY DEF Init, Places
  <2>2. \A c \in Conns : /\ requests[c] = 0 /\ inbox[c] = 0
                         /\ Hand(c) = 0 /\ InEngine(c) = 0
    BY DEF Init, Hand, InEngine, NoConn
  <2> QED
    BY <2>1, <2>2, FS_EmptySet DEF Accounted
<1>3. SeatsInv /\ RetiredInv /\ ListenInv
  BY DEF Init, SeatsInv, RetiredInv, ListenInv
<1>4. PermitsConserved
  BY FS_EmptySet, ConstantsAssumption DEF Init, PermitsConserved
<1>5. PendingIsExact
  <2>1. {c \in Conns : phase[c] \in {"pending", "check", "reclaim", "wait"}} = {}
    BY DEF Init
  <2>2. pending = 0
    BY DEF Init
  <2> QED
    BY <2>1, <2>2, FS_EmptySet, ConstantsAssumption DEF PendingIsExact
<1> QED
  BY <1>1, <1>2, <1>3, <1>4, <1>5 DEF IInv

\* The invariant is kept by every step.
LEMMA StepInv == IInv /\ [Next]_vars => IInv'
BY AccountedStep, SeatsStep, PermitsStep, PendingStep, TypeStep, RetiredStep,
   ListenStep DEF IInv

\* Every variable has its type, every permit is in one place, and the pending
\* counter counts the pending connections, for every number of connections,
\* slots and places (Gate in admission.rs).
THEOREM GateCounts == Spec => []CountsAreExact
<1>1. IInv => CountsAreExact
  BY DEF IInv, CountsAreExact
<1> QED
  BY <1>1, InitInv, StepInv, PTL DEF Spec

\* A connection is retired only when nothing of it is in flight, however old the
\* list of victims is, and nothing of it is in flight later (Activity::retire).
THEOREM RetiredQuiet == Spec => []RetiredIsQuiet
<1>1. IInv => RetiredIsQuiet
  <2> SUFFICES ASSUME IInv, NEW c \in Conns, retired[c]
               PROVE /\ inbox[c] = 0 /\ writes[c] = 0 /\ requests[c] = 0
                     /\ c \notin engine
                     /\ \A i \in 1..Len(work) : work[i] # c
    BY DEF RetiredIsQuiet
  <2>1. /\ requests[c] = 0 /\ writes[c] = 0
        /\ inbox[c] = 0 /\ InEngine(c) = 0 /\ Cardinality(Places(work, c)) = 0
    BY NothingInFlight DEF IInv
  <2>2. IsFiniteSet(Places(work, c))
    BY PlacesFinite DEF IInv, TypeOK
  <2>3. Places(work, c) = {}
    BY <2>1, <2>2, FS_EmptySet
  <2> QED
    BY <2>1, <2>3 DEF InEngine, Places
<1> QED
  BY <1>1, InitInv, StepInv, PTL DEF Spec

\* A promotion that listens is not left asleep beside a connection it could
\* reclaim, whatever comes between its look and its sleep (Admission::promote).
THEOREM ListenerWoken == Spec => []ListenerIsWoken
<1>1. IInv => ListenerIsWoken
  <2> SUFFICES ASSUME IInv, NEW w \in Conns, phase[w] = "wait",
                      w \notin reclaimed \cup woken,
                      NEW c \in active, Reclaimable(c)
               PROVE FALSE
    BY DEF ListenerIsWoken
  <2>1. Listens(w) /\ ListenInv
    BY DEF IInv, Listens
  <2> QED
    BY <2>1 DEF ListenInv, Knows
<1> QED
  BY <1>1, InitInv, StepInv, PTL DEF Spec
=============================================================================
