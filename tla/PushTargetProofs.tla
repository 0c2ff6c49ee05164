------------------------- MODULE PushTargetProofs -------------------------
(***************************************************************************)
(* Proofs about PushTarget, for every set of contexts, every width of the  *)
(* epoch counter and every bound.                                          *)
(***************************************************************************)
EXTENDS PushTarget, FiniteSetTheorems, TLAPS

\* What the epoch counter's arithmetic gives.
LEMMA EpochFacts ==
    /\ 0 \in Epochs /\ 1 \in Epochs /\ Epochs \subseteq Nat
    /\ \A e \in Epochs : (e + 1) % EpochSpace \in Epochs
BY ConstantsAssumption DEF Epochs

\* A number below the size of the counter is its own remainder.
LEMMA SmallRemainder ==
    ASSUME NEW n \in Nat, NEW m \in Nat, n < m PROVE n % m = n
OBVIOUS

\* The gate's words and the flags keep their types.
LEMMA GateTypeStep ==
    GateType /\ WorkerType /\ [Next]_vars => GateType'
<1> SUFFICES ASSUME GateType, WorkerType, [Next]_vars PROVE GateType'
  OBVIOUS
<1> USE ConstantsAssumption, EpochFacts
    DEF vars, gateVars, flagVars, queueVars, workerVars, replyVars, hostVars,
        histVars, GateType, WorkerType
<1>1. CASE BeginConnect
  BY <1>1 DEF BeginConnect
<1>2. CASE HandshakeFails
  BY <1>2 DEF HandshakeFails
<1>3. CASE HandshakeCancelled
  BY <1>3 DEF HandshakeCancelled
<1>4. CASE AllocateEpoch
  BY <1>4 DEF AllocateEpoch
<1>5. CASE RefuseEpochZero
  BY <1>5 DEF RefuseEpochZero
<1>6. CASE ClearFailed
  BY <1>6 DEF ClearFailed
<1>7. CASE StoreGeneration
  BY <1>7 DEF StoreGeneration
<1>8. CASE StoreEpoch
  BY <1>8 DEF StoreEpoch
<1>9. CASE WorkerInvalidates
  BY <1>9 DEF WorkerInvalidates, BumpCancellation
<1>10. CASE SubscriptionDisconnected
  BY <1>10 DEF SubscriptionDisconnected, BumpCancellation
<1>11. CASE SubscriptionFails
  <2>1. failed' \in BOOLEAN
    BY <1>11, Zenon DEF SubscriptionFails, GateType, gateVars
  <2>2. QED
    BY <1>11, <2>1 DEF SubscriptionFails, BumpCancellation, GateType, gateVars
<1>12. CASE RuntimeZeroesEpoch
  BY <1>12 DEF RuntimeZeroesEpoch, ZeroEpoch
<1>13. CASE RuntimeReports
  BY <1>13 DEF RuntimeReports, ReportAndClear
<1>14. CASE CheckUpdate
  BY <1>14 DEF CheckUpdate
<1>15. CASE PushUpdate
  BY <1>15 DEF PushUpdate
<1>16. CASE HostInvalidates
  BY <1>16 DEF HostInvalidates, BumpCancellation
<1>17. CASE HostZeroesEpoch
  BY <1>17 DEF HostZeroesEpoch, ZeroEpoch
<1>18. CASE HostReports
  BY <1>18 DEF HostReports, ReportAndClear
<1>19. CASE LoadGeneration
  BY <1>19 DEF LoadGeneration
<1>20. CASE LoadEpoch
  BY <1>20 DEF LoadEpoch
<1>21. CASE LoadStamp
  BY <1>21 DEF LoadStamp
<1>22. CASE ReloadCancellation
  BY <1>22 DEF ReloadCancellation
<1>23. CASE Answer
  BY <1>23 DEF Answer
<1>24. CASE RetainContextUpdates
  BY <1>24 DEF RetainContextUpdates
<1>25. CASE UNCHANGED vars
  BY <1>25
<1>26. QED
  BY <1>1, <1>2, <1>3, <1>4, <1>5, <1>6, <1>7, <1>8, <1>9, <1>10, <1>11, <1>12,
      <1>13, <1>14, <1>15, <1>16, <1>17, <1>18, <1>19, <1>20, <1>21, <1>22,
      <1>23, <1>24, <1>25
  DEF Next, Connect, RuntimeInvalidates, EnqueueUpdate, Host, CurrentEpoch

\* The worker's variables keep their types.
LEMMA WorkerTypeStep ==
    GateType /\ WorkerType /\ [Next]_vars => WorkerType'
<1> SUFFICES ASSUME GateType, WorkerType, [Next]_vars PROVE WorkerType'
  OBVIOUS
<1> USE ConstantsAssumption, EpochFacts
    DEF vars, gateVars, flagVars, queueVars, workerVars, replyVars, hostVars,
        histVars, GateType, WorkerType, RuntimePlaces
<1>1. CASE BeginConnect
  BY <1>1 DEF BeginConnect
<1>2. CASE HandshakeFails
  BY <1>2 DEF HandshakeFails
<1>3. CASE HandshakeCancelled
  BY <1>3 DEF HandshakeCancelled
<1>4. CASE AllocateEpoch
  BY <1>4 DEF AllocateEpoch
<1>5. CASE RefuseEpochZero
  BY <1>5 DEF RefuseEpochZero
<1>6. CASE ClearFailed
  BY <1>6 DEF ClearFailed
<1>7. CASE StoreGeneration
  BY <1>7 DEF StoreGeneration
<1>8. CASE StoreEpoch
  BY <1>8 DEF StoreEpoch
<1>9. CASE WorkerInvalidates
  BY <1>9 DEF WorkerInvalidates, BumpCancellation
<1>10. CASE SubscriptionDisconnected
  BY <1>10 DEF SubscriptionDisconnected, BumpCancellation
<1>11. CASE SubscriptionFails
  BY <1>11 DEF SubscriptionFails, BumpCancellation
<1>12. CASE RuntimeZeroesEpoch
  BY <1>12 DEF RuntimeZeroesEpoch, ZeroEpoch
<1>13. CASE RuntimeReports
  BY <1>13 DEF RuntimeReports, ReportAndClear
<1>14. CASE CheckUpdate
  BY <1>14 DEF CheckUpdate
<1>15. CASE PushUpdate
  BY <1>15 DEF PushUpdate
<1>16. CASE HostInvalidates
  BY <1>16 DEF HostInvalidates, BumpCancellation
<1>17. CASE HostZeroesEpoch
  BY <1>17 DEF HostZeroesEpoch, ZeroEpoch
<1>18. CASE HostReports
  BY <1>18 DEF HostReports, ReportAndClear
<1>19. CASE LoadGeneration
  BY <1>19 DEF LoadGeneration
<1>20. CASE LoadEpoch
  BY <1>20 DEF LoadEpoch
<1>21. CASE LoadStamp
  BY <1>21 DEF LoadStamp
<1>22. CASE ReloadCancellation
  BY <1>22 DEF ReloadCancellation
<1>23. CASE Answer
  BY <1>23 DEF Answer
<1>24. CASE RetainContextUpdates
  BY <1>24 DEF RetainContextUpdates
<1>25. CASE UNCHANGED vars
  BY <1>25
<1>26. QED
  BY <1>1, <1>2, <1>3, <1>4, <1>5, <1>6, <1>7, <1>8, <1>9, <1>10, <1>11, <1>12,
      <1>13, <1>14, <1>15, <1>16, <1>17, <1>18, <1>19, <1>20, <1>21, <1>22,
      <1>23, <1>24, <1>25
  DEF Next, Connect, RuntimeInvalidates, EnqueueUpdate, Host, CurrentEpoch

\* The queue keeps its type and its bound.
LEMMA QueueTypeStep ==
    GateType /\ WorkerType /\ QueueType /\ [Next]_vars => QueueType'
<1> SUFFICES ASSUME GateType, WorkerType, QueueType, [Next]_vars PROVE QueueType'
  OBVIOUS
<1> USE ConstantsAssumption, EpochFacts
    DEF vars, gateVars, flagVars, queueVars, workerVars, replyVars, hostVars,
        histVars, GateType, WorkerType, QueueType
<1>1. CASE BeginConnect
  BY <1>1 DEF BeginConnect
<1>2. CASE HandshakeFails
  BY <1>2 DEF HandshakeFails
<1>3. CASE HandshakeCancelled
  BY <1>3 DEF HandshakeCancelled
<1>4. CASE AllocateEpoch
  BY <1>4 DEF AllocateEpoch
<1>5. CASE RefuseEpochZero
  BY <1>5 DEF RefuseEpochZero
<1>6. CASE ClearFailed
  BY <1>6 DEF ClearFailed
<1>7. CASE StoreGeneration
  BY <1>7 DEF StoreGeneration
<1>8. CASE StoreEpoch
  BY <1>8 DEF StoreEpoch
<1>9. CASE WorkerInvalidates
  BY <1>9 DEF WorkerInvalidates, BumpCancellation
<1>10. CASE SubscriptionDisconnected
  BY <1>10 DEF SubscriptionDisconnected, BumpCancellation
<1>11. CASE SubscriptionFails
  BY <1>11 DEF SubscriptionFails, BumpCancellation
<1>12. CASE RuntimeZeroesEpoch
  BY <1>12 DEF RuntimeZeroesEpoch, ZeroEpoch
<1>13. CASE RuntimeReports
  <2>0. UNCHANGED <<arrived, pending>> /\ updatesLock' \in BOOLEAN /\ (rt' = "push" => rt = "push")
    BY <1>13 DEF RuntimeReports, ReportAndClear, QueueType, vars, gateVars,
        flagVars, queueVars,
       workerVars, replyVars, hostVars
  <2>1. IsFiniteSet(updates') /\ Cardinality(updates') <= Cardinality(updates) /\ updates' \subseteq updates
    BY <1>13, FS_Subset, FS_EmptySet DEF RuntimeReports, ReportAndClear,
        queueVars, QueueType
  <2>2. Cardinality(updates) \in Nat /\ Cardinality(updates') \in Nat
    BY <2>1, FS_CardinalityType
  <2>3. Cardinality(updates') <= QueueLimit /\ updates' \subseteq Reply
    BY <2>1, <2>2
  <2>4. arrived' \in Nat /\ pending' \in Reply \cup {NoReply}
        /\ (rt' = "push" => pending' \in Reply)
    BY <2>0
  <2>5. QED
    BY <2>0, <2>1, <2>3, <2>4
<1>14. CASE CheckUpdate
  BY <1>14 DEF CheckUpdate, Reply
<1>15. CASE PushUpdate
  <2>1. IsFiniteSet(updates') /\ Cardinality(updates') <= QueueLimit
    <3>1. CASE Cardinality(updates) < QueueLimit
      <4>1. updates' = updates \cup {pending}
        BY <1>15, <3>1 DEF PushUpdate
      <4>2. IsFiniteSet(updates) /\ Cardinality(updates) \in Nat
        BY FS_CardinalityType DEF QueueType
      <4>3. /\ IsFiniteSet(updates \cup {pending})
            /\ \/ Cardinality(updates \cup {pending}) = Cardinality(updates)
               \/ Cardinality(updates \cup {pending}) = Cardinality(updates) + 1
        BY <4>2, FS_AddElement
      <4>4. QED
        BY <3>1, <4>1, <4>2, <4>3
    <3>2. CASE ~(Cardinality(updates) < QueueLimit)
      BY <1>15, <3>2 DEF PushUpdate, QueueType
    <3>3. QED
      BY <3>1, <3>2
  <2>2. updates' \subseteq Reply /\ pending' \in Reply \cup {NoReply} /\ (rt' = "push" => pending' \in Reply)
    BY <1>15 DEF PushUpdate, QueueType
  <2>3. QED
    BY <1>15, <2>1, <2>2 DEF PushUpdate, QueueType
<1>16. CASE HostInvalidates
  BY <1>16 DEF HostInvalidates, BumpCancellation
<1>17. CASE HostZeroesEpoch
  BY <1>17 DEF HostZeroesEpoch, ZeroEpoch
<1>18. CASE HostReports
  <2>0. UNCHANGED <<arrived, pending>> /\ updatesLock' \in BOOLEAN /\ (rt' = "push" => rt = "push")
    BY <1>18 DEF HostReports, ReportAndClear, QueueType, vars, gateVars,
        flagVars, queueVars,
       workerVars, replyVars, hostVars
  <2>1. IsFiniteSet(updates') /\ Cardinality(updates') <= Cardinality(updates) /\ updates' \subseteq updates
    BY <1>18, FS_Subset, FS_EmptySet DEF HostReports, ReportAndClear,
        queueVars, QueueType
  <2>2. Cardinality(updates) \in Nat /\ Cardinality(updates') \in Nat
    BY <2>1, FS_CardinalityType
  <2>3. Cardinality(updates') <= QueueLimit /\ updates' \subseteq Reply
    BY <2>1, <2>2
  <2>4. arrived' \in Nat /\ pending' \in Reply \cup {NoReply}
        /\ (rt' = "push" => pending' \in Reply)
    BY <2>0
  <2>5. QED
    BY <2>0, <2>1, <2>3, <2>4
<1>19. CASE LoadGeneration
  BY <1>19 DEF LoadGeneration
<1>20. CASE LoadEpoch
  BY <1>20 DEF LoadEpoch
<1>21. CASE LoadStamp
  BY <1>21 DEF LoadStamp
<1>22. CASE ReloadCancellation
  BY <1>22 DEF ReloadCancellation
<1>23. CASE Answer
  <2>0. UNCHANGED <<arrived, pending>> /\ updatesLock' \in BOOLEAN /\ (rt' = "push" => rt = "push")
    BY <1>23 DEF Answer, QueueType, vars, gateVars, flagVars, queueVars,
       workerVars, replyVars, hostVars
  <2>1. IsFiniteSet(updates') /\ Cardinality(updates') <= Cardinality(updates) /\ updates' \subseteq updates
    BY <1>23, FS_Subset, FS_EmptySet DEF Answer, queueVars, QueueType
  <2>2. Cardinality(updates) \in Nat /\ Cardinality(updates') \in Nat
    BY <2>1, FS_CardinalityType
  <2>3. Cardinality(updates') <= QueueLimit /\ updates' \subseteq Reply
    BY <2>1, <2>2
  <2>4. arrived' \in Nat /\ pending' \in Reply \cup {NoReply}
        /\ (rt' = "push" => pending' \in Reply)
    BY <2>0
  <2>5. QED
    BY <2>0, <2>1, <2>3, <2>4
<1>24. CASE RetainContextUpdates
  <2>0. UNCHANGED <<arrived, pending>> /\ updatesLock' \in BOOLEAN /\ (rt' = "push" => rt = "push")
    BY <1>24 DEF RetainContextUpdates, QueueType, vars, gateVars, flagVars,
        queueVars,
       workerVars, replyVars, hostVars
  <2>1. IsFiniteSet(updates') /\ Cardinality(updates') <= Cardinality(updates) /\ updates' \subseteq updates
    BY <1>24, FS_Subset, FS_EmptySet DEF RetainContextUpdates, queueVars,
        QueueType
  <2>2. Cardinality(updates) \in Nat /\ Cardinality(updates') \in Nat
    BY <2>1, FS_CardinalityType
  <2>3. Cardinality(updates') <= QueueLimit /\ updates' \subseteq Reply
    BY <2>1, <2>2
  <2>4. arrived' \in Nat /\ pending' \in Reply \cup {NoReply}
        /\ (rt' = "push" => pending' \in Reply)
    BY <2>0
  <2>5. QED
    BY <2>0, <2>1, <2>3, <2>4
<1>25. CASE UNCHANGED vars
  BY <1>25
<1>26. QED
  BY <1>1, <1>2, <1>3, <1>4, <1>5, <1>6, <1>7, <1>8, <1>9, <1>10, <1>11, <1>12,
      <1>13, <1>14, <1>15, <1>16, <1>17, <1>18, <1>19, <1>20, <1>21, <1>22,
      <1>23, <1>24, <1>25
  DEF Next, Connect, RuntimeInvalidates, EnqueueUpdate, Host, CurrentEpoch

\* The host's variables keep their types.
LEMMA HostTypeStep ==
    GateType /\ QueueType /\ HostType /\ [Next]_vars => HostType'
<1> SUFFICES ASSUME GateType, QueueType, HostType, [Next]_vars PROVE HostType'
  OBVIOUS
<1> USE ConstantsAssumption, EpochFacts
    DEF vars, gateVars, flagVars, queueVars, workerVars, replyVars, hostVars,
        histVars, GateType, QueueType, HostType, HostPlaces, Read
<1>1. CASE BeginConnect
  BY <1>1 DEF BeginConnect
<1>2. CASE HandshakeFails
  BY <1>2 DEF HandshakeFails
<1>3. CASE HandshakeCancelled
  BY <1>3 DEF HandshakeCancelled
<1>4. CASE AllocateEpoch
  BY <1>4 DEF AllocateEpoch
<1>5. CASE RefuseEpochZero
  BY <1>5 DEF RefuseEpochZero
<1>6. CASE ClearFailed
  BY <1>6 DEF ClearFailed
<1>7. CASE StoreGeneration
  BY <1>7 DEF StoreGeneration
<1>8. CASE StoreEpoch
  BY <1>8 DEF StoreEpoch
<1>9. CASE WorkerInvalidates
  BY <1>9 DEF WorkerInvalidates, BumpCancellation
<1>10. CASE SubscriptionDisconnected
  BY <1>10 DEF SubscriptionDisconnected, BumpCancellation
<1>11. CASE SubscriptionFails
  BY <1>11 DEF SubscriptionFails, BumpCancellation
<1>12. CASE RuntimeZeroesEpoch
  BY <1>12 DEF RuntimeZeroesEpoch, ZeroEpoch
<1>13. CASE RuntimeReports
  BY <1>13 DEF RuntimeReports, ReportAndClear
<1>14. CASE CheckUpdate
  BY <1>14 DEF CheckUpdate
<1>15. CASE PushUpdate
  BY <1>15 DEF PushUpdate
<1>16. CASE HostInvalidates
  BY <1>16 DEF HostInvalidates, BumpCancellation
<1>17. CASE HostZeroesEpoch
  BY <1>17 DEF HostZeroesEpoch, ZeroEpoch
<1>18. CASE HostReports
  BY <1>18 DEF HostReports, ReportAndClear
<1>19. CASE LoadGeneration
  BY <1>19 DEF LoadGeneration
<1>20. CASE LoadEpoch
  BY <1>20 DEF LoadEpoch
<1>21. CASE LoadStamp
  BY <1>21 DEF LoadStamp
<1>22. CASE ReloadCancellation
  BY <1>22 DEF ReloadCancellation
<1>23. CASE Answer
  BY <1>23 DEF Answer
<1>24. CASE RetainContextUpdates
  BY <1>24 DEF RetainContextUpdates
<1>25. CASE UNCHANGED vars
  BY <1>25
<1>26. QED
  BY <1>1, <1>2, <1>3, <1>4, <1>5, <1>6, <1>7, <1>8, <1>9, <1>10, <1>11, <1>12,
      <1>13, <1>14, <1>15, <1>16, <1>17, <1>18, <1>19, <1>20, <1>21, <1>22,
      <1>23, <1>24, <1>25
  DEF Next, Connect, RuntimeInvalidates, EnqueueUpdate, Host, CurrentEpoch

\* The histories keep their types: they collect values of the gate.
LEMMA HistoryTypeStep ==
    GateType /\ GateType' /\ HistoryType /\ [Next]_vars => HistoryType'
<1> SUFFICES ASSUME GateType, GateType', HistoryType, [Next]_vars
             PROVE HistoryType'
  OBVIOUS
<1>1. Live \in Epochs /\ Live' \in Epochs
  BY EpochFacts DEF Live, GateType
<1>2. CASE Observe
  <2>1. closed' \subseteq Epochs
    BY <1>1, <1>2 DEF Observe, HistoryType
  <2>2. restamped' \in BOOLEAN
    BY <1>2, Zenon DEF Observe, HistoryType
  <2>3. QED
    BY <2>1, <2>2 DEF HistoryType
<1>3. CASE UNCHANGED vars
  BY <1>3 DEF HistoryType, vars, histVars
<1>4. QED
  BY <1>2, <1>3
  DEF Next, Connect, RuntimeInvalidates, EnqueueUpdate, Host, CurrentEpoch,
      BeginConnect, HandshakeFails, HandshakeCancelled, AllocateEpoch,
      RefuseEpochZero, ClearFailed, StoreGeneration, StoreEpoch,
      WorkerInvalidates, SubscriptionDisconnected, SubscriptionFails,
      RuntimeZeroesEpoch, RuntimeReports, CheckUpdate, PushUpdate,
      HostInvalidates, HostZeroesEpoch, HostReports, LoadGeneration, LoadEpoch,
      LoadStamp, ReloadCancellation, Answer, RetainContextUpdates

\* The gate's strengthening is inductive.
LEMMA GateInvStep ==
    GateType /\ WorkerType /\ GateInv /\ [Next]_vars => GateInv'
<1> SUFFICES ASSUME GateType, WorkerType, GateInv, [Next]_vars PROVE GateInv'
  OBVIOUS
<1> USE ConstantsAssumption, EpochFacts
    DEF vars, gateVars, flagVars, queueVars, workerVars, replyVars, hostVars,
        histVars, GateType, WorkerType, GateInv
<1>1. CASE BeginConnect
  BY <1>1 DEF BeginConnect
<1>2. CASE HandshakeFails
  BY <1>2 DEF HandshakeFails
<1>3. CASE HandshakeCancelled
  BY <1>3 DEF HandshakeCancelled
<1>4. CASE AllocateEpoch
  BY <1>4 DEF AllocateEpoch
<1>5. CASE RefuseEpochZero
  BY <1>5 DEF RefuseEpochZero
<1>6. CASE ClearFailed
  BY <1>6 DEF ClearFailed
<1>7. CASE StoreGeneration
  BY <1>7 DEF StoreGeneration
<1>8. CASE StoreEpoch
  BY <1>8 DEF StoreEpoch
<1>9. CASE WorkerInvalidates
  BY <1>9 DEF WorkerInvalidates, BumpCancellation
<1>10. CASE SubscriptionDisconnected
  BY <1>10 DEF SubscriptionDisconnected, BumpCancellation
<1>11. CASE SubscriptionFails
  BY <1>11 DEF SubscriptionFails, BumpCancellation
<1>12. CASE RuntimeZeroesEpoch
  BY <1>12 DEF RuntimeZeroesEpoch, ZeroEpoch
<1>13. CASE RuntimeReports
  BY <1>13 DEF RuntimeReports, ReportAndClear
<1>14. CASE CheckUpdate
  BY <1>14 DEF CheckUpdate
<1>15. CASE PushUpdate
  BY <1>15 DEF PushUpdate
<1>16. CASE HostInvalidates
  BY <1>16 DEF HostInvalidates, BumpCancellation
<1>17. CASE HostZeroesEpoch
  BY <1>17 DEF HostZeroesEpoch, ZeroEpoch
<1>18. CASE HostReports
  BY <1>18 DEF HostReports, ReportAndClear
<1>19. CASE LoadGeneration
  BY <1>19 DEF LoadGeneration
<1>20. CASE LoadEpoch
  BY <1>20 DEF LoadEpoch
<1>21. CASE LoadStamp
  BY <1>21 DEF LoadStamp
<1>22. CASE ReloadCancellation
  BY <1>22 DEF ReloadCancellation
<1>23. CASE Answer
  BY <1>23 DEF Answer
<1>24. CASE RetainContextUpdates
  BY <1>24 DEF RetainContextUpdates
<1>25. CASE UNCHANGED vars
  BY <1>25
<1>26. QED
  BY <1>1, <1>2, <1>3, <1>4, <1>5, <1>6, <1>7, <1>8, <1>9, <1>10, <1>11, <1>12,
      <1>13, <1>14, <1>15, <1>16, <1>17, <1>18, <1>19, <1>20, <1>21, <1>22,
      <1>23, <1>24, <1>25
  DEF Next, Connect, RuntimeInvalidates, EnqueueUpdate, Host, CurrentEpoch

\* The gate opens in one way only: StoreEpoch, under the generation the
\* handshake captured.
LEMMA LiveStep ==
    GateType /\ WorkerType /\ GateInv /\ [Next]_vars => Live' \in {0, Live}
       \/ /\ StoreEpoch /\ Live' = handshake.epoch
          /\ cancellation' = handshake.generation
<1> SUFFICES ASSUME GateType, WorkerType, GateInv, [Next]_vars PROVE Live' \in {0, Live}
                   \/ /\ StoreEpoch /\ Live' = handshake.epoch
                      /\ cancellation' = handshake.generation
  OBVIOUS
<1> USE ConstantsAssumption, EpochFacts
    DEF vars, gateVars, flagVars, queueVars, workerVars, replyVars, hostVars,
        histVars, GateType, WorkerType, GateInv, Live
<1>1. CASE BeginConnect
  BY <1>1 DEF BeginConnect
<1>2. CASE HandshakeFails
  BY <1>2 DEF HandshakeFails
<1>3. CASE HandshakeCancelled
  BY <1>3 DEF HandshakeCancelled
<1>4. CASE AllocateEpoch
  BY <1>4 DEF AllocateEpoch
<1>5. CASE RefuseEpochZero
  BY <1>5 DEF RefuseEpochZero
<1>6. CASE ClearFailed
  BY <1>6 DEF ClearFailed
<1>7. CASE StoreGeneration
  BY <1>7 DEF StoreGeneration
<1>8. CASE StoreEpoch
  BY <1>8 DEF StoreEpoch
<1>9. CASE WorkerInvalidates
  BY <1>9 DEF WorkerInvalidates, BumpCancellation
<1>10. CASE SubscriptionDisconnected
  BY <1>10 DEF SubscriptionDisconnected, BumpCancellation
<1>11. CASE SubscriptionFails
  BY <1>11 DEF SubscriptionFails, BumpCancellation
<1>12. CASE RuntimeZeroesEpoch
  BY <1>12 DEF RuntimeZeroesEpoch, ZeroEpoch
<1>13. CASE RuntimeReports
  BY <1>13 DEF RuntimeReports, ReportAndClear
<1>14. CASE CheckUpdate
  BY <1>14 DEF CheckUpdate
<1>15. CASE PushUpdate
  BY <1>15 DEF PushUpdate
<1>16. CASE HostInvalidates
  BY <1>16 DEF HostInvalidates, BumpCancellation
<1>17. CASE HostZeroesEpoch
  BY <1>17 DEF HostZeroesEpoch, ZeroEpoch
<1>18. CASE HostReports
  BY <1>18 DEF HostReports, ReportAndClear
<1>19. CASE LoadGeneration
  BY <1>19 DEF LoadGeneration
<1>20. CASE LoadEpoch
  BY <1>20 DEF LoadEpoch
<1>21. CASE LoadStamp
  BY <1>21 DEF LoadStamp
<1>22. CASE ReloadCancellation
  BY <1>22 DEF ReloadCancellation
<1>23. CASE Answer
  BY <1>23 DEF Answer
<1>24. CASE RetainContextUpdates
  BY <1>24 DEF RetainContextUpdates
<1>25. CASE UNCHANGED vars
  BY <1>25
<1>26. QED
  BY <1>1, <1>2, <1>3, <1>4, <1>5, <1>6, <1>7, <1>8, <1>9, <1>10, <1>11, <1>12,
      <1>13, <1>14, <1>15, <1>16, <1>17, <1>18, <1>19, <1>20, <1>21, <1>22,
      <1>23, <1>24, <1>25
  DEF Next, Connect, RuntimeInvalidates, EnqueueUpdate, Host, CurrentEpoch

\* The read's strengthening is inductive.
LEMMA ReadInvStep ==
    GateType /\ WorkerType /\ HostType /\ GateInv /\ ReadInv /\ [Next]_vars
      => ReadInv'
<1> SUFFICES ASSUME GateType, WorkerType, HostType, GateInv, ReadInv,
                    [Next]_vars
             PROVE ReadInv'
  OBVIOUS
<1> USE ConstantsAssumption, EpochFacts
    DEF vars, gateVars, flagVars, queueVars, workerVars, replyVars, hostVars,
        histVars, GateType, WorkerType, HostType, Read, GateInv, ReadInv,
        Observe
<1>1. CASE BeginConnect
  BY <1>1 DEF BeginConnect
<1>2. CASE HandshakeFails
  BY <1>2 DEF HandshakeFails
<1>3. CASE HandshakeCancelled
  BY <1>3 DEF HandshakeCancelled
<1>4. CASE AllocateEpoch
  BY <1>4 DEF AllocateEpoch
<1>5. CASE RefuseEpochZero
  BY <1>5 DEF RefuseEpochZero
<1>6. CASE ClearFailed
  BY <1>6 DEF ClearFailed
<1>7. CASE StoreGeneration
  BY <1>7 DEF StoreGeneration
<1>8. CASE StoreEpoch
  BY <1>8 DEF StoreEpoch
<1>9. CASE WorkerInvalidates
  <2>1. read.generation \in Nat /\ cancellation \in Nat
    BY DEF GateType, HostType, Read
  <2>2. UNCHANGED <<host, read, epoch, connectionGeneration>>
        /\ cancellation' \in {cancellation, cancellation + 1}
    BY <1>9 DEF WorkerInvalidates, BumpCancellation, gateVars, hostVars
  <2>3. host # "idle" /\ ~restamped' => ~restamped
    BY <1>9 DEF WorkerInvalidates, Observe
  <2>4. QED
    BY <2>1, <2>2, <2>3 DEF ReadInv
<1>10. CASE SubscriptionDisconnected
  <2>1. read.generation \in Nat /\ cancellation \in Nat
    BY DEF GateType, HostType, Read
  <2>2. UNCHANGED <<host, read, epoch, connectionGeneration>>
        /\ cancellation' \in {cancellation, cancellation + 1}
    BY <1>10 DEF SubscriptionDisconnected, BumpCancellation, gateVars, hostVars
  <2>3. host # "idle" /\ ~restamped' => ~restamped
    BY <1>10 DEF SubscriptionDisconnected, Observe
  <2>4. QED
    BY <2>1, <2>2, <2>3 DEF ReadInv
<1>11. CASE SubscriptionFails
  <2>1. read.generation \in Nat /\ cancellation \in Nat
    BY DEF GateType, HostType, Read
  <2>2. UNCHANGED <<host, read, epoch, connectionGeneration>>
        /\ cancellation' \in {cancellation, cancellation + 1}
    BY <1>11 DEF SubscriptionFails, BumpCancellation, gateVars, hostVars
  <2>3. host # "idle" /\ ~restamped' => ~restamped
    BY <1>11 DEF SubscriptionFails, Observe
  <2>4. QED
    BY <2>1, <2>2, <2>3 DEF ReadInv
<1>12. CASE RuntimeZeroesEpoch
  <2>1. UNCHANGED <<host, read, cancellation, connectionGeneration>>
    BY <1>12 DEF RuntimeZeroesEpoch, ZeroEpoch, hostVars
  <2>2. cancellation \in Nat /\ connectionGeneration \in Nat
        /\ connectionGeneration < cancellation
    BY <1>12 DEF RuntimeZeroesEpoch, GateType, GateInv
  <2>3. host # "idle" /\ ~restamped' => ~restamped
    BY <1>12 DEF RuntimeZeroesEpoch, Observe
  <2>4. QED
    BY <2>1, <2>2, <2>3 DEF ReadInv
<1>13. CASE RuntimeReports
  BY <1>13 DEF RuntimeReports, ReportAndClear
<1>14. CASE CheckUpdate
  BY <1>14 DEF CheckUpdate
<1>15. CASE PushUpdate
  BY <1>15 DEF PushUpdate
<1>16. CASE HostInvalidates
  BY <1>16 DEF HostInvalidates, BumpCancellation
<1>17. CASE HostZeroesEpoch
  BY <1>17 DEF HostZeroesEpoch, ZeroEpoch
<1>18. CASE HostReports
  BY <1>18 DEF HostReports, ReportAndClear
<1>19. CASE LoadGeneration
  BY <1>19 DEF LoadGeneration
<1>20. CASE LoadEpoch
  BY <1>20 DEF LoadEpoch
<1>21. CASE LoadStamp
  BY <1>21 DEF LoadStamp
<1>22. CASE ReloadCancellation
  BY <1>22 DEF ReloadCancellation
<1>23. CASE Answer
  BY <1>23 DEF Answer
<1>24. CASE RetainContextUpdates
  BY <1>24 DEF RetainContextUpdates
<1>25. CASE UNCHANGED vars
  BY <1>25
<1>26. QED
  BY <1>1, <1>2, <1>3, <1>4, <1>5, <1>6, <1>7, <1>8, <1>9, <1>10, <1>11, <1>12,
      <1>13, <1>14, <1>15, <1>16, <1>17, <1>18, <1>19, <1>20, <1>21, <1>22,
      <1>23, <1>24, <1>25
  DEF Next, Connect, RuntimeInvalidates, EnqueueUpdate, Host, CurrentEpoch

\* Epochs are fresh until the counter wraps.
LEMMA FreshInvStep ==
    GateType /\ WorkerType /\ HistoryType /\ GateInv /\ FreshInv /\ [Next]_vars
      => FreshInv'
<1> SUFFICES ASSUME GateType, WorkerType, HistoryType, GateInv, FreshInv,
                    [Next]_vars, connections' < EpochSpace
             PROVE /\ nextEpoch' = (connections' + 1) % EpochSpace
                   /\ client' <= connections'
                   /\ \A e \in closed' : e <= connections'
                   /\ rt' \in {"allocated", "cleared", "stamped"} =>
                         /\ handshake'.epoch = connections'
                         /\ handshake'.epoch \notin closed'
  BY DEF FreshInv
<1> USE ConstantsAssumption, EpochFacts
    DEF vars, gateVars, flagVars, queueVars, workerVars, replyVars, hostVars,
        histVars, GateType, WorkerType, HistoryType, GateInv, FreshInv
<1>a. Live \in {0, client} /\ Live \in Nat
  BY DEF Live, GateInv, GateType
<1>b. closed' \subseteq closed \cup ({client} \ {0})
  <2>1. CASE Observe
    BY <1>a, <2>1 DEF Observe
  <2>2. CASE UNCHANGED vars
    BY <2>2 DEF vars, histVars
  <2>3. QED
    BY <2>1, <2>2
    DEF Next, Connect, RuntimeInvalidates, EnqueueUpdate, Host, CurrentEpoch,
        BeginConnect, HandshakeFails, HandshakeCancelled, AllocateEpoch,
        RefuseEpochZero, ClearFailed, StoreGeneration, StoreEpoch,
        WorkerInvalidates, SubscriptionDisconnected, SubscriptionFails,
        RuntimeZeroesEpoch, RuntimeReports, CheckUpdate, PushUpdate,
        HostInvalidates, HostZeroesEpoch, HostReports, LoadGeneration,
        LoadEpoch, LoadStamp, ReloadCancellation, Answer, RetainContextUpdates
<1>1. CASE BeginConnect
  BY <1>a, <1>b, <1>1 DEF BeginConnect
<1>2. CASE HandshakeFails
  BY <1>a, <1>b, <1>2 DEF HandshakeFails
<1>3. CASE HandshakeCancelled
  BY <1>a, <1>b, <1>3 DEF HandshakeCancelled
<1>4. CASE AllocateEpoch
  <2>1. connections < EpochSpace /\ connections' = connections + 1
    BY <1>4 DEF AllocateEpoch, WorkerType
  <2>a. connections + 1 \in Nat /\ connections + 1 < EpochSpace
    BY <2>1 DEF WorkerType
  <2>b. nextEpoch = (connections + 1) % EpochSpace
    BY <2>1 DEF FreshInv
  <2>c. (connections + 1) % EpochSpace = connections + 1
    BY <2>a, SmallRemainder
  <2>2. nextEpoch = connections + 1
    BY <2>b, <2>c
  <2>3. closed' \subseteq closed
    BY <1>b, <1>4 DEF AllocateEpoch, GateInv
  <2>4. nextEpoch' = (connections' + 1) % EpochSpace
    BY <1>4, <2>1, <2>2 DEF AllocateEpoch
  <2>5. handshake'.epoch = connections' /\ client' = 0
    BY <1>4, <2>1, <2>2 DEF AllocateEpoch, GateInv, WorkerType
  <2>6. \A e \in closed' : e <= connections /\ e \in Nat
    BY <2>1, <2>3 DEF FreshInv, HistoryType
  <2>7. QED
    BY <2>1, <2>4, <2>5, <2>6 DEF WorkerType
<1>5. CASE RefuseEpochZero
  BY <1>a, <1>b, <1>5 DEF RefuseEpochZero
<1>6. CASE ClearFailed
  BY <1>a, <1>b, <1>6 DEF ClearFailed
<1>7. CASE StoreGeneration
  BY <1>a, <1>b, <1>7 DEF StoreGeneration
<1>8. CASE StoreEpoch
  BY <1>a, <1>b, <1>8 DEF StoreEpoch
<1>9. CASE WorkerInvalidates
  BY <1>a, <1>b, <1>9 DEF WorkerInvalidates, BumpCancellation
<1>10. CASE SubscriptionDisconnected
  BY <1>a, <1>b, <1>10 DEF SubscriptionDisconnected, BumpCancellation
<1>11. CASE SubscriptionFails
  BY <1>a, <1>b, <1>11 DEF SubscriptionFails, BumpCancellation
<1>12. CASE RuntimeZeroesEpoch
  BY <1>a, <1>b, <1>12 DEF RuntimeZeroesEpoch, ZeroEpoch
<1>13. CASE RuntimeReports
  BY <1>a, <1>b, <1>13 DEF RuntimeReports, ReportAndClear
<1>14. CASE CheckUpdate
  BY <1>a, <1>b, <1>14 DEF CheckUpdate
<1>15. CASE PushUpdate
  BY <1>a, <1>b, <1>15 DEF PushUpdate
<1>16. CASE HostInvalidates
  BY <1>a, <1>b, <1>16 DEF HostInvalidates, BumpCancellation
<1>17. CASE HostZeroesEpoch
  BY <1>a, <1>b, <1>17 DEF HostZeroesEpoch, ZeroEpoch
<1>18. CASE HostReports
  BY <1>a, <1>b, <1>18 DEF HostReports, ReportAndClear
<1>19. CASE LoadGeneration
  BY <1>a, <1>b, <1>19 DEF LoadGeneration
<1>20. CASE LoadEpoch
  BY <1>a, <1>b, <1>20 DEF LoadEpoch
<1>21. CASE LoadStamp
  BY <1>a, <1>b, <1>21 DEF LoadStamp
<1>22. CASE ReloadCancellation
  BY <1>a, <1>b, <1>22 DEF ReloadCancellation
<1>23. CASE Answer
  BY <1>a, <1>b, <1>23 DEF Answer
<1>24. CASE RetainContextUpdates
  BY <1>a, <1>b, <1>24 DEF RetainContextUpdates
<1>25. CASE UNCHANGED vars
  BY <1>a, <1>b, <1>25
<1>26. QED
  BY <1>1, <1>2, <1>3, <1>4, <1>5, <1>6, <1>7, <1>8, <1>9, <1>10, <1>11, <1>12,
      <1>13, <1>14, <1>15, <1>16, <1>17, <1>18, <1>19, <1>20, <1>21, <1>22,
      <1>23, <1>24, <1>25
  DEF Next, Connect, RuntimeInvalidates, EnqueueUpdate, Host, CurrentEpoch

-----------------------------------------------------------------------------
\* Once an invalidation is over, a closed gate is reported.
LEMMA ReportedStep ==
    GateType /\ WorkerType /\ GateInv /\ ReportedInv /\ [Next]_vars
      => ReportedInv'
<1> SUFFICES ASSUME GateType, WorkerType, GateInv, ReportedInv, [Next]_vars
             PROVE ReportedInv'
  OBVIOUS
<1> USE ConstantsAssumption, EpochFacts
    DEF vars, gateVars, flagVars, queueVars, workerVars, replyVars, hostVars,
        histVars, GateType, WorkerType, GateInv, ReportedInv
<1>1. CASE BeginConnect
  BY <1>1 DEF BeginConnect
<1>2. CASE HandshakeFails
  BY <1>2 DEF HandshakeFails
<1>3. CASE HandshakeCancelled
  BY <1>3 DEF HandshakeCancelled
<1>4. CASE AllocateEpoch
  BY <1>4 DEF AllocateEpoch
<1>5. CASE RefuseEpochZero
  BY <1>5 DEF RefuseEpochZero
<1>6. CASE ClearFailed
  BY <1>6 DEF ClearFailed
<1>7. CASE StoreGeneration
  BY <1>7 DEF StoreGeneration
<1>8. CASE StoreEpoch
  BY <1>8 DEF StoreEpoch
<1>9. CASE WorkerInvalidates
  BY <1>9 DEF WorkerInvalidates, BumpCancellation
<1>10. CASE SubscriptionDisconnected
  BY <1>10 DEF SubscriptionDisconnected, BumpCancellation
<1>11. CASE SubscriptionFails
  BY <1>11 DEF SubscriptionFails, BumpCancellation
<1>12. CASE RuntimeZeroesEpoch
  BY <1>12 DEF RuntimeZeroesEpoch, ZeroEpoch
<1>13. CASE RuntimeReports
  BY <1>13 DEF RuntimeReports, ReportAndClear
<1>14. CASE CheckUpdate
  BY <1>14 DEF CheckUpdate
<1>15. CASE PushUpdate
  BY <1>15 DEF PushUpdate
<1>16. CASE HostInvalidates
  BY <1>16 DEF HostInvalidates, BumpCancellation
<1>17. CASE HostZeroesEpoch
  BY <1>17 DEF HostZeroesEpoch, ZeroEpoch
<1>18. CASE HostReports
  BY <1>18 DEF HostReports, ReportAndClear
<1>19. CASE LoadGeneration
  BY <1>19 DEF LoadGeneration
<1>20. CASE LoadEpoch
  BY <1>20 DEF LoadEpoch
<1>21. CASE LoadStamp
  BY <1>21 DEF LoadStamp
<1>22. CASE ReloadCancellation
  BY <1>22 DEF ReloadCancellation
<1>23. CASE Answer
  BY <1>23 DEF Answer
<1>24. CASE RetainContextUpdates
  BY <1>24 DEF RetainContextUpdates
<1>25. CASE UNCHANGED vars
  BY <1>25
<1>26. QED
  BY <1>1, <1>2, <1>3, <1>4, <1>5, <1>6, <1>7, <1>8, <1>9, <1>10, <1>11, <1>12,
      <1>13, <1>14, <1>15, <1>16, <1>17, <1>18, <1>19, <1>20, <1>21, <1>22,
      <1>23, <1>24, <1>25
  DEF Next, Connect, RuntimeInvalidates, EnqueueUpdate, Host, CurrentEpoch

-----------------------------------------------------------------------------
\* Everything the theorems rest on, in one inductive invariant.
IInv == TypeOK /\ GateInv /\ ReadInv /\ FreshInv /\ ReportedInv

LEMMA InitIInv == Init => IInv
<1> SUFFICES ASSUME Init PROVE IInv
  OBVIOUS
<1>1. TypeOK
  <2>1. GateType /\ WorkerType
    BY EpochFacts DEF Init, GateType, WorkerType, RuntimePlaces
  <2>2. QueueType
    <3>1. IsFiniteSet({}) /\ Cardinality({}) = 0
      BY FS_EmptySet
    <3>2. updates = {} /\ updatesLock = FALSE /\ arrived = 0
          /\ pending = NoReply /\ rt = "idle"
      BY DEF Init
    <3>3. IsFiniteSet(updates) /\ Cardinality(updates) <= QueueLimit
      BY <3>1, <3>2, ConstantsAssumption
    <3>4. updatesLock \in BOOLEAN /\ arrived \in Nat
          /\ pending \in Reply \cup {NoReply} /\ rt # "push"
          /\ updates \subseteq Reply
      BY <3>2
    <3>5. QED
      BY <3>3, <3>4 DEF QueueType
  <2>3. HostType /\ HistoryType
    BY EpochFacts DEF Init, HostType, HistoryType, Read, HostPlaces
  <2>4. QED
    BY <2>1, <2>2, <2>3 DEF TypeOK
<1>2. GateInv /\ ReadInv /\ ReportedInv
  BY DEF Init, GateInv, ReadInv, ReportedInv
<1>3. FreshInv
  BY ConstantsAssumption DEF Init, FreshInv
<1>4. QED
  BY <1>1, <1>2, <1>3 DEF IInv

LEMMA NextIInv == IInv /\ [Next]_vars => IInv'
<1> SUFFICES ASSUME IInv, [Next]_vars PROVE IInv'
  OBVIOUS
<1>1. TypeOK'
  BY GateTypeStep, WorkerTypeStep, QueueTypeStep, HostTypeStep, HistoryTypeStep
  DEF IInv, TypeOK
<1>2. GateInv' /\ ReadInv' /\ FreshInv' /\ ReportedInv'
  BY GateInvStep, ReadInvStep, FreshInvStep, ReportedStep DEF IInv, TypeOK
<1>3. QED
  BY <1>1, <1>2 DEF IInv

LEMMA Invariance == Spec => []IInv
BY InitIInv, NextIInv, PTL DEF Spec

\* Every variable keeps its type, and the queue of replies its bound
\* (enqueue_update).
THEOREM TypeCorrect == Spec => []TypeOK
<1>1. IInv => TypeOK
  BY DEF IInv
<1>2. QED
  BY <1>1, Invariance, PTL

\* An open gate belongs to the connection the worker holds, whatever the host
\* thread is in the middle of (PushTarget::current_epoch and invalidate,
\* connect_client).
THEOREM OpenGateOwned == Spec => []OpenGateIsOwned
<1>1. IInv => OpenGateIsOwned
  <2> SUFFICES ASSUME IInv, Live # 0
               PROVE client = Live /\ rt \in {"idle", "push", "overflow"}
    BY DEF OpenGateIsOwned
  <2>1. epoch # 0 /\ connectionGeneration = cancellation /\ Live = epoch
    BY DEF Live
  <2>2. QED
    BY <2>1 DEF IInv, TypeOK, GateType, WorkerType, RuntimePlaces, GateInv
<1>2. QED
  BY <1>1, Invariance, PTL

\* The host's lock-free read is exact unless a handshake stored its generation
\* during the read (PushTarget::current_epoch).
THEOREM ReadExact == Spec => ReadIsExact
<1>1. IInv /\ [Next]_vars =>
        [host = "recheck" /\ host' = "answer" /\ read'.epoch # 0 /\ ~restamped
           => Live = read'.epoch]_vars
  <2> SUFFICES ASSUME IInv, [Next]_vars, host = "recheck", host' = "answer",
                      read'.epoch # 0, ~restamped
               PROVE Live = read'.epoch
    OBVIOUS
  <2>1. ReloadCancellation
    <3>1. \/ ReloadCancellation
          \/ host' \in {host, "idle", "zero", "report", "epoch", "stamp"}
      BY DEF Next, Connect, RuntimeInvalidates, EnqueueUpdate, Host,
             CurrentEpoch, vars, hostVars, BeginConnect, HandshakeFails,
             HandshakeCancelled, AllocateEpoch, RefuseEpochZero, ClearFailed,
             StoreGeneration, StoreEpoch, WorkerInvalidates,
             SubscriptionDisconnected, SubscriptionFails, RuntimeZeroesEpoch,
             RuntimeReports, CheckUpdate, PushUpdate, HostInvalidates,
             HostZeroesEpoch, HostReports, LoadGeneration, LoadEpoch,
             LoadStamp, Answer, RetainContextUpdates
    <3>2. QED
      BY <3>1
  <2>2. read \in Read /\ cancellation = read.generation /\ read' = read
    BY <2>1 DEF ReloadCancellation, IInv, TypeOK, HostType, Read
  <2>3. connectionGeneration = read.generation /\ read.epoch = epoch
    BY <2>2 DEF IInv, ReadInv
  <2>4. QED
    BY <2>2, <2>3 DEF Live
<1>2. QED
  BY <1>1, Invariance, PTL DEF Spec, ReadIsExact

\* A closed gate is reported (RpcWorker::connection_failed).
THEOREM ClosureReported == Spec => []ClosureIsReported
<1>1. IInv => ClosureIsReported
  BY DEF IInv, ReportedInv, ClosureIsReported, ConnectionFailed, Live
<1>2. QED
  BY <1>1, Invariance, PTL

\* The gate opens only for a handshake nothing cancelled (connect_client).
THEOREM Uncancelled == Spec => OpensUncancelled
<1>1. IInv /\ [Next]_vars =>
        [Live = 0 /\ Live' # 0 => cancellation' = handshake.generation]_vars
  BY LiveStep DEF IInv, TypeOK
<1>2. QED
  BY <1>1, Invariance, PTL DEF Spec, OpensUncancelled

\* A closed epoch stays closed until the counter wraps, after 2^64 handshakes
\* (NEXT_CONNECTION_EPOCH).
THEOREM NeverReopens == Spec => NeverReopened
<1>1. IInv /\ [Next]_vars =>
        [Live' # 0 /\ Live' # Live /\ connections < EpochSpace
           => Live' \notin closed]_vars
  <2> SUFFICES ASSUME IInv, [Next]_vars, Live' # 0, Live' # Live,
                      connections < EpochSpace
               PROVE Live' \notin closed
    OBVIOUS
  <2>1. StoreEpoch /\ Live' = handshake.epoch
    BY LiveStep DEF IInv, TypeOK
  <2>2. QED
    BY <2>1 DEF IInv, FreshInv, StoreEpoch
<1>2. QED
  BY <1>1, Invariance, PTL DEF Spec, NeverReopened

=============================================================================
