------------------------ MODULE PersistWorkerProofs ------------------------
(***************************************************************************)
(* Proofs about PersistWorker, for every max_persistence_gap, every        *)
(* max_revisions above it, any number of commits and any set of faults.    *)
(***************************************************************************)
EXTENDS PersistWorker, SequenceTheorems, TLAPS

\* The interval and the threshold of PersistWorker::new split the gap; a
\* persist cycle starts only when at least one permit is taken.
LEMMA ThresholdBelowGap ==
  /\ PersistPermitsThreshold \in Nat
  /\ PersistPermitsThreshold < MaxPersistenceGap
BY GapAssumption DEF PersistPermitsThreshold, PersistInterval

USE GapAssumption, RevisionsAssumption, FaultsAssumption

\* Type correctness of the initial state.  For the steps the invariant is needed
\* where a revision is written: there is one in the guard.
LEMMA InitType == Init => TypeOK
<1> SUFFICES ASSUME Init PROVE TypeOK
  BY Zenon
<1>1. shutdown \in BOOLEAN /\ committerParked \in BOOLEAN /\ loopParked \in BOOLEAN /\ handleTaken \in BOOLEAN
  BY Zenon DEF Init
<1>2. guard \in GuardType
  BY SMTT(20) DEF Init, GuardType, EmptyGuard, NoRevision
<1>3. empty \subseteq Nat
  BY HistoriesAssumption, Zenon DEF Init
<1>4. roots \subseteq Nat
  BY DEF Init
<1>. QED
  BY <1>1, <1>2, <1>3, <1>4 DEF Init, TypeOK, NoRevision, LoopPoints, ClientPoints

\* Every step keeps the types: no operation of push(), pop() or the guard takes
\* a counter out of range.
LEMMA NextType == InductiveInv /\ [Next]_vars => TypeOK'
<1> SUFFICES ASSUME InductiveInv, [Next]_vars PROVE TypeOK'
  BY Zenon
<1>0. TypeOK
  BY Zenon DEF InductiveInv
<1> USE DEF TypeOK, GuardType, NoRevision, EmptyGuard, LoopPoints, ClientPoints,
            channel, parked, shared, bg, queue, disk
<1>1. CASE CommitRefused
  BY <1>0, <1>1 DEF CommitRefused
<1>2. CASE CommitStart
  BY <1>0, <1>2 DEF CommitStart
<1>3. CASE ReapOldest
  <2>1. /\ shutdown' \in BOOLEAN /\ committerParked' \in BOOLEAN
        /\ loopParked' \in BOOLEAN /\ handleTaken' \in BOOLEAN
    BY <1>0, <1>3, Zenon DEF ReapOldest
  <2>2. Append(pendingReaps, front) \in Seq(Nat)
    BY <1>0, <1>3, AppendProperties, Zenon DEF ReapOldest
  <2>3. pendingReaps' \in Seq(Nat)
    BY <1>0, <1>3, <2>2, Zenon DEF ReapOldest
  <2>4. front' \in Nat
    BY <1>0, <1>3 DEF ReapOldest
  <2>5. client' \in ClientPoints
    BY <1>0, <1>3, Zenon DEF ReapOldest
  <2>6. UNCHANGED <<permits, rootStore, empty, latestCommitted, persistOnShutdown, error, loop,
                    loopResult, guard, outcome, back, held, submitted, disk>>
    BY <1>3, Zenon DEF ReapOldest
  <2>. QED
    BY <1>0, <2>1, <2>3, <2>4, <2>5, <2>6
<1>4. CASE ReapDone
  BY <1>0, <1>4 DEF ReapDone
<1>5. CASE PushParks
  BY <1>0, <1>5 DEF PushParks
<1>6. CASE CommitterWakes
  BY <1>0, <1>6 DEF CommitterWakes
<1>7. CASE PushOk
  BY <1>0, <1>7 DEF PushOk
<1>8. CASE PushShutdown
  BY <1>0, <1>8 DEF PushShutdown
<1>9. CASE Publish
  BY <1>0, <1>9 DEF Publish
<1>10. CASE JoinPanics
  BY <1>0, <1>10 DEF JoinPanics
<1>11. CASE JoinError
  BY <1>0, <1>11 DEF JoinError
<1>12. CASE JoinSilent
  BY <1>0, <1>12 DEF JoinSilent
<1>13. CASE CloseSet
  BY <1>0, <1>13 DEF CloseSet
<1>14. CASE CloseSignal
  <2>1. /\ shutdown' \in BOOLEAN /\ committerParked' \in BOOLEAN
        /\ loopParked' \in BOOLEAN /\ handleTaken' \in BOOLEAN
    BY <1>0, <1>14, Zenon DEF CloseSignal
  <2>. QED
    BY <1>0, <1>14, <2>1 DEF CloseSignal
<1>15. CASE CloseJoin
  BY <1>0, <1>15 DEF CloseJoin
<1>16. CASE PopShutdown
  BY <1>0, <1>16 DEF PopShutdown
<1>17. CASE PopPersist
  BY <1>0, <1>17 DEF PopPersist
<1>18. CASE PopReaps
  <2>1. <<>> \in Seq(Nat)
    BY <1>0, <1>18, EmptySeq, Zenon DEF PopReaps
  <2>2. guard' \in GuardType
    BY <1>0, <1>18, <2>1 DEF PopReaps
  <2>. QED
    BY <1>0, <1>18, <2>1, <2>2 DEF PopReaps
<1>19. CASE PopParks
  BY <1>0, <1>19 DEF PopParks
<1>20. CASE LoopWakes
  BY <1>0, <1>20 DEF LoopWakes
<1>21. CASE ReapNext
  <2>1. Head(guard.reaps) \in Nat /\ Tail(guard.reaps) \in Seq(Nat)
    BY <1>0, <1>21, HeadTailProperties, Zenon DEF ReapNext
  <2>2. guard' \in GuardType
    BY <1>0, <1>21, <2>1, Zenon DEF ReapNext
  <2>3. freed' \subseteq Nat
    BY <1>0, <1>21, <2>1, Zenon DEF ReapNext
  <2>4. UNCHANGED <<channel, parked, shared, handleTaken, loop, loopResult, client, outcome, queue,
                    held, submitted, persisted, roots>>
    BY <1>21, Zenon DEF ReapNext
  <2>. QED
    BY <1>0, <2>2, <2>3, <2>4
<1>22. CASE ReapFails
  <2>1. Head(guard.reaps) \in Nat /\ <<>> \in Seq(Nat)
    BY <1>0, <1>22, HeadTailProperties, EmptySeq, Zenon DEF ReapFails
  <2>2. guard' \in GuardType
    BY <1>0, <1>22, <2>1, Zenon DEF ReapFails
  <2>3. freed' \subseteq Nat
    BY <1>0, <1>22, <2>1, Zenon DEF ReapFails
  <2>4. UNCHANGED <<channel, parked, shared, handleTaken, client, outcome, queue, held, submitted,
                    persisted, roots>> /\ loop' = "drop" /\ loopResult' = "FileIo"
    BY <1>22, Zenon DEF ReapFails
  <2>. QED
    BY <1>0, <2>2, <2>3, <2>4
<1>23. CASE ReapsDone
  BY <1>0, <1>23 DEF ReapsDone
<1>24. CASE Persist
  <2>1. guard.revision \in Nat
    BY <1>0, <1>24 DEF Persist, InductiveInv, GuardInv, ShutdownInv
  <2>2. guard' \in GuardType
    BY <1>0, <1>24, Zenon DEF Persist
  <2>. QED
    BY <1>0, <1>24, <2>1, <2>2, SMTT(20) DEF Persist
<1>25. CASE PersistFails
  <2>1. guard' \in GuardType
    BY <1>0, <1>25, Zenon DEF PersistFails
  <2>. QED
    BY <1>0, <1>25, <2>1 DEF PersistFails
<1>26. CASE SaveRoot
  <2>1. guard.revision \in Nat
    BY <1>0, <1>26, Zenon DEF SaveRoot, InductiveInv, GuardInv, ShutdownInv
  <2>2. guard' \in GuardType
    BY <1>0, <1>26, Zenon DEF SaveRoot
  <2>3. roots' \subseteq Nat
    BY <1>0, <1>26, <2>1, Zenon DEF SaveRoot
  <2>. QED
    BY <1>0, <1>26, <2>1, <2>2, <2>3, SMTT(20) DEF SaveRoot
<1>27. CASE SaveRootFails
  <2>1. guard' \in GuardType
    BY <1>0, <1>27, Zenon DEF SaveRootFails
  <2>. QED
    BY <1>0, <1>27, <2>1 DEF SaveRootFails
<1>28. CASE Panics
  <2>1. <<>> \in Seq(Nat)
    BY <1>0, <1>28, EmptySeq, Zenon DEF Panics
  <2>2. guard' \in GuardType
    BY <1>0, <1>28, <2>1, Zenon DEF Panics
  <2>. QED
    BY <1>0, <1>28, <2>1, <2>2 DEF Panics
<1>29. CASE DropGuard
  BY <1>0, <1>29, SMTT(20) DEF DropGuard
<1>30. CASE RecordError
  <2>1. error' \in {"none", "FileIo", "RootStore"}
    BY <1>0, <1>30, Zenon DEF RecordError, InductiveInv, LoopInv
  <2>. QED
    BY <1>0, <1>30, <2>1 DEF RecordError
<1>31. CASE FinalCheck
  <2>1. <<>> \in Seq(Nat)
    BY <1>0, <1>31, EmptySeq, Zenon DEF FinalCheck
  <2>2. [release |-> 0, reaps |-> <<>>, revision |-> persistOnShutdown] \in GuardType
    BY <1>0, <1>31, <2>1 DEF FinalCheck
  <2>3. guard' \in GuardType
    BY <1>0, <1>31, <2>2, Zenon DEF FinalCheck
  <2>. QED
    BY <1>0, <1>31, <2>1, <2>2, <2>3 DEF FinalCheck
<1>32. CASE ExitLoop
  <2>1. /\ shutdown' \in BOOLEAN /\ committerParked' \in BOOLEAN
        /\ loopParked' \in BOOLEAN /\ handleTaken' \in BOOLEAN
    BY <1>0, <1>32, Zenon DEF ExitLoop
  <2>. QED
    BY <1>0, <1>32, <2>1 DEF ExitLoop
<1>33. CASE Readers
  <2>1. PICK r \in front..back : Hold(r) \/ Release(r)
    BY <1>33, Zenon DEF Readers
  <2>2. r \in Nat
    BY <1>0
  <2>3. CASE Hold(r)
    BY <1>0, <2>2, <2>3 DEF Hold
  <2>4. CASE Release(r)
    BY <1>0, <2>2, <2>4 DEF Release
  <2>. QED
    BY <2>1, <2>3, <2>4, Zenon
<1>34. CASE UNCHANGED vars
  BY <1>0, <1>34 DEF vars
<1>. QED
  BY <1>1, <1>2, <1>3, <1>4, <1>5, <1>6, <1>7, <1>8, <1>9, <1>10, <1>11, <1>12, <1>13,
     <1>14, <1>15, <1>16, <1>17, <1>18, <1>19, <1>20, <1>21, <1>22, <1>23, <1>24, <1>25,
     <1>26, <1>27, <1>28, <1>29, <1>30, <1>31, <1>32, <1>33, <1>34, ZenonT(30)
     DEF Next, Commit, Close, PersistLoop, Terminated

\* The invariant holds initially and every step keeps it.
LEMMA InitInv == Init => InductiveInv
BY InitType DEF Init, InductiveInv, QueueInv, LoopInv, ShutdownInv, PermitInv, GuardInv, ReapInv, Outstanding, EmptyGuard, NoRevision

\* While persistence works, at most max_persistence_gap revisions are outstanding.
LEMMA GapFromInv == InductiveInv => GapBounded
BY DEF InductiveInv, TypeOK, GuardType, LoopInv, PermitInv, GapBounded, LoopPoints, Outstanding

\* Every step of the client and of the background thread keeps the invariant.
LEMMA NextInv == InductiveInv /\ [Next]_vars => InductiveInv'
<1> SUFFICES ASSUME InductiveInv, [Next]_vars PROVE InductiveInv'
  BY Zenon
<1>0. TypeOK'
  BY NextType, Zenon
<1> USE DEF InductiveInv, TypeOK, GuardType, LoopPoints, ClientPoints, NoRevision, EmptyGuard,
            Outstanding, channel, parked, shared, bg, queue, disk
<1>1. CASE CommitRefused
  BY <1>0, <1>1 DEF CommitRefused,
     QueueInv, LoopInv, ShutdownInv, PermitInv, GuardInv, ReapInv
<1>2. CASE CommitStart
  BY <1>0, <1>2 DEF CommitStart,
     QueueInv, LoopInv, ShutdownInv, PermitInv, GuardInv, ReapInv
<1>3. CASE ReapOldest
  <2>1. QueueInv'
    BY <1>3 DEF ReapOldest, QueueLen, Referenced, TypeOK, QueueInv, ShutdownInv
  <2>2. LoopInv'
    BY <1>3, Zenon DEF ReapOldest, QueueLen, Referenced, TypeOK, LoopInv
  <2>3. ShutdownInv'
    BY <1>3, Zenon DEF ReapOldest, QueueLen, Referenced, TypeOK, ShutdownInv, LoopInv
  <2>4. PermitInv'
    BY <1>3, Zenon DEF ReapOldest, QueueLen, Referenced, TypeOK, QueueInv, LoopInv, ShutdownInv, PermitInv, GuardInv
  <2>5. GuardInv'
    BY <1>3, Zenon DEF ReapOldest, QueueLen, Referenced, TypeOK, QueueInv, LoopInv, ShutdownInv, PermitInv, GuardInv
  <2>6. ReapInv'
    <3>1. ~rootStore /\ ~shutdown /\ loopResult = "ok" => front <= persisted
      <4> SUFFICES ASSUME ~rootStore, ~shutdown, loopResult = "ok" PROVE front <= persisted
        BY Zenon
      <4>1. submitted = back
        BY <1>3, Zenon DEF ReapOldest, QueueInv, ShutdownInv
      <4>2. Outstanding <= MaxPersistenceGap
        BY GapFromInv, Zenon DEF GapBounded
      <4>. QED
        BY <1>3, <4>1, <4>2 DEF ReapOldest, QueueLen
    <3>2. \A i \in DOMAIN pendingReaps' :
            /\ pendingReaps'[i] < front'
            /\ loopResult' = "ok" => pendingReaps'[i] <= persisted'
      <4>1. CASE UNCHANGED pendingReaps
        BY <1>3, <4>1 DEF ReapOldest, ReapInv
      <4>2. CASE ~rootStore /\ ~shutdown /\ pendingReaps' = Append(pendingReaps, front)
        <5>1. \A i \in DOMAIN pendingReaps' :
                pendingReaps'[i] = front \/ (i \in DOMAIN pendingReaps /\ pendingReaps'[i] = pendingReaps[i])
          BY <4>2, AppendProperties, LenProperties
        <5>. QED
          BY <1>3, <3>1, <4>2, <5>1, SMTT(20) DEF ReapOldest, ReapInv
      <4>. QED
        BY <1>3, <4>1, <4>2, Zenon DEF ReapOldest
    <3>3. /\ front' = front + 1 /\ UNCHANGED <<guard, latestCommitted, freed, persisted>>
          /\ guard.revision # front /\ latestCommitted # front
      BY <1>3, Zenon DEF ReapOldest, Referenced
    <3>. QED
      BY <3>2, <3>3 DEF ReapInv
  <2>. QED
    BY <1>0, <2>1, <2>2, <2>3, <2>4, <2>5, <2>6, Zenon
<1>4. CASE ReapDone
  BY <1>0, <1>4, SMTT(20) DEF ReapDone, QueueLen, Referenced,
     QueueInv, LoopInv, ShutdownInv, PermitInv, GuardInv, ReapInv
<1>5. CASE PushParks
  BY <1>0, <1>5 DEF PushParks,
     QueueInv, LoopInv, ShutdownInv, PermitInv, GuardInv, ReapInv
<1>6. CASE CommitterWakes
  BY <1>0, <1>6 DEF CommitterWakes,
     QueueInv, LoopInv, ShutdownInv, PermitInv, GuardInv, ReapInv
<1>7. CASE PushOk
  <2>1. QueueInv'
    BY <1>7, ThresholdBelowGap, Zenon DEF PushOk, TypeOK, QueueInv, ShutdownInv
  <2>2. LoopInv'
    BY <1>7, ThresholdBelowGap, Zenon DEF PushOk, TypeOK, LoopInv
  <2>3. ShutdownInv'
    BY <1>7, ThresholdBelowGap, Zenon DEF PushOk, TypeOK, ShutdownInv, LoopInv
  <2>4. PermitInv'
    BY <1>7, ThresholdBelowGap DEF PushOk, TypeOK, QueueInv, LoopInv, ShutdownInv, PermitInv, GuardInv
  <2>5. GuardInv'
    BY <1>7, ThresholdBelowGap DEF PushOk, TypeOK, QueueInv, LoopInv, ShutdownInv, PermitInv, GuardInv
  <2>6. ReapInv'
    BY <1>7, ThresholdBelowGap DEF PushOk, TypeOK, QueueInv, GuardInv, ReapInv
  <2>. QED
    BY <1>0, <2>1, <2>2, <2>3, <2>4, <2>5, <2>6, Zenon
<1>8. CASE PushShutdown
  BY <1>0, <1>8, Zenon DEF PushShutdown,
     QueueInv, LoopInv, ShutdownInv, PermitInv, GuardInv, ReapInv
<1>9. CASE Publish
  BY <1>0, <1>9 DEF Publish,
     QueueInv, LoopInv, ShutdownInv, PermitInv, GuardInv, ReapInv
<1>10. CASE JoinPanics
  BY <1>0, <1>10, Zenon DEF JoinPanics,
     QueueInv, LoopInv, ShutdownInv, PermitInv, GuardInv, ReapInv
<1>11. CASE JoinError
  BY <1>0, <1>11, Zenon DEF JoinError,
     QueueInv, LoopInv, ShutdownInv, PermitInv, GuardInv, ReapInv
<1>12. CASE JoinSilent
  BY <1>0, <1>12, Zenon DEF JoinSilent,
     QueueInv, LoopInv, ShutdownInv, PermitInv, GuardInv, ReapInv
<1>13. CASE CloseSet
  BY <1>0, <1>13, SMTT(20) DEF CloseSet,
     QueueInv, LoopInv, ShutdownInv, PermitInv, GuardInv, ReapInv
<1>14. CASE CloseSignal
  BY <1>0, <1>14 DEF CloseSignal,
     QueueInv, LoopInv, ShutdownInv, PermitInv, GuardInv, ReapInv
<1>15. CASE CloseJoin
  BY <1>0, <1>15, ZenonT(30) DEF CloseJoin,
     QueueInv, LoopInv, ShutdownInv, PermitInv, GuardInv, ReapInv
<1>16. CASE PopShutdown
  BY <1>0, <1>16, Zenon DEF PopShutdown,
     QueueInv, LoopInv, ShutdownInv, PermitInv, GuardInv, ReapInv
<1>17. CASE PopPersist
  <2>1. QueueInv'
    BY <1>17, ThresholdBelowGap, Zenon DEF PopPersist, ShouldPersist, TypeOK, QueueInv, ShutdownInv
  <2>2. LoopInv'
    BY <1>17, ThresholdBelowGap, Zenon DEF PopPersist, ShouldPersist, TypeOK, LoopInv
  <2>3. ShutdownInv'
    BY <1>17, ThresholdBelowGap, Zenon DEF PopPersist, ShouldPersist, TypeOK, ShutdownInv, LoopInv
  <2>4. PermitInv'
    BY <1>17, ThresholdBelowGap, Zenon DEF PopPersist, ShouldPersist, TypeOK, QueueInv, LoopInv, ShutdownInv, PermitInv, GuardInv
  <2>5. GuardInv'
    BY <1>17, ThresholdBelowGap DEF PopPersist, ShouldPersist, TypeOK, QueueInv, LoopInv, ShutdownInv, PermitInv, GuardInv
  <2>6. ReapInv'
    BY <1>17, SMTT(20) DEF PopPersist, LoopInv, ReapInv
  <2>. QED
    BY <1>0, <2>1, <2>2, <2>3, <2>4, <2>5, <2>6, Zenon
<1>18. CASE PopReaps
  <2>1. QueueInv'
    BY <1>18, Zenon DEF PopReaps, ShouldPersist, TypeOK, QueueInv, ShutdownInv
  <2>2. LoopInv'
    BY <1>18, Zenon DEF PopReaps, ShouldPersist, TypeOK, LoopInv
  <2>3. ShutdownInv'
    BY <1>18, Zenon DEF PopReaps, ShouldPersist, TypeOK, ShutdownInv, LoopInv
  <2>4. PermitInv'
    BY <1>18, Zenon DEF PopReaps, ShouldPersist, TypeOK, QueueInv, LoopInv, ShutdownInv, PermitInv, GuardInv
  <2>5. GuardInv'
    BY <1>18, Zenon DEF PopReaps, ShouldPersist, TypeOK, QueueInv, LoopInv, ShutdownInv, PermitInv, GuardInv
  <2>6. ReapInv'
    BY <1>18 DEF PopReaps, LoopInv, ReapInv
  <2>. QED
    BY <1>0, <2>1, <2>2, <2>3, <2>4, <2>5, <2>6, Zenon
<1>19. CASE PopParks
  BY <1>0, <1>19, ZenonT(30) DEF PopParks, ShouldPersist,
     QueueInv, LoopInv, ShutdownInv, PermitInv, GuardInv, ReapInv
<1>20. CASE LoopWakes
  BY <1>0, <1>20, SMTT(20) DEF LoopWakes,
     QueueInv, LoopInv, ShutdownInv, PermitInv, GuardInv, ReapInv
<1>21. CASE ReapNext
  <2>1. QueueInv'
    BY <1>21, Zenon DEF ReapNext, TypeOK, QueueInv, ShutdownInv
  <2>2. LoopInv'
    BY <1>21, Zenon DEF ReapNext, TypeOK, LoopInv
  <2>3. ShutdownInv'
    BY <1>21, Zenon DEF ReapNext, TypeOK, ShutdownInv, LoopInv
  <2>4. PermitInv'
    BY <1>21, Zenon DEF ReapNext, TypeOK, QueueInv, LoopInv, ShutdownInv, PermitInv, GuardInv
  <2>5. GuardInv'
    BY <1>21, Zenon DEF ReapNext, TypeOK, QueueInv, LoopInv, ShutdownInv, PermitInv, GuardInv
  <2>6. ReapInv'
    <3>1. /\ Head(guard.reaps) = guard.reaps[1] /\ 1 \in DOMAIN guard.reaps
          /\ \A i \in DOMAIN Tail(guard.reaps) :
               i + 1 \in DOMAIN guard.reaps /\ Tail(guard.reaps)[i] = guard.reaps[i + 1]
      BY <1>21, HeadTailProperties, LenProperties, EmptySeq, SMTT(20) DEF ReapNext
    <3>2. /\ UNCHANGED <<front, persisted, pendingReaps, loopResult, latestCommitted>>
          /\ guard'.reaps = Tail(guard.reaps) /\ guard'.revision = guard.revision
          /\ freed' = freed \cup {guard.reaps[1]}
      BY <1>21, <3>1, Zenon DEF ReapNext
    <3>. QED
      BY <3>1, <3>2, ZenonT(30) DEF ReapInv
  <2>. QED
    BY <1>0, <2>1, <2>2, <2>3, <2>4, <2>5, <2>6, Zenon
<1>22. CASE ReapFails
  <2>1. QueueInv'
    BY <1>22, Zenon DEF ReapFails, TypeOK, QueueInv, ShutdownInv
  <2>2. LoopInv'
    BY <1>22, Zenon DEF ReapFails, TypeOK, LoopInv
  <2>3. ShutdownInv'
    BY <1>22, Zenon DEF ReapFails, TypeOK, ShutdownInv, LoopInv
  <2>4. PermitInv'
    <3>1. /\ UNCHANGED <<permits, submitted, persisted>>
          /\ loop' \in {"drop"} /\ loopResult' # "ok"
      BY <1>22, Zenon DEF ReapFails
    <3>2. permits \in 0..MaxPersistenceGap /\ Outstanding \in 0..(MaxPersistenceGap - permits)
      <4>1. /\ Outstanding \in Int /\ permits \in 0..MaxPersistenceGap
            /\ guard.release \in 0..MaxPersistenceGap /\ loopResult = "ok"
        BY <1>22 DEF ReapFails, LoopInv
      <4> HIDE DEF TypeOK, Outstanding
      <4>. QED
        BY <1>22, <4>1 DEF ReapFails, PermitInv
    <3> HIDE DEF InductiveInv, TypeOK
    <3>. QED
      BY <3>1, <3>2 DEF PermitInv
  <2>5. GuardInv'
    BY <1>22, Zenon DEF ReapFails, TypeOK, QueueInv, LoopInv, ShutdownInv, PermitInv, GuardInv
  <2>6. ReapInv'
    <3>1. Head(guard.reaps) = guard.reaps[1] /\ 1 \in DOMAIN guard.reaps
      BY <1>22, LenProperties, EmptySeq DEF ReapFails
    <3>2. /\ UNCHANGED <<front, persisted, pendingReaps, latestCommitted>>
          /\ loopResult' # "ok" /\ guard'.reaps = <<>> /\ guard'.revision = NoRevision
          /\ freed' \subseteq freed \cup {guard.reaps[1]}
      BY <1>22, <3>1, Zenon DEF ReapFails
    <3>. QED
      BY <3>1, <3>2 DEF ReapInv
  <2>. QED
    BY <1>0, <2>1, <2>2, <2>3, <2>4, <2>5, <2>6, Zenon
<1>23. CASE ReapsDone
  <2>1. QueueInv'
    BY <1>23, Zenon DEF ReapsDone, TypeOK, QueueInv, ShutdownInv
  <2>2. LoopInv'
    BY <1>23, Zenon DEF ReapsDone, TypeOK, LoopInv
  <2>3. ShutdownInv'
    BY <1>23, Zenon DEF ReapsDone, TypeOK, ShutdownInv, LoopInv
  <2>4. PermitInv'
    <3>1. /\ loop = "reap" /\ loopResult = "ok"
          /\ UNCHANGED <<permits, submitted, persisted, guard, loopResult>>
      BY <1>23, Zenon DEF ReapsDone, LoopInv
    <3>2. loop' = "persist" \/ (loop' = "drop" /\ guard.revision = NoRevision)
      BY <1>23, Zenon DEF ReapsDone
    <3>3. guard.revision = NoRevision => guard.release = 0
      BY <3>1 DEF GuardInv
    <3>4. Outstanding = MaxPersistenceGap - permits /\ Outstanding >= 0
      BY <3>1, Zenon DEF PermitInv
    <3>5. permits \in 0..MaxPersistenceGap /\ guard.release \in 0..MaxPersistenceGap
      BY Zenon
    <3>6. Outstanding' = Outstanding
      BY <3>1, Zenon
    <3> HIDE DEF InductiveInv, TypeOK, Outstanding
    <3>. QED
      BY <3>1, <3>2, <3>3, <3>4, <3>5, <3>6 DEF PermitInv
  <2>5. GuardInv'
    BY <1>23 DEF ReapsDone, TypeOK, QueueInv, LoopInv, ShutdownInv, PermitInv, GuardInv
  <2>6. ReapInv'
    BY <1>23, ZenonT(30) DEF ReapsDone, TypeOK, QueueInv, GuardInv, ReapInv
  <2>. QED
    BY <1>0, <2>1, <2>2, <2>3, <2>4, <2>5, <2>6, Zenon
<1>24. CASE Persist
  <2>1. QueueInv'
    BY <1>24, Zenon DEF Persist, TypeOK, QueueInv, ShutdownInv
  <2>2. LoopInv'
    BY <1>24, Zenon DEF Persist, TypeOK, LoopInv
  <2>3. ShutdownInv'
    BY <1>24, Zenon DEF Persist, TypeOK, ShutdownInv, LoopInv
  <2>4. PermitInv'
    <3>1. UNCHANGED <<permits, submitted, loopResult>> /\ loopResult = "ok"
          /\ guard'.release = guard.release /\ persisted' = guard.revision
      BY <1>24, Zenon DEF Persist, LoopInv
    <3>2. CASE loop = "persist" /\ loop' \in {"rootStore", "drop"}
      <4>1. /\ guard.revision = persisted + guard.release
            /\ guard.release \in 0..(MaxPersistenceGap - permits)
            /\ Outstanding = MaxPersistenceGap - permits
        BY <3>2 DEF GuardInv, PermitInv
      <4>2. Outstanding' = MaxPersistenceGap - permits' - guard'.release /\ Outstanding' \in Nat
        <5>1. permits \in Int /\ submitted \in Int /\ persisted \in Int
          OBVIOUS
        <5> HIDE DEF InductiveInv, TypeOK
        <5>. QED
          BY <3>1, <4>1, <5>1
      <4>3. permits' \in 0..MaxPersistenceGap /\ guard'.release \in 0..MaxPersistenceGap
        BY <1>0, Zenon
      <4> HIDE DEF InductiveInv, TypeOK, Outstanding
      <4>. QED
        BY <3>1, <3>2, <4>2, <4>3 DEF PermitInv
    <3>3. CASE loop = "finalPersist" /\ loop' \in {"finalRootStore", "exit"}
      <4>1. guard.revision = submitted
        BY <3>3, Zenon DEF GuardInv, QueueInv, ShutdownInv
      <4>. QED
        BY <3>1, <3>3, <4>1 DEF PermitInv
    <3>. QED
      BY <1>24, <3>2, <3>3, Zenon DEF Persist
  <2>5. GuardInv'
    BY <1>24, Zenon DEF Persist, TypeOK, QueueInv, LoopInv, ShutdownInv, PermitInv, GuardInv
  <2>6. ReapInv'
    <3>1. persisted' >= persisted
      BY <1>24 DEF Persist, QueueInv, ShutdownInv, GuardInv
    <3>2. /\ UNCHANGED <<front, pendingReaps, loopResult, latestCommitted, freed>>
          /\ guard'.reaps = guard.reaps /\ guard'.revision \in {guard.revision, NoRevision}
      BY <1>24, Zenon DEF Persist
    <3>3. persisted' \in Nat /\ persisted \in Nat /\ freed \subseteq Nat
      BY <1>0, Zenon
    <3>4. \A k \in freed : k < front /\ k <= persisted'
      BY <3>1, <3>3 DEF ReapInv
    <3>5. \A i \in DOMAIN pendingReaps :
            pendingReaps[i] < front /\ (loopResult = "ok" => pendingReaps[i] <= persisted')
      <4>1. \A i \in DOMAIN pendingReaps : pendingReaps[i] \in Nat
        BY LenProperties
      <4>. QED
        BY <3>1, <3>3, <4>1 DEF ReapInv
    <3>6. guard.reaps = <<>>
      BY <1>24, Zenon DEF Persist, GuardInv
    <3> HIDE DEF TypeOK
    <3>. QED
      BY <3>2, <3>4, <3>5, <3>6 DEF ReapInv
  <2>. QED
    BY <1>0, <2>1, <2>2, <2>3, <2>4, <2>5, <2>6, Zenon
<1>25. CASE PersistFails
  <2>1. QueueInv'
    BY <1>25, Zenon DEF PersistFails, TypeOK, QueueInv, ShutdownInv
  <2>2. LoopInv'
    BY <1>25, Zenon DEF PersistFails, TypeOK, LoopInv
  <2>3. ShutdownInv'
    BY <1>25, Zenon DEF PersistFails, TypeOK, ShutdownInv, LoopInv
  <2>4. PermitInv'
    BY <1>25, SMTT(20) DEF PersistFails, TypeOK, QueueInv, LoopInv, ShutdownInv, PermitInv, GuardInv
  <2>5. GuardInv'
    BY <1>25, Zenon DEF PersistFails, TypeOK, QueueInv, LoopInv, ShutdownInv, PermitInv, GuardInv
  <2>6. ReapInv'
    BY <1>25, ZenonT(30) DEF PersistFails, TypeOK, QueueInv, GuardInv, ReapInv
  <2>. QED
    BY <1>0, <2>1, <2>2, <2>3, <2>4, <2>5, <2>6, Zenon
<1>26. CASE SaveRoot
  <2>1. QueueInv'
    BY <1>26, Zenon DEF SaveRoot, TypeOK, QueueInv, ShutdownInv
  <2>2. LoopInv'
    BY <1>26, Zenon DEF SaveRoot, TypeOK, LoopInv
  <2>3. ShutdownInv'
    BY <1>26, Zenon DEF SaveRoot, TypeOK, ShutdownInv, LoopInv
  <2>4. PermitInv'
    <3>1. UNCHANGED <<permits, submitted, persisted, loopResult>> /\ guard'.release = guard.release
      BY <1>26, Zenon DEF SaveRoot
    <3>2. loopResult = "ok" /\ permits \in 0..MaxPersistenceGap /\ guard.release \in 0..MaxPersistenceGap
      BY <1>26, Zenon DEF SaveRoot, LoopInv
    <3>3. CASE loop = "rootStore" /\ loop' = "drop"
      BY <3>1, <3>2, <3>3 DEF PermitInv
    <3>4. CASE loop = "finalRootStore" /\ loop' = "exit"
      BY <3>1, <3>2, <3>4, Zenon DEF PermitInv
    <3>. QED
      BY <1>26, <3>3, <3>4, Zenon DEF SaveRoot
  <2>5. GuardInv'
    BY <1>26, Zenon DEF SaveRoot, TypeOK, QueueInv, LoopInv, ShutdownInv, PermitInv, GuardInv
  <2>6. ReapInv'
    BY <1>26, Zenon DEF SaveRoot, TypeOK, QueueInv, GuardInv, ReapInv
  <2>. QED
    BY <1>0, <2>1, <2>2, <2>3, <2>4, <2>5, <2>6, Zenon
<1>27. CASE SaveRootFails
  <2>1. QueueInv'
    BY <1>27, Zenon DEF SaveRootFails, TypeOK, QueueInv, ShutdownInv
  <2>2. LoopInv'
    BY <1>27, Zenon DEF SaveRootFails, TypeOK, LoopInv
  <2>3. ShutdownInv'
    BY <1>27, Zenon DEF SaveRootFails, TypeOK, ShutdownInv, LoopInv
  <2>4. PermitInv'
    <3>1. /\ UNCHANGED <<permits, submitted, persisted>>
          /\ loop' \in {"drop", "fail"} /\ loopResult' # "ok"
      BY <1>27, Zenon DEF SaveRootFails
    <3>2. permits \in 0..MaxPersistenceGap /\ Outstanding \in 0..(MaxPersistenceGap - permits)
      <4>1. /\ Outstanding \in Int /\ permits \in 0..MaxPersistenceGap
            /\ guard.release \in 0..MaxPersistenceGap /\ loopResult = "ok"
        BY <1>27, SMTT(20) DEF SaveRootFails, LoopInv
      <4> HIDE DEF TypeOK, Outstanding
      <4>. QED
        BY <1>27, <4>1 DEF SaveRootFails, PermitInv
    <3> HIDE DEF InductiveInv, TypeOK
    <3>. QED
      BY <3>1, <3>2 DEF PermitInv
  <2>5. GuardInv'
    BY <1>27, Zenon DEF SaveRootFails, TypeOK, QueueInv, LoopInv, ShutdownInv, PermitInv, GuardInv
  <2>6. ReapInv'
    BY <1>27, Zenon DEF SaveRootFails, TypeOK, QueueInv, GuardInv, ReapInv
  <2>. QED
    BY <1>0, <2>1, <2>2, <2>3, <2>4, <2>5, <2>6, Zenon
<1>28. CASE Panics
  <2>1. QueueInv'
    BY <1>28, Zenon DEF Panics, TypeOK, QueueInv, ShutdownInv
  <2>2. LoopInv'
    BY <1>28, Zenon DEF Panics, TypeOK, LoopInv
  <2>3. ShutdownInv'
    BY <1>28, Zenon DEF Panics, TypeOK, ShutdownInv, LoopInv
  <2>4. PermitInv'
    <3>1. /\ UNCHANGED <<permits, submitted, persisted>>
          /\ loop' \in {"drop", "exit"} /\ loopResult' # "ok"
      BY <1>28, Zenon DEF Panics
    <3>2. permits \in 0..MaxPersistenceGap /\ Outstanding \in 0..(MaxPersistenceGap - permits)
      <4>1. /\ Outstanding \in Int /\ permits \in 0..MaxPersistenceGap
            /\ guard.release \in 0..MaxPersistenceGap /\ loopResult = "ok"
        BY <1>28, SMTT(20) DEF Panics, LoopInv
      <4> HIDE DEF TypeOK, Outstanding
      <4>. QED
        BY <1>28, <4>1 DEF Panics, PermitInv
    <3> HIDE DEF InductiveInv, TypeOK
    <3>. QED
      BY <3>1, <3>2 DEF PermitInv
  <2>5. GuardInv'
    BY <1>28, Zenon DEF Panics, TypeOK, QueueInv, LoopInv, ShutdownInv, PermitInv, GuardInv
  <2>6. ReapInv'
    BY <1>28, SMTT(20) DEF Panics, TypeOK, QueueInv, GuardInv, ReapInv
  <2>. QED
    BY <1>0, <2>1, <2>2, <2>3, <2>4, <2>5, <2>6, Zenon
<1>29. CASE DropGuard
  <2>1. QueueInv'
    BY <1>29, Zenon DEF DropGuard, TypeOK, QueueInv, ShutdownInv
  <2>2. LoopInv'
    BY <1>29, Zenon DEF DropGuard, TypeOK, LoopInv
  <2>3. ShutdownInv'
    BY <1>29, Zenon DEF DropGuard, TypeOK, ShutdownInv, LoopInv
  <2>4. PermitInv'
    <3>1. /\ loop = "drop" /\ UNCHANGED <<submitted, persisted, loopResult>>
          /\ guard'.release = 0
      BY <1>29, Zenon DEF DropGuard
    <3>2. permits' = permits + guard.release
      BY <1>29 DEF DropGuard, GuardInv
    <3>3. \/ loop' = "pop" /\ loopResult = "ok"
          \/ loop' \in {"exit", "fail"} /\ loopResult # "ok"
      BY <1>29, Zenon DEF DropGuard
    <3>4. /\ loopResult = "ok" => Outstanding = MaxPersistenceGap - permits - guard.release
          /\ Outstanding <= MaxPersistenceGap - permits /\ Outstanding >= 0
      BY <3>1, Zenon DEF PermitInv
    <3>5. Outstanding' = Outstanding
      BY <3>1, Zenon
    <3>6. permits \in Nat /\ guard.release \in Nat /\ guard.release <= MaxPersistenceGap - permits
          /\ Outstanding \in Int
      BY DEF GuardInv
    <3> HIDE DEF InductiveInv, TypeOK, Outstanding
    <3>. QED
      BY <3>1, <3>2, <3>3, <3>4, <3>5, <3>6 DEF PermitInv
  <2>5. GuardInv'
    BY <1>29 DEF DropGuard, TypeOK, QueueInv, LoopInv, ShutdownInv, PermitInv, GuardInv
  <2>6. ReapInv'
    BY <1>29, ZenonT(30) DEF DropGuard, TypeOK, QueueInv, GuardInv, ReapInv
  <2>. QED
    BY <1>0, <2>1, <2>2, <2>3, <2>4, <2>5, <2>6, Zenon
<1>30. CASE RecordError
  BY <1>0, <1>30, SMTT(20) DEF RecordError,
     QueueInv, LoopInv, ShutdownInv, PermitInv, GuardInv, ReapInv
<1>31. CASE FinalCheck
  <2>1. QueueInv'
    BY <1>31, Zenon DEF FinalCheck, TypeOK, QueueInv, ShutdownInv
  <2>2. LoopInv'
    BY <1>31, Zenon DEF FinalCheck, TypeOK, LoopInv
  <2>3. ShutdownInv'
    BY <1>31, Zenon DEF FinalCheck, TypeOK, ShutdownInv, LoopInv
  <2>4. PermitInv'
    BY <1>31, SMTT(20) DEF FinalCheck, TypeOK, QueueInv, LoopInv, ShutdownInv, PermitInv, GuardInv
  <2>5. GuardInv'
    BY <1>31 DEF FinalCheck, TypeOK, QueueInv, LoopInv, ShutdownInv, PermitInv, GuardInv
  <2>6. ReapInv'
    <3>1. /\ UNCHANGED <<front, persisted, pendingReaps, loopResult, latestCommitted, freed>>
          /\ guard'.reaps = guard.reaps /\ (guard'.revision = guard.revision \/ guard'.revision = back)
      BY <1>31, SMTT(20) DEF FinalCheck, GuardInv, ShutdownInv
    <3>. QED
      BY <3>1, Zenon DEF ReapInv, QueueInv
  <2>. QED
    BY <1>0, <2>1, <2>2, <2>3, <2>4, <2>5, <2>6, Zenon
<1>32. CASE ExitLoop
  BY <1>0, <1>32, SMTT(20) DEF ExitLoop,
     QueueInv, LoopInv, ShutdownInv, PermitInv, GuardInv, ReapInv
<1>33. CASE Readers
  <2>1. QueueInv'
    BY <1>33, Zenon DEF Readers, Hold, Release, TypeOK, QueueInv, ShutdownInv
  <2>2. LoopInv'
    BY <1>33, Zenon DEF Readers, Hold, Release, TypeOK, LoopInv
  <2>3. ShutdownInv'
    BY <1>33, SMTT(20) DEF Readers, Hold, Release, TypeOK, ShutdownInv, LoopInv
  <2>4. PermitInv'
    BY <1>33, Zenon DEF Readers, Hold, Release, TypeOK, QueueInv, LoopInv, ShutdownInv, PermitInv, GuardInv
  <2>5. GuardInv'
    BY <1>33, Zenon DEF Readers, Hold, Release, TypeOK, QueueInv, LoopInv, ShutdownInv, PermitInv, GuardInv
  <2>6. ReapInv'
    <3>1. UNCHANGED <<front, persisted, pendingReaps, loopResult, latestCommitted, freed, guard>>
      BY <1>33, ZenonT(30) DEF Readers, Hold, Release
    <3>. QED
      BY <3>1, Zenon DEF ReapInv
  <2>. QED
    BY <1>0, <2>1, <2>2, <2>3, <2>4, <2>5, <2>6, Zenon
<1>34. CASE UNCHANGED vars
  BY <1>0, <1>34, SMTT(20) DEF vars, QueueInv, LoopInv, ShutdownInv, PermitInv, GuardInv, ReapInv
<1>. QED
  BY <1>1, <1>2, <1>3, <1>4, <1>5, <1>6, <1>7, <1>8, <1>9, <1>10, <1>11, <1>12, <1>13,
     <1>14, <1>15, <1>16, <1>17, <1>18, <1>19, <1>20, <1>21, <1>22, <1>23, <1>24, <1>25,
     <1>26, <1>27, <1>28, <1>29, <1>30, <1>31, <1>32, <1>33, <1>34, ZenonT(30)
     DEF Next, Commit, Close, PersistLoop, Terminated

\* The inductive invariant is an invariant of the specification.
THEOREM Invariance == Spec => []InductiveInv
BY InitInv, NextInv, PTL DEF Spec

\* Every field keeps its type; permits_available never leaves 0..max_permits.
THEOREM TypeCorrect == Spec => []TypeOK
<1>1. InductiveInv => TypeOK
  BY Zenon DEF InductiveInv
<1>. QED
  BY Invariance, <1>1, PTL

\* Between two cycles the permits taken are the revisions a crash would lose.
THEOREM PermitAccounting == Spec => []PermitsCountOutstanding
<1>1. InductiveInv => PermitsCountOutstanding
  BY Zenon DEF InductiveInv, PermitInv, PermitsCountOutstanding
<1>. QED
  BY Invariance, <1>1, PTL

\* Commits run at most max_persistence_gap ahead of the checkpoint while
\* persistence works.
THEOREM GapBound == Spec => []GapBounded
BY Invariance, GapFromInv, PTL

\* And at most twice as far whatever fails.
THEOREM GapBoundAfterFailure == Spec => []GapBoundedEver
<1>1. InductiveInv => GapBoundedEver
  <2> SUFFICES ASSUME InductiveInv PROVE GapBoundedEver
    BY Zenon
  <2>1. permits \in 0..MaxPersistenceGap /\ Outstanding \in Int
    BY DEF InductiveInv, TypeOK, Outstanding
  <2>2. CASE loopResult = "ok"
    BY <2>1, <2>2, GapFromInv DEF GapBounded, GapBoundedEver
  <2>3. CASE loopResult # "ok"
    BY <2>1, <2>3 DEF InductiveInv, PermitInv, GapBoundedEver
  <2>. QED
    BY <2>2, <2>3, Zenon
<1>. QED
  BY Invariance, <1>1, PTL

\* A restart finds its trie intact: nodes are handed to the free lists only if
\* the checkpoint has passed the revision that superseded them.
THEOREM CrashSafeReaping == Spec => []ReapedBehindCheckpoint
<1>1. InductiveInv => ReapedBehindCheckpoint
  BY Zenon DEF InductiveInv, ReapInv, ReapedBehindCheckpoint
<1>. QED
  BY Invariance, <1>1, PTL

\* Revisions that are referenced are never reaped.
THEOREM HeldRevisionsSafe == Spec => []HeldNotReaped
<1>1. InductiveInv => HeldNotReaped
  BY DEF InductiveInv, TypeOK, GuardType, QueueInv, ReapInv, HeldNotReaped, NoRevision
<1>. QED
  BY Invariance, <1>1, PTL

\* If the background thread does not panic, a close() that returns Ok has made
\* the newest revision durable.
THEOREM CloseDurable == Spec => []CloseIsDurable
<1>1. InductiveInv => CloseIsDurable
  <2> SUFFICES ASSUME InductiveInv, client = "closed", outcome = "ok", loopResult # "panic"
               PROVE  persisted = back
    BY Zenon DEF CloseIsDurable
  <2>1. loop = "exited" /\ loopResult = "ok"
    BY Zenon DEF InductiveInv, TypeOK, ShutdownInv, LoopInv
  <2>2. submitted = back /\ Outstanding = 0
    BY <2>1, Zenon DEF InductiveInv, QueueInv, PermitInv
  <2>. QED
    BY <2>2 DEF InductiveInv, TypeOK, Outstanding
<1>. QED
  BY Invariance, <1>1, PTL

\* Where the writing step takes the checkpoint.
LEMMA PersistStep ==
  ASSUME InductiveInv, Persist
  PROVE  persisted' > persisted /\ persisted' <= submitted /\ loopResult = "ok"
<1>1. CASE loop = "persist"
  BY <1>1 DEF Persist, InductiveInv, TypeOK, GuardType, GuardInv, PermitInv, LoopInv, Outstanding
<1>2. CASE loop = "finalPersist"
  BY <1>2 DEF Persist, InductiveInv, TypeOK, GuardType, GuardInv, QueueInv, ShutdownInv, LoopInv, Outstanding
<1>. QED
  BY <1>1, <1>2, Zenon DEF Persist

\* The checkpoint moves forward only, and never past what was committed.
THEOREM CheckpointMonotone == Spec => CheckpointAdvances
<1>1. InductiveInv /\ [Next]_vars =>
        [persisted' # persisted => persisted' > persisted /\ persisted' <= submitted]_vars
  <2> SUFFICES ASSUME InductiveInv, Next, persisted' # persisted
               PROVE  persisted' > persisted /\ persisted' <= submitted
    BY Zenon DEF vars
  <2>1. Persist
    BY Zenon DEF Next, Commit, Close, Readers, PersistLoop, Terminated, vars, disk,
       CommitRefused, CommitStart, ReapOldest, ReapDone, PushParks, CommitterWakes, PushOk,
       PushShutdown, Publish, JoinPanics, JoinError, JoinSilent, CloseSet, CloseSignal, CloseJoin,
       Hold, Release, PopShutdown, PopPersist, PopReaps, PopParks, LoopWakes, ReapNext, ReapFails,
       ReapsDone, PersistFails, SaveRoot, SaveRootFails, Panics, DropGuard, RecordError,
       FinalCheck, ExitLoop
  <2>. QED
    BY <2>1, PersistStep, Zenon
<1>. QED
  BY Invariance, <1>1, PTL DEF Spec, CheckpointAdvances

-----------------------------------------------------------------------------
(* Refinement of DeferredDurability                                        *)

\* A step that leaves the four abstract variables alone.
LEMMA Stutters ==
  ASSUME submitted' = submitted, persisted' = persisted, freed' = freed,
         (loopResult # "ok")' = (loopResult # "ok")
  PROVE  UNCHANGED Abstract!dvars
BY Zenon DEF Abstract!dvars

\* Every step of the implementation is an abstract step or a stutter.
LEMMA StepRefines ==
  ASSUME InductiveInv, [Next]_vars
  PROVE  [Abstract!DNext]_(Abstract!dvars)
<1> USE DEF channel, parked, shared, bg, queue, disk
<1>1. CASE PushOk
  <2>1. Outstanding < (IF loopResult # "ok" THEN 2 * MaxPersistenceGap ELSE MaxPersistenceGap)
    <3>1. permits \in 1..MaxPersistenceGap /\ Outstanding \in Int
      BY <1>1 DEF PushOk, InductiveInv, TypeOK, Outstanding
    <3>2. CASE loopResult # "ok"
      BY <3>1, <3>2 DEF InductiveInv, PermitInv
    <3>3. CASE loopResult = "ok"
      <4>1. guard.release \in 0..MaxPersistenceGap /\ loop \in LoopPoints
        BY Zenon DEF InductiveInv, TypeOK, GuardType
      <4>. QED
        BY <3>1, <3>3, <4>1 DEF InductiveInv, PermitInv, LoopInv, LoopPoints
    <3>. QED
      BY <3>2, <3>3, Zenon
  <2>2. submitted' = submitted + 1
    <3>1. loop # "exited" /\ client # "publish"
      BY <1>1, Zenon DEF PushOk, InductiveInv, ShutdownInv
    <3>. QED
      BY <1>1, <3>1, Zenon DEF PushOk, InductiveInv, QueueInv
  <2>. QED
    BY <1>1, <2>1, <2>2, Zenon DEF PushOk, Outstanding, Abstract!DNext, Abstract!DCommit
<1>2. CASE Persist
  <2>1. persisted \in Nat /\ submitted \in Nat /\ guard.revision \in Int
    BY DEF InductiveInv, TypeOK, GuardType, NoRevision
  <2>2. persisted' \in (persisted + 1)..submitted /\ loopResult = "ok"
    BY <1>2, <2>1, PersistStep DEF Persist
  <2>. QED
    BY <1>2, <2>2, Zenon DEF Persist, Abstract!DNext, Abstract!DCheckpoint
<1>3. CASE ReapNext
  <2>1. loopResult = "ok"
    BY <1>3, Zenon DEF ReapNext, InductiveInv, LoopInv
  <2>2. Head(guard.reaps) \in 0..persisted
    <3>1. Head(guard.reaps) = guard.reaps[1] /\ 1 \in DOMAIN guard.reaps /\ Head(guard.reaps) \in Nat
      BY <1>3, HeadTailProperties, LenProperties, EmptySeq DEF ReapNext, InductiveInv, TypeOK, GuardType
    <3>. QED
      BY <3>1 DEF InductiveInv, TypeOK, ReapInv
  <2>. QED
    BY <1>3, <2>1, <2>2, Zenon DEF ReapNext, Abstract!DNext, Abstract!DReclaim
<1>4. CASE ReapFails
  <2>1. loopResult = "ok"
    BY <1>4, Zenon DEF ReapFails, InductiveInv, LoopInv
  <2>2. Head(guard.reaps) \in 0..persisted
    <3>1. Head(guard.reaps) = guard.reaps[1] /\ 1 \in DOMAIN guard.reaps /\ Head(guard.reaps) \in Nat
      BY <1>4, HeadTailProperties, LenProperties, EmptySeq DEF ReapFails, InductiveInv, TypeOK, GuardType
    <3>. QED
      BY <3>1 DEF InductiveInv, TypeOK, ReapInv
  <2>. QED
    BY <1>4, <2>1, <2>2, Zenon DEF ReapFails, Abstract!DNext, Abstract!DFail
<1>5. CASE PersistFails \/ SaveRootFails \/ Panics
  <2>1. loopResult = "ok" /\ loopResult' # "ok" /\ UNCHANGED <<submitted, persisted, freed>>
    BY <1>5, Zenon DEF PersistFails, SaveRootFails, Panics, InductiveInv, LoopInv
  <2>. QED
    BY <2>1, Zenon DEF Abstract!DNext, Abstract!DFail
<1>6. CASE ~(PushOk \/ Persist \/ ReapNext \/ ReapFails \/ PersistFails \/ SaveRootFails \/ Panics)
  <2>1. UNCHANGED <<submitted, persisted, freed, loopResult>>
    BY <1>6, Zenon DEF Next, Commit, Close, Readers, PersistLoop, Terminated, vars,
       CommitRefused, CommitStart, ReapOldest, ReapDone, PushParks, CommitterWakes, PushShutdown,
       Publish, JoinPanics, JoinError, JoinSilent, CloseSet, CloseSignal, CloseJoin, Hold, Release,
       PopShutdown, PopPersist, PopReaps, PopParks, LoopWakes, ReapsDone, SaveRoot, DropGuard,
       RecordError, FinalCheck, ExitLoop
  <2>. QED
    BY <2>1, Stutters, Zenon
<1>. QED
  BY <1>1, <1>2, <1>3, <1>4, <1>5, <1>6, Zenon

\* Commit, background thread, failures and shutdown together implement the
\* abstract specification.
THEOREM Refinement == Spec => ImplementsDeferredDurability
<1>1. Init => Abstract!DInit
  BY Zenon DEF Init, Abstract!DInit
<1>. QED
  BY <1>1, Invariance, StepRefines, PTL DEF Spec, ImplementsDeferredDurability, Abstract!DSpec

-----------------------------------------------------------------------------
(* Archival mode                                                           *)

\* What makes the archive complete: reap() drops what it is given, so no list of
\* reaps is ever filled; the header runs ahead of the RootStore only between the
\* two writes of a cycle, with the revision still in the guard; and it only moves
\* forward, so what was recorded stays behind it.
ArchiveInv ==
  /\ rootStore =>
       /\ freed = {} /\ pendingReaps = <<>> /\ guard.reaps = <<>>
       /\ \A r \in roots : r <= persisted /\ r \notin empty
       /\ loopResult = "ok" /\ loop \notin {"rootStore", "finalRootStore"} =>
            persisted \in roots \cup empty
  /\ loop \in {"rootStore", "finalRootStore"} => guard.revision = persisted

\* The reaping loop and the steps of a cycle keep the archive complete.
LEMMA ArchiveStep ==
  ASSUME InductiveInv, ArchiveInv, [Next]_vars
  PROVE  ArchiveInv'
<1> USE DEF channel, parked, shared, bg, queue, disk
<1>1. guard \in GuardType
  BY Zenon DEF InductiveInv, TypeOK
<1>2. CASE ReapOldest
  BY <1>2, Zenon DEF ReapOldest, ArchiveInv
<1>3. CASE PopPersist \/ PopReaps
  BY <1>3 DEF PopPersist, PopReaps, ArchiveInv
<1>4. CASE ReapNext \/ ReapFails
  BY <1>1, <1>4 DEF ReapNext, ReapFails, ArchiveInv, GuardType
<1>5. CASE Persist
  <2>1. persisted' > persisted
    BY <1>5, PersistStep, Zenon
  <2>2. /\ persisted \in Nat /\ persisted' \in Nat /\ roots \subseteq Nat
    BY NextType, Zenon DEF InductiveInv, TypeOK
  <2>3. /\ UNCHANGED <<rootStore, freed, pendingReaps, roots, empty>>
        /\ guard'.reaps = guard.reaps /\ persisted' = guard.revision
        /\ rootStore => loop' \in {"rootStore", "finalRootStore"} /\ guard' = guard
        /\ ~rootStore => loop' \notin {"rootStore", "finalRootStore"}
    BY <1>1, <1>5, Zenon DEF Persist, GuardType
  <2>4. rootStore => \A r \in roots' : r <= persisted' /\ r \notin empty'
    BY <2>1, <2>2, <2>3 DEF ArchiveInv
  <2>. QED
    BY <2>3, <2>4, Zenon DEF ArchiveInv
<1>6. CASE PersistFails \/ SaveRootFails \/ Panics
  <2>1. UNCHANGED <<rootStore, freed, pendingReaps, roots, empty, persisted>> /\ loopResult' # "ok" /\ guard'.reaps \in {guard.reaps, <<>>}
    BY <1>1, <1>6, Zenon DEF PersistFails, SaveRootFails, Panics, GuardType
  <2>2. loop' \notin {"rootStore", "finalRootStore"}
    BY <1>6, Zenon DEF PersistFails, SaveRootFails, Panics
  <2>. QED
    BY <2>1, <2>2, Zenon DEF ArchiveInv
<1>7. CASE SaveRoot
  <2>1. /\ UNCHANGED <<rootStore, freed, pendingReaps, empty, persisted>>
        /\ guard'.reaps = guard.reaps /\ roots' = roots \cup ({persisted} \ empty)
        /\ loop' \notin {"rootStore", "finalRootStore"}
    BY <1>1, <1>7, Zenon DEF SaveRoot, ArchiveInv, GuardType
  <2>2. persisted <= persisted
    BY DEF InductiveInv, TypeOK
  <2>. QED
    BY <2>1, <2>2, Zenon DEF ArchiveInv
<1>8. CASE DropGuard
  BY <1>8, Zenon DEF DropGuard, ArchiveInv, EmptyGuard
<1>9. CASE ReapsDone \/ FinalCheck
  BY <1>9 DEF ReapsDone, FinalCheck, ArchiveInv
<1>10. CASE PopShutdown \/ PopParks \/ LoopWakes \/ RecordError \/ ExitLoop
  BY <1>10 DEF PopShutdown, PopParks, LoopWakes, RecordError, ExitLoop, ArchiveInv
<1>11. CASE Close \/ Readers \/ Terminated \/ UNCHANGED vars \/ (Commit /\ ~ReapOldest)
  <2>1. UNCHANGED <<rootStore, freed, pendingReaps, guard, loopResult, loop, persisted, roots, empty>>
    BY <1>11, Zenon DEF Commit, Close, Readers, Terminated, vars, CommitRefused, CommitStart, ReapDone,
       PushParks, CommitterWakes, PushOk, PushShutdown, Publish, JoinPanics, JoinError, JoinSilent,
       CloseSet, CloseSignal, CloseJoin, Hold, Release
  <2>. QED
    BY <2>1, Zenon DEF ArchiveInv
<1>. QED
  BY <1>2, <1>3, <1>4, <1>5, <1>6, <1>7, <1>8, <1>9, <1>10, <1>11, Zenon DEF Next, PersistLoop

\* In archival mode nothing is reaped, every checkpoint that has a root node is in
\* the RootStore once its cycle, or the shutdown, has ended well, and the RootStore
\* never names a revision the header has not reached.
THEOREM ArchiveHolds == Spec => []ArchiveComplete
<1>1. Init => ArchiveInv
  BY DEF Init, ArchiveInv, EmptyGuard
<1>2. ArchiveInv => ArchiveComplete
  BY Zenon DEF ArchiveInv, ArchiveComplete
<1>. QED
  BY <1>1, <1>2, Invariance, ArchiveStep, PTL DEF Spec

-----------------------------------------------------------------------------
(* Failure                                                                 *)

\* A client that is not inside a commit, with the worker's error visible.
Refusing(f, b) ==
  /\ client \in {"idle", "closing", "closeJoin", "closed"} /\ error # "none"
  /\ front = f /\ back = b

\* It stays there: only close() can be called with effect, and the error is
\* never cleared.
LEMMA RefusingStable ==
  ASSUME NEW f, NEW b, InductiveInv, Refusing(f, b), [Next]_vars
  PROVE  Refusing(f, b)'
<1> USE DEF channel, parked, shared, bg, queue, disk
<1>1. CASE Commit
  BY <1>1, Zenon DEF Commit, Refusing, CommitRefused, CommitStart, ReapOldest, ReapDone, PushParks,
     CommitterWakes, PushOk, PushShutdown, Publish, JoinPanics, JoinError, JoinSilent
<1>2. CASE Close
  BY <1>2, Zenon DEF Close, Refusing, CloseSet, CloseSignal, CloseJoin
<1>3. CASE RecordError
  BY <1>3, Zenon DEF RecordError, Refusing, InductiveInv, TypeOK
<1>4. CASE Readers \/ Terminated \/ UNCHANGED vars \/ (PersistLoop /\ ~RecordError)
  <2>1. UNCHANGED <<client, error, front, back>>
    BY <1>4, Zenon DEF Readers, Terminated, vars, Hold, Release, PersistLoop, PopShutdown, PopPersist,
       PopReaps, PopParks, LoopWakes, ReapNext, ReapFails, ReapsDone, Persist, PersistFails,
       SaveRoot, SaveRootFails, Panics, DropGuard, FinalCheck, ExitLoop
  <2>. QED
    BY <2>1, Zenon DEF Refusing
<1>. QED
  BY <1>1, <1>2, <1>3, <1>4, Zenon DEF Next

\* Once the worker's error is visible to an idle client, the queue of revisions
\* never changes again.
THEOREM FailStopHolds == Spec => FailStop
<1> SUFFICES ASSUME NEW b \in 0..MaxCommits, NEW f \in 0..b
             PROVE  Spec => [](client = "idle" /\ error # "none" /\ front = f /\ back = b
                                 => [](front = f /\ back = b))
  BY Zenon DEF FailStop
<1>1. client = "idle" /\ error # "none" /\ front = f /\ back = b => Refusing(f, b)
  BY Zenon DEF Refusing
<1>2. InductiveInv /\ Refusing(f, b) /\ [Next]_vars => Refusing(f, b)'
  BY RefusingStable, Zenon
<1>3. Refusing(f, b) => front = f /\ back = b
  BY Zenon DEF Refusing
<1>. QED
  BY <1>1, <1>2, <1>3, Invariance, PTL DEF Spec
============================================================================
