-------------------------- MODULE ThreadPoolProofs --------------------------
EXTENDS ThreadPool, FiniteSetTheorems, TLAPS

\* The sizes of the pool and of the deque of pairs are numbers.
LEMMA SizesNat == /\ Cardinality(Threads) \in Nat
                  /\ Cardinality(Jobs) \in Nat
                  /\ \A S \in SUBSET Jobs : Cardinality(S) \in Nat
  BY ThreadsAssumption, JobsAssumption, FS_CardinalityType, FS_Subset

\* What an action leaves alone keeps its type.
LEMMA TypeFrames ==
  /\ PoolType /\ UNCHANGED poolVars => PoolType'
  /\ ThreadType /\ UNCHANGED threadVars => ThreadType'
  /\ JobType /\ UNCHANGED jobVars => JobType'
  /\ SlotType /\ UNCHANGED slotVars => SlotType'
  /\ ExtraType /\ UNCHANGED extraVars => ExtraType'
  /\ StopType /\ UNCHANGED stopVars => StopType'
  /\ KillType /\ UNCHANGED killVars => KillType'
<1>1. PoolType /\ UNCHANGED poolVars => PoolType'
  BY DEF PoolType, poolVars
<1>2. ThreadType /\ UNCHANGED threadVars => ThreadType'
  BY DEF ThreadType, threadVars
<1>3. JobType /\ UNCHANGED jobVars => JobType'
  BY DEF JobType, jobVars
<1>4. SlotType /\ UNCHANGED slotVars => SlotType'
  BY DEF SlotType, slotVars, Slots
<1>5. ExtraType /\ UNCHANGED extraVars => ExtraType'
  BY DEF ExtraType, extraVars, Slots
<1>6. StopType /\ UNCHANGED stopVars => StopType'
  BY DEF StopType, stopVars, Slots
<1>7. KillType /\ UNCHANGED killVars => KillType'
  BY DEF KillType, killVars
<1> QED
  BY <1>1, <1>2, <1>3, <1>4, <1>5, <1>6, <1>7

\* A thread that holds a job is counted in runcount.
LEMMA BusyCounted ==
  ASSUME RuncountExact, NEW t \in Threads, Busy(t)
  PROVE  runcount \in Nat \ {0}
<1> DEFINE B == {u \in Threads : Busy(u)}
<1>1. IsFiniteSet(B) /\ B \in SUBSET Threads
  BY ThreadsAssumption, FS_Subset
<1>2. Cardinality(B) \in Nat /\ Cardinality(B) # 0
  BY <1>1, FS_CardinalityType, FS_EmptySet
<1> QED
  BY <1>2 DEF RuncountExact

LEMMA TypeStep ==
  ASSUME TypeOK, ThreadState, ExtraState, RuncountExact, Next
  PROVE  TypeOK'
<1> USE DEF TypeOK
<1>1. ASSUME NEW t \in Threads, Wake(t) PROVE TypeOK'
  <2>1. PoolType'
    BY <1>1 DEF Wake, PoolType
  <2>2. ThreadType'
    BY <1>1 DEF Wake, ThreadType, ThreadPc, MaybeJob
  <2> QED
    BY <1>1, <2>1, <2>2, TypeFrames DEF Wake
<1>2. ASSUME NEW t \in Threads, CheckStop(t) PROVE TypeOK'
  <2>1. ThreadType'
    BY <1>2 DEF CheckStop, ThreadType, ThreadPc, MaybeJob
  <2> QED
    BY <1>2, <2>1, TypeFrames DEF CheckStop
<1>3. ASSUME NEW t \in Threads, TakeNothing(t) PROVE TypeOK'
  <2>1. ThreadType'
    BY <1>3 DEF TakeNothing, ThreadType, ThreadPc, MaybeJob
  <2> QED
    BY <1>3, <2>1, TypeFrames DEF TakeNothing
<1>4. ASSUME NEW t \in Threads, Take(t) PROVE TypeOK'
  <2>1. PoolType'
    BY <1>4 DEF Take, Publish, CountUp, PoolType, Front
  <2>2. ThreadType'
    BY <1>4 DEF Take, Publish, CountUp, ThreadType, ThreadPc, MaybeJob
  <2> QED
    BY <1>4, <2>1, <2>2, TypeFrames DEF Take
<1>5. ASSUME NEW t \in Threads, Abandon(t) PROVE TypeOK'
  <2>1. ThreadType'
    BY <1>5 DEF Abandon, ThreadType, ThreadPc, MaybeJob
  <2> QED
    BY <1>5, <2>1, TypeFrames DEF Abandon
<1>6. ASSUME NEW t \in Threads, Execute(t) PROVE TypeOK'
  <2>1. ThreadType'
    BY <1>6 DEF Execute, ThreadType, ThreadPc, MaybeJob
  <2>2. JobType'
    BY <1>6 DEF Execute, JobType, ThreadState
  <2> QED
    BY <1>6, <2>1, <2>2, TypeFrames DEF Execute
<1>7. ASSUME NEW t \in Threads, Return(t) PROVE TypeOK'
  <2>1. ThreadType'
    BY <1>7 DEF Return, ThreadType, ThreadPc, MaybeJob
  <2> QED
    BY <1>7, <2>1, TypeFrames DEF Return
<1>8. ASSUME NEW t \in Threads, Release(t) PROVE TypeOK'
  <2>1. PoolType'
    <3>1. Busy(t)
      BY <1>8, JobsAssumption DEF Release, ThreadState, Busy
    <3>2. runcount \in Nat \ {0}
      BY <3>1, BusyCounted
    <3> QED
      BY <1>8, <3>2 DEF Release, PoolType
  <2>2. ThreadType'
    BY <1>8 DEF Release, ThreadType, ThreadPc, MaybeJob
  <2> QED
    BY <1>8, <2>1, <2>2, TypeFrames DEF Release
<1>9. ASSUME NEW t \in Threads, Fence(t) PROVE TypeOK'
  <2>1. ThreadType'
    BY <1>9 DEF Fence, ThreadType, ThreadPc, MaybeJob
  <2>2. JobType'
    BY <1>9 DEF Fence, JobType, ThreadState
  <2> QED
    BY <1>9, <2>1, <2>2, TypeFrames DEF Fence
<1>10. ASSUME NEW j \in Jobs, AddJobStopped(j) PROVE TypeOK'
  <2>1. PoolType'
    BY <1>10 DEF AddJobStopped, PoolType
  <2>2. JobType'
    BY <1>10 DEF AddJobStopped, JobType
  <2> QED
    BY <1>10, <2>1, <2>2, TypeFrames DEF AddJobStopped
<1>11. ASSUME NEW j \in Jobs, AddJobAdditional(j) PROVE TypeOK'
  <2>1. PoolType'
    BY <1>11 DEF AddJobAdditional, runAdditionalThread, PoolType
  <2>2. SlotType'
    BY <1>11, SizesNat DEF AddJobAdditional, runAdditionalThread, SlotType, Slots, Pair, NoPair, MaybeJob
  <2>3. ExtraType'
    BY <1>11, SizesNat DEF AddJobAdditional, runAdditionalThread, ExtraType, ExtraPc, Slots, MaybeJob
  <2> QED
    BY <1>11, <2>1, <2>2, <2>3, TypeFrames DEF AddJobAdditional
<1>12. ASSUME NEW j \in Jobs, AddJobQueued(j) PROVE TypeOK'
  <2>1. PoolType'
    BY <1>12, SizesNat DEF AddJobQueued, SignalOne, PoolType
  <2> QED
    BY <1>12, <2>1, TypeFrames DEF AddJobQueued
<1>13. ASSUME NEW j \in Jobs, ExtraStart(j) PROVE TypeOK'
  <2>1. JobType'
    BY <1>13 DEF ExtraStart, JobType, SlotType, ExtraType, Pair, MaybeJob
  <2>2. ExtraType'
    BY <1>13 DEF ExtraStart, ExtraType, ExtraPc, Slots, MaybeJob, SlotType, Pair
  <2> QED
    BY <1>13, <2>1, <2>2, TypeFrames DEF ExtraStart
<1>14. ASSUME NEW j \in Jobs, ExtraReturn(j) PROVE TypeOK'
  <2>1. ExtraType'
    BY <1>14 DEF ExtraReturn, ExtraType, ExtraPc, Slots, MaybeJob
  <2> QED
    BY <1>14, <2>1, TypeFrames DEF ExtraReturn
<1>15. ASSUME NEW j \in Jobs, ExtraFence(j) PROVE TypeOK'
  <2>1. JobType'
    BY <1>15 DEF ExtraFence, JobType, ExtraState
  <2>2. ExtraType'
    BY <1>15 DEF ExtraFence, ExtraType, ExtraPc, Slots, MaybeJob
  <2> QED
    BY <1>15, <2>1, <2>2, TypeFrames DEF ExtraFence
<1>16. ASSUME NEW j \in Jobs, ExtraClear(j) PROVE TypeOK'
  <2>1. SlotType'
    BY <1>16 DEF ExtraClear, SlotType, Slots, Pair, NoPair, MaybeJob, ExtraType
  <2>2. ExtraType'
    BY <1>16 DEF ExtraClear, ExtraType, ExtraPc, Slots, MaybeJob
  <2> QED
    BY <1>16, <2>1, <2>2, TypeFrames DEF ExtraClear
<1>17. CASE StopBegin
  <2>1. PoolType'
    BY <1>17 DEF StopBegin, PoolType
  <2>2. StopType'
    BY <1>17 DEF StopBegin, StopType, StopPc, Slots, Pair, NoPair, MaybeJob
  <2> QED
    BY <1>17, <2>1, <2>2, TypeFrames DEF StopBegin
<1>18. CASE WaitSignal
  <2>1. PoolType'
    BY <1>18, SizesNat DEF WaitSignal, SignalAll, PoolType
  <2>2. StopType'
    BY <1>18 DEF WaitSignal, SignalAll, StopType, StopPc, Slots, Pair, NoPair, MaybeJob
  <2> QED
    BY <1>18, <2>1, <2>2, TypeFrames DEF WaitSignal
<1>19. CASE StopSignal
  <2>1. PoolType'
    BY <1>19, SizesNat DEF StopSignal, SignalAll, PoolType
  <2>2. StopType'
    BY <1>19 DEF StopSignal, SignalAll, StopType, StopPc, Slots, Pair, NoPair, MaybeJob
  <2> QED
    BY <1>19, <2>1, <2>2, TypeFrames DEF StopSignal
<1>20. CASE StopSweep
  <2>1. PoolType'
    BY <1>20 DEF StopSweep, AbortAndFence, PoolType
  <2>2. JobType'
    BY <1>20 DEF StopSweep, AbortAndFence, JobType
  <2>3. StopType'
    BY <1>20 DEF StopSweep, AbortAndFence, StopType, StopPc, Slots, Pair, NoPair, MaybeJob
  <2> QED
    BY <1>20, <2>1, <2>2, <2>3, TypeFrames DEF StopSweep
<1>21. CASE StopJoin
  <2>1. StopType'
    BY <1>21 DEF StopJoin, StopType, StopPc, Slots, Pair, NoPair, MaybeJob, SlotType
  <2> QED
    BY <1>21, <2>1, TypeFrames DEF StopJoin
<1>22. CASE StopNext
  <2>1. StopType'
    BY <1>22, SizesNat DEF StopNext, StopType, StopPc, Slots, Pair, NoPair, MaybeJob, SlotType
  <2> QED
    BY <1>22, <2>1, TypeFrames DEF StopNext
<1>23. CASE StopAbort
  <2>1. JobType'
    <3>1. scur.job \in MaybeJob
      BY DEF StopType, Pair
    <3>2. CASE scur.job = NoJob
      BY <1>23, <3>2 DEF StopAbort, JobType
    <3>3. CASE scur.job \in Jobs
      <4>1. /\ aborting' = [aborting EXCEPT ![scur.job] = TRUE]
            /\ fences' = [fences EXCEPT ![scur.job] = fences[scur.job] + 1]
            /\ runs' = runs
        BY <1>23, <3>3, JobsAssumption DEF StopAbort
      <4> QED
        BY <3>3, <4>1 DEF JobType
    <3> QED
      BY <3>1, <3>2, <3>3 DEF MaybeJob
  <2>2. StopType'
    BY <1>23 DEF StopAbort, StopType, StopPc, Slots, Pair, NoPair, MaybeJob
  <2> QED
    BY <1>23, <2>1, <2>2, TypeFrames DEF StopAbort
<1>24. CASE StopJoinPair
  <2>1. StopType'
    BY <1>24 DEF StopJoinPair, StopType, StopPc, Slots, Pair, NoPair, MaybeJob
  <2> QED
    BY <1>24, <2>1, TypeFrames DEF StopJoinPair
<1>25. CASE WaitJoin
  <2>1. PoolType'
    BY <1>25 DEF WaitJoin, PoolType
  <2>2. StopType'
    BY <1>25 DEF WaitJoin, StopType, StopPc, Slots, Pair, NoPair, MaybeJob, SlotType
  <2> QED
    BY <1>25, <2>1, <2>2, TypeFrames DEF WaitJoin
<1>26. CASE WaitPair
  <2>1. StopType'
    BY <1>26 DEF WaitPair, StopType, StopPc, Slots, Pair, NoPair, MaybeJob
  <2> QED
    BY <1>26, <2>1, TypeFrames DEF WaitPair
<1>27. CASE WaitEnd
  <2>1. SlotType'
    BY <1>27, SizesNat DEF WaitEnd, SlotType, Slots, Pair, NoPair, MaybeJob, StopType
  <2>2. StopType'
    BY <1>27 DEF WaitEnd, StopType, StopPc, Slots, Pair, NoPair, MaybeJob
  <2> QED
    BY <1>27, <2>1, <2>2, TypeFrames DEF WaitEnd
<1>28. ASSUME NEW w \in Workers, KillBegin(w) PROVE TypeOK'
  <2>1. PoolType'
    BY <1>28, SizesNat DEF KillBegin, SignalAll, PoolType
  <2>2. KillType'
    BY <1>28, WorkersAssumption DEF KillBegin, SignalAll, KillType, KillPc, Pair, NoPair, MaybeJob
  <2> QED
    BY <1>28, <2>1, <2>2, TypeFrames DEF KillBegin
<1>29. CASE KillSweep
  <2>1. PoolType'
    BY <1>29 DEF KillSweep, AbortAndFence, PoolType
  <2>2. JobType'
    BY <1>29 DEF KillSweep, AbortAndFence, JobType
  <2>3. KillType'
    BY <1>29 DEF KillSweep, AbortAndFence, KillType, KillPc, Pair, NoPair, MaybeJob, SlotType
  <2> QED
    BY <1>29, <2>1, <2>2, <2>3, TypeFrames DEF KillSweep
<1>30. CASE KillNext
  <2>1. KillType'
    BY <1>30, SizesNat DEF KillNext, KillType, KillPc, Pair, NoPair, MaybeJob, SlotType, Slots
  <2> QED
    BY <1>30, <2>1, TypeFrames DEF KillNext
<1>31. CASE KillSkip
  <2>1. KillType'
    BY <1>31 DEF KillSkip, KillType, KillPc, Pair, NoPair, MaybeJob
  <2> QED
    BY <1>31, <2>1, TypeFrames DEF KillSkip
<1>32. CASE KillAbort
  <2>1. JobType'
    BY <1>32 DEF KillAbort, JobType, KillType, Pair, MaybeJob
  <2>2. KillType'
    BY <1>32 DEF KillAbort, KillType, KillPc, Pair, NoPair, MaybeJob
  <2> QED
    BY <1>32, <2>1, <2>2, TypeFrames DEF KillAbort
<1>33. CASE KillErase
  <2>0. /\ ki \in Nat \ {0} /\ ki <= hi /\ lo \in Nat \ {0}
        /\ hi \in Slots /\ \A q \in 1 .. hi : q \in Slots
    BY <1>33, SizesNat DEF KillErase, KillType, ExtraState, SlotType, Slots
  <2>1. SlotType'
    <3>1. CASE 2 * (ki - lo) < hi + 1 - lo
      <4>1. \A q \in Slots : lo < q /\ q <= ki => q - 1 \in Slots
        BY <2>0 DEF Slots
      <4> QED
        BY <1>33, <2>0, <3>1, <4>1 DEF KillErase, EraseSlot, SlotType
    <3>2. CASE ~(2 * (ki - lo) < hi + 1 - lo)
      <4>1. \A q \in Slots : ki <= q /\ q < hi => q + 1 \in Slots
        BY <2>0 DEF Slots
      <4>2. hi - 1 \in {0} \cup Slots
        BY <2>0 DEF Slots
      <4> QED
        BY <1>33, <2>0, <3>2, <4>1, <4>2 DEF KillErase, EraseSlot, SlotType
    <3> QED
      BY <3>1, <3>2
  <2>2. KillType'
    BY <1>33 DEF KillErase, EraseSlot, KillType, KillPc, Pair, NoPair, MaybeJob, SlotType
  <2> QED
    BY <1>33, <2>1, <2>2, TypeFrames DEF KillErase
<1> QED
  BY <1>1, <1>2, <1>3, <1>4, <1>5, <1>6, <1>7, <1>8, <1>9, <1>10, <1>11, <1>12, <1>13, <1>14, <1>15, <1>16, <1>17, <1>18, <1>19, <1>20, <1>21, <1>22, <1>23, <1>24, <1>25, <1>26, <1>27, <1>28, <1>29, <1>30, <1>31, <1>32, <1>33 DEF Next, Thread, Add, Extra, Stop, Kill

\* Only the worker threads move between their positions.
LEMMA ThreadStateStep ==
  ASSUME TypeOK, ThreadState, Next
  PROVE  ThreadState'
<1> DEFINE Same == UNCHANGED <<pc, job, my>>
<1>0. Same => ThreadState'
  BY DEF ThreadState, TypeOK, ThreadType, MaybeJob
<1>1. ASSUME NEW t \in Threads, Wake(t) PROVE ThreadState'
  BY <1>1 DEF Wake, ThreadState, TypeOK, ThreadType, MaybeJob, threadVars
<1>2. ASSUME NEW t \in Threads, CheckStop(t) PROVE ThreadState'
  BY <1>2 DEF CheckStop, ThreadState, TypeOK, ThreadType, MaybeJob, threadVars
<1>3. ASSUME NEW t \in Threads, TakeNothing(t) PROVE ThreadState'
  BY <1>3 DEF TakeNothing, ThreadState, TypeOK, ThreadType, MaybeJob, threadVars
<1>4. ASSUME NEW t \in Threads, Take(t) PROVE ThreadState'
  BY <1>4, JobsAssumption DEF Take, Publish, CountUp, ThreadState, TypeOK, ThreadType, MaybeJob,
      Front, threadVars
<1>5. ASSUME NEW t \in Threads, Abandon(t) PROVE ThreadState'
  BY <1>5 DEF Abandon, ThreadState, TypeOK, ThreadType, MaybeJob, threadVars
<1>6. ASSUME NEW t \in Threads, Execute(t) PROVE ThreadState'
  BY <1>6 DEF Execute, ThreadState, TypeOK, ThreadType, MaybeJob, threadVars
<1>7. ASSUME NEW t \in Threads, Return(t) PROVE ThreadState'
  BY <1>7 DEF Return, ThreadState, TypeOK, ThreadType, MaybeJob, threadVars
<1>8. ASSUME NEW t \in Threads, Release(t) PROVE ThreadState'
  BY <1>8 DEF Release, ThreadState, TypeOK, ThreadType, MaybeJob, threadVars
<1>9. ASSUME NEW t \in Threads, Fence(t) PROVE ThreadState'
  BY <1>9 DEF Fence, ThreadState, TypeOK, ThreadType, MaybeJob, threadVars
<1>10. ASSUME NEW j \in Jobs, AddJobStopped(j) \/ AddJobAdditional(j) \/ AddJobQueued(j) \/
    ExtraStart(j) \/ ExtraReturn(j) \/ ExtraFence(j) \/ ExtraClear(j)
      PROVE  Same
  BY <1>10 DEF AddJobStopped, AddJobAdditional, AddJobQueued, ExtraStart, ExtraReturn,
      ExtraFence, ExtraClear, poolVars, threadVars, jobVars, slotVars, extraVars, stopVars,
      killVars
<1>11. ASSUME StopBegin \/ WaitSignal \/ StopSignal \/ StopSweep \/ StopJoin \/ StopNext \/
    StopAbort \/ StopJoinPair \/ WaitJoin \/ WaitPair \/ WaitEnd \/ KillSweep \/ KillNext \/
    KillSkip \/ KillAbort \/ KillErase
      PROVE  Same
  BY <1>11 DEF StopBegin, WaitSignal, StopSignal, StopSweep, StopJoin, StopNext, StopAbort,
      StopJoinPair, WaitJoin, WaitPair, WaitEnd, KillSweep, KillNext, KillSkip, KillAbort,
      KillErase, poolVars, threadVars, jobVars, slotVars, extraVars, stopVars, killVars
<1>12. ASSUME NEW w \in Workers, KillBegin(w)
      PROVE  Same
  BY <1>12 DEF KillBegin, poolVars, threadVars, jobVars, slotVars, extraVars, stopVars, killVars
<1> HIDE DEF Same
<1> QED
  BY <1>0, <1>1, <1>2, <1>3, <1>4, <1>5, <1>6, <1>7, <1>8, <1>9, <1>10, <1>11, <1>12 DEF Next,
      Thread, Add, Extra, Stop, Kill

\* No operation puts a job into two places.
LEMMA OnePlaceStep ==
  ASSUME TypeOK, ThreadState, OnePlace, Next
  PROVE  OnePlace'
<1> DEFINE Same == UNCHANGED <<jobs, added, my, xpc>>
<1>0. Same => OnePlace'
  BY DEF OnePlace, Additional, TypeOK, PoolType, ThreadType, ExtraType, MaybeJob
<1>1. ASSUME NEW t \in Threads, Take(t) PROVE OnePlace'
  BY <1>1, JobsAssumption DEF Take, Publish, CountUp, OnePlace, Additional, TypeOK, PoolType,
      ThreadType, ExtraType, MaybeJob, Front, poolVars, threadVars, extraVars
<1>2. ASSUME NEW t \in Threads, Fence(t) PROVE OnePlace'
  BY <1>2 DEF Fence, OnePlace, Additional, TypeOK, PoolType, ThreadType, ExtraType, MaybeJob,
      ThreadState, poolVars, threadVars, extraVars
<1>3. ASSUME NEW j \in Jobs, AddJobStopped(j) PROVE OnePlace'
  BY <1>3 DEF AddJobStopped, OnePlace, Additional, TypeOK, PoolType, ThreadType, ExtraType,
      MaybeJob, poolVars, threadVars, extraVars
<1>4. ASSUME NEW j \in Jobs, AddJobAdditional(j) PROVE OnePlace'
  BY <1>4 DEF AddJobAdditional, runAdditionalThread, OnePlace, Additional, TypeOK, PoolType,
      ThreadType, ExtraType, MaybeJob, poolVars, threadVars, extraVars
<1>5. ASSUME NEW j \in Jobs, AddJobQueued(j) PROVE OnePlace'
  BY <1>5 DEF AddJobQueued, SignalOne, OnePlace, Additional, TypeOK, PoolType, ThreadType,
      ExtraType, MaybeJob, poolVars, threadVars, extraVars
<1>6. ASSUME NEW j \in Jobs, ExtraStart(j) PROVE OnePlace'
  BY <1>6 DEF ExtraStart, OnePlace, Additional, TypeOK, PoolType, ThreadType, ExtraType,
      MaybeJob, poolVars, threadVars, extraVars
<1>7. ASSUME NEW j \in Jobs, ExtraReturn(j) PROVE OnePlace'
  BY <1>7 DEF ExtraReturn, OnePlace, Additional, TypeOK, PoolType, ThreadType, ExtraType,
      MaybeJob, poolVars, threadVars, extraVars
<1>8. ASSUME NEW j \in Jobs, ExtraFence(j) PROVE OnePlace'
  BY <1>8 DEF ExtraFence, OnePlace, Additional, TypeOK, PoolType, ThreadType, ExtraType,
      MaybeJob, poolVars, threadVars, extraVars
<1>9. ASSUME NEW j \in Jobs, ExtraClear(j) PROVE OnePlace'
  BY <1>9 DEF ExtraClear, OnePlace, Additional, TypeOK, PoolType, ThreadType, ExtraType,
      MaybeJob, poolVars, threadVars, extraVars
<1>10. CASE StopSweep
  BY <1>10 DEF StopSweep, AbortAndFence, OnePlace, Additional, TypeOK, PoolType, ThreadType,
      ExtraType, MaybeJob, poolVars, threadVars, extraVars
<1>11. CASE KillSweep
  BY <1>11 DEF KillSweep, AbortAndFence, OnePlace, Additional, TypeOK, PoolType, ThreadType,
      ExtraType, MaybeJob, poolVars, threadVars, extraVars
<1>12. ASSUME NEW t \in Threads, Wake(t) \/ CheckStop(t) \/ TakeNothing(t) \/ Abandon(t) \/
    Execute(t) \/ Return(t) \/ Release(t)
      PROVE  Same
  BY <1>12 DEF Wake, CheckStop, TakeNothing, Abandon, Execute, Return, Release, poolVars,
      threadVars, jobVars, slotVars, extraVars, stopVars, killVars
<1>13. ASSUME StopBegin \/ WaitSignal \/ StopSignal \/ StopJoin \/ StopNext \/ StopAbort \/
    StopJoinPair \/ WaitJoin \/ WaitPair \/ WaitEnd \/ KillNext \/ KillSkip \/ KillAbort \/
    KillErase
      PROVE  Same
  BY <1>13 DEF StopBegin, WaitSignal, StopSignal, StopJoin, StopNext, StopAbort, StopJoinPair,
      WaitJoin, WaitPair, WaitEnd, KillNext, KillSkip, KillAbort, KillErase, poolVars,
      threadVars, jobVars, slotVars, extraVars, stopVars, killVars
<1>14. ASSUME NEW w \in Workers, KillBegin(w)
      PROVE  Same
  BY <1>14 DEF KillBegin, poolVars, threadVars, jobVars, slotVars, extraVars, stopVars, killVars
<1> HIDE DEF Same
<1> QED
  BY <1>0, <1>1, <1>2, <1>3, <1>4, <1>5, <1>6, <1>7, <1>8, <1>9, <1>10, <1>11, <1>12, <1>13,
      <1>14 DEF Next, Thread, Add, Extra, Stop, Kill

\* A job is counted as executed or fenced only by the thread that has it.
LEMMA CountersStep ==
  ASSUME TypeOK, ThreadState, OnePlace, ExtraState, Counters, Next
  PROVE  Counters'
<1> DEFINE Same == UNCHANGED <<jobs, added, runs, fences, my, pc>>
<1>0. Same => Counters'
  BY DEF Counters, TypeOK, PoolType, ThreadType, JobType, OnePlace, ThreadState
<1>1. ASSUME NEW t \in Threads, Wake(t) PROVE Counters'
  BY <1>1 DEF Wake, Counters, TypeOK, PoolType, ThreadType, JobType, OnePlace, ThreadState,
      poolVars, jobVars, threadVars
<1>2. ASSUME NEW t \in Threads, CheckStop(t) PROVE Counters'
  BY <1>2 DEF CheckStop, Counters, TypeOK, PoolType, ThreadType, JobType, OnePlace, ThreadState,
      poolVars, jobVars, threadVars
<1>3. ASSUME NEW t \in Threads, TakeNothing(t) PROVE Counters'
  BY <1>3 DEF TakeNothing, Counters, TypeOK, PoolType, ThreadType, JobType, OnePlace,
      ThreadState, poolVars, jobVars, threadVars
<1>4. ASSUME NEW t \in Threads, Take(t) PROVE Counters'
  BY <1>4, JobsAssumption DEF Take, Publish, CountUp, Counters, TypeOK, PoolType, ThreadType,
      JobType, OnePlace, ThreadState, Front, MaybeJob, poolVars, jobVars, threadVars
<1>5. ASSUME NEW t \in Threads, Abandon(t) PROVE Counters'
  BY <1>5 DEF Abandon, Counters, TypeOK, PoolType, ThreadType, JobType, OnePlace, ThreadState,
      poolVars, jobVars, threadVars
<1>6. ASSUME NEW t \in Threads, Execute(t) PROVE Counters'
  BY <1>6, JobsAssumption DEF Execute, Counters, TypeOK, PoolType, ThreadType, JobType, OnePlace,
      ThreadState, MaybeJob, poolVars, jobVars, threadVars
<1>7. ASSUME NEW t \in Threads, Return(t) PROVE Counters'
  BY <1>7 DEF Return, Counters, TypeOK, PoolType, ThreadType, JobType, OnePlace, ThreadState,
      poolVars, jobVars, threadVars
<1>8. ASSUME NEW t \in Threads, Release(t) PROVE Counters'
  BY <1>8 DEF Release, Counters, TypeOK, PoolType, ThreadType, JobType, OnePlace, ThreadState,
      poolVars, jobVars, threadVars
<1>9. ASSUME NEW t \in Threads, Fence(t) PROVE Counters'
  BY <1>9, JobsAssumption DEF Fence, Counters, TypeOK, PoolType, ThreadType, JobType, OnePlace,
      ThreadState, MaybeJob, poolVars, jobVars, threadVars
<1>10. ASSUME NEW j \in Jobs, AddJobStopped(j) PROVE Counters'
  BY <1>10 DEF AddJobStopped, Counters, TypeOK, PoolType, ThreadType, JobType, OnePlace,
      ThreadState, poolVars, jobVars, threadVars
<1>11. ASSUME NEW j \in Jobs, AddJobAdditional(j) PROVE Counters'
  BY <1>11 DEF AddJobAdditional, runAdditionalThread, Counters, TypeOK, PoolType, ThreadType,
      JobType, OnePlace, ThreadState, poolVars, jobVars, threadVars
<1>12. ASSUME NEW j \in Jobs, AddJobQueued(j) PROVE Counters'
  BY <1>12 DEF AddJobQueued, SignalOne, Counters, TypeOK, PoolType, ThreadType, JobType,
      OnePlace, ThreadState, poolVars, jobVars, threadVars
<1>13. ASSUME NEW j \in Jobs, ExtraStart(j) PROVE Counters'
  <2> DEFINE k == slot[xptr[j]].job
  <2>1. UNCHANGED <<jobs, added, fences, my, pc>>
    BY <1>13 DEF ExtraStart, poolVars, threadVars
  <2>2. CASE k = NoJob
    <3>1. runs' = runs
      BY <1>13, <2>2 DEF ExtraStart
    <3> QED
      BY <1>0, <2>1, <3>1
  <2>3. CASE k # NoJob
    <3>1. runs' = [runs EXCEPT ![k] = @ + 1]
      BY <1>13, <2>3 DEF ExtraStart
    <3>2. k \in added \ jobs /\ \A t \in Threads : my[t] # k
      <4>1. k \in Jobs /\ Additional(k)
        BY <1>13, <2>3, JobsAssumption DEF ExtraStart, TypeOK, ExtraState, ExtraType, SlotType, Pair,
           MaybeJob, Additional
      <4> HIDE DEF k
      <4> QED
        BY <4>1, JobsAssumption DEF OnePlace
    <3> HIDE DEF k
    <3>3. runs \in [Jobs -> Nat] /\ my \in [Threads -> MaybeJob]
      BY DEF TypeOK, JobType, ThreadType
    <3>4. \A i \in Jobs : i # k => runs'[i] = runs[i]
      BY <3>1, <3>3
    <3>5. \A t \in Threads : my[t] # NoJob => runs'[my[t]] = runs[my[t]]
      BY <3>2, <3>3, <3>4 DEF MaybeJob
    <3>6. \A t \in Threads : pc[t] = "got" => my[t] # NoJob
      BY JobsAssumption DEF ThreadState
    <3> QED
      BY <2>1, <3>2, <3>4, <3>5, <3>6 DEF Counters
  <2> QED
    BY <2>2, <2>3
<1>14. ASSUME NEW j \in Jobs, ExtraFence(j) PROVE Counters'
  BY <1>14, JobsAssumption DEF ExtraFence, Counters, TypeOK, PoolType, ThreadType, JobType,
      OnePlace, ThreadState, ExtraState, Additional, poolVars, jobVars, threadVars
<1>15. CASE StopSweep
  BY <1>15 DEF StopSweep, AbortAndFence, Counters, TypeOK, PoolType, ThreadType, JobType,
      OnePlace, ThreadState, poolVars, jobVars, threadVars
<1>16. CASE StopAbort
  BY <1>16, JobsAssumption DEF StopAbort, Counters, TypeOK, PoolType, ThreadType, JobType,
      OnePlace, ThreadState, ExtraState, Additional, StopType, Pair, MaybeJob, poolVars, jobVars,
      threadVars
<1>17. CASE KillSweep
  BY <1>17 DEF KillSweep, AbortAndFence, Counters, TypeOK, PoolType, ThreadType, JobType,
      OnePlace, ThreadState, poolVars, jobVars, threadVars
<1>18. CASE KillAbort
  BY <1>18, JobsAssumption DEF KillAbort, Counters, TypeOK, PoolType, ThreadType, JobType,
      OnePlace, ThreadState, ExtraState, Additional, KillType, Pair, MaybeJob, poolVars, jobVars,
      threadVars
<1>19. ASSUME NEW j \in Jobs, ExtraReturn(j) \/ ExtraClear(j)
      PROVE  Same
  BY <1>19 DEF ExtraReturn, ExtraClear, poolVars, threadVars, jobVars, slotVars, extraVars,
      stopVars, killVars
<1>20. ASSUME StopBegin \/ WaitSignal \/ StopSignal \/ StopJoin \/ StopNext \/ StopJoinPair \/
    WaitJoin \/ WaitPair \/ WaitEnd \/ KillNext \/ KillSkip \/ KillErase
      PROVE  Same
  BY <1>20 DEF StopBegin, WaitSignal, StopSignal, StopJoin, StopNext, StopJoinPair, WaitJoin,
      WaitPair, WaitEnd, KillNext, KillSkip, KillErase, poolVars, threadVars, jobVars, slotVars,
      extraVars, stopVars, killVars
<1>21. ASSUME NEW w \in Workers, KillBegin(w)
      PROVE  Same
  BY <1>21 DEF KillBegin, poolVars, threadVars, jobVars, slotVars, extraVars, stopVars, killVars
<1> HIDE DEF Same
<1> QED
  BY <1>0, <1>1, <1>2, <1>3, <1>4, <1>5, <1>6, <1>7, <1>8, <1>9, <1>10, <1>11, <1>12, <1>13,
      <1>14, <1>15, <1>16, <1>17, <1>18, <1>19, <1>20, <1>21 DEF Next, Thread, Add, Extra, Stop,
      Kill

\* After the sweep of forceStop the queue stays empty and no busy thread is spared.
LEMMA SweptStep ==
  ASSUME TypeOK, ThreadState, Swept, Next
  PROVE  Swept'
<1> DEFINE Same == UNCHANGED <<spc, stopFlag, jobs, job, aborting>>
<1>0. Same => Swept'
  BY DEF Swept, StopSwept, Busy, TypeOK, PoolType, ThreadType, JobType, StopType, StopPc, MaybeJob
<1>1. ASSUME NEW t \in Threads, Take(t) PROVE Swept'
  BY <1>1, JobsAssumption DEF Take, Publish, CountUp, Swept, StopSwept, Busy, TypeOK, PoolType,
      ThreadType, JobType, StopType, StopPc, MaybeJob, Front, stopVars, poolVars, threadVars,
      jobVars
<1>2. ASSUME NEW t \in Threads, Release(t) PROVE Swept'
  BY <1>2 DEF Release, Swept, StopSwept, Busy, TypeOK, PoolType, ThreadType, JobType, StopType,
      StopPc, MaybeJob, stopVars, poolVars, threadVars, jobVars
<1>3. ASSUME NEW j \in Jobs, AddJobQueued(j) PROVE Swept'
  BY <1>3 DEF AddJobQueued, SignalOne, Swept, StopSwept, Busy, TypeOK, PoolType, ThreadType,
      JobType, StopType, StopPc, MaybeJob, stopVars, poolVars, threadVars, jobVars
<1>4. CASE StopBegin
  BY <1>4 DEF StopBegin, Swept, StopSwept, Busy, TypeOK, PoolType, ThreadType, JobType, StopType,
      StopPc, MaybeJob, stopVars, poolVars, threadVars, jobVars
<1>5. CASE WaitSignal
  BY <1>5 DEF WaitSignal, SignalAll, Swept, StopSwept, Busy, TypeOK, PoolType, ThreadType,
      JobType, StopType, StopPc, MaybeJob, stopVars, poolVars, threadVars, jobVars
<1>6. CASE StopSignal
  BY <1>6 DEF StopSignal, SignalAll, Swept, StopSwept, Busy, TypeOK, PoolType, ThreadType,
      JobType, StopType, StopPc, MaybeJob, stopVars, poolVars, threadVars, jobVars
<1>7. CASE StopSweep
  BY <1>7 DEF StopSweep, AbortAndFence, Swept, StopSwept, Busy, TypeOK, PoolType, ThreadType,
      JobType, StopType, StopPc, MaybeJob, stopVars, poolVars, threadVars, jobVars
<1>8. CASE StopJoin
  BY <1>8 DEF StopJoin, Swept, StopSwept, Busy, TypeOK, PoolType, ThreadType, JobType, StopType,
      StopPc, MaybeJob, stopVars, poolVars, threadVars, jobVars
<1>9. CASE StopNext
  BY <1>9 DEF StopNext, Swept, StopSwept, Busy, TypeOK, PoolType, ThreadType, JobType, StopType,
      StopPc, MaybeJob, stopVars, poolVars, threadVars, jobVars
<1>10. CASE StopAbort
  BY <1>10 DEF StopAbort, Swept, StopSwept, Busy, TypeOK, PoolType, ThreadType, JobType,
      StopType, StopPc, MaybeJob, stopVars, poolVars, threadVars, jobVars
<1>11. CASE StopJoinPair
  BY <1>11 DEF StopJoinPair, Swept, StopSwept, Busy, TypeOK, PoolType, ThreadType, JobType,
      StopType, StopPc, MaybeJob, stopVars, poolVars, threadVars, jobVars
<1>12. CASE WaitJoin
  BY <1>12 DEF WaitJoin, Swept, StopSwept, Busy, TypeOK, PoolType, ThreadType, JobType, StopType,
      StopPc, MaybeJob, stopVars, poolVars, threadVars, jobVars
<1>13. CASE WaitPair
  BY <1>13 DEF WaitPair, Swept, StopSwept, Busy, TypeOK, PoolType, ThreadType, JobType, StopType,
      StopPc, MaybeJob, stopVars, poolVars, threadVars, jobVars
<1>14. CASE WaitEnd
  BY <1>14 DEF WaitEnd, Swept, StopSwept, Busy, TypeOK, PoolType, ThreadType, JobType, StopType,
      StopPc, MaybeJob, stopVars, poolVars, threadVars, jobVars
<1>15. CASE KillSweep
  BY <1>15 DEF KillSweep, AbortAndFence, Swept, StopSwept, Busy, TypeOK, PoolType, ThreadType,
      JobType, StopType, StopPc, MaybeJob, stopVars, poolVars, threadVars, jobVars
<1>16. CASE KillAbort
  BY <1>16 DEF KillAbort, Swept, StopSwept, Busy, TypeOK, PoolType, ThreadType, JobType,
      StopType, StopPc, MaybeJob, stopVars, poolVars, threadVars, jobVars
<1>17. ASSUME NEW t \in Threads, Wake(t) \/ CheckStop(t) \/ TakeNothing(t) \/ Abandon(t) \/
    Execute(t) \/ Return(t) \/ Fence(t)
      PROVE  Same
  BY <1>17 DEF Wake, CheckStop, TakeNothing, Abandon, Execute, Return, Fence, poolVars,
      threadVars, jobVars, slotVars, extraVars, stopVars, killVars
<1>18. ASSUME NEW j \in Jobs, AddJobStopped(j) \/ AddJobAdditional(j) \/ ExtraStart(j) \/
    ExtraReturn(j) \/ ExtraFence(j) \/ ExtraClear(j)
      PROVE  Same
  BY <1>18 DEF AddJobStopped, AddJobAdditional, ExtraStart, ExtraReturn, ExtraFence, ExtraClear,
      poolVars, threadVars, jobVars, slotVars, extraVars, stopVars, killVars
<1>19. ASSUME KillNext \/ KillSkip \/ KillErase
      PROVE  Same
  BY <1>19 DEF KillNext, KillSkip, KillErase, poolVars, threadVars, jobVars, slotVars, extraVars,
      stopVars, killVars
<1>20. ASSUME NEW w \in Workers, KillBegin(w)
      PROVE  Same
  BY <1>20 DEF KillBegin, poolVars, threadVars, jobVars, slotVars, extraVars, stopVars, killVars
<1> HIDE DEF Same
<1> QED
  BY <1>0, <1>1, <1>2, <1>3, <1>4, <1>5, <1>6, <1>7, <1>8, <1>9, <1>10, <1>11, <1>12, <1>13,
      <1>14, <1>15, <1>16, <1>17, <1>18, <1>19, <1>20 DEF Next, Thread, Add, Extra, Stop, Kill

\* Only jobs of additional threads are reached through the deque of pairs.
LEMMA ExtraStateStep ==
  ASSUME TypeOK, ExtraState, Next
  PROVE  ExtraState'
<1> DEFINE Same == UNCHANGED <<slot, hi, scur, kcur, kpc, ki, xpc, xjob>>
<1>0. Same => ExtraState'
  BY DEF ExtraState, Additional, TypeOK, SlotType, ExtraType, StopType, KillType, Slots, Pair,
      NoPair, MaybeJob, ExtraPc
<1>1. ASSUME NEW j \in Jobs, AddJobAdditional(j) PROVE ExtraState'
  BY <1>1, SizesNat DEF AddJobAdditional, runAdditionalThread, ExtraState, Additional, TypeOK,
      SlotType, ExtraType, StopType, KillType, Slots, Pair, NoPair, MaybeJob, ExtraPc, slotVars,
      stopVars, killVars, extraVars
<1>2. ASSUME NEW j \in Jobs, ExtraStart(j) PROVE ExtraState'
  <2>1. xptr[j] \in Slots /\ xpc[j] = "start"
    BY <1>2 DEF ExtraStart, TypeOK, ExtraType
  <2>2. CASE slot[xptr[j]].job = NoJob
    <3>1. xpc' = [xpc EXCEPT ![j] = "crashed"] /\ xjob' = xjob
      BY <1>2, <2>2 DEF ExtraStart
    <3>2. \A x \in Jobs : Additional(x) => Additional(x)'
      BY <3>1 DEF Additional, TypeOK, ExtraType
    <3>3. slot' = slot /\ hi' = hi /\ scur' = scur /\ kcur' = kcur /\ kpc' = kpc /\ ki' = ki
      BY <1>2 DEF ExtraStart, slotVars, stopVars, killVars
    <3> QED
      BY <3>1, <3>2, <3>3 DEF ExtraState, TypeOK, ExtraType, SlotType, StopType, KillType, Pair,
         MaybeJob
  <2>3. CASE slot[xptr[j]].job # NoJob
    <3> DEFINE k == slot[xptr[j]].job
    <3>1. xpc' = [xpc EXCEPT ![j] = "exec"] /\ xjob' = [xjob EXCEPT ![j] = k]
      BY <1>2, <2>3 DEF ExtraStart
    <3>2. k \in Jobs /\ Additional(k)
      BY <2>1, <2>3 DEF ExtraState, TypeOK, SlotType, Pair, MaybeJob
    <3>3. \A x \in Jobs : Additional(x) => Additional(x)'
      BY <3>1 DEF Additional, TypeOK, ExtraType
    <3>4. slot' = slot /\ hi' = hi /\ scur' = scur /\ kcur' = kcur /\ kpc' = kpc /\ ki' = ki
      BY <1>2 DEF ExtraStart, slotVars, stopVars, killVars
    <3> HIDE DEF k
    <3> QED
      BY <3>1, <3>2, <3>3, <3>4 DEF ExtraState, TypeOK, ExtraType, SlotType, StopType, KillType,
         Pair, MaybeJob
  <2> QED
    BY <2>2, <2>3
<1>3. ASSUME NEW j \in Jobs, ExtraReturn(j) PROVE ExtraState'
  BY <1>3 DEF ExtraReturn, ExtraState, Additional, TypeOK, SlotType, ExtraType, StopType,
      KillType, Slots, Pair, NoPair, MaybeJob, ExtraPc, slotVars, stopVars, killVars, extraVars
<1>4. ASSUME NEW j \in Jobs, ExtraFence(j) PROVE ExtraState'
  BY <1>4 DEF ExtraFence, ExtraState, Additional, TypeOK, SlotType, ExtraType, StopType,
      KillType, Slots, Pair, NoPair, MaybeJob, ExtraPc, slotVars, stopVars, killVars, extraVars
<1>5. ASSUME NEW j \in Jobs, ExtraClear(j) PROVE ExtraState'
  BY <1>5 DEF ExtraClear, ExtraState, Additional, TypeOK, SlotType, ExtraType, StopType,
      KillType, Slots, Pair, NoPair, MaybeJob, ExtraPc, slotVars, stopVars, killVars, extraVars
<1>6. CASE StopNext
  <2>1. ASSUME ~(si > send) PROVE si \in Slots
    BY <2>1, SizesNat DEF TypeOK, StopType, Slots
  <2>2. scur'.job # NoJob => Additional(scur'.job)
    BY <1>6, <2>1 DEF StopNext, ExtraState, NoPair
  <2>3. xpc' = xpc /\ xjob' = xjob /\ slot' = slot /\ hi' = hi
        /\ kcur' = kcur /\ kpc' = kpc /\ ki' = ki
    BY <1>6 DEF StopNext, slotVars, extraVars, killVars
  <2> QED
    BY <2>2, <2>3 DEF ExtraState, Additional
<1>7. ASSUME NEW w \in Workers, KillBegin(w) PROVE ExtraState'
  BY <1>7 DEF KillBegin, SignalAll, ExtraState, Additional, TypeOK, SlotType, ExtraType,
      StopType, KillType, Slots, Pair, NoPair, MaybeJob, ExtraPc, slotVars, stopVars, killVars,
      extraVars
<1>8. CASE KillSweep
  BY <1>8 DEF KillSweep, AbortAndFence, ExtraState, Additional, TypeOK, SlotType, ExtraType,
      StopType, KillType, Slots, Pair, NoPair, MaybeJob, ExtraPc, slotVars, stopVars, killVars,
      extraVars
<1>9. CASE KillNext
  <2>1. ASSUME ~(ki > hi) PROVE ki \in Slots /\ ki <= hi
    BY <2>1, SizesNat DEF TypeOK, KillType, SlotType, Slots
  <2>2. /\ kcur'.job # NoJob => Additional(kcur'.job)
        /\ kpc' \in {"test", "join"} => ki <= hi
        /\ kpc' # "join"
    BY <1>9, <2>1 DEF KillNext, ExtraState, NoPair
  <2>3. xpc' = xpc /\ xjob' = xjob /\ slot' = slot /\ hi' = hi /\ scur' = scur /\ ki' = ki
    BY <1>9 DEF KillNext, slotVars, extraVars, stopVars
  <2> QED
    BY <2>2, <2>3 DEF ExtraState, Additional
<1>10. CASE KillSkip
  BY <1>10 DEF KillSkip, ExtraState, Additional, TypeOK, SlotType, ExtraType, StopType, KillType,
      Slots, Pair, NoPair, MaybeJob, ExtraPc, slotVars, stopVars, killVars, extraVars
<1>11. CASE KillAbort
  BY <1>11 DEF KillAbort, ExtraState, Additional, TypeOK, SlotType, ExtraType, StopType,
      KillType, Slots, Pair, NoPair, MaybeJob, ExtraPc, slotVars, stopVars, killVars, extraVars
<1>12. CASE KillErase
  <2>1. xpc' = xpc /\ xjob' = xjob /\ scur' = scur /\ kcur' = kcur /\ kpc' = "next"
    BY <1>12 DEF KillErase, extraVars, stopVars
  <2>2. \A p \in Slots : \E q \in Slots : slot'[p] = slot[q]
    <3>1. /\ ki \in Nat \ {0} /\ ki <= hi /\ lo \in Nat \ {0}
          /\ hi \in Slots /\ \A q \in 1 .. hi : q \in Slots
      BY <1>12, SizesNat DEF KillErase, ExtraState, TypeOK, KillType, SlotType, Slots
    <3>2. CASE 2 * (ki - lo) < hi + 1 - lo
      <4>1. \A p \in Slots : lo < p /\ p <= ki => p - 1 \in Slots
        BY <3>1 DEF Slots
      <4> QED
        BY <1>12, <3>2, <4>1 DEF KillErase, EraseSlot
    <3>3. CASE ~(2 * (ki - lo) < hi + 1 - lo)
      <4>1. \A p \in Slots : ki <= p /\ p < hi => p + 1 \in Slots
        BY <3>1 DEF Slots
      <4> QED
        BY <1>12, <3>3, <4>1 DEF KillErase, EraseSlot
    <3> QED
      BY <3>2, <3>3
  <2>3. \A p \in Slots : slot'[p].job # NoJob => Additional(slot'[p].job)
    BY <2>2 DEF ExtraState
  <2> QED
    BY <2>1, <2>3 DEF ExtraState, Additional, Slots
<1>13. ASSUME NEW t \in Threads, Wake(t) \/ CheckStop(t) \/ TakeNothing(t) \/ Take(t) \/
    Abandon(t) \/ Execute(t) \/ Return(t) \/ Release(t) \/ Fence(t)
      PROVE  Same
  BY <1>13 DEF Wake, CheckStop, TakeNothing, Take, Abandon, Execute, Return, Release, Fence,
      poolVars, threadVars, jobVars, slotVars, extraVars, stopVars, killVars
<1>14. ASSUME NEW j \in Jobs, AddJobStopped(j) \/ AddJobQueued(j)
      PROVE  Same
  BY <1>14 DEF AddJobStopped, AddJobQueued, poolVars, threadVars, jobVars, slotVars, extraVars,
      stopVars, killVars
<1>15. ASSUME StopBegin \/ WaitSignal \/ StopSignal \/ StopSweep \/ StopJoin \/ StopAbort \/
    StopJoinPair \/ WaitJoin \/ WaitPair \/ WaitEnd
      PROVE  Same
  BY <1>15 DEF StopBegin, WaitSignal, StopSignal, StopSweep, StopJoin, StopAbort, StopJoinPair,
      WaitJoin, WaitPair, WaitEnd, poolVars, threadVars, jobVars, slotVars, extraVars, stopVars,
      killVars
<1> HIDE DEF Same
<1> QED
  BY <1>0, <1>1, <1>2, <1>3, <1>4, <1>5, <1>6, <1>7, <1>8, <1>9, <1>10, <1>11, <1>12, <1>13,
      <1>14, <1>15 DEF Next, Thread, Add, Extra, Stop, Kill

\* No operation runs or fences a second time a job that went through the queue.
LEMMA PoolJobOnceStep ==
  ASSUME TypeOK, ThreadState, OnePlace, ExtraState, Counters, PoolJobOnce, Next
  PROVE  PoolJobOnce'
<1> DEFINE Same == UNCHANGED <<runs, fences, xpc>>
<1>0. Same => PoolJobOnce'
  BY DEF PoolJobOnce, Additional, TypeOK, PoolType, ThreadType, JobType, ExtraType, Counters
<1>1. ASSUME NEW t \in Threads, Execute(t) PROVE PoolJobOnce'
  BY <1>1, JobsAssumption DEF Execute, PoolJobOnce, Additional, TypeOK, PoolType, ThreadType,
      JobType, ExtraType, Counters, ThreadState, MaybeJob, jobVars, extraVars
<1>2. ASSUME NEW t \in Threads, Fence(t) PROVE PoolJobOnce'
  BY <1>2, JobsAssumption DEF Fence, PoolJobOnce, Additional, TypeOK, PoolType, ThreadType,
      JobType, ExtraType, Counters, ThreadState, jobVars, extraVars
<1>3. ASSUME NEW j \in Jobs, AddJobStopped(j) PROVE PoolJobOnce'
  BY <1>3 DEF AddJobStopped, PoolJobOnce, Additional, TypeOK, PoolType, ThreadType, JobType,
      ExtraType, Counters, jobVars, extraVars
<1>4. ASSUME NEW j \in Jobs, AddJobAdditional(j) PROVE PoolJobOnce'
  BY <1>4 DEF AddJobAdditional, runAdditionalThread, PoolJobOnce, Additional, TypeOK, PoolType,
      ThreadType, JobType, ExtraType, Counters, jobVars, extraVars
<1>5. ASSUME NEW j \in Jobs, ExtraStart(j) PROVE PoolJobOnce'
  BY <1>5 DEF ExtraStart, PoolJobOnce, Additional, TypeOK, PoolType, ThreadType, JobType,
      ExtraType, Counters, ExtraState, SlotType, Pair, jobVars, extraVars
<1>6. ASSUME NEW j \in Jobs, ExtraReturn(j) PROVE PoolJobOnce'
  BY <1>6 DEF ExtraReturn, PoolJobOnce, Additional, TypeOK, PoolType, ThreadType, JobType,
      ExtraType, Counters, jobVars, extraVars
<1>7. ASSUME NEW j \in Jobs, ExtraFence(j) PROVE PoolJobOnce'
  BY <1>7 DEF ExtraFence, PoolJobOnce, Additional, TypeOK, PoolType, ThreadType, JobType,
      ExtraType, Counters, ExtraState, jobVars, extraVars
<1>8. ASSUME NEW j \in Jobs, ExtraClear(j) PROVE PoolJobOnce'
  BY <1>8 DEF ExtraClear, PoolJobOnce, Additional, TypeOK, PoolType, ThreadType, JobType,
      ExtraType, Counters, jobVars, extraVars
<1>9. CASE StopSweep
  BY <1>9 DEF StopSweep, AbortAndFence, PoolJobOnce, Additional, TypeOK, PoolType, ThreadType,
      JobType, ExtraType, Counters, jobVars, extraVars
<1>10. CASE StopAbort
  BY <1>10 DEF StopAbort, PoolJobOnce, Additional, TypeOK, PoolType, ThreadType, JobType,
      ExtraType, Counters, ExtraState, StopType, Pair, MaybeJob, jobVars, extraVars
<1>11. CASE KillSweep
  BY <1>11 DEF KillSweep, AbortAndFence, PoolJobOnce, Additional, TypeOK, PoolType, ThreadType,
      JobType, ExtraType, Counters, jobVars, extraVars
<1>12. CASE KillAbort
  BY <1>12 DEF KillAbort, PoolJobOnce, Additional, TypeOK, PoolType, ThreadType, JobType,
      ExtraType, Counters, ExtraState, KillType, Pair, MaybeJob, jobVars, extraVars
<1>13. ASSUME NEW t \in Threads, Wake(t) \/ CheckStop(t) \/ TakeNothing(t) \/ Take(t) \/
    Abandon(t) \/ Return(t) \/ Release(t)
      PROVE  Same
  BY <1>13 DEF Wake, CheckStop, TakeNothing, Take, Abandon, Return, Release, poolVars,
      threadVars, jobVars, slotVars, extraVars, stopVars, killVars
<1>14. ASSUME NEW j \in Jobs, AddJobQueued(j)
      PROVE  Same
  BY <1>14 DEF AddJobQueued, poolVars, threadVars, jobVars, slotVars, extraVars, stopVars, killVars
<1>15. ASSUME StopBegin \/ WaitSignal \/ StopSignal \/ StopJoin \/ StopNext \/ StopJoinPair \/
    WaitJoin \/ WaitPair \/ WaitEnd \/ KillNext \/ KillSkip \/ KillErase
      PROVE  Same
  BY <1>15 DEF StopBegin, WaitSignal, StopSignal, StopJoin, StopNext, StopJoinPair, WaitJoin,
      WaitPair, WaitEnd, KillNext, KillSkip, KillErase, poolVars, threadVars, jobVars, slotVars,
      extraVars, stopVars, killVars
<1>16. ASSUME NEW w \in Workers, KillBegin(w)
      PROVE  Same
  BY <1>16 DEF KillBegin, poolVars, threadVars, jobVars, slotVars, extraVars, stopVars, killVars
<1> HIDE DEF Same
<1> QED
  BY <1>0, <1>1, <1>2, <1>3, <1>4, <1>5, <1>6, <1>7, <1>8, <1>9, <1>10, <1>11, <1>12, <1>13,
      <1>14, <1>15, <1>16 DEF Next, Thread, Add, Extra, Stop, Kill

\* runcount follows Thread::job in the only two steps that set or clear it.
LEMMA RuncountStep ==
  ASSUME TypeOK, ThreadState, RuncountExact, Next
  PROVE  RuncountExact'
<1> DEFINE B == {u \in Threads : Busy(u)}
           Same == UNCHANGED <<job, runcount>>
<1>0. Same => RuncountExact'
  BY DEF RuncountExact, Busy
<1>1. IsFiniteSet(B) /\ Cardinality(B) \in Nat /\ runcount = Cardinality(B)
  BY ThreadsAssumption, FS_Subset, FS_CardinalityType DEF RuncountExact
<1>2. ASSUME NEW t \in Threads, Take(t) PROVE RuncountExact'
  <2>1. B' = B \cup {t} /\ t \notin B
    BY <1>2, JobsAssumption
    DEF Take, Publish, Front, Busy, ThreadState, TypeOK, PoolType, ThreadType
  <2>2. Cardinality(B') = Cardinality(B) + 1
    BY <1>1, <2>1, FS_AddElement
  <2>3. runcount' = runcount + 1
    BY <1>2 DEF Take, CountUp
  <2> QED
    BY <1>1, <2>2, <2>3 DEF RuncountExact
<1>3. ASSUME NEW t \in Threads, Release(t) PROVE RuncountExact'
  <2>1. B' = B \ {t} /\ t \in B
    BY <1>3, JobsAssumption DEF Release, Busy, ThreadState, TypeOK, ThreadType
  <2>2. Cardinality(B') = Cardinality(B) - 1
    BY <1>1, <2>1, FS_RemoveElement
  <2>3. runcount' = runcount - 1
    BY <1>3 DEF Release
  <2> QED
    BY <1>1, <2>2, <2>3 DEF RuncountExact
<1>4. ASSUME NEW t \in Threads,
             Wake(t) \/ CheckStop(t) \/ TakeNothing(t) \/ Abandon(t) \/ Execute(t) \/ Return(t)
             \/ Fence(t)
      PROVE  Same
  BY <1>4 DEF Wake, CheckStop, TakeNothing, Abandon, Execute, Return, Fence, poolVars, threadVars
<1>5. ASSUME NEW j \in Jobs, Add(j) \/ Extra(j)
      PROVE  Same
  BY <1>5 DEF Add, AddJobStopped, AddJobAdditional, AddJobQueued, Extra, ExtraStart, ExtraReturn,
     ExtraFence, ExtraClear, poolVars, threadVars
<1>6. ASSUME StopBegin \/ WaitSignal \/ Stop
      PROVE  Same
  BY <1>6 DEF StopBegin, WaitSignal, Stop, StopSignal, StopSweep, StopJoin, StopNext, StopAbort,
     StopJoinPair, WaitJoin, WaitPair, WaitEnd, poolVars, threadVars
<1>7. ASSUME Kill \/ \E w \in Workers : KillBegin(w)
      PROVE  Same
  BY <1>7 DEF Kill, KillBegin, KillSweep, KillNext, KillSkip, KillAbort, KillErase, poolVars,
     threadVars
<1> HIDE DEF Same
<1> QED
  BY <1>0, <1>2, <1>3, <1>4, <1>5, <1>6, <1>7 DEF Next, Thread

\* Every step that adds a job adds a permit, and every step that uses a permit
\* up either takes a job or finds no job to take.
LEMMA PermitStep ==
  ASSUME TypeOK, PermitCover, Next
  PROVE  PermitCover'
<1> DEFINE W == {u \in Threads : pc[u] \in {"woken", "lock"}}
           Same == UNCHANGED <<jobs, numJobs, stopFlag>> /\ W' = W
<1>0. Same => PermitCover'
  BY DEF PermitCover
<1>1. IsFiniteSet(W) /\ Cardinality(W) \in Nat /\ W \subseteq Threads
  BY ThreadsAssumption, FS_Subset, FS_CardinalityType
<1>2. IsFiniteSet(jobs) /\ Cardinality(jobs) \in Nat /\ numJobs \in Nat /\ poolSize \in Nat
  BY JobsAssumption, ThreadsAssumption, FS_Subset, FS_CardinalityType DEF TypeOK, PoolType
<1>3. ASSUME ~stopFlag PROVE Cardinality(jobs) <= numJobs + Cardinality(W)
  BY <1>3 DEF PermitCover
<1>4. ASSUME NEW t \in Threads, Wake(t) PROVE PermitCover'
  <2>1. W' = W \cup {t} /\ t \notin W
    BY <1>4 DEF Wake, TypeOK, ThreadType
  <2>2. Cardinality(W') = Cardinality(W) + 1
    BY <1>1, <2>1, FS_AddElement
  <2>3. numJobs' = numJobs - 1 /\ jobs' = jobs /\ stopFlag' = stopFlag
    BY <1>4 DEF Wake
  <2> QED
    BY <1>1, <1>2, <1>3, <2>2, <2>3 DEF PermitCover
<1>5. ASSUME NEW t \in Threads, CheckStop(t) PROVE PermitCover'
  <2>1. CASE stopFlag
    BY <1>5, <2>1 DEF CheckStop, PermitCover, poolVars
  <2>2. CASE ~stopFlag
    <3>1. W' = W
      BY <1>5, <2>2 DEF CheckStop, TypeOK, ThreadType
    <3> QED
      BY <1>0, <1>5, <3>1 DEF CheckStop, poolVars
  <2> QED
    BY <2>1, <2>2
<1>6. ASSUME NEW t \in Threads, TakeNothing(t) PROVE PermitCover'
  <2>1. jobs' = {} /\ numJobs' = numJobs
    BY <1>6 DEF TakeNothing, poolVars
  <2>2. Cardinality(W') \in Nat
    BY ThreadsAssumption, FS_Subset, FS_CardinalityType
  <2> QED
    BY <1>2, <2>1, <2>2, FS_EmptySet DEF PermitCover
<1>7. ASSUME NEW t \in Threads, Take(t) PROVE PermitCover'
  <2>1. PICK j \in Jobs : j \in jobs /\ jobs' = jobs \ {j}
    BY <1>7 DEF Take, Front
  <2>2. W' = W \ {t} /\ t \in W
    BY <1>7 DEF Take, TypeOK, ThreadType
  <2>3. Cardinality(W') = Cardinality(W) - 1 /\ Cardinality(jobs') = Cardinality(jobs) - 1
    <3> HIDE DEF W
    <3>1. Cardinality(W') = Cardinality(W) - 1
      BY <1>1, <2>2, FS_RemoveElement
    <3>2. Cardinality(jobs') = Cardinality(jobs) - 1
      BY <1>2, <2>1, FS_RemoveElement
    <3> QED
      BY <3>1, <3>2
  <2>4. numJobs' = numJobs /\ stopFlag' = stopFlag
    BY <1>7 DEF Take
  <2> QED
    BY <1>1, <1>2, <1>3, <2>3, <2>4 DEF PermitCover
<1>8. ASSUME NEW t \in Threads, Abandon(t) \/ Execute(t) \/ Return(t) \/ Release(t) \/ Fence(t)
      PROVE  Same
  BY <1>8 DEF Abandon, Execute, Return, Release, Fence, poolVars, TypeOK, ThreadType
<1>9. ASSUME NEW j \in Jobs, AddJobQueued(j) PROVE PermitCover'
  <2>0. jobs' = jobs \cup {j}
    BY <1>9 DEF AddJobQueued
  <2>1. IsFiniteSet(jobs')
        /\ Cardinality(jobs') = IF j \in jobs THEN Cardinality(jobs) ELSE Cardinality(jobs) + 1
    BY <1>2, <2>0, FS_AddElement
  <2>2. Cardinality(jobs') \in Nat
    BY <2>1, FS_CardinalityType
  <2>3. numJobs' = numJobs + 1 /\ stopFlag' = stopFlag /\ W' = W
    BY <1>9 DEF AddJobQueued, SignalOne, threadVars
  <2> QED
    BY <1>1, <1>2, <1>3, <2>1, <2>2, <2>3 DEF PermitCover
<1>10. ASSUME NEW j \in Jobs, AddJobStopped(j) \/ AddJobAdditional(j) \/ Extra(j)
       PROVE  Same
  BY <1>10 DEF AddJobStopped, AddJobAdditional, Extra, ExtraStart, ExtraReturn, ExtraFence,
     ExtraClear, poolVars, threadVars
<1>11. CASE StopBegin
  BY <1>11 DEF StopBegin, PermitCover
<1>12. ASSUME WaitSignal \/ StopSignal \/ \E w \in Workers : KillBegin(w)
       PROVE  PermitCover'
  <2>1. numJobs' = numJobs + poolSize /\ jobs' = jobs /\ stopFlag' = stopFlag /\ W' = W
    BY <1>12 DEF WaitSignal, StopSignal, KillBegin, SignalAll, threadVars
  <2> QED
    BY <1>1, <1>2, <1>3, <2>1 DEF PermitCover
<1>13. ASSUME StopSweep \/ KillSweep PROVE PermitCover'
  <2>1. jobs' \subseteq jobs /\ numJobs' = numJobs /\ stopFlag' = stopFlag /\ W' = W
    BY <1>13 DEF StopSweep, KillSweep, AbortAndFence, threadVars
  <2>2. Cardinality(jobs') \in Nat /\ Cardinality(jobs') <= Cardinality(jobs)
    BY <1>2, <2>1, FS_Subset, FS_CardinalityType
  <2> QED
    BY <1>1, <1>2, <1>3, <2>1, <2>2 DEF PermitCover
<1>14. ASSUME StopJoin \/ StopNext \/ StopAbort \/ StopJoinPair \/ WaitJoin \/ WaitPair \/ WaitEnd
       PROVE  Same
  BY <1>14 DEF StopJoin, StopNext, StopAbort, StopJoinPair, WaitJoin, WaitPair, WaitEnd, poolVars,
     threadVars
<1>15. ASSUME KillNext \/ KillSkip \/ KillAbort \/ KillErase
       PROVE  Same
  BY <1>15 DEF KillNext, KillSkip, KillAbort, KillErase, poolVars, threadVars
<1> HIDE DEF Same
<1> QED
  BY <1>0, <1>4, <1>5, <1>6, <1>7, <1>8, <1>9, <1>10, <1>11, <1>12, <1>13, <1>14, <1>15
  DEF Next, Thread, Add, Stop, Kill

-----------------------------------------------------------------------------
LEMMA InitIInv == ASSUME Init PROVE IInv
<1> USE DEF Init
<1>1. TypeOK
  <2>1. NoPair \in Pair /\ NoJob \in MaybeJob /\ 1 \in Slots
    BY SizesNat DEF NoPair, Pair, MaybeJob, Slots
  <2>2. PoolType /\ ThreadType /\ JobType
    BY <2>1, SizesNat DEF PoolType, ThreadType, JobType, ThreadPc
  <2>3. SlotType /\ ExtraType
    BY <2>1 DEF SlotType, ExtraType, ExtraPc
  <2>4. StopType /\ KillType
    BY <2>1 DEF StopType, KillType, StopPc, KillPc
  <2> QED
    BY <2>2, <2>3, <2>4 DEF TypeOK
<1>2. ThreadState /\ Swept
  BY DEF ThreadState, Swept, StopSwept
<1>3. OnePlace /\ ExtraState /\ Counters /\ PoolJobOnce
  <2>1. jobs = {} /\ added = {} /\ \A t \in Threads : my[t] = NoJob /\ pc[t] = "wait"
    OBVIOUS
  <2>2. \A j \in Jobs : runs[j] = 0 /\ fences[j] = 0 /\ ~Additional(j)
    BY DEF Additional
  <2>3. OnePlace
    BY <2>1, <2>2 DEF OnePlace
  <2>4. ExtraState
    BY DEF ExtraState, Additional, NoPair, Slots
  <2>5. Counters
    BY <2>1, <2>2 DEF Counters
  <2>6. PoolJobOnce
    BY <2>2 DEF PoolJobOnce
  <2> QED
    BY <2>3, <2>4, <2>5, <2>6
<1>4. RuncountExact /\ PermitCover
  <2>1. {t \in Threads : Busy(t)} = {} /\ {t \in Threads : pc[t] \in {"woken", "lock"}} = {}
    BY DEF Busy
  <2>2. Cardinality({}) = 0
    BY FS_EmptySet
  <2>3. RuncountExact
    BY <2>1, <2>2 DEF RuncountExact
  <2>4. PermitCover
    <3>1. jobs = {} /\ numJobs = 0
      OBVIOUS
    <3> QED
      BY <2>1, <2>2, <3>1 DEF PermitCover
  <2> QED
    BY <2>3, <2>4
<1> QED
  BY <1>1, <1>2, <1>3, <1>4 DEF IInv

LEMMA StepIInv == ASSUME IInv, [Next]_vars PROVE IInv'
<1>1. CASE Next
  BY <1>1, TypeStep, ThreadStateStep, OnePlaceStep, ExtraStateStep, CountersStep, SweptStep,
     PoolJobOnceStep, RuncountStep, PermitStep
  DEF IInv
<1>2. CASE UNCHANGED vars
  <2>1. UNCHANGED <<poolVars, threadVars, jobVars, slotVars, extraVars, stopVars, killVars>>
    BY <1>2 DEF vars
  <2>2. TypeOK'
    BY <2>1, TypeFrames DEF IInv, TypeOK
  <2>3. ThreadState' /\ Swept' /\ RuncountExact' /\ PermitCover'
    BY <2>1 DEF IInv, ThreadState, Swept, StopSwept, RuncountExact, PermitCover, Busy,
       poolVars, threadVars, jobVars, stopVars
  <2>4. OnePlace' /\ ExtraState' /\ Counters' /\ PoolJobOnce'
    BY <2>1 DEF IInv, OnePlace, ExtraState, Counters, PoolJobOnce, Additional, Slots,
       poolVars, threadVars, jobVars, slotVars, extraVars, stopVars, killVars
  <2> QED
    BY <2>2, <2>3, <2>4 DEF IInv
<1> QED
  BY <1>1, <1>2

\* The invariant holds in every reachable state, whatever the number of
\* threads, jobs and workers.
THEOREM Invariant == Spec => []IInv
<1>1. Init => IInv
  BY InitIInv
<1>2. IInv /\ [Next]_vars => IInv'
  BY StepIInv
<1> QED
  BY <1>1, <1>2, PTL DEF Spec

\* Every variable of the pool keeps its type, the slots of additionalThreads
\* that forceStop and forceStopWorker read included.
THEOREM TypeCorrect == Spec => []TypeOK
<1>1. IInv => TypeOK
  BY DEF IInv
<1> QED
  BY <1>1, Invariant, PTL

\* addJob's count of busy threads is exact, and no queued job is without a wake-up.
THEOREM QueueAccounting == Spec => [](RuncountExact /\ PermitCover)
<1>1. IInv => RuncountExact /\ PermitCover
  BY DEF IInv
<1> QED
  BY <1>1, Invariant, PTL

\* A job that goes through the queue is run once, fenced once, and not touched
\* by a worker thread after its fence.
THEOREM PoolJobSafe == Spec => [](PoolJobOnce /\ PoolJobUnfenced)
<1>1. IInv => PoolJobOnce /\ PoolJobUnfenced
  BY DEF IInv, Counters, PoolJobUnfenced, TypeOK, PoolType
<1> QED
  BY <1>1, Invariant, PTL

\* The sweep of forceStop misses no job a worker thread still executes.
THEOREM SweepAborts == Spec => []NoMissedAbort
<1>1. IInv => NoMissedAbort
  BY JobsAssumption DEF IInv, Swept, NoMissedAbort, ThreadState, Busy, TypeOK, ThreadType
<1> QED
  BY <1>1, Invariant, PTL

\* threadAbort() is called on a job of the pool only before its jobFence().
THEOREM AbortsUnfenced == Spec => AbortOnlyUnfenced
<1> DEFINE A == \A j \in Jobs : aborting'[j] # aborting[j] /\ ~Additional(j) => fences[j] = 0
           Same == aborting' = aborting
<1>0. Same => A
  OBVIOUS
<1>1. ASSUME IInv, StopSweep \/ KillSweep PROVE A
  <2>1. \A j \in Jobs : aborting'[j] # aborting[j] => \E t \in Threads : job[t] = j
    BY <1>1 DEF StopSweep, KillSweep, AbortAndFence, IInv, TypeOK, JobType
  <2>2. \A t \in Threads : job[t] # NoJob => my[t] = job[t]
    BY <1>1 DEF IInv, ThreadState, TypeOK, ThreadType, ThreadPc
  <2> QED
    BY <1>1, <2>1, <2>2, JobsAssumption DEF IInv, Counters
<1>2. ASSUME IInv, StopAbort PROVE A
  BY <1>2 DEF StopAbort, IInv, ExtraState, TypeOK, JobType
<1>3. ASSUME IInv, KillAbort PROVE A
  BY <1>3 DEF KillAbort, IInv, ExtraState, TypeOK, JobType
<1>4. ASSUME NEW t \in Threads, Thread(t) PROVE Same
  BY <1>4 DEF Thread, Wake, CheckStop, TakeNothing, Take, Abandon, Execute, Return, Release, Fence,
     jobVars
<1>5. ASSUME NEW j \in Jobs, Add(j) \/ Extra(j) PROVE Same
  BY <1>5 DEF Add, AddJobStopped, AddJobAdditional, AddJobQueued, Extra, ExtraStart, ExtraReturn,
     ExtraFence, ExtraClear, jobVars
<1>6. ASSUME StopBegin \/ WaitSignal \/ StopSignal \/ StopJoin \/ StopNext \/ StopJoinPair
             \/ WaitJoin \/ WaitPair \/ WaitEnd
      PROVE  Same
  BY <1>6 DEF StopBegin, WaitSignal, StopSignal, StopJoin, StopNext, StopJoinPair, WaitJoin,
     WaitPair, WaitEnd, jobVars
<1>7. ASSUME KillNext \/ KillSkip \/ KillErase \/ \E w \in Workers : KillBegin(w) PROVE Same
  BY <1>7 DEF KillNext, KillSkip, KillErase, KillBegin, jobVars
<1>8. UNCHANGED vars => Same
  BY DEF vars, jobVars
<1> HIDE DEF Same, A
<1>9. IInv /\ [Next]_vars => A
  BY <1>0, <1>1, <1>2, <1>3, <1>4, <1>5, <1>6, <1>7, <1>8 DEF Next, Stop, Kill
<1>10. IInv /\ [Next]_vars => [A]_vars
  BY <1>9
<1> USE DEF A
<1> QED
  BY <1>10, Invariant, PTL DEF Spec, AbortOnlyUnfenced

(***************************************************************************)
(* The pool treats a job that goes through its queue as the comments of    *)
(* IThreadJob promise: every step of ThreadPool is, under JobStatus, a     *)
(* step of JobLifecycle or leaves the status of every job alone.           *)
(***************************************************************************)

StatusOf(j) ==
    IF \E t \in Threads : my[t] = j /\ Runs(t) THEN "running"
    ELSE IF fences[j] > 0 /\ ~Additional(j) THEN "fenced"
    ELSE IF j \in jobs \/ \E t \in Threads : my[t] = j THEN "waiting"
    ELSE "new"

LEMMA StatusIs == JobStatus = [j \in Jobs |-> StatusOf(j)]
  BY DEF JobStatus, StatusOf

\* The status at each place of a job.
LEMMA StatusAtPlace ==
  IInv => \A j \in Jobs :
            /\ j \in jobs => StatusOf(j) = "waiting"
            /\ j \notin added => StatusOf(j) = "new"
            /\ \A t \in Threads :
                 my[t] = j => StatusOf(j) = IF Runs(t) THEN "running" ELSE "waiting"
<1> SUFFICES ASSUME IInv, NEW j \in Jobs
             PROVE  /\ j \in jobs => StatusOf(j) = "waiting"
                    /\ j \notin added => StatusOf(j) = "new"
                    /\ \A t \in Threads :
                         my[t] = j => StatusOf(j) = IF Runs(t) THEN "running" ELSE "waiting"
  OBVIOUS
<1>1. fences[j] \in Nat /\ j # NoJob
  BY JobsAssumption DEF IInv, TypeOK, JobType
<1>2. ASSUME j \in jobs PROVE StatusOf(j) = "waiting"
  <2>1. fences[j] = 0 /\ \A t \in Threads : my[t] # j
    BY <1>1, <1>2 DEF IInv, Counters, OnePlace
  <2> QED
    BY <1>2, <2>1 DEF StatusOf
<1>3. ASSUME j \notin added PROVE StatusOf(j) = "new"
  <2>1. fences[j] = 0 /\ j \notin jobs /\ \A t \in Threads : my[t] # j
    BY <1>1, <1>3 DEF IInv, Counters, OnePlace
  <2> QED
    BY <2>1 DEF StatusOf
<1>4. ASSUME NEW t \in Threads, my[t] = j
      PROVE  StatusOf(j) = IF Runs(t) THEN "running" ELSE "waiting"
  <2>1. fences[j] = 0 /\ \A u \in Threads : my[u] = j => u = t
    BY <1>1, <1>4 DEF IInv, Counters, OnePlace
  <2> QED
    BY <1>4, <2>1 DEF StatusOf
<1> QED
  BY <1>2, <1>3, <1>4

\* What the status of a job depends on.
Kept(j) ==
    /\ j \in jobs' <=> j \in jobs
    /\ \A t \in Threads : my'[t] = j <=> my[t] = j
    /\ \A t \in Threads : my[t] = j => (Runs(t)' <=> Runs(t))
    /\ Additional(j)' <=> Additional(j)
    /\ fences'[j] = fences[j] \/ Additional(j)

LEMMA KeptStatus == ASSUME NEW j \in Jobs, Kept(j) PROVE StatusOf(j)' = StatusOf(j)
<1>1. (\E t \in Threads : my[t] = j /\ Runs(t))' <=> (\E t \in Threads : my[t] = j /\ Runs(t))
  BY DEF Kept
<1>2. (j \in jobs \/ \E t \in Threads : my[t] = j)' <=> (j \in jobs \/ \E t \in Threads : my[t] = j)
  BY DEF Kept
<1>3. (fences[j] > 0 /\ ~Additional(j))' <=> (fences[j] > 0 /\ ~Additional(j))
  BY DEF Kept
<1> QED
  BY <1>1, <1>2, <1>3 DEF StatusOf

\* A step that changes the status of one job at most.
LEMMA OneMoves ==
  ASSUME NEW j \in Jobs, \A k \in Jobs \ {j} : StatusOf(k)' = StatusOf(k)
  PROVE  JobStatus' = [JobStatus EXCEPT ![j] = StatusOf(j)']
<1>1. JobStatus' = [k \in Jobs |-> StatusOf(k)']
  BY DEF JobStatus, StatusOf
<1> QED
  BY <1>1, StatusIs

Stutter == JobStatus' = JobStatus

LEMMA AllKept == ASSUME \A j \in Jobs : Kept(j) PROVE Stutter
<1>1. \A j \in Jobs : StatusOf(j)' = StatusOf(j)
  BY KeptStatus
<1>2. JobStatus' = [k \in Jobs |-> StatusOf(k)']
  BY DEF JobStatus, StatusOf
<1> QED
  BY <1>1, <1>2, StatusIs DEF Stutter

-----------------------------------------------------------------------------
(***************************************************************************)
(* The steps                                                               *)
(***************************************************************************)

\* A move of one job in the words of JobLifecycle.
LEMMA MoveIs ==
  ASSUME NEW j \in Jobs, NEW from, NEW to, StatusOf(j) = from, StatusOf(j)' = to,
         \A k \in Jobs \ {j} : Kept(k)
  PROVE  Lifecycle!Move(j, from, to)
<1>1. \A k \in Jobs \ {j} : StatusOf(k)' = StatusOf(k)
  BY KeptStatus
<1>2. JobStatus' = [JobStatus EXCEPT ![j] = to]
  BY <1>1, OneMoves
<1> QED
  BY <1>2, StatusIs DEF Lifecycle!Move

\* The positions of a worker thread that do not change what the job is.
LEMMA ThreadKept ==
  ASSUME IInv, NEW t \in Threads,
         Wake(t) \/ CheckStop(t) \/ TakeNothing(t) \/ Abandon(t) \/ Return(t) \/ Release(t)
  PROVE  Stutter
<1>1. my' = my /\ jobs' = jobs /\ fences' = fences /\ xpc' = xpc
  BY DEF Wake, CheckStop, TakeNothing, Abandon, Return, Release, poolVars, jobVars, extraVars
<1>2. \A u \in Threads : my[u] # NoJob => (Runs(u)' <=> Runs(u))
  BY DEF Wake, CheckStop, TakeNothing, Abandon, Return, Release, Runs, IInv, TypeOK, ThreadType,
     ThreadState
<1>3. \A j \in Jobs : Kept(j)
  BY <1>1, <1>2, JobsAssumption DEF Kept, Additional
<1> QED
  BY <1>3, AllKept

LEMMA OthersKept ==
  ASSUME IInv,
         \/ \E x \in Jobs : AddJobAdditional(x) \/ Extra(x)
         \/ StopBegin \/ WaitSignal \/ StopSignal \/ StopJoin \/ StopNext \/ StopAbort
         \/ StopJoinPair \/ WaitJoin \/ WaitPair \/ WaitEnd
         \/ KillNext \/ KillSkip \/ KillAbort \/ KillErase \/ \E w \in Workers : KillBegin(w)
         \/ UNCHANGED vars
  PROVE  Stutter
<1> USE DEF Kept
<1>1. ASSUME NEW x \in Jobs, AddJobAdditional(x) PROVE Stutter
  <2>1. my' = my /\ pc' = pc /\ jobs' = jobs /\ fences' = fences
    BY <1>1 DEF AddJobAdditional, threadVars, jobVars
  <2>2. \A j \in Jobs \ {x} : Kept(j)
    BY <1>1, <2>1 DEF AddJobAdditional, runAdditionalThread, Additional, Runs, IInv, TypeOK,
       ExtraType
  <2>3. StatusOf(x)' = "new" /\ StatusOf(x) = "new"
    <3>1. x \notin jobs /\ fences[x] = 0 /\ \A t \in Threads : my[t] # x
      BY <1>1, JobsAssumption DEF AddJobAdditional, IInv, OnePlace, Counters
    <3> QED
      BY <2>1, <3>1 DEF StatusOf
  <2>4. JobStatus' = [JobStatus EXCEPT ![x] = "new"]
    BY <2>2, <2>3, KeptStatus, OneMoves
  <2> QED
    BY <2>3, <2>4, StatusIs DEF Stutter
<1>2. ASSUME NEW x \in Jobs, Extra(x) PROVE Stutter
  <2>1. my' = my /\ pc' = pc /\ jobs' = jobs
    BY <1>2 DEF Extra, ExtraStart, ExtraReturn, ExtraFence, ExtraClear, threadVars, poolVars
  <2>2. \A j \in Jobs : Additional(j)' <=> Additional(j)
    BY <1>2 DEF Extra, ExtraStart, ExtraReturn, ExtraFence, ExtraClear, Additional, IInv, TypeOK,
       ExtraType
  <2>3. \A j \in Jobs : fences'[j] = fences[j] \/ Additional(j)
    BY <1>2 DEF Extra, ExtraStart, ExtraReturn, ExtraFence, ExtraClear, jobVars, IInv, ExtraState,
       TypeOK, JobType
  <2>4. \A j \in Jobs : Kept(j)
    BY <2>1, <2>2, <2>3 DEF Runs
  <2> QED
    BY <2>4, AllKept
<1>3. ASSUME StopAbort \/ KillAbort PROVE Stutter
  <2>1. my' = my /\ pc' = pc /\ jobs' = jobs /\ xpc' = xpc
    BY <1>3 DEF StopAbort, KillAbort, threadVars, poolVars, extraVars
  <2>2. \A j \in Jobs : fences'[j] = fences[j] \/ Additional(j)
    BY <1>3 DEF StopAbort, KillAbort, IInv, ExtraState, TypeOK, JobType
  <2>3. \A j \in Jobs : Kept(j)
    BY <2>1, <2>2 DEF Runs, Additional
  <2> QED
    BY <2>3, AllKept
<1>4. ASSUME my' = my /\ pc' = pc /\ jobs' = jobs /\ xpc' = xpc /\ fences' = fences PROVE Stutter
  <2>1. \A j \in Jobs : Kept(j)
    BY <1>4 DEF Runs, Additional
  <2> QED
    BY <2>1, AllKept
<1>5. ASSUME StopBegin \/ WaitSignal \/ StopSignal \/ StopJoin \/ StopNext \/ StopJoinPair
             \/ WaitJoin \/ WaitPair \/ WaitEnd
      PROVE  Stutter
  BY <1>4, <1>5 DEF StopBegin, WaitSignal, StopSignal, StopJoin, StopNext, StopJoinPair, WaitJoin,
     WaitPair, WaitEnd, poolVars, threadVars, jobVars, extraVars
<1>6. ASSUME KillNext \/ KillSkip \/ KillErase \/ (\E w \in Workers : KillBegin(w)) \/ UNCHANGED vars
      PROVE  Stutter
  BY <1>4, <1>6 DEF KillNext, KillSkip, KillErase, KillBegin, vars, poolVars, threadVars, jobVars,
     extraVars
<1> QED
  BY <1>1, <1>2, <1>3, <1>5, <1>6

LEMMA TakeKept == ASSUME IInv, NEW t \in Threads, Take(t) PROVE Stutter
<1>1. PICK j \in Jobs : /\ j \in jobs /\ jobs' = jobs \ {j}
                       /\ my' = [my EXCEPT ![t] = j] /\ pc' = [pc EXCEPT ![t] = "got"]
  BY DEF Take, Front
<1>2. fences' = fences /\ xpc' = xpc
  BY DEF Take, jobVars, extraVars
<1>3. my[t] = NoJob
  BY DEF Take, IInv, ThreadState
<1>4. \A k \in Jobs \ {j} : Kept(k)
  BY <1>1, <1>2, <1>3, JobsAssumption DEF Kept, Runs, Additional, IInv, TypeOK, ThreadType
<1>5. StatusOf(j) = "waiting"
  BY <1>1, StatusAtPlace
<1>6. StatusOf(j)' = "waiting"
  <2>1. fences[j] = 0 /\ \A u \in Threads : my[u] # j
    BY <1>1, JobsAssumption DEF IInv, Counters, OnePlace
  <2>2. my'[t] = j /\ \A u \in Threads : my'[u] = j => ~Runs(u)'
    BY <1>1, <2>1 DEF Runs, IInv, TypeOK, ThreadType
  <2> QED
    BY <1>2, <2>1, <2>2 DEF StatusOf
<1>7. JobStatus' = [JobStatus EXCEPT ![j] = "waiting"]
  BY <1>4, <1>6, KeptStatus, OneMoves
<1> QED
  BY <1>5, <1>7, StatusIs DEF Stutter

LEMMA ExecuteStarts ==
  ASSUME IInv, NEW t \in Threads, Execute(t) PROVE Lifecycle!Start(my[t])
<1>1. PICK j \in Jobs : j = my[t] /\ ~Runs(t)
  BY DEF Execute, Runs, IInv, ThreadState
<1>2. my' = my /\ jobs' = jobs /\ fences' = fences /\ xpc' = xpc /\ pc' = [pc EXCEPT ![t] = "exec"]
  BY DEF Execute, poolVars, extraVars
<1>3. StatusOf(j) = "waiting"
  BY <1>1, StatusAtPlace
<1>4. StatusOf(j)' = "running"
  BY <1>1, <1>2 DEF StatusOf, Runs, IInv, TypeOK, ThreadType
<1>5. \A k \in Jobs \ {j} : Kept(k)
  BY <1>1, <1>2 DEF Kept, Runs, Additional, IInv, TypeOK, ThreadType
<1> QED
  BY <1>1, <1>3, <1>4, <1>5, MoveIs DEF Lifecycle!Start

LEMMA FenceFinishes ==
  ASSUME IInv, NEW t \in Threads, Fence(t) PROVE Lifecycle!Finish(my[t])
<1>1. PICK j \in Jobs : j = my[t] /\ Runs(t) /\ ~Additional(j) /\ fences[j] = 0
  BY JobsAssumption DEF Fence, Runs, IInv, ThreadState, OnePlace, Counters
<1>2. /\ my' = [my EXCEPT ![t] = NoJob] /\ pc' = [pc EXCEPT ![t] = "wait"]
      /\ fences' = [fences EXCEPT ![j] = 1] /\ jobs' = jobs /\ xpc' = xpc
  BY <1>1 DEF Fence, poolVars, extraVars
<1>3. StatusOf(j) = "running"
  BY <1>1, StatusAtPlace
<1>4. StatusOf(j)' = "fenced"
  <2>1. \A u \in Threads : my'[u] # j
    BY <1>1, <1>2, JobsAssumption DEF IInv, OnePlace, TypeOK, ThreadType
  <2>2. fences'[j] = 1 /\ ~Additional(j)'
    BY <1>1, <1>2 DEF IInv, TypeOK, JobType, Additional
  <2> QED
    BY <2>1, <2>2 DEF StatusOf
<1>5. \A k \in Jobs \ {j} : Kept(k)
  BY <1>1, <1>2, JobsAssumption DEF Kept, Runs, Additional, IInv, TypeOK, ThreadType, JobType
<1> QED
  BY <1>1, <1>3, <1>4, <1>5, MoveIs DEF Lifecycle!Finish

LEMMA AddMoves ==
  ASSUME IInv, NEW j \in Jobs, AddJobStopped(j) \/ AddJobQueued(j)
  PROVE  Lifecycle!Refuse(j) \/ Lifecycle!Submit(j)
<1>1. j \notin added /\ ~Additional(j) /\ fences[j] = 0 /\ \A t \in Threads : my[t] # j
  BY JobsAssumption DEF AddJobStopped, AddJobQueued, IInv, OnePlace, Counters
<1>2. my' = my /\ pc' = pc /\ xpc' = xpc
  BY DEF AddJobStopped, AddJobQueued, threadVars, extraVars
<1>3. StatusOf(j) = "new"
  BY <1>1, StatusAtPlace
<1>4. \A k \in Jobs \ {j} : Kept(k)
  BY <1>2 DEF AddJobStopped, AddJobQueued, Kept, Runs, Additional, IInv, TypeOK, JobType, jobVars
<1>5. CASE AddJobStopped(j)
  <2>1. StatusOf(j)' = "fenced"
    BY <1>1, <1>2, <1>5 DEF AddJobStopped, StatusOf, Additional, IInv, TypeOK, JobType
  <2> QED
    BY <1>3, <1>4, <2>1, MoveIs DEF Lifecycle!Refuse
<1>6. CASE AddJobQueued(j)
  <2>1. StatusOf(j)' = "waiting"
    BY <1>1, <1>2, <1>6 DEF AddJobQueued, StatusOf, jobVars
  <2> QED
    BY <1>3, <1>4, <2>1, MoveIs DEF Lifecycle!Submit
<1> QED
  BY <1>5, <1>6

\* Both sweeps fence what they take out of the queue.
LEMMA SweepDrops ==
  ASSUME IInv, StopSweep \/ KillSweep
  PROVE  \E S \in SUBSET Jobs : Lifecycle!Drop(S)
<1>1. PICK A \in SUBSET Jobs : AbortAndFence(A)
  BY DEF StopSweep, KillSweep
<1> DEFINE S == A \cap jobs
<1>2. my' = my /\ pc' = pc /\ xpc' = xpc
  BY DEF StopSweep, KillSweep, threadVars, extraVars
<1>3. /\ \A j \in S : fences[j] = 0 /\ ~Additional(j) /\ \A t \in Threads : my[t] # j
      /\ S \in SUBSET Jobs
  BY JobsAssumption DEF IInv, OnePlace, Counters
<1>4. \A j \in S : StatusOf(j) = "waiting"
  BY StatusAtPlace
<1>5. \A j \in S : StatusOf(j)' = "fenced"
  BY <1>1, <1>2, <1>3 DEF AbortAndFence, StatusOf, Additional
<1>6. \A j \in Jobs \ S : Kept(j)
  BY <1>1, <1>2 DEF AbortAndFence, Kept, Runs, Additional
<1>7. \A j \in Jobs \ S : StatusOf(j)' = StatusOf(j)
  BY <1>6, KeptStatus
<1>8. JobStatus' = [j \in Jobs |-> StatusOf(j)']
  BY DEF JobStatus, StatusOf
<1>9. JobStatus' = [j \in Jobs |-> IF j \in S THEN "fenced" ELSE JobStatus[j]]
  BY <1>5, <1>7, <1>8, StatusIs
<1> HIDE DEF S
<1> QED
  BY <1>3, <1>4, <1>9, StatusIs DEF Lifecycle!Drop

-----------------------------------------------------------------------------
LEMMA RefinementInit == Init => Lifecycle!Init
  BY JobsAssumption DEF Init, Lifecycle!Init, JobStatus, Runs, Additional

LEMMA RefinementStep == ASSUME IInv, [Next]_vars PROVE Lifecycle!Next \/ Stutter
<1>1. ASSUME NEW t \in Threads, Thread(t) PROVE Lifecycle!Next \/ Stutter
  <2>1. my[t] \in Jobs \/ ~(Execute(t) \/ Fence(t))
    BY DEF Execute, Fence, IInv, ThreadState
  <2> QED
    BY <1>1, <2>1, ThreadKept, TakeKept, ExecuteStarts, FenceFinishes DEF Thread, Lifecycle!Next
<1>2. ASSUME NEW j \in Jobs, Add(j) PROVE Lifecycle!Next \/ Stutter
  BY <1>2, AddMoves, OthersKept DEF Add, Lifecycle!Next
<1>3. ASSUME StopSweep \/ KillSweep PROVE Lifecycle!Next \/ Stutter
  BY <1>3, SweepDrops DEF Lifecycle!Next
<1> QED
  BY <1>1, <1>2, <1>3, OthersKept DEF Next, Stop, Kill

\* A job that goes through the queue is started at most once and fenced once at
\* the end, as the comments of IThreadJob promise, for any number of threads.
THEOREM Refinement == Spec => ImplementsLifecycle
<1>1. Init => Lifecycle!Init
  BY RefinementInit
<1>2. IInv /\ [Next]_vars => [Lifecycle!Next]_JobStatus
  BY RefinementStep DEF Stutter
<1> QED
  BY <1>1, <1>2, Invariant, PTL DEF Spec, ImplementsLifecycle, Lifecycle!Spec
=============================================================================
