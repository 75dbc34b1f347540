--------------------------- MODULE PoolTypeProofs ---------------------------
(***************************************************************************)
(* The parts of the inductive invariant of a pool that say who holds what: *)
(* the types, the local variables of a thread at each access of            *)
(* pool::allocate and pool::free, the mutex, and the memory the segments   *)
(* live in. Each lemma says that no step of any thread breaks one part;    *)
(* its proof has one step per action. The facts about stacks that these    *)
(* and the later proofs need come first.                                   *)
(***************************************************************************)
EXTENDS PoolProperties, FiniteSetTheorems, TLAPS

-----------------------------------------------------------------------------
(* Stacks of blocks: what a push and a pop do to the set of the elements   *)
(* of a stack and to their being distinct, and how many distinct blocks of *)
(* one segment a stack can hold                                            *)

(* The indices of a stack without its top are those of the stack but one.  *)
LEMMA IndicesBelowTop ==
  ASSUME NEW n \in Nat \ {0}
  PROVE  1..n = 1..(n - 1) \cup {n} /\ n \notin 1..(n - 1)
OBVIOUS

(* A push adds its element to the top.                                     *)
LEMMA PushElements ==
  ASSUME NEW S, NEW q \in Seq(S), NEW e \in S
  PROVE  /\ Append(q, e) \in Seq(S)
         /\ Len(Append(q, e)) = Len(q) + 1
         /\ ToSet(Append(q, e)) = ToSet(q) \cup {e}
<1>1. /\ Append(q, e) \in Seq(S)
      /\ Len(Append(q, e)) = Len(q) + 1
      /\ DOMAIN Append(q, e) = 1..(Len(q) + 1)
      /\ \A i \in 1..Len(q) : Append(q, e)[i] = q[i]
      /\ Append(q, e)[Len(q) + 1] = e
      /\ Len(q) \in Nat
      /\ DOMAIN q = 1..Len(q)
  OBVIOUS
<1>2. \A i \in 1..(Len(q) + 1) : i \in 1..Len(q) \/ i = Len(q) + 1
  BY <1>1
<1>3. ToSet(Append(q, e)) \subseteq ToSet(q) \cup {e}
  BY <1>1, <1>2 DEF ToSet
<1>4. ToSet(q) \cup {e} \subseteq ToSet(Append(q, e))
  BY <1>1 DEF ToSet
<1> QED
  BY <1>1, <1>3, <1>4

(* Pushing an element that is not on a stack keeps its elements distinct.  *)
LEMMA PushDistinct ==
  ASSUME NEW S, NEW q \in Seq(S), NEW e \in S,
         IsInjective(q), e \notin ToSet(q)
  PROVE  IsInjective(Append(q, e))
<1>1. /\ DOMAIN Append(q, e) = 1..(Len(q) + 1)
      /\ \A i \in 1..Len(q) : Append(q, e)[i] = q[i]
      /\ Append(q, e)[Len(q) + 1] = e
      /\ DOMAIN q = 1..Len(q)
      /\ Len(q) \in Nat
  OBVIOUS
<1>2. \A i \in 1..Len(q) : q[i] # e
  BY <1>1 DEF ToSet
<1>3. SUFFICES ASSUME NEW a \in 1..(Len(q) + 1), NEW b \in 1..(Len(q) + 1),
                      Append(q, e)[a] = Append(q, e)[b]
               PROVE  a = b
  BY <1>1 DEF IsInjective
<1>4. CASE a \in 1..Len(q) /\ b \in 1..Len(q)
  BY <1>1, <1>3, <1>4 DEF IsInjective
<1>5. CASE a = Len(q) + 1 \/ b = Len(q) + 1
  BY <1>1, <1>2, <1>3, <1>5
<1> QED
  BY <1>1, <1>4, <1>5

(* A pop takes the top away and leaves the rest.                           *)
LEMMA PopElements ==
  ASSUME NEW S, NEW q \in Seq(S), q # <<>>
  PROVE  /\ Front(q) \in Seq(S)
         /\ Last(q) \in S
         /\ Last(q) \in ToSet(q)
         /\ Len(Front(q)) = Len(q) - 1
         /\ ToSet(q) = ToSet(Front(q)) \cup {Last(q)}
<1>1. /\ Len(q) \in Nat \ {0}
      /\ DOMAIN q = 1..Len(q)
      /\ \A i \in 1..Len(q) : q[i] \in S
  OBVIOUS
<1>2. /\ Front(q) \in Seq(S)
      /\ Len(Front(q)) = Len(q) - 1
      /\ DOMAIN Front(q) = 1..(Len(q) - 1)
      /\ \A i \in 1..(Len(q) - 1) : Front(q)[i] = q[i]
  BY <1>1 DEF Front
<1>3. Last(q) \in S /\ Last(q) \in ToSet(q)
  BY <1>1 DEF Last, ToSet
<1>4. 1..Len(q) = 1..(Len(q) - 1) \cup {Len(q)}
  BY <1>1, IndicesBelowTop
<1>5. ToSet(q) \subseteq ToSet(Front(q)) \cup {Last(q)}
  BY <1>1, <1>2, <1>4 DEF ToSet, Last
<1>6. ToSet(Front(q)) \subseteq ToSet(q)
  BY <1>1, <1>2, <1>4 DEF ToSet
<1> QED
  BY <1>2, <1>3, <1>5, <1>6

(* A pop from a stack of distinct elements: they stay distinct, and the    *)
(* element popped is not on the stack any more.                            *)
LEMMA PopDistinct ==
  ASSUME NEW S, NEW q \in Seq(S), q # <<>>, IsInjective(q)
  PROVE  IsInjective(Front(q)) /\ Last(q) \notin ToSet(Front(q))
<1>1. /\ Len(q) \in Nat \ {0}
      /\ DOMAIN q = 1..Len(q)
  OBVIOUS
<1>2. /\ DOMAIN Front(q) = 1..(Len(q) - 1)
      /\ \A i \in 1..(Len(q) - 1) : Front(q)[i] = q[i]
  BY <1>1 DEF Front
<1>3. /\ 1..Len(q) = 1..(Len(q) - 1) \cup {Len(q)}
      /\ Len(q) \notin 1..(Len(q) - 1)
  BY <1>1, IndicesBelowTop
<1>4. IsInjective(Front(q))
  BY <1>1, <1>2, <1>3 DEF IsInjective
<1>5. \A i \in 1..(Len(q) - 1) : q[i] # q[Len(q)]
  <2> TAKE i \in 1..(Len(q) - 1)
  <2>1. i \in DOMAIN q /\ Len(q) \in DOMAIN q /\ i # Len(q)
    BY <1>1, <1>3
  <2> QED
    BY <2>1 DEF IsInjective
<1> QED
  BY <1>2, <1>4, <1>5 DEF ToSet, Last

(* A segment has BlocksPerSegment blocks.                                  *)
LEMMA NumberOfBlocks ==
  ASSUME NEW s \in Segments
  PROVE  IsFiniteSet(BlocksOf(s)) /\ Cardinality(BlocksOf(s)) = BlocksPerSegment
<1> DEFINE f == [i \in 1..BlocksPerSegment |-> [m_segment |-> s, index |-> i]]
<1>1. f \in Bijection(1..BlocksPerSegment, BlocksOf(s))
  <2>1. f \in [1..BlocksPerSegment -> BlocksOf(s)]
    BY DEF BlocksOf, Block
  <2>2. \A i, j \in 1..BlocksPerSegment : f[i] = f[j] => i = j
    OBVIOUS
  <2>3. \A b \in BlocksOf(s) : b.index \in 1..BlocksPerSegment /\ f[b.index] = b
    BY DEF BlocksOf, Block
  <2> QED
    BY <2>1, <2>2, <2>3 DEF Bijection, Injection, Surjection, IsInjective
<1>2. /\ IsFiniteSet(1..BlocksPerSegment)
      /\ Cardinality(1..BlocksPerSegment) = BlocksPerSegment
  BY SegmentAssumption, FS_Interval
<1> QED
  BY <1>1, <1>2, FS_Bijection DEF ExistsBijection

(* Pigeonhole: distinct blocks of one segment are at most                  *)
(* BlocksPerSegment, and that many, and no fewer, are all of them.         *)
LEMMA DistinctBlocks ==
  ASSUME NEW s \in Segments, NEW q \in Seq(Block),
         IsInjective(q), \A b \in ToSet(q) : b.m_segment = s
  PROVE  /\ Len(q) <= BlocksPerSegment
         /\ Len(q) = BlocksPerSegment <=> ToSet(q) = BlocksOf(s)
<1>1. /\ Len(q) \in Nat
      /\ DOMAIN q = 1..Len(q)
      /\ q \in [1..Len(q) -> Block]
  OBVIOUS
<1>2. ToSet(q) \subseteq BlocksOf(s)
  BY <1>1 DEF ToSet, BlocksOf
<1>3. q \in Bijection(1..Len(q), ToSet(q))
  BY <1>1 DEF ToSet, Bijection, Injection, Surjection
<1>4. IsFiniteSet(1..Len(q)) /\ Cardinality(1..Len(q)) = Len(q)
  BY <1>1, FS_Interval
<1>5. Cardinality(ToSet(q)) = Len(q)
  BY <1>3, <1>4, FS_Bijection DEF ExistsBijection
<1> QED
  BY <1>2, <1>5, NumberOfBlocks, FS_Subset

-----------------------------------------------------------------------------
(* Who holds what                                                          *)

(* The variables of pool and segment keep their types: a stack is only     *)
(* ever appended to and popped when it is not empty, and a thread pushes,  *)
(* pops and counts on the segment its local variable names.                *)
LEMMA TypeStep == TypeOK /\ LocalsMatchPc /\ [Next]_vars => TypeOK'
<1> SUFFICES ASSUME TypeOK, LocalsMatchPc, [Next]_vars PROVE TypeOK'
  OBVIOUS
<1> USE PoolAssumption, SegmentAssumption
    DEF TypeOK, SegmentTypeOK, segmentVars, localVars, LockedPcs,
        UnlockedPcs, AllocateLockedPcs, FreeLockedPcs, CollectPcs
<1>1. ASSUME NEW t \in Threads, AllocateHit(t) PROVE TypeOK'
  BY <1>1, PopElements DEF AllocateHit
<1>2. ASSUME NEW t \in Threads, AllocateMiss(t) PROVE TypeOK'
  BY <1>2 DEF AllocateMiss, Goto
<1>3. ASSUME NEW t \in Threads, NEW b \in owned, Free(t, b) PROVE TypeOK'
  BY <1>3 DEF Free, Goto, Block
<1>4. ASSUME NEW t \in Threads, Lock(t) PROVE TypeOK'
  BY <1>4 DEF Lock, Goto
<1>5. ASSUME NEW t \in Threads, PopLockedHit(t) PROVE TypeOK'
  BY <1>5, PopElements DEF PopLockedHit, Goto, PopAndUnlock
<1>6. ASSUME NEW t \in Threads, PopLockedMiss(t) PROVE TypeOK'
  BY <1>6 DEF PopLockedMiss, Goto
<1>7. ASSUME NEW t \in Threads, NEW s \in Segments, CollectNext(t, s)
      PROVE  TypeOK'
  BY <1>7 DEF CollectNext, Goto
<1>8. ASSUME NEW t \in Threads, ConsumeOne(t) PROVE TypeOK'
  BY <1>8, PopElements DEF ConsumeOne, Goto, PopFreed, LocalsMatchPc,
      SegmentPcs, BlockPcs
<1>9. ASSUME NEW t \in Threads, ConsumePush(t) PROVE TypeOK'
  BY <1>9, PushElements DEF ConsumePush, Goto, LocalsMatchPc, SegmentPcs,
      BlockPcs
<1>10. ASSUME NEW t \in Threads, ConsumeRelease(t) PROVE TypeOK'
  BY <1>10 DEF ConsumeRelease, Goto
<1>11. ASSUME NEW t \in Threads, ConsumeEnd(t) PROVE TypeOK'
  BY <1>11 DEF ConsumeEnd, Goto
<1>12. ASSUME NEW t \in Threads, Subtract(t) PROVE TypeOK'
  <2>1. -consumed[t] \in Int
    OBVIOUS
  <2>2. seg[t] \in Segments
    BY <1>12 DEF Subtract, Goto, LocalsMatchPc, SegmentPcs
  <2> QED
    BY <1>12, <2>1, <2>2 DEF Subtract, Goto, AddToNumFreed
<1>13. ASSUME NEW t \in Threads, PopCollectedHit(t) PROVE TypeOK'
  BY <1>13, PopElements DEF PopCollectedHit, Goto, PopAndUnlock
<1>14. ASSUME NEW t \in Threads, PopCollectedMiss(t) PROVE TypeOK'
  BY <1>14 DEF PopCollectedMiss, Goto
<1>15. ASSUME NEW t \in Threads, GrowHit(t) PROVE TypeOK'
  BY <1>15, PopElements DEF GrowHit, Goto, PopAndUnlock
<1>16. ASSUME NEW t \in Threads, GrowMiss(t) PROVE TypeOK'
  BY <1>16 DEF GrowMiss, Goto
<1>17. ASSUME NEW t \in Threads, NEW s \in Segments, NumaAllocate(t, s)
      PROVE  TypeOK'
  BY <1>17 DEF NumaAllocate, Goto, MapMemory, MemoryState
<1>18. ASSUME NEW t \in Threads, CheckAllocationThrows(t) PROVE TypeOK'
  BY <1>18 DEF CheckAllocationThrows, Goto
<1>19. ASSUME NEW t \in Threads, Register(t) PROVE TypeOK'
  BY <1>19 DEF Register, Goto, ConstructMembers, LocalsMatchPc, SegmentPcs,
      BlockPcs, MemoryState
<1>20. ASSUME NEW t \in Threads, RegisterThrows(t) PROVE TypeOK'
  BY <1>20 DEF RegisterThrows, Goto
<1>21. ASSUME NEW t \in Threads, ConstructPush(t) PROVE TypeOK'
  <2> DEFINE b == [m_segment |-> seg[t], index |-> left[t]]
  <2>1. b \in Block /\ left[t] - 1 \in 0..BlocksPerSegment
    BY <1>21 DEF ConstructPush, NextBlock, Block, LocalsMatchPc, SegmentPcs
  <2>2. Append(free_stack, b) \in Seq(Block)
    BY <2>1, PushElements
  <2> QED
    BY <1>21, <2>1, <2>2 DEF ConstructPush, NextBlock
<1>22. ASSUME NEW t \in Threads, Insert(t) PROVE TypeOK'
  BY <1>22 DEF Insert, Goto, LocalsMatchPc, SegmentPcs, BlockPcs
<1>23. ASSUME NEW t \in Threads, UnlockAndReturn(t) PROVE TypeOK'
  BY <1>23 DEF UnlockAndReturn, Goto, LocalsMatchPc, SegmentPcs, BlockPcs
<1>24. ASSUME NEW t \in Threads, FreePush(t) PROVE TypeOK'
  BY <1>24, PushElements DEF FreePush, Goto, PushFreed, LocalsMatchPc,
      SegmentPcs, BlockPcs
<1>25. ASSUME NEW t \in Threads, FreeIncrement(t) PROVE TypeOK'
  BY <1>25 DEF FreeIncrement, Goto, AddToNumFreed, LocalsMatchPc, SegmentPcs,
      BlockPcs
<1>26. ASSUME NEW t \in Threads, CheckEmpty(t) PROVE TypeOK'
  BY <1>26 DEF CheckEmpty, Goto
<1>27. ASSUME NEW t \in Threads, FreeLock(t) PROVE TypeOK'
  BY <1>27 DEF FreeLock, Goto
<1>28. ASSUME NEW t \in Threads, RecheckKeep(t) PROVE TypeOK'
  BY <1>28 DEF RecheckKeep, Goto
<1>29. ASSUME NEW t \in Threads, RecheckErase(t) PROVE TypeOK'
  BY <1>29 DEF RecheckErase, Goto, DestroyMembers, LocalsMatchPc, SegmentPcs,
      BlockPcs, MemoryState
<1>30. ASSUME NEW t \in Threads, ReleaseMemory(t) PROVE TypeOK'
  BY <1>30 DEF ReleaseMemory, Goto, UnmapMemory, MemoryState
<1>31. ASSUME NEW t \in Threads, FreeUnlock(t) PROVE TypeOK'
  BY <1>31 DEF FreeUnlock, Goto
<1>32. ASSUME UNCHANGED vars PROVE TypeOK'
  BY <1>32 DEF vars
<1> QED
  BY <1>1, <1>2, <1>3, <1>4, <1>5, <1>6, <1>7, <1>8, <1>9, <1>10, <1>11,
      <1>12, <1>13, <1>14, <1>15, <1>16, <1>17, <1>18, <1>19, <1>20, <1>21,
      <1>22, <1>23, <1>24, <1>25, <1>26, <1>27, <1>28, <1>29, <1>30, <1>31,
      <1>32 DEF Next, Call, Step, AllocateStep, FreeStep

(* At every access of allocate and free the thread holds the segment and   *)
(* the block that access works on, and no stale ones between calls.        *)
LEMMA LocalsStep ==
  TypeOK /\ LocalsMatchPc /\ [Next]_vars => LocalsMatchPc'
<1> SUFFICES ASSUME TypeOK, LocalsMatchPc, [Next]_vars PROVE LocalsMatchPc'
  OBVIOUS
<1> USE PoolAssumption
    DEF TypeOK, SegmentTypeOK, localVars, LocalsMatchPc, SegmentPcs, BlockPcs,
        FreeLockedPcs, CollectPcs
<1>1. ASSUME NEW t \in Threads, AllocateHit(t) PROVE LocalsMatchPc'
  BY <1>1 DEF AllocateHit
<1>2. ASSUME NEW t \in Threads, AllocateMiss(t) PROVE LocalsMatchPc'
  BY <1>2 DEF AllocateMiss, Goto
<1>3. ASSUME NEW t \in Threads, NEW b \in owned, Free(t, b) PROVE LocalsMatchPc'
  BY <1>3 DEF Free, Goto, Block
<1>4. ASSUME NEW t \in Threads, Lock(t) PROVE LocalsMatchPc'
  BY <1>4 DEF Lock, Goto
<1>5. ASSUME NEW t \in Threads, PopLockedHit(t) PROVE LocalsMatchPc'
  BY <1>5, PopElements DEF PopLockedHit, Goto, PopAndUnlock
<1>6. ASSUME NEW t \in Threads, PopLockedMiss(t) PROVE LocalsMatchPc'
  BY <1>6 DEF PopLockedMiss, Goto
<1>7. ASSUME NEW t \in Threads, NEW s \in Segments, CollectNext(t, s)
      PROVE  LocalsMatchPc'
  BY <1>7 DEF CollectNext, Goto
<1>8. ASSUME NEW t \in Threads, ConsumeOne(t) PROVE LocalsMatchPc'
  BY <1>8, PopElements DEF ConsumeOne, Goto
<1>9. ASSUME NEW t \in Threads, ConsumePush(t) PROVE LocalsMatchPc'
  BY <1>9 DEF ConsumePush, Goto
<1>10. ASSUME NEW t \in Threads, ConsumeRelease(t) PROVE LocalsMatchPc'
  BY <1>10 DEF ConsumeRelease, Goto
<1>11. ASSUME NEW t \in Threads, ConsumeEnd(t) PROVE LocalsMatchPc'
  BY <1>11 DEF ConsumeEnd, Goto
<1>12. ASSUME NEW t \in Threads, Subtract(t) PROVE LocalsMatchPc'
  BY <1>12 DEF Subtract, Goto
<1>13. ASSUME NEW t \in Threads, PopCollectedHit(t) PROVE LocalsMatchPc'
  BY <1>13, PopElements DEF PopCollectedHit, Goto, PopAndUnlock
<1>14. ASSUME NEW t \in Threads, PopCollectedMiss(t) PROVE LocalsMatchPc'
  BY <1>14 DEF PopCollectedMiss, Goto
<1>15. ASSUME NEW t \in Threads, GrowHit(t) PROVE LocalsMatchPc'
  BY <1>15, PopElements DEF GrowHit, Goto, PopAndUnlock
<1>16. ASSUME NEW t \in Threads, GrowMiss(t) PROVE LocalsMatchPc'
  BY <1>16 DEF GrowMiss, Goto
<1>17. ASSUME NEW t \in Threads, NEW s \in Segments, NumaAllocate(t, s)
      PROVE  LocalsMatchPc'
  BY <1>17 DEF NumaAllocate, Goto
<1>18. ASSUME NEW t \in Threads, CheckAllocationThrows(t) PROVE LocalsMatchPc'
  BY <1>18 DEF CheckAllocationThrows, Goto
<1>19. ASSUME NEW t \in Threads, Register(t) PROVE LocalsMatchPc'
  BY <1>19 DEF Register, Goto
<1>20. ASSUME NEW t \in Threads, RegisterThrows(t) PROVE LocalsMatchPc'
  BY <1>20 DEF RegisterThrows, Goto
<1>21. ASSUME NEW t \in Threads, ConstructPush(t) PROVE LocalsMatchPc'
  BY <1>21 DEF ConstructPush
<1>22. ASSUME NEW t \in Threads, Insert(t) PROVE LocalsMatchPc'
  BY <1>22 DEF Insert, Goto
<1>23. ASSUME NEW t \in Threads, UnlockAndReturn(t) PROVE LocalsMatchPc'
  BY <1>23 DEF UnlockAndReturn, Goto
<1>24. ASSUME NEW t \in Threads, FreePush(t) PROVE LocalsMatchPc'
  BY <1>24 DEF FreePush, Goto
<1>25. ASSUME NEW t \in Threads, FreeIncrement(t) PROVE LocalsMatchPc'
  BY <1>25 DEF FreeIncrement, Goto
<1>26. ASSUME NEW t \in Threads, CheckEmpty(t) PROVE LocalsMatchPc'
  BY <1>26 DEF CheckEmpty, Goto
<1>27. ASSUME NEW t \in Threads, FreeLock(t) PROVE LocalsMatchPc'
  BY <1>27 DEF FreeLock, Goto
<1>28. ASSUME NEW t \in Threads, RecheckKeep(t) PROVE LocalsMatchPc'
  BY <1>28 DEF RecheckKeep, Goto
<1>29. ASSUME NEW t \in Threads, RecheckErase(t) PROVE LocalsMatchPc'
  BY <1>29 DEF RecheckErase, Goto
<1>30. ASSUME NEW t \in Threads, ReleaseMemory(t) PROVE LocalsMatchPc'
  BY <1>30 DEF ReleaseMemory, Goto
<1>31. ASSUME NEW t \in Threads, FreeUnlock(t) PROVE LocalsMatchPc'
  BY <1>31 DEF FreeUnlock, Goto
<1>32. ASSUME UNCHANGED vars PROVE LocalsMatchPc'
  BY <1>32 DEF vars
<1> QED
  BY <1>1, <1>2, <1>3, <1>4, <1>5, <1>6, <1>7, <1>8, <1>9, <1>10, <1>11,
      <1>12, <1>13, <1>14, <1>15, <1>16, <1>17, <1>18, <1>19, <1>20, <1>21,
      <1>22, <1>23, <1>24, <1>25, <1>26, <1>27, <1>28, <1>29, <1>30, <1>31,
      <1>32 DEF Next, Call, Step, AllocateStep, FreeStep

(* A freed block is pushed on the freed stack of its own segment           *)
(* (pool::free calls b.m_segment->free(b)), and a collect moves blocks of  *)
(* the segment it collects.                                                *)
LEMMA HomeStep ==
  TypeOK /\ LocalsMatchPc /\ FreedBlocksGoHome /\ [Next]_vars => FreedBlocksGoHome'
<1> SUFFICES ASSUME TypeOK, LocalsMatchPc, FreedBlocksGoHome, [Next]_vars
    PROVE FreedBlocksGoHome'
  OBVIOUS
<1> USE PoolAssumption DEF TypeOK, SegmentTypeOK, segmentVars, localVars,
    FreedBlocksGoHome
<1>1. ASSUME NEW t \in Threads, AllocateHit(t) PROVE FreedBlocksGoHome'
  BY <1>1 DEF AllocateHit
<1>2. ASSUME NEW t \in Threads, AllocateMiss(t) PROVE FreedBlocksGoHome'
  BY <1>2 DEF AllocateMiss, Goto
<1>3. ASSUME NEW t \in Threads, NEW b \in owned, Free(t, b)
      PROVE  FreedBlocksGoHome'
  BY <1>3 DEF Free, Goto
<1>4. ASSUME NEW t \in Threads, Lock(t) PROVE FreedBlocksGoHome'
  BY <1>4 DEF Lock, Goto
<1>5. ASSUME NEW t \in Threads, PopLockedHit(t) PROVE FreedBlocksGoHome'
  BY <1>5 DEF PopLockedHit, Goto, PopAndUnlock
<1>6. ASSUME NEW t \in Threads, PopLockedMiss(t) PROVE FreedBlocksGoHome'
  BY <1>6 DEF PopLockedMiss, Goto
<1>7. ASSUME NEW t \in Threads, NEW s \in Segments, CollectNext(t, s)
      PROVE  FreedBlocksGoHome'
  BY <1>7 DEF CollectNext, Goto
<1>8. ASSUME NEW t \in Threads, ConsumeOne(t) PROVE FreedBlocksGoHome'
  <2> DEFINE q == freed_stack[seg[t]]
  <2>1. seg[t] \in Segments /\ q \in Seq(Block) /\ q # <<>>
    BY <1>8 DEF ConsumeOne, Goto, LocalsMatchPc, SegmentPcs, CollectPcs
  <2>2. ToSet(q) = ToSet(Front(q)) \cup {Last(q)}
    BY <2>1, PopElements
  <2> QED
    BY <1>8, <2>1, <2>2 DEF ConsumeOne, Goto, PopFreed
<1>9. ASSUME NEW t \in Threads, ConsumePush(t) PROVE FreedBlocksGoHome'
  BY <1>9 DEF ConsumePush, Goto
<1>10. ASSUME NEW t \in Threads, ConsumeRelease(t) PROVE FreedBlocksGoHome'
  BY <1>10 DEF ConsumeRelease, Goto
<1>11. ASSUME NEW t \in Threads, ConsumeEnd(t) PROVE FreedBlocksGoHome'
  BY <1>11 DEF ConsumeEnd, Goto
<1>12. ASSUME NEW t \in Threads, Subtract(t) PROVE FreedBlocksGoHome'
  BY <1>12 DEF Subtract, Goto, AddToNumFreed
<1>13. ASSUME NEW t \in Threads, PopCollectedHit(t) PROVE FreedBlocksGoHome'
  BY <1>13 DEF PopCollectedHit, Goto, PopAndUnlock
<1>14. ASSUME NEW t \in Threads, PopCollectedMiss(t) PROVE FreedBlocksGoHome'
  BY <1>14 DEF PopCollectedMiss, Goto
<1>15. ASSUME NEW t \in Threads, GrowHit(t) PROVE FreedBlocksGoHome'
  BY <1>15 DEF GrowHit, Goto, PopAndUnlock
<1>16. ASSUME NEW t \in Threads, GrowMiss(t) PROVE FreedBlocksGoHome'
  BY <1>16 DEF GrowMiss, Goto
<1>17. ASSUME NEW t \in Threads, NEW s \in Segments, NumaAllocate(t, s)
      PROVE  FreedBlocksGoHome'
  BY <1>17 DEF NumaAllocate, Goto, MapMemory
<1>18. ASSUME NEW t \in Threads, CheckAllocationThrows(t)
      PROVE  FreedBlocksGoHome'
  BY <1>18 DEF CheckAllocationThrows, Goto
<1>19. ASSUME NEW t \in Threads, Register(t) PROVE FreedBlocksGoHome'
  BY <1>19 DEF Register, Goto, ConstructMembers, ToSet
<1>20. ASSUME NEW t \in Threads, RegisterThrows(t) PROVE FreedBlocksGoHome'
  BY <1>20 DEF RegisterThrows, Goto
<1>21. ASSUME NEW t \in Threads, ConstructPush(t) PROVE FreedBlocksGoHome'
  BY <1>21 DEF ConstructPush
<1>22. ASSUME NEW t \in Threads, Insert(t) PROVE FreedBlocksGoHome'
  BY <1>22 DEF Insert, Goto
<1>23. ASSUME NEW t \in Threads, UnlockAndReturn(t) PROVE FreedBlocksGoHome'
  BY <1>23 DEF UnlockAndReturn, Goto
<1>24. ASSUME NEW t \in Threads, FreePush(t) PROVE FreedBlocksGoHome'
  <2> DEFINE q == freed_stack[seg[t]]
  <2>1. /\ seg[t] \in Segments /\ q \in Seq(Block)
        /\ block[t] \in Block /\ block[t].m_segment = seg[t]
    BY <1>24 DEF FreePush, Goto, LocalsMatchPc, SegmentPcs, BlockPcs
  <2>2. ToSet(Append(q, block[t])) = ToSet(q) \cup {block[t]}
    BY <2>1, PushElements
  <2> QED
    BY <1>24, <2>1, <2>2 DEF FreePush, Goto, PushFreed
<1>25. ASSUME NEW t \in Threads, FreeIncrement(t) PROVE FreedBlocksGoHome'
  BY <1>25 DEF FreeIncrement, Goto, AddToNumFreed
<1>26. ASSUME NEW t \in Threads, CheckEmpty(t) PROVE FreedBlocksGoHome'
  BY <1>26 DEF CheckEmpty, Goto
<1>27. ASSUME NEW t \in Threads, FreeLock(t) PROVE FreedBlocksGoHome'
  BY <1>27 DEF FreeLock, Goto
<1>28. ASSUME NEW t \in Threads, RecheckKeep(t) PROVE FreedBlocksGoHome'
  BY <1>28 DEF RecheckKeep, Goto
<1>29. ASSUME NEW t \in Threads, RecheckErase(t) PROVE FreedBlocksGoHome'
  BY <1>29 DEF RecheckErase, Goto, DestroyMembers, ToSet
<1>30. ASSUME NEW t \in Threads, ReleaseMemory(t) PROVE FreedBlocksGoHome'
  BY <1>30 DEF ReleaseMemory, Goto, UnmapMemory
<1>31. ASSUME NEW t \in Threads, FreeUnlock(t) PROVE FreedBlocksGoHome'
  BY <1>31 DEF FreeUnlock, Goto
<1>32. ASSUME UNCHANGED vars PROVE FreedBlocksGoHome'
  BY <1>32 DEF vars
<1> QED
  BY <1>1, <1>2, <1>3, <1>4, <1>5, <1>6, <1>7, <1>8, <1>9, <1>10, <1>11,
      <1>12, <1>13, <1>14, <1>15, <1>16, <1>17, <1>18, <1>19, <1>20, <1>21,
      <1>22, <1>23, <1>24, <1>25, <1>26, <1>27, <1>28, <1>29, <1>30, <1>31,
      <1>32 DEF Next, Call, Step, AllocateStep, FreeStep

(* Every path of allocate and free between m_mutex.lock() and              *)
(* m_mutex.unlock() runs with the mutex owned by its thread, the           *)
(* exceptions that leave it locked included.                               *)
LEMMA MutexStep ==
  TypeOK /\ MutualExclusion /\ [Next]_vars => MutualExclusion'
<1> SUFFICES ASSUME TypeOK, MutualExclusion, [Next]_vars PROVE
    MutualExclusion'
  OBVIOUS
<1> USE PoolAssumption DEF TypeOK, MutualExclusion, LockedPcs,
    AllocateLockedPcs, FreeLockedPcs, CollectPcs
<1>1. ASSUME NEW t \in Threads, AllocateHit(t) PROVE MutualExclusion'
  BY <1>1 DEF AllocateHit
<1>2. ASSUME NEW t \in Threads, AllocateMiss(t) PROVE MutualExclusion'
  BY <1>2 DEF AllocateMiss, Goto
<1>3. ASSUME NEW t \in Threads, NEW b \in owned, Free(t, b)
      PROVE  MutualExclusion'
  BY <1>3 DEF Free, Goto
<1>4. ASSUME NEW t \in Threads, Lock(t) PROVE MutualExclusion'
  BY <1>4 DEF Lock, Goto
<1>5. ASSUME NEW t \in Threads, PopLockedHit(t) PROVE MutualExclusion'
  BY <1>5 DEF PopLockedHit, Goto, PopAndUnlock
<1>6. ASSUME NEW t \in Threads, PopLockedMiss(t) PROVE MutualExclusion'
  BY <1>6 DEF PopLockedMiss, Goto
<1>7. ASSUME NEW t \in Threads, NEW s \in Segments, CollectNext(t, s)
      PROVE  MutualExclusion'
  BY <1>7 DEF CollectNext, Goto
<1>8. ASSUME NEW t \in Threads, ConsumeOne(t) PROVE MutualExclusion'
  BY <1>8 DEF ConsumeOne, Goto, PopFreed
<1>9. ASSUME NEW t \in Threads, ConsumePush(t) PROVE MutualExclusion'
  BY <1>9 DEF ConsumePush, Goto
<1>10. ASSUME NEW t \in Threads, ConsumeRelease(t) PROVE MutualExclusion'
  BY <1>10 DEF ConsumeRelease, Goto
<1>11. ASSUME NEW t \in Threads, ConsumeEnd(t) PROVE MutualExclusion'
  BY <1>11 DEF ConsumeEnd, Goto
<1>12. ASSUME NEW t \in Threads, Subtract(t) PROVE MutualExclusion'
  BY <1>12 DEF Subtract, Goto, AddToNumFreed
<1>13. ASSUME NEW t \in Threads, PopCollectedHit(t) PROVE MutualExclusion'
  BY <1>13 DEF PopCollectedHit, Goto, PopAndUnlock
<1>14. ASSUME NEW t \in Threads, PopCollectedMiss(t) PROVE MutualExclusion'
  BY <1>14 DEF PopCollectedMiss, Goto
<1>15. ASSUME NEW t \in Threads, GrowHit(t) PROVE MutualExclusion'
  BY <1>15 DEF GrowHit, Goto, PopAndUnlock
<1>16. ASSUME NEW t \in Threads, GrowMiss(t) PROVE MutualExclusion'
  BY <1>16 DEF GrowMiss, Goto
<1>17. ASSUME NEW t \in Threads, NEW s \in Segments, NumaAllocate(t, s)
      PROVE  MutualExclusion'
  BY <1>17 DEF NumaAllocate, Goto, MapMemory
<1>18. ASSUME NEW t \in Threads, CheckAllocationThrows(t) PROVE MutualExclusion'
  BY <1>18 DEF CheckAllocationThrows, Goto
<1>19. ASSUME NEW t \in Threads, Register(t) PROVE MutualExclusion'
  BY <1>19 DEF Register, Goto, ConstructMembers
<1>20. ASSUME NEW t \in Threads, RegisterThrows(t) PROVE MutualExclusion'
  BY <1>20 DEF RegisterThrows, Goto
<1>21. ASSUME NEW t \in Threads, ConstructPush(t) PROVE MutualExclusion'
  BY <1>21 DEF ConstructPush
<1>22. ASSUME NEW t \in Threads, Insert(t) PROVE MutualExclusion'
  BY <1>22 DEF Insert, Goto
<1>23. ASSUME NEW t \in Threads, UnlockAndReturn(t) PROVE MutualExclusion'
  BY <1>23 DEF UnlockAndReturn, Goto
<1>24. ASSUME NEW t \in Threads, FreePush(t) PROVE MutualExclusion'
  BY <1>24 DEF FreePush, Goto, PushFreed
<1>25. ASSUME NEW t \in Threads, FreeIncrement(t) PROVE MutualExclusion'
  BY <1>25 DEF FreeIncrement, Goto, AddToNumFreed
<1>26. ASSUME NEW t \in Threads, CheckEmpty(t) PROVE MutualExclusion'
  BY <1>26 DEF CheckEmpty, Goto
<1>27. ASSUME NEW t \in Threads, FreeLock(t) PROVE MutualExclusion'
  BY <1>27 DEF FreeLock, Goto
<1>28. ASSUME NEW t \in Threads, RecheckKeep(t) PROVE MutualExclusion'
  BY <1>28 DEF RecheckKeep, Goto
<1>29. ASSUME NEW t \in Threads, RecheckErase(t) PROVE MutualExclusion'
  BY <1>29 DEF RecheckErase, Goto, DestroyMembers
<1>30. ASSUME NEW t \in Threads, ReleaseMemory(t) PROVE MutualExclusion'
  BY <1>30 DEF ReleaseMemory, Goto, UnmapMemory
<1>31. ASSUME NEW t \in Threads, FreeUnlock(t) PROVE MutualExclusion'
  BY <1>31 DEF FreeUnlock, Goto
<1>32. ASSUME UNCHANGED vars PROVE MutualExclusion'
  BY <1>32 DEF vars
<1> QED
  BY <1>1, <1>2, <1>3, <1>4, <1>5, <1>6, <1>7, <1>8, <1>9, <1>10, <1>11,
      <1>12, <1>13, <1>14, <1>15, <1>16, <1>17, <1>18, <1>19, <1>20, <1>21,
      <1>22, <1>23, <1>24, <1>25, <1>26, <1>27, <1>28, <1>29, <1>30, <1>31,
      <1>32 DEF Next, Call, Step, AllocateStep, FreeStep

(* The segment objects that exist are those of m_segments and the one      *)
(* add_segment is building; register_memory, the erase and ~segment keep   *)
(* it so.                                                                  *)
LEMMA MemoryStep ==
  /\ TypeOK
  /\ LocalsMatchPc
  /\ MutualExclusion
  /\ SegmentsMatchMemory
  /\ HolderMatchesMemory
  /\ SegmentInUseIsLive
  /\ [Next]_vars
  => SegmentsMatchMemory'
<1> SUFFICES ASSUME TypeOK, LocalsMatchPc, MutualExclusion,
    SegmentsMatchMemory, HolderMatchesMemory, SegmentInUseIsLive, [Next]_vars
    PROVE SegmentsMatchMemory'
  OBVIOUS
<1> USE PoolAssumption DEF TypeOK, SegmentTypeOK, segmentVars, localVars,
    LocalsMatchPc, IsLive, CollectPcs, SegmentPcs, FreeLockedPcs,
    SegmentsMatchMemory
<1>1. ASSUME NEW t \in Threads, AllocateHit(t) PROVE SegmentsMatchMemory'
  BY <1>1 DEF AllocateHit
<1>2. ASSUME NEW t \in Threads, AllocateMiss(t) PROVE SegmentsMatchMemory'
  BY <1>2 DEF AllocateMiss, Goto
<1>3. ASSUME NEW t \in Threads, NEW b \in owned, Free(t, b)
      PROVE  SegmentsMatchMemory'
  BY <1>3 DEF Free, Goto
<1>4. ASSUME NEW t \in Threads, Lock(t) PROVE SegmentsMatchMemory'
  BY <1>4 DEF Lock, Goto
<1>5. ASSUME NEW t \in Threads, PopLockedHit(t) PROVE SegmentsMatchMemory'
  BY <1>5 DEF PopLockedHit, Goto, PopAndUnlock
<1>6. ASSUME NEW t \in Threads, PopLockedMiss(t) PROVE SegmentsMatchMemory'
  BY <1>6 DEF PopLockedMiss, Goto
<1>7. ASSUME NEW t \in Threads, NEW s \in Segments, CollectNext(t, s)
      PROVE  SegmentsMatchMemory'
  BY <1>7 DEF CollectNext, Goto
<1>8. ASSUME NEW t \in Threads, ConsumeOne(t) PROVE SegmentsMatchMemory'
  BY <1>8 DEF ConsumeOne, Goto, PopFreed, SegmentInUseIsLive
<1>9. ASSUME NEW t \in Threads, ConsumePush(t) PROVE SegmentsMatchMemory'
  BY <1>9 DEF ConsumePush, Goto
<1>10. ASSUME NEW t \in Threads, ConsumeRelease(t) PROVE SegmentsMatchMemory'
  BY <1>10 DEF ConsumeRelease, Goto
<1>11. ASSUME NEW t \in Threads, ConsumeEnd(t) PROVE SegmentsMatchMemory'
  BY <1>11 DEF ConsumeEnd, Goto
<1>12. ASSUME NEW t \in Threads, Subtract(t) PROVE SegmentsMatchMemory'
  BY <1>12 DEF Subtract, Goto, AddToNumFreed, SegmentInUseIsLive
<1>13. ASSUME NEW t \in Threads, PopCollectedHit(t) PROVE SegmentsMatchMemory'
  BY <1>13 DEF PopCollectedHit, Goto, PopAndUnlock
<1>14. ASSUME NEW t \in Threads, PopCollectedMiss(t) PROVE SegmentsMatchMemory'
  BY <1>14 DEF PopCollectedMiss, Goto
<1>15. ASSUME NEW t \in Threads, GrowHit(t) PROVE SegmentsMatchMemory'
  BY <1>15 DEF GrowHit, Goto, PopAndUnlock
<1>16. ASSUME NEW t \in Threads, GrowMiss(t) PROVE SegmentsMatchMemory'
  BY <1>16 DEF GrowMiss, Goto
<1>17. ASSUME NEW t \in Threads, NEW s \in Segments, NumaAllocate(t, s)
      PROVE  SegmentsMatchMemory'
  BY <1>17 DEF NumaAllocate, Goto, MapMemory
<1>18. ASSUME NEW t \in Threads, CheckAllocationThrows(t)
      PROVE  SegmentsMatchMemory'
  BY <1>18 DEF CheckAllocationThrows, Goto
<1>19. ASSUME NEW t \in Threads, Register(t) PROVE SegmentsMatchMemory'
  BY <1>19 DEF Register, Goto, ConstructMembers, MutualExclusion, LockedPcs,
      AllocateLockedPcs, HolderMatchesMemory
<1>20. ASSUME NEW t \in Threads, RegisterThrows(t) PROVE SegmentsMatchMemory'
  BY <1>20 DEF RegisterThrows, Goto
<1>21. ASSUME NEW t \in Threads, ConstructPush(t) PROVE SegmentsMatchMemory'
  BY <1>21 DEF ConstructPush
<1>22. ASSUME NEW t \in Threads, Insert(t) PROVE SegmentsMatchMemory'
  BY <1>22 DEF Insert, Goto, MutualExclusion, LockedPcs, AllocateLockedPcs,
      HolderMatchesMemory
<1>23. ASSUME NEW t \in Threads, UnlockAndReturn(t) PROVE SegmentsMatchMemory'
  BY <1>23 DEF UnlockAndReturn, Goto
<1>24. ASSUME NEW t \in Threads, FreePush(t) PROVE SegmentsMatchMemory'
  BY <1>24 DEF FreePush, Goto, PushFreed, SegmentInUseIsLive
<1>25. ASSUME NEW t \in Threads, FreeIncrement(t) PROVE SegmentsMatchMemory'
  BY <1>25 DEF FreeIncrement, Goto, AddToNumFreed, SegmentInUseIsLive
<1>26. ASSUME NEW t \in Threads, CheckEmpty(t) PROVE SegmentsMatchMemory'
  BY <1>26 DEF CheckEmpty, Goto
<1>27. ASSUME NEW t \in Threads, FreeLock(t) PROVE SegmentsMatchMemory'
  BY <1>27 DEF FreeLock, Goto
<1>28. ASSUME NEW t \in Threads, RecheckKeep(t) PROVE SegmentsMatchMemory'
  BY <1>28 DEF RecheckKeep, Goto
<1>29. ASSUME NEW t \in Threads, RecheckErase(t) PROVE SegmentsMatchMemory'
  BY <1>29 DEF RecheckErase, Goto, DestroyMembers, MutualExclusion, LockedPcs,
      AllocateLockedPcs
<1>30. ASSUME NEW t \in Threads, ReleaseMemory(t) PROVE SegmentsMatchMemory'
  BY <1>30 DEF ReleaseMemory, Goto, UnmapMemory, HolderMatchesMemory
<1>31. ASSUME NEW t \in Threads, FreeUnlock(t) PROVE SegmentsMatchMemory'
  BY <1>31 DEF FreeUnlock, Goto
<1>32. ASSUME UNCHANGED vars PROVE SegmentsMatchMemory'
  BY <1>32 DEF vars
<1> QED
  BY <1>1, <1>2, <1>3, <1>4, <1>5, <1>6, <1>7, <1>8, <1>9, <1>10, <1>11,
      <1>12, <1>13, <1>14, <1>15, <1>16, <1>17, <1>18, <1>19, <1>20, <1>21,
      <1>22, <1>23, <1>24, <1>25, <1>26, <1>27, <1>28, <1>29, <1>30, <1>31,
      <1>32 DEF Next, Call, Step, AllocateStep, FreeStep

(* While one thread has the mutex, no other changes m_segments or the      *)
(* memory of the segment it registers, builds, collects or releases.       *)
LEMMA HolderStep ==
  /\ TypeOK
  /\ LocalsMatchPc
  /\ MutualExclusion
  /\ SegmentsMatchMemory
  /\ HolderMatchesMemory
  /\ [Next]_vars
  => HolderMatchesMemory'
<1> SUFFICES ASSUME TypeOK, LocalsMatchPc, MutualExclusion,
    SegmentsMatchMemory, HolderMatchesMemory, [Next]_vars PROVE
    HolderMatchesMemory'
  OBVIOUS
<1> USE PoolAssumption DEF TypeOK, SegmentTypeOK, segmentVars, localVars,
    LocalsMatchPc, IsLive, CollectPcs, SegmentPcs, FreeLockedPcs,
    HolderMatchesMemory
<1>1. ASSUME NEW t \in Threads, AllocateHit(t) PROVE HolderMatchesMemory'
  BY <1>1 DEF AllocateHit
<1>2. ASSUME NEW t \in Threads, AllocateMiss(t) PROVE HolderMatchesMemory'
  BY <1>2 DEF AllocateMiss, Goto
<1>3. ASSUME NEW t \in Threads, NEW b \in owned, Free(t, b)
      PROVE  HolderMatchesMemory'
  BY <1>3 DEF Free, Goto
<1>4. ASSUME NEW t \in Threads, Lock(t) PROVE HolderMatchesMemory'
  BY <1>4 DEF Lock, Goto
<1>5. ASSUME NEW t \in Threads, PopLockedHit(t) PROVE HolderMatchesMemory'
  BY <1>5 DEF PopLockedHit, Goto, PopAndUnlock
<1>6. ASSUME NEW t \in Threads, PopLockedMiss(t) PROVE HolderMatchesMemory'
  BY <1>6 DEF PopLockedMiss, Goto
<1>7. ASSUME NEW t \in Threads, NEW s \in Segments, CollectNext(t, s)
      PROVE  HolderMatchesMemory'
  BY <1>7 DEF CollectNext, Goto
<1>8. ASSUME NEW t \in Threads, ConsumeOne(t) PROVE HolderMatchesMemory'
  BY <1>8 DEF ConsumeOne, Goto, PopFreed
<1>9. ASSUME NEW t \in Threads, ConsumePush(t) PROVE HolderMatchesMemory'
  BY <1>9 DEF ConsumePush, Goto
<1>10. ASSUME NEW t \in Threads, ConsumeRelease(t) PROVE HolderMatchesMemory'
  BY <1>10 DEF ConsumeRelease, Goto
<1>11. ASSUME NEW t \in Threads, ConsumeEnd(t) PROVE HolderMatchesMemory'
  BY <1>11 DEF ConsumeEnd, Goto
<1>12. ASSUME NEW t \in Threads, Subtract(t) PROVE HolderMatchesMemory'
  BY <1>12 DEF Subtract, Goto, AddToNumFreed
<1>13. ASSUME NEW t \in Threads, PopCollectedHit(t) PROVE HolderMatchesMemory'
  BY <1>13 DEF PopCollectedHit, Goto, PopAndUnlock
<1>14. ASSUME NEW t \in Threads, PopCollectedMiss(t) PROVE HolderMatchesMemory'
  BY <1>14 DEF PopCollectedMiss, Goto
<1>15. ASSUME NEW t \in Threads, GrowHit(t) PROVE HolderMatchesMemory'
  BY <1>15 DEF GrowHit, Goto, PopAndUnlock
<1>16. ASSUME NEW t \in Threads, GrowMiss(t) PROVE HolderMatchesMemory'
  BY <1>16 DEF GrowMiss, Goto
<1>17. ASSUME NEW t \in Threads, NEW s \in Segments, NumaAllocate(t, s)
      PROVE  HolderMatchesMemory'
  BY <1>17 DEF NumaAllocate, Goto, MapMemory, SegmentsMatchMemory
<1>18. ASSUME NEW t \in Threads, CheckAllocationThrows(t)
      PROVE  HolderMatchesMemory'
  BY <1>18 DEF CheckAllocationThrows, Goto
<1>19. ASSUME NEW t \in Threads, Register(t) PROVE HolderMatchesMemory'
  BY <1>19 DEF Register, Goto, ConstructMembers, MutualExclusion, LockedPcs,
      AllocateLockedPcs, SegmentsMatchMemory
<1>20. ASSUME NEW t \in Threads, RegisterThrows(t) PROVE HolderMatchesMemory'
  BY <1>20 DEF RegisterThrows, Goto
<1>21. ASSUME NEW t \in Threads, ConstructPush(t) PROVE HolderMatchesMemory'
  BY <1>21 DEF ConstructPush
<1>22. ASSUME NEW t \in Threads, Insert(t) PROVE HolderMatchesMemory'
  BY <1>22 DEF Insert, Goto, MutualExclusion, LockedPcs, AllocateLockedPcs
<1>23. ASSUME NEW t \in Threads, UnlockAndReturn(t) PROVE HolderMatchesMemory'
  BY <1>23 DEF UnlockAndReturn, Goto
<1>24. ASSUME NEW t \in Threads, FreePush(t) PROVE HolderMatchesMemory'
  BY <1>24 DEF FreePush, Goto, PushFreed
<1>25. ASSUME NEW t \in Threads, FreeIncrement(t) PROVE HolderMatchesMemory'
  BY <1>25 DEF FreeIncrement, Goto, AddToNumFreed
<1>26. ASSUME NEW t \in Threads, CheckEmpty(t) PROVE HolderMatchesMemory'
  BY <1>26 DEF CheckEmpty, Goto
<1>27. ASSUME NEW t \in Threads, FreeLock(t) PROVE HolderMatchesMemory'
  BY <1>27 DEF FreeLock, Goto
<1>28. ASSUME NEW t \in Threads, RecheckKeep(t) PROVE HolderMatchesMemory'
  BY <1>28 DEF RecheckKeep, Goto
<1>29. ASSUME NEW t \in Threads, RecheckErase(t) PROVE HolderMatchesMemory'
  BY <1>29 DEF RecheckErase, Goto, DestroyMembers, MutualExclusion, LockedPcs,
      AllocateLockedPcs
<1>30. ASSUME NEW t \in Threads, ReleaseMemory(t) PROVE HolderMatchesMemory'
  BY <1>30 DEF ReleaseMemory, Goto, UnmapMemory, MutualExclusion, LockedPcs,
      AllocateLockedPcs
<1>31. ASSUME NEW t \in Threads, FreeUnlock(t) PROVE HolderMatchesMemory'
  BY <1>31 DEF FreeUnlock, Goto
<1>32. ASSUME UNCHANGED vars PROVE HolderMatchesMemory'
  BY <1>32 DEF vars
<1> QED
  BY <1>1, <1>2, <1>3, <1>4, <1>5, <1>6, <1>7, <1>8, <1>9, <1>10, <1>11,
      <1>12, <1>13, <1>14, <1>15, <1>16, <1>17, <1>18, <1>19, <1>20, <1>21,
      <1>22, <1>23, <1>24, <1>25, <1>26, <1>27, <1>28, <1>29, <1>30, <1>31,
      <1>32 DEF Next, Call, Step, AllocateStep, FreeStep

(* With never_free set, the step after ++m_num_freed is the return of      *)
(* pool::free: nothing leads to the accesses that give a segment back.     *)
LEMMA NeverFreeStep ==
  TypeOK /\ NeverFreeKeepsSegments /\ [Next]_vars => NeverFreeKeepsSegments'
<1> SUFFICES ASSUME TypeOK, NeverFreeKeepsSegments, [Next]_vars, NeverFree,
                    NEW u \in Threads
             PROVE  pc'[u] \notin {"check_empty", "free_lock"} \cup FreeLockedPcs
  BY DEF NeverFreeKeepsSegments
<1> USE DEF NeverFreeKeepsSegments, TypeOK, FreeLockedPcs
<1>1. CASE UNCHANGED vars
  BY <1>1 DEF vars
<1>2. ASSUME NEW t \in Threads, Call(t)
      PROVE  /\ pc'[t] \in {"idle", "lock", "free_push"}
             /\ \A v \in Threads \ {t} : pc'[v] = pc[v]
  BY <1>2 DEF Call, Goto, AllocateHit, AllocateMiss, Free
<1>3. ASSUME NEW t \in Threads, AllocateStep(t)
      PROVE  /\ pc'[t] \in AllocateLockedPcs \cup {"idle"}
             /\ \A v \in Threads \ {t} : pc'[v] = pc[v]
  BY <1>3 DEF AllocateStep, Lock, PopLockedHit, PopLockedMiss, CollectNext,
     ConsumeOne, ConsumePush, ConsumeRelease, ConsumeEnd, Subtract,
     PopAndUnlock,
     PopCollectedHit, PopCollectedMiss, GrowHit, GrowMiss, NumaAllocate,
     Register, UnlockAndReturn,
     CheckAllocationThrows, RegisterThrows, ConstructPush, Insert, Goto,
     AllocateLockedPcs, CollectPcs
<1>4. ASSUME NEW t \in Threads, FreeStep(t)
      PROVE  /\ pc'[t] \in {"free_increment", "idle"}
             /\ \A v \in Threads \ {t} : pc'[v] = pc[v]
  BY <1>4 DEF FreeStep, FreePush, FreeIncrement,
     CheckEmpty, FreeLock, RecheckKeep, RecheckErase, ReleaseMemory,
     FreeUnlock, Goto
<1>5. CASE Next
  <2>1. PICK t \in Threads : Call(t) \/ AllocateStep(t) \/ FreeStep(t)
    BY <1>5 DEF Next, Step
  <2> QED
    BY <1>2, <1>3, <1>4, <2>1 DEF AllocateLockedPcs, CollectPcs
<1> QED
  BY <1>1, <1>5

=============================================================================
