----------------------------- MODULE PoolProofs -----------------------------
(***************************************************************************)
(* The theorems about a pool, for any number of threads, segments and      *)
(* blocks per segment.  Inv is inductive: the step lemmas of               *)
(* PoolTypeProofs and PoolBlockProofs each preserve one part of it, and    *)
(* are put together here.  The last part is about calls that follow one    *)
(* another, as module MCPoolCalls records it.                              *)
(***************************************************************************)
EXTENDS PoolBlockProofs, MCPoolCalls

-----------------------------------------------------------------------------
(* The inductive invariant                                                 *)

(* A new pool satisfies the invariant: it has no segments, no blocks and   *)
(* no thread in a call.                                                    *)
LEMMA InitInv == Init => Inv
<1> SUFFICES ASSUME Init PROVE Inv
  OBVIOUS
<1> USE PoolAssumption, SegmentAssumption DEF Init, SegmentInit
<1>1. TypeOK
  BY DEF TypeOK, SegmentTypeOK, MemoryState, UnlockedPcs
<1>2. LocalsMatchPc /\ NeverFreeKeepsSegments
  BY DEF LocalsMatchPc, NeverFreeKeepsSegments, SegmentPcs, BlockPcs,
     CollectPcs, FreeLockedPcs
<1>3. FreedBlocksGoHome
  BY EmptyStack DEF FreedBlocksGoHome
<1>4. MutualExclusion /\ SegmentsMatchMemory /\ HolderMatchesMemory
  BY DEF MutualExclusion, SegmentsMatchMemory, HolderMatchesMemory, IsLive,
         LockedPcs, AllocateLockedPcs, FreeLockedPcs, CollectPcs
<1>5. /\ OnFreedStacks = {} /\ Carried = {} /\ NotYetPushed = {}
      /\ ToSet(free_stack) = {}
  BY EmptyStack DEF OnFreedStacks, Carried, NotYetPushed
<1>6. BlocksInOnePlace
  BY <1>5, EmptyStack DEF BlocksInOnePlace, NoRepeatedBlock, PlacesDisjoint
<1>7. NoDanglingBlock
  BY <1>5 DEF NoDanglingBlock, BlocksSomewhere
<1>8. \A s \in Segments : ~ IsLive(s)
  BY DEF IsLive
<1>9. NoBlockLost /\ CounterAgrees
  BY <1>8 DEF NoBlockLost, CounterAgrees, Block
<1>10. SegmentInUseIsLive
  BY DEF SegmentInUseIsLive, CollectPcs
<1> QED
  BY <1>1, <1>2, <1>3, <1>4, <1>6, <1>7, <1>9, <1>10 DEF Inv

(* No step of any thread breaks the invariant.                             *)
LEMMA InvStep == Inv /\ [Next]_vars => Inv'
<1> SUFFICES ASSUME Inv, [Next]_vars PROVE Inv'
  OBVIOUS
<1>1. /\ TypeOK /\ LocalsMatchPc /\ NeverFreeKeepsSegments
      /\ FreedBlocksGoHome /\ MutualExclusion
      /\ SegmentsMatchMemory /\ HolderMatchesMemory /\ SegmentInUseIsLive
  BY DEF Inv
<1>2. TypeOK' /\ LocalsMatchPc' /\ NeverFreeKeepsSegments'
  BY <1>1, TypeStep, LocalsStep, NeverFreeStep
<1>3. FreedBlocksGoHome' /\ MutualExclusion'
  BY <1>1, HomeStep, MutexStep
<1>4. SegmentsMatchMemory' /\ HolderMatchesMemory'
  BY <1>1, MemoryStep, HolderStep
<1>5. BlocksInOnePlace' /\ NoDanglingBlock' /\ NoBlockLost'
  BY OrderStep DEF BlocksInOrder
<1>6. SegmentInUseIsLive' /\ CounterAgrees'
  BY InUseStep, CounterStep
<1> QED
  BY <1>2, <1>3, <1>4, <1>5, <1>6 DEF Inv

(* Inv holds in every state the pool can reach.                            *)
THEOREM InvHolds == Spec => []Inv
  BY InitInv, InvStep, PTL DEF Spec

-----------------------------------------------------------------------------
(* Steps and states                                                        *)

(* What the clients have and the memory of the segments change by seven    *)
(* actions only.                                                           *)
LEMMA ChangesOfOwnedAndMemory ==
  ASSUME [Next]_vars
  PROVE  \/ UNCHANGED <<owned, memory>>
         \/ \E t \in Threads :
              \/ AllocateHit(t) \/ UnlockAndReturn(t)
              \/ \E b \in owned : Free(t, b)
              \/ \E s \in Segments : NumaAllocate(t, s)
              \/ Register(t) \/ RecheckErase(t) \/ ReleaseMemory(t)
<1>1. CASE UNCHANGED vars
  BY <1>1 DEF vars, segmentVars
<1>2. ASSUME NEW t \in Threads, Call(t)
      PROVE  \/ UNCHANGED <<owned, memory>>
             \/ AllocateHit(t)
             \/ \E b \in owned : Free(t, b)
  BY <1>2 DEF Call, AllocateMiss, segmentVars
<1>3. ASSUME NEW t \in Threads, AllocateStep(t)
      PROVE  \/ UNCHANGED <<owned, memory>>
             \/ UnlockAndReturn(t) \/ Register(t)
             \/ \E s \in Segments : NumaAllocate(t, s)
  BY <1>3 DEF AllocateStep, Lock, PopLockedHit, PopLockedMiss, CollectNext,
     ConsumeOne, PopFreed, ConsumePush, ConsumeRelease, ConsumeEnd, Subtract,
     AddToNumFreed, PopCollectedHit, PopCollectedMiss, GrowHit, GrowMiss,
     CheckAllocationThrows, RegisterThrows, ConstructPush, Insert, segmentVars
<1>4. ASSUME NEW t \in Threads, FreeStep(t)
      PROVE  \/ UNCHANGED <<owned, memory>>
             \/ RecheckErase(t) \/ ReleaseMemory(t)
  BY <1>4 DEF FreeStep, FreePush, PushFreed, FreeIncrement, AddToNumFreed,
     CheckEmpty, FreeLock, RecheckKeep, FreeUnlock, segmentVars
<1> QED
  BY <1>1, <1>2, <1>3, <1>4 DEF Next, Step

(* ~segment runs only in the erase of pool::free, for a segment whose      *)
(* blocks are all on its freed stack.                                      *)
LEMMA EraseStep ==
  ASSUME Inv, [Next]_vars, NEW s \in Segments, IsLive(s), ~ IsLive(s)'
  PROVE  ToSet(freed_stack[s]) = BlocksOf(s)
<1> USE DEF Inv, TypeOK, SegmentTypeOK, IsLive
<1>1. memory' # memory
  OBVIOUS
<1>2. ASSUME NEW t \in Threads, RecheckErase(t)
      PROVE  ToSet(freed_stack[s]) = BlocksOf(s)
  <2>1. memory' = [memory EXCEPT ![seg[t]] = "mapped"]
    BY <1>2 DEF RecheckErase, DestroyMembers
  <2>2. s = seg[t]
    BY <2>1
  <2> QED
    BY <1>2, <2>2, ErasedSegmentIsEmpty
<1>3. ASSUME NEW t \in Threads, AllocateHit(t) \/ UnlockAndReturn(t) PROVE FALSE
  BY <1>1, <1>3 DEF AllocateHit, UnlockAndReturn, segmentVars
<1>4. ASSUME NEW t \in Threads, NEW b \in owned, Free(t, b) PROVE FALSE
  BY <1>1, <1>4 DEF Free, segmentVars
<1>5. ASSUME NEW t \in Threads, NEW r \in Segments, NumaAllocate(t, r)
      PROVE  FALSE
  BY <1>5 DEF NumaAllocate, MapMemory
<1>6. ASSUME NEW t \in Threads, Register(t) PROVE FALSE
  BY <1>6 DEF Register, ConstructMembers
<1>7. ASSUME NEW t \in Threads, ReleaseMemory(t) PROVE FALSE
  BY <1>7 DEF ReleaseMemory, Goto, UnmapMemory, HolderMatchesMemory,
     LocalsMatchPc, SegmentPcs, FreeLockedPcs
<1> QED
  BY <1>1, <1>2, <1>3, <1>4, <1>5, <1>6, <1>7, ChangesOfOwnedAndMemory

(* The block a thread is about to push is not yet on the freed stack,      *)
(* which has a node for each block of the segment: if all are in use, one  *)
(* is in the hands of a collect.                                           *)
LEMMA SpinHasCollector == Inv => SpinningFreeHasCollector
<1> SUFFICES ASSUME Inv, NEW t \in Threads, pc[t] = "free_push",
                    NodesInUse(seg[t]) >= BlocksPerSegment
             PROVE  \E u \in Collecting(seg[t]) : InHand(u) = 1
  BY DEF SpinningFreeHasCollector
<1> USE DEF Inv
<1> DEFINE s == seg[t]
           b == block[t]
           q == freed_stack[s]
           Emptied == {u \in Threads :
                         seg[u] = s /\ pc[u] \in {"consume_push", "consume_release"}}
<1>1. /\ s \in Segments /\ b \in Block /\ b.m_segment = s
      /\ b \in Carried
  BY PoolAssumption
     DEF LocalsMatchPc, SegmentPcs, BlockPcs, FreedBlocksGoHome, Carried
<1>2. b \notin ToSet(q)
  BY <1>1 DEF BlocksInOnePlace, PlacesDisjoint, OnFreedStacks
<1>3. /\ q \in Seq(Block) /\ IsInjective(q)
      /\ \A c \in ToSet(q) : c.m_segment = s
  BY <1>1 DEF TypeOK, SegmentTypeOK, BlocksInOnePlace, NoRepeatedBlock,
              FreedBlocksGoHome
<1>4. Len(q) + Cardinality(Emptied) >= BlocksPerSegment
  BY DEF NodesInUse
<1> HIDE DEF s, b, q
<1>5. Len(q) < BlocksPerSegment
  <2>1. ToSet(q) # BlocksOf(s)
    BY <1>1, <1>2 DEF BlocksOf
  <2>2. Len(q) \in Nat
    BY <1>3
  <2> QED
    BY <1>1, <1>3, <2>1, <2>2, DistinctBlocks, SegmentAssumption
<1>6. Emptied # {}
  <2>1. SUFFICES ASSUME Emptied = {} PROVE FALSE
    OBVIOUS
  <2>2. Cardinality(Emptied) = 0
    BY <2>1, FS_EmptySet
  <2>3. Len(q) \in Nat
    BY <1>3
  <2> QED
    BY <1>4, <1>5, <2>2, <2>3, SegmentAssumption
<1>7. PICK u \in Threads : seg[u] = s /\ pc[u] \in {"consume_push", "consume_release"}
  BY <1>6
<1>8. u \in Collecting(s) /\ InHand(u) = 1
  BY <1>7 DEF Collecting, CollectPcs, InHand
<1> QED
  BY <1>8 DEF s

-----------------------------------------------------------------------------
(* What follows from it                                                    *)

(* The variables of pool, segments and threads have their types.           *)
THEOREM TypeCorrect == Spec => []TypeOK
<1>1. Inv => TypeOK
  BY DEF Inv
<1> QED
  BY <1>1, InvHolds, PTL

(* One thread at a time executes what allocate and free do between the     *)
(* lock and the unlock of m_mutex.                                         *)
THEOREM MutexExcludes == Spec => []MutualExclusion
<1>1. Inv => MutualExclusion
  BY DEF Inv
<1> QED
  BY <1>1, InvHolds, PTL

(* allocate never returns a block that a client has, nor one that some     *)
(* other thread is about to get.                                           *)
THEOREM NoDoubleAllocation == Spec => []BlocksInOnePlace
<1>1. Inv => BlocksInOnePlace
  BY DEF Inv
<1> QED
  BY <1>1, InvHolds, PTL

(* Each block of a live segment can still be allocated, freed or           *)
(* collected: allocate, free and collect lose none.                        *)
THEOREM NoBlockIsLost == Spec => []NoBlockLost
<1>1. Inv => NoBlockLost
  BY DEF Inv
<1> QED
  BY <1>1, InvHolds, PTL

(* A client's blocks, and those any thread can pop, are in memory that is  *)
(* allocated and registered, although free destroys segments.              *)
THEOREM BlocksStayBacked == Spec => []NoDanglingBlock
<1>1. Inv => NoDanglingBlock
  BY DEF Inv
<1> QED
  BY <1>1, InvHolds, PTL

(* segment::free, segment::collect and the segment constructor work on a   *)
(* segment that exists for as long as they take.                           *)
THEOREM SegmentsOutliveTheirUse == Spec => []SegmentInUseIsLive
<1>1. Inv => SegmentInUseIsLive
  BY DEF Inv
<1> QED
  BY <1>1, InvHolds, PTL

(* m_num_freed counts the blocks of the freed stack, up to the frees and   *)
(* the collect in progress.                                                *)
THEOREM CounterIsRight == Spec => []CounterAgrees
<1>1. Inv => CounterAgrees
  BY DEF Inv
<1> QED
  BY <1>1, InvHolds, PTL

(* m_num_freed alone decides when ~segment runs, and with frees that have  *)
(* pushed and not counted, or a collect that has popped and not            *)
(* subtracted, it differs from the length of the stack. pool::free still   *)
(* destroys a segment only with all its blocks on its freed stack.         *)
THEOREM DestroysOnlyEmpty == Spec => DestroysOnlyEmptySegments
<1>1. Inv /\ [Next]_vars =>
        [\A s \in Segments :
           IsLive(s) /\ ~ IsLive(s)' => ToSet(freed_stack[s]) = BlocksOf(s)]_vars
  BY EraseStep
<1> QED
  BY <1>1, InvHolds, PTL DEF Spec, DestroysOnlyEmptySegments

(* A push of segment::free that finds no node in the fixed-size stack has  *)
(* a collect to wait for, which holds the node and gives it back.          *)
THEOREM SpinHasReason == Spec => []SpinningFreeHasCollector
  BY InvHolds, SpinHasCollector, PTL

-----------------------------------------------------------------------------
(* Memory between the system and a segment                                 *)

(* As long as register_memory does not throw, memory gets to or leaves the *)
(* hands of a thread by four actions only; the others leave the memory and *)
(* the threads that hold some as they are.                                 *)
LEMMA ChangesOfHeldMemory ==
  ASSUME TypeOK, RegisterMayThrow = FALSE, [Next]_vars
  PROVE  \/ /\ UNCHANGED memory
            /\ \A u \in Threads : pc[u] \in {"register", "release"} =>
                 pc'[u] = pc[u] /\ seg'[u] = seg[u]
         \/ \E t \in Threads :
              \/ \E s \in Segments : NumaAllocate(t, s)
              \/ Register(t) \/ RecheckErase(t) \/ ReleaseMemory(t)
<1> DEFINE Quiet == /\ UNCHANGED memory
                    /\ \A u \in Threads : pc[u] \in {"register", "release"} =>
                         pc'[u] = pc[u] /\ seg'[u] = seg[u]
<1> USE DEF TypeOK, segmentVars, localVars
<1>1. ASSUME NEW t \in Threads, AllocateHit(t) PROVE Quiet
  BY <1>1 DEF AllocateHit
<1>2. ASSUME NEW t \in Threads, AllocateMiss(t) PROVE Quiet
  BY <1>2 DEF AllocateMiss, Goto
<1>3. ASSUME NEW t \in Threads, Lock(t) PROVE Quiet
  BY <1>3 DEF Lock, Goto
<1>4. ASSUME NEW t \in Threads, PopLockedHit(t) PROVE Quiet
  BY <1>4 DEF PopLockedHit, PopAndUnlock, Goto
<1>5. ASSUME NEW t \in Threads, PopLockedMiss(t) PROVE Quiet
  BY <1>5 DEF PopLockedMiss, Goto
<1>6. ASSUME NEW t \in Threads, ConsumeOne(t) PROVE Quiet
  BY <1>6 DEF ConsumeOne, Goto, PopFreed
<1>7. ASSUME NEW t \in Threads, ConsumePush(t) PROVE Quiet
  BY <1>7 DEF ConsumePush, Goto
<1>8. ASSUME NEW t \in Threads, ConsumeRelease(t) PROVE Quiet
  BY <1>8 DEF ConsumeRelease, Goto
<1>9. ASSUME NEW t \in Threads, ConsumeEnd(t) PROVE Quiet
  BY <1>9 DEF ConsumeEnd, Goto
<1>10. ASSUME NEW t \in Threads, Subtract(t) PROVE Quiet
  BY <1>10 DEF Subtract, Goto, AddToNumFreed
<1>11. ASSUME NEW t \in Threads, PopCollectedHit(t) PROVE Quiet
  BY <1>11 DEF PopCollectedHit, PopAndUnlock, Goto
<1>12. ASSUME NEW t \in Threads, PopCollectedMiss(t) PROVE Quiet
  BY <1>12 DEF PopCollectedMiss, Goto
<1>13. ASSUME NEW t \in Threads, GrowHit(t) PROVE Quiet
  BY <1>13 DEF GrowHit, PopAndUnlock, Goto
<1>14. ASSUME NEW t \in Threads, GrowMiss(t) PROVE Quiet
  BY <1>14 DEF GrowMiss, Goto
<1>15. ASSUME NEW t \in Threads, CheckAllocationThrows(t) PROVE Quiet
  BY <1>15 DEF CheckAllocationThrows, Goto
<1>16. ASSUME NEW t \in Threads, ConstructPush(t) PROVE Quiet
  BY <1>16 DEF ConstructPush
<1>17. ASSUME NEW t \in Threads, Insert(t) PROVE Quiet
  BY <1>17 DEF Insert, Goto
<1>18. ASSUME NEW t \in Threads, UnlockAndReturn(t) PROVE Quiet
  BY <1>18 DEF UnlockAndReturn, Goto
<1>19. ASSUME NEW t \in Threads, FreePush(t) PROVE Quiet
  BY <1>19 DEF FreePush, Goto, PushFreed
<1>20. ASSUME NEW t \in Threads, FreeIncrement(t) PROVE Quiet
  BY <1>20 DEF FreeIncrement, Goto, AddToNumFreed
<1>21. ASSUME NEW t \in Threads, CheckEmpty(t) PROVE Quiet
  BY <1>21 DEF CheckEmpty, Goto
<1>22. ASSUME NEW t \in Threads, FreeLock(t) PROVE Quiet
  BY <1>22 DEF FreeLock, Goto
<1>23. ASSUME NEW t \in Threads, RecheckKeep(t) PROVE Quiet
  BY <1>23 DEF RecheckKeep, Goto
<1>24. ASSUME NEW t \in Threads, FreeUnlock(t) PROVE Quiet
  BY <1>24 DEF FreeUnlock, Goto
<1>25. ASSUME NEW t \in Threads, NEW b \in owned, Free(t, b) PROVE Quiet
  BY <1>25 DEF Free, Goto
<1>26. ASSUME NEW t \in Threads, NEW s \in Segments, CollectNext(t, s) PROVE Quiet
  BY <1>26 DEF CollectNext, Goto
<1>27. ASSUME NEW t \in Threads PROVE ~ RegisterThrows(t)
  BY DEF RegisterThrows
<1>28. ASSUME UNCHANGED vars PROVE Quiet
  BY <1>28 DEF vars
<1> HIDE DEF Quiet
<1>29. Quiet \/ \E t \in Threads : \/ \E s \in Segments : NumaAllocate(t, s)
                                  \/ Register(t) \/ RecheckErase(t) \/ ReleaseMemory(t)
  BY <1>1, <1>2, <1>3, <1>4, <1>5, <1>6, <1>7, <1>8, <1>9, <1>10,
     <1>11, <1>12, <1>13, <1>14, <1>15, <1>16, <1>17, <1>18, <1>19,
     <1>20, <1>21, <1>22, <1>23, <1>24, <1>25, <1>26, <1>27, <1>28
  DEF Next, Call, Step, AllocateStep, FreeStep
<1> QED
  BY <1>29 DEF Quiet

(* Memory is mapped by numa().allocate into the hands of the thread that   *)
(* will register it, and deregistered by ~segment into the hands of the    *)
(* thread that will release it; each of them goes on with that memory.     *)
LEMMA ForgottenStep ==
  ASSUME Inv, NoMemoryForgotten, RegisterMayThrow = FALSE, [Next]_vars
  PROVE  NoMemoryForgotten'
<1> USE DEF Inv, TypeOK, SegmentTypeOK, NoMemoryForgotten
<1>1. ASSUME NEW t \in Threads, NEW s \in Segments, NumaAllocate(t, s)
      PROVE  NoMemoryForgotten'
  BY <1>1 DEF NumaAllocate, Goto, MapMemory
<1>2. ASSUME NEW t \in Threads, Register(t) PROVE NoMemoryForgotten'
  BY <1>2 DEF Register, Goto, ConstructMembers
<1>3. ASSUME NEW t \in Threads, RecheckErase(t) PROVE NoMemoryForgotten'
  BY <1>3 DEF RecheckErase, Goto, DestroyMembers, localVars
<1>4. ASSUME NEW t \in Threads, ReleaseMemory(t) PROVE NoMemoryForgotten'
  BY <1>4 DEF ReleaseMemory, Goto, UnmapMemory, localVars
<1>5. ASSUME UNCHANGED memory,
             \A u \in Threads : pc[u] \in {"register", "release"} =>
               pc'[u] = pc[u] /\ seg'[u] = seg[u]
      PROVE  NoMemoryForgotten'
  <2> SUFFICES ASSUME NEW s \in Segments, memory'[s] = "mapped"
               PROVE  \E t \in Threads : seg'[t] = s /\ pc'[t] \in {"register", "release"}
    OBVIOUS
  <2>1. PICK u \in Threads : seg[u] = s /\ pc[u] \in {"register", "release"}
    BY <1>5
  <2> QED
    BY <1>5, <2>1
<1> QED
  BY <1>1, <1>2, <1>3, <1>4, <1>5, ChangesOfHeldMemory

(* If register_memory does not throw, no memory is forgotten between the   *)
(* operating system and a segment, by pool::add_segment or by pool::free.  *)
(* (RegisterThrows leaves it: nothing owns the allocation then.)           *)
THEOREM MemoryIsNotForgotten ==
  ASSUME RegisterMayThrow = FALSE
  PROVE  Spec => []NoMemoryForgotten
<1>1. Init => NoMemoryForgotten
  BY DEF Init, SegmentInit, NoMemoryForgotten
<1>2. Inv /\ NoMemoryForgotten /\ [Next]_vars => NoMemoryForgotten'
  BY ForgottenStep
<1> QED
  BY <1>1, <1>2, InvHolds, PTL DEF Spec

-----------------------------------------------------------------------------
(* The pool implements its promise                                         *)

(* Every access of a thread is an operation of RegisteredBlocks, or        *)
(* changes nothing it speaks of: a block is handed out by the pop of the   *)
(* fast path or the return after the unlock, taken back by a free, memory  *)
(* is backed by register_memory and no longer backed by the erase.         *)
LEMMA PromiseStep ==
  Inv /\ [Next]_vars => [Promise!Next]_(Promise!vars)
<1> SUFFICES ASSUME Inv, [Next]_vars PROVE [Promise!Next]_(Promise!vars)
  BY DEF Promise!vars
<1> DEFINE live == {s \in Segments : IsLive(s)}
<1>1. CASE UNCHANGED <<owned, memory>>
  BY <1>1 DEF Promise!vars, IsLive
<1>2. ASSUME NEW t \in Threads, AllocateHit(t)
      PROVE  [Promise!Next]_(Promise!vars)
  <2> DEFINE b == Last(free_stack)
  <2>1. b \in Block /\ b \in ToSet(free_stack)
    BY <1>2, TakeFromFreeStack DEF AllocateHit, Inv, BlocksInOnePlace
  <2>2. /\ owned' = owned \cup {b} /\ b \notin owned
        /\ IsLive(b.m_segment) /\ memory' = memory
    BY <1>2, <2>1 DEF AllocateHit, Inv, BlocksInOnePlace, PlacesDisjoint,
                      NoDanglingBlock, BlocksSomewhere, segmentVars
  <2>3. Promise!HandOut(b)
    BY <2>1, <2>2 DEF Promise!HandOut, IsLive, Block
  <2> QED
    BY <2>1, <2>3 DEF Promise!Next, Promise!Block, Block
<1>3. ASSUME NEW t \in Threads, UnlockAndReturn(t)
      PROVE  [Promise!Next]_(Promise!vars)
  <2> DEFINE b == block[t]
  <2>1. b \in Block /\ b \in Carried
    BY <1>3, PoolAssumption
       DEF UnlockAndReturn, Goto, Inv, LocalsMatchPc, BlockPcs, Carried
  <2>2. /\ owned' = owned \cup {b} /\ b \notin owned
        /\ IsLive(b.m_segment) /\ memory' = memory
    BY <1>3, <2>1 DEF UnlockAndReturn, Inv, BlocksInOnePlace, PlacesDisjoint,
                      NoDanglingBlock, BlocksSomewhere, segmentVars
  <2>3. Promise!HandOut(b)
    BY <2>1, <2>2 DEF Promise!HandOut, IsLive, Block
  <2> QED
    BY <2>1, <2>3 DEF Promise!Next, Promise!Block, Block
<1>4. ASSUME NEW t \in Threads, NEW b \in owned, Free(t, b)
      PROVE  [Promise!Next]_(Promise!vars)
  <2>1. b \in Block
    BY DEF Inv, TypeOK
  <2>2. Promise!TakeBack(b)
    BY <1>4 DEF Free, segmentVars, Promise!TakeBack, IsLive
  <2> QED
    BY <2>1, <2>2 DEF Promise!Next, Promise!Block, Block
<1>5. ASSUME NEW t \in Threads, NEW s \in Segments, NumaAllocate(t, s)
      PROVE  [Promise!Next]_(Promise!vars)
  <2>1. /\ memory[s] = "unmapped" /\ owned' = owned
        /\ memory' = [memory EXCEPT ![s] = "mapped"]
    BY <1>5 DEF NumaAllocate, MapMemory
  <2>2. \A r \in Segments : IsLive(r)' = IsLive(r)
    BY <2>1 DEF IsLive, Inv, TypeOK, SegmentTypeOK
  <2> QED
    BY <2>1, <2>2 DEF Promise!vars
<1>6. ASSUME NEW t \in Threads, Register(t)
      PROVE  [Promise!Next]_(Promise!vars)
  <2> DEFINE s == seg[t]
  <2>1. /\ s \in Segments /\ memory[s] = "mapped" /\ owned' = owned
        /\ memory' = [memory EXCEPT ![s] = "registered"]
    BY <1>6 DEF Register, Goto, ConstructMembers, Inv, LocalsMatchPc,
                SegmentPcs, HolderMatchesMemory
  <2> HIDE DEF s
  <2>2. ~ IsLive(s) /\ live' = live \cup {s}
    BY <2>1 DEF IsLive, Inv, TypeOK, SegmentTypeOK
  <2>3. Promise!Back(s)
    BY <2>1, <2>2 DEF Promise!Back
  <2> QED
    BY <2>1, <2>3 DEF Promise!Next
<1>7. ASSUME NEW t \in Threads, RecheckErase(t)
      PROVE  [Promise!Next]_(Promise!vars)
  <2> DEFINE s == seg[t]
  <2>1. /\ s \in Segments /\ IsLive(s) /\ ToSet(freed_stack[s]) = BlocksOf(s)
    BY <1>7, ErasedSegmentIsEmpty
  <2>2. /\ owned' = owned /\ memory' = [memory EXCEPT ![s] = "mapped"]
        /\ Cardinality(segments) > m_num_reserve_segments
        /\ ~ NeverFree
    BY <1>7 DEF RecheckErase, Goto, DestroyMembers, MoreThanReserve, Inv,
                NeverFreeKeepsSegments, FreeLockedPcs
  <2> HIDE DEF s
  <2>3. live' = live \ {s}
    BY <2>1, <2>2 DEF IsLive, Inv, TypeOK, SegmentTypeOK
  <2>4. \A b \in owned : b.m_segment # s
    <3>1. owned \subseteq Block /\ owned \cap ToSet(freed_stack[s]) = {}
      BY <2>1 DEF Inv, TypeOK, BlocksInOnePlace, PlacesDisjoint, OnFreedStacks
    <3> QED
      BY <2>1, <3>1 DEF BlocksOf
  <2>5. Cardinality(live) > m_num_reserve_segments
    <3>1. segments \subseteq live /\ live \in SUBSET Segments
      BY DEF Inv, TypeOK, SegmentsMatchMemory
    <3> HIDE DEF live
    <3>2. /\ IsFiniteSet(live) /\ Cardinality(live) \in Nat
          /\ Cardinality(segments) \in Nat
          /\ Cardinality(segments) <= Cardinality(live)
      BY <3>1, SegmentAssumption, FS_Subset, FS_CardinalityType
    <3>3. m_num_reserve_segments \in Nat
      BY PoolAssumption DEF m_num_reserve_segments
    <3> QED
      BY <2>2, <3>2, <3>3
  <2>6. Promise!Unback(s)
    <3>1. Promise!Cardinality(live) = Cardinality(live)
      BY DEF Promise!Cardinality, Cardinality
    <3> QED
      BY <2>1, <2>2, <2>3, <2>4, <2>5, <3>1 DEF Promise!Unback
  <2> QED
    BY <2>1, <2>6 DEF Promise!Next
<1>8. ASSUME NEW t \in Threads, ReleaseMemory(t)
      PROVE  [Promise!Next]_(Promise!vars)
  <2>1. /\ seg[t] \in Segments /\ memory[seg[t]] = "mapped" /\ owned' = owned
        /\ memory' = [memory EXCEPT ![seg[t]] = "unmapped"]
    BY <1>8 DEF ReleaseMemory, Goto, UnmapMemory, Inv, LocalsMatchPc,
                SegmentPcs, FreeLockedPcs, HolderMatchesMemory
  <2>2. \A r \in Segments : IsLive(r)' = IsLive(r)
    BY <2>1 DEF IsLive, Inv, TypeOK, SegmentTypeOK
  <2> QED
    BY <2>1, <2>2 DEF Promise!vars
<1> QED
  BY <1>1, <1>2, <1>3, <1>4, <1>5, <1>6, <1>7, <1>8, ChangesOfOwnedAndMemory

(* Whatever the interleaving of allocate, free and collect, a client sees  *)
(* blocks handed out one at a time in registered memory, and memory given  *)
(* back only when nobody uses it and more than the reserve is left, never  *)
(* with never_free.                                                        *)
THEOREM PoolImplementsPromise == Spec => PoolKeepsPromise
<1>1. Init => Promise!Init
  BY DEF Init, SegmentInit, Promise!Init, IsLive
<1> QED
  BY <1>1, PromiseStep, InvHolds, PTL
     DEF Spec, PoolKeepsPromise, Promise!Spec, Promise!vars

-----------------------------------------------------------------------------
(* Calls that follow one another                                           *)

(* What the clients of MCPoolCalls do is what any clients may do.          *)
LEMMA CallsAreSteps == [CallsNext]_callVars => [Next]_vars
BY DEF CallsNext, callVars, Done, BoundedCall, CallStep, Next

(* The theorems above hold for these clients, too.                         *)
THEOREM CallsImplySpec == CallsSpec => Spec
<1>1. CallsInit => Init
  BY DEF CallsInit
<1> QED BY <1>1, CallsAreSteps, PTL DEF CallsSpec, Spec

(* With one thread in a call, every live segment is in m_segments, except  *)
(* one it builds, and every counter counts, except while it collects or    *)
(* has just freed a block.                                                 *)
LEMMA OnlyCall ==
  ASSUME Inv, NEW t \in Threads, IdleBut({t}), pc[t] # "construct",
         NEW s \in Segments
  PROVE  /\ IsLive(s) => s \in segments
         /\ s \notin segments => freed_stack[s] = <<>>
         /\ IsLive(s) /\ pc[t] \notin CollectPcs \cup {"free_increment"} =>
              num_freed[s] = Len(freed_stack[s])
<1>1. IsLive(s) => s \in segments
  BY DEF Inv, SegmentsMatchMemory, IdleBut
<1>2. s \notin segments => freed_stack[s] = <<>>
  BY <1>1 DEF Inv, SegmentsMatchMemory
<1>3. ASSUME IsLive(s), pc[t] \notin CollectPcs \cup {"free_increment"}
      PROVE  num_freed[s] = Len(freed_stack[s])
  <2>1. Collecting(s) = {} /\ Uncounted(s) = {}
    BY <1>3 DEF Collecting, Uncounted, CollectPcs, IdleBut
  <2>2. Cardinality(Uncounted(s)) = 0
    BY <2>1, FS_EmptySet
  <2>3. num_freed[s] = Len(freed_stack[s]) - Cardinality(Uncounted(s))
    BY <1>3, <2>1 DEF Inv, CounterAgrees
  <2>4. Len(freed_stack[s]) \in Nat
    BY CounterTyped DEF Inv
  <2> QED BY <2>2, <2>3, <2>4
<1> QED BY <1>1, <1>2, <1>3

(* The counter tells whether all blocks of the segment are on its stack.   *)
LEMMA EmptyWhenAllFreed ==
  ASSUME Inv, NEW s \in Segments
  PROVE  Len(freed_stack[s]) = BlocksPerSegment <=> ToSet(freed_stack[s]) = BlocksOf(s)
<1>1. /\ freed_stack[s] \in Seq(Block) /\ IsInjective(freed_stack[s])
      /\ \A b \in ToSet(freed_stack[s]) : b.m_segment = s
  BY DEF Inv, TypeOK, SegmentTypeOK, BlocksInOnePlace, NoRepeatedBlock, FreedBlocksGoHome
<1> QED BY <1>1, DistinctBlocks

(* A segment whose freed stack is empty has blocks that are not freed.     *)
LEMMA CollectedIsNotEmpty ==
  ASSUME NEW s \in Segments
  PROVE  ToSet(<<>>) # BlocksOf(s)
<1>1. [m_segment |-> s, index |-> 1] \in BlocksOf(s)
  BY SegmentAssumption DEF BlocksOf, Block
<1> QED BY <1>1, EmptyStack

(* The steps of allocate, by the only thread in a call.  Before the        *)
(* collect, no segment beyond the reserve has all its blocks freed; after  *)
(* it, no segment has any.                                                 *)
LEMMA AllocateStepSoFar ==
  ASSUME Inv, NEW t \in Threads, IdleBut({t}), CallSoFar(t), AllocateStep(t)
  PROVE  CallSoFar(t)'
<1> USE DEF Goto
<1>0. /\ pc \in [Threads -> LockedPcs \cup UnlockedPcs]
      /\ segments \in SUBSET Segments
      /\ freed_stack \in [Segments -> Seq(Block)]
      /\ todo \in [Threads -> SUBSET Segments]
      /\ seg \in [Threads -> Segments \cup {NoSegment}]
  BY DEF Inv, TypeOK, SegmentTypeOK
<1>1. ASSUME CollectedBut({}), NEW s \in segments
      PROVE  ToSet(freed_stack[s]) # BlocksOf(s)
  BY <1>0, <1>1, CollectedIsNotEmpty DEF CollectedBut
<1>2. CASE Lock(t)
  BY <1>0, <1>2 DEF Lock, segmentVars, CallSoFar, ReclaimedBut
<1>3. CASE PopLockedHit(t)
  BY <1>0, <1>3 DEF PopLockedHit, PopAndUnlock, segmentVars, CallSoFar, ReclaimedBut
<1>4. CASE PopLockedMiss(t)
  <2>1. /\ pc[t] = "pop_locked" /\ pc'[t] = "collect"
        /\ todo'[t] = segments /\ freed_stack' = freed_stack
    BY <1>0, <1>4 DEF PopLockedMiss, segmentVars
  <2>2. \A s \in Segments \ segments : freed_stack[s] = <<>>
    BY <2>1, OnlyCall
  <2> QED BY <2>1, <2>2 DEF CallSoFar, CollectedBut
<1>5. ASSUME NEW s \in Segments, CollectNext(t, s) PROVE CallSoFar(t)'
  <2>1. /\ pc[t] = "collect" /\ pc'[t] = "consume"
        /\ todo'[t] \cup {seg'[t]} = todo[t] \cup {s} /\ freed_stack' = freed_stack
    BY <1>0, <1>5 DEF CollectNext, segmentVars
  <2> QED BY <2>1 DEF CallSoFar, CollectedBut
<1>6. CASE ConsumeOne(t)
  <2>1. /\ pc[t] = "consume" /\ pc'[t] = "consume_push"
        /\ todo' = todo /\ seg' = seg
        /\ \A s \in Segments \ {seg[t]} : freed_stack'[s] = freed_stack[s]
    BY <1>0, <1>6 DEF ConsumeOne, PopFreed
  <2> QED BY <2>1 DEF CallSoFar, CollectedBut
<1>7. CASE ConsumePush(t) \/ ConsumeRelease(t)
  BY <1>0, <1>7 DEF ConsumePush, ConsumeRelease, segmentVars, CallSoFar, CollectedBut
<1>8. CASE ConsumeEnd(t)
  <2>1. /\ pc[t] = "consume" /\ pc'[t] = "subtract" /\ freed_stack[seg[t]] = <<>>
        /\ todo' = todo /\ freed_stack' = freed_stack
    BY <1>0, <1>8 DEF ConsumeEnd, segmentVars, localVars
  <2> QED BY <2>1 DEF CallSoFar, CollectedBut
<1>9. CASE Subtract(t)
  BY <1>0, <1>9 DEF Subtract, AddToNumFreed, CallSoFar, CollectedBut
<1>10. CASE PopCollectedHit(t)
  <2>1. /\ pc[t] = "collect" /\ pc'[t] = "unlock" /\ todo[t] = {}
        /\ UNCHANGED <<freed_stack, segments>>
    BY <1>0, <1>10 DEF PopCollectedHit, PopAndUnlock, segmentVars
  <2>2. CollectedBut({})
    BY <2>1 DEF CallSoFar
  <2> QED BY <1>1, <2>1, <2>2 DEF CallSoFar, ReclaimedBut
<1>11. CASE PopCollectedMiss(t)
  BY <1>0, <1>11 DEF PopCollectedMiss, segmentVars, CallSoFar, CollectedBut
<1>12. CASE GrowHit(t)
  <2>1. /\ pc[t] = "grow" /\ pc'[t] = "unlock"
        /\ UNCHANGED <<freed_stack, segments>>
    BY <1>0, <1>12 DEF GrowHit, PopAndUnlock, segmentVars
  <2>2. CollectedBut({})
    BY <2>1 DEF CallSoFar
  <2> QED BY <1>1, <2>1, <2>2 DEF CallSoFar, ReclaimedBut
<1>13. CASE GrowMiss(t)
  BY <1>0, <1>13 DEF GrowMiss, segmentVars, CallSoFar, CollectedBut
<1>14. ASSUME NEW s \in Segments, NumaAllocate(t, s) PROVE CallSoFar(t)'
  BY <1>0, <1>14 DEF NumaAllocate, MapMemory, CallSoFar, CollectedBut
<1>15. CASE CheckAllocationThrows(t) \/ RegisterThrows(t)
  <2>1. /\ pc[t] \in {"numa_allocate", "register"} /\ pc'[t] = "idle"
        /\ UNCHANGED <<freed_stack, segments>>
    BY <1>0, <1>15 DEF CheckAllocationThrows, RegisterThrows, segmentVars
  <2>2. CollectedBut({})
    BY <2>1 DEF CallSoFar
  <2> QED BY <1>1, <2>1, <2>2 DEF CallSoFar, ReclaimedBut
<1>16. CASE Register(t)
  <2>1. /\ pc[t] = "register" /\ pc'[t] = "construct"
        /\ \A s \in Segments : freed_stack'[s] \in {freed_stack[s], <<>>}
    BY <1>0, <1>16 DEF Register, ConstructMembers
  <2> QED BY <2>1 DEF CallSoFar, CollectedBut
<1>17. CASE ConstructPush(t)
  BY <1>0, <1>17 DEF ConstructPush, segmentVars, CallSoFar, CollectedBut
<1>18. CASE Insert(t)
  BY <1>0, <1>18 DEF Insert, segmentVars, CallSoFar, CollectedBut
<1>19. CASE UnlockAndReturn(t)
  BY <1>0, <1>19 DEF UnlockAndReturn, segmentVars, CallSoFar, ReclaimedBut
<1> QED
  BY <1>2, <1>3, <1>4, <1>5, <1>6, <1>7, <1>8, <1>9, <1>10, <1>11, <1>12, <1>13,
     <1>14, <1>15, <1>16, <1>17, <1>18, <1>19
  DEF AllocateStep

(* The steps of free, by the only thread in a call.  When it looks at the  *)
(* counter of the segment, the counter says whether all blocks are freed;  *)
(* then it erases the segment, or there is no more than the reserve.       *)
LEMMA FreeStepSoFar ==
  ASSUME Inv, NEW t \in Threads, IdleBut({t}), CallSoFar(t), FreeStep(t)
  PROVE  CallSoFar(t)'
<1> USE DEF Goto
<1>0. /\ pc \in [Threads -> LockedPcs \cup UnlockedPcs]
      /\ segments \in SUBSET Segments
      /\ freed_stack \in [Segments -> Seq(Block)]
      /\ seg \in [Threads -> Segments \cup {NoSegment}]
  BY DEF Inv, TypeOK, SegmentTypeOK
<1>1. ASSUME pc[t] \in {"check_empty", "recheck"}
      PROVE  /\ seg[t] \in segments /\ seg[t] \in Segments /\ ReclaimedBut({seg[t]})
             /\ FALSE \in IsEmptyResults(seg[t]) => ReclaimedBut({})
  <2>1. seg[t] \in segments /\ seg[t] \in Segments /\ ReclaimedBut({seg[t]})
    BY <1>0, <1>1 DEF CallSoFar
  <2>2. IsLive(seg[t])
    BY <2>1 DEF Inv, SegmentsMatchMemory
  <2>3. num_freed[seg[t]] = Len(freed_stack[seg[t]])
    BY <1>1, <2>1, <2>2, OnlyCall DEF CollectPcs
  <2>4. ASSUME FALSE \in IsEmptyResults(seg[t])
        PROVE  ToSet(freed_stack[seg[t]]) # BlocksOf(seg[t])
    <3>1. num_freed[seg[t]] # BlocksPerSegment
      BY <2>2, <2>4 DEF IsEmptyResults
    <3> QED BY <2>1, <2>3, <3>1, EmptyWhenAllFreed
  <2> QED BY <2>1, <2>4 DEF ReclaimedBut
<1>2. CASE FreePush(t)
  <2>1. /\ pc[t] = "free_push" /\ pc'[t] = "free_increment"
        /\ UNCHANGED <<segments, seg>>
        /\ \A s \in Segments \ {seg[t]} : freed_stack'[s] = freed_stack[s]
    BY <1>0, <1>2 DEF FreePush, PushFreed
  <2> QED BY <1>0, <2>1 DEF CallSoFar, ReclaimedBut
<1>3. CASE FreeIncrement(t)
  <2>1. /\ pc[t] = "free_increment"
        /\ UNCHANGED <<segments, freed_stack>>
        /\ IF NeverFree THEN pc'[t] = "idle"
                        ELSE pc'[t] = "check_empty" /\ seg'[t] = seg[t]
    BY <1>0, <1>3 DEF FreeIncrement, AddToNumFreed
  <2> QED BY <2>1 DEF CallSoFar, ReclaimedBut
<1>4. CASE CheckEmpty(t)
  <2>1. PICK empty \in IsEmptyResults(seg[t]) :
          /\ pc[t] = "check_empty" /\ pc'[t] = IF empty THEN "free_lock" ELSE "idle"
          /\ seg'[t] = IF empty THEN seg[t] ELSE NoSegment
          /\ UNCHANGED <<segments, freed_stack>>
    BY <1>0, <1>4 DEF CheckEmpty, segmentVars
  <2>2. CASE empty
    <3>1. pc'[t] = "free_lock" /\ seg'[t] = seg[t]
      BY <2>1, <2>2
    <3> QED BY <1>1, <2>1, <3>1 DEF CallSoFar, ReclaimedBut
  <2>3. CASE ~ empty
    <3>1. pc'[t] = "idle" /\ FALSE \in IsEmptyResults(seg[t])
      BY <2>1, <2>3 DEF IsEmptyResults
    <3> QED BY <1>1, <2>1, <3>1 DEF CallSoFar, ReclaimedBut
  <2> QED BY <2>2, <2>3
<1>5. CASE FreeLock(t)
  <2>1. /\ pc[t] = "free_lock" /\ pc'[t] = "recheck"
        /\ UNCHANGED <<segments, freed_stack, seg>>
    BY <1>0, <1>5 DEF FreeLock, segmentVars, localVars
  <2> QED BY <2>1 DEF CallSoFar, ReclaimedBut
<1>6. CASE RecheckKeep(t)
  <2>1. /\ pc[t] = "recheck" /\ pc'[t] = "free_unlock"
        /\ UNCHANGED <<segments, freed_stack>>
    BY <1>0, <1>6 DEF RecheckKeep, segmentVars
  <2>2. ReclaimedBut({})
    BY <1>1, <1>6, <2>1 DEF RecheckKeep, MoreThanReserve, ReclaimedBut
  <2> QED BY <2>1, <2>2 DEF CallSoFar, ReclaimedBut
<1>7. CASE RecheckErase(t)
  <2>1. /\ pc[t] = "recheck" /\ pc'[t] = "release"
        /\ segments' = segments \ {seg[t]}
        /\ Cardinality(segments) > m_num_reserve_segments
        /\ \A s \in Segments \ {seg[t]} : freed_stack'[s] = freed_stack[s]
    BY <1>0, <1>7 DEF RecheckErase, DestroyMembers, MoreThanReserve
  <2>2. ~ NeverFree => \A s \in segments' : ToSet(freed_stack'[s]) # BlocksOf(s)
    BY <1>0, <1>1, <2>1 DEF ReclaimedBut
  <2> QED BY <2>1, <2>2 DEF CallSoFar, ReclaimedBut
<1>8. CASE ReleaseMemory(t) \/ FreeUnlock(t)
  BY <1>0, <1>8
  DEF ReleaseMemory, UnmapMemory, FreeUnlock, segmentVars, CallSoFar, ReclaimedBut
<1> QED
  BY <1>2, <1>3, <1>4, <1>5, <1>6, <1>7, <1>8 DEF FreeStep

(* A call that begins when no other is made: nothing is left to reclaim.   *)
LEMMA CallSoFarBegins ==
  ASSUME Inv, NEW t \in Threads, IdleBut({}), ReclaimedBut({}), Call(t)
  PROVE  CallSoFar(t)'
<1> USE DEF Goto
<1>0. /\ pc \in [Threads -> LockedPcs \cup UnlockedPcs] /\ pc[t] = "idle"
      /\ seg \in [Threads -> Segments \cup {NoSegment}]
      /\ owned \in SUBSET Block
  BY DEF Inv, TypeOK, IdleBut
<1>1. CASE AllocateHit(t) \/ AllocateMiss(t)
  BY <1>0, <1>1 DEF AllocateHit, AllocateMiss, segmentVars, CallSoFar, ReclaimedBut
<1>2. ASSUME NEW b \in owned, Free(t, b) PROVE CallSoFar(t)'
  <2>1. b \in Block /\ b.m_segment \in Segments
    BY <1>0 DEF Block
  <2>2. IsLive(b.m_segment)
    BY DEF Inv, NoDanglingBlock, BlocksSomewhere
  <2>3. b.m_segment \in segments
    BY <1>0, <2>1, <2>2, OnlyCall DEF IdleBut
  <2>4. /\ pc'[t] = "free_push" /\ seg'[t] = b.m_segment
        /\ UNCHANGED <<segments, freed_stack>>
    BY <1>0, <1>2 DEF Free, segmentVars
  <2> QED BY <2>3, <2>4 DEF CallSoFar, ReclaimedBut
<1> QED BY <1>1, <1>2 DEF Call

(* A step of a thread in a call leaves the program counters of the others  *)
(* alone, and only such a thread takes one.                                *)
LEMMA OthersKeepTheirPc ==
  ASSUME Inv, NEW t \in Threads, Call(t) \/ Step(t)
  PROVE  /\ \A u \in Threads \ {t} : pc'[u] = pc[u]
         /\ Step(t) => pc[t] # "idle"
<1>0. pc \in [Threads -> LockedPcs \cup UnlockedPcs]
  BY DEF Inv, TypeOK
<1>1. pc' = pc \/ \E to : pc' = [pc EXCEPT ![t] = to]
  BY DEF Call, AllocateHit, AllocateMiss, Free, Step, AllocateStep, FreeStep, Goto,
     Lock, PopLockedHit, PopAndUnlock, PopLockedMiss, CollectNext, ConsumeOne,
     ConsumePush, ConsumeRelease, ConsumeEnd, Subtract, PopCollectedHit,
     PopCollectedMiss, GrowHit, GrowMiss, NumaAllocate, CheckAllocationThrows,
     Register, RegisterThrows, ConstructPush, Insert, UnlockAndReturn, FreePush,
     FreeIncrement, CheckEmpty, FreeLock, RecheckKeep, RecheckErase, ReleaseMemory,
     FreeUnlock
<1>2. Step(t) => pc[t] # "idle"
  BY DEF Step, AllocateStep, FreeStep, Goto,
     Lock, PopLockedHit, PopAndUnlock, PopLockedMiss, CollectNext, ConsumeOne,
     ConsumePush, ConsumeRelease, ConsumeEnd, Subtract, PopCollectedHit,
     PopCollectedMiss, GrowHit, GrowMiss, NumaAllocate, CheckAllocationThrows,
     Register, RegisterThrows, ConstructPush, Insert, UnlockAndReturn, FreePush,
     FreeIncrement, CheckEmpty, FreeLock, RecheckKeep, RecheckErase, ReleaseMemory,
     FreeUnlock
<1> QED BY <1>0, <1>1, <1>2


(* No step breaks the invariant of calls that follow one another: a call   *)
(* that begins during another one is recorded, and none of it is left.     *)
LEMMA SequentialStep ==
  ASSUME Inv, SequentialInv, [CallsNext]_callVars
  PROVE  SequentialInv'
<1>1. SUFFICES ASSUME ~ overlapped'
               PROVE  \/ (IdleBut({}) /\ ReclaimedBut({}))'
                      \/ \E t \in Threads :
                           (pc[t] # "idle" /\ IdleBut({t}) /\ CallSoFar(t))'
  BY DEF SequentialInv
<1>2. ASSUME NEW t \in Threads, IdleBut({t})', CallSoFar(t)'
      PROVE  \/ (IdleBut({}) /\ ReclaimedBut({}))'
             \/ (pc[t] # "idle" /\ IdleBut({t}) /\ CallSoFar(t))'
  BY <1>2 DEF IdleBut, CallSoFar
<1>3. ASSUME NEW t \in Threads, BoundedCall(t)
      PROVE  IdleBut({t})' /\ CallSoFar(t)'
  <2>1. ~ overlapped /\ IdleBut({}) /\ Call(t)
    BY <1>1, <1>3 DEF BoundedCall, IdleBut
  <2>2. ReclaimedBut({})
    BY <2>1 DEF SequentialInv, IdleBut
  <2>3. CallSoFar(t)'
    BY <2>1, <2>2, CallSoFarBegins
  <2>4. \A u \in Threads \ {t} : pc'[u] = pc[u]
    BY <2>1, OthersKeepTheirPc
  <2> QED BY <2>1, <2>3, <2>4 DEF IdleBut
<1>4. ASSUME NEW t \in Threads, CallStep(t)
      PROVE  IdleBut({t})' /\ CallSoFar(t)'
  <2>1. ~ overlapped /\ Step(t)
    BY <1>1, <1>4 DEF CallStep
  <2>2. pc[t] # "idle" /\ \A u \in Threads \ {t} : pc'[u] = pc[u]
    BY <2>1, OthersKeepTheirPc
  <2>3. IdleBut({t}) /\ CallSoFar(t)
    BY <2>1, <2>2 DEF SequentialInv, IdleBut
  <2>4. CallSoFar(t)'
    BY <2>1, <2>3, AllocateStepSoFar, FreeStepSoFar DEF Step
  <2> QED BY <2>2, <2>3, <2>4 DEF IdleBut
<1>5. CASE UNCHANGED callVars
  <2>1. /\ ~ overlapped
        /\ UNCHANGED <<pc, segments, freed_stack, free_stack, seg, todo>>
    BY <1>1, <1>5 DEF callVars, vars, segmentVars, localVars
  <2> QED BY <2>1 DEF SequentialInv, IdleBut, CallSoFar, ReclaimedBut, CollectedBut
<1> QED BY <1>2, <1>3, <1>4, <1>5 DEF CallsNext, Done

(* As long as calls do not overlap, allocate collects everything before it *)
(* grows the pool, and free reclaims what it can.                          *)
THEOREM SequentialInvariant == CallsSpec => []SequentialInv
<1>1. CallsInit => SequentialInv
  BY DEF CallsInit, Init, SequentialInv, IdleBut, ReclaimedBut
<1>2. Inv /\ SequentialInv /\ [CallsNext]_callVars => SequentialInv'
  BY SequentialStep
<1>3. CallsSpec => []Inv
  BY CallsImplySpec, InvHolds, PTL
<1> QED BY <1>1, <1>2, <1>3, PTL DEF CallsSpec

(* pool::allocate asks for memory only when every block is in the hands of *)
(* a client: the collect has found whatever any call before it freed.      *)
THEOREM GrowsOnlyWhenExhaustedTheorem == CallsSpec => []GrowsOnlyWhenExhausted
<1>1. ASSUME Inv, SequentialInv PROVE GrowsOnlyWhenExhausted
  <2>1. SUFFICES ASSUME NEW t \in Threads, pc[t] = "numa_allocate", ~ overlapped,
                        NEW b \in Block, IsLive(b.m_segment)
                 PROVE  b \in owned
    BY DEF GrowsOnlyWhenExhausted
  <2>2. IdleBut({t}) /\ free_stack = <<>> /\ CollectedBut({})
    BY <1>1, <2>1 DEF SequentialInv, IdleBut, CallSoFar
  <2>3. Carried = {}
    BY <1>1, <2>1, <2>2 DEF Inv, LocalsMatchPc, BlockPcs, IdleBut, Carried
  <2>4. NotYetPushed = {}
    BY <2>1, <2>2 DEF IdleBut, NotYetPushed
  <2>5. OnFreedStacks = {} /\ ToSet(free_stack) = {}
    BY <2>2, EmptyStack DEF CollectedBut, OnFreedStacks
  <2> QED
    BY <1>1, <2>1, <2>3, <2>4, <2>5 DEF Inv, NoBlockLost, BlocksSomewhere
<1>2. CallsSpec => []Inv
  BY CallsImplySpec, InvHolds, PTL
<1> QED BY <1>1, <1>2, SequentialInvariant, PTL

(* pool::free leaves no segment behind whose blocks are all freed, beyond  *)
(* the reserve.  (With m_never_free set it returns before it looks.)       *)
THEOREM EmptySegmentsAreReclaimedTheorem ==
  ASSUME NeverFree = FALSE
  PROVE  CallsSpec => []EmptySegmentsAreReclaimed
<1>1. SequentialInv => EmptySegmentsAreReclaimed
  BY DEF SequentialInv, IdleBut, ReclaimedBut, EmptySegmentsAreReclaimed
<1> QED BY <1>1, SequentialInvariant, PTL

=============================================================================
