-------------------------- MODULE PoolBlockProofs --------------------------
(***************************************************************************)
(* Where the blocks of a pool are, and how many of them are counted as     *)
(* freed.                                                                  *)
(*                                                                         *)
(* A step moves a block from one place to another, and creates and         *)
(* destroys only all the blocks of a segment.                              *)
(*                                                                         *)
(* segment::free pushes a block and then increments m_num_freed;           *)
(* segment::collect pops blocks and then subtracts their number. Neither   *)
(* pair is atomic, and frees do not take the mutex. pool::free trusts the  *)
(* counter when it destroys a segment, so the equation between the         *)
(* counter, the stack and the threads in between is part of the inductive  *)
(* invariant, and with it that no thread uses a destroyed segment.         *)
(***************************************************************************)
EXTENDS PoolTypeProofs

-----------------------------------------------------------------------------
(* How the places change                                                   *)

(* The empty stack a segment is constructed with holds no block.           *)
LEMMA EmptyStack == ToSet(<<>>) = {} /\ IsInjective(<<>>)
  BY DEF ToSet, IsInjective

(* A thread that has popped a block, or was given one to free, carries it, *)
(* and no other thread carries the same.                                   *)
LEMMA TakeUp ==
  ASSUME NEW t \in Threads, NEW b \in Block, TypeOK, NoRepeatedBlock,
         block[t] = NoBlock, b \notin Carried,
         block' = [block EXCEPT ![t] = b]
  PROVE  /\ Carried' = Carried \cup {b}
         /\ \A u, v \in Threads :
              block'[u] = block'[v] => u = v \/ block'[u] = NoBlock
<1>1. b # NoBlock
  BY PoolAssumption
<1>2. /\ block'[t] = b
      /\ \A u \in Threads \ {t} : block'[u] = block[u]
  BY DEF TypeOK
<1>3. \A u \in Threads : block[u] # b
  BY <1>1 DEF Carried
<1> QED
  BY <1>1, <1>2, <1>3 DEF Carried, NoRepeatedBlock

(* A thread that has pushed or returned the block it carried carries none. *)
LEMMA PutDown ==
  ASSUME NEW t \in Threads, TypeOK, NoRepeatedBlock, block[t] \in Block,
         block' = [block EXCEPT ![t] = NoBlock]
  PROVE  /\ Carried' = Carried \ {block[t]}
         /\ block[t] \in Carried
         /\ \A u, v \in Threads :
              block'[u] = block'[v] => u = v \/ block'[u] = NoBlock
<1>1. block[t] # NoBlock
  BY PoolAssumption
<1>2. /\ block'[t] = NoBlock
      /\ \A u \in Threads \ {t} : block'[u] = block[u]
  BY DEF TypeOK
<1>3. \A u \in Threads \ {t} : block[u] # block[t]
  BY <1>1 DEF NoRepeatedBlock
<1> QED
  BY <1>1, <1>2, <1>3 DEF Carried, NoRepeatedBlock

(* consume_all takes the top block of one freed stack, and only there.     *)
LEMMA TakeFromFreedStack ==
  ASSUME NEW s \in Segments, TypeOK, NoRepeatedBlock, FreedBlocksGoHome,
         freed_stack[s] # <<>>,
         freed_stack' = [freed_stack EXCEPT ![s] = Front(@)]
  PROVE  LET b == Last(freed_stack[s]) IN
         /\ b \in Block
         /\ b \in OnFreedStacks
         /\ OnFreedStacks' = OnFreedStacks \ {b}
         /\ \A r \in Segments : IsInjective(freed_stack'[r])
<1> DEFINE b == Last(freed_stack[s])
<1>1. freed_stack[s] \in Seq(Block)
  BY DEF TypeOK, SegmentTypeOK
<1>2. /\ freed_stack'[s] = Front(freed_stack[s])
      /\ \A r \in Segments \ {s} : freed_stack'[r] = freed_stack[r]
  BY DEF TypeOK, SegmentTypeOK
<1>3. /\ b \in Block
      /\ ToSet(freed_stack[s]) = ToSet(freed_stack'[s]) \cup {b}
      /\ b \notin ToSet(freed_stack'[s])
      /\ IsInjective(freed_stack'[s])
  BY <1>1, <1>2, PopElements, PopDistinct DEF NoRepeatedBlock
<1>4. \A r \in Segments \ {s} : b \notin ToSet(freed_stack[r])
  BY <1>3 DEF FreedBlocksGoHome
<1> HIDE DEF b
<1>5. OnFreedStacks' = OnFreedStacks \ {b}
  BY <1>2, <1>3, <1>4 DEF OnFreedStacks
<1>6. b \in OnFreedStacks
  BY <1>3 DEF OnFreedStacks
<1>7. \A r \in Segments : IsInjective(freed_stack'[r])
  BY <1>2, <1>3 DEF NoRepeatedBlock
<1> QED
  BY <1>3, <1>5, <1>6, <1>7 DEF b

(* The push of segment::free adds a block that was on no freed stack to    *)
(* one of them.                                                            *)
LEMMA AddToFreedStack ==
  ASSUME NEW s \in Segments, NEW b \in Block, TypeOK, NoRepeatedBlock,
         b \notin OnFreedStacks,
         freed_stack' = [freed_stack EXCEPT ![s] = Append(@, b)]
  PROVE  /\ OnFreedStacks' = OnFreedStacks \cup {b}
         /\ \A r \in Segments : IsInjective(freed_stack'[r])
<1>1. freed_stack[s] \in Seq(Block)
  BY DEF TypeOK, SegmentTypeOK
<1>2. /\ freed_stack'[s] = Append(freed_stack[s], b)
      /\ \A r \in Segments \ {s} : freed_stack'[r] = freed_stack[r]
  BY DEF TypeOK, SegmentTypeOK
<1>3. b \notin ToSet(freed_stack[s])
  BY DEF OnFreedStacks
<1>4. /\ ToSet(freed_stack'[s]) = ToSet(freed_stack[s]) \cup {b}
      /\ IsInjective(freed_stack'[s])
  BY <1>1, <1>2, <1>3, PushElements, PushDistinct DEF NoRepeatedBlock
<1>5. OnFreedStacks' = OnFreedStacks \cup {b}
  BY <1>2, <1>4 DEF OnFreedStacks
<1> QED
  BY <1>2, <1>4, <1>5 DEF NoRepeatedBlock

(* A pop of m_free_stack takes its top block, which was there once.        *)
LEMMA TakeFromFreeStack ==
  ASSUME TypeOK, NoRepeatedBlock, free_stack # <<>>,
         free_stack' = Front(free_stack)
  PROVE  LET b == Last(free_stack) IN
         /\ b \in Block
         /\ b \in ToSet(free_stack)
         /\ ToSet(free_stack') = ToSet(free_stack) \ {b}
         /\ IsInjective(free_stack')
<1>1. free_stack \in Seq(Block)
  BY DEF TypeOK
<1> QED
  BY <1>1, PopElements, PopDistinct DEF NoRepeatedBlock

(* The push on m_free_stack by collect and by the constructor adds a block *)
(* that was not there.                                                     *)
LEMMA AddToFreeStack ==
  ASSUME NEW b \in Block, TypeOK, NoRepeatedBlock, b \notin ToSet(free_stack),
         free_stack' = Append(free_stack, b)
  PROVE  /\ ToSet(free_stack') = ToSet(free_stack) \cup {b}
         /\ IsInjective(free_stack')
<1>1. free_stack \in Seq(Block)
  BY DEF TypeOK
<1> QED
  BY <1>1, PushElements, PushDistinct DEF NoRepeatedBlock

(* No step has been taken in a segment constructor, and none has been      *)
(* entered or left.                                                        *)
SameConstruction ==
  \A u \in Threads :
    /\ pc[u] = "construct" <=> pc'[u] = "construct"
    /\ pc[u] = "construct" => seg'[u] = seg[u] /\ left'[u] = left[u]

(* The blocks a segment constructor has still to push change only by its   *)
(* own steps.                                                              *)
LEMMA SameConstructionKeepsNotYetPushed ==
  SameConstruction => NotYetPushed' = NotYetPushed
  BY DEF SameConstruction, NotYetPushed

-----------------------------------------------------------------------------
(* Every step keeps the blocks in order                                    *)

(* The three block invariants together: a block is in one place, no block  *)
(* of a live segment is lost, none outlives its segment.                   *)
BlocksInOrder == BlocksInOnePlace /\ NoDanglingBlock /\ NoBlockLost

(* No segment object was created or destroyed.                             *)
SameLiveSegments == \A s \in Segments : IsLive(s)' = IsLive(s)

(* Whatever a stack, a thread or a client has is a block of a segment.     *)
LEMMA SomewhereTyped == TypeOK => BlocksSomewhere \subseteq Block
<1> SUFFICES ASSUME TypeOK PROVE BlocksSomewhere \subseteq Block
  OBVIOUS
<1>1. ToSet(free_stack) \subseteq Block
  BY DEF TypeOK, ToSet
<1>2. \A s \in Segments : ToSet(freed_stack[s]) \subseteq Block
  BY DEF TypeOK, SegmentTypeOK, ToSet
<1>3. OnFreedStacks \subseteq Block
  BY <1>2 DEF OnFreedStacks
<1>4. owned \subseteq Block /\ Carried \subseteq Block
  BY DEF TypeOK, Carried
<1> QED
  BY <1>1, <1>3, <1>4 DEF BlocksSomewhere, NotYetPushed

(* A step that moves a block from one place to another, as every pop,      *)
(* push, return and free does, keeps the blocks in order.                  *)
LEMMA MovesKeepOrder ==
  ASSUME TypeOK, BlocksInOrder, SameLiveSegments,
         BlocksSomewhere' = BlocksSomewhere, NoRepeatedBlock', PlacesDisjoint'
  PROVE  BlocksInOrder'
<1>1. \A b \in Block : b.m_segment \in Segments
  BY DEF Block
<1>2. \A b \in Block : IsLive(b.m_segment)' = IsLive(b.m_segment)
  BY <1>1 DEF SameLiveSegments
<1> HIDE DEF IsLive
<1>3. NoDanglingBlock'
  BY <1>2, SomewhereTyped DEF BlocksInOrder, NoDanglingBlock
<1>4. NoBlockLost'
  BY <1>2 DEF BlocksInOrder, NoBlockLost
<1> QED
  BY <1>3, <1>4 DEF BlocksInOrder, BlocksInOnePlace

(* A step that moves no block and creates or destroys no segment keeps the *)
(* blocks in order: the locks, the counters, the walk over m_segments.     *)
LEMMA QuietStepsKeepOrder ==
  ASSUME TypeOK, BlocksInOrder, SameLiveSegments, NotYetPushed' = NotYetPushed,
         UNCHANGED <<owned, free_stack, freed_stack, block>>
  PROVE  BlocksInOrder'
<1>1. NoRepeatedBlock'
  BY DEF BlocksInOrder, BlocksInOnePlace, NoRepeatedBlock
<1>2. OnFreedStacks' = OnFreedStacks /\ Carried' = Carried
  BY DEF OnFreedStacks, Carried
<1>3. PlacesDisjoint'
  BY <1>2 DEF BlocksInOrder, BlocksInOnePlace, PlacesDisjoint
<1>4. BlocksSomewhere' = BlocksSomewhere
  BY <1>2 DEF BlocksSomewhere
<1> QED
  BY <1>1, <1>3, <1>4, MovesKeepOrder

(* The memory register_memory was called for belonged to no segment: its   *)
(* blocks are nowhere, and the constructor has all of them to push.        *)
LEMMA RegisterKeepsOrder ==
  ASSUME Inv, NEW t \in Threads, Register(t)
  PROVE  BlocksInOrder'
<1> USE DEF Inv
<1> DEFINE s == seg[t]
<1>1. /\ pc[t] = "register"
      /\ pc' = [pc EXCEPT ![t] = "construct"]
      /\ left' = [left EXCEPT ![t] = BlocksPerSegment]
      /\ memory' = [memory EXCEPT ![s] = "registered"]
      /\ freed_stack' = [freed_stack EXCEPT ![s] = <<>>]
      /\ UNCHANGED <<free_stack, owned, block, seg>>
  BY DEF Register, Goto, ConstructMembers
<1>2. s \in Segments /\ ~ IsLive(s) /\ freed_stack[s] = <<>>
  BY <1>1 DEF LocalsMatchPc, SegmentPcs, HolderMatchesMemory,
              SegmentsMatchMemory, IsLive
<1>3. \A u \in Threads : pc[u] # "construct"
  BY <1>1 DEF MutualExclusion, LockedPcs, AllocateLockedPcs
<1>4. \A u \in Threads : pc'[u] = "construct" <=> u = t
  BY <1>1, <1>3 DEF TypeOK
<1>5. NotYetPushed = {}
  BY <1>3 DEF NotYetPushed
<1>6. NotYetPushed' = BlocksOf(s)
  <2>1. \A b \in Block : b.index \in 1..BlocksPerSegment
    BY DEF Block
  <2>2. \A b \in Block : b.index <= BlocksPerSegment
    BY <2>1, SegmentAssumption
  <2>3. left'[t] = BlocksPerSegment /\ seg'[t] = s
    BY <1>1 DEF TypeOK
  <2> HIDE DEF s
  <2> QED
    BY <1>4, <2>2, <2>3 DEF NotYetPushed, BlocksOf
<1>7. freed_stack' = freed_stack
  BY <1>1, <1>2 DEF TypeOK, SegmentTypeOK
<1>8. /\ OnFreedStacks' = OnFreedStacks
      /\ Carried' = Carried
      /\ NoRepeatedBlock'
  BY <1>1, <1>7 DEF OnFreedStacks, Carried, NoRepeatedBlock, BlocksInOnePlace
<1>9. /\ memory'[s] = "registered"
      /\ \A r \in Segments \ {s} : IsLive(r)' = IsLive(r)
  BY <1>1, <1>2 DEF IsLive, TypeOK, SegmentTypeOK
<1>10. BlocksSomewhere \cap BlocksOf(s) = {}
  BY <1>2 DEF NoDanglingBlock, BlocksOf
<1>11. PlacesDisjoint'
  BY <1>1, <1>5, <1>6, <1>8, <1>10
     DEF BlocksInOnePlace, PlacesDisjoint, BlocksSomewhere
<1>12. BlocksSomewhere' = BlocksSomewhere \cup BlocksOf(s)
  BY <1>1, <1>5, <1>6, <1>8 DEF BlocksSomewhere
<1>13. \A b \in Block : b.m_segment \in Segments
  BY DEF Block
<1>14. \A b \in Block :
         IsLive(b.m_segment)' <=> IsLive(b.m_segment) \/ b \in BlocksOf(s)
  <2>1. \A b \in Block : b.m_segment = s => IsLive(b.m_segment)'
    BY <1>9 DEF IsLive
  <2> HIDE DEF s
  <2> QED
    BY <1>9, <1>13, <2>1 DEF BlocksOf
<1>15. NoDanglingBlock'
  BY <1>2, <1>12, <1>14, SomewhereTyped DEF NoDanglingBlock, BlocksOf
<1>16. NoBlockLost'
  BY <1>12, <1>14 DEF NoBlockLost
<1> QED
  BY <1>8, <1>11, <1>15, <1>16 DEF BlocksInOrder, BlocksInOnePlace

(* A segment pool::free erases from m_segments has all its blocks on its   *)
(* freed stack, and no thread has still to count one: the counter says so, *)
(* because no collect is under way (it would have the mutex) and a segment *)
(* has no more than BlocksPerSegment blocks.                               *)
LEMMA ErasedSegmentIsEmpty ==
  ASSUME Inv, NEW t \in Threads, RecheckErase(t)
  PROVE  /\ seg[t] \in Segments /\ IsLive(seg[t])
         /\ ToSet(freed_stack[seg[t]]) = BlocksOf(seg[t])
         /\ Uncounted(seg[t]) = {}
<1> USE DEF Inv
<1> DEFINE s == seg[t]
           q == freed_stack[s]
<1>1. /\ pc[t] = "recheck"
      /\ s \in segments
      /\ TRUE \in IsEmptyResults(s)
  BY DEF RecheckErase, Goto
<1>2. s \in Segments /\ IsLive(s)
  BY <1>1 DEF LocalsMatchPc, SegmentPcs, FreeLockedPcs, SegmentsMatchMemory
<1>3. num_freed[s] = BlocksPerSegment
  BY <1>1, <1>2 DEF IsEmptyResults
<1>4. Collecting(s) = {}
  <2>1. \A u \in Threads : pc[u] \in CollectPcs => u = t
    BY <1>1 DEF MutualExclusion, LockedPcs, AllocateLockedPcs, FreeLockedPcs
  <2> QED
    BY <1>1, <2>1 DEF Collecting, CollectPcs
<1> HIDE DEF s
<1>5. num_freed[s] = Len(q) - Cardinality(Uncounted(s))
  BY <1>2, <1>4 DEF CounterAgrees
<1>6. /\ IsFiniteSet(Uncounted(s))
      /\ Cardinality(Uncounted(s)) \in Nat
  <2>1. Uncounted(s) \in SUBSET Threads
    BY DEF Uncounted
  <2> QED
    BY <2>1, PoolAssumption, FS_Subset, FS_CardinalityType
<1>7. q \in Seq(Block) /\ IsInjective(q) /\ \A b \in ToSet(q) : b.m_segment = s
  BY <1>2 DEF TypeOK, SegmentTypeOK, BlocksInOnePlace, NoRepeatedBlock,
              FreedBlocksGoHome
<1> HIDE DEF q
<1>8. Len(q) \in Nat
  BY <1>7
<1>9. Len(q) = BlocksPerSegment /\ Cardinality(Uncounted(s)) = 0
  BY <1>2, <1>3, <1>5, <1>6, <1>7, <1>8, DistinctBlocks, SegmentAssumption
<1>10. ToSet(q) = BlocksOf(s) /\ Uncounted(s) = {}
  BY <1>2, <1>6, <1>7, <1>9, DistinctBlocks, FS_EmptySet
<1> QED
  BY <1>2, <1>10 DEF s, q

(* Erasing a segment makes all its blocks vanish together with its memory, *)
(* and no other block.                                                     *)
LEMMA EraseKeepsOrder ==
  ASSUME Inv, NEW t \in Threads, RecheckErase(t)
  PROVE  BlocksInOrder'
<1> USE DEF Inv
<1> DEFINE s == seg[t]
<1>1. /\ pc[t] = "recheck"
      /\ pc' = [pc EXCEPT ![t] = "release"]
      /\ memory' = [memory EXCEPT ![s] = "mapped"]
      /\ freed_stack' = [freed_stack EXCEPT ![s] = <<>>]
      /\ UNCHANGED <<free_stack, owned, block, seg, left>>
  BY DEF RecheckErase, Goto, DestroyMembers, localVars
<1>2. s \in Segments /\ IsLive(s) /\ ToSet(freed_stack[s]) = BlocksOf(s)
  BY ErasedSegmentIsEmpty
<1>3. SameConstruction
  BY <1>1 DEF SameConstruction, TypeOK
<1>4. NotYetPushed' = NotYetPushed /\ Carried' = Carried
  BY <1>1, <1>3, SameConstructionKeepsNotYetPushed DEF Carried
<1>5. /\ memory'[s] = "mapped"
      /\ \A r \in Segments \ {s} : IsLive(r)' = IsLive(r)
  BY <1>1, <1>2 DEF IsLive, TypeOK, SegmentTypeOK
<1> HIDE DEF s
<1>6. /\ ToSet(freed_stack'[s]) = {} /\ IsInjective(freed_stack'[s])
      /\ \A r \in Segments \ {s} : freed_stack'[r] = freed_stack[r]
  BY <1>1, <1>2, EmptyStack DEF TypeOK, SegmentTypeOK
<1>7. OnFreedStacks' = OnFreedStacks \ BlocksOf(s)
  BY <1>2, <1>6 DEF OnFreedStacks, FreedBlocksGoHome, BlocksOf
<1>8. BlocksOf(s) \subseteq OnFreedStacks
  BY <1>2 DEF OnFreedStacks
<1>9. NoRepeatedBlock'
  BY <1>1, <1>6 DEF NoRepeatedBlock, BlocksInOnePlace
<1>10. PlacesDisjoint'
  BY <1>1, <1>4, <1>7 DEF PlacesDisjoint, BlocksInOnePlace
<1>11. BlocksSomewhere' = BlocksSomewhere \ BlocksOf(s)
  BY <1>1, <1>4, <1>7, <1>8
     DEF BlocksSomewhere, PlacesDisjoint, BlocksInOnePlace
<1>12. \A b \in Block : b.m_segment \in Segments
  BY DEF Block
<1>13. \A b \in Block :
         IsLive(b.m_segment)' <=> IsLive(b.m_segment) /\ b \notin BlocksOf(s)
  <2>1. \A b \in Block : b.m_segment = s => ~ IsLive(b.m_segment)'
    BY <1>5 DEF IsLive
  <2> QED
    BY <1>5, <1>12, <2>1 DEF BlocksOf
<1>14. NoDanglingBlock'
  BY <1>11, <1>13, SomewhereTyped DEF NoDanglingBlock
<1>15. NoBlockLost'
  BY <1>11, <1>13 DEF NoBlockLost
<1> QED
  BY <1>9, <1>10, <1>14, <1>15 DEF BlocksInOrder, BlocksInOnePlace

(* No step of allocate or free hands a block out twice, loses one, or      *)
(* leaves one in memory that is gone.                                      *)
LEMMA OrderStep ==
  Inv /\ [Next]_vars => BlocksInOrder'
<1> SUFFICES ASSUME Inv, [Next]_vars PROVE BlocksInOrder'
  OBVIOUS
<1> USE DEF Inv, segmentVars, localVars
<1>0. BlocksInOrder /\ NoRepeatedBlock /\ PlacesDisjoint
  BY DEF BlocksInOrder, BlocksInOnePlace
<1>1. ASSUME NEW t \in Threads, AllocateHit(t) PROVE BlocksInOrder'
  <2> DEFINE b == Last(free_stack)
  <2>1. /\ free_stack # <<>> /\ free_stack' = Front(free_stack)
        /\ owned' = owned \cup {b}
        /\ UNCHANGED <<memory, freed_stack, block, pc, seg, left>>
    BY <1>1 DEF AllocateHit
  <2>2. /\ NotYetPushed' = NotYetPushed
        /\ OnFreedStacks' = OnFreedStacks
        /\ Carried' = Carried
        /\ SameLiveSegments
    BY <2>1 DEF NotYetPushed, OnFreedStacks, Carried, SameLiveSegments, IsLive
  <2>3. /\ b \in Block /\ b \in ToSet(free_stack)
        /\ ToSet(free_stack') = ToSet(free_stack) \ {b}
        /\ IsInjective(free_stack')
    BY <2>1, <1>0, TakeFromFreeStack
  <2>4. NoRepeatedBlock'
    BY <1>0, <2>1, <2>3 DEF NoRepeatedBlock
  <2> HIDE DEF b
  <2>5. PlacesDisjoint' /\ BlocksSomewhere' = BlocksSomewhere
    BY <1>0, <2>1, <2>2, <2>3 DEF PlacesDisjoint, BlocksSomewhere
  <2> QED
    BY <2>2, <2>4, <2>5, <1>0, MovesKeepOrder
<1>2. ASSUME NEW t \in Threads, AllocateMiss(t) PROVE BlocksInOrder'
  <2>1. SameConstruction /\ SameLiveSegments
    BY <1>2 DEF AllocateMiss, Goto, TypeOK, SegmentTypeOK, SameConstruction,
        SameLiveSegments, IsLive
  <2>2. UNCHANGED <<owned, free_stack, freed_stack, block>>
    BY <1>2 DEF AllocateMiss
  <2> QED
    BY <2>1, <2>2, <1>0, QuietStepsKeepOrder,
        SameConstructionKeepsNotYetPushed
<1>3. ASSUME NEW t \in Threads, NEW b \in owned, Free(t, b) PROVE BlocksInOrder'
  <2>1. /\ b \in owned /\ b \in Block
        /\ owned' = owned \ {b}
        /\ block' = [block EXCEPT ![t] = b]
        /\ UNCHANGED <<memory, freed_stack, free_stack>>
    BY <1>3 DEF Free, segmentVars, TypeOK
  <2>2. SameConstruction
    BY <1>3 DEF Free, Goto, TypeOK, SameConstruction
  <2>3. /\ NotYetPushed' = NotYetPushed
        /\ OnFreedStacks' = OnFreedStacks
        /\ SameLiveSegments
    BY <2>1, <2>2, SameConstructionKeepsNotYetPushed
       DEF OnFreedStacks, SameLiveSegments, IsLive
  <2>4. block[t] = NoBlock
    BY <1>3 DEF Free, Goto, LocalsMatchPc, BlockPcs
  <2>5. b \notin Carried
    BY <1>0, <2>1 DEF PlacesDisjoint
  <2>6. /\ Carried' = Carried \cup {b}
        /\ \A u, v \in Threads :
             block'[u] = block'[v] => u = v \/ block'[u] = NoBlock
    BY <2>1, <2>4, <2>5, <1>0, TakeUp
  <2>7. NoRepeatedBlock'
    BY <1>0, <2>1, <2>6 DEF NoRepeatedBlock
  <2>8. PlacesDisjoint' /\ BlocksSomewhere' = BlocksSomewhere
    BY <1>0, <2>1, <2>3, <2>6 DEF PlacesDisjoint, BlocksSomewhere
  <2> QED
    BY <2>3, <2>7, <2>8, <1>0, MovesKeepOrder
<1>4. ASSUME NEW t \in Threads, Lock(t) PROVE BlocksInOrder'
  <2>1. SameConstruction /\ SameLiveSegments
    BY <1>4 DEF Lock, Goto, TypeOK, SegmentTypeOK, SameConstruction,
        SameLiveSegments, IsLive
  <2>2. UNCHANGED <<owned, free_stack, freed_stack, block>>
    BY <1>4 DEF Lock
  <2> QED
    BY <2>1, <2>2, <1>0, QuietStepsKeepOrder,
        SameConstructionKeepsNotYetPushed
<1>5. ASSUME NEW t \in Threads, PopLockedHit(t) PROVE BlocksInOrder'
  <2> DEFINE b == Last(free_stack)
  <2>1. /\ free_stack # <<>> /\ free_stack' = Front(free_stack)
        /\ block' = [block EXCEPT ![t] = b]
        /\ UNCHANGED <<memory, freed_stack, owned>>
    BY <1>5 DEF PopLockedHit, PopAndUnlock, segmentVars
  <2>2. SameConstruction
    BY <1>5 DEF PopLockedHit, PopAndUnlock, Goto, TypeOK, SameConstruction
  <2>3. /\ NotYetPushed' = NotYetPushed
        /\ OnFreedStacks' = OnFreedStacks
        /\ SameLiveSegments
    BY <2>1, <2>2, SameConstructionKeepsNotYetPushed
       DEF OnFreedStacks, SameLiveSegments, IsLive
  <2>4. /\ b \in Block /\ b \in ToSet(free_stack)
        /\ ToSet(free_stack') = ToSet(free_stack) \ {b}
        /\ IsInjective(free_stack')
    BY <2>1, <1>0, TakeFromFreeStack
  <2>5. block[t] = NoBlock
    BY <1>5 DEF PopLockedHit, PopAndUnlock, Goto, LocalsMatchPc, BlockPcs
  <2> HIDE DEF b
  <2>6. b \notin Carried
    BY <1>0, <2>4 DEF PlacesDisjoint
  <2>7. /\ Carried' = Carried \cup {b}
        /\ \A u, v \in Threads :
             block'[u] = block'[v] => u = v \/ block'[u] = NoBlock
    BY <2>1, <2>4, <2>5, <2>6, <1>0, TakeUp
  <2>8. NoRepeatedBlock'
    BY <1>0, <2>1, <2>4, <2>7 DEF NoRepeatedBlock
  <2>9. PlacesDisjoint' /\ BlocksSomewhere' = BlocksSomewhere
    BY <1>0, <2>1, <2>3, <2>4, <2>7 DEF PlacesDisjoint, BlocksSomewhere
  <2> QED
    BY <2>3, <2>8, <2>9, <1>0, MovesKeepOrder
<1>6. ASSUME NEW t \in Threads, PopLockedMiss(t) PROVE BlocksInOrder'
  <2>1. SameConstruction /\ SameLiveSegments
    BY <1>6 DEF PopLockedMiss, Goto, TypeOK, SegmentTypeOK, SameConstruction,
        SameLiveSegments, IsLive
  <2>2. UNCHANGED <<owned, free_stack, freed_stack, block>>
    BY <1>6 DEF PopLockedMiss
  <2> QED
    BY <2>1, <2>2, <1>0, QuietStepsKeepOrder,
        SameConstructionKeepsNotYetPushed
<1>7. ASSUME NEW t \in Threads, NEW s \in Segments, CollectNext(t, s)
      PROVE  BlocksInOrder'
  <2>1. SameConstruction /\ SameLiveSegments
    BY <1>7 DEF CollectNext, Goto, TypeOK, SegmentTypeOK, SameConstruction,
        SameLiveSegments, IsLive
  <2>2. UNCHANGED <<owned, free_stack, freed_stack, block>>
    BY <1>7 DEF CollectNext
  <2> QED
    BY <2>1, <2>2, <1>0, QuietStepsKeepOrder,
        SameConstructionKeepsNotYetPushed
<1>8. ASSUME NEW t \in Threads, ConsumeOne(t) PROVE BlocksInOrder'
  <2> DEFINE b == Last(freed_stack[seg[t]])
  <2>1. /\ freed_stack[seg[t]] # <<>>
        /\ freed_stack' = [freed_stack EXCEPT ![seg[t]] = Front(@)]
        /\ block' = [block EXCEPT ![t] = b]
        /\ UNCHANGED <<memory, free_stack, owned>>
    BY <1>8 DEF ConsumeOne, PopFreed
  <2>2. SameConstruction
    BY <1>8 DEF ConsumeOne, Goto, TypeOK, SameConstruction
  <2>3. NotYetPushed' = NotYetPushed /\ SameLiveSegments
    BY <2>1, <2>2, SameConstructionKeepsNotYetPushed
       DEF SameLiveSegments, IsLive
  <2>4. seg[t] \in Segments /\ block[t] = NoBlock
    BY <1>8 DEF ConsumeOne, Goto, LocalsMatchPc, SegmentPcs, BlockPcs,
        CollectPcs
  <2>5. /\ b \in Block /\ b \in OnFreedStacks
        /\ OnFreedStacks' = OnFreedStacks \ {b}
        /\ \A r \in Segments : IsInjective(freed_stack'[r])
    BY <2>1, <2>4, <1>0, TakeFromFreedStack
  <2> HIDE DEF b
  <2>6. b \notin Carried
    BY <1>0, <2>5 DEF PlacesDisjoint
  <2>7. /\ Carried' = Carried \cup {b}
        /\ \A u, v \in Threads :
             block'[u] = block'[v] => u = v \/ block'[u] = NoBlock
    BY <2>1, <2>4, <2>5, <2>6, <1>0, TakeUp
  <2>8. NoRepeatedBlock'
    BY <1>0, <2>1, <2>5, <2>7 DEF NoRepeatedBlock
  <2>9. PlacesDisjoint' /\ BlocksSomewhere' = BlocksSomewhere
    BY <1>0, <2>1, <2>3, <2>5, <2>7 DEF PlacesDisjoint, BlocksSomewhere
  <2> QED
    BY <2>3, <2>8, <2>9, <1>0, MovesKeepOrder
<1>9. ASSUME NEW t \in Threads, ConsumePush(t) PROVE BlocksInOrder'
  <2> DEFINE b == block[t]
  <2>1. /\ free_stack' = Append(free_stack, b)
        /\ block' = [block EXCEPT ![t] = NoBlock]
        /\ UNCHANGED <<memory, freed_stack, owned>>
    BY <1>9 DEF ConsumePush, segmentVars
  <2>2. SameConstruction
    BY <1>9 DEF ConsumePush, Goto, TypeOK, SameConstruction
  <2>3. /\ NotYetPushed' = NotYetPushed
        /\ OnFreedStacks' = OnFreedStacks
        /\ SameLiveSegments
    BY <2>1, <2>2, SameConstructionKeepsNotYetPushed
       DEF OnFreedStacks, SameLiveSegments, IsLive
  <2>4. b \in Block
    BY <1>9 DEF ConsumePush, Goto, LocalsMatchPc, BlockPcs
  <2>5. /\ Carried' = Carried \ {b}
        /\ b \in Carried
        /\ \A u, v \in Threads :
             block'[u] = block'[v] => u = v \/ block'[u] = NoBlock
    BY <2>1, <2>4, <1>0, PutDown
  <2> HIDE DEF b
  <2>6. b \notin ToSet(free_stack)
    BY <1>0, <2>5 DEF PlacesDisjoint
  <2>7. /\ ToSet(free_stack') = ToSet(free_stack) \cup {b}
        /\ IsInjective(free_stack')
    BY <2>1, <2>4, <2>6, <1>0, AddToFreeStack
  <2>8. NoRepeatedBlock'
    BY <1>0, <2>1, <2>5, <2>7 DEF NoRepeatedBlock
  <2>9. PlacesDisjoint' /\ BlocksSomewhere' = BlocksSomewhere
    BY <1>0, <2>1, <2>3, <2>5, <2>7 DEF PlacesDisjoint, BlocksSomewhere
  <2> QED
    BY <2>3, <2>8, <2>9, <1>0, MovesKeepOrder
<1>10. ASSUME NEW t \in Threads, ConsumeRelease(t) PROVE BlocksInOrder'
  <2>1. SameConstruction /\ SameLiveSegments
    BY <1>10 DEF ConsumeRelease, Goto, TypeOK, SegmentTypeOK,
        SameConstruction, SameLiveSegments, IsLive
  <2>2. UNCHANGED <<owned, free_stack, freed_stack, block>>
    BY <1>10 DEF ConsumeRelease
  <2> QED
    BY <2>1, <2>2, <1>0, QuietStepsKeepOrder,
        SameConstructionKeepsNotYetPushed
<1>11. ASSUME NEW t \in Threads, ConsumeEnd(t) PROVE BlocksInOrder'
  <2>1. SameConstruction /\ SameLiveSegments
    BY <1>11 DEF ConsumeEnd, Goto, TypeOK, SegmentTypeOK, SameConstruction,
        SameLiveSegments, IsLive
  <2>2. UNCHANGED <<owned, free_stack, freed_stack, block>>
    BY <1>11 DEF ConsumeEnd
  <2> QED
    BY <2>1, <2>2, <1>0, QuietStepsKeepOrder,
        SameConstructionKeepsNotYetPushed
<1>12. ASSUME NEW t \in Threads, Subtract(t) PROVE BlocksInOrder'
  <2>1. SameConstruction /\ SameLiveSegments
    BY <1>12 DEF Subtract, Goto, AddToNumFreed, TypeOK, SegmentTypeOK,
        SameConstruction, SameLiveSegments, IsLive
  <2>2. UNCHANGED <<owned, free_stack, freed_stack, block>>
    BY <1>12 DEF Subtract, AddToNumFreed
  <2> QED
    BY <2>1, <2>2, <1>0, QuietStepsKeepOrder,
        SameConstructionKeepsNotYetPushed
<1>13. ASSUME NEW t \in Threads, PopCollectedHit(t) PROVE BlocksInOrder'
  <2> DEFINE b == Last(free_stack)
  <2>1. /\ free_stack # <<>> /\ free_stack' = Front(free_stack)
        /\ block' = [block EXCEPT ![t] = b]
        /\ UNCHANGED <<memory, freed_stack, owned>>
    BY <1>13 DEF PopCollectedHit, PopAndUnlock, segmentVars
  <2>2. SameConstruction
    BY <1>13 DEF PopCollectedHit, PopAndUnlock, Goto, TypeOK, SameConstruction
  <2>3. /\ NotYetPushed' = NotYetPushed
        /\ OnFreedStacks' = OnFreedStacks
        /\ SameLiveSegments
    BY <2>1, <2>2, SameConstructionKeepsNotYetPushed
       DEF OnFreedStacks, SameLiveSegments, IsLive
  <2>4. /\ b \in Block /\ b \in ToSet(free_stack)
        /\ ToSet(free_stack') = ToSet(free_stack) \ {b}
        /\ IsInjective(free_stack')
    BY <2>1, <1>0, TakeFromFreeStack
  <2>5. block[t] = NoBlock
    BY <1>13 DEF PopCollectedHit, PopAndUnlock, Goto, LocalsMatchPc, BlockPcs
  <2> HIDE DEF b
  <2>6. b \notin Carried
    BY <1>0, <2>4 DEF PlacesDisjoint
  <2>7. /\ Carried' = Carried \cup {b}
        /\ \A u, v \in Threads :
             block'[u] = block'[v] => u = v \/ block'[u] = NoBlock
    BY <2>1, <2>4, <2>5, <2>6, <1>0, TakeUp
  <2>8. NoRepeatedBlock'
    BY <1>0, <2>1, <2>4, <2>7 DEF NoRepeatedBlock
  <2>9. PlacesDisjoint' /\ BlocksSomewhere' = BlocksSomewhere
    BY <1>0, <2>1, <2>3, <2>4, <2>7 DEF PlacesDisjoint, BlocksSomewhere
  <2> QED
    BY <2>3, <2>8, <2>9, <1>0, MovesKeepOrder
<1>14. ASSUME NEW t \in Threads, PopCollectedMiss(t) PROVE BlocksInOrder'
  <2>1. SameConstruction /\ SameLiveSegments
    BY <1>14 DEF PopCollectedMiss, Goto, TypeOK, SegmentTypeOK,
        SameConstruction, SameLiveSegments, IsLive
  <2>2. UNCHANGED <<owned, free_stack, freed_stack, block>>
    BY <1>14 DEF PopCollectedMiss
  <2> QED
    BY <2>1, <2>2, <1>0, QuietStepsKeepOrder,
        SameConstructionKeepsNotYetPushed
<1>15. ASSUME NEW t \in Threads, GrowHit(t) PROVE BlocksInOrder'
  <2> DEFINE b == Last(free_stack)
  <2>1. /\ free_stack # <<>> /\ free_stack' = Front(free_stack)
        /\ block' = [block EXCEPT ![t] = b]
        /\ UNCHANGED <<memory, freed_stack, owned>>
    BY <1>15 DEF GrowHit, PopAndUnlock, segmentVars
  <2>2. SameConstruction
    BY <1>15 DEF GrowHit, PopAndUnlock, Goto, TypeOK, SameConstruction
  <2>3. /\ NotYetPushed' = NotYetPushed
        /\ OnFreedStacks' = OnFreedStacks
        /\ SameLiveSegments
    BY <2>1, <2>2, SameConstructionKeepsNotYetPushed
       DEF OnFreedStacks, SameLiveSegments, IsLive
  <2>4. /\ b \in Block /\ b \in ToSet(free_stack)
        /\ ToSet(free_stack') = ToSet(free_stack) \ {b}
        /\ IsInjective(free_stack')
    BY <2>1, <1>0, TakeFromFreeStack
  <2>5. block[t] = NoBlock
    BY <1>15 DEF GrowHit, PopAndUnlock, Goto, LocalsMatchPc, BlockPcs
  <2> HIDE DEF b
  <2>6. b \notin Carried
    BY <1>0, <2>4 DEF PlacesDisjoint
  <2>7. /\ Carried' = Carried \cup {b}
        /\ \A u, v \in Threads :
             block'[u] = block'[v] => u = v \/ block'[u] = NoBlock
    BY <2>1, <2>4, <2>5, <2>6, <1>0, TakeUp
  <2>8. NoRepeatedBlock'
    BY <1>0, <2>1, <2>4, <2>7 DEF NoRepeatedBlock
  <2>9. PlacesDisjoint' /\ BlocksSomewhere' = BlocksSomewhere
    BY <1>0, <2>1, <2>3, <2>4, <2>7 DEF PlacesDisjoint, BlocksSomewhere
  <2> QED
    BY <2>3, <2>8, <2>9, <1>0, MovesKeepOrder
<1>16. ASSUME NEW t \in Threads, GrowMiss(t) PROVE BlocksInOrder'
  <2>1. SameConstruction /\ SameLiveSegments
    BY <1>16 DEF GrowMiss, Goto, TypeOK, SegmentTypeOK, SameConstruction,
        SameLiveSegments, IsLive
  <2>2. UNCHANGED <<owned, free_stack, freed_stack, block>>
    BY <1>16 DEF GrowMiss
  <2> QED
    BY <2>1, <2>2, <1>0, QuietStepsKeepOrder,
        SameConstructionKeepsNotYetPushed
<1>17. ASSUME NEW t \in Threads, NEW s \in Segments, NumaAllocate(t, s)
      PROVE  BlocksInOrder'
  <2>1. SameConstruction /\ SameLiveSegments
    BY <1>17 DEF NumaAllocate, Goto, MapMemory, TypeOK, SegmentTypeOK,
        SameConstruction, SameLiveSegments, IsLive
  <2>2. UNCHANGED <<owned, free_stack, freed_stack, block>>
    BY <1>17 DEF NumaAllocate, MapMemory
  <2> QED
    BY <2>1, <2>2, <1>0, QuietStepsKeepOrder,
        SameConstructionKeepsNotYetPushed
<1>18. ASSUME NEW t \in Threads, CheckAllocationThrows(t) PROVE BlocksInOrder'
  <2>1. SameConstruction /\ SameLiveSegments
    BY <1>18 DEF CheckAllocationThrows, Goto, TypeOK, SegmentTypeOK,
        SameConstruction, SameLiveSegments, IsLive
  <2>2. UNCHANGED <<owned, free_stack, freed_stack, block>>
    BY <1>18 DEF CheckAllocationThrows
  <2> QED
    BY <2>1, <2>2, <1>0, QuietStepsKeepOrder,
        SameConstructionKeepsNotYetPushed
<1>19. ASSUME NEW t \in Threads, Register(t) PROVE BlocksInOrder'
  BY <1>19, RegisterKeepsOrder
<1>20. ASSUME NEW t \in Threads, RegisterThrows(t) PROVE BlocksInOrder'
  <2>1. SameConstruction /\ SameLiveSegments
    BY <1>20 DEF RegisterThrows, Goto, TypeOK, SegmentTypeOK,
        SameConstruction, SameLiveSegments, IsLive
  <2>2. UNCHANGED <<owned, free_stack, freed_stack, block>>
    BY <1>20 DEF RegisterThrows
  <2> QED
    BY <2>1, <2>2, <1>0, QuietStepsKeepOrder,
        SameConstructionKeepsNotYetPushed
<1>21. ASSUME NEW t \in Threads, ConstructPush(t) PROVE BlocksInOrder'
  <2> DEFINE b == [m_segment |-> seg[t], index |-> left[t]]
  <2>1. /\ pc[t] = "construct" /\ left[t] > 0
        /\ free_stack' = Append(free_stack, b)
        /\ left' = [left EXCEPT ![t] = @ - 1]
        /\ UNCHANGED <<memory, freed_stack, block, owned, pc, seg>>
    BY <1>21 DEF ConstructPush, NextBlock
  <2>2. seg[t] \in Segments /\ left[t] \in 1..BlocksPerSegment
    BY <2>1 DEF LocalsMatchPc, SegmentPcs, TypeOK
  <2>3. /\ OnFreedStacks' = OnFreedStacks
        /\ Carried' = Carried
        /\ SameLiveSegments
    BY <2>1 DEF OnFreedStacks, Carried, SameLiveSegments, IsLive
  <2>4. b \in Block
    BY <2>2 DEF Block
  <2>5. \A u \in Threads : pc[u] = "construct" => u = t
    BY <2>1 DEF MutualExclusion, LockedPcs, AllocateLockedPcs
  <2>6. NotYetPushed = {c \in Block : c.m_segment = seg[t] /\ c.index <= left[t]}
    BY <2>1, <2>5 DEF NotYetPushed
  <2>7. NotYetPushed' =
          {c \in Block : c.m_segment = seg[t] /\ c.index <= left[t] - 1}
    BY <2>1, <2>5 DEF NotYetPushed, TypeOK
  <2>8. NotYetPushed' = NotYetPushed \ {b} /\ b \in NotYetPushed
    <3>1. \A c \in Block : c.index \in 1..BlocksPerSegment
      BY DEF Block
    <3>2. \A c \in Block : c.m_segment = seg[t] /\ c.index = left[t] => c = b
      BY DEF Block
    <3>3. \A c \in Block : c.index <= left[t] <=>
                             c.index <= left[t] - 1 \/ c.index = left[t]
      BY <2>2, <3>1, SegmentAssumption
    <3>4. ~ (b.index <= left[t] - 1) /\ b.index <= left[t] /\ b.m_segment = seg[t]
      BY <2>2, SegmentAssumption
    <3> HIDE DEF b
    <3> QED
      BY <2>4, <2>6, <2>7, <3>2, <3>3, <3>4
  <2> HIDE DEF b
  <2>9. b \notin ToSet(free_stack)
    BY <1>0, <2>8 DEF PlacesDisjoint
  <2>10. /\ ToSet(free_stack') = ToSet(free_stack) \cup {b}
         /\ IsInjective(free_stack')
    BY <2>1, <2>4, <2>9, <1>0, AddToFreeStack
  <2>11. NoRepeatedBlock'
    BY <1>0, <2>1, <2>10 DEF NoRepeatedBlock
  <2>12. PlacesDisjoint' /\ BlocksSomewhere' = BlocksSomewhere
    BY <1>0, <2>1, <2>3, <2>8, <2>10 DEF PlacesDisjoint, BlocksSomewhere
  <2> QED
    BY <2>3, <2>11, <2>12, <1>0, MovesKeepOrder
<1>22. ASSUME NEW t \in Threads, Insert(t) PROVE BlocksInOrder'
  <2>1. NotYetPushed' = NotYetPushed
    BY <1>22 DEF Insert, Goto, TypeOK, NotYetPushed, Block
  <2>2. UNCHANGED <<owned, free_stack, freed_stack, block, memory>>
    BY <1>22 DEF Insert
  <2>3. SameLiveSegments
    BY <2>2 DEF SameLiveSegments, IsLive
  <2> QED
    BY <2>1, <2>2, <2>3, <1>0, QuietStepsKeepOrder
<1>23. ASSUME NEW t \in Threads, UnlockAndReturn(t) PROVE BlocksInOrder'
  <2> DEFINE b == block[t]
  <2>1. /\ owned' = owned \cup {b}
        /\ block' = [block EXCEPT ![t] = NoBlock]
        /\ UNCHANGED <<memory, freed_stack, free_stack>>
    BY <1>23 DEF UnlockAndReturn, segmentVars
  <2>2. SameConstruction
    BY <1>23 DEF UnlockAndReturn, Goto, TypeOK, SameConstruction
  <2>3. /\ NotYetPushed' = NotYetPushed
        /\ OnFreedStacks' = OnFreedStacks
        /\ SameLiveSegments
    BY <2>1, <2>2, SameConstructionKeepsNotYetPushed
       DEF OnFreedStacks, SameLiveSegments, IsLive
  <2>4. b \in Block
    BY <1>23 DEF UnlockAndReturn, Goto, LocalsMatchPc, BlockPcs
  <2>5. /\ Carried' = Carried \ {b}
        /\ b \in Carried
        /\ \A u, v \in Threads :
             block'[u] = block'[v] => u = v \/ block'[u] = NoBlock
    BY <2>1, <2>4, <1>0, PutDown
  <2> HIDE DEF b
  <2>6. NoRepeatedBlock'
    BY <1>0, <2>1, <2>5 DEF NoRepeatedBlock
  <2>7. PlacesDisjoint' /\ BlocksSomewhere' = BlocksSomewhere
    BY <1>0, <2>1, <2>3, <2>5 DEF PlacesDisjoint, BlocksSomewhere
  <2> QED
    BY <2>3, <2>6, <2>7, <1>0, MovesKeepOrder
<1>24. ASSUME NEW t \in Threads, FreePush(t) PROVE BlocksInOrder'
  <2> DEFINE b == block[t]
  <2>1. /\ freed_stack' = [freed_stack EXCEPT ![seg[t]] = Append(@, b)]
        /\ block' = [block EXCEPT ![t] = NoBlock]
        /\ UNCHANGED <<memory, free_stack, owned>>
    BY <1>24 DEF FreePush, PushFreed
  <2>2. SameConstruction
    BY <1>24 DEF FreePush, Goto, TypeOK, SameConstruction
  <2>3. NotYetPushed' = NotYetPushed /\ SameLiveSegments
    BY <2>1, <2>2, SameConstructionKeepsNotYetPushed
       DEF SameLiveSegments, IsLive
  <2>4. seg[t] \in Segments /\ b \in Block
    BY <1>24 DEF FreePush, Goto, LocalsMatchPc, SegmentPcs, BlockPcs
  <2>5. /\ Carried' = Carried \ {b}
        /\ b \in Carried
        /\ \A u, v \in Threads :
             block'[u] = block'[v] => u = v \/ block'[u] = NoBlock
    BY <2>1, <2>4, <1>0, PutDown
  <2> HIDE DEF b
  <2>6. b \notin OnFreedStacks
    BY <1>0, <2>5 DEF PlacesDisjoint
  <2>7. /\ OnFreedStacks' = OnFreedStacks \cup {b}
        /\ \A r \in Segments : IsInjective(freed_stack'[r])
    BY <2>1, <2>4, <2>6, <1>0, AddToFreedStack
  <2>8. NoRepeatedBlock'
    BY <1>0, <2>1, <2>5, <2>7 DEF NoRepeatedBlock
  <2>9. PlacesDisjoint' /\ BlocksSomewhere' = BlocksSomewhere
    BY <1>0, <2>1, <2>3, <2>5, <2>7 DEF PlacesDisjoint, BlocksSomewhere
  <2> QED
    BY <2>3, <2>8, <2>9, <1>0, MovesKeepOrder
<1>25. ASSUME NEW t \in Threads, FreeIncrement(t) PROVE BlocksInOrder'
  <2>1. SameConstruction /\ SameLiveSegments
    BY <1>25 DEF FreeIncrement, Goto, AddToNumFreed, TypeOK, SegmentTypeOK,
        SameConstruction, SameLiveSegments, IsLive
  <2>2. UNCHANGED <<owned, free_stack, freed_stack, block>>
    BY <1>25 DEF FreeIncrement, AddToNumFreed
  <2> QED
    BY <2>1, <2>2, <1>0, QuietStepsKeepOrder,
        SameConstructionKeepsNotYetPushed
<1>26. ASSUME NEW t \in Threads, CheckEmpty(t) PROVE BlocksInOrder'
  <2>1. SameConstruction /\ SameLiveSegments
    BY <1>26 DEF CheckEmpty, Goto, TypeOK, SegmentTypeOK, SameConstruction,
        SameLiveSegments, IsLive
  <2>2. UNCHANGED <<owned, free_stack, freed_stack, block>>
    BY <1>26 DEF CheckEmpty
  <2> QED
    BY <2>1, <2>2, <1>0, QuietStepsKeepOrder,
        SameConstructionKeepsNotYetPushed
<1>27. ASSUME NEW t \in Threads, FreeLock(t) PROVE BlocksInOrder'
  <2>1. SameConstruction /\ SameLiveSegments
    BY <1>27 DEF FreeLock, Goto, TypeOK, SegmentTypeOK, SameConstruction,
        SameLiveSegments, IsLive
  <2>2. UNCHANGED <<owned, free_stack, freed_stack, block>>
    BY <1>27 DEF FreeLock
  <2> QED
    BY <2>1, <2>2, <1>0, QuietStepsKeepOrder,
        SameConstructionKeepsNotYetPushed
<1>28. ASSUME NEW t \in Threads, RecheckKeep(t) PROVE BlocksInOrder'
  <2>1. SameConstruction /\ SameLiveSegments
    BY <1>28 DEF RecheckKeep, Goto, TypeOK, SegmentTypeOK, SameConstruction,
        SameLiveSegments, IsLive
  <2>2. UNCHANGED <<owned, free_stack, freed_stack, block>>
    BY <1>28 DEF RecheckKeep
  <2> QED
    BY <2>1, <2>2, <1>0, QuietStepsKeepOrder,
        SameConstructionKeepsNotYetPushed
<1>29. ASSUME NEW t \in Threads, RecheckErase(t) PROVE BlocksInOrder'
  BY <1>29, EraseKeepsOrder
<1>30. ASSUME NEW t \in Threads, ReleaseMemory(t) PROVE BlocksInOrder'
  <2>1. SameConstruction /\ SameLiveSegments
    BY <1>30 DEF ReleaseMemory, Goto, UnmapMemory, TypeOK, SegmentTypeOK,
        SameConstruction, SameLiveSegments, IsLive, HolderMatchesMemory
  <2>2. UNCHANGED <<owned, free_stack, freed_stack, block>>
    BY <1>30 DEF ReleaseMemory, UnmapMemory
  <2> QED
    BY <2>1, <2>2, <1>0, QuietStepsKeepOrder,
        SameConstructionKeepsNotYetPushed
<1>31. ASSUME NEW t \in Threads, FreeUnlock(t) PROVE BlocksInOrder'
  <2>1. SameConstruction /\ SameLiveSegments
    BY <1>31 DEF FreeUnlock, Goto, TypeOK, SegmentTypeOK, SameConstruction,
        SameLiveSegments, IsLive
  <2>2. UNCHANGED <<owned, free_stack, freed_stack, block>>
    BY <1>31 DEF FreeUnlock
  <2> QED
    BY <2>1, <2>2, <1>0, QuietStepsKeepOrder,
        SameConstructionKeepsNotYetPushed
<1>32. ASSUME UNCHANGED vars PROVE BlocksInOrder'
  <2>1. /\ UNCHANGED <<owned, free_stack, freed_stack, block>>
        /\ NotYetPushed' = NotYetPushed
        /\ SameLiveSegments
    BY <1>32 DEF vars, NotYetPushed, SameLiveSegments, IsLive
  <2> QED
    BY <1>0, <2>1, QuietStepsKeepOrder
<1> QED
  BY <1>1, <1>2, <1>3, <1>4, <1>5, <1>6, <1>7, <1>8, <1>9, <1>10, <1>11,
      <1>12, <1>13, <1>14, <1>15, <1>16, <1>17, <1>18, <1>19, <1>20, <1>21,
      <1>22, <1>23, <1>24, <1>25, <1>26, <1>27, <1>28, <1>29, <1>30, <1>31,
      <1>32 DEF Next, Call, Step, AllocateStep, FreeStep

-----------------------------------------------------------------------------
(* The segments in use, and the counter of freed blocks                    *)

(* No thread is left with a destroyed segment to push a freed block to, to *)
(* count it in, to collect from or to build: when pool::free erases a      *)
(* segment, every block of it is on its freed stack and counted, so no     *)
(* other free of one of its blocks is between the push and the increment.  *)
LEMMA InUseStep ==
  Inv /\ [Next]_vars => SegmentInUseIsLive'
<1> SUFFICES ASSUME Inv, [Next]_vars PROVE SegmentInUseIsLive'
  OBVIOUS
<1> USE DEF Inv, TypeOK, SegmentTypeOK, segmentVars, localVars,
    SegmentInUseIsLive, CollectPcs, IsLive
<1>1. ASSUME NEW t \in Threads, AllocateHit(t) PROVE SegmentInUseIsLive'
  BY <1>1 DEF AllocateHit
<1>2. ASSUME NEW t \in Threads, AllocateMiss(t) PROVE SegmentInUseIsLive'
  BY <1>2 DEF AllocateMiss, Goto
<1>3. ASSUME NEW t \in Threads, NEW b \in owned, Free(t, b)
      PROVE  SegmentInUseIsLive'
  BY <1>3 DEF Free, Goto, NoDanglingBlock, BlocksSomewhere, Block
<1>4. ASSUME NEW t \in Threads, Lock(t) PROVE SegmentInUseIsLive'
  BY <1>4 DEF Lock, Goto
<1>5. ASSUME NEW t \in Threads, PopLockedHit(t) PROVE SegmentInUseIsLive'
  BY <1>5 DEF PopLockedHit, Goto, PopAndUnlock
<1>6. ASSUME NEW t \in Threads, PopLockedMiss(t) PROVE SegmentInUseIsLive'
  BY <1>6 DEF PopLockedMiss, Goto
<1>7. ASSUME NEW t \in Threads, NEW s \in Segments, CollectNext(t, s)
      PROVE  SegmentInUseIsLive'
  BY <1>7 DEF CollectNext, Goto, HolderMatchesMemory, SegmentsMatchMemory
<1>8. ASSUME NEW t \in Threads, ConsumeOne(t) PROVE SegmentInUseIsLive'
  BY <1>8 DEF ConsumeOne, Goto, PopFreed
<1>9. ASSUME NEW t \in Threads, ConsumePush(t) PROVE SegmentInUseIsLive'
  BY <1>9 DEF ConsumePush, Goto
<1>10. ASSUME NEW t \in Threads, ConsumeRelease(t) PROVE SegmentInUseIsLive'
  BY <1>10 DEF ConsumeRelease, Goto
<1>11. ASSUME NEW t \in Threads, ConsumeEnd(t) PROVE SegmentInUseIsLive'
  BY <1>11 DEF ConsumeEnd, Goto
<1>12. ASSUME NEW t \in Threads, Subtract(t) PROVE SegmentInUseIsLive'
  BY <1>12 DEF Subtract, Goto, AddToNumFreed
<1>13. ASSUME NEW t \in Threads, PopCollectedHit(t) PROVE SegmentInUseIsLive'
  BY <1>13 DEF PopCollectedHit, Goto, PopAndUnlock
<1>14. ASSUME NEW t \in Threads, PopCollectedMiss(t) PROVE SegmentInUseIsLive'
  BY <1>14 DEF PopCollectedMiss, Goto
<1>15. ASSUME NEW t \in Threads, GrowHit(t) PROVE SegmentInUseIsLive'
  BY <1>15 DEF GrowHit, Goto, PopAndUnlock
<1>16. ASSUME NEW t \in Threads, GrowMiss(t) PROVE SegmentInUseIsLive'
  BY <1>16 DEF GrowMiss, Goto
<1>17. ASSUME NEW t \in Threads, NEW s \in Segments, NumaAllocate(t, s)
      PROVE  SegmentInUseIsLive'
  BY <1>17 DEF NumaAllocate, Goto, MapMemory
<1>18. ASSUME NEW t \in Threads, CheckAllocationThrows(t)
      PROVE  SegmentInUseIsLive'
  BY <1>18 DEF CheckAllocationThrows, Goto
<1>19. ASSUME NEW t \in Threads, Register(t) PROVE SegmentInUseIsLive'
  BY <1>19 DEF Register, Goto, ConstructMembers, LocalsMatchPc, SegmentPcs
<1>20. ASSUME NEW t \in Threads, RegisterThrows(t) PROVE SegmentInUseIsLive'
  BY <1>20 DEF RegisterThrows, Goto
<1>21. ASSUME NEW t \in Threads, ConstructPush(t) PROVE SegmentInUseIsLive'
  BY <1>21 DEF ConstructPush
<1>22. ASSUME NEW t \in Threads, Insert(t) PROVE SegmentInUseIsLive'
  BY <1>22 DEF Insert, Goto
<1>23. ASSUME NEW t \in Threads, UnlockAndReturn(t) PROVE SegmentInUseIsLive'
  BY <1>23 DEF UnlockAndReturn, Goto
<1>24. ASSUME NEW t \in Threads, FreePush(t) PROVE SegmentInUseIsLive'
  BY <1>24 DEF FreePush, Goto, PushFreed
<1>25. ASSUME NEW t \in Threads, FreeIncrement(t) PROVE SegmentInUseIsLive'
  BY <1>25 DEF FreeIncrement, Goto, AddToNumFreed
<1>26. ASSUME NEW t \in Threads, CheckEmpty(t) PROVE SegmentInUseIsLive'
  BY <1>26 DEF CheckEmpty, Goto
<1>27. ASSUME NEW t \in Threads, FreeLock(t) PROVE SegmentInUseIsLive'
  BY <1>27 DEF FreeLock, Goto
<1>28. ASSUME NEW t \in Threads, RecheckKeep(t) PROVE SegmentInUseIsLive'
  BY <1>28 DEF RecheckKeep, Goto
<1>29. ASSUME NEW t \in Threads, RecheckErase(t) PROVE SegmentInUseIsLive'
  <2> DEFINE s == seg[t]
  <2>1. /\ s \in Segments /\ ToSet(freed_stack[s]) = BlocksOf(s)
        /\ Uncounted(s) = {}
    BY <1>29, ErasedSegmentIsEmpty
  <2>2. /\ pc[t] = "recheck" /\ mutex = t
        /\ pc' = [pc EXCEPT ![t] = "release"]
        /\ memory' = [memory EXCEPT ![s] = "mapped"]
        /\ seg' = seg
    BY <1>29 DEF RecheckErase, Goto, DestroyMembers, MutualExclusion,
                 LockedPcs, FreeLockedPcs
  <2>3. ASSUME NEW u \in Threads, pc[u] = "free_push" PROVE seg[u] # s
    <3>1. block[u] \in Carried /\ block[u] \in Block /\ block[u].m_segment = seg[u]
      BY <2>3, PoolAssumption
         DEF LocalsMatchPc, BlockPcs, FreedBlocksGoHome, Carried
    <3>2. block[u] \notin ToSet(freed_stack[s])
      BY <2>1, <3>1 DEF BlocksInOnePlace, PlacesDisjoint, OnFreedStacks
    <3> QED
      BY <2>1, <3>1, <3>2 DEF BlocksOf
  <2>4. ASSUME NEW u \in Threads, pc[u] = "free_increment" PROVE seg[u] # s
    BY <2>1, <2>4 DEF Uncounted
  <2>5. ASSUME NEW u \in Threads, pc[u] \in {"construct"} \cup CollectPcs
        PROVE  FALSE
    BY <2>2, <2>5 DEF MutualExclusion, LockedPcs, AllocateLockedPcs
  <2> HIDE DEF s
  <2>6. \A u \in Threads : pc'[u] = IF u = t THEN "release" ELSE pc[u]
    BY <2>2
  <2>7. \A r \in Segments : r # s => memory'[r] = memory[r]
    BY <2>1, <2>2
  <2>8. SUFFICES ASSUME NEW u \in Threads,
                        pc'[u] \in {"free_push", "free_increment"}
                 PROVE  memory'[seg'[u]] = "registered"
    BY <2>5, <2>6
  <2>9. u # t /\ pc[u] \in {"free_push", "free_increment"}
    BY <2>6, <2>8
  <2>10. seg[u] \in Segments /\ seg[u] # s /\ memory[seg[u]] = "registered"
    BY <2>3, <2>4, <2>9 DEF LocalsMatchPc, SegmentPcs
  <2> QED
    BY <2>2, <2>7, <2>10
<1>30. ASSUME NEW t \in Threads, ReleaseMemory(t) PROVE SegmentInUseIsLive'
  BY <1>30 DEF ReleaseMemory, Goto, UnmapMemory, HolderMatchesMemory,
      LocalsMatchPc, SegmentPcs, FreeLockedPcs
<1>31. ASSUME NEW t \in Threads, FreeUnlock(t) PROVE SegmentInUseIsLive'
  BY <1>31 DEF FreeUnlock, Goto
<1>32. ASSUME UNCHANGED vars PROVE SegmentInUseIsLive'
  BY <1>32 DEF vars
<1> QED
  BY <1>1, <1>2, <1>3, <1>4, <1>5, <1>6, <1>7, <1>8, <1>9, <1>10, <1>11,
      <1>12, <1>13, <1>14, <1>15, <1>16, <1>17, <1>18, <1>19, <1>20, <1>21,
      <1>22, <1>23, <1>24, <1>25, <1>26, <1>27, <1>28, <1>29, <1>30, <1>31,
      <1>32 DEF Next, Call, Step, AllocateStep, FreeStep

(* The threads count what they counted.                                    *)
SameCounting ==
  \A u \in Threads :
    /\ pc[u] = "free_increment" <=> pc'[u] = "free_increment"
    /\ pc[u] \in CollectPcs <=> pc'[u] \in CollectPcs
    /\ pc[u] \in CollectPcs \cup {"free_increment"} => seg'[u] = seg[u]
    /\ pc[u] \in CollectPcs =>
         consumed'[u] = consumed[u] /\ InHand(u)' = InHand(u)

(* The counter equation of one segment.                                    *)
Counts(s) ==
  /\ Collecting(s) = {} =>
       num_freed[s] = Len(freed_stack[s]) - Cardinality(Uncounted(s))
  /\ \A u \in Collecting(s) :
       num_freed[s] = Len(freed_stack[s]) + consumed[u] + InHand(u)
                      - Cardinality(Uncounted(s))

(* A step that leaves the stack and the counter of a segment alone and     *)
(* moves no thread into or out of counting keeps the equation of that      *)
(* segment.                                                                *)
LEMMA SameCountingKeepsCounts ==
  ASSUME NEW s \in Segments, Counts(s), SameCounting,
         freed_stack'[s] = freed_stack[s], num_freed'[s] = num_freed[s]
  PROVE  Counts(s)'
<1>1. Uncounted(s)' = Uncounted(s)
  BY DEF SameCounting, Uncounted
<1>2. Collecting(s)' = Collecting(s)
  BY DEF SameCounting, Collecting
<1>3. \A u \in Collecting(s) :
        consumed'[u] = consumed[u] /\ InHand(u)' = InHand(u)
  BY DEF SameCounting, Collecting
<1> QED
  BY <1>1, <1>2, <1>3 DEF Counts

(* Most accesses of allocate and free touch no freed stack, no counter and *)
(* no life of a segment: they keep all the equations.                      *)
LEMMA SameCountingKeepsCounters ==
  ASSUME CounterAgrees, SameCounting, UNCHANGED <<freed_stack, num_freed>>,
         \A s \in Segments : IsLive(s)' = IsLive(s)
  PROVE  CounterAgrees'
<1> SUFFICES ASSUME NEW s \in Segments, IsLive(s) PROVE Counts(s)'
  BY DEF CounterAgrees, Counts
<1>1. Counts(s)
  BY DEF CounterAgrees, Counts
<1> QED
  BY <1>1, SameCountingKeepsCounts

(* The number of threads between the push and the increment of             *)
(* segment::free is a natural number.                                      *)
LEMMA UncountedFinite ==
  \A s \in Segments :
    IsFiniteSet(Uncounted(s)) /\ Cardinality(Uncounted(s)) \in Nat
<1> TAKE s \in Segments
<1>1. Uncounted(s) \in SUBSET Threads
  BY DEF Uncounted
<1> QED
  BY <1>1, PoolAssumption, FS_Subset, FS_CardinalityType

(* segment::collect runs with the mutex locked, so one thread collects at  *)
(* a time.                                                                 *)
LEMMA OneCollector ==
  ASSUME MutualExclusion, NEW t \in Threads, pc[t] \in LockedPcs
  PROVE  \A u \in Threads : pc[u] \in LockedPcs \/ pc[u] \in CollectPcs => u = t
BY DEF MutualExclusion, LockedPcs, AllocateLockedPcs

(* The quantities of the counter equation are integers.                    *)
LEMMA CounterTyped ==
  ASSUME TypeOK, NEW s \in Segments
  PROVE  /\ num_freed[s] \in Int
         /\ freed_stack[s] \in Seq(Block)
         /\ Len(freed_stack[s]) \in Nat
         /\ \A u \in Threads : consumed[u] \in Nat /\ InHand(u) \in Nat
BY DEF TypeOK, SegmentTypeOK, InHand

(* No step breaks the equation between m_num_freed and the freed stack:    *)
(* segment::free adds one after its push, segment::collect subtracts what  *)
(* it has popped after its last pop, and nothing else writes either.       *)
LEMMA CounterStep ==
  Inv /\ [Next]_vars => CounterAgrees'
<1> SUFFICES ASSUME Inv, [Next]_vars PROVE CounterAgrees'
  OBVIOUS
<1> USE DEF Inv, segmentVars, localVars
<1>1. ASSUME NEW t \in Threads, AllocateHit(t) PROVE CounterAgrees'
  <2>1. SameCounting
    BY <1>1 DEF AllocateHit, TypeOK, SameCounting, CollectPcs, InHand
  <2>2. UNCHANGED <<freed_stack, num_freed>>
    BY <1>1 DEF AllocateHit
  <2>3. \A s \in Segments : IsLive(s)' = IsLive(s)
    BY <1>1 DEF AllocateHit, TypeOK, SegmentTypeOK, IsLive
  <2> QED
    BY <2>1, <2>2, <2>3, SameCountingKeepsCounters
<1>2. ASSUME NEW t \in Threads, AllocateMiss(t) PROVE CounterAgrees'
  <2>1. SameCounting
    BY <1>2 DEF AllocateMiss, Goto, TypeOK, SameCounting, CollectPcs, InHand
  <2>2. UNCHANGED <<freed_stack, num_freed>>
    BY <1>2 DEF AllocateMiss
  <2>3. \A s \in Segments : IsLive(s)' = IsLive(s)
    BY <1>2 DEF AllocateMiss, Goto, TypeOK, SegmentTypeOK, IsLive
  <2> QED
    BY <2>1, <2>2, <2>3, SameCountingKeepsCounters
<1>3. ASSUME NEW t \in Threads, NEW b \in owned, Free(t, b) PROVE CounterAgrees'
  <2>1. SameCounting
    BY <1>3 DEF Free, Goto, TypeOK, SameCounting, CollectPcs, InHand
  <2>2. UNCHANGED <<freed_stack, num_freed>>
    BY <1>3 DEF Free
  <2>3. \A s \in Segments : IsLive(s)' = IsLive(s)
    BY <1>3 DEF Free, Goto, TypeOK, SegmentTypeOK, IsLive
  <2> QED
    BY <2>1, <2>2, <2>3, SameCountingKeepsCounters
<1>4. ASSUME NEW t \in Threads, Lock(t) PROVE CounterAgrees'
  <2>1. SameCounting
    BY <1>4 DEF Lock, Goto, TypeOK, SameCounting, CollectPcs, InHand
  <2>2. UNCHANGED <<freed_stack, num_freed>>
    BY <1>4 DEF Lock
  <2>3. \A s \in Segments : IsLive(s)' = IsLive(s)
    BY <1>4 DEF Lock, Goto, TypeOK, SegmentTypeOK, IsLive
  <2> QED
    BY <2>1, <2>2, <2>3, SameCountingKeepsCounters
<1>5. ASSUME NEW t \in Threads, PopLockedHit(t) PROVE CounterAgrees'
  <2>1. SameCounting
    BY <1>5 DEF PopLockedHit, Goto, PopAndUnlock, TypeOK, SameCounting,
        CollectPcs, InHand
  <2>2. UNCHANGED <<freed_stack, num_freed>>
    BY <1>5 DEF PopLockedHit, PopAndUnlock
  <2>3. \A s \in Segments : IsLive(s)' = IsLive(s)
    BY <1>5 DEF PopLockedHit, Goto, PopAndUnlock, TypeOK, SegmentTypeOK,
        IsLive
  <2> QED
    BY <2>1, <2>2, <2>3, SameCountingKeepsCounters
<1>6. ASSUME NEW t \in Threads, PopLockedMiss(t) PROVE CounterAgrees'
  <2>1. SameCounting
    BY <1>6 DEF PopLockedMiss, Goto, TypeOK, SameCounting, CollectPcs, InHand
  <2>2. UNCHANGED <<freed_stack, num_freed>>
    BY <1>6 DEF PopLockedMiss
  <2>3. \A s \in Segments : IsLive(s)' = IsLive(s)
    BY <1>6 DEF PopLockedMiss, Goto, TypeOK, SegmentTypeOK, IsLive
  <2> QED
    BY <2>1, <2>2, <2>3, SameCountingKeepsCounters
<1>7. ASSUME NEW t \in Threads, NEW s \in Segments, CollectNext(t, s)
      PROVE  CounterAgrees'
  <2>1. /\ pc[t] = "collect" /\ pc' = [pc EXCEPT ![t] = "consume"]
        /\ seg' = [seg EXCEPT ![t] = s]
        /\ consumed' = [consumed EXCEPT ![t] = 0]
        /\ UNCHANGED <<memory, freed_stack, num_freed>>
    BY <1>7 DEF CollectNext, Goto
  <2>2. \A u \in Threads : pc[u] \in CollectPcs => u = t
    BY <2>1, OneCollector DEF LockedPcs, AllocateLockedPcs
  <2>3. \A r \in Segments : Collecting(r) = {}
    BY <2>1, <2>2 DEF Collecting, CollectPcs
  <2>4. \A r \in Segments : Collecting(r)' = IF r = s THEN {t} ELSE {}
    BY <2>1, <2>2 DEF Collecting, CollectPcs, TypeOK
  <2>5. consumed'[t] = 0 /\ InHand(t)' = 0
    BY <2>1 DEF InHand, TypeOK
  <2>6. \A r \in Segments : Uncounted(r)' = Uncounted(r)
    BY <2>1 DEF Uncounted, TypeOK
  <2> SUFFICES ASSUME NEW r \in Segments, IsLive(r) PROVE Counts(r)'
    BY <2>1 DEF CounterAgrees, Counts, IsLive
  <2>7. Counts(r)
    BY DEF CounterAgrees, Counts
  <2>8. /\ num_freed[r] \in Int /\ Len(freed_stack[r]) \in Nat
        /\ Cardinality(Uncounted(r)) \in Nat
        /\ consumed[t] \in Nat
    BY CounterTyped, UncountedFinite
  <2> HIDE DEF Inv, InHand, Uncounted, Collecting
  <2>9. CASE r = s
    BY <2>1, <2>2, <2>3, <2>4, <2>5, <2>6, <2>7, <2>8, <2>9 DEF Counts
  <2>10. CASE r # s
    BY <2>1, <2>2, <2>3, <2>4, <2>5, <2>6, <2>7, <2>8, <2>10 DEF Counts
  <2> QED
    BY <2>9, <2>10
<1>8. ASSUME NEW t \in Threads, ConsumeOne(t) PROVE CounterAgrees'
  <2> DEFINE s == seg[t]
  <2>1. /\ pc[t] = "consume" /\ s \in Segments /\ freed_stack[s] # <<>>
        /\ pc' = [pc EXCEPT ![t] = "consume_push"]
        /\ freed_stack' = [freed_stack EXCEPT ![s] = Front(@)]
        /\ UNCHANGED <<memory, num_freed, seg, consumed>>
    BY <1>8 DEF ConsumeOne, Goto, PopFreed, LocalsMatchPc, SegmentPcs,
                 CollectPcs
  <2>2. \A u \in Threads : pc[u] \in CollectPcs => u = t
    BY <2>1, OneCollector DEF LockedPcs, AllocateLockedPcs, CollectPcs
  <2>3. \A r \in Segments : /\ Collecting(r) = (IF r = s THEN {t} ELSE {})
                            /\ Collecting(r)' = Collecting(r)
    BY <2>1, <2>2 DEF Collecting, CollectPcs, TypeOK
  <2>4. InHand(t) = 0 /\ InHand(t)' = 1
    BY <2>1 DEF InHand, TypeOK
  <2>5. \A r \in Segments : Uncounted(r)' = Uncounted(r)
    BY <2>1 DEF Uncounted, TypeOK
  <2>6. \A r \in Segments : Len(freed_stack'[r]) =
          IF r = s THEN Len(freed_stack[r]) - 1 ELSE Len(freed_stack[r])
    BY <2>1, CounterTyped, PopElements DEF TypeOK, SegmentTypeOK
  <2> HIDE DEF s

  <2> SUFFICES ASSUME NEW r \in Segments, IsLive(r) PROVE Counts(r)'
    BY <2>1 DEF CounterAgrees, Counts, IsLive
  <2>7. Counts(r)
    BY DEF CounterAgrees, Counts
  <2>8. /\ num_freed[r] \in Int /\ Len(freed_stack[r]) \in Nat
        /\ Cardinality(Uncounted(r)) \in Nat
        /\ consumed[t] \in Nat
    BY CounterTyped, UncountedFinite
  <2> HIDE DEF Inv, InHand, Uncounted, Collecting
  <2>9. CASE r = s
    <3>1. /\ num_freed'[r] = num_freed[r] /\ consumed'[t] = consumed[t]
          /\ Len(freed_stack'[r]) = Len(freed_stack[r]) - 1
          /\ Cardinality(Uncounted(r))' = Cardinality(Uncounted(r))
          /\ Collecting(r)' = {t}
      BY <2>1, <2>3, <2>5, <2>6, <2>9
    <3>2. num_freed[r] = Len(freed_stack[r]) + consumed[t] + 0
                         - Cardinality(Uncounted(r))
      BY <2>3, <2>4, <2>7, <2>9 DEF Counts
    <3>3. num_freed'[r] = Len(freed_stack'[r]) + consumed'[t] + InHand(t)'
                          - Cardinality(Uncounted(r))'
      <4>1. InHand(t)' = 1
        BY <2>4
      <4> QED
        BY <2>8, <3>1, <3>2, <4>1
    <3> QED
      BY <3>1, <3>3 DEF Counts
  <2>10. CASE r # s
    BY <2>1, <2>2, <2>3, <2>4, <2>5, <2>6, <2>7, <2>8, <2>10 DEF Counts
  <2> QED
    BY <2>9, <2>10
<1>9. ASSUME NEW t \in Threads, ConsumePush(t) PROVE CounterAgrees'
  <2>1. SameCounting
    BY <1>9 DEF ConsumePush, Goto, TypeOK, SameCounting, CollectPcs, InHand
  <2>2. UNCHANGED <<freed_stack, num_freed>>
    BY <1>9 DEF ConsumePush
  <2>3. \A s \in Segments : IsLive(s)' = IsLive(s)
    BY <1>9 DEF ConsumePush, Goto, TypeOK, SegmentTypeOK, IsLive
  <2> QED
    BY <2>1, <2>2, <2>3, SameCountingKeepsCounters
<1>10. ASSUME NEW t \in Threads, ConsumeRelease(t) PROVE CounterAgrees'
  <2> DEFINE s == seg[t]
  <2>1. /\ pc[t] = "consume_release" /\ s \in Segments
        /\ pc' = [pc EXCEPT ![t] = "consume"]
        /\ consumed' = [consumed EXCEPT ![t] = @ + 1]
        /\ UNCHANGED <<memory, freed_stack, num_freed, seg>>
    BY <1>10 DEF ConsumeRelease, Goto, LocalsMatchPc, SegmentPcs, CollectPcs
  <2>2. \A u \in Threads : pc[u] \in CollectPcs => u = t
    BY <2>1, OneCollector DEF LockedPcs, AllocateLockedPcs, CollectPcs
  <2>3. \A r \in Segments : /\ Collecting(r) = (IF r = s THEN {t} ELSE {})
                            /\ Collecting(r)' = Collecting(r)
    BY <2>1, <2>2 DEF Collecting, CollectPcs, TypeOK
  <2>4. InHand(t) = 1 /\ InHand(t)' = 0
    BY <2>1 DEF InHand, TypeOK
  <2>5. \A r \in Segments : Uncounted(r)' = Uncounted(r)
    BY <2>1 DEF Uncounted, TypeOK
  <2>6. consumed'[t] = consumed[t] + 1
    BY <2>1 DEF TypeOK
  <2> HIDE DEF s

  <2> SUFFICES ASSUME NEW r \in Segments, IsLive(r) PROVE Counts(r)'
    BY <2>1 DEF CounterAgrees, Counts, IsLive
  <2>7. Counts(r)
    BY DEF CounterAgrees, Counts
  <2>8. /\ num_freed[r] \in Int /\ Len(freed_stack[r]) \in Nat
        /\ Cardinality(Uncounted(r)) \in Nat
        /\ consumed[t] \in Nat
    BY CounterTyped, UncountedFinite
  <2> HIDE DEF Inv, InHand, Uncounted, Collecting
  <2>9. CASE r = s
    BY <2>1, <2>2, <2>3, <2>4, <2>5, <2>6, <2>7, <2>8, <2>9 DEF Counts
  <2>10. CASE r # s
    BY <2>1, <2>2, <2>3, <2>4, <2>5, <2>6, <2>7, <2>8, <2>10 DEF Counts
  <2> QED
    BY <2>9, <2>10
<1>11. ASSUME NEW t \in Threads, ConsumeEnd(t) PROVE CounterAgrees'
  <2>1. SameCounting
    BY <1>11 DEF ConsumeEnd, Goto, TypeOK, SameCounting, CollectPcs, InHand
  <2>2. UNCHANGED <<freed_stack, num_freed>>
    BY <1>11 DEF ConsumeEnd
  <2>3. \A s \in Segments : IsLive(s)' = IsLive(s)
    BY <1>11 DEF ConsumeEnd, Goto, TypeOK, SegmentTypeOK, IsLive
  <2> QED
    BY <2>1, <2>2, <2>3, SameCountingKeepsCounters
<1>12. ASSUME NEW t \in Threads, Subtract(t) PROVE CounterAgrees'
  <2> DEFINE s == seg[t]
  <2>1. /\ pc[t] = "subtract" /\ s \in Segments
        /\ pc' = [pc EXCEPT ![t] = "collect"]
        /\ num_freed' = [num_freed EXCEPT ![s] = @ + -consumed[t]]
        /\ \A u \in Threads \ {t} : seg'[u] = seg[u]
        /\ UNCHANGED <<memory, freed_stack>>
    BY <1>12 DEF Subtract, Goto, AddToNumFreed, LocalsMatchPc, SegmentPcs,
                 CollectPcs, TypeOK
  <2>2. \A u \in Threads : pc[u] \in CollectPcs => u = t
    BY <2>1, OneCollector DEF LockedPcs, AllocateLockedPcs, CollectPcs
  <2>3. \A r \in Segments : /\ Collecting(r) = (IF r = s THEN {t} ELSE {})
                            /\ Collecting(r)' = {}
    BY <2>1, <2>2 DEF Collecting, CollectPcs, TypeOK
  <2>4. InHand(t) = 0
    BY <2>1 DEF InHand
  <2>5. \A r \in Segments : Uncounted(r)' = Uncounted(r)
    BY <2>1 DEF Uncounted, TypeOK
  <2>6. \A r \in Segments : num_freed'[r] =
          IF r = s THEN num_freed[r] - consumed[t] ELSE num_freed[r]
    BY <2>1, CounterTyped DEF TypeOK, SegmentTypeOK
  <2> HIDE DEF s

  <2> SUFFICES ASSUME NEW r \in Segments, IsLive(r) PROVE Counts(r)'
    BY <2>1 DEF CounterAgrees, Counts, IsLive
  <2>7. Counts(r)
    BY DEF CounterAgrees, Counts
  <2>8. /\ num_freed[r] \in Int /\ Len(freed_stack[r]) \in Nat
        /\ Cardinality(Uncounted(r)) \in Nat
        /\ consumed[t] \in Nat
    BY CounterTyped, UncountedFinite
  <2> HIDE DEF Inv, InHand, Uncounted, Collecting
  <2>9. CASE r = s
    BY <2>1, <2>2, <2>3, <2>4, <2>5, <2>6, <2>7, <2>8, <2>9 DEF Counts
  <2>10. CASE r # s
    BY <2>1, <2>2, <2>3, <2>4, <2>5, <2>6, <2>7, <2>8, <2>10 DEF Counts
  <2> QED
    BY <2>9, <2>10
<1>13. ASSUME NEW t \in Threads, PopCollectedHit(t) PROVE CounterAgrees'
  <2>1. SameCounting
    BY <1>13 DEF PopCollectedHit, Goto, PopAndUnlock, TypeOK, SameCounting,
        CollectPcs, InHand
  <2>2. UNCHANGED <<freed_stack, num_freed>>
    BY <1>13 DEF PopCollectedHit, PopAndUnlock
  <2>3. \A s \in Segments : IsLive(s)' = IsLive(s)
    BY <1>13 DEF PopCollectedHit, Goto, PopAndUnlock, TypeOK, SegmentTypeOK,
        IsLive
  <2> QED
    BY <2>1, <2>2, <2>3, SameCountingKeepsCounters
<1>14. ASSUME NEW t \in Threads, PopCollectedMiss(t) PROVE CounterAgrees'
  <2>1. SameCounting
    BY <1>14 DEF PopCollectedMiss, Goto, TypeOK, SameCounting, CollectPcs,
        InHand
  <2>2. UNCHANGED <<freed_stack, num_freed>>
    BY <1>14 DEF PopCollectedMiss
  <2>3. \A s \in Segments : IsLive(s)' = IsLive(s)
    BY <1>14 DEF PopCollectedMiss, Goto, TypeOK, SegmentTypeOK, IsLive
  <2> QED
    BY <2>1, <2>2, <2>3, SameCountingKeepsCounters
<1>15. ASSUME NEW t \in Threads, GrowHit(t) PROVE CounterAgrees'
  <2>1. SameCounting
    BY <1>15 DEF GrowHit, Goto, PopAndUnlock, TypeOK, SameCounting,
        CollectPcs, InHand
  <2>2. UNCHANGED <<freed_stack, num_freed>>
    BY <1>15 DEF GrowHit, PopAndUnlock
  <2>3. \A s \in Segments : IsLive(s)' = IsLive(s)
    BY <1>15 DEF GrowHit, Goto, PopAndUnlock, TypeOK, SegmentTypeOK, IsLive
  <2> QED
    BY <2>1, <2>2, <2>3, SameCountingKeepsCounters
<1>16. ASSUME NEW t \in Threads, GrowMiss(t) PROVE CounterAgrees'
  <2>1. SameCounting
    BY <1>16 DEF GrowMiss, Goto, TypeOK, SameCounting, CollectPcs, InHand
  <2>2. UNCHANGED <<freed_stack, num_freed>>
    BY <1>16 DEF GrowMiss
  <2>3. \A s \in Segments : IsLive(s)' = IsLive(s)
    BY <1>16 DEF GrowMiss, Goto, TypeOK, SegmentTypeOK, IsLive
  <2> QED
    BY <2>1, <2>2, <2>3, SameCountingKeepsCounters
<1>17. ASSUME NEW t \in Threads, NEW s \in Segments, NumaAllocate(t, s)
      PROVE  CounterAgrees'
  <2>1. SameCounting
    BY <1>17 DEF NumaAllocate, Goto, TypeOK, SameCounting, CollectPcs, InHand
  <2>2. UNCHANGED <<freed_stack, num_freed>>
    BY <1>17 DEF NumaAllocate, MapMemory
  <2>3. \A r \in Segments : IsLive(r)' = IsLive(r)
    BY <1>17 DEF NumaAllocate, Goto, MapMemory, TypeOK, SegmentTypeOK, IsLive
  <2> QED
    BY <2>1, <2>2, <2>3, SameCountingKeepsCounters
<1>18. ASSUME NEW t \in Threads, CheckAllocationThrows(t) PROVE CounterAgrees'
  <2>1. SameCounting
    BY <1>18 DEF CheckAllocationThrows, Goto, TypeOK, SameCounting,
        CollectPcs, InHand
  <2>2. UNCHANGED <<freed_stack, num_freed>>
    BY <1>18 DEF CheckAllocationThrows
  <2>3. \A s \in Segments : IsLive(s)' = IsLive(s)
    BY <1>18 DEF CheckAllocationThrows, Goto, TypeOK, SegmentTypeOK, IsLive
  <2> QED
    BY <2>1, <2>2, <2>3, SameCountingKeepsCounters
<1>19. ASSUME NEW t \in Threads, Register(t) PROVE CounterAgrees'
  <2> DEFINE s == seg[t]
  <2>1. /\ pc[t] = "register" /\ s \in Segments /\ memory[s] = "mapped"
        /\ pc' = [pc EXCEPT ![t] = "construct"]
        /\ memory' = [memory EXCEPT ![s] = "registered"]
        /\ freed_stack' = [freed_stack EXCEPT ![s] = <<>>]
        /\ num_freed' = [num_freed EXCEPT ![s] = 0]
        /\ UNCHANGED <<seg, consumed>>
    BY <1>19 DEF Register, Goto, ConstructMembers, LocalsMatchPc, SegmentPcs,
                 HolderMatchesMemory
  <2>2. SameCounting
    BY <2>1 DEF TypeOK, SameCounting, CollectPcs, InHand
  <2>3. /\ freed_stack'[s] = <<>> /\ num_freed'[s] = 0
        /\ freed_stack' = freed_stack /\ num_freed' = num_freed
    BY <2>1 DEF SegmentsMatchMemory, IsLive, TypeOK, SegmentTypeOK
  <2>4. Uncounted(s) = {} /\ Collecting(s) = {}
    BY <2>1 DEF SegmentInUseIsLive, IsLive, Uncounted, Collecting
  <2>5. Counts(s)
    BY <2>1, <2>3, <2>4, FS_EmptySet DEF Counts
  <2>6. \A r \in Segments : IsLive(r)' => IsLive(r) \/ r = s
    BY <2>1 DEF IsLive, TypeOK, SegmentTypeOK
  <2> HIDE DEF s
  <2>7. \A r \in Segments : IsLive(r) => Counts(r)
    BY DEF CounterAgrees, Counts
  <2> SUFFICES ASSUME NEW r \in Segments, Counts(r) PROVE Counts(r)'
    BY <2>5, <2>6, <2>7 DEF CounterAgrees, Counts
  <2> QED
    BY <2>2, <2>3, SameCountingKeepsCounts
<1>20. ASSUME NEW t \in Threads, RegisterThrows(t) PROVE CounterAgrees'
  <2>1. SameCounting
    BY <1>20 DEF RegisterThrows, Goto, TypeOK, SameCounting, CollectPcs,
        InHand
  <2>2. UNCHANGED <<freed_stack, num_freed>>
    BY <1>20 DEF RegisterThrows
  <2>3. \A s \in Segments : IsLive(s)' = IsLive(s)
    BY <1>20 DEF RegisterThrows, Goto, TypeOK, SegmentTypeOK, IsLive
  <2> QED
    BY <2>1, <2>2, <2>3, SameCountingKeepsCounters
<1>21. ASSUME NEW t \in Threads, ConstructPush(t) PROVE CounterAgrees'
  <2>1. SameCounting
    BY <1>21 DEF ConstructPush, TypeOK, SameCounting, CollectPcs, InHand
  <2>2. UNCHANGED <<freed_stack, num_freed>>
    BY <1>21 DEF ConstructPush
  <2>3. \A s \in Segments : IsLive(s)' = IsLive(s)
    BY <1>21 DEF ConstructPush, TypeOK, SegmentTypeOK, IsLive
  <2> QED
    BY <2>1, <2>2, <2>3, SameCountingKeepsCounters
<1>22. ASSUME NEW t \in Threads, Insert(t) PROVE CounterAgrees'
  <2>1. SameCounting
    BY <1>22 DEF Insert, Goto, TypeOK, SameCounting, CollectPcs, InHand
  <2>2. UNCHANGED <<freed_stack, num_freed>>
    BY <1>22 DEF Insert
  <2>3. \A s \in Segments : IsLive(s)' = IsLive(s)
    BY <1>22 DEF Insert, Goto, TypeOK, SegmentTypeOK, IsLive
  <2> QED
    BY <2>1, <2>2, <2>3, SameCountingKeepsCounters
<1>23. ASSUME NEW t \in Threads, UnlockAndReturn(t) PROVE CounterAgrees'
  <2>1. SameCounting
    BY <1>23 DEF UnlockAndReturn, Goto, TypeOK, SameCounting, CollectPcs,
        InHand
  <2>2. UNCHANGED <<freed_stack, num_freed>>
    BY <1>23 DEF UnlockAndReturn
  <2>3. \A s \in Segments : IsLive(s)' = IsLive(s)
    BY <1>23 DEF UnlockAndReturn, Goto, TypeOK, SegmentTypeOK, IsLive
  <2> QED
    BY <2>1, <2>2, <2>3, SameCountingKeepsCounters
<1>24. ASSUME NEW t \in Threads, FreePush(t) PROVE CounterAgrees'
  <2> DEFINE s == seg[t]
  <2>1. /\ pc[t] = "free_push" /\ s \in Segments /\ block[t] \in Block
        /\ pc' = [pc EXCEPT ![t] = "free_increment"]
        /\ freed_stack' = [freed_stack EXCEPT ![s] = Append(@, block[t])]
        /\ UNCHANGED <<memory, num_freed, seg, consumed>>
    BY <1>24 DEF FreePush, Goto, PushFreed, LocalsMatchPc, SegmentPcs,
        BlockPcs
  <2>2. \A r \in Segments :
          /\ Uncounted(r)' = IF r = s THEN Uncounted(r) \cup {t} ELSE Uncounted(r)
          /\ t \notin Uncounted(r)
    BY <2>1 DEF Uncounted, TypeOK
  <2>3. \A r \in Segments : Collecting(r)' = Collecting(r)
    BY <2>1 DEF Collecting, CollectPcs, TypeOK
  <2>4. \A u \in Threads : consumed'[u] = consumed[u] /\ InHand(u)' = InHand(u)
    BY <2>1 DEF InHand, TypeOK
  <2>5. \A r \in Segments : Len(freed_stack'[r]) =
          IF r = s THEN Len(freed_stack[r]) + 1 ELSE Len(freed_stack[r])
    BY <2>1, CounterTyped, PushElements DEF TypeOK, SegmentTypeOK
  <2> HIDE DEF s
  <2>6. \A r \in Segments : Cardinality(Uncounted(r))' =
          IF r = s THEN Cardinality(Uncounted(r)) + 1
                   ELSE Cardinality(Uncounted(r))
    BY <2>2, UncountedFinite, FS_AddElement
  <2> SUFFICES ASSUME NEW r \in Segments, IsLive(r) PROVE Counts(r)'
    BY <2>1 DEF CounterAgrees, Counts, IsLive
  <2>7. Counts(r)
    BY DEF CounterAgrees, Counts
  <2>8. Collecting(r) \subseteq Threads
    BY DEF Collecting
  <2>9. /\ num_freed[r] \in Int /\ Len(freed_stack[r]) \in Nat
        /\ Cardinality(Uncounted(r)) \in Nat
        /\ \A u \in Threads : consumed[u] \in Nat /\ InHand(u) \in Nat
    BY CounterTyped, UncountedFinite
  <2> HIDE DEF Inv, InHand, Uncounted, Collecting
  <2>10. CASE r = s
    <3>1. /\ num_freed'[r] = num_freed[r]
          /\ Len(freed_stack'[r]) = Len(freed_stack[r]) + 1
          /\ Cardinality(Uncounted(r))' = Cardinality(Uncounted(r)) + 1
      BY <2>1, <2>5, <2>6, <2>10
    <3>2. ASSUME Collecting(r) = {}
          PROVE  num_freed'[r] = Len(freed_stack'[r])
                                 - Cardinality(Uncounted(r))'
      <4>1. num_freed[r] = Len(freed_stack[r]) - Cardinality(Uncounted(r))
        BY <2>7, <3>2 DEF Counts
      <4> QED
        BY <2>9, <3>1, <4>1
    <3>3. ASSUME NEW u \in Collecting(r)
          PROVE  num_freed'[r] = Len(freed_stack'[r]) + consumed'[u] + InHand(u)'
                                 - Cardinality(Uncounted(r))'
      <4>1. num_freed[r] = Len(freed_stack[r]) + consumed[u] + InHand(u)
                           - Cardinality(Uncounted(r))
        BY <2>7 DEF Counts
      <4>2. /\ consumed'[u] = consumed[u] /\ InHand(u)' = InHand(u)
            /\ consumed[u] \in Nat /\ InHand(u) \in Nat
        BY <2>4, <2>8, <2>9
      <4> QED
        BY <2>9, <3>1, <4>1, <4>2
    <3> QED
      BY <2>3, <3>2, <3>3 DEF Counts
  <2>11. CASE r # s
    <3>1. /\ num_freed'[r] = num_freed[r]
          /\ Len(freed_stack'[r]) = Len(freed_stack[r])
          /\ Cardinality(Uncounted(r))' = Cardinality(Uncounted(r))
      BY <2>1, <2>5, <2>6, <2>11
    <3> QED
      BY <2>3, <2>4, <2>7, <2>8, <3>1 DEF Counts
  <2> QED
    BY <2>10, <2>11
<1>25. ASSUME NEW t \in Threads, FreeIncrement(t) PROVE CounterAgrees'
  <2> DEFINE s == seg[t]
  <2>1. /\ pc[t] = "free_increment" /\ s \in Segments
        /\ pc'[t] \in {"idle", "check_empty"}
        /\ \A u \in Threads \ {t} : pc'[u] = pc[u] /\ seg'[u] = seg[u]
        /\ num_freed' = [num_freed EXCEPT ![s] = @ + 1]
        /\ UNCHANGED <<memory, freed_stack, consumed>>
    BY <1>25 DEF FreeIncrement, Goto, AddToNumFreed, LocalsMatchPc,
        SegmentPcs,
                 TypeOK
  <2>2. \A r \in Segments :
          /\ Uncounted(r)' = IF r = s THEN Uncounted(r) \ {t} ELSE Uncounted(r)
          /\ r = s => t \in Uncounted(r)
    BY <2>1 DEF Uncounted
  <2>3. \A r \in Segments : Collecting(r)' = Collecting(r)
    BY <2>1 DEF Collecting, CollectPcs
  <2>4. \A u \in Threads : consumed'[u] = consumed[u] /\ InHand(u)' = InHand(u)
    BY <2>1 DEF InHand
  <2>5. \A r \in Segments :
          num_freed'[r] = IF r = s THEN num_freed[r] + 1 ELSE num_freed[r]
    BY <2>1 DEF TypeOK, SegmentTypeOK
  <2> HIDE DEF s
  <2>6. \A r \in Segments : Cardinality(Uncounted(r))' =
          IF r = s THEN Cardinality(Uncounted(r)) - 1
                   ELSE Cardinality(Uncounted(r))
    BY <2>2, UncountedFinite, FS_RemoveElement
  <2> SUFFICES ASSUME NEW r \in Segments, IsLive(r) PROVE Counts(r)'
    BY <2>1 DEF CounterAgrees, Counts, IsLive
  <2>7. Counts(r)
    BY DEF CounterAgrees, Counts
  <2>8. Collecting(r) \subseteq Threads
    BY DEF Collecting
  <2>9. /\ num_freed[r] \in Int /\ Len(freed_stack[r]) \in Nat
        /\ Cardinality(Uncounted(r)) \in Nat
        /\ \A u \in Threads : consumed[u] \in Nat /\ InHand(u) \in Nat
    BY CounterTyped, UncountedFinite
  <2> HIDE DEF Inv, InHand, Uncounted, Collecting
  <2>10. CASE r = s
    <3>1. /\ num_freed'[r] = num_freed[r] + 1
          /\ Len(freed_stack'[r]) = Len(freed_stack[r])
          /\ Cardinality(Uncounted(r))' = Cardinality(Uncounted(r)) - 1
      BY <2>1, <2>5, <2>6, <2>10
    <3>2. ASSUME Collecting(r) = {}
          PROVE  num_freed'[r] = Len(freed_stack'[r])
                                 - Cardinality(Uncounted(r))'
      <4>1. num_freed[r] = Len(freed_stack[r]) - Cardinality(Uncounted(r))
        BY <2>7, <3>2 DEF Counts
      <4> QED
        BY <2>9, <3>1, <4>1
    <3>3. ASSUME NEW u \in Collecting(r)
          PROVE  num_freed'[r] = Len(freed_stack'[r]) + consumed'[u] + InHand(u)'
                                 - Cardinality(Uncounted(r))'
      <4>1. num_freed[r] = Len(freed_stack[r]) + consumed[u] + InHand(u)
                           - Cardinality(Uncounted(r))
        BY <2>7 DEF Counts
      <4>2. /\ consumed'[u] = consumed[u] /\ InHand(u)' = InHand(u)
            /\ consumed[u] \in Nat /\ InHand(u) \in Nat
        BY <2>4, <2>8, <2>9
      <4> QED
        BY <2>9, <3>1, <4>1, <4>2
    <3> QED
      BY <2>3, <3>2, <3>3 DEF Counts
  <2>11. CASE r # s
    <3>1. /\ num_freed'[r] = num_freed[r]
          /\ Len(freed_stack'[r]) = Len(freed_stack[r])
          /\ Cardinality(Uncounted(r))' = Cardinality(Uncounted(r))
      BY <2>1, <2>5, <2>6, <2>11
    <3> QED
      BY <2>3, <2>4, <2>7, <2>8, <3>1 DEF Counts
  <2> QED
    BY <2>10, <2>11
<1>26. ASSUME NEW t \in Threads, CheckEmpty(t) PROVE CounterAgrees'
  <2>1. SameCounting
    BY <1>26 DEF CheckEmpty, Goto, TypeOK, SameCounting, CollectPcs, InHand
  <2>2. UNCHANGED <<freed_stack, num_freed>>
    BY <1>26 DEF CheckEmpty
  <2>3. \A s \in Segments : IsLive(s)' = IsLive(s)
    BY <1>26 DEF CheckEmpty, Goto, TypeOK, SegmentTypeOK, IsLive
  <2> QED
    BY <2>1, <2>2, <2>3, SameCountingKeepsCounters
<1>27. ASSUME NEW t \in Threads, FreeLock(t) PROVE CounterAgrees'
  <2>1. SameCounting
    BY <1>27 DEF FreeLock, Goto, TypeOK, SameCounting, CollectPcs, InHand
  <2>2. UNCHANGED <<freed_stack, num_freed>>
    BY <1>27 DEF FreeLock
  <2>3. \A s \in Segments : IsLive(s)' = IsLive(s)
    BY <1>27 DEF FreeLock, Goto, TypeOK, SegmentTypeOK, IsLive
  <2> QED
    BY <2>1, <2>2, <2>3, SameCountingKeepsCounters
<1>28. ASSUME NEW t \in Threads, RecheckKeep(t) PROVE CounterAgrees'
  <2>1. SameCounting
    BY <1>28 DEF RecheckKeep, Goto, TypeOK, SameCounting, CollectPcs, InHand
  <2>2. UNCHANGED <<freed_stack, num_freed>>
    BY <1>28 DEF RecheckKeep
  <2>3. \A s \in Segments : IsLive(s)' = IsLive(s)
    BY <1>28 DEF RecheckKeep, Goto, TypeOK, SegmentTypeOK, IsLive
  <2> QED
    BY <2>1, <2>2, <2>3, SameCountingKeepsCounters
<1>29. ASSUME NEW t \in Threads, RecheckErase(t) PROVE CounterAgrees'
  <2>1. /\ seg[t] \in Segments
        /\ memory' = [memory EXCEPT ![seg[t]] = "mapped"]
        /\ freed_stack' = [freed_stack EXCEPT ![seg[t]] = <<>>]
        /\ num_freed' = [num_freed EXCEPT ![seg[t]] = 0]
    BY <1>29, ErasedSegmentIsEmpty DEF RecheckErase, DestroyMembers
  <2>2. SameCounting
    BY <1>29 DEF RecheckErase, Goto, TypeOK, SameCounting, CollectPcs, InHand
  <2> SUFFICES ASSUME NEW r \in Segments, IsLive(r)' PROVE Counts(r)'
    BY DEF CounterAgrees, Counts
  <2>3. /\ r # seg[t] /\ IsLive(r)
        /\ freed_stack'[r] = freed_stack[r] /\ num_freed'[r] = num_freed[r]
    BY <2>1 DEF IsLive, TypeOK, SegmentTypeOK
  <2>4. Counts(r)
    BY <2>3 DEF CounterAgrees, Counts
  <2> QED
    BY <2>2, <2>3, <2>4, SameCountingKeepsCounts
<1>30. ASSUME NEW t \in Threads, ReleaseMemory(t) PROVE CounterAgrees'
  <2>1. SameCounting
    BY <1>30 DEF ReleaseMemory, Goto, TypeOK, SameCounting, CollectPcs, InHand
  <2>2. UNCHANGED <<freed_stack, num_freed>>
    BY <1>30 DEF ReleaseMemory, UnmapMemory
  <2>3. \A s \in Segments : IsLive(s)' = IsLive(s)
    BY <1>30 DEF ReleaseMemory, Goto, UnmapMemory, TypeOK, SegmentTypeOK,
        IsLive, HolderMatchesMemory
  <2> QED
    BY <2>1, <2>2, <2>3, SameCountingKeepsCounters
<1>31. ASSUME NEW t \in Threads, FreeUnlock(t) PROVE CounterAgrees'
  <2>1. SameCounting
    BY <1>31 DEF FreeUnlock, Goto, TypeOK, SameCounting, CollectPcs, InHand
  <2>2. UNCHANGED <<freed_stack, num_freed>>
    BY <1>31 DEF FreeUnlock
  <2>3. \A s \in Segments : IsLive(s)' = IsLive(s)
    BY <1>31 DEF FreeUnlock, Goto, TypeOK, SegmentTypeOK, IsLive
  <2> QED
    BY <2>1, <2>2, <2>3, SameCountingKeepsCounters
<1>32. ASSUME UNCHANGED vars PROVE CounterAgrees'
  <2>1. /\ SameCounting
        /\ UNCHANGED <<freed_stack, num_freed>>
        /\ \A s \in Segments : IsLive(s)' = IsLive(s)
    BY <1>32 DEF vars, SameCounting, InHand, IsLive
  <2> QED
    BY <2>1, SameCountingKeepsCounters
<1> QED
  BY <1>1, <1>2, <1>3, <1>4, <1>5, <1>6, <1>7, <1>8, <1>9, <1>10, <1>11,
      <1>12, <1>13, <1>14, <1>15, <1>16, <1>17, <1>18, <1>19, <1>20, <1>21,
      <1>22, <1>23, <1>24, <1>25, <1>26, <1>27, <1>28, <1>29, <1>30, <1>31,
      <1>32 DEF Next, Call, Step, AllocateStep, FreeStep

=============================================================================
