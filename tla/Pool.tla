-------------------------------- MODULE Pool --------------------------------
(***************************************************************************)
(* A pool (include/hwmalloc/detail/pool.hpp) and the threads that allocate *)
(* blocks from it and free them.                                           *)
(*                                                                         *)
(* pool::allocate first pops the lock-free stack m_free_stack without the  *)
(* mutex.  If it is empty it locks m_mutex, pops again, collects the       *)
(* blocks freed in the segments, pops again, and at last adds segments     *)
(* until a pop succeeds.  pool::free pushes the block on the freed stack   *)
(* of its segment, counts it, and gives the segment back to the system     *)
(* when all its blocks are freed and more than m_num_reserve_segments      *)
(* segments exist.                                                         *)
(*                                                                         *)
(* One action is one access to state another thread can touch: a pop or a  *)
(* push, an operation on a counter, on the mutex or on m_segments, a call  *)
(* of the operating system or of the Context.  pc[t] names the access      *)
(* thread t executes next.                                                 *)
(***************************************************************************)
EXTENDS Segment

CONSTANTS
  Threads,               (* the threads that use the pool                  *)
  NoThread,              (* m_mutex is free                                *)
  NoBlock,               (* a block variable that holds no block           *)
  NoSegment,             (* a segment variable that holds no segment       *)
  NumReserveSegments,    (* num_reserve_segments of the constructor        *)
  NeverFree,             (* m_never_free                                   *)
  OsMayRefuse,           (* can numa().allocate fail while memory is left? *)
  RegisterMayThrow       (* can register_memory throw?                     *)

ASSUME PoolAssumption ==
  /\ IsFiniteSet(Threads)
  /\ NoThread \notin Threads
  /\ NoBlock \notin Block
  /\ NoSegment \notin Segments
  /\ NumReserveSegments \in Nat
  /\ {NeverFree, OsMayRefuse, RegisterMayThrow} \subseteq BOOLEAN

VARIABLES
  free_stack,  (* m_free_stack: blocks ready to be handed out              *)
  segments,    (* the keys of m_segments                                   *)
  mutex,       (* the thread that locked m_mutex                           *)
  owned,       (* the blocks the clients have and have not freed           *)
  pc,          (* the next access of each thread                           *)
  block,       (* the block a thread carries between two places            *)
  seg,         (* the segment a thread works on                            *)
  todo,        (* allocate: segments the collect loop has still to visit   *)
  consumed,    (* collect: blocks moved so far                             *)
  odd,         (* allocate: counter % 2 = 1                                *)
  left         (* segment constructor: blocks still to be pushed           *)

localVars == <<block, seg, todo, consumed, odd, left>>
vars == <<segmentVars, free_stack, segments, mutex, owned, pc, localVars>>

-----------------------------------------------------------------------------

(* Accesses made with m_mutex locked: by allocate ...                      *)
CollectPcs == {"consume", "consume_push", "consume_release", "subtract"}
AllocateLockedPcs ==
  {"pop_locked", "collect", "grow", "numa_allocate", "register", "construct",
   "unlock"} \cup CollectPcs
(* ... and by free.                                                        *)
FreeLockedPcs == {"recheck", "release", "free_unlock"}
LockedPcs == AllocateLockedPcs \cup FreeLockedPcs
UnlockedPcs ==
  {"idle", "lock", "free_push", "free_increment", "check_empty", "free_lock"}

(* The number of reserve segments is at least one.                         *)
m_num_reserve_segments ==
  IF NumReserveSegments > 1 THEN NumReserveSegments ELSE 1

TypeOK ==
  /\ SegmentTypeOK
  /\ free_stack \in Seq(Block)
  /\ segments \in SUBSET Segments
  /\ mutex \in Threads \cup {NoThread}
  /\ owned \in SUBSET Block
  /\ pc \in [Threads -> LockedPcs \cup UnlockedPcs]
  /\ block \in [Threads -> Block \cup {NoBlock}]
  /\ seg \in [Threads -> Segments \cup {NoSegment}]
  /\ todo \in [Threads -> SUBSET Segments]
  /\ consumed \in [Threads -> Nat]
  /\ odd \in [Threads -> BOOLEAN]
  /\ left \in [Threads -> 0..BlocksPerSegment]

Init ==
  /\ SegmentInit
  /\ free_stack = <<>>
  /\ segments = {}
  /\ mutex = NoThread
  /\ owned = {}
  /\ pc = [t \in Threads |-> "idle"]
  /\ block = [t \in Threads |-> NoBlock]
  /\ seg = [t \in Threads |-> NoSegment]
  /\ todo = [t \in Threads |-> {}]
  /\ consumed = [t \in Threads |-> 0]
  /\ odd = [t \in Threads |-> FALSE]
  /\ left = [t \in Threads |-> 0]

-----------------------------------------------------------------------------

Goto(t, from, to) ==
  /\ pc[t] = from
  /\ pc' = [pc EXCEPT ![t] = to]

(* m_free_stack.pop(b) on behalf of thread t, which holds the mutex: with  *)
(* a block it goes on to unlock and return it.                             *)
PopAndUnlock(t, from) ==
  /\ free_stack # <<>>
  /\ Goto(t, from, "unlock")
  /\ free_stack' = Front(free_stack)
  /\ block' = [block EXCEPT ![t] = Last(free_stack)]

-----------------------------------------------------------------------------
(* pool::allocate                                                          *)

(* The lock-free fast path: the first pop finds a block.                   *)
AllocateHit(t) ==
  /\ pc[t] = "idle"
  /\ free_stack # <<>>
  /\ free_stack' = Front(free_stack)
  /\ owned' = owned \cup {Last(free_stack)}
  /\ UNCHANGED <<segmentVars, segments, mutex, pc, localVars>>

AllocateMiss(t) ==
  /\ Goto(t, "idle", "lock")
  /\ free_stack = <<>>
  /\ UNCHANGED <<segmentVars, free_stack, segments, mutex, owned, localVars>>

Lock(t) ==
  /\ Goto(t, "lock", "pop_locked")
  /\ mutex = NoThread
  /\ mutex' = t
  /\ UNCHANGED <<segmentVars, free_stack, segments, owned, localVars>>

PopLockedHit(t) ==
  /\ PopAndUnlock(t, "pop_locked")
  /\ UNCHANGED <<segmentVars, segments, mutex, owned, seg, todo, consumed,
                 odd, left>>

(* Mutant of PopLockedMiss: no segment is collected.                       *)
PopLockedMissCollectsNothing(t) ==
  /\ Goto(t, "pop_locked", "collect")
  /\ free_stack = <<>>
  /\ UNCHANGED <<segmentVars, free_stack, segments, mutex, owned, localVars>>

PopLockedMiss(t) ==
  /\ Goto(t, "pop_locked", "collect")
  /\ free_stack = <<>>
  /\ todo' = [todo EXCEPT ![t] = segments]
  /\ UNCHANGED <<segmentVars, free_stack, segments, mutex, owned, block, seg,
                 consumed, odd, left>>

(* The collect loop visits the segments in the order of the hash map, which *)
(* is unspecified.                                                         *)
CollectNext(t, s) ==
  /\ Goto(t, "collect", "consume")
  /\ s \in todo[t]
  /\ seg' = [seg EXCEPT ![t] = s]
  /\ todo' = [todo EXCEPT ![t] = @ \ {s}]
  /\ consumed' = [consumed EXCEPT ![t] = 0]
  /\ UNCHANGED <<segmentVars, free_stack, segments, mutex, owned, block, odd,
                 left>>

(* segment::collect: consume_all pops one block at a time; the functor     *)
(* pushes it on the pool's stack before the node it was in is given back.  *)
ConsumeOne(t) ==
  /\ Goto(t, "consume", "consume_push")
  /\ freed_stack[seg[t]] # <<>>
  /\ block' = [block EXCEPT ![t] = Last(freed_stack[seg[t]])]
  /\ PopFreed(seg[t])
  /\ UNCHANGED <<free_stack, segments, mutex, owned, seg, todo, consumed, odd,
                 left>>

ConsumePush(t) ==
  /\ Goto(t, "consume_push", "consume_release")
  /\ free_stack' = Append(free_stack, block[t])
  /\ block' = [block EXCEPT ![t] = NoBlock]
  /\ UNCHANGED <<segmentVars, segments, mutex, owned, seg, todo, consumed, odd,
                 left>>

ConsumeRelease(t) ==
  /\ Goto(t, "consume_release", "consume")
  /\ consumed' = [consumed EXCEPT ![t] = @ + 1]
  /\ UNCHANGED <<segmentVars, free_stack, segments, mutex, owned, block, seg,
                 todo, odd, left>>

ConsumeEnd(t) ==
  /\ Goto(t, "consume", "subtract")
  /\ freed_stack[seg[t]] = <<>>
  /\ UNCHANGED <<segmentVars, free_stack, segments, mutex, owned, localVars>>

(* Mutant of Subtract: m_num_freed = 0 instead of m_num_freed -= consumed. *)
SubtractAll(t) ==
  /\ Goto(t, "subtract", "collect")
  /\ AddToNumFreed(seg[t], -num_freed[seg[t]])
  /\ seg' = [seg EXCEPT ![t] = NoSegment]
  /\ consumed' = [consumed EXCEPT ![t] = 0]
  /\ UNCHANGED <<free_stack, segments, mutex, owned, block, todo, odd, left>>

Subtract(t) ==
  /\ Goto(t, "subtract", "collect")
  /\ AddToNumFreed(seg[t], -consumed[t])
  /\ seg' = [seg EXCEPT ![t] = NoSegment]
  /\ consumed' = [consumed EXCEPT ![t] = 0]
  /\ UNCHANGED <<free_stack, segments, mutex, owned, block, todo, odd, left>>

PopCollectedHit(t) ==
  /\ todo[t] = {}
  /\ PopAndUnlock(t, "collect")
  /\ UNCHANGED <<segmentVars, segments, mutex, owned, seg, todo, consumed,
                 odd, left>>

PopCollectedMiss(t) ==
  /\ Goto(t, "collect", "grow")
  /\ todo[t] = {}
  /\ free_stack = <<>>
  /\ UNCHANGED <<segmentVars, free_stack, segments, mutex, owned, localVars>>

(* while (!m_free_stack.pop(b)) if (counter++ % 2 == 0) add_segment();     *)
GrowHit(t) ==
  /\ PopAndUnlock(t, "grow")
  /\ odd' = [odd EXCEPT ![t] = FALSE]
  /\ UNCHANGED <<segmentVars, segments, mutex, owned, seg, todo, consumed,
                 left>>

GrowMiss(t) ==
  /\ Goto(t, "grow", IF odd[t] THEN "grow" ELSE "numa_allocate")
  /\ free_stack = <<>>
  /\ odd' = [odd EXCEPT ![t] = ~ @]
  /\ UNCHANGED <<segmentVars, free_stack, segments, mutex, owned, block, seg,
                 todo, consumed, left>>

(* add_segment: memory on the requested node ...                           *)
NumaAllocate(t, s) ==
  /\ Goto(t, "numa_allocate", "register")
  /\ memory[s] = "unmapped"
  /\ MapMemory(s)
  /\ seg' = [seg EXCEPT ![t] = s]
  /\ UNCHANGED <<free_stack, segments, mutex, owned, block, todo, consumed,
                 odd, left>>

(* ... or an exception of check_allocation: there was no memory, or it was *)
(* on another node and has been given back.  The exception leaves allocate *)
(* past the calls of m_mutex.unlock().                                     *)
CheckAllocationThrows(t) ==
  /\ Goto(t, "numa_allocate", "idle")
  /\ OsMayRefuse \/ \A s \in Segments : memory[s] # "unmapped"
  /\ odd' = [odd EXCEPT ![t] = FALSE]
  /\ UNCHANGED <<segmentVars, free_stack, segments, mutex, owned, block, seg,
                 todo, consumed, left>>

(* register_memory; then make_unique<segment_type> enters the constructor. *)
Register(t) ==
  /\ Goto(t, "register", "construct")
  /\ ConstructMembers(seg[t])
  /\ left' = [left EXCEPT ![t] = BlocksPerSegment]
  /\ UNCHANGED <<free_stack, segments, mutex, owned, block, seg, todo,
                 consumed, odd>>

(* An exception of register_memory: nothing owns the allocation yet, and   *)
(* nothing unlocks the mutex.                                              *)
RegisterThrows(t) ==
  /\ RegisterMayThrow
  /\ Goto(t, "register", "idle")
  /\ odd' = [odd EXCEPT ![t] = FALSE]
  /\ seg' = [seg EXCEPT ![t] = NoSegment]
  /\ UNCHANGED <<segmentVars, free_stack, segments, mutex, owned, block, todo,
                 consumed, left>>

(* Mutant of NextBlock: the offsets start one block too low.               *)
NextBlockOneLower(t) == [m_segment |-> seg[t], index |-> left[t] - 1]

(* The constructor pushes the blocks from the last to the first; another   *)
(* thread can pop them at once.                                            *)
NextBlock(t) == [m_segment |-> seg[t], index |-> left[t]]

ConstructPush(t) ==
  /\ pc[t] = "construct"
  /\ left[t] > 0
  /\ free_stack' = Append(free_stack, NextBlock(t))
  /\ left' = [left EXCEPT ![t] = @ - 1]
  /\ UNCHANGED <<segmentVars, segments, mutex, owned, pc, block, seg, todo,
                 consumed, odd>>

(* m_segments[s.get()] = std::move(s)                                      *)
Insert(t) ==
  /\ Goto(t, "construct", "grow")
  /\ left[t] = 0
  /\ segments' = segments \cup {seg[t]}
  /\ seg' = [seg EXCEPT ![t] = NoSegment]
  /\ UNCHANGED <<segmentVars, free_stack, mutex, owned, block, todo, consumed,
                 odd, left>>

UnlockAndReturn(t) ==
  /\ Goto(t, "unlock", "idle")
  /\ mutex' = NoThread
  /\ owned' = owned \cup {block[t]}
  /\ block' = [block EXCEPT ![t] = NoBlock]
  /\ UNCHANGED <<segmentVars, free_stack, segments, seg, todo, consumed, odd,
                 left>>

-----------------------------------------------------------------------------
(* pool::free                                                              *)

(* A client frees a block it owns, from any thread, and forgets it.        *)
Free(t, b) ==
  /\ Goto(t, "idle", "free_push")
  /\ b \in owned
  /\ owned' = owned \ {b}
  /\ block' = [block EXCEPT ![t] = b]
  /\ seg' = [seg EXCEPT ![t] = b.m_segment]
  /\ UNCHANGED <<segmentVars, free_stack, segments, mutex, todo, consumed, odd,
                 left>>

(* Mutant of NodesInUse: the stack has room for one block less.            *)
NodesInUseOneMore(s) ==
  1 + Len(freed_stack[s]) +
  Cardinality({t \in Threads :
                 seg[t] = s /\ pc[t] \in {"consume_push", "consume_release"}})

(* The nodes of the fixed-size m_freed_stack in use: one for each block in *)
(* it, and the one a collect has emptied and not yet given back.           *)
NodesInUse(s) ==
  Len(freed_stack[s]) +
  Cardinality({t \in Threads :
                 seg[t] = s /\ pc[t] \in {"consume_push", "consume_release"}})

(* Mutant of FreePush: a push that finds no node is not repeated.          *)
FreePushOnce(t) ==
  /\ Goto(t, "free_push", "free_increment")
  /\ IF NodesInUse(seg[t]) < BlocksPerSegment
        THEN PushFreed(seg[t], block[t])
        ELSE UNCHANGED segmentVars
  /\ block' = [block EXCEPT ![t] = NoBlock]
  /\ UNCHANGED <<free_stack, segments, mutex, owned, seg, todo, consumed, odd,
                 left>>

(* while (!m_freed_stack.push(b)) {}                                       *)
FreePush(t) ==
  /\ Goto(t, "free_push", "free_increment")
  /\ NodesInUse(seg[t]) < BlocksPerSegment
  /\ PushFreed(seg[t], block[t])
  /\ block' = [block EXCEPT ![t] = NoBlock]
  /\ UNCHANGED <<free_stack, segments, mutex, owned, seg, todo, consumed, odd,
                 left>>

(* ++m_num_freed; with m_never_free set, free returns.                     *)
FreeIncrement(t) ==
  /\ Goto(t, "free_increment", IF NeverFree THEN "idle" ELSE "check_empty")
  /\ AddToNumFreed(seg[t], 1)
  /\ seg' = [seg EXCEPT ![t] = IF NeverFree THEN NoSegment ELSE @]
  /\ UNCHANGED <<free_stack, segments, mutex, owned, block, todo, consumed,
                 odd, left>>

(* b.m_segment->is_empty(), without the mutex                              *)
CheckEmpty(t) ==
  /\ pc[t] = "check_empty"
  /\ \E empty \in IsEmptyResults(seg[t]) :
       /\ Goto(t, "check_empty", IF empty THEN "free_lock" ELSE "idle")
       /\ seg' = [seg EXCEPT ![t] = IF empty THEN @ ELSE NoSegment]
  /\ UNCHANGED <<segmentVars, free_stack, segments, mutex, owned, block, todo,
                 consumed, odd, left>>

FreeLock(t) ==
  /\ Goto(t, "free_lock", "recheck")
  /\ mutex = NoThread
  /\ mutex' = t
  /\ UNCHANGED <<segmentVars, free_stack, segments, owned, localVars>>

(* Mutant of MoreThanReserve: one segment less is kept.                    *)
AtLeastReserve == Cardinality(segments) >= m_num_reserve_segments

(* Mutant of MoreThanReserve: one segment more is kept.                    *)
MoreThanReserveAndOne == Cardinality(segments) > m_num_reserve_segments + 1

MoreThanReserve == Cardinality(segments) > m_num_reserve_segments

(* is_empty() again, with the mutex, and the size of m_segments.  Erasing  *)
(* a key that is no longer in the map does nothing.                        *)
RecheckKeep(t) ==
  /\ Goto(t, "recheck", "free_unlock")
  /\ \/ FALSE \in IsEmptyResults(seg[t])
     \/ ~ MoreThanReserve
     \/ seg[t] \notin segments
  /\ UNCHANGED <<segmentVars, free_stack, segments, mutex, owned, localVars>>

(* Mutant of RecheckErase: the test before the lock is thought to be       *)
(* enough.                                                                 *)
EraseWithoutRecheck(t) ==
  /\ Goto(t, "recheck", "release")
  /\ MoreThanReserve
  /\ seg[t] \in segments
  /\ segments' = segments \ {seg[t]}
  /\ DestroyMembers(seg[t])
  /\ UNCHANGED <<free_stack, mutex, owned, localVars>>

RecheckErase(t) ==
  /\ Goto(t, "recheck", "release")
  /\ TRUE \in IsEmptyResults(seg[t]) /\ MoreThanReserve
  /\ seg[t] \in segments
  /\ segments' = segments \ {seg[t]}
  /\ DestroyMembers(seg[t])
  /\ UNCHANGED <<free_stack, mutex, owned, localVars>>

ReleaseMemory(t) ==
  /\ Goto(t, "release", "free_unlock")
  /\ UnmapMemory(seg[t])
  /\ UNCHANGED <<free_stack, segments, mutex, owned, localVars>>

(* Mutant of FreeUnlock: a return without the unlock.                      *)
FreeUnlockForgets(t) ==
  /\ Goto(t, "free_unlock", "idle")
  /\ seg' = [seg EXCEPT ![t] = NoSegment]
  /\ UNCHANGED <<segmentVars, free_stack, segments, mutex, owned, block, todo,
                 consumed, odd, left>>

FreeUnlock(t) ==
  /\ Goto(t, "free_unlock", "idle")
  /\ mutex' = NoThread
  /\ seg' = [seg EXCEPT ![t] = NoSegment]
  /\ UNCHANGED <<segmentVars, free_stack, segments, owned, block, todo,
                 consumed, odd, left>>

-----------------------------------------------------------------------------

(* The clients start calls ...                                             *)
Call(t) ==
  \/ AllocateHit(t)
  \/ AllocateMiss(t)
  \/ \E b \in owned : Free(t, b)

(* ... and a call, once started, runs.                                     *)
AllocateStep(t) ==
  \/ Lock(t)
  \/ PopLockedHit(t)
  \/ PopLockedMiss(t)
  \/ \E s \in Segments : CollectNext(t, s)
  \/ ConsumeOne(t)
  \/ ConsumePush(t)
  \/ ConsumeRelease(t)
  \/ ConsumeEnd(t)
  \/ Subtract(t)
  \/ PopCollectedHit(t)
  \/ PopCollectedMiss(t)
  \/ GrowHit(t)
  \/ GrowMiss(t)
  \/ \E s \in Segments : NumaAllocate(t, s)
  \/ CheckAllocationThrows(t)
  \/ Register(t)
  \/ RegisterThrows(t)
  \/ ConstructPush(t)
  \/ Insert(t)
  \/ UnlockAndReturn(t)

FreeStep(t) ==
  \/ FreePush(t)
  \/ FreeIncrement(t)
  \/ CheckEmpty(t)
  \/ FreeLock(t)
  \/ RecheckKeep(t)
  \/ RecheckErase(t)
  \/ ReleaseMemory(t)
  \/ FreeUnlock(t)

Step(t) == AllocateStep(t) \/ FreeStep(t)

Next == \E t \in Threads : Call(t) \/ Step(t)

Spec == Init /\ [][Next]_vars

=============================================================================
