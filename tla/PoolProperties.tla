--------------------------- MODULE PoolProperties ---------------------------
(***************************************************************************)
(* What must hold of a pool, whatever the interleaving of its threads.     *)
(***************************************************************************)
EXTENDS Pool

(* The places a block can be in, besides the hands of the clients.         *)
OnFreedStacks == UNION {ToSet(freed_stack[s]) : s \in Segments}
Carried == {block[t] : t \in Threads} \ {NoBlock}
NotYetPushed ==
  {b \in Block :
     \E t \in Threads : /\ pc[t] = "construct"
                        /\ seg[t] = b.m_segment
                        /\ b.index <= left[t]}

(* No stack holds a block twice, and no two threads carry the same block.  *)
NoRepeatedBlock ==
  /\ IsInjective(free_stack)
  /\ \A s \in Segments : IsInjective(freed_stack[s])
  /\ \A t, u \in Threads : block[t] = block[u] => t = u \/ block[t] = NoBlock

PlacesDisjoint ==
  /\ owned \cap (ToSet(free_stack) \cup OnFreedStacks \cup Carried
                    \cup NotYetPushed) = {}
  /\ ToSet(free_stack) \cap (OnFreedStacks \cup Carried \cup NotYetPushed) = {}
  /\ OnFreedStacks \cap (Carried \cup NotYetPushed) = {}
  /\ Carried \cap NotYetPushed = {}

(* A block is in one place only: the pool never gives the same memory to   *)
(* two clients.  pool::allocate takes blocks from a stack that collect,    *)
(* the segment constructor and other allocators work on at the same time.  *)
BlocksInOnePlace == NoRepeatedBlock /\ PlacesDisjoint

BlocksSomewhere ==
  owned \cup ToSet(free_stack) \cup OnFreedStacks \cup Carried
    \cup NotYetPushed

(* No block of a live segment is lost: each one can still be allocated, be *)
(* freed or be collected, however allocate, free and collect interleave.   *)
NoBlockLost ==
  \A b \in Block : IsLive(b.m_segment) => b \in BlocksSomewhere

(* No block outlives its segment: what a client has, and what any stack    *)
(* can still hand out, is memory that is allocated and registered.         *)
NoDanglingBlock ==
  \A b \in BlocksSomewhere : IsLive(b.m_segment)

(* The segment a thread pushes a freed block to, counts it in, collects    *)
(* from or builds is alive until the thread is done with it.               *)
SegmentInUseIsLive ==
  \A t \in Threads :
    pc[t] \in {"free_push", "free_increment", "construct"} \cup CollectPcs =>
      IsLive(seg[t])

(* The threads that have freed a block of s and have not counted it yet.   *)
Uncounted(s) == {t \in Threads : pc[t] = "free_increment" /\ seg[t] = s}

(* The threads that collect s, and how many blocks each has popped from    *)
(* its stack and not yet in its count.                                     *)
Collecting(s) == {t \in Threads : pc[t] \in CollectPcs /\ seg[t] = s}
InHand(t) == IF pc[t] \in {"consume_push", "consume_release"} THEN 1 ELSE 0

(* m_num_freed is the length of m_freed_stack, up to what the frees and    *)
(* the collect in progress have still to add and to subtract: push and     *)
(* increment, pop and fetch_sub are not atomic together, yet no count is   *)
(* ever lost.                                                              *)
CounterAgrees ==
  \A s \in Segments : IsLive(s) =>
    /\ Collecting(s) = {} =>
         num_freed[s] = Len(freed_stack[s]) - Cardinality(Uncounted(s))
    /\ \A t \in Collecting(s) :
         num_freed[s] = Len(freed_stack[s]) + consumed[t] + InHand(t)
                        - Cardinality(Uncounted(s))

(* segment::free spins while the fixed-size freed stack has no node left:  *)
(* this is only while a collect holds a node it has emptied and is about   *)
(* to give back, so the spin ends.                                         *)
SpinningFreeHasCollector ==
  \A t \in Threads :
    pc[t] = "free_push" /\ NodesInUse(seg[t]) >= BlocksPerSegment =>
      \E u \in Collecting(seg[t]) : InHand(u) = 1

(* pool::free destroys a segment only when every one of its blocks is on   *)
(* its freed stack, although all it looks at is the counter.               *)
DestroysOnlyEmptySegments ==
  [][\A s \in Segments :
       IsLive(s) /\ ~ IsLive(s)' => ToSet(freed_stack[s]) = BlocksOf(s)]_vars

(* Memory no segment object manages is on its way from or to the operating *)
(* system in the hands of a thread; it is never forgotten.                 *)
NoMemoryForgotten ==
  \A s \in Segments : memory[s] = "mapped" =>
    \E t \in Threads : seg[t] = s /\ pc[t] \in {"register", "release"}

(* The pool implements the promise of RegisteredBlocks: the memory of a    *)
(* segment counts as backed while it is registered.                        *)
Promise == INSTANCE RegisteredBlocks WITH
  Reserve <- m_num_reserve_segments,
  backed <- {s \in Segments : IsLive(s)}

PoolKeepsPromise == Promise!Spec

-----------------------------------------------------------------------------
(* The inductive invariant                                                 *)

(* What a thread works with, by the access it executes next.               *)
SegmentPcs ==
  {"register", "construct", "free_push", "free_increment", "check_empty",
   "free_lock"} \cup CollectPcs \cup FreeLockedPcs
BlockPcs == {"consume_push", "unlock", "free_push"}

LocalsMatchPc ==
  \A t \in Threads :
    /\ IF pc[t] \in SegmentPcs THEN seg[t] \in Segments
                              ELSE seg[t] = NoSegment
    /\ IF pc[t] \in BlockPcs THEN block[t] \in Block ELSE block[t] = NoBlock

(* A freed block goes to the stack of its own segment.                     *)
FreedBlocksGoHome ==
  /\ \A s \in Segments : \A b \in ToSet(freed_stack[s]) : b.m_segment = s
  /\ \A t \in Threads : pc[t] \in {"consume_push", "free_push"} =>
       block[t].m_segment = seg[t]

(* Only the thread that locked the mutex is between lock and unlock.       *)
MutualExclusion ==
  \A t \in Threads : pc[t] \in LockedPcs => mutex = t

(* The live segments are those in m_segments and the one under             *)
(* construction, and a segment that is not alive has neither freed blocks  *)
(* nor a count.                                                            *)
SegmentsMatchMemory ==
  /\ \A s \in segments : IsLive(s)
  /\ \A s \in Segments : IsLive(s) /\ s \notin segments =>
       \E t \in Threads : pc[t] = "construct" /\ seg[t] = s
  /\ \A s \in Segments : ~ IsLive(s) =>
       freed_stack[s] = <<>> /\ num_freed[s] = 0

(* The thread with the mutex registers and releases memory that no segment *)
(* manages, builds segments that are not in m_segments yet, and collects   *)
(* only those that are.                                                    *)
HolderMatchesMemory ==
  \A t \in Threads :
    /\ pc[t] \in {"register", "release"} => memory[seg[t]] = "mapped"
    /\ pc[t] = "construct" => IsLive(seg[t]) /\ seg[t] \notin segments
    /\ pc[t] \in {"collect"} \cup CollectPcs => todo[t] \subseteq segments
    /\ pc[t] \in CollectPcs => seg[t] \in segments

(* With m_never_free set, pool::free returns before it looks for an empty  *)
(* segment.                                                                *)
NeverFreeKeepsSegments ==
  NeverFree =>
    \A t \in Threads :
      pc[t] \notin {"check_empty", "free_lock"} \cup FreeLockedPcs

(* The invariant the proofs are by induction on.                           *)
Inv ==
  /\ TypeOK
  /\ LocalsMatchPc
  /\ NeverFreeKeepsSegments
  /\ FreedBlocksGoHome
  /\ MutualExclusion
  /\ SegmentsMatchMemory
  /\ HolderMatchesMemory
  /\ BlocksInOnePlace
  /\ NoDanglingBlock
  /\ NoBlockLost
  /\ SegmentInUseIsLive
  /\ CounterAgrees

-----------------------------------------------------------------------------
(* Expected of a thread-safe heap (heap.hpp: "This class is thread safe"), *)
(* and not the case.                                                       *)

(* A thread in pool::free reads the counter of a segment that still        *)
(* exists.                                                                 *)
IsEmptyReadsLiveSegment ==
  \A t \in Threads : pc[t] \in {"check_empty", "recheck"} => IsLive(seg[t])

=============================================================================
