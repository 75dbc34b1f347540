-------------------------------- MODULE Heap --------------------------------
(***************************************************************************)
(* heap::allocate (include/hwmalloc/heap.hpp): threads that look for the   *)
(* fixed_size_heap that serves a request.  Up to m_max_size it is an       *)
(* element of a vector the constructor filled; beyond, an entry of a map   *)
(* that is made at the first request of its size, under the mutex of the   *)
(* heap.  What the fixed_size_heap then does is in module Pool.  The       *)
(* overload of allocate for a device finds it in the same way.             *)
(***************************************************************************)
EXTENDS HeapInstance, TLC

CONSTANTS
  Requests,      (* the sizes the clients ask for                          *)
  OutOfRange     (* what is read past the end of a vector                  *)

ASSUME HeapAssumption ==
  /\ Requests \subseteq 0..(2^SizeBits - 1)
  /\ OutOfRange \notin [block_size : Nat, segment_size : Nat]
  /\ OutOfRange \notin [id : Nat, block_size : Nat, segment_size : Nat]

VARIABLES
  huge_heaps,    (* m_huge_heaps: from sizes to heaps, null ones included  *)
  made,          (* how many heaps have been made for the map so far       *)
  mutex,         (* the thread that locked m_mutex                         *)
  pc, size,      (* of each thread: the next access, the size asked for    *)
  h              (* of each thread: the fixed_size_heap it has found       *)

heapVars == <<huge_heaps, made, mutex, pc, size, h>>
vars == <<instanceVars, heapVars>>

(* The members of the heap a thread uses.                                  *)
m_config(t) == heap[t].m_config
m_max_size(t) == heap[t].m_max_size
m_tiny_heaps(t) == TinyHeaps(m_config(t))
m_heaps(t) == Heaps(m_config(t), m_max_size(t))

(* A null pointer to a fixed_size_heap: those that are made count from 1.  *)
NoHeap == [id |-> 0]

Init ==
  /\ InstanceInit
  /\ huge_heaps = <<>>
  /\ made = 0
  /\ mutex = NoThread
  /\ pc = [t \in Threads |-> "idle"]
  /\ size = [t \in Threads |-> 0]
  /\ h = [t \in Threads |-> NoHeap]

-----------------------------------------------------------------------------

(* The element of a vector at an index of the code.                        *)
At(vector, i) ==
  IF i < Len(vector) THEN vector[i + 1] ELSE OutOfRange

Find(t, n, f) ==
  /\ pc' = [pc EXCEPT ![t] = "found"]
  /\ size' = [size EXCEPT ![t] = n]
  /\ h' = [h EXCEPT ![t] = f]
  /\ UNCHANGED <<instanceVars, huge_heaps, made, mutex>>

CanAsk(t) == heap[t] # NoInstance /\ pc[t] = "idle"

(* Which of the three branches a size takes.                               *)
IsTiny(t, n) == n <= m_config(t).tiny_limit
IsHuge(t, n) == ~ IsTiny(t, n) /\ ~ (n <= m_max_size(t))

FindTiny(t, n) ==
  /\ CanAsk(t)
  /\ IsTiny(t, n)
  /\ Find(t, n, At(m_tiny_heaps(t), tiny_bucket_index(n)))

FindInVector(t, n) ==
  /\ CanAsk(t)
  /\ ~ IsTiny(t, n) /\ ~ IsHuge(t, n)
  /\ Find(t, n, At(m_heaps(t), bucket_index(n, m_bucket_shift(m_config(t)))))

FindHuge(t, n) ==
  /\ CanAsk(t)
  /\ IsHuge(t, n)
  /\ pc' = [pc EXCEPT ![t] = "lock"]
  /\ size' = [size EXCEPT ![t] = n]
  /\ UNCHANGED <<instanceVars, huge_heaps, made, mutex, h>>

Lock(t) ==
  /\ pc[t] = "lock"
  /\ mutex = NoThread
  /\ mutex' = t
  /\ pc' = [pc EXCEPT ![t] = "look_up"]
  /\ UNCHANGED <<instanceVars, huge_heaps, made, size, h>>

(* Mutant of WithEntry: insert_or_assign in the place of operator[].       *)
WithNewEntry(s) ==
  [r \in DOMAIN huge_heaps \cup {s} |->
     IF r = s THEN NoHeap ELSE huge_heaps[r]]

(* m_huge_heaps with an entry for s, null unless there is one already.     *)
WithEntry(s) ==
  [r \in DOMAIN huge_heaps \cup {s} |->
     IF r \in DOMAIN huge_heaps THEN huge_heaps[r] ELSE NoHeap]

(* auto& u_ptr = m_huge_heaps[s]: there is a heap, and h points to it ...  *)
LookUpHit(t) ==
  /\ pc[t] = "look_up"
  /\ \E s \in round_to_pow_of_2(size[t]) :
       /\ WithEntry(s)[s] # NoHeap
       /\ h' = [h EXCEPT ![t] = WithEntry(s)[s]]
  /\ pc' = [pc EXCEPT ![t] = "unlock"]
  /\ UNCHANGED <<instanceVars, huge_heaps, made, mutex, size>>

(* ... or there is none, and it is made.                                   *)
LookUpMiss(t) ==
  /\ pc[t] = "look_up"
  /\ \E s \in round_to_pow_of_2(size[t]) :
       /\ WithEntry(s)[s] = NoHeap
       /\ huge_heaps' = [WithEntry(s) EXCEPT ![s] =
                           [id |-> made + 1, block_size |-> s, segment_size |-> s]]
       /\ h' = [h EXCEPT ![t] = huge_heaps'[s]]
  /\ made' = made + 1
  /\ pc' = [pc EXCEPT ![t] = "unlock"]
  /\ UNCHANGED <<instanceVars, mutex, size>>

(* Mutant of MakeThrows: lock and unlock in the place of the lock_guard.   *)
MakeThrowsLocked(t) ==
  /\ MakeMayThrow
  /\ pc[t] = "look_up"
  /\ \E s \in round_to_pow_of_2(size[t]) :
       /\ WithEntry(s)[s] = NoHeap
       /\ huge_heaps' = WithEntry(s)
  /\ pc' = [pc EXCEPT ![t] = "idle"]
  /\ size' = [size EXCEPT ![t] = 0]
  /\ UNCHANGED <<instanceVars, made, mutex, h>>

(* make_unique throws: the null entry stays, and the lock_guard unlocks.   *)
MakeThrows(t) ==
  /\ MakeMayThrow
  /\ pc[t] = "look_up"
  /\ \E s \in round_to_pow_of_2(size[t]) :
       /\ WithEntry(s)[s] = NoHeap
       /\ huge_heaps' = WithEntry(s)
  /\ mutex' = NoThread
  /\ pc' = [pc EXCEPT ![t] = "idle"]
  /\ size' = [size EXCEPT ![t] = 0]
  /\ UNCHANGED <<instanceVars, made, h>>

Unlock(t) ==
  /\ pc[t] = "unlock"
  /\ mutex' = NoThread
  /\ pc' = [pc EXCEPT ![t] = "found"]
  /\ UNCHANGED <<instanceVars, huge_heaps, made, size, h>>

(* return h->allocate(numa_node), with a block or an exception             *)
Return(t) ==
  /\ pc[t] = "found"
  /\ pc' = [pc EXCEPT ![t] = "idle"]
  /\ size' = [size EXCEPT ![t] = 0]
  /\ h' = [h EXCEPT ![t] = NoHeap]
  /\ UNCHANGED <<instanceVars, huge_heaps, made, mutex>>

-----------------------------------------------------------------------------

Next ==
  \/ \E e \in Environments : SetEnv(e) /\ UNCHANGED heapVars
  \/ \E t \in Threads :
    \/ InstanceStep(t) /\ UNCHANGED heapVars
    \/ pc[t] = "idle" /\ Drop(t) /\ UNCHANGED heapVars
    \/ \E n \in Requests : FindTiny(t, n) \/ FindInVector(t, n) \/ FindHuge(t, n)
    \/ Lock(t)
    \/ LookUpHit(t)
    \/ LookUpMiss(t)
    \/ MakeThrows(t)
    \/ Unlock(t)
    \/ Return(t)

Spec == Init /\ [][Next]_vars

-----------------------------------------------------------------------------

Elements(vector) == {vector[i] : i \in DOMAIN vector}

(* The heaps in the vectors of a heap, and those in the map.               *)
VectorHeaps(t) == Elements(m_tiny_heaps(t)) \cup Elements(m_heaps(t))
MadeHeaps == Elements(huge_heaps) \ {NoHeap}

TypeOK ==
  /\ InstanceTypeOK
  /\ DOMAIN huge_heaps \subseteq 0..(2^SizeBits - 1)
  /\ \A f \in MadeHeaps : f.id \in 1..made
  /\ mutex \in Threads \cup {NoThread}
  /\ pc \in [Threads -> {"idle", "lock", "look_up", "unlock", "found"}]
  /\ size \in [Threads -> Requests \cup {0}]
  /\ \A t \in Threads : h[t] \in
       {NoHeap} \cup IF pc[t] = "idle" THEN {} ELSE VectorHeaps(t) \cup MadeHeaps

(* The fixed_size_heap a request is sent to exists, and its blocks are as  *)
(* large as the request: the indices of allocate fit the vectors of the    *)
(* constructor, for every configuration heap_config accepts with a tiny    *)
(* limit of at least m_tiny_increment, and every request of at least one   *)
(* byte.                                                                   *)
BlockFitsRequest ==
  \A t \in Threads : pc[t] = "found" =>
    /\ h[t] \notin {NoHeap, OutOfRange}
    /\ h[t].block_size >= size[t]

(* No smaller block of the heap would have done, and a block made to       *)
(* measure is less than twice the request.                                 *)
SmallestFit ==
  \A t \in Threads : pc[t] = "found" =>
    /\ \A f \in VectorHeaps(t) :
         f.block_size >= size[t] => f.block_size >= h[t].block_size
    /\ size[t] > m_max_size(t) => h[t].block_size < 2 * size[t]

(* Every fixed_size_heap gets at least one block out of a segment: with    *)
(* none, pool::allocate would add segments for ever.                       *)
SegmentsHoldBlocks ==
  \A t \in Threads : heap[t] # NoInstance =>
    \A f \in VectorHeaps(t) \cup MadeHeaps : f.block_size > 0 /\ m_num_blocks(f) > 0

(* Who has found the fixed_size_heap of a huge size.                       *)
HasHugeHeap(t) == pc[t] \in {"unlock", "found"} /\ IsHuge(t, size[t])

(* Threads that ask for the same large size share one fixed_size_heap, and *)
(* with it its pools.                                                      *)
OneHeapPerSize ==
  \A t, u \in Threads :
    /\ HasHugeHeap(t) /\ HasHugeHeap(u)
    /\ h[t].block_size = h[u].block_size
    => h[t] = h[u]

(* The heap a thread uses without the mutex is never destroyed or replaced *)
(* in the map.                                                             *)
HugeHeapsStay ==
  [][\A f \in MadeHeaps : f \in MadeHeaps']_vars

(* The mutex is held only by a thread that is about to unlock it, whatever *)
(* make_unique threw.                                                      *)
MutexIsReleased ==
  mutex # NoThread => pc[mutex] \in {"look_up", "unlock"}

-----------------------------------------------------------------------------
(* The inductive invariant of the map of huge heaps                        *)

(* A thread is behind the lock_guard exactly while it holds the mutex, and *)
(* it keeps the heap as long as it is in allocate.                         *)
MutexExcludes ==
  \A t \in Threads :
    /\ pc[t] \in {"look_up", "unlock"} <=> mutex = t
    /\ pc[t] # "idle" => heap[t] # NoInstance

(* The map has a fixed_size_heap, or none yet, for each of its sizes, and  *)
(* it has those that threads use.                                          *)
MapIsBySize ==
  /\ \A s \in DOMAIN huge_heaps :
       huge_heaps[s] # NoHeap => huge_heaps[s].block_size = s
  /\ \A t \in Threads : HasHugeHeap(t) =>
       LET s == h[t].block_size
       IN s \in DOMAIN huge_heaps /\ huge_heaps[s] = h[t] /\ h[t] # NoHeap

HeapInv ==
  /\ InstanceInv
  /\ made \in Nat
  /\ mutex \in Threads \cup {NoThread}
  /\ pc \in [Threads -> {"idle", "lock", "look_up", "unlock", "found"}]
  /\ DOMAIN size = Threads /\ DOMAIN h = Threads
  /\ MutexExcludes
  /\ MapIsBySize

-----------------------------------------------------------------------------
(* The inductive invariant of the sizes                                    *)

(* Requests an unsigned int can be the power of two for.                   *)
UsualRequests == Requests \subseteq 1..2^(UIntBits - 1)

(* The map has powers of two only, with a block in each segment.           *)
MapIsOfPowers ==
  \A s \in DOMAIN huge_heaps :
    /\ s \in PowersOf2
    /\ huge_heaps[s] # NoHeap =>
         huge_heaps[s] \in [id : 1..made, block_size : {s}, segment_size : {s}]

(* The thread has found the best heap for its request.                     *)
IsServed(t) ==
  /\ h[t] \in VectorHeaps(t) \cup MadeHeaps
  /\ h[t].block_size >= size[t]
  /\ \A f \in VectorHeaps(t) :
       f.block_size >= size[t] => f.block_size >= h[t].block_size
  /\ size[t] > m_max_size(t) => h[t].block_size < 2 * size[t]

(* A thread goes to the map with a huge size only, and every thread leaves *)
(* with the best heap for its request.                                     *)
RequestIsServed(t) ==
  /\ size[t] \in IF pc[t] = "idle" THEN {0} ELSE Requests
  /\ pc[t] \in {"lock", "look_up", "unlock"} => IsHuge(t, size[t])
  /\ pc[t] \in {"idle", "lock", "look_up"} => h[t] = NoHeap
  /\ pc[t] \in {"unlock", "found"} => IsServed(t)

SizesInv ==
  /\ ConfigsAreSound
  /\ MapIsOfPowers
  /\ \A t \in Threads : RequestIsServed(t)

=============================================================================
