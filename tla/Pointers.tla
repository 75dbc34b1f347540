------------------------------ MODULE Pointers ------------------------------
(***************************************************************************)
(* The pointers a heap returns (include/hwmalloc/fancy_ptr/*.hpp) and what *)
(* becomes of the block_t in them: clients copy, move along and reset      *)
(* them, keep them in unique_ptrs, and release them, to the pool of their  *)
(* segment or, for memory the client has registered itself, with the       *)
(* user_allocation (include/hwmalloc/detail/user_allocation.hpp).          *)
(* Containers allocate and deallocate with allocators                      *)
(* (include/hwmalloc/allocator.hpp), which they copy, assign and swap.     *)
(*                                                                         *)
(* A pool is the bag of the blocks that can be handed out: a block that is *)
(* freed is handed out again as it was freed.  A pool stands for a heap,   *)
(* a node and a size.                                                      *)
(***************************************************************************)
EXTENDS Integers, FiniteSets, Bags

CONSTANTS
  Variables,         (* the hw_void_ptr and hw_ptr variables of the clients *)
  ConstVariables,    (* their pointers to const                             *)
  UniquePtrs,        (* their unique_ptr variables                          *)
  Allocators,        (* their allocator variables                           *)
  Pools,             (* the pools the blocks are from                       *)
  NumBlocks,         (* how many blocks the segments have                   *)
  PoolOf,            (* the pool of the segment of each block               *)
  BlockElements,     (* how many elements of type T fit into one            *)
  Distances,         (* how far pointers are moved at once, either way      *)
  DeviceBlocks,      (* the blocks that are mirrored on a device            *)
  UserAllocations,   (* addresses of user_allocation objects                *)
  NoSegment,         (* m_segment = nullptr                                 *)
  NoUserAllocation,  (* m_user_allocation = nullptr                         *)
  FreesReset,        (* do clients free pointers they have set to nullptr?  *)
  FreesMoved,        (* do they free pointers they have moved along?        *)
  MayThrow           (* can constructors of T and get_handle throw?         *)

ASSUME PointersAssumption ==
  /\ NumBlocks \in Nat
  /\ BlockElements \in Nat \ {0}
  /\ Distances \subseteq Int
  /\ DeviceBlocks \subseteq 1..NumBlocks
  /\ PoolOf \in [1..NumBlocks -> Pools]
  /\ NoSegment \notin Pools
  /\ NoUserAllocation \notin UserAllocations
  /\ {FreesReset, FreesMoved, MayThrow} \subseteq BOOLEAN

VARIABLES
  available,  (* of each pool: the blocks in it                            *)
  users,      (* of each user_allocation: does it exist?                   *)
  ptr,        (* the block_t in each variable                              *)
  const_ptr,  (* the block_t in each pointer to const                      *)
  unique,     (* the block_t in each unique_ptr                            *)
  allocator,  (* m_heap and m_numa_node of each allocator: the pool        *)
  owned,      (* the pointers that were returned to the clients and that   *)
              (* they have still to free, besides those in unique_ptrs     *)
  leaked      (* what exceptions have left behind                          *)

poolVars == <<available, users>>
clientVars == <<owned, leaked>>
vars == <<poolVars, ptr, const_ptr, unique, allocator, clientVars>>

nullptr == 0

(* The elements of block k, and how far its mirror is from it.  The memory *)
(* clients register themselves is like one more block.                     *)
Start(k) == 1 + (k - 1) * BlockElements
DeviceOffset == Start(NumBlocks + 2)

(* Block k of a segment, which is known by its pool.  m_handle stands for  *)
(* the handles, which tell the block and which no pointer arithmetic       *)
(* changes.                                                                *)
BlockOf(k) ==
  [m_segment |-> PoolOf[k], m_user_allocation |-> NoUserAllocation,
   m_ptr |-> Start(k), m_handle |-> k,
   m_device_ptr |-> IF k \in DeviceBlocks THEN Start(k) + DeviceOffset ELSE nullptr]

(* A user_allocation: of host memory, of device memory, whose host memory  *)
(* it allocates and frees itself, or of both.  It does not look whether    *)
(* malloc returned host memory: unbacked is a user_allocation of device    *)
(* memory without.                                                         *)
UserKinds == {"host", "device", "both", "unbacked"}
UserBlock(a, kind) ==
  [m_segment |-> NoSegment, m_user_allocation |-> a,
   m_ptr |-> IF kind = "unbacked" THEN nullptr ELSE Start(NumBlocks + 1),
   m_handle |-> NumBlocks + 1,
   m_device_ptr |-> IF kind = "host" THEN nullptr
                                     ELSE Start(NumBlocks + 1) + DeviceOffset]

(* hw_void_ptr{} and hw_void_ptr{nullptr}                                  *)
NullPtr ==
  [m_segment |-> NoSegment, m_user_allocation |-> NoUserAllocation,
   m_ptr |-> nullptr, m_handle |-> 0, m_device_ptr |-> nullptr]

Init ==
  /\ available = [q \in Pools |->
                    SetToBag({BlockOf(k) : k \in {k \in 1..NumBlocks : PoolOf[k] = q}})]
  /\ users = [x \in UserAllocations |-> "none"]
  /\ ptr = [p \in Variables |-> NullPtr]
  /\ const_ptr = [c \in ConstVariables |-> NullPtr]
  /\ unique = [u \in UniquePtrs |-> NullPtr]
  /\ allocator \in [Allocators -> Pools]
  /\ owned = {}
  /\ leaked = {}

-----------------------------------------------------------------------------

PushTo(q, b) ==
  /\ available' = [available EXCEPT ![q] = @ (+) SetToBag({b})]
  /\ UNCHANGED users

Pop(q, b) ==
  /\ BagIn(b, available[q])
  /\ available' = [available EXCEPT ![q] = @ (-) SetToBag({b})]
  /\ UNCHANGED users

(* delete m_user_allocation; of one that was deleted before, it corrupts.  *)
Delete(x) ==
  /\ users' = [users EXCEPT ![x] = IF @ = "alive" THEN "none" ELSE "corrupt"]
  /\ UNCHANGED available

(* Mutant of release: a user_allocation is taken for a block of a segment. *)
ReleaseToSegment(b) == PushTo(CHOOSE q \in Pools : TRUE, b)

(* block_t::release: to the pool of the segment                            *)
release(b) ==
  IF b.m_segment # NoSegment
    THEN PushTo(b.m_segment, b)
    ELSE IF b.m_user_allocation # NoUserAllocation
           THEN Delete(b.m_user_allocation)
           ELSE UNCHANGED poolVars

-----------------------------------------------------------------------------
(* hw_void_ptr and hw_ptr                                                  *)

(* heap::allocate                                                          *)
Allocate(p, q) ==
  /\ \E b \in BagToSet(available[q]) :
       /\ Pop(q, b)
       /\ ptr' = [ptr EXCEPT ![p] = b]
       /\ owned' = owned \cup {b}
  /\ UNCHANGED <<const_ptr, unique, allocator, leaked>>

(* heap::register_user_allocation: new user_allocation; with the handles   *)
(* of its regions the pointer is complete.                                 *)
RegisterUserAllocation(p, kind) ==
  /\ \E x \in UserAllocations :
       /\ users[x] = "none"
       /\ users' = [users EXCEPT ![x] = "alive"]
       /\ ptr' = [ptr EXCEPT ![p] = UserBlock(x, kind)]
       /\ owned' = owned \cup {UserBlock(x, kind)}
  /\ UNCHANGED <<available, const_ptr, unique, allocator, leaked>>

(* get_handle throws: nothing points to the user_allocation any more.  (If *)
(* register_memory throws, the members and the user_allocation are freed.) *)
GetHandleThrows(kind) ==
  /\ MayThrow
  /\ \E x \in UserAllocations :
       /\ users[x] = "none"
       /\ users' = [users EXCEPT ![x] = "alive"]
       /\ leaked' = leaked \cup {UserBlock(x, kind)}
  /\ UNCHANGED <<available, ptr, const_ptr, unique, allocator, owned>>

Copy(p, q) ==
  /\ ptr' = [ptr EXCEPT ![p] = ptr[q]]
  /\ UNCHANGED <<poolVars, const_ptr, unique, allocator, clientVars>>

(* p = nullptr                                                             *)
AssignNull(p) ==
  /\ ptr' = [ptr EXCEPT ![p].m_ptr = nullptr]
  /\ UNCHANGED <<poolVars, const_ptr, unique, allocator, clientVars>>

(* if (m_ptr.device_ptr()) it is moved as well: which each of the          *)
(* arithmetic operators does for itself.                                   *)
OnDevice(device_ptr, n) == IF device_ptr = nullptr THEN nullptr ELSE device_ptr + n

pre_increment(b) == [b EXCEPT !.m_ptr = @ + 1, !.m_device_ptr = OnDevice(@, 1)]
post_increment(b) == [b EXCEPT !.m_ptr = @ + 1, !.m_device_ptr = OnDevice(@, 1)]
plus_assign(b, n) == [b EXCEPT !.m_ptr = @ + n, !.m_device_ptr = OnDevice(@, n)]
pre_decrement(b) == [b EXCEPT !.m_ptr = @ - 1, !.m_device_ptr = OnDevice(@, -1)]

(* Mutant of post_decrement: the device pointer stays where it was.        *)
PostDecrementOnHost(b) == [b EXCEPT !.m_ptr = @ - 1]

post_decrement(b) == [b EXCEPT !.m_ptr = @ - 1, !.m_device_ptr = OnDevice(@, -1)]
minus_assign(b, n) == [b EXCEPT !.m_ptr = @ - n, !.m_device_ptr = OnDevice(@, -n)]

(* a + n and a - n, of a copy                                              *)
plus(b, n) == plus_assign(b, n)
minus(b, n) == minus_assign(b, n)

(* Pointers are moved between the first element and past the last one.     *)
InBlock(b) == b.m_ptr \in Start(b.m_handle)..(Start(b.m_handle) + BlockElements)

(* ++p, p++, p += n, --p, p--, p -= n: what p++ and p-- return is a copy   *)
(* made before.                                                            *)
Arithmetic(p) ==
  /\ ptr[p].m_ptr # nullptr
  /\ \E n \in Distances :
       \E b \in {pre_increment(ptr[p]), post_increment(ptr[p]), plus_assign(ptr[p], n),
                 pre_decrement(ptr[p]), post_decrement(ptr[p]), minus_assign(ptr[p], n)} :
         InBlock(b) /\ ptr' = [ptr EXCEPT ![p] = b]
  /\ UNCHANGED <<poolVars, const_ptr, unique, allocator, clientVars>>

(* p = q + n and p = q - n                                                 *)
AssignSum(p, q) ==
  /\ ptr[q].m_ptr # nullptr
  /\ \E n \in Distances : \E b \in {plus(ptr[q], n), minus(ptr[q], n)} :
       InBlock(b) /\ ptr' = [ptr EXCEPT ![p] = b]
  /\ UNCHANGED <<poolVars, const_ptr, unique, allocator, clientVars>>

-----------------------------------------------------------------------------
(* hw_const_void_ptr and hw_ptr<const T>, which cannot be released.  (The  *)
(* arithmetic of hw_ptr<const T> does not compile: it assigns a const T*   *)
(* to the void* of a hw_const_void_ptr.)                                   *)

CopyToConst(c, p) ==
  /\ const_ptr' = [const_ptr EXCEPT ![c] = ptr[p]]
  /\ UNCHANGED <<poolVars, ptr, unique, allocator, clientVars>>

AssignNullConst(c) ==
  /\ const_ptr' = [const_ptr EXCEPT ![c].m_ptr = nullptr]
  /\ UNCHANGED <<poolVars, ptr, unique, allocator, clientVars>>

-----------------------------------------------------------------------------
(* Release                                                                 *)

(* The pointer b, moved along                                              *)
IsMovedFrom(c, b) ==
  /\ c.m_ptr # nullptr
  /\ \A f \in {"m_segment", "m_user_allocation", "m_handle"} : c[f] = b[f]

(* heap::free, which takes the pointer as it is: to the start of what the  *)
(* client owns, if clients see to that                                     *)
Free(p) ==
  /\ \E b \in owned :
       /\ ptr[p] = b \/ (FreesMoved /\ IsMovedFrom(ptr[p], b))
       /\ owned' = owned \ {b}
  /\ release(ptr[p])
  /\ UNCHANGED <<ptr, const_ptr, unique, allocator, leaked>>

FreeNull(p) ==
  /\ ptr[p] = NullPtr \/ (FreesReset /\ ptr[p].m_ptr = nullptr)
  /\ release(ptr[p])
  /\ UNCHANGED <<ptr, const_ptr, unique, allocator, clientVars>>

-----------------------------------------------------------------------------
(* unique_ptr                                                              *)

MakeUnique(u) ==
  /\ unique[u] = NullPtr
  /\ \E q \in Pools : \E b \in BagToSet(available[q]) :
       /\ Pop(q, b)
       /\ unique' = [unique EXCEPT ![u] = b]
  /\ UNCHANGED <<ptr, const_ptr, allocator, clientVars>>

(* The constructor of T throws: nothing releases the block.                *)
MakeUniqueThrows ==
  /\ MayThrow
  /\ \E q \in Pools : \E b \in BagToSet(available[q]) :
       /\ Pop(q, b)
       /\ leaked' = leaked \cup {b}
  /\ UNCHANGED <<ptr, const_ptr, unique, allocator, owned>>

(* Mutant of heap_delete: it destroys the object and keeps the memory.     *)
HeapDeleteKeeps(b) == UNCHANGED poolVars

(* heap_delete, which a unique_ptr that is not null calls                  *)
heap_delete(b) ==
  IF b.m_ptr # nullptr THEN release(b) ELSE UNCHANGED poolVars

Reset(u) ==
  /\ heap_delete(unique[u])
  /\ unique' = [unique EXCEPT ![u] = NullPtr]
  /\ UNCHANGED <<ptr, const_ptr, allocator, clientVars>>

(* v = std::move(u)                                                        *)
Move(u, v) ==
  /\ u # v
  /\ heap_delete(unique[v])
  /\ unique' = [unique EXCEPT ![v] = unique[u], ![u] = NullPtr]
  /\ UNCHANGED <<ptr, const_ptr, allocator, clientVars>>

-----------------------------------------------------------------------------
(* allocator                                                               *)

(* allocate(n): heap::allocate on the node of the allocator                *)
AllocatorAllocate(a, p) == Allocate(p, allocator[a])

(* Mutant of Deallocate: the block goes to the pool of the allocator.      *)
DeallocateToHeap(a, p) ==
  /\ ptr[p] \in owned
  /\ PushTo(allocator[a], ptr[p])
  /\ owned' = owned \ {ptr[p]}
  /\ UNCHANGED <<ptr, const_ptr, unique, allocator, leaked>>

(* deallocate(p, n): m_heap->free(p), whichever heap p is from             *)
Deallocate(a, p) == Free(p)

(* Construction from, and assignment of, another allocator                 *)
AssignAllocator(a, b) ==
  /\ allocator' = [allocator EXCEPT ![a] = allocator[b]]
  /\ UNCHANGED <<poolVars, ptr, const_ptr, unique, clientVars>>

SwapAllocators(a, b) ==
  /\ allocator' = [allocator EXCEPT ![a] = allocator[b], ![b] = allocator[a]]
  /\ UNCHANGED <<poolVars, ptr, const_ptr, unique, clientVars>>

-----------------------------------------------------------------------------

Next ==
  \/ \E p \in Variables :
       \/ \E q \in Pools : Allocate(p, q)
       \/ \E a \in Allocators : AllocatorAllocate(a, p) \/ Deallocate(a, p)
       \/ \E kind \in UserKinds : RegisterUserAllocation(p, kind)
       \/ \E q \in Variables : Copy(p, q) \/ AssignSum(p, q)
       \/ AssignNull(p)
       \/ Arithmetic(p)
       \/ Free(p)
       \/ FreeNull(p)
  \/ \E c \in ConstVariables :
       \/ \E p \in Variables : CopyToConst(c, p)
       \/ AssignNullConst(c)
  \/ \E a, b \in Allocators : AssignAllocator(a, b) \/ SwapAllocators(a, b)
  \/ \E kind \in UserKinds : GetHandleThrows(kind)
  \/ MakeUniqueThrows
  \/ \E u \in UniquePtrs :
       \/ MakeUnique(u)
       \/ Reset(u)
       \/ \E v \in UniquePtrs : Move(u, v)

Spec == Init /\ [][Next]_vars
-----------------------------------------------------------------------------

UserBlocks(x) == {UserBlock(x, kind) : kind \in UserKinds}
PoolBlocks == {BlockOf(k) : k \in 1..NumBlocks}
InUniquePtrs == {unique[u] : u \in UniquePtrs} \ {NullPtr}

(* Pointers hold a block_t, and the pools get only blocks of segments.     *)
block_t ==
  [m_segment : Pools \cup {NoSegment},
   m_user_allocation : UserAllocations \cup {NoUserAllocation},
   m_ptr : Int, m_handle : 0..(NumBlocks + 1), m_device_ptr : Int]

TypeOK ==
  /\ DOMAIN available = Pools
  /\ \A q \in Pools : IsABag(available[q])
  /\ \A q \in Pools : \A b \in BagToSet(available[q]) : b.m_segment \in Pools
  /\ users \in [UserAllocations -> {"none", "alive", "corrupt"}]
  /\ ptr \in [Variables -> block_t]
  /\ const_ptr \in [ConstVariables -> block_t]
  /\ unique \in [UniquePtrs -> block_t]
  /\ allocator \in [Allocators -> Pools]
  /\ owned \cup leaked \subseteq PoolBlocks \cup UNION {UserBlocks(x) : x \in UserAllocations}

(* What a pool can hand out are blocks of its own segments as these made   *)
(* them, each one at most once and none that a client or a unique_ptr      *)
(* still has, although release takes whatever is in the pointer it is      *)
(* called on, and whichever allocator deallocates; and no user_allocation  *)
(* is deleted twice.                                                       *)
PoolsGetBackWhatTheyGave ==
  /\ \A q \in Pools : \A b \in BagToSet(available[q]) :
       /\ b \in PoolBlocks /\ b.m_segment = q
       /\ available[q][b] = 1
       /\ b \notin owned \cup InUniquePtrs
  /\ owned \cap InUniquePtrs = {}
  /\ \A u, v \in UniquePtrs : unique[u] = unique[v] => u = v \/ unique[u] = NullPtr
  /\ \A x \in UserAllocations : users[x] # "corrupt"

(* Only an exception, in a constructor of make_unique or of get_handle,    *)
(* loses a block or a user_allocation: besides, each one is in a pool, in  *)
(* the hands of a client that will free it, or in a unique_ptr.            *)
OnlyExceptionsLeak ==
  /\ \A b \in PoolBlocks :
       b \in owned \cup InUniquePtrs \cup leaked \/ \E q \in Pools : BagIn(b, available[q])
  /\ \A x \in UserAllocations :
       users[x] = "alive" => UserBlocks(x) \cap (owned \cup leaked) # {}

(* A pointer and its device_ptr point to the same element, in all copies   *)
(* and after all arithmetic, also once blocks have been freed through one  *)
(* and handed out again.                                                   *)
DevicePtrFollowsPtr ==
  \A b \in {ptr[p] : p \in Variables} \cup {const_ptr[c] : c \in ConstVariables} :
    b.m_ptr # nullptr /\ b.m_device_ptr # nullptr =>
      b.m_device_ptr = b.m_ptr + DeviceOffset

(* A unique_ptr has a block of a segment: it is made by make_unique only.  *)
UniquePtrsHaveBlocks ==
  \A u \in UniquePtrs : unique[u] \in PoolBlocks \cup {NullPtr}

(* A user_allocation a client has still to free exists, and it has only    *)
(* one pointer to it to free.                                              *)
UserAllocationsAreAlive ==
  \A x \in UserAllocations : \A b \in UserBlocks(x) \cap owned :
    users[x] = "alive" /\ UserBlocks(x) \cap owned = {b}

(* The inductive invariant of the pointers: whatever can be released, by a *)
(* client, an allocator or a unique_ptr, was handed out and not released   *)
(* since, and is as it was handed out.                                     *)
PointersInv ==
  /\ TypeOK
  /\ PoolsGetBackWhatTheyGave
  /\ OnlyExceptionsLeak
  /\ DevicePtrFollowsPtr
  /\ UniquePtrsHaveBlocks
  /\ UserAllocationsAreAlive

=============================================================================
