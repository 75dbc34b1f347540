--------------------------- MODULE PointersProofs ---------------------------
(***************************************************************************)
(* The theorems about pointers, for any number of pointers, unique_ptrs,   *)
(* allocators, pools, blocks and user_allocations, as long as clients free *)
(* no pointer they have set to nullptr (the run null_pointers shows what   *)
(* happens if they do) and none they have moved along.                     *)
(*                                                                         *)
(* A block moves: out of its pool into the hands of a client, a unique_ptr *)
(* or, with an exception, of nobody, and back by release.  The lemmas say  *)
(* what a pop and a release do to the pools and the user_allocations; the  *)
(* steps say to which of the other places the block goes.                  *)
(***************************************************************************)
EXTENDS Pointers, TLAPS

-----------------------------------------------------------------------------
(* Blocks and bags                                                         *)

(* A segment makes blocks that are not null, that belong to it alone and   *)
(* whose device pointer, if any, follows the pointer.                      *)
LEMMA BlocksOfSegments ==
  ASSUME NEW b \in PoolBlocks
  PROVE  /\ b \in block_t
         /\ b.m_segment \in Pools
         /\ b.m_ptr # nullptr
         /\ b # NullPtr
         /\ b.m_device_ptr # nullptr => b.m_device_ptr = b.m_ptr + DeviceOffset
<1>1. PICK k \in 1..NumBlocks : b = BlockOf(k)
  BY DEF PoolBlocks
<1>2. Start(k) \in Nat \ {0} /\ DeviceOffset \in Int
  <2>1. (k - 1) * BlockElements \in Nat
    BY PointersAssumption
  <2> QED
    BY <2>1, PointersAssumption DEF Start, DeviceOffset
<1>3. PoolOf[k] \in Pools /\ k \in 0..(NumBlocks + 1)
  BY PointersAssumption
<1> HIDE DEF Start, DeviceOffset
<1>4. /\ b.m_segment = PoolOf[k]
      /\ b.m_user_allocation = NoUserAllocation
      /\ b.m_ptr = Start(k)
      /\ b.m_handle = k
      /\ b.m_device_ptr = IF k \in DeviceBlocks THEN Start(k) + DeviceOffset ELSE nullptr
  BY <1>1 DEF BlockOf
<1>5. b \in block_t
  BY <1>1, <1>2, <1>3 DEF BlockOf, block_t, nullptr
<1> QED
  BY <1>2, <1>3, <1>4, <1>5, PointersAssumption DEF nullptr, NullPtr

(* The memory of a user_allocation is of no segment, but is like a block   *)
(* otherwise.                                                              *)
LEMMA BlocksOfUsers ==
  ASSUME NEW x \in UserAllocations, NEW b \in UserBlocks(x)
  PROVE  /\ b \in block_t
         /\ b.m_segment = NoSegment
         /\ b.m_user_allocation = x
         /\ b # NullPtr
         /\ b.m_ptr # nullptr /\ b.m_device_ptr # nullptr =>
              b.m_device_ptr = b.m_ptr + DeviceOffset
<1>1. PICK kind \in UserKinds : b = UserBlock(x, kind)
  BY DEF UserBlocks
<1>2. Start(NumBlocks + 1) \in Nat \ {0} /\ DeviceOffset \in Int
  <2>1. (NumBlocks + 1 - 1) * BlockElements \in Nat
    BY PointersAssumption
  <2> QED
    BY <2>1, PointersAssumption DEF Start, DeviceOffset
<1>3. NumBlocks + 1 \in 0..(NumBlocks + 1)
  BY PointersAssumption
<1>4. b \in block_t
  BY <1>1, <1>2, <1>3 DEF UserBlock, block_t, nullptr
<1>5. /\ b.m_segment = NoSegment
      /\ b.m_user_allocation = x
      /\ b.m_ptr \in {nullptr, Start(NumBlocks + 1)}
      /\ b.m_device_ptr \in {nullptr, Start(NumBlocks + 1) + DeviceOffset}
  BY <1>1 DEF UserBlock
<1> QED
  BY <1>2, <1>4, <1>5, PointersAssumption DEF nullptr, NullPtr

(* So is a null pointer.                                                   *)
LEMMA NullIsBlock == NullPtr \in block_t
  BY PointersAssumption DEF NullPtr, block_t, nullptr

(* A block that was not in a pool and is pushed is in it once.             *)
LEMMA PushOne ==
  ASSUME NEW B, IsABag(B), NEW b, b \notin BagToSet(B),
         NEW C, C = B (+) SetToBag({b})
  PROVE  /\ IsABag(C)
         /\ BagToSet(C) = BagToSet(B) \cup {b}
         /\ C[b] = 1
<1>1. DOMAIN C = DOMAIN B \cup {b}
  BY DEF (+), SetToBag
<1>2. C[b] = 1
  BY DEF (+), SetToBag, BagToSet
<1>3. \A c \in DOMAIN B : C[c] = B[c]
  <2> TAKE c \in DOMAIN B
  <2>1. B[c] \in Nat /\ c # b
    BY DEF IsABag, BagToSet
  <2> QED
    BY <2>1 DEF (+), SetToBag
<1>4. C = [c \in DOMAIN C |-> C[c]]
  BY DEF (+)
<1>5. IsABag(C)
  BY <1>1, <1>2, <1>3, <1>4 DEF IsABag
<1> QED
  BY <1>1, <1>2, <1>3, <1>5 DEF BagToSet

(* A block that was in a pool once and is popped is no longer in it.       *)
LEMMA PopOne ==
  ASSUME NEW B, IsABag(B), NEW b \in BagToSet(B), B[b] = 1
  PROVE  /\ IsABag(B (-) SetToBag({b}))
         /\ BagToSet(B (-) SetToBag({b})) = BagToSet(B) \ {b}
         /\ \A c \in BagToSet(B) \ {b} : (B (-) SetToBag({b}))[c] = B[c]
<1> DEFINE D == [e \in DOMAIN B |-> IF e \in DOMAIN SetToBag({b})
                                      THEN B[e] - SetToBag({b})[e] ELSE B[e]]
           C == B (-) SetToBag({b})
<1>1. DOMAIN SetToBag({b}) = {b} /\ SetToBag({b})[b] = 1
  BY DEF SetToBag
<1>2. /\ D[b] = 0
      /\ \A c \in DOMAIN B \ {b} : D[c] = B[c] /\ D[c] \in Nat /\ D[c] > 0
  BY <1>1 DEF IsABag, BagToSet
<1>3. C = [e \in {d \in DOMAIN D : D[d] > 0} |-> D[e]]
  BY DEF (-)
<1> HIDE DEF D, C
<1>4. DOMAIN D = DOMAIN B
  BY DEF D
<1>5. {d \in DOMAIN D : D[d] > 0} = DOMAIN B \ {b}
  BY <1>2, <1>4
<1>6. C = [e \in DOMAIN B \ {b} |-> B[e]]
  BY <1>2, <1>3, <1>5
<1>7. IsABag(C)
  BY <1>6 DEF IsABag
<1> QED
  BY <1>6, <1>7 DEF C, BagToSet

-----------------------------------------------------------------------------
(* Pops and releases                                                       *)

(* Pools of blocks of their own segments, each of them in it once          *)
PoolsAreBags(A) ==
  /\ DOMAIN A = Pools
  /\ \A q \in Pools : /\ IsABag(A[q])
                      /\ \A b \in BagToSet(A[q]) : /\ b \in PoolBlocks
                                                   /\ b.m_segment = q
                                                   /\ A[q][b] = 1

(* Popping and pushing a block                                             *)
LEMMA PopFromPools ==
  ASSUME NEW A, NEW A1, PoolsAreBags(A), NEW q \in Pools, NEW b \in BagToSet(A[q]),
         DOMAIN A1 = Pools, A1[q] = A[q] (-) SetToBag({b}),
         \A r \in Pools \ {q} : A1[r] = A[r]
  PROVE  /\ PoolsAreBags(A1)
         /\ \A r \in Pools : BagToSet(A1[r]) = BagToSet(A[r]) \ {b}
<1>1. PICK B, C : B = A[q] /\ C = A1[q]
  OBVIOUS
<1>2. /\ IsABag(B)
      /\ b \in BagToSet(B)
      /\ \A c \in BagToSet(B) : c \in PoolBlocks /\ c.m_segment = q /\ B[c] = 1
  BY <1>1 DEF PoolsAreBags
<1>3. C = B (-) SetToBag({b})
  BY <1>1
<1>4. /\ IsABag(C)
      /\ BagToSet(C) = BagToSet(B) \ {b}
      /\ \A c \in BagToSet(B) \ {b} : C[c] = B[c]
  BY <1>2, <1>3, PopOne
<1>5. \A r \in Pools \ {q} : b \notin BagToSet(A[r])
  BY <1>2 DEF PoolsAreBags
<1>6. ASSUME NEW r \in Pools
      PROVE  /\ IsABag(A1[r])
             /\ \A c \in BagToSet(A1[r]) :
                  c \in PoolBlocks /\ c.m_segment = r /\ A1[r][c] = 1
             /\ BagToSet(A1[r]) = BagToSet(A[r]) \ {b}
  <2>1. CASE r = q
    BY <1>1, <1>2, <1>4, <2>1
  <2>2. CASE r # q
    BY <1>5, <2>2 DEF PoolsAreBags
  <2> QED
    BY <2>1, <2>2
<1> QED
  BY <1>1, <1>5, <1>6 DEF PoolsAreBags

LEMMA PushToPools ==
  ASSUME NEW A, NEW A1, PoolsAreBags(A), NEW q \in Pools, NEW b \in PoolBlocks,
         b.m_segment = q, b \notin BagToSet(A[q]),
         DOMAIN A1 = Pools, A1[q] = A[q] (+) SetToBag({b}),
         \A r \in Pools \ {q} : A1[r] = A[r]
  PROVE  /\ PoolsAreBags(A1)
         /\ BagToSet(A1[q]) = BagToSet(A[q]) \cup {b}
<1>1. PICK B, C : B = A[q] /\ C = A1[q]
  OBVIOUS
<1>2. /\ IsABag(B)
      /\ b \notin BagToSet(B)
      /\ \A c \in BagToSet(B) : c \in PoolBlocks /\ c.m_segment = q /\ B[c] = 1
  BY <1>1 DEF PoolsAreBags
<1>3. C = B (+) SetToBag({b})
  BY <1>1
<1>4. IsABag(B) /\ b \notin BagToSet(B)
  BY <1>2
<1>5. /\ IsABag(C)
      /\ BagToSet(C) = BagToSet(B) \cup {b}
      /\ C[b] = 1
      /\ \A c \in BagToSet(B) : C[c] = B[c]
  <2>1. IsABag(C)
    BY ONLY <1>4, <1>3, PushOne
  <2>2. BagToSet(C) = BagToSet(B) \cup {b}
    BY ONLY <1>4, <1>3, PushOne
  <2>3. C[b] = 1
    BY ONLY <1>4, <1>3, PushOne
  <2>4. \A c \in BagToSet(B) : C[c] = B[c]
    BY <1>2, <1>3, <1>4 DEF (+), SetToBag, BagToSet
  <2> QED
    BY <2>1, <2>2, <2>3, <2>4
<1>6. ASSUME NEW r \in Pools
      PROVE  /\ IsABag(A1[r])
             /\ \A c \in BagToSet(A1[r]) :
                  c \in PoolBlocks /\ c.m_segment = r /\ A1[r][c] = 1
  <2>1. CASE r = q
    BY <1>1, <1>2, <1>5, <2>1
  <2>2. CASE r # q
    <3>1. A1[r] = A[r]
      BY <2>2
    <3> QED
      BY <2>2, <3>1 DEF PoolsAreBags
  <2> QED
    BY <2>1, <2>2
<1> QED
  BY <1>1, <1>5, <1>6 DEF PoolsAreBags

(* A pop takes a block of the pool's own segments, which nobody else has.  *)
LEMMA PopStep ==
  ASSUME PointersInv, NEW q \in Pools, NEW b, Pop(q, b)
  PROVE  /\ PoolsAreBags(available')
         /\ users' = users
         /\ b \in PoolBlocks
         /\ b \notin owned \cup InUniquePtrs
         /\ \A r \in Pools : BagToSet(available'[r]) = BagToSet(available[r]) \ {b}
<1>1. PICK A, A1 : A = available /\ A1 = available'
  OBVIOUS
<1>2. PoolsAreBags(A)
  BY <1>1 DEF PointersInv, TypeOK, PoolsGetBackWhatTheyGave, PoolsAreBags, IsABag,
      BagToSet
<1>3. /\ b \in BagToSet(A[q])
      /\ DOMAIN A1 = Pools
      /\ A1[q] = A[q] (-) SetToBag({b})
      /\ \A r \in Pools \ {q} : A1[r] = A[r]
      /\ users' = users
  BY <1>1, <1>2 DEF Pop, BagIn, BagToSet, PoolsAreBags
<1>4. b \in PoolBlocks /\ b \notin owned \cup InUniquePtrs
  BY <1>1, <1>3 DEF PointersInv, PoolsGetBackWhatTheyGave, BagToSet
<1>5. /\ PoolsAreBags(A1)
      /\ \A r \in Pools : BagToSet(A1[r]) = BagToSet(A[r]) \ {b}
  <2>1. PoolsAreBags(A1)
    BY ONLY q \in Pools, <1>2, <1>3, PopFromPools
  <2>2. \A r \in Pools : BagToSet(A1[r]) = BagToSet(A[r]) \ {b}
    BY ONLY q \in Pools, <1>2, <1>3, PopFromPools
  <2> QED
    BY <2>1, <2>2
<1> QED
  BY <1>1, <1>3, <1>4, <1>5 DEF BagToSet

(* release of a block of a segment, which is in no pool, pushes it to the  *)
(* pool it is from.                                                        *)
LEMMA ReleaseBlock ==
  ASSUME PointersInv, NEW b \in PoolBlocks, b \in owned \cup InUniquePtrs,
         release(b)
  PROVE  /\ PoolsAreBags(available')
         /\ users' = users
         /\ \A r \in Pools : BagToSet(available'[r]) =
              IF r = b.m_segment THEN BagToSet(available[r]) \cup {b}
                                 ELSE BagToSet(available[r])
<1>1. PICK A, A1 : A = available /\ A1 = available'
  OBVIOUS
<1>2. PoolsAreBags(A)
  BY <1>1 DEF PointersInv, TypeOK, PoolsGetBackWhatTheyGave, PoolsAreBags, IsABag,
      BagToSet
<1>3. PICK q \in Pools : q = b.m_segment /\ q # NoSegment
  BY BlocksOfSegments, PointersAssumption
<1>4. b \notin BagToSet(A[q])
  BY <1>1, <1>3 DEF PointersInv, PoolsGetBackWhatTheyGave, BagToSet
<1>5. /\ DOMAIN A1 = Pools
      /\ A1[q] = A[q] (+) SetToBag({b})
      /\ \A r \in Pools \ {q} : A1[r] = A[r]
      /\ users' = users
  BY <1>1, <1>2, <1>3 DEF release, PushTo, PoolsAreBags
<1>6. /\ PoolsAreBags(A1)
      /\ \A r \in Pools : BagToSet(A1[r]) =
           IF r = q THEN BagToSet(A[r]) \cup {b} ELSE BagToSet(A[r])
  <2>1. PoolsAreBags(A1)
    BY ONLY q \in Pools, b \in PoolBlocks, <1>2, <1>3, <1>4, <1>5, PushToPools
  <2>2. BagToSet(A1[q]) = BagToSet(A[q]) \cup {b}
    BY ONLY q \in Pools, b \in PoolBlocks, <1>2, <1>3, <1>4, <1>5, PushToPools
  <2> QED
    BY <1>5, <2>1, <2>2
<1> QED
  BY <1>1, <1>3, <1>5, <1>6 DEF BagToSet

(* release of a user_allocation deletes it; it exists, as its owner has    *)
(* not freed it before.                                                    *)
LEMMA ReleaseUser ==
  ASSUME PointersInv, NEW x \in UserAllocations, NEW b \in UserBlocks(x) \cap owned,
         release(b)
  PROVE  /\ available' = available
         /\ users' = [users EXCEPT ![x] = "none"]
<1>1. /\ b.m_segment = NoSegment
      /\ b.m_user_allocation = x
      /\ x # NoUserAllocation
  BY BlocksOfUsers, PointersAssumption
<1>2. Delete(x)
  BY <1>1 DEF release
<1>3. users[x] = "alive"
  BY DEF PointersInv, UserAllocationsAreAlive
<1> QED
  BY <1>2, <1>3 DEF Delete

(* A unique_ptr releases the block it has, and nothing if it is null.      *)
LEMMA DeleteStep ==
  ASSUME PointersInv, NEW u \in UniquePtrs, heap_delete(unique[u])
  PROVE  /\ PoolsAreBags(available')
         /\ users' = users
         /\ \A r \in Pools : BagToSet(available'[r]) =
              IF unique[u] # NullPtr /\ r = unique[u].m_segment
                THEN BagToSet(available[r]) \cup {unique[u]}
                ELSE BagToSet(available[r])
<1>1. CASE unique[u] = NullPtr
  <2>1. UNCHANGED poolVars
    BY <1>1 DEF heap_delete, NullPtr
  <2>2. PICK A : A = available /\ A = available'
    BY <2>1 DEF poolVars
  <2>3. PoolsAreBags(A)
    BY <2>2 DEF PointersInv, TypeOK, PoolsGetBackWhatTheyGave, PoolsAreBags, IsABag,
        BagToSet
  <2> QED
    BY <1>1, <2>1, <2>2, <2>3 DEF poolVars, BagToSet
<1>2. CASE unique[u] # NullPtr
  <2>1. unique[u] \in PoolBlocks /\ unique[u] \in InUniquePtrs
    BY <1>2 DEF PointersInv, UniquePtrsHaveBlocks, InUniquePtrs
  <2>2. PICK b \in PoolBlocks : b = unique[u]
    BY <2>1
  <2>3. release(b)
    BY <2>1, <2>2, BlocksOfSegments DEF heap_delete, release, PushTo, Delete, poolVars
  <2> QED
    BY <1>2, <2>1, <2>2, <2>3, ReleaseBlock DEF BagToSet
<1> QED
  BY <1>1, <1>2

-----------------------------------------------------------------------------
(* The steps that take a block out of a pool                               *)

(* The pointers of the clients follow the pointers of the blocks they are  *)
(* set to.                                                                 *)
LEMMA PointerIsSet ==
  ASSUME PointersInv, NEW p \in Variables, NEW b \in block_t,
         b.m_ptr # nullptr /\ b.m_device_ptr # nullptr =>
           b.m_device_ptr = b.m_ptr + DeviceOffset,
         ptr' = [ptr EXCEPT ![p] = b], const_ptr' = const_ptr
  PROVE  ptr' \in [Variables -> block_t] /\ DevicePtrFollowsPtr'
<1>1. /\ ptr' \in [Variables -> block_t]
      /\ \A q \in Variables : ptr'[q] = b \/ ptr'[q] = ptr[q]
  BY DEF PointersInv, TypeOK
<1> QED
  BY <1>1 DEF PointersInv, DevicePtrFollowsPtr

(* heap::allocate: the block goes to the client.                           *)
LEMMA AllocateStep ==
  ASSUME PointersInv, NEW p \in Variables, NEW q \in Pools, Allocate(p, q)
  PROVE  PointersInv'
<1>1. PICK b : /\ Pop(q, b)
               /\ ptr' = [ptr EXCEPT ![p] = b]
               /\ owned' = owned \cup {b}
  BY DEF Allocate
<1>2. UNCHANGED <<const_ptr, unique, allocator, leaked>>
  BY DEF Allocate
<1>3. /\ PoolsAreBags(available')
      /\ users' = users
      /\ b \in PoolBlocks
      /\ b \notin owned \cup InUniquePtrs
      /\ \A r \in Pools : DOMAIN available'[r] = DOMAIN available[r] \ {b}
  BY <1>1, PopStep DEF BagToSet
<1>4. InUniquePtrs' = InUniquePtrs
  BY <1>2 DEF InUniquePtrs
<1>5. ptr' \in [Variables -> block_t] /\ DevicePtrFollowsPtr'
  BY <1>1, <1>2, <1>3, PointerIsSet, BlocksOfSegments
<1>6. \A x \in UserAllocations : b \notin UserBlocks(x)
  BY <1>3, BlocksOfSegments, BlocksOfUsers, PointersAssumption
<1>7. TypeOK'
  BY <1>1, <1>2, <1>3, <1>5, BlocksOfSegments
  DEF PointersInv, TypeOK, PoolsAreBags, IsABag, BagToSet
<1>8. PoolsGetBackWhatTheyGave'
  BY <1>1, <1>2, <1>3, <1>4
  DEF PointersInv, PoolsGetBackWhatTheyGave, PoolsAreBags, BagToSet
<1>9. OnlyExceptionsLeak'
  BY <1>1, <1>2, <1>3, <1>4
  DEF PointersInv, OnlyExceptionsLeak, BagIn, BagToSet
<1>10. UniquePtrsHaveBlocks' /\ UserAllocationsAreAlive'
  BY <1>1, <1>2, <1>3, <1>6 DEF PointersInv, UniquePtrsHaveBlocks, UserAllocationsAreAlive
<1> QED
  BY <1>5, <1>7, <1>8, <1>9, <1>10 DEF PointersInv

(* make_unique: the block goes to the unique_ptr.                          *)
LEMMA MakeUniqueStep ==
  ASSUME PointersInv, NEW u \in UniquePtrs, MakeUnique(u)
  PROVE  PointersInv'
<1>0. PICK q \in Pools : \E b : Pop(q, b) /\ unique' = [unique EXCEPT ![u] = b]
  BY DEF MakeUnique
<1>1. PICK b : Pop(q, b) /\ unique' = [unique EXCEPT ![u] = b]
  BY <1>0
<1>2. UNCHANGED <<ptr, const_ptr, allocator, owned, leaked>> /\ unique[u] = NullPtr
  BY DEF MakeUnique, clientVars
<1>3. /\ PoolsAreBags(available')
      /\ users' = users
      /\ b \in PoolBlocks
      /\ b \notin owned \cup InUniquePtrs
      /\ \A r \in Pools : DOMAIN available'[r] = DOMAIN available[r] \ {b}
  BY <1>1, PopStep DEF BagToSet
<1>4. /\ unique'[u] = b
      /\ \A v \in UniquePtrs \ {u} : unique'[v] = unique[v] /\ unique[v] # b
      /\ DOMAIN unique' = UniquePtrs
      /\ b \in block_t /\ b # NullPtr
      /\ unique' \in [UniquePtrs -> block_t]
  BY <1>1, <1>3, BlocksOfSegments DEF PointersInv, TypeOK, InUniquePtrs
<1>5. InUniquePtrs' = InUniquePtrs \cup {b}
  BY <1>2, <1>4 DEF InUniquePtrs
<1>6. TypeOK'
  BY <1>2, <1>3, <1>4
  DEF PointersInv, TypeOK, PoolsAreBags, IsABag, BagToSet
<1>7. PoolsGetBackWhatTheyGave'
  <2>1. \A v, w \in UniquePtrs : unique'[v] = unique'[w] => v = w \/ unique'[v] = NullPtr
    BY <1>4 DEF PointersInv, PoolsGetBackWhatTheyGave
  <2> QED
    BY <1>2, <1>3, <1>5, <2>1
    DEF PointersInv, PoolsGetBackWhatTheyGave, PoolsAreBags, BagToSet
<1>8. OnlyExceptionsLeak'
  BY <1>2, <1>3, <1>5
  DEF PointersInv, OnlyExceptionsLeak, BagIn, BagToSet
<1>9. UniquePtrsHaveBlocks' /\ UserAllocationsAreAlive'
  BY <1>2, <1>3, <1>4 DEF PointersInv, UniquePtrsHaveBlocks, UserAllocationsAreAlive
<1>10. DevicePtrFollowsPtr'
  BY <1>2 DEF PointersInv, DevicePtrFollowsPtr
<1> QED
  BY <1>6, <1>7, <1>8, <1>9, <1>10 DEF PointersInv

(* The constructor in make_unique throws: the block goes to nobody.        *)
LEMMA MakeUniqueThrowsStep ==
  ASSUME PointersInv, MakeUniqueThrows
  PROVE  PointersInv'
<1>0. PICK q \in Pools : \E b : Pop(q, b) /\ leaked' = leaked \cup {b}
  BY DEF MakeUniqueThrows
<1>1. PICK b : Pop(q, b) /\ leaked' = leaked \cup {b}
  BY <1>0
<1>2. UNCHANGED <<ptr, const_ptr, unique, allocator, owned>>
  BY DEF MakeUniqueThrows
<1>3. /\ PoolsAreBags(available')
      /\ users' = users
      /\ b \in PoolBlocks
      /\ \A r \in Pools : DOMAIN available'[r] = DOMAIN available[r] \ {b}
  BY <1>1, PopStep DEF BagToSet
<1>4. InUniquePtrs' = InUniquePtrs
  BY <1>2 DEF InUniquePtrs
<1>5. TypeOK'
  BY <1>1, <1>2, <1>3, BlocksOfSegments
  DEF PointersInv, TypeOK, PoolsAreBags, IsABag, BagToSet
<1>6. PoolsGetBackWhatTheyGave'
  BY <1>1, <1>2, <1>3, <1>4
  DEF PointersInv, PoolsGetBackWhatTheyGave, PoolsAreBags, BagToSet
<1>7. OnlyExceptionsLeak'
  BY <1>1, <1>2, <1>3, <1>4
  DEF PointersInv, OnlyExceptionsLeak, BagIn, BagToSet
<1>8. UniquePtrsHaveBlocks' /\ UserAllocationsAreAlive' /\ DevicePtrFollowsPtr'
  BY <1>2, <1>3 DEF PointersInv, UniquePtrsHaveBlocks, UserAllocationsAreAlive,
      DevicePtrFollowsPtr
<1> QED
  BY <1>5, <1>6, <1>7, <1>8 DEF PointersInv

-----------------------------------------------------------------------------
(* The steps that release                                                  *)

(* heap::free of a block of a segment: it goes back to its pool.           *)
LEMMA FreeBlockStep ==
  ASSUME PointersInv, FreesMoved = FALSE, NEW p \in Variables, Free(p),
         ptr[p] \in PoolBlocks
  PROVE  PointersInv'
<1>1. PICK b \in PoolBlocks : b = ptr[p]
  OBVIOUS
<1>2. /\ b \in owned
      /\ release(b)
      /\ owned' = owned \ {b}
      /\ UNCHANGED <<ptr, const_ptr, unique, allocator, leaked>>
  BY <1>1 DEF Free, release, PushTo, Delete, poolVars
<1>3. /\ PoolsAreBags(available')
      /\ users' = users
      /\ \A r \in Pools : DOMAIN available'[r] =
           IF r = b.m_segment THEN DOMAIN available[r] \cup {b} ELSE DOMAIN available[r]
  BY <1>2, ReleaseBlock DEF BagToSet
<1>4. InUniquePtrs' = InUniquePtrs
  BY <1>2 DEF InUniquePtrs
<1>5. \A x \in UserAllocations : b \notin UserBlocks(x)
  BY BlocksOfSegments, BlocksOfUsers, PointersAssumption
<1>6. TypeOK'
  BY <1>2, <1>3, BlocksOfSegments
  DEF PointersInv, TypeOK, PoolsAreBags, IsABag, BagToSet
<1>7. PoolsGetBackWhatTheyGave'
  <2>1. b \notin owned' \cup InUniquePtrs'
    BY <1>2, <1>4 DEF PointersInv, PoolsGetBackWhatTheyGave
  <2>2. \A r \in Pools : \A c \in DOMAIN available'[r] : c = b \/ c \in DOMAIN available[r]
    BY <1>3
  <2>3. \A r \in Pools : \A c \in DOMAIN available'[r] :
          c \in PoolBlocks /\ c.m_segment = r /\ available'[r][c] = 1
    BY <1>3 DEF PoolsAreBags, BagToSet
  <2> QED
    BY <1>2, <1>3, <1>4, <2>1, <2>2, <2>3
    DEF PointersInv, PoolsGetBackWhatTheyGave, BagToSet
<1>8. OnlyExceptionsLeak'
  <2>1. \E r \in Pools : b \in DOMAIN available'[r]
    BY <1>3, BlocksOfSegments
  <2>2. \A r \in Pools : DOMAIN available[r] \subseteq DOMAIN available'[r]
    BY <1>3
  <2> QED
    BY <1>2, <1>3, <1>4, <1>5, <2>1, <2>2
    DEF PointersInv, OnlyExceptionsLeak, BagIn, BagToSet
<1>9. UniquePtrsHaveBlocks' /\ UserAllocationsAreAlive' /\ DevicePtrFollowsPtr'
  BY <1>2, <1>3, <1>5 DEF PointersInv, UniquePtrsHaveBlocks, UserAllocationsAreAlive,
      DevicePtrFollowsPtr
<1> QED
  BY <1>6, <1>7, <1>8, <1>9 DEF PointersInv

(* heap::free of a user_allocation: it is deleted, for the first time.     *)
LEMMA FreeUserStep ==
  ASSUME PointersInv, FreesMoved = FALSE, NEW p \in Variables, Free(p),
         NEW x \in UserAllocations, ptr[p] \in UserBlocks(x)
  PROVE  PointersInv'
<1>1. PICK b \in UserBlocks(x) : b = ptr[p]
  OBVIOUS
<1>2. /\ b \in owned
      /\ release(b)
      /\ owned' = owned \ {b}
      /\ UNCHANGED <<ptr, const_ptr, unique, allocator, leaked>>
  BY <1>1 DEF Free, release, PushTo, Delete, poolVars
<1>3. available' = available /\ users' = [users EXCEPT ![x] = "none"]
  BY <1>2, ReleaseUser
<1>4. InUniquePtrs' = InUniquePtrs
  BY <1>2 DEF InUniquePtrs
<1>5. /\ b \notin PoolBlocks
      /\ \A y \in UserAllocations : y # x => b \notin UserBlocks(y)
  BY BlocksOfSegments, BlocksOfUsers, PointersAssumption
<1>6. UserBlocks(x) \cap owned' = {}
  BY <1>2 DEF PointersInv, UserAllocationsAreAlive
<1>7. TypeOK'
  BY <1>2, <1>3 DEF PointersInv, TypeOK, IsABag, BagToSet
<1>8. PoolsGetBackWhatTheyGave'
  BY <1>2, <1>3, <1>4 DEF PointersInv, TypeOK, PoolsGetBackWhatTheyGave, BagToSet
<1>9. OnlyExceptionsLeak'
  BY <1>2, <1>3, <1>4, <1>5
  DEF PointersInv, TypeOK, OnlyExceptionsLeak, BagIn, BagToSet
<1>10. UserAllocationsAreAlive'
  BY <1>2, <1>3, <1>5, <1>6 DEF PointersInv, TypeOK, UserAllocationsAreAlive
<1>11. UniquePtrsHaveBlocks' /\ DevicePtrFollowsPtr'
  BY <1>2 DEF PointersInv, UniquePtrsHaveBlocks, DevicePtrFollowsPtr
<1> QED
  BY <1>7, <1>8, <1>9, <1>10, <1>11 DEF PointersInv

LEMMA FreeStep ==
  ASSUME PointersInv, FreesMoved = FALSE, NEW p \in Variables, Free(p)
  PROVE  PointersInv'
<1>1. ptr[p] \in PoolBlocks \cup UNION {UserBlocks(x) : x \in UserAllocations}
  BY DEF Free, PointersInv, TypeOK
<1>2. CASE ptr[p] \in PoolBlocks
  BY <1>2, FreeBlockStep
<1>3. CASE \E x \in UserAllocations : ptr[p] \in UserBlocks(x)
  BY <1>3, FreeUserStep
<1> QED
  BY <1>1, <1>2, <1>3

(* A unique_ptr gives its block back before it becomes null, or takes over *)
(* the block of another one.                                               *)
LEMMA ResetStep ==
  ASSUME PointersInv, NEW u \in UniquePtrs, Reset(u)
  PROVE  PointersInv'
<1>1. /\ heap_delete(unique[u])
      /\ unique' = [unique EXCEPT ![u] = NullPtr]
      /\ UNCHANGED <<ptr, const_ptr, allocator, owned, leaked>>
  BY DEF Reset, clientVars
<1>2. /\ PoolsAreBags(available')
      /\ users' = users
      /\ \A r \in Pools : DOMAIN available'[r] =
           IF unique[u] # NullPtr /\ r = unique[u].m_segment
             THEN DOMAIN available[r] \cup {unique[u]}
             ELSE DOMAIN available[r]
  BY <1>1, DeleteStep DEF BagToSet
<1>3. /\ unique'[u] = NullPtr
      /\ \A v \in UniquePtrs \ {u} : unique'[v] = unique[v]
      /\ unique' \in [UniquePtrs -> block_t]
  BY <1>1, NullIsBlock DEF PointersInv, TypeOK
<1>4. InUniquePtrs' = InUniquePtrs \ {unique[u]}
  BY <1>3 DEF InUniquePtrs, PointersInv, PoolsGetBackWhatTheyGave
<1>5. TypeOK'
  BY <1>1, <1>2, <1>3, BlocksOfSegments
  DEF PointersInv, TypeOK, PoolsAreBags, IsABag, BagToSet
<1>6. PoolsGetBackWhatTheyGave'
  <2>1. \A v, w \in UniquePtrs : unique'[v] = unique'[w] => v = w \/ unique'[v] = NullPtr
    BY <1>3 DEF PointersInv, PoolsGetBackWhatTheyGave
  <2>2. unique[u] # NullPtr => unique[u] \notin owned' \cup InUniquePtrs'
    BY <1>1, <1>4 DEF InUniquePtrs, PointersInv, PoolsGetBackWhatTheyGave
  <2>3. \A r \in Pools : \A c \in DOMAIN available'[r] :
          (c = unique[u] /\ unique[u] # NullPtr) \/ c \in DOMAIN available[r]
    BY <1>2
  <2>4. \A r \in Pools : \A c \in DOMAIN available'[r] :
          c \in PoolBlocks /\ c.m_segment = r /\ available'[r][c] = 1
    BY <1>2 DEF PoolsAreBags, BagToSet
  <2> QED
    BY <1>1, <1>2, <1>4, <2>1, <2>2, <2>3, <2>4
    DEF PointersInv, PoolsGetBackWhatTheyGave, BagToSet
<1>7. OnlyExceptionsLeak'
  <2>1. unique[u] # NullPtr => \E r \in Pools : unique[u] \in DOMAIN available'[r]
    BY <1>2, BlocksOfSegments DEF PointersInv, UniquePtrsHaveBlocks
  <2>2. NullPtr \notin PoolBlocks
    BY BlocksOfSegments
  <2>3. \A r \in Pools : DOMAIN available[r] \subseteq DOMAIN available'[r]
    BY <1>2
  <2>4. ASSUME NEW c \in PoolBlocks
        PROVE  \/ c \in owned' \cup InUniquePtrs' \cup leaked'
               \/ \E r \in Pools : c \in DOMAIN available'[r]
    <3>1. \/ c \in owned \cup InUniquePtrs \cup leaked
          \/ \E r \in Pools : c \in DOMAIN available[r]
      BY DEF PointersInv, OnlyExceptionsLeak, BagIn, BagToSet
    <3> QED
      BY <1>1, <1>4, <2>1, <2>2, <2>3, <3>1
  <2>5. \A x \in UserAllocations :
          users'[x] = "alive" => UserBlocks(x) \cap (owned' \cup leaked') # {}
    BY <1>1, <1>2 DEF PointersInv, OnlyExceptionsLeak
  <2> QED
    BY <2>4, <2>5
    DEF OnlyExceptionsLeak, BagIn, BagToSet
<1>8. UniquePtrsHaveBlocks' /\ UserAllocationsAreAlive' /\ DevicePtrFollowsPtr'
  BY <1>1, <1>2, <1>3 DEF PointersInv, UniquePtrsHaveBlocks, UserAllocationsAreAlive,
      DevicePtrFollowsPtr
<1> QED
  BY <1>5, <1>6, <1>7, <1>8 DEF PointersInv

LEMMA MoveStep ==
  ASSUME PointersInv, NEW u \in UniquePtrs, NEW v \in UniquePtrs, Move(u, v)
  PROVE  PointersInv'
<1>1. /\ u # v
      /\ heap_delete(unique[v])
      /\ unique' = [unique EXCEPT ![v] = unique[u], ![u] = NullPtr]
      /\ UNCHANGED <<ptr, const_ptr, allocator, owned, leaked>>
  BY DEF Move, clientVars
<1>2. /\ PoolsAreBags(available')
      /\ users' = users
      /\ \A r \in Pools : DOMAIN available'[r] =
           IF unique[v] # NullPtr /\ r = unique[v].m_segment
             THEN DOMAIN available[r] \cup {unique[v]}
             ELSE DOMAIN available[r]
  BY <1>1, DeleteStep DEF BagToSet
<1>3. /\ unique'[u] = NullPtr
      /\ unique'[v] = unique[u]
      /\ \A w \in UniquePtrs \ {u, v} : unique'[w] = unique[w]
      /\ unique' \in [UniquePtrs -> block_t]
  BY <1>1, NullIsBlock DEF PointersInv, TypeOK
<1>4. InUniquePtrs' = InUniquePtrs \ {unique[v]}
  BY <1>1, <1>3 DEF InUniquePtrs, PointersInv, PoolsGetBackWhatTheyGave
<1>5. TypeOK'
  BY <1>1, <1>2, <1>3, BlocksOfSegments
  DEF PointersInv, TypeOK, PoolsAreBags, IsABag, BagToSet
<1>6. PoolsGetBackWhatTheyGave'
  <2>1. \A w, z \in UniquePtrs : unique'[w] = unique'[z] => w = z \/ unique'[w] = NullPtr
    BY <1>1, <1>3 DEF PointersInv, PoolsGetBackWhatTheyGave
  <2>2. unique[v] # NullPtr => unique[v] \notin owned' \cup InUniquePtrs'
    <3>1. unique[v] # NullPtr => unique[v] \in InUniquePtrs
      BY DEF InUniquePtrs
    <3> QED
      BY <1>1, <1>4, <3>1 DEF PointersInv, PoolsGetBackWhatTheyGave
  <2>3. \A r \in Pools : \A c \in DOMAIN available'[r] :
          (c = unique[v] /\ unique[v] # NullPtr) \/ c \in DOMAIN available[r]
    BY <1>2
  <2>4. \A r \in Pools : \A c \in DOMAIN available'[r] :
          c \in PoolBlocks /\ c.m_segment = r /\ available'[r][c] = 1
    BY <1>2 DEF PoolsAreBags, BagToSet
  <2> QED
    BY <1>1, <1>2, <1>4, <2>1, <2>2, <2>3, <2>4
    DEF PointersInv, PoolsGetBackWhatTheyGave, BagToSet
<1>7. OnlyExceptionsLeak'
  <2>1. unique[v] # NullPtr => \E r \in Pools : unique[v] \in DOMAIN available'[r]
    BY <1>2, BlocksOfSegments DEF PointersInv, UniquePtrsHaveBlocks
  <2>2. NullPtr \notin PoolBlocks
    BY BlocksOfSegments
  <2>3. \A r \in Pools : DOMAIN available[r] \subseteq DOMAIN available'[r]
    BY <1>2
  <2>4. ASSUME NEW c \in PoolBlocks
        PROVE  \/ c \in owned' \cup InUniquePtrs' \cup leaked'
               \/ \E r \in Pools : c \in DOMAIN available'[r]
    <3>1. \/ c \in owned \cup InUniquePtrs \cup leaked
          \/ \E r \in Pools : c \in DOMAIN available[r]
      BY DEF PointersInv, OnlyExceptionsLeak, BagIn, BagToSet
    <3> QED
      BY <1>1, <1>4, <2>1, <2>2, <2>3, <3>1
  <2>5. \A x \in UserAllocations :
          users'[x] = "alive" => UserBlocks(x) \cap (owned' \cup leaked') # {}
    BY <1>1, <1>2 DEF PointersInv, OnlyExceptionsLeak
  <2> QED
    BY <2>4, <2>5
    DEF OnlyExceptionsLeak, BagIn, BagToSet
<1>8. UniquePtrsHaveBlocks' /\ UserAllocationsAreAlive' /\ DevicePtrFollowsPtr'
  BY <1>1, <1>2, <1>3 DEF PointersInv, UniquePtrsHaveBlocks, UserAllocationsAreAlive,
      DevicePtrFollowsPtr
<1> QED
  BY <1>5, <1>6, <1>7, <1>8 DEF PointersInv

(* A pointer that never pointed to anything is released without effect.    *)
LEMMA FreeNullStep ==
  ASSUME PointersInv, FreesReset = FALSE, NEW p \in Variables, FreeNull(p)
  PROVE  UNCHANGED vars
<1>1. ptr[p] = NullPtr
  BY DEF FreeNull
<1>2. UNCHANGED poolVars
  BY <1>1 DEF FreeNull, release, NullPtr
<1> QED
  BY <1>2 DEF FreeNull, vars

-----------------------------------------------------------------------------
(* The steps that touch no pool                                            *)

(* A new user_allocation: the pointer to it is the only one to free.       *)
LEMMA RegisterStep ==
  ASSUME PointersInv, NEW p \in Variables, NEW kind \in UserKinds,
         RegisterUserAllocation(p, kind)
  PROVE  PointersInv'
<1>1. PICK x \in UserAllocations :
        /\ users[x] = "none"
        /\ users' = [users EXCEPT ![x] = "alive"]
        /\ ptr' = [ptr EXCEPT ![p] = UserBlock(x, kind)]
        /\ owned' = owned \cup {UserBlock(x, kind)}
  BY DEF RegisterUserAllocation
<1>2. PICK b \in UserBlocks(x) : b = UserBlock(x, kind)
  BY DEF UserBlocks
<1>3. UNCHANGED <<available, const_ptr, unique, allocator, leaked>>
  BY DEF RegisterUserAllocation
<1>4. InUniquePtrs' = InUniquePtrs
  BY <1>3 DEF InUniquePtrs
<1>5. /\ b \notin PoolBlocks
      /\ b # NullPtr
      /\ \A y \in UserAllocations : y # x => b \notin UserBlocks(y)
  BY BlocksOfSegments, BlocksOfUsers, PointersAssumption
<1>6. UserBlocks(x) \cap owned = {}
  BY <1>1 DEF PointersInv, UserAllocationsAreAlive
<1>7. ptr' \in [Variables -> block_t] /\ DevicePtrFollowsPtr'
  BY <1>1, <1>2, <1>3, PointerIsSet, BlocksOfUsers
<1>8. TypeOK'
  BY <1>1, <1>2, <1>3, <1>7 DEF PointersInv, TypeOK, IsABag, BagToSet
<1>9. PoolsGetBackWhatTheyGave'
  <2>1. b \notin InUniquePtrs
    BY <1>5 DEF InUniquePtrs, PointersInv, UniquePtrsHaveBlocks
  <2> QED
    BY <1>1, <1>2, <1>3, <1>4, <1>5, <2>1
    DEF PointersInv, TypeOK, PoolsGetBackWhatTheyGave, BagToSet
<1>10. OnlyExceptionsLeak'
  BY <1>1, <1>2, <1>3, <1>4
  DEF PointersInv, TypeOK, OnlyExceptionsLeak, BagIn, BagToSet
<1>11. UserAllocationsAreAlive'
  BY <1>1, <1>2, <1>5, <1>6 DEF PointersInv, TypeOK, UserAllocationsAreAlive
<1>12. UniquePtrsHaveBlocks'
  BY <1>3 DEF PointersInv, UniquePtrsHaveBlocks
<1> QED
  BY <1>7, <1>8, <1>9, <1>10, <1>11, <1>12 DEF PointersInv

(* One whose get_handle throws: nobody has a pointer to it.                *)
LEMMA GetHandleThrowsStep ==
  ASSUME PointersInv, NEW kind \in UserKinds, GetHandleThrows(kind)
  PROVE  PointersInv'
<1>1. PICK x \in UserAllocations :
        /\ users[x] = "none"
        /\ users' = [users EXCEPT ![x] = "alive"]
        /\ leaked' = leaked \cup {UserBlock(x, kind)}
  BY DEF GetHandleThrows
<1>2. PICK b \in UserBlocks(x) : b = UserBlock(x, kind)
  BY DEF UserBlocks
<1>3. UNCHANGED <<available, ptr, const_ptr, unique, allocator, owned>>
  BY DEF GetHandleThrows
<1>4. InUniquePtrs' = InUniquePtrs
  BY <1>3 DEF InUniquePtrs
<1>5. TypeOK'
  BY <1>1, <1>2, <1>3 DEF PointersInv, TypeOK, IsABag, BagToSet
<1>6. PoolsGetBackWhatTheyGave'
  BY <1>1, <1>3, <1>4 DEF PointersInv, TypeOK, PoolsGetBackWhatTheyGave, BagToSet
<1>7. OnlyExceptionsLeak'
  BY <1>1, <1>2, <1>3, <1>4
  DEF PointersInv, TypeOK, OnlyExceptionsLeak, BagIn, BagToSet
<1>8. UserAllocationsAreAlive'
  BY <1>1, <1>3 DEF PointersInv, TypeOK, UserAllocationsAreAlive
<1>9. UniquePtrsHaveBlocks' /\ DevicePtrFollowsPtr'
  BY <1>3 DEF PointersInv, UniquePtrsHaveBlocks, DevicePtrFollowsPtr
<1> QED
  BY <1>5, <1>6, <1>7, <1>8, <1>9 DEF PointersInv

(* Copies, resets and arithmetic change pointers, and assignments and      *)
(* swaps allocators, but never what there is to release.                   *)
LEMMA PointerStep ==
  ASSUME PointersInv, UNCHANGED <<poolVars, unique, clientVars>>,
         ptr' \in [Variables -> block_t], const_ptr' \in [ConstVariables -> block_t],
         allocator' \in [Allocators -> Pools], DevicePtrFollowsPtr'
  PROVE  PointersInv'
<1> USE DEF poolVars, clientVars
<1>1. InUniquePtrs' = InUniquePtrs
  BY DEF InUniquePtrs
<1>2. TypeOK'
  BY DEF PointersInv, TypeOK, IsABag, BagToSet
<1>3. PoolsGetBackWhatTheyGave'
  BY <1>1 DEF PointersInv, PoolsGetBackWhatTheyGave, BagToSet
<1>4. OnlyExceptionsLeak'
  BY <1>1 DEF PointersInv, OnlyExceptionsLeak, BagIn, BagToSet
<1>5. UniquePtrsHaveBlocks' /\ UserAllocationsAreAlive'
  BY DEF PointersInv, UniquePtrsHaveBlocks, UserAllocationsAreAlive
<1> QED
  BY <1>2, <1>3, <1>4, <1>5 DEF PointersInv

(* The block b with its pointers moved by n                                *)
IsMovedBy(c, b, n) == c = [b EXCEPT !.m_ptr = @ + n, !.m_device_ptr = OnDevice(@, n)]

(* Each arithmetic operator moves both pointers by the same distance.      *)
LEMMA OperatorsMove ==
  ASSUME NEW b \in block_t, NEW n \in Int,
         NEW c \in {pre_increment(b), post_increment(b), plus_assign(b, n), plus(b, n),
                    pre_decrement(b), post_decrement(b), minus_assign(b, n), minus(b, n)}
  PROVE  \E m \in Int : IsMovedBy(c, b, m)
<1>1. b.m_ptr \in Int
  BY DEF block_t
<1>2. CASE c \in {pre_increment(b), post_increment(b)}
  <2>1. IsMovedBy(c, b, 1)
    BY <1>2 DEF IsMovedBy, pre_increment, post_increment
  <2> QED
    BY <2>1
<1>3. CASE c \in {plus_assign(b, n), plus(b, n)}
  <2>1. IsMovedBy(c, b, n)
    BY <1>3 DEF IsMovedBy, plus_assign, plus
  <2> QED
    BY <2>1
<1>4. CASE c \in {pre_decrement(b), post_decrement(b)}
  <2>1. b.m_ptr - 1 = b.m_ptr + (-1)
    BY <1>1
  <2>2. c = [b EXCEPT !.m_ptr = b.m_ptr - 1, !.m_device_ptr = OnDevice(b.m_device_ptr, -1)]
    BY <1>4 DEF pre_decrement, post_decrement
  <2>3. IsMovedBy(c, b, -1)
    BY <2>1, <2>2 DEF IsMovedBy
  <2> QED
    BY <2>3
<1>5. CASE c \in {minus_assign(b, n), minus(b, n)}
  <2>1. b.m_ptr - n = b.m_ptr + (-n) /\ -n \in Int
    BY <1>1
  <2>2. c = [b EXCEPT !.m_ptr = b.m_ptr - n, !.m_device_ptr = OnDevice(b.m_device_ptr, -n)]
    BY <1>5 DEF minus_assign, minus
  <2>3. IsMovedBy(c, b, -n)
    BY <2>1, <2>2 DEF IsMovedBy
  <2> QED
    BY <2>1, <2>3
<1> QED
  BY <1>2, <1>3, <1>4, <1>5

(* Moving both, or one if there is no device memory, keeps them together.  *)
LEMMA MovedBlock ==
  ASSUME NEW b \in block_t, NEW n \in Int, NEW c, IsMovedBy(c, b, n),
         b.m_ptr # nullptr,
         b.m_device_ptr # nullptr => b.m_device_ptr = b.m_ptr + DeviceOffset
  PROVE  /\ c \in block_t
         /\ c.m_device_ptr # nullptr => c.m_device_ptr = c.m_ptr + DeviceOffset
<1>1. DeviceOffset \in Int
  <2>1. (NumBlocks + 2 - 1) * BlockElements \in Nat
    BY PointersAssumption
  <2> QED
    BY <2>1, PointersAssumption DEF Start, DeviceOffset
<1>2. /\ b.m_segment \in Pools \cup {NoSegment}
      /\ b.m_user_allocation \in UserAllocations \cup {NoUserAllocation}
      /\ b.m_ptr \in Int
      /\ b.m_handle \in 0..(NumBlocks + 1)
      /\ b.m_device_ptr \in Int
  BY DEF block_t
<1>3. PICK d \in Int :
        /\ d = OnDevice(b.m_device_ptr, n)
        /\ d = IF b.m_device_ptr = nullptr THEN nullptr ELSE b.m_device_ptr + n
  BY <1>2 DEF OnDevice, nullptr
<1>4. c = [m_segment |-> b.m_segment, m_user_allocation |-> b.m_user_allocation,
           m_ptr |-> b.m_ptr + n, m_handle |-> b.m_handle, m_device_ptr |-> d]
  <2>1. b = [m_segment |-> b.m_segment, m_user_allocation |-> b.m_user_allocation,
             m_ptr |-> b.m_ptr, m_handle |-> b.m_handle, m_device_ptr |-> b.m_device_ptr]
    BY DEF block_t
  <2>2. c = [b EXCEPT !.m_ptr = b.m_ptr + n, !.m_device_ptr = d]
    BY <1>3, Zenon DEF IsMovedBy
  <2> QED
    BY <2>1, <2>2
<1>5. c \in block_t
  BY <1>2, <1>4 DEF block_t
<1>6. c.m_ptr = b.m_ptr + n /\ c.m_device_ptr = d
  BY <1>4
<1> QED
  BY <1>1, <1>2, <1>3, <1>5, <1>6

(* A pointer is set to what an arithmetic operator makes of another one.   *)
LEMMA ArithmeticStep ==
  ASSUME PointersInv, NEW p \in Variables, NEW q \in Variables,
         ptr[q].m_ptr # nullptr, NEW n \in Int,
         NEW b \in {pre_increment(ptr[q]), post_increment(ptr[q]),
                    plus_assign(ptr[q], n), plus(ptr[q], n),
                    pre_decrement(ptr[q]), post_decrement(ptr[q]),
                    minus_assign(ptr[q], n), minus(ptr[q], n)},
         ptr' = [ptr EXCEPT ![p] = b],
         UNCHANGED <<poolVars, const_ptr, unique, allocator, clientVars>>
  PROVE  PointersInv'
<1>1. PICK c \in block_t : c = ptr[q]
  BY DEF PointersInv, TypeOK
<1>2. c.m_device_ptr # nullptr => c.m_device_ptr = c.m_ptr + DeviceOffset
  BY <1>1 DEF PointersInv, DevicePtrFollowsPtr
<1>3. PICK m \in Int : IsMovedBy(b, c, m)
  BY <1>1, OperatorsMove
<1>4. /\ b \in block_t
      /\ b.m_device_ptr # nullptr => b.m_device_ptr = b.m_ptr + DeviceOffset
  BY <1>1, <1>2, <1>3, MovedBlock
<1>5. ptr' \in [Variables -> block_t] /\ DevicePtrFollowsPtr'
  BY <1>4, PointerIsSet
<1> QED
  BY <1>5, PointerStep DEF PointersInv, TypeOK

LEMMA ClientStep ==
  ASSUME PointersInv,
         \/ \E p, q \in Variables : Copy(p, q)
         \/ \E p \in Variables : AssignNull(p)
         \/ \E p \in Variables : Arithmetic(p)
         \/ \E p, q \in Variables : AssignSum(p, q)
         \/ \E c \in ConstVariables, p \in Variables : CopyToConst(c, p)
         \/ \E c \in ConstVariables : AssignNullConst(c)
         \/ \E a, b \in Allocators : AssignAllocator(a, b) \/ SwapAllocators(a, b)
  PROVE  PointersInv'
<1>1. /\ ptr \in [Variables -> block_t]
      /\ const_ptr \in [ConstVariables -> block_t]
      /\ allocator \in [Allocators -> Pools]
      /\ DevicePtrFollowsPtr
  BY DEF PointersInv, TypeOK
<1>2. ASSUME NEW b \in block_t
      PROVE  [b EXCEPT !.m_ptr = nullptr] \in block_t
             /\ [b EXCEPT !.m_ptr = nullptr].m_ptr = nullptr
  BY DEF block_t, nullptr
<1>3. ASSUME NEW p \in Variables, NEW q \in Variables, Copy(p, q) PROVE PointersInv'
  <2>1. PICK b \in block_t : b = ptr[q]
    BY <1>1
  <2>2. /\ ptr' = [ptr EXCEPT ![p] = b]
        /\ UNCHANGED <<poolVars, const_ptr, unique, allocator, clientVars>>
    BY <1>3, <2>1 DEF Copy
  <2>3. b.m_ptr # nullptr /\ b.m_device_ptr # nullptr =>
          b.m_device_ptr = b.m_ptr + DeviceOffset
    BY <1>1, <2>1 DEF DevicePtrFollowsPtr
  <2> QED
    BY <1>1, <2>2, <2>3, PointerIsSet, PointerStep
<1>4. ASSUME NEW p \in Variables, AssignNull(p) PROVE PointersInv'
  <2>1. PICK b \in block_t : b = [ptr[p] EXCEPT !.m_ptr = nullptr]
    BY <1>1, <1>2
  <2>2. /\ ptr' = [ptr EXCEPT ![p] = b]
        /\ UNCHANGED <<poolVars, const_ptr, unique, allocator, clientVars>>
    BY <1>4, <2>1 DEF AssignNull
  <2>3. b.m_ptr = nullptr
    BY <1>1, <1>2, <2>1
  <2> QED
    BY <1>1, <2>2, <2>3, PointerIsSet, PointerStep
<1>5. ASSUME NEW p \in Variables, Arithmetic(p) PROVE PointersInv'
  <2>0. PICK n \in Int :
          \E b \in {pre_increment(ptr[p]), post_increment(ptr[p]), plus_assign(ptr[p], n),
                    pre_decrement(ptr[p]), post_decrement(ptr[p]),
                    minus_assign(ptr[p], n)} : ptr' = [ptr EXCEPT ![p] = b]
    BY <1>5, PointersAssumption DEF Arithmetic
  <2>1. PICK b \in {pre_increment(ptr[p]), post_increment(ptr[p]), plus_assign(ptr[p], n),
                   pre_decrement(ptr[p]), post_decrement(ptr[p]),
                   minus_assign(ptr[p], n)} : ptr' = [ptr EXCEPT ![p] = b]
    BY <2>0
  <2>2. /\ ptr[p].m_ptr # nullptr
        /\ UNCHANGED <<poolVars, const_ptr, unique, allocator, clientVars>>
    BY <1>5 DEF Arithmetic
  <2> QED
    BY <2>1, <2>2, ArithmeticStep
<1>6. ASSUME NEW c \in ConstVariables, NEW p \in Variables, CopyToConst(c, p)
      PROVE  PointersInv'
  <2>1. /\ const_ptr' \in [ConstVariables -> block_t]
        /\ \A d \in ConstVariables : const_ptr'[d] = ptr[p] \/ const_ptr'[d] = const_ptr[d]
        /\ UNCHANGED <<poolVars, ptr, unique, allocator, clientVars>>
    BY <1>1, <1>6 DEF CopyToConst
  <2>2. DevicePtrFollowsPtr'
    BY <1>1, <2>1 DEF DevicePtrFollowsPtr
  <2> QED
    BY <1>1, <2>1, <2>2, PointerStep
<1>7. ASSUME NEW c \in ConstVariables, AssignNullConst(c) PROVE PointersInv'
  <2>1. PICK b \in block_t : b = [const_ptr[c] EXCEPT !.m_ptr = nullptr]
    BY <1>1, <1>2
  <2>2. /\ const_ptr' = [const_ptr EXCEPT ![c] = b]
        /\ UNCHANGED <<poolVars, ptr, unique, allocator, clientVars>>
    BY <1>7, <2>1 DEF AssignNullConst
  <2>3. b.m_ptr = nullptr
    BY <1>1, <1>2, <2>1
  <2>4. /\ const_ptr' \in [ConstVariables -> block_t]
        /\ \A d \in ConstVariables : const_ptr'[d] = b \/ const_ptr'[d] = const_ptr[d]
    BY <1>1, <2>2
  <2>5. DevicePtrFollowsPtr'
    BY <1>1, <2>2, <2>3, <2>4 DEF DevicePtrFollowsPtr
  <2> QED
    BY <1>1, <2>2, <2>4, <2>5, PointerStep
<1>8. ASSUME NEW a \in Allocators, NEW b \in Allocators,
             AssignAllocator(a, b) \/ SwapAllocators(a, b)
      PROVE  PointersInv'
  <2>1. /\ allocator' \in [Allocators -> Pools]
        /\ UNCHANGED <<poolVars, ptr, const_ptr, unique, clientVars>>
    BY <1>1, <1>8 DEF AssignAllocator, SwapAllocators
  <2>2. DevicePtrFollowsPtr'
    BY <1>1, <2>1 DEF DevicePtrFollowsPtr
  <2> QED
    BY <1>1, <2>1, <2>2, PointerStep
<1>9. ASSUME NEW p \in Variables, NEW q \in Variables, AssignSum(p, q)
      PROVE  PointersInv'
  <2>0. PICK n \in Int :
          \E b \in {plus(ptr[q], n), minus(ptr[q], n)} : ptr' = [ptr EXCEPT ![p] = b]
    BY <1>9, PointersAssumption DEF AssignSum
  <2>1. PICK b \in {plus(ptr[q], n), minus(ptr[q], n)} : ptr' = [ptr EXCEPT ![p] = b]
    BY <2>0
  <2>2. /\ ptr[q].m_ptr # nullptr
        /\ UNCHANGED <<poolVars, const_ptr, unique, allocator, clientVars>>
    BY <1>9 DEF AssignSum
  <2> QED
    BY <2>1, <2>2, ArithmeticStep
<1> QED
  BY <1>3, <1>4, <1>5, <1>6, <1>7, <1>8, <1>9

-----------------------------------------------------------------------------
(* The inductive invariant                                                 *)

(* At first all blocks are in their pools.                                 *)
LEMMA InitPointersInv == Init => PointersInv
<1> SUFFICES ASSUME Init PROVE PointersInv
  OBVIOUS
<1>1. /\ DOMAIN available = Pools
      /\ \A q \in Pools : available[q] =
           SetToBag({BlockOf(k) : k \in {k \in 1..NumBlocks : PoolOf[k] = q}})
  BY DEF Init
<1>2. ASSUME NEW q \in Pools
      PROVE  /\ DOMAIN available[q] =
                  {BlockOf(k) : k \in {k \in 1..NumBlocks : PoolOf[k] = q}}
             /\ \A b \in DOMAIN available[q] : available[q][b] = 1
             /\ available[q] \in [DOMAIN available[q] -> {n \in Nat : n > 0}]
  <2>1. PICK S, B : /\ S = {BlockOf(k) : k \in {k \in 1..NumBlocks : PoolOf[k] = q}}
                    /\ B = available[q]
    OBVIOUS
  <2>2. B = [e \in S |-> 1]
    BY <1>1, <2>1 DEF SetToBag
  <2>3. DOMAIN B = S /\ (\A b \in S : B[b] = 1) /\ B \in [S -> {n \in Nat : n > 0}]
    BY <2>2
  <2> QED
    BY <2>1, <2>3
<1>3. \A q \in Pools : \A b \in DOMAIN available[q] : b \in PoolBlocks /\ b.m_segment = q
  BY <1>2 DEF PoolBlocks, BlockOf
<1>4. \A b \in PoolBlocks : \E q \in Pools : b \in DOMAIN available[q]
  BY <1>2, PointersAssumption DEF PoolBlocks
<1>5. /\ users = [x \in UserAllocations |-> "none"]
      /\ ptr = [p \in Variables |-> NullPtr]
      /\ const_ptr = [c \in ConstVariables |-> NullPtr]
      /\ unique = [u \in UniquePtrs |-> NullPtr]
      /\ allocator \in [Allocators -> Pools]
      /\ owned = {}
      /\ leaked = {}
  BY DEF Init
<1>6. InUniquePtrs = {}
  BY <1>5 DEF InUniquePtrs
<1>7. TypeOK
  <2>1. \A q \in Pools : IsABag(available[q])
    BY <1>2 DEF IsABag
  <2>2. \A q \in Pools : \A b \in BagToSet(available[q]) : b.m_segment \in Pools
    BY <1>3 DEF BagToSet
  <2> QED
    BY <1>1, <1>5, <2>1, <2>2, NullIsBlock DEF TypeOK
<1>8. PoolsGetBackWhatTheyGave
  BY <1>2, <1>3, <1>5, <1>6 DEF PoolsGetBackWhatTheyGave, BagToSet
<1>9. OnlyExceptionsLeak
  BY <1>4, <1>5 DEF OnlyExceptionsLeak, BagIn, BagToSet
<1>10. DevicePtrFollowsPtr
  BY <1>5 DEF DevicePtrFollowsPtr, NullPtr
<1>11. UniquePtrsHaveBlocks /\ UserAllocationsAreAlive
  BY <1>5 DEF UniquePtrsHaveBlocks, UserAllocationsAreAlive
<1> QED
  BY <1>7, <1>8, <1>9, <1>10, <1>11 DEF PointersInv

(* No step breaks the invariant, if clients free no pointer they have set  *)
(* to nullptr or moved along.                                              *)
LEMMA NextPointersInv ==
  ASSUME FreesReset = FALSE, FreesMoved = FALSE, PointersInv, [Next]_vars
  PROVE  PointersInv'
<1>1. ASSUME UNCHANGED vars PROVE PointersInv'
  <2>1. DevicePtrFollowsPtr'
    BY <1>1 DEF vars, PointersInv, DevicePtrFollowsPtr
  <2> QED
    BY <1>1, <2>1, PointerStep DEF vars, PointersInv, TypeOK
<1>2. ASSUME NEW p \in Variables, NEW a \in Allocators, AllocatorAllocate(a, p)
      PROVE  PointersInv'
  <2>1. PICK q \in Pools : q = allocator[a]
    BY DEF PointersInv, TypeOK
  <2>2. Allocate(p, q)
    BY <1>2, <2>1 DEF AllocatorAllocate, Allocate, Pop
  <2> QED
    BY <2>2, AllocateStep
<1>3. ASSUME NEW p \in Variables, NEW a \in Allocators, Deallocate(a, p)
      PROVE  PointersInv'
  BY <1>3, FreeStep DEF Deallocate
<1>4. ASSUME NEW p \in Variables, FreeNull(p) PROVE PointersInv'
  BY <1>1, <1>4, FreeNullStep
<1> QED
  BY <1>1, <1>2, <1>3, <1>4, AllocateStep, RegisterStep, ClientStep, FreeStep,
     GetHandleThrowsStep, MakeUniqueThrowsStep, MakeUniqueStep, ResetStep, MoveStep
  DEF Next

-----------------------------------------------------------------------------
(* Theorems                                                                *)

(* The inductive invariant: whatever clients, allocators and unique_ptrs   *)
(* can release was handed out, is as it was handed out, and has not been   *)
(* released since.                                                         *)
THEOREM PointersInvariant ==
  ASSUME FreesReset = FALSE, FreesMoved = FALSE
  PROVE  Spec => []PointersInv
<1>1. Init => PointersInv
  BY InitPointersInv
<1>2. PointersInv /\ [Next]_vars => PointersInv'
  BY NextPointersInv
<1> QED
  BY <1>1, <1>2, PTL DEF Spec

(* The types: pointers hold a block_t, and block_t::release puts only      *)
(* blocks of segments into the pools.                                      *)
THEOREM PointersTypeCorrect ==
  ASSUME FreesReset = FALSE, FreesMoved = FALSE
  PROVE  Spec => []TypeOK
<1>1. PointersInv => TypeOK
  BY DEF PointersInv
<1> QED
  BY <1>1, PointersInvariant, PTL

(* block_t::release, by whichever client, allocator or unique_ptr, gives   *)
(* each pool back what it gave, once; and no user_allocation is deleted    *)
(* twice.                                                                  *)
THEOREM PoolsGetBackTheorem ==
  ASSUME FreesReset = FALSE, FreesMoved = FALSE
  PROVE  Spec => []PoolsGetBackWhatTheyGave
<1>1. PointersInv => PoolsGetBackWhatTheyGave
  BY DEF PointersInv
<1> QED
  BY <1>1, PointersInvariant, PTL

(* Only an exception loses a block or a user_allocation.                   *)
THEOREM OnlyExceptionsLeakTheorem ==
  ASSUME FreesReset = FALSE, FreesMoved = FALSE
  PROVE  Spec => []OnlyExceptionsLeak
<1>1. PointersInv => OnlyExceptionsLeak
  BY DEF PointersInv
<1> QED
  BY <1>1, PointersInvariant, PTL

(* The device pointer of a hw_ptr follows its pointer through copies and   *)
(* arithmetic.                                                             *)
THEOREM DevicePtrTheorem ==
  ASSUME FreesReset = FALSE, FreesMoved = FALSE
  PROVE  Spec => []DevicePtrFollowsPtr
<1>1. PointersInv => DevicePtrFollowsPtr
  BY DEF PointersInv
<1> QED
  BY <1>1, PointersInvariant, PTL

=============================================================================
