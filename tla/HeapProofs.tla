----------------------------- MODULE HeapProofs -----------------------------
(***************************************************************************)
(* Proofs about modules HeapInstance and Heap, for any number of threads,  *)
(* any configuration and any requests: all threads use one heap, which has *)
(* a Context, and those that ask for the same huge size use one            *)
(* fixed_size_heap, that stays in the map; both mutexes are released.      *)
(*                                                                         *)
(* The invariant is in two parts.  InstanceInv is about get_instance, and  *)
(* what is beyond it, HeapInv, about the map that m_mutex protects.  What  *)
(* the sizes and the configuration are plays no role up to there.          *)
(*                                                                         *)
(* For environments and requests the arithmetic can handle there is more:  *)
(* every request is sent to the fixed_size_heap with the smallest blocks   *)
(* that will do, and its segments have blocks.  SizesInv is what is kept,  *)
(* and module SizeClassesProofs has the facts about the arithmetic.        *)
(***************************************************************************)
EXTENDS Heap, SizeClassesProofs

-----------------------------------------------------------------------------
(* get_instance                                                            *)

(* The heap a thread makes is not a null pointer.                          *)
LEMMA MadeIsAnInstance ==
  ASSUME NEW t \in Threads, NEW c, NEW g, NEW n
  PROVE  [made_by |-> t, m_context |-> c, m_config |-> g, m_max_size |-> n]
           # NoInstance
<1> DEFINE r == [made_by |-> t, m_context |-> c, m_config |-> g, m_max_size |-> n]
<1>1. r.made_by = t
  OBVIOUS
<1>2. NoInstance.made_by = NoThread
  BY DEF NoInstance
<1> QED BY <1>1, <1>2, HeapInstanceAssumption

(* The process starts without a heap, and with the mutex free.             *)
LEMMA InstanceInitInv == InstanceInit => InstanceInv
BY HeapInstanceAssumption
DEF InstanceInit, InstanceInv, InstanceTypeOK, InitMutexExcludes,
    CallersKnowTheHeap, InstanceHasContext

(* get_instance is called, with a context or by allocator().               *)
LEMMA GetInstanceInv ==
  ASSUME InstanceInv, NEW t \in Threads, NEW c \in Contexts \cup {NoContext},
         c = NoContext => returned,
         GetInstance(t, c)
  PROVE  InstanceInv'
BY HeapInstanceAssumption
DEF InstanceInv, InstanceTypeOK, InitMutexExcludes, CallersKnowTheHeap,
    InstanceHasContext, GetInstance, Advance, staticVars

(* heap_init_mutex_ is locked by one thread at a time.                     *)
LEMMA InitLockInv ==
  ASSUME InstanceInv, NEW t \in Threads, InitLock(t)
  PROVE  InstanceInv'
BY HeapInstanceAssumption
DEF InstanceInv, InstanceTypeOK, InitMutexExcludes, CallersKnowTheHeap,
    InstanceHasContext, InitLock, Advance, staticVars

(* There is a heap: the thread leaves get_instance with it.                *)
LEMMA InstanceFoundInv ==
  ASSUME InstanceInv, NEW t \in Threads, InstanceFound(t)
  PROVE  InstanceInv'
<1>1. /\ instance # NoInstance /\ instance' = instance
      /\ env' = env /\ default_config' = default_config
      /\ returned' = returned /\ init_mutex' = NoThread
      /\ heap' = [heap EXCEPT ![t] = instance]
      /\ stage[t] = "look" /\ stage' = [stage EXCEPT ![t] = "none"]
      /\ context' = [context EXCEPT ![t] = NoContext]
  BY DEF InstanceFound, LeaveGetInstance, Advance, staticVars
<1>2. instance.m_config = default_config
  BY <1>1 DEF InstanceInv, InstanceTypeOK
<1>3. InstanceTypeOK'
  BY <1>1, <1>2 DEF InstanceInv, InstanceTypeOK, NoInstance
<1>4. (heap \in [Threads -> {instance, NoInstance}])'
  BY <1>1 DEF InstanceInv, NoInstance
<1>5. InitMutexExcludes'
  BY <1>1, HeapInstanceAssumption DEF InstanceInv, InstanceTypeOK, InitMutexExcludes
<1>6. CallersKnowTheHeap'
  BY <1>1 DEF InstanceInv, InstanceTypeOK, CallersKnowTheHeap
<1>7. InstanceHasContext'
  BY <1>1 DEF InstanceInv, InstanceHasContext
<1> QED BY <1>3, <1>4, <1>5, <1>6, <1>7 DEF InstanceInv

(* There is none: the thread that makes it holds the mutex.                *)
LEMMA InstanceMissingInv ==
  ASSUME InstanceInv, NEW t \in Threads, InstanceMissing(t)
  PROVE  InstanceInv'
BY HeapInstanceAssumption
DEF InstanceInv, InstanceTypeOK, InitMutexExcludes, CallersKnowTheHeap,
    InstanceHasContext, InstanceMissing, Advance, staticVars

(* The static configuration is made, when no heap uses it yet.             *)
LEMMA GetDefaultConfigInv ==
  ASSUME InstanceInv, NEW t \in Threads, GetDefaultConfig(t)
  PROVE  InstanceInv'
<1>1. instance = NoInstance
  BY DEF InstanceInv, InitMutexExcludes, GetDefaultConfig, Advance
<1>2. \A u \in Threads : heap[u] = NoInstance
  BY <1>1 DEF InstanceInv
<1> QED
  BY <1>1, <1>2, HeapInstanceAssumption
  DEF InstanceInv, InstanceTypeOK, InitMutexExcludes, CallersKnowTheHeap,
      InstanceHasContext, GetDefaultConfig, Advance

(* An invalid environment makes the constructor throw: the lock_guard      *)
(* unlocks.                                                                *)
LEMMA DefaultConfigThrowsInv ==
  ASSUME InstanceInv, NEW t \in Threads, DefaultConfigThrows(t)
  PROVE  InstanceInv'
BY HeapInstanceAssumption
DEF InstanceInv, InstanceTypeOK, InitMutexExcludes, CallersKnowTheHeap,
    InstanceHasContext, DefaultConfigThrows, LeaveGetInstance, Advance, staticVars

(* The heap is made.  A thread without a context would not be here: it has *)
(* called when there was a heap.                                           *)
LEMMA MakeInstanceInv ==
  ASSUME InstanceInv, NEW t \in Threads, MakeInstance(t)
  PROVE  InstanceInv'
<1>1. instance = NoInstance /\ init_mutex = t /\ stage[t] = "make"
  BY DEF InstanceInv, InitMutexExcludes, MakeInstance, LeaveGetInstance, Advance
<1>2. \A u \in Threads : heap[u] = NoInstance
  BY <1>1 DEF InstanceInv
<1>3. context[t] # NoContext
  BY <1>1 DEF InstanceInv, CallersKnowTheHeap
<1>4. PICK n :
        instance' = [made_by |-> t, m_context |-> context[t],
                     m_config |-> default_config, m_max_size |-> n]
  BY DEF MakeInstance
<1>5. /\ instance' # NoInstance
      /\ instance'.m_context = context[t]
      /\ instance'.m_config = default_config
  BY <1>4, MadeIsAnInstance
<1>6. heap' = [heap EXCEPT ![t] = instance']
  BY DEF MakeInstance
<1>7. /\ env' = env /\ default_config' = default_config
      /\ returned' = TRUE /\ init_mutex' = NoThread
      /\ stage' = [stage EXCEPT ![t] = "none"]
      /\ context' = [context EXCEPT ![t] = NoContext]
  BY DEF MakeInstance, LeaveGetInstance, Advance
<1>8. \A u \in Threads : stage'[u] \notin {"look", "config", "make"}
  BY <1>1, <1>7 DEF InstanceInv, InstanceTypeOK, InitMutexExcludes
<1>9. NoInstance' = NoInstance
  BY DEF NoInstance
<1>10. InstanceTypeOK'
  BY <1>2, <1>5, <1>6, <1>7, <1>9 DEF InstanceInv, InstanceTypeOK
<1>11. (heap \in [Threads -> {instance, NoInstance}])'
  BY <1>2, <1>6, <1>9 DEF InstanceInv
<1>12. InitMutexExcludes'
  BY <1>7, <1>8, HeapInstanceAssumption DEF InitMutexExcludes
<1>13. CallersKnowTheHeap'
  BY <1>2, <1>5, <1>6, <1>7, <1>9
  DEF InstanceInv, InstanceTypeOK, CallersKnowTheHeap
<1>14. InstanceHasContext'
  BY <1>3, <1>5, <1>9 DEF InstanceHasContext
<1> QED BY <1>10, <1>11, <1>12, <1>13, <1>14 DEF InstanceInv

(* new heap throws.                                                        *)
LEMMA MakeInstanceThrowsInv ==
  ASSUME InstanceInv, NEW t \in Threads, MakeInstanceThrows(t)
  PROVE  InstanceInv'
BY HeapInstanceAssumption
DEF InstanceInv, InstanceTypeOK, InitMutexExcludes, CallersKnowTheHeap,
    InstanceHasContext, MakeInstanceThrows, LeaveGetInstance, Advance, staticVars

(* A client drops its shared_ptr: the static one keeps the heap.           *)
LEMMA DropInv ==
  ASSUME InstanceInv, NEW t \in Threads, Drop(t)
  PROVE  InstanceInv'
BY DEF InstanceInv, InstanceTypeOK, InitMutexExcludes, CallersKnowTheHeap,
       InstanceHasContext, Drop, staticVars, callVars

(* The client sets environment variables.                                  *)
LEMMA SetEnvInv ==
  ASSUME InstanceInv, NEW e \in Environments, SetEnv(e)
  PROVE  InstanceInv'
BY DEF InstanceInv, InstanceTypeOK, InitMutexExcludes, CallersKnowTheHeap,
       InstanceHasContext, SetEnv, staticVars, callVars

(* Nothing of get_instance changes.                                        *)
LEMMA InstanceStutterInv ==
  ASSUME InstanceInv, UNCHANGED instanceVars
  PROVE  InstanceInv'
BY DEF InstanceInv, InstanceTypeOK, InitMutexExcludes, CallersKnowTheHeap,
       InstanceHasContext, instanceVars, staticVars, callVars, NoInstance

(* Every step of get_instance preserves the invariant, and changes nothing *)
(* for a thread that has the heap already.                                 *)
LEMMA InstanceStepInv ==
  ASSUME InstanceInv, NEW t \in Threads, InstanceStep(t)
  PROVE  /\ InstanceInv'
         /\ \A u \in Threads : heap[u] # NoInstance => heap'[u] = heap[u]
<1>1. CASE \E c \in Contexts : GetInstance(t, c)
  <2>1. PICK c \in Contexts : GetInstance(t, c)
    BY <1>1
  <2>2. InstanceInv'
    BY <2>1, GetInstanceInv, HeapInstanceAssumption
  <2>3. heap' = heap
    BY <2>1 DEF GetInstance
  <2> QED BY <2>2, <2>3
<1>2. CASE ConstructAllocator(t)
  <2>1. InstanceInv'
    BY <1>2, GetInstanceInv DEF ConstructAllocator
  <2>2. heap' = heap
    BY <1>2 DEF ConstructAllocator, GetInstance
  <2> QED BY <2>1, <2>2
<1>3. CASE InitLock(t)
  BY <1>3, InitLockInv DEF InitLock
<1>4. CASE InstanceFound(t)
  <2>1. InstanceInv'
    BY <1>4, InstanceFoundInv
  <2>2. heap[t] = NoInstance /\ heap' = [heap EXCEPT ![t] = instance]
    BY <1>4 DEF InstanceInv, CallersKnowTheHeap, InstanceFound,
                LeaveGetInstance, Advance
  <2> QED BY <2>1, <2>2 DEF InstanceInv
<1>5. CASE InstanceMissing(t)
  BY <1>5, InstanceMissingInv DEF InstanceMissing
<1>6. CASE GetDefaultConfig(t)
  BY <1>6, GetDefaultConfigInv DEF GetDefaultConfig
<1>7. CASE DefaultConfigThrows(t)
  BY <1>7, DefaultConfigThrowsInv DEF DefaultConfigThrows
<1>8. CASE MakeInstance(t)
  <2>1. InstanceInv'
    BY <1>8, MakeInstanceInv
  <2>2. heap[t] = NoInstance /\ heap' = [heap EXCEPT ![t] = instance']
    BY <1>8 DEF InstanceInv, CallersKnowTheHeap, MakeInstance,
                LeaveGetInstance, Advance
  <2> QED BY <2>1, <2>2 DEF InstanceInv
<1>9. CASE MakeInstanceThrows(t)
  BY <1>9, MakeInstanceThrowsInv DEF MakeInstanceThrows
<1> QED
  BY <1>1, <1>2, <1>3, <1>4, <1>5, <1>6, <1>7, <1>8, <1>9 DEF InstanceStep

-----------------------------------------------------------------------------
(* allocate                                                                *)

(* What the steps of get_instance do not touch of the invariant.           *)
MapInv ==
  /\ made \in Nat
  /\ mutex \in Threads \cup {NoThread}
  /\ pc \in [Threads -> {"idle", "lock", "look_up", "unlock", "found"}]
  /\ DOMAIN size = Threads /\ DOMAIN h = Threads
  /\ MutexExcludes
  /\ MapIsBySize

(* HeapInv is the invariant of get_instance and the one of the map.        *)
LEMMA HeapInvParts == HeapInv <=> InstanceInv /\ MapInv
BY DEF HeapInv, MapInv

(* A step that leaves allocate alone, and the heap of every thread that is *)
(* in allocate, preserves the invariant.                                   *)
LEMMA OtherStepInv ==
  ASSUME MapInv, UNCHANGED heapVars,
         \A u \in Threads : pc[u] # "idle" => heap'[u] = heap[u]
  PROVE  MapInv'
<1>1. MutexExcludes'
  BY DEF MapInv, MutexExcludes, heapVars, NoInstance
<1>2. \A u \in Threads : HasHugeHeap(u)' => HasHugeHeap(u)
  BY DEF HasHugeHeap, IsHuge, IsTiny, m_config, m_max_size, heapVars
<1>3. MapIsBySize'
  BY <1>2 DEF MapInv, MapIsBySize, heapVars, NoHeap
<1> QED BY <1>1, <1>3 DEF MapInv, heapVars

(* A size of a vector is found without the mutex: the heap is not one of   *)
(* the map.                                                                *)
LEMMA FindInv ==
  ASSUME MapInv, NEW t \in Threads, NEW n, NEW f,
         CanAsk(t), ~ IsHuge(t, n), Find(t, n, f)
  PROVE  MapInv'
<1>1. /\ pc[t] = "idle" /\ heap[t] # NoInstance
      /\ pc' = [pc EXCEPT ![t] = "found"]
      /\ size' = [size EXCEPT ![t] = n]
      /\ h' = [h EXCEPT ![t] = f]
      /\ UNCHANGED <<huge_heaps, made, mutex, heap>>
  BY DEF CanAsk, Find, instanceVars
<1>2. MutexExcludes'
  BY <1>1 DEF MapInv, MutexExcludes, NoInstance
<1>3. \A u \in Threads : HasHugeHeap(u)' => HasHugeHeap(u) /\ h'[u] = h[u]
  <2>1. ~ HasHugeHeap(t)'
    BY <1>1 DEF MapInv, HasHugeHeap, IsHuge, IsTiny, m_config, m_max_size
  <2>2. ASSUME NEW u \in Threads, u # t
        PROVE  HasHugeHeap(u)' => HasHugeHeap(u) /\ h'[u] = h[u]
    BY <1>1, <2>2 DEF MapInv, HasHugeHeap, IsHuge, IsTiny, m_config, m_max_size
  <2> QED BY <2>1, <2>2
<1>4. MapIsBySize'
  BY <1>1, <1>3 DEF MapInv, MapIsBySize, NoHeap
<1> QED BY <1>1, <1>2, <1>4 DEF MapInv

(* The thread t goes on in allocate, without a heap of the map.            *)
LEMMA MoveOnInv ==
  ASSUME MapInv, NEW t \in Threads, NEW to \in {"idle", "lock", "look_up"},
         pc' = [pc EXCEPT ![t] = to],
         DOMAIN size' = Threads, DOMAIN h' = Threads,
         \A u \in Threads \ {t} : size'[u] = size[u] /\ h'[u] = h[u],
         UNCHANGED <<huge_heaps, heap>>
  PROVE  MapIsBySize'
<1>1. \A u \in Threads : HasHugeHeap(u)' => HasHugeHeap(u) /\ h'[u] = h[u]
  <2>1. ~ HasHugeHeap(t)'
    BY DEF MapInv, HasHugeHeap
  <2>2. ASSUME NEW u \in Threads, u # t
        PROVE  HasHugeHeap(u)' => HasHugeHeap(u) /\ h'[u] = h[u]
    BY <2>2 DEF MapInv, HasHugeHeap, IsHuge, IsTiny, m_config, m_max_size
  <2> QED BY <2>1, <2>2
<1> QED BY <1>1 DEF MapInv, MapIsBySize, NoHeap

(* A huge size is looked for in the map.                                   *)
LEMMA FindHugeInv ==
  ASSUME MapInv, NEW t \in Threads, NEW n, FindHuge(t, n)
  PROVE  MapInv'
<1>1. MapIsBySize'
  BY MoveOnInv DEF MapInv, FindHuge, instanceVars
<1> QED
  BY <1>1, HeapInstanceAssumption
  DEF MapInv, MutexExcludes, FindHuge, CanAsk, instanceVars, NoInstance

(* m_mutex is locked by one thread at a time.                              *)
LEMMA LockInv ==
  ASSUME MapInv, NEW t \in Threads, Lock(t)
  PROVE  MapInv'
<1>1. MapIsBySize'
  BY MoveOnInv DEF MapInv, Lock, instanceVars
<1> QED
  BY <1>1, HeapInstanceAssumption
  DEF MapInv, MutexExcludes, Lock, instanceVars, NoInstance

(* The fixed_size_heap is in the map: under its own size.                  *)
LEMMA LookUpHitInv ==
  ASSUME MapInv, NEW t \in Threads, LookUpHit(t)
  PROVE  MapInv'
<1>1. PICK s : /\ WithEntry(s)[s] # NoHeap
               /\ h' = [h EXCEPT ![t] = WithEntry(s)[s]]
  BY DEF LookUpHit
<1>2. s \in DOMAIN huge_heaps /\ WithEntry(s)[s] = huge_heaps[s]
  BY <1>1 DEF WithEntry
<1>3. huge_heaps[s] # NoHeap /\ huge_heaps[s].block_size = s
  BY <1>1, <1>2 DEF MapInv, MapIsBySize
<1>4. /\ pc[t] = "look_up" /\ pc' = [pc EXCEPT ![t] = "unlock"]
      /\ UNCHANGED <<huge_heaps, made, mutex, size, heap>>
  BY DEF LookUpHit, instanceVars
<1>5. MutexExcludes'
  BY <1>4, HeapInstanceAssumption DEF MapInv, MutexExcludes, NoInstance
<1>6. \A u \in Threads \ {t} : HasHugeHeap(u)' => HasHugeHeap(u) /\ h'[u] = h[u]
  BY <1>1, <1>4 DEF MapInv, HasHugeHeap, IsHuge, IsTiny, m_config, m_max_size
<1>7. h'[t] = huge_heaps[s]
  BY <1>1, <1>2 DEF MapInv
<1>8. MapIsBySize'
  BY <1>2, <1>3, <1>4, <1>6, <1>7 DEF MapInv, MapIsBySize, NoHeap
<1> QED BY <1>1, <1>4, <1>5, <1>8 DEF MapInv

(* A fixed_size_heap is made for a size that has none, so that none that a *)
(* thread uses is replaced.                                                *)
LEMMA LookUpMissInv ==
  ASSUME MapInv, NEW t \in Threads, LookUpMiss(t)
  PROVE  MapInv'
<1> DEFINE f(s) == [id |-> made + 1, block_size |-> s, segment_size |-> s]
<1>1. PICK s : /\ WithEntry(s)[s] = NoHeap
               /\ huge_heaps' = [WithEntry(s) EXCEPT ![s] = f(s)]
               /\ h' = [h EXCEPT ![t] = huge_heaps'[s]]
  BY DEF LookUpMiss
<1>2. /\ DOMAIN huge_heaps' = DOMAIN huge_heaps \cup {s}
      /\ huge_heaps'[s] = f(s)
      /\ \A r \in DOMAIN huge_heaps \ {s} : huge_heaps'[r] = huge_heaps[r]
  BY <1>1 DEF WithEntry
<1>3. s \in DOMAIN huge_heaps => huge_heaps[s] = NoHeap
  BY <1>1 DEF WithEntry
<1>4. f(s) # NoHeap /\ f(s).block_size = s
  <2>1. f(s).id = made + 1 /\ NoHeap.id = 0
    BY DEF NoHeap
  <2>2. made + 1 # 0
    BY DEF MapInv
  <2> QED BY <2>1, <2>2
<1>5. /\ pc[t] = "look_up" /\ pc' = [pc EXCEPT ![t] = "unlock"]
      /\ made' = made + 1
      /\ UNCHANGED <<mutex, size, heap>>
  BY DEF LookUpMiss, instanceVars
<1>6. MutexExcludes'
  BY <1>5, HeapInstanceAssumption DEF MapInv, MutexExcludes, NoInstance
<1>7. \A u \in Threads \ {t} : HasHugeHeap(u)' => HasHugeHeap(u) /\ h'[u] = h[u]
  BY <1>1, <1>5 DEF MapInv, HasHugeHeap, IsHuge, IsTiny, m_config, m_max_size
<1>8. h'[t] = f(s)
  BY <1>1, <1>2 DEF MapInv
<1> HIDE DEF f
<1>9. NoHeap' = NoHeap
  BY DEF NoHeap
<1>10. \A r \in DOMAIN huge_heaps' :
         huge_heaps'[r] # NoHeap => huge_heaps'[r].block_size = r
  BY <1>2, <1>4 DEF MapInv, MapIsBySize
<1>11. ASSUME NEW u \in Threads, HasHugeHeap(u)'
       PROVE  /\ h'[u].block_size \in DOMAIN huge_heaps'
              /\ huge_heaps'[h'[u].block_size] = h'[u]
              /\ h'[u] # NoHeap
  <2>1. CASE u = t
    BY <2>1, <1>2, <1>4, <1>8
  <2>2. CASE u # t
    BY <2>2, <1>2, <1>3, <1>7, <1>11 DEF MapInv, MapIsBySize
  <2> QED BY <2>1, <2>2
<1>12. MapIsBySize'
  BY <1>9, <1>10, <1>11 DEF MapIsBySize
<1> QED BY <1>1, <1>5, <1>6, <1>12 DEF MapInv

(* make_unique throws: only a null entry is added, and the lock_guard      *)
(* unlocks.                                                                *)
LEMMA MakeThrowsInv ==
  ASSUME MapInv, NEW t \in Threads, MakeThrows(t)
  PROVE  MapInv'
<1>1. PICK s : WithEntry(s)[s] = NoHeap /\ huge_heaps' = WithEntry(s)
  BY DEF MakeThrows
<1>2. /\ DOMAIN huge_heaps' = DOMAIN huge_heaps \cup {s}
      /\ huge_heaps'[s] = NoHeap
      /\ \A r \in DOMAIN huge_heaps : huge_heaps'[r] = huge_heaps[r]
  BY <1>1 DEF WithEntry
<1>3. /\ pc[t] = "look_up" /\ pc' = [pc EXCEPT ![t] = "idle"]
      /\ mutex' = NoThread
      /\ size' = [size EXCEPT ![t] = 0]
      /\ UNCHANGED <<made, h, heap>>
  BY DEF MakeThrows, instanceVars
<1>4. MutexExcludes'
  BY <1>3, HeapInstanceAssumption DEF MapInv, MutexExcludes, NoInstance
<1>5. \A u \in Threads : HasHugeHeap(u)' => HasHugeHeap(u)
  <2>1. ~ HasHugeHeap(t)'
    BY <1>3 DEF MapInv, HasHugeHeap
  <2>2. ASSUME NEW u \in Threads, u # t
        PROVE  HasHugeHeap(u)' => HasHugeHeap(u)
    BY <1>3, <2>2 DEF MapInv, HasHugeHeap, IsHuge, IsTiny, m_config, m_max_size
  <2> QED BY <2>1, <2>2
<1>6. MapIsBySize'
  BY <1>2, <1>3, <1>5 DEF MapInv, MapIsBySize, NoHeap
<1> QED BY <1>3, <1>4, <1>6 DEF MapInv

(* m_mutex is unlocked: the thread keeps what it has found.                *)
LEMMA UnlockInv ==
  ASSUME MapInv, NEW t \in Threads, Unlock(t)
  PROVE  MapInv'
<1>1. /\ pc[t] = "unlock" /\ pc' = [pc EXCEPT ![t] = "found"]
      /\ mutex' = NoThread
      /\ UNCHANGED <<huge_heaps, made, size, h, heap>>
  BY DEF Unlock, instanceVars
<1>2. MutexExcludes'
  BY <1>1, HeapInstanceAssumption DEF MapInv, MutexExcludes, NoInstance
<1>3. \A u \in Threads : HasHugeHeap(u)' => HasHugeHeap(u)
  BY <1>1 DEF MapInv, HasHugeHeap, IsHuge, IsTiny, m_config, m_max_size
<1>4. MapIsBySize'
  BY <1>1, <1>3 DEF MapInv, MapIsBySize, NoHeap
<1> QED BY <1>1, <1>2, <1>4 DEF MapInv

(* allocate returns.                                                       *)
LEMMA ReturnInv ==
  ASSUME MapInv, NEW t \in Threads, Return(t)
  PROVE  MapInv'
<1>1. MapIsBySize'
  BY MoveOnInv DEF MapInv, Return, instanceVars
<1> QED
  BY <1>1, HeapInstanceAssumption
  DEF MapInv, MutexExcludes, Return, instanceVars, NoInstance

-----------------------------------------------------------------------------
(* The theorems                                                            *)

(* The process starts with an empty map.                                   *)
LEMMA HeapInitInv == Init => HeapInv
BY InstanceInitInv, HeapInstanceAssumption
DEF Init, HeapInv, MutexExcludes, MapIsBySize, HasHugeHeap

(* Every step preserves the invariant.                                     *)
LEMMA HeapNextInv ==
  ASSUME HeapInv, [Next]_vars
  PROVE  HeapInv'
<1>1. InstanceInv /\ MapInv
  BY HeapInvParts
<1>2. \A u \in Threads : pc[u] # "idle" => heap[u] # NoInstance
  BY <1>1 DEF MapInv, MutexExcludes
<1>3. SUFFICES InstanceInv' /\ MapInv'
  BY HeapInvParts DEF HeapInv, MapInv
<1>4. ASSUME NEW e \in Environments, SetEnv(e), UNCHANGED heapVars
      PROVE  InstanceInv' /\ MapInv'
  BY <1>1, <1>4, SetEnvInv, OtherStepInv DEF SetEnv
<1>5. ASSUME NEW t \in Threads, InstanceStep(t), UNCHANGED heapVars
      PROVE  InstanceInv' /\ MapInv'
  <2>1. InstanceInv' /\ \A u \in Threads : heap[u] # NoInstance => heap'[u] = heap[u]
    BY <1>1, <1>5, InstanceStepInv
  <2> QED BY <1>1, <1>2, <1>5, <2>1, OtherStepInv
<1>6. ASSUME NEW t \in Threads, pc[t] = "idle", Drop(t), UNCHANGED heapVars
      PROVE  InstanceInv' /\ MapInv'
  <2>1. \A u \in Threads : pc[u] # "idle" => heap'[u] = heap[u]
    BY <1>1, <1>6 DEF Drop, InstanceInv
  <2> QED BY <1>1, <1>6, <2>1, DropInv, OtherStepInv
<1>7. ASSUME NEW t \in Threads, NEW n \in Requests,
             FindTiny(t, n) \/ FindInVector(t, n)
      PROVE  InstanceInv' /\ MapInv'
  <2>1. UNCHANGED instanceVars
    BY <1>7 DEF FindTiny, FindInVector, Find
  <2>2. ~ IsHuge(t, n) /\ CanAsk(t) /\ \E f : Find(t, n, f)
    BY <1>7 DEF FindTiny, FindInVector, IsHuge
  <2> QED BY <1>1, <2>1, <2>2, InstanceStutterInv, FindInv
<1>8. ASSUME NEW t \in Threads, NEW n \in Requests, FindHuge(t, n)
      PROVE  InstanceInv' /\ MapInv'
  BY <1>1, <1>8, InstanceStutterInv, FindHugeInv DEF FindHuge
<1>9. ASSUME NEW t \in Threads, Lock(t)
      PROVE  InstanceInv' /\ MapInv'
  BY <1>1, <1>9, InstanceStutterInv, LockInv DEF Lock
<1>10. ASSUME NEW t \in Threads, LookUpHit(t)
       PROVE  InstanceInv' /\ MapInv'
  BY <1>1, <1>10, InstanceStutterInv, LookUpHitInv DEF LookUpHit
<1>11. ASSUME NEW t \in Threads, LookUpMiss(t)
       PROVE  InstanceInv' /\ MapInv'
  BY <1>1, <1>11, InstanceStutterInv, LookUpMissInv DEF LookUpMiss
<1>12. ASSUME NEW t \in Threads, MakeThrows(t)
       PROVE  InstanceInv' /\ MapInv'
  BY <1>1, <1>12, InstanceStutterInv, MakeThrowsInv DEF MakeThrows
<1>13. ASSUME NEW t \in Threads, Unlock(t)
       PROVE  InstanceInv' /\ MapInv'
  BY <1>1, <1>13, InstanceStutterInv, UnlockInv DEF Unlock
<1>14. ASSUME NEW t \in Threads, Return(t)
       PROVE  InstanceInv' /\ MapInv'
  BY <1>1, <1>14, InstanceStutterInv, ReturnInv DEF Return
<1>15. CASE UNCHANGED vars
  BY <1>1, <1>15, InstanceStutterInv, OtherStepInv DEF vars, instanceVars
<1> QED
  BY <1>4, <1>5, <1>6, <1>7, <1>8, <1>9, <1>10, <1>11, <1>12, <1>13, <1>14, <1>15
  DEF Next

(* HeapInv is an invariant: the mutexes exclude, and the map has what the  *)
(* threads use, for any number of threads and any configuration.           *)
THEOREM HeapInvariant == Spec => []HeapInv
<1>1. HeapInv /\ [Next]_vars => HeapInv'
  BY HeapNextInv
<1> QED BY HeapInitInv, <1>1, PTL DEF Spec

(* All threads use the one heap of the process.                            *)
THEOREM OneInstanceTheorem == Spec => []OneInstance
<1>1. HeapInv => OneInstance
  BY DEF HeapInv, InstanceInv, OneInstance
<1> QED BY HeapInvariant, <1>1, PTL

(* The heap was made with a Context, although allocator() has none.        *)
THEOREM InstanceHasContextTheorem == Spec => []InstanceHasContext
<1>1. HeapInv => InstanceHasContext
  BY DEF HeapInv, InstanceInv
<1> QED BY HeapInvariant, <1>1, PTL

(* Whatever is thrown, heap_init_mutex_ is held by a thread that is in     *)
(* get_instance and about to unlock it ...                                 *)
THEOREM InitMutexIsReleasedTheorem == Spec => []InitMutexIsReleased
<1>1. HeapInv => InitMutexIsReleased
  BY DEF HeapInv, InstanceInv, InstanceTypeOK, InitMutexExcludes, InitMutexIsReleased
<1> QED BY HeapInvariant, <1>1, PTL

(* ... and so is m_mutex.                                                  *)
THEOREM MutexIsReleasedTheorem == Spec => []MutexIsReleased
<1>1. HeapInv => MutexIsReleased
  BY DEF HeapInv, MutexExcludes, MutexIsReleased
<1> QED BY HeapInvariant, <1>1, PTL

(* Threads that ask for the same huge size share a fixed_size_heap.        *)
THEOREM OneHeapPerSizeTheorem == Spec => []OneHeapPerSize
<1>1. HeapInv => OneHeapPerSize
  BY DEF HeapInv, MapIsBySize, OneHeapPerSize
<1> QED BY HeapInvariant, <1>1, PTL

(* A fixed_size_heap of the map stays in it.                               *)
THEOREM HugeHeapsStayTheorem == Spec => HugeHeapsStay
<1> DEFINE Stay == \A f \in MadeHeaps : f \in MadeHeaps'
<1>1. ASSUME [Next]_vars
      PROVE  Stay
  <2>1. CASE UNCHANGED huge_heaps
    BY <2>1 DEF MadeHeaps, Elements, NoHeap
  <2>2. ASSUME NEW t \in Threads, LookUpMiss(t)
        PROVE  Stay
    <3>1. PICK s : /\ WithEntry(s)[s] = NoHeap
                   /\ \E f : huge_heaps' = [WithEntry(s) EXCEPT ![s] = f]
      BY <2>2 DEF LookUpMiss
    <3>2. /\ DOMAIN huge_heaps \subseteq DOMAIN huge_heaps'
          /\ \A r \in DOMAIN huge_heaps :
               huge_heaps[r] # NoHeap => huge_heaps'[r] = huge_heaps[r]
      BY <3>1 DEF WithEntry
    <3> QED BY <3>2 DEF MadeHeaps, Elements, NoHeap
  <2>3. ASSUME NEW t \in Threads, MakeThrows(t)
        PROVE  Stay
    <3>1. PICK s : huge_heaps' = WithEntry(s)
      BY <2>3 DEF MakeThrows
    <3>2. /\ DOMAIN huge_heaps \subseteq DOMAIN huge_heaps'
          /\ \A r \in DOMAIN huge_heaps : huge_heaps'[r] = huge_heaps[r]
      BY <3>1 DEF WithEntry
    <3> QED BY <3>2 DEF MadeHeaps, Elements, NoHeap
  <2> HIDE DEF Stay
  <2> QED
    BY <1>1, <2>1, <2>2, <2>3
    DEF Next, vars, heapVars, FindTiny, FindInVector, Find, FindHuge, Lock,
        LookUpHit, Unlock, Return
<1>2. [Next]_vars => [Stay]_vars
  BY <1>1
<1> QED BY <1>2, PTL DEF Spec, HugeHeapsStay

-----------------------------------------------------------------------------
(* The sizes                                                               *)

(* A fixed_size_heap that is made for the map stays in it, at every step.  *)
LEMMA MadeHeapsStay ==
  ASSUME \A s \in DOMAIN huge_heaps :
           s \in DOMAIN huge_heaps' /\ (huge_heaps[s] # NoHeap => huge_heaps'[s] = huge_heaps[s])
  PROVE  MadeHeaps \subseteq MadeHeaps'
BY DEF MadeHeaps, Elements, NoHeap

(* A step that leaves a thread alone leaves it with its heap.              *)
LEMMA StillServed ==
  ASSUME NEW t, RequestIsServed(t),
         pc'[t] = pc[t], size'[t] = size[t], h'[t] = h[t],
         pc[t] # "idle" => heap'[t] = heap[t],
         MadeHeaps \subseteq MadeHeaps'
  PROVE  RequestIsServed(t)'
<1>1. NoHeap' = NoHeap
  BY DEF NoHeap
<1>2. CASE pc[t] = "idle"
  BY <1>1, <1>2 DEF RequestIsServed
<1>3. CASE pc[t] # "idle"
  <2>1. /\ m_config(t)' = m_config(t) /\ m_max_size(t)' = m_max_size(t)
        /\ VectorHeaps(t)' = VectorHeaps(t)
        /\ IsHuge(t, size[t])' = IsHuge(t, size[t])
    BY <1>3 DEF m_config, m_max_size, VectorHeaps, m_tiny_heaps, m_heaps, Elements,
                IsHuge, IsTiny
  <2>2. (IsHuge(t, size[t]))' <=> IsHuge(t, size[t])
    BY <1>3 DEF IsHuge, IsTiny, m_config, m_max_size
  <2>3. IsServed(t) => IsServed(t)'
    BY <2>1 DEF IsServed
  <2> QED BY <1>1, <1>3, <2>2, <2>3 DEF RequestIsServed
<1> QED BY <1>2, <1>3

(* The configuration of the heap a thread uses.                            *)
LEMMA HeapIsSound ==
  ASSUME HeapInv, ConfigsAreSound, NEW t \in Threads, heap[t] # NoInstance
  PROVE  SoundConfig(m_config(t)) /\ m_max_size(t) \in max_sizes(m_config(t))
BY DEF HeapInv, InstanceInv, ConfigsAreSound, m_config, m_max_size

(* A heap of a vector is neither a null pointer nor out of range.          *)
LEMMA VectorHeapsAreHeaps ==
  ASSUME HeapInv, ConfigsAreSound, NEW t \in Threads, heap[t] # NoInstance,
         NEW f \in VectorHeaps(t)
  PROVE  /\ f \in HeapRecord /\ f # OutOfRange /\ f # NoHeap
         /\ f.block_size > 0 /\ m_num_blocks(f) > 0
         /\ f.block_size <= m_max_size(t)
<1>1. SoundConfig(m_config(t)) /\ m_max_size(t) \in max_sizes(m_config(t))
  BY HeapIsSound
<1>2. /\ f \in HeapRecord
      /\ f.block_size > 0 /\ m_num_blocks(f) > 0 /\ f.block_size <= m_max_size(t)
  <2>1. CASE \E l \in DOMAIN m_tiny_heaps(t) : f = m_tiny_heaps(t)[l]
    BY <1>1, <2>1, VectorSegmentsTheorem, VectorsEndAtMaxSize, VectorsAreRecords
    DEF m_tiny_heaps
  <2>2. CASE \E l \in DOMAIN m_heaps(t) : f = m_heaps(t)[l]
    BY <1>1, <2>2, VectorSegmentsTheorem, VectorsEndAtMaxSize, VectorsAreRecords
    DEF m_heaps
  <2> QED BY <2>1, <2>2 DEF VectorHeaps, Elements
<1>3. f # OutOfRange
  BY <1>2, HeapAssumption DEF HeapRecord
<1>4. f # NoHeap
  <2>1. DOMAIN f = {"block_size", "segment_size"}
    BY <1>2 DEF HeapRecord
  <2>2. DOMAIN NoHeap = {"id"}
    BY DEF NoHeap
  <2> QED BY <2>1, <2>2
<1> QED BY <1>2, <1>3, <1>4

(* A heap of the map has blocks, too.                                      *)
LEMMA MadeHeapsAreHeaps ==
  ASSUME MapIsOfPowers, made \in Nat, NEW f \in MadeHeaps
  PROVE  /\ f \in [id : 1..made, block_size : PowersOf2, segment_size : PowersOf2]
         /\ f # OutOfRange /\ f # NoHeap
         /\ f.block_size \in Nat
         /\ f.block_size > 0 /\ m_num_blocks(f) > 0
<1>1. PICK s \in DOMAIN huge_heaps : f = huge_heaps[s] /\ f # NoHeap
  BY DEF MadeHeaps, Elements
<1>2. s \in PowersOf2 /\ f \in [id : 1..made, block_size : {s}, segment_size : {s}]
  BY <1>1 DEF MapIsOfPowers
<1>3. f.block_size = s /\ f.segment_size = s
  BY <1>2
<1>4. s \in Nat /\ s >= 1
  BY <1>2, Widths, PowerIsPositive DEF PowersOf2
<1>5. m_num_blocks(f) > 0
  <2>1. s <= s
    BY <1>4
  <2> QED BY <1>2, <1>3, <1>4, <2>1, BlockInSegment
<1>6. f \in [id : 1..made, block_size : PowersOf2, segment_size : PowersOf2]
  BY <1>2
<1>7. f # OutOfRange
  <2>1. f \in [id : Nat, block_size : Nat, segment_size : Nat]
    BY <1>2, <1>4
  <2> QED BY <2>1, HeapAssumption
<1> QED BY <1>1, <1>3, <1>4, <1>5, <1>6, <1>7

(* A tiny size is found.                                                   *)
LEMMA FindTinyServes ==
  ASSUME HeapInv, ConfigsAreSound, UsualRequests,
         NEW t \in Threads, heap[t] # NoInstance, NEW n \in Requests, IsTiny(t, n),
         NEW f, f = At(m_tiny_heaps(t), tiny_bucket_index(n))
  PROVE  /\ f \in VectorHeaps(t)
         /\ f.block_size >= n
         /\ \A g \in VectorHeaps(t) : g.block_size >= n => g.block_size >= f.block_size
         /\ ~ (n > m_max_size(t))
<1> DEFINE c == m_config(t)
           m == m_max_size(t)
           x == tiny_bucket_index(n)
<1>1. SoundConfig(c) /\ m \in max_sizes(c)
  BY HeapIsSound
<1>2. n \in Nat /\ 1 <= n /\ n <= c.tiny_limit
  BY Widths DEF UsualRequests, IsTiny
<1>3. m_tiny_heaps(t) = TinyHeaps(c) /\ m_heaps(t) = Heaps(c, m)
  BY DEF m_tiny_heaps, m_heaps
<1> HIDE DEF c, m
<1>4. /\ x \in Nat /\ x < Len(TinyHeaps(c)) /\ x + 1 \in DOMAIN TinyHeaps(c)
      /\ TinyHeaps(c)[x + 1].block_size \in Nat
      /\ n <= TinyHeaps(c)[x + 1].block_size
      /\ \A l \in DOMAIN TinyHeaps(c) :
           n <= TinyHeaps(c)[l].block_size =>
             TinyHeaps(c)[x + 1].block_size <= TinyHeaps(c)[l].block_size
      /\ \A l \in DOMAIN Heaps(c, m) :
           TinyHeaps(c)[x + 1].block_size <= Heaps(c, m)[l].block_size
  BY <1>1, <1>2, TinyIndexTheorem
<1> HIDE DEF x
<1>5. f = TinyHeaps(c)[x + 1]
  BY <1>3, <1>4 DEF At, x
<1>6. \A g \in VectorHeaps(t) : g.block_size \in Nat
  BY VectorHeapsAreHeaps DEF HeapRecord
<1>7. f \in VectorHeaps(t)
  BY <1>3, <1>4, <1>5 DEF VectorHeaps, Elements
<1>8. ASSUME NEW g \in VectorHeaps(t), g.block_size >= n
      PROVE  g.block_size >= f.block_size
  <2>1. n <= g.block_size /\ g.block_size \in Nat
    BY <1>2, <1>6, <1>8
  <2>2. f.block_size <= g.block_size
    BY <1>3, <1>4, <1>5, <2>1 DEF VectorHeaps, Elements
  <2> QED BY <1>4, <1>5, <2>1, <2>2
<1>9. ~ (n > m)
  <2>1. c.tiny_limit < m /\ m \in Nat /\ c.tiny_limit \in Nat
    BY <1>1, VectorsEndAtMaxSize, TinyLimit
  <2> QED BY <1>2, <2>1
<1> QED BY <1>2, <1>4, <1>5, <1>7, <1>8, <1>9 DEF m

(* A size that is not tiny, and not huge, is found.                        *)
LEMMA FindInVectorServes ==
  ASSUME HeapInv, ConfigsAreSound, UsualRequests,
         NEW t \in Threads, heap[t] # NoInstance, NEW n \in Requests,
         ~ IsTiny(t, n), ~ IsHuge(t, n),
         NEW f, f = At(m_heaps(t), bucket_index(n, m_bucket_shift(m_config(t))))
  PROVE  /\ f \in VectorHeaps(t)
         /\ f.block_size >= n
         /\ \A g \in VectorHeaps(t) : g.block_size >= n => g.block_size >= f.block_size
         /\ ~ (n > m_max_size(t))
<1> DEFINE c == m_config(t)
           m == m_max_size(t)
           x == bucket_index(n, m_bucket_shift(c))
<1>1. SoundConfig(c) /\ m \in max_sizes(c)
  BY HeapIsSound
<1>2. n \in Nat /\ c.tiny_limit < n /\ n <= m
  <2>1. n \in Nat /\ ~ (n <= c.tiny_limit) /\ n <= m
    BY Widths DEF UsualRequests, IsTiny, IsHuge
  <2>2. c.tiny_limit \in Nat
    BY <1>1, TinyLimit
  <2> QED BY <2>1, <2>2
<1>3. m_tiny_heaps(t) = TinyHeaps(c) /\ m_heaps(t) = Heaps(c, m)
  BY DEF m_tiny_heaps, m_heaps
<1>4. f = At(Heaps(c, m), x)
  BY <1>3
<1> HIDE DEF c, m
<1>5. /\ x \in Nat /\ x < Len(Heaps(c, m)) /\ x + 1 \in DOMAIN Heaps(c, m)
      /\ Heaps(c, m)[x + 1].block_size \in Nat
      /\ n <= Heaps(c, m)[x + 1].block_size
      /\ \A l \in DOMAIN TinyHeaps(c) : TinyHeaps(c)[l].block_size < n
      /\ \A l \in DOMAIN Heaps(c, m) :
           n <= Heaps(c, m)[l].block_size =>
             Heaps(c, m)[x + 1].block_size <= Heaps(c, m)[l].block_size
  BY <1>1, <1>2, IndexTheorem
<1> HIDE DEF x
<1>6. f = Heaps(c, m)[x + 1]
  BY <1>4, <1>5 DEF At
<1>7. \A g \in VectorHeaps(t) : g.block_size \in Nat
  BY VectorHeapsAreHeaps DEF HeapRecord
<1>8. f \in VectorHeaps(t)
  BY <1>3, <1>5, <1>6 DEF VectorHeaps, Elements
<1>9. ASSUME NEW g \in VectorHeaps(t), g.block_size >= n
      PROVE  g.block_size >= f.block_size
  <2>1. n <= g.block_size /\ g.block_size \in Nat /\ ~ (g.block_size < n)
    BY <1>2, <1>7, <1>9
  <2>2. f.block_size <= g.block_size
    BY <1>3, <1>5, <1>6, <2>1 DEF VectorHeaps, Elements
  <2> QED BY <1>5, <1>6, <2>1, <2>2
<1>10. ~ (n > m)
  <2>1. m \in Nat
    BY <1>1, VectorsEndAtMaxSize
  <2> QED BY <1>2, <2>1
<1> QED BY <1>2, <1>5, <1>6, <1>8, <1>9, <1>10 DEF m

(* A huge size is rounded to a power of two, less than twice as large, and *)
(* no heap of a vector has blocks of that size.                            *)
LEMMA HugeServes ==
  ASSUME HeapInv, ConfigsAreSound, UsualRequests,
         NEW t \in Threads, heap[t] # NoInstance, NEW n \in Requests, IsHuge(t, n),
         NEW s \in round_to_pow_of_2(n)
  PROVE  /\ s \in PowersOf2 /\ s \in Nat
         /\ s >= n /\ s < 2 * n
         /\ \A f \in VectorHeaps(t) : ~ (f.block_size >= n)
<1> DEFINE c == m_config(t)
           m == m_max_size(t)
<1>1. SoundConfig(c) /\ m \in max_sizes(c)
  BY HeapIsSound
<1>2. /\ c.tiny_limit < m /\ m \in Nat /\ c.tiny_limit >= 8 /\ c.tiny_limit \in Nat
      /\ UIntBits >= 2
  <2>1. c.tiny_limit < m /\ m \in Nat /\ c.tiny_limit >= 8 /\ c.tiny_limit \in Nat
    BY <1>1, VectorsEndAtMaxSize, TinyLimit
  <2>2. PICK k \in 1..(UIntBits - 1) : TRUE
    BY <1>1, MaxSize DEF PowersOf2
  <2> QED BY <2>1, <2>2, Widths
<1>3. n \in Nat /\ 1 <= n /\ n <= 2^(UIntBits - 1) /\ ~ (n <= m)
  BY Widths DEF UsualRequests, IsHuge
<1>4. ASSUME NEW f \in VectorHeaps(t) PROVE ~ (f.block_size >= n)
  <2>1. f.block_size <= m /\ f.block_size \in Nat
    BY VectorHeapsAreHeaps DEF HeapRecord
  <2> QED BY <1>2, <1>3, <2>1
<1> HIDE DEF c, m
<1>5. PICK k \in 1..(UIntBits - 1) :
        round_to_pow_of_2(n) = {2^k} /\ n <= 2^k /\ (k = 1 \/ 2^k < 2 * n)
  BY <1>2, <1>3, Rounding
<1>6. s = 2^k /\ s \in PowersOf2
  BY <1>5 DEF PowersOf2
<1>7. s \in Nat
  BY <1>6, Widths, PowerIsPositive
<1>8. s < 2 * n
  <2>1. CASE k = 1
    <3>1. 2^1 = 2
      OBVIOUS
    <3> QED BY <1>2, <1>3, <1>6, <2>1, <3>1
  <2>2. CASE 2^k < 2 * n
    BY <1>6, <2>2
  <2> QED BY <1>5, <2>1, <2>2
<1> QED BY <1>3, <1>4, <1>5, <1>6, <1>7, <1>8

-----------------------------------------------------------------------------
(* The sizes stay right: the configuration                                 *)

(* A step that makes no configuration and no heap.                         *)
LEMMA SameConfigs ==
  ASSUME ConfigsAreSound, UNCHANGED <<default_config, instance>>,
         \A u \in Threads : stage'[u] = "make" => stage[u] = "make"
  PROVE  ConfigsAreSound'
BY DEF ConfigsAreSound, NoInstance

(* Every configuration that is made is sound, and so is a heap made of it. *)
LEMMA InstanceStepConfigs ==
  ASSUME InstanceInv, ConfigsAreSound, UsualEnvironments,
         NEW t \in Threads, InstanceStep(t)
  PROVE  ConfigsAreSound'
<1>0. stage \in [Threads -> {"none", "lock", "look", "config", "make"}]
  BY DEF InstanceInv, InstanceTypeOK
<1>1. CASE GetDefaultConfig(t)
  <2>1. /\ instance = NoInstance /\ instance' = instance
        /\ stage' = [stage EXCEPT ![t] = "make"]
    BY <1>1 DEF InstanceInv, InitMutexExcludes, GetDefaultConfig, Advance
  <2>2. SoundConfig(default_config')
    <3>1. CASE default_config # NoConfig
      <4>1. default_config' = default_config
        BY <1>1, <3>1 DEF GetDefaultConfig
      <4> QED BY <3>1, <4>1 DEF ConfigsAreSound
    <3>2. CASE default_config = NoConfig
      <4>1. UsualArguments(Arguments(env))
        BY DEF UsualEnvironments, InstanceInv, InstanceTypeOK
      <4>2. /\ default_config' \in heap_configs(Arguments(env))
            /\ Accepts(Arguments(env), default_config')
        BY <1>1, <3>2 DEF GetDefaultConfig
      <4> HIDE DEF Arguments
      <4> QED BY <4>1, <4>2, AcceptedIsSound
    <3> QED BY <3>1, <3>2
  <2> QED BY <2>1, <2>2 DEF ConfigsAreSound, NoInstance
<1>2. CASE MakeInstance(t)
  <2>1. /\ stage[t] = "make" /\ stage' = [stage EXCEPT ![t] = "none"]
        /\ default_config' = default_config
    BY <1>2 DEF MakeInstance, LeaveGetInstance, Advance
  <2>2. PICK n \in max_sizes(default_config) :
          instance' = [made_by |-> t, m_context |-> context[t],
                       m_config |-> default_config, m_max_size |-> n]
    BY <1>2 DEF MakeInstance
  <2>3. instance'.m_config = default_config /\ instance'.m_max_size = n
    BY <2>2
  <2>4. SoundConfig(default_config)
    BY <2>1 DEF ConfigsAreSound
  <2> QED BY <1>0, <2>1, <2>2, <2>3, <2>4 DEF ConfigsAreSound
<1>3. CASE ~ GetDefaultConfig(t) /\ ~ MakeInstance(t)
  <2>1. /\ UNCHANGED <<default_config, instance>>
        /\ \E to \in {"none", "lock", "look", "config"} :
             stage' = [stage EXCEPT ![t] = to]
    BY <1>3
    DEF InstanceStep, GetInstance, ConstructAllocator, InitLock, InstanceFound,
        InstanceMissing, DefaultConfigThrows, MakeInstanceThrows,
        LeaveGetInstance, Advance, staticVars
  <2> QED BY <1>0, <2>1, SameConfigs
<1> QED BY <1>1, <1>2, <1>3

-----------------------------------------------------------------------------
(* The sizes stay right: allocate                                          *)

(* A step of a thread in allocate leaves the others with their heaps.      *)
LEMMA OthersAreServed ==
  ASSUME SizesInv, NEW t \in Threads, UNCHANGED heap,
         MadeHeaps \subseteq MadeHeaps',
         \A u \in Threads \ {t} : pc'[u] = pc[u] /\ size'[u] = size[u] /\ h'[u] = h[u]
  PROVE  \A u \in Threads \ {t} : RequestIsServed(u)'
<1>1. TAKE u \in Threads \ {t}
<1>2. RequestIsServed(u) /\ heap'[u] = heap[u]
  BY DEF SizesInv
<1> QED BY <1>2, StillServed

(* What a step in allocate has to do for the invariant, if it leaves the   *)
(* map alone.                                                              *)
LEMMA SameMapSizes ==
  ASSUME HeapInv, SizesInv, NEW t \in Threads,
         UNCHANGED <<instanceVars, huge_heaps, made>>,
         \A u \in Threads \ {t} : pc'[u] = pc[u] /\ size'[u] = size[u] /\ h'[u] = h[u],
         RequestIsServed(t)'
  PROVE  SizesInv'
<1>1. UNCHANGED <<heap, default_config, instance, stage>>
  BY DEF instanceVars, staticVars, callVars
<1>2. ConfigsAreSound'
  BY <1>1, SameConfigs DEF SizesInv
<1>3. MapIsOfPowers'
  BY DEF SizesInv, MapIsOfPowers, NoHeap
<1>4. MadeHeaps \subseteq MadeHeaps'
  BY DEF MadeHeaps, Elements, NoHeap
<1>5. \A u \in Threads \ {t} : RequestIsServed(u)'
  BY <1>1, <1>4, OthersAreServed
<1> QED BY <1>2, <1>3, <1>5 DEF SizesInv


(* A request is found in a vector.                                         *)
LEMMA FindSizes ==
  ASSUME HeapInv, SizesInv, UsualRequests, NEW t \in Threads, NEW n \in Requests,
         FindTiny(t, n) \/ FindInVector(t, n)
  PROVE  SizesInv'
<1>1. PICK f :
        /\ heap[t] # NoInstance
        /\ \/ IsTiny(t, n) /\ f = At(m_tiny_heaps(t), tiny_bucket_index(n))
           \/ /\ ~ IsTiny(t, n) /\ ~ IsHuge(t, n)
              /\ f = At(m_heaps(t), bucket_index(n, m_bucket_shift(m_config(t))))
        /\ Find(t, n, f)
  BY DEF FindTiny, FindInVector, CanAsk
<1>2. /\ f \in VectorHeaps(t)
      /\ f.block_size >= n
      /\ \A g \in VectorHeaps(t) : g.block_size >= n => g.block_size >= f.block_size
      /\ ~ (n > m_max_size(t))
  <2>1. ConfigsAreSound
    BY DEF SizesInv
  <2> QED BY <1>1, <2>1, FindTinyServes, FindInVectorServes
<1>3. /\ pc' = [pc EXCEPT ![t] = "found"]
      /\ size' = [size EXCEPT ![t] = n]
      /\ h' = [h EXCEPT ![t] = f]
      /\ UNCHANGED <<instanceVars, huge_heaps, made>>
      /\ heap' = heap
  BY <1>1 DEF Find, instanceVars
<1>4. pc'[t] = "found" /\ size'[t] = n /\ h'[t] = f
  BY <1>3 DEF HeapInv
<1>5. VectorHeaps(t)' = VectorHeaps(t) /\ m_max_size(t)' = m_max_size(t)
  BY <1>3 DEF VectorHeaps, m_tiny_heaps, m_heaps, m_config, m_max_size, Elements
<1>6. IsServed(t)'
  BY <1>2, <1>4, <1>5 DEF IsServed
<1>7. RequestIsServed(t)'
  BY <1>4, <1>6 DEF RequestIsServed
<1>8. \A u \in Threads \ {t} : pc'[u] = pc[u] /\ size'[u] = size[u] /\ h'[u] = h[u]
  BY <1>3 DEF HeapInv
<1> QED BY <1>3, <1>7, <1>8, SameMapSizes

(* A huge request waits for the mutex ...                                  *)
LEMMA FindHugeSizes ==
  ASSUME HeapInv, SizesInv, NEW t \in Threads, NEW n \in Requests, FindHuge(t, n)
  PROVE  SizesInv'
<1>1. /\ pc[t] = "idle" /\ IsHuge(t, n) /\ h[t] = NoHeap
      /\ pc' = [pc EXCEPT ![t] = "lock"]
      /\ size' = [size EXCEPT ![t] = n]
      /\ UNCHANGED <<instanceVars, huge_heaps, made>>
      /\ h' = h /\ heap' = heap
  BY DEF FindHuge, CanAsk, SizesInv, RequestIsServed, instanceVars
<1>2. pc'[t] = "lock" /\ size'[t] = n /\ h'[t] = NoHeap /\ NoHeap' = NoHeap
  BY <1>1 DEF HeapInv, NoHeap
<1>3. IsHuge(t, size[t])'
  BY <1>1, <1>2 DEF IsHuge, IsTiny, m_config, m_max_size
<1>4. RequestIsServed(t)'
  BY <1>2, <1>3 DEF RequestIsServed
<1>5. \A u \in Threads \ {t} : pc'[u] = pc[u] /\ size'[u] = size[u] /\ h'[u] = h[u]
  BY <1>1 DEF HeapInv
<1> QED BY <1>1, <1>4, <1>5, SameMapSizes

(* ... and goes on with what it has when it locks and when it unlocks it.  *)
LEMMA LockSizes ==
  ASSUME HeapInv, SizesInv, NEW t \in Threads, Lock(t) \/ Unlock(t)
  PROVE  SizesInv'
<1>1. PICK from, to :
        /\ <<from, to>> \in {<<"lock", "look_up">>, <<"unlock", "found">>}
        /\ pc[t] = from /\ pc' = [pc EXCEPT ![t] = to]
        /\ UNCHANGED <<instanceVars, huge_heaps, made>>
        /\ size' = size /\ h' = h /\ heap' = heap
  BY DEF Lock, Unlock, instanceVars
<1>2. pc'[t] = to /\ NoHeap' = NoHeap /\ RequestIsServed(t)
  BY <1>1 DEF HeapInv, NoHeap, SizesInv
<1>3. IsHuge(t, size[t])' <=> IsHuge(t, size[t])
  BY <1>1 DEF IsHuge, IsTiny, m_config, m_max_size
<1>4. /\ VectorHeaps(t)' = VectorHeaps(t) /\ m_max_size(t)' = m_max_size(t)
      /\ MadeHeaps' = MadeHeaps
  BY <1>1
  DEF VectorHeaps, m_tiny_heaps, m_heaps, m_config, m_max_size, Elements,
      MadeHeaps, NoHeap
<1>5. IsServed(t) => IsServed(t)'
  BY <1>1, <1>4 DEF IsServed
<1>6. RequestIsServed(t)'
  BY <1>1, <1>2, <1>3, <1>5 DEF RequestIsServed
<1>7. \A u \in Threads \ {t} : pc'[u] = pc[u] /\ size'[u] = size[u] /\ h'[u] = h[u]
  BY <1>1 DEF HeapInv
<1> QED BY <1>1, <1>6, <1>7, SameMapSizes

(* allocate returns: the request is over.                                  *)
LEMMA ReturnSizes ==
  ASSUME HeapInv, SizesInv, NEW t \in Threads, Return(t)
  PROVE  SizesInv'
<1>1. /\ pc' = [pc EXCEPT ![t] = "idle"]
      /\ size' = [size EXCEPT ![t] = 0]
      /\ h' = [h EXCEPT ![t] = NoHeap]
      /\ UNCHANGED <<instanceVars, huge_heaps, made>>
  BY DEF Return
<1>2. pc'[t] = "idle" /\ size'[t] = 0 /\ h'[t] = NoHeap /\ NoHeap' = NoHeap
  BY <1>1 DEF HeapInv, NoHeap
<1>3. RequestIsServed(t)'
  BY <1>2 DEF RequestIsServed
<1>4. \A u \in Threads \ {t} : pc'[u] = pc[u] /\ size'[u] = size[u] /\ h'[u] = h[u]
  BY <1>1 DEF HeapInv
<1> QED BY <1>1, <1>3, <1>4, SameMapSizes

(* A thread at the map has a huge request, and the entry for it is one for *)
(* the power of two that is next.                                          *)
LEMMA AtTheMap ==
  ASSUME HeapInv, SizesInv, UsualRequests, NEW t \in Threads, pc[t] = "look_up",
         NEW s \in round_to_pow_of_2(size[t])
  PROVE  /\ size[t] \in Requests /\ size[t] \in Nat /\ IsHuge(t, size[t])
         /\ h[t] = NoHeap
         /\ s \in PowersOf2 /\ s \in Nat
         /\ s >= size[t] /\ s < 2 * size[t]
         /\ \A f \in VectorHeaps(t) : ~ (f.block_size >= size[t])
<1>1. size[t] \in Requests /\ IsHuge(t, size[t]) /\ h[t] = NoHeap
  BY DEF SizesInv, RequestIsServed
<1>2. heap[t] # NoInstance
  BY DEF HeapInv, MutexExcludes
<1>3. size[t] \in Nat
  <2>1. \A n \in Requests : n \in Nat
    BY Widths DEF UsualRequests
  <2> QED BY <1>1, <2>1
<1> QED BY <1>1, <1>2, <1>3, HugeServes DEF SizesInv

(* The thread leaves the map with a heap of such a size.                   *)
LEMMA MapServes ==
  ASSUME HeapInv, SizesInv, UsualRequests, NEW t \in Threads, pc[t] = "look_up",
         NEW s \in round_to_pow_of_2(size[t]),
         UNCHANGED <<size, heap>>, pc'[t] = "unlock",
         h'[t] \in MadeHeaps', h'[t].block_size = s
  PROVE  RequestIsServed(t)'
<1>1. /\ size[t] \in Requests /\ IsHuge(t, size[t])
      /\ s >= size[t] /\ s < 2 * size[t]
      /\ \A f \in VectorHeaps(t) : ~ (f.block_size >= size[t])
  BY AtTheMap
<1>2. IsHuge(t, size[t])'
  BY <1>1 DEF IsHuge, IsTiny, m_config, m_max_size
<1>3. VectorHeaps(t)' = VectorHeaps(t)
  BY DEF VectorHeaps, m_tiny_heaps, m_heaps, m_config, m_max_size, Elements
<1>4. IsServed(t)'
  BY <1>1, <1>3 DEF IsServed
<1> QED BY <1>1, <1>2, <1>4 DEF RequestIsServed

(* The heap of the map is there ...                                        *)
LEMMA LookUpHitSizes ==
  ASSUME HeapInv, SizesInv, UsualRequests, NEW t \in Threads, LookUpHit(t)
  PROVE  SizesInv'
<1>1. PICK s \in round_to_pow_of_2(size[t]) :
        WithEntry(s)[s] # NoHeap /\ h' = [h EXCEPT ![t] = WithEntry(s)[s]]
  BY DEF LookUpHit
<1>2. s \in DOMAIN huge_heaps /\ WithEntry(s)[s] = huge_heaps[s]
  BY <1>1 DEF WithEntry
<1>3. /\ pc[t] = "look_up" /\ pc' = [pc EXCEPT ![t] = "unlock"]
      /\ UNCHANGED <<instanceVars, huge_heaps, made>>
      /\ size' = size /\ heap' = heap
  BY DEF LookUpHit, instanceVars
<1>4. pc'[t] = "unlock" /\ h'[t] = huge_heaps[s]
  BY <1>1, <1>2, <1>3 DEF HeapInv
<1>5. huge_heaps[s] # NoHeap /\ huge_heaps[s].block_size = s
  BY <1>1, <1>2 DEF HeapInv, MapIsBySize
<1>6. h'[t] \in MadeHeaps'
  BY <1>2, <1>3, <1>4, <1>5 DEF MadeHeaps, Elements, NoHeap
<1>7. RequestIsServed(t)'
  BY <1>3, <1>4, <1>5, <1>6, MapServes
<1>8. \A u \in Threads \ {t} : pc'[u] = pc[u] /\ size'[u] = size[u] /\ h'[u] = h[u]
  BY <1>1, <1>3 DEF HeapInv
<1> QED BY <1>3, <1>7, <1>8, SameMapSizes

(* ... or it is made.                                                      *)
LEMMA LookUpMissSizes ==
  ASSUME HeapInv, SizesInv, UsualRequests, NEW t \in Threads, LookUpMiss(t)
  PROVE  SizesInv'
<1> DEFINE f(s) == [id |-> made + 1, block_size |-> s, segment_size |-> s]
<1>1. PICK s \in round_to_pow_of_2(size[t]) :
        /\ WithEntry(s)[s] = NoHeap
        /\ huge_heaps' = [WithEntry(s) EXCEPT ![s] = f(s)]
        /\ h' = [h EXCEPT ![t] = huge_heaps'[s]]
  BY DEF LookUpMiss
<1>2. /\ DOMAIN huge_heaps' = DOMAIN huge_heaps \cup {s}
      /\ huge_heaps'[s] = f(s)
      /\ \A r \in DOMAIN huge_heaps \ {s} : huge_heaps'[r] = huge_heaps[r]
      /\ s \in DOMAIN huge_heaps => huge_heaps[s] = NoHeap
  BY <1>1 DEF WithEntry
<1>3. /\ pc[t] = "look_up" /\ pc' = [pc EXCEPT ![t] = "unlock"]
      /\ made' = made + 1 /\ size' = size /\ UNCHANGED instanceVars
      /\ UNCHANGED <<heap, default_config, instance, stage>>
  BY DEF LookUpMiss, instanceVars, staticVars, callVars
<1>4. made \in Nat /\ s \in PowersOf2
  BY <1>3, AtTheMap DEF HeapInv
<1>5. /\ f(s) # NoHeap /\ f(s).block_size = s
      /\ f(s) \in [id : 1..made', block_size : {s}, segment_size : {s}]
  <2>1. f(s).id = made + 1 /\ NoHeap.id = 0
    BY DEF NoHeap
  <2>2. made + 1 # 0 /\ made + 1 \in 1..made'
    BY <1>3, <1>4
  <2> QED BY <2>1, <2>2
<1> HIDE DEF f
<1>6. NoHeap' = NoHeap
  BY DEF NoHeap
<1>7. MapIsOfPowers'
  <2>1. ASSUME NEW r \in DOMAIN huge_heaps, r # s, huge_heaps[r] # NoHeap
        PROVE  huge_heaps[r] \in [id : 1..made', block_size : {r}, segment_size : {r}]
    <3>1. huge_heaps[r] \in [id : 1..made, block_size : {r}, segment_size : {r}]
      BY <2>1 DEF SizesInv, MapIsOfPowers
    <3>2. 1..made \subseteq 1..made'
      BY <1>3, <1>4
    <3> QED BY <3>1, <3>2
  <2> QED BY <1>2, <1>4, <1>5, <1>6, <2>1 DEF SizesInv, MapIsOfPowers
<1>8. MadeHeaps \subseteq MadeHeaps'
  BY <1>2, MadeHeapsStay
<1>9. pc'[t] = "unlock" /\ h'[t] = f(s)
  BY <1>1, <1>2, <1>3 DEF HeapInv
<1>10. h'[t] \in MadeHeaps'
  BY <1>2, <1>5, <1>6, <1>9 DEF MadeHeaps, Elements
<1>11. RequestIsServed(t)'
  BY <1>3, <1>5, <1>9, <1>10, MapServes
<1>12. \A u \in Threads \ {t} : RequestIsServed(u)'
  <2>1. \A u \in Threads \ {t} : pc'[u] = pc[u] /\ size'[u] = size[u] /\ h'[u] = h[u]
    BY <1>1, <1>3 DEF HeapInv
  <2> QED BY <1>3, <1>8, <2>1, OthersAreServed
<1>13. ConfigsAreSound'
  BY <1>3, SameConfigs DEF SizesInv
<1> QED BY <1>7, <1>11, <1>12, <1>13 DEF SizesInv

(* make_unique throws: the map has a null pointer for the size, and the    *)
(* request is over.                                                        *)
LEMMA MakeThrowsSizes ==
  ASSUME HeapInv, SizesInv, UsualRequests, NEW t \in Threads, MakeThrows(t)
  PROVE  SizesInv'
<1>1. PICK s \in round_to_pow_of_2(size[t]) :
        WithEntry(s)[s] = NoHeap /\ huge_heaps' = WithEntry(s)
  BY DEF MakeThrows
<1>2. /\ DOMAIN huge_heaps' = DOMAIN huge_heaps \cup {s}
      /\ huge_heaps'[s] = NoHeap
      /\ \A r \in DOMAIN huge_heaps : huge_heaps'[r] = huge_heaps[r]
  BY <1>1 DEF WithEntry
<1>3. /\ pc[t] = "look_up" /\ pc' = [pc EXCEPT ![t] = "idle"]
      /\ size' = [size EXCEPT ![t] = 0]
      /\ UNCHANGED <<made, h>>
      /\ UNCHANGED <<heap, default_config, instance, stage>>
  BY DEF MakeThrows, instanceVars, staticVars, callVars
<1>4. s \in PowersOf2 /\ h[t] = NoHeap
  BY <1>3, AtTheMap
<1>5. NoHeap' = NoHeap
  BY DEF NoHeap
<1>6. MapIsOfPowers'
  BY <1>2, <1>3, <1>4, <1>5 DEF SizesInv, MapIsOfPowers
<1>7. MadeHeaps \subseteq MadeHeaps'
  BY <1>2, MadeHeapsStay
<1>8. pc'[t] = "idle" /\ size'[t] = 0 /\ h'[t] = NoHeap
  BY <1>3, <1>4 DEF HeapInv
<1>9. RequestIsServed(t)'
  BY <1>5, <1>8 DEF RequestIsServed
<1>10. \A u \in Threads \ {t} : RequestIsServed(u)'
  <2>1. \A u \in Threads \ {t} : pc'[u] = pc[u] /\ size'[u] = size[u] /\ h'[u] = h[u]
    BY <1>3 DEF HeapInv
  <2> QED BY <1>3, <1>7, <2>1, OthersAreServed
<1>11. ConfigsAreSound'
  BY <1>3, SameConfigs DEF SizesInv
<1> QED BY <1>6, <1>9, <1>10, <1>11 DEF SizesInv


-----------------------------------------------------------------------------
(* The theorems about the sizes                                            *)

(* The process starts without a configuration, a heap or a request.        *)
LEMMA InitSizes == Init => SizesInv
<1>1. SUFFICES ASSUME Init PROVE SizesInv
  OBVIOUS
<1>2. ConfigsAreSound
  BY <1>1 DEF Init, InstanceInit, ConfigsAreSound
<1>3. MapIsOfPowers
  BY <1>1 DEF Init, MapIsOfPowers
<1>4. \A t \in Threads : RequestIsServed(t)
  BY <1>1 DEF Init, RequestIsServed
<1> QED BY <1>2, <1>3, <1>4 DEF SizesInv

(* A step that leaves allocate alone, and the heap of every thread that is *)
(* in allocate.                                                            *)
LEMMA OtherStepSizes ==
  ASSUME SizesInv, ConfigsAreSound', UNCHANGED heapVars,
         \A u \in Threads : pc[u] # "idle" => heap'[u] = heap[u]
  PROVE  SizesInv'
<1>1. UNCHANGED <<huge_heaps, made, pc, size, h>>
  BY DEF heapVars
<1>2. MapIsOfPowers'
  BY <1>1 DEF SizesInv, MapIsOfPowers, NoHeap
<1>3. MadeHeaps \subseteq MadeHeaps'
  BY <1>1 DEF MadeHeaps, Elements, NoHeap
<1>4. ASSUME NEW u \in Threads PROVE RequestIsServed(u)'
  <2>1. RequestIsServed(u)
    BY DEF SizesInv
  <2> QED BY <1>1, <1>3, <2>1, StillServed
<1> QED BY <1>2, <1>4 DEF SizesInv

(* Every step preserves the sizes.                                         *)
LEMMA NextSizes ==
  ASSUME HeapInv, SizesInv, UsualEnvironments, UsualRequests, [Next]_vars
  PROVE  SizesInv'
<1>1. \A u \in Threads : pc[u] # "idle" => heap[u] # NoInstance
  BY DEF HeapInv, MutexExcludes
<1>2. ConfigsAreSound /\ InstanceInv
  BY DEF SizesInv, HeapInv
<1>3. ASSUME NEW e \in Environments, SetEnv(e), UNCHANGED heapVars
      PROVE  SizesInv'
  <2>1. UNCHANGED <<default_config, instance, stage, heap>>
    BY <1>3 DEF SetEnv, callVars
  <2>2. ConfigsAreSound'
    BY <1>2, <2>1, SameConfigs
  <2> QED BY <1>3, <2>1, <2>2, OtherStepSizes
<1>4. ASSUME NEW t \in Threads, InstanceStep(t), UNCHANGED heapVars
      PROVE  SizesInv'
  <2>1. \A u \in Threads : heap[u] # NoInstance => heap'[u] = heap[u]
    BY <1>2, <1>4, InstanceStepInv
  <2>2. ConfigsAreSound'
    BY <1>2, <1>4, InstanceStepConfigs
  <2> QED BY <1>1, <1>4, <2>1, <2>2, OtherStepSizes
<1>5. ASSUME NEW t \in Threads, pc[t] = "idle", Drop(t), UNCHANGED heapVars
      PROVE  SizesInv'
  <2>1. \A u \in Threads : pc[u] # "idle" => heap'[u] = heap[u]
    BY <1>2, <1>5 DEF Drop, InstanceInv
  <2>2. UNCHANGED <<default_config, instance, stage>>
    BY <1>5 DEF Drop, staticVars, callVars
  <2>3. ConfigsAreSound'
    BY <1>2, <2>2, SameConfigs
  <2> QED BY <1>5, <2>1, <2>3, OtherStepSizes
<1>6. ASSUME NEW t \in Threads, NEW n \in Requests,
             FindTiny(t, n) \/ FindInVector(t, n) \/ FindHuge(t, n)
      PROVE  SizesInv'
  BY <1>6, FindSizes, FindHugeSizes
<1>7. ASSUME NEW t \in Threads,
             Lock(t) \/ LookUpHit(t) \/ LookUpMiss(t) \/ MakeThrows(t)
               \/ Unlock(t) \/ Return(t)
      PROVE  SizesInv'
  BY <1>7, LockSizes, LookUpHitSizes, LookUpMissSizes, MakeThrowsSizes, ReturnSizes
<1>8. CASE UNCHANGED vars
  <2>1. UNCHANGED <<default_config, instance, stage, heap>> /\ UNCHANGED heapVars
    BY <1>8 DEF vars, instanceVars, staticVars, callVars
  <2>2. ConfigsAreSound'
    BY <1>2, <2>1, SameConfigs
  <2> QED BY <2>1, <2>2, OtherStepSizes
<1> QED BY <1>3, <1>4, <1>5, <1>6, <1>7, <1>8 DEF Next

(* In environments and for requests an unsigned int can be the power of    *)
(* two for, the configuration is sound, the map has powers of two only,    *)
(* and every thread gets the best heap for its request.                    *)
THEOREM SizesInvariant ==
  ASSUME UsualEnvironments, UsualRequests
  PROVE  Spec => []SizesInv
<1>1. HeapInv /\ SizesInv /\ [Next]_vars => SizesInv'
  BY NextSizes
<1> QED BY InitSizes, HeapInvariant, <1>1, PTL DEF Spec

(* The fixed_size_heap a request is sent to exists, and its blocks are     *)
(* large enough: no index of allocate is past the end of its vector.       *)
THEOREM BlockFitsRequestTheorem ==
  ASSUME UsualEnvironments, UsualRequests
  PROVE  Spec => []BlockFitsRequest
<1>1. ASSUME HeapInv, SizesInv PROVE BlockFitsRequest
  <2>1. SUFFICES ASSUME NEW t \in Threads, pc[t] = "found"
                 PROVE  h[t] \notin {NoHeap, OutOfRange} /\ h[t].block_size >= size[t]
    BY DEF BlockFitsRequest
  <2>2. IsServed(t) /\ heap[t] # NoInstance
    BY <1>1, <2>1 DEF SizesInv, RequestIsServed, HeapInv, MutexExcludes
  <2>3. h[t] \in VectorHeaps(t) \/ h[t] \in MadeHeaps
    BY <2>2 DEF IsServed
  <2>4. ConfigsAreSound /\ MapIsOfPowers /\ made \in Nat
    BY <1>1 DEF SizesInv, HeapInv
  <2>5. h[t] # NoHeap /\ h[t] # OutOfRange
    BY <1>1, <2>2, <2>3, <2>4, VectorHeapsAreHeaps, MadeHeapsAreHeaps
  <2> QED BY <2>2, <2>5 DEF IsServed
<1> QED BY HeapInvariant, SizesInvariant, <1>1, PTL

(* It is the one with the smallest blocks that will do, and a block of the *)
(* map is less than twice the request.                                     *)
THEOREM SmallestFitTheorem ==
  ASSUME UsualEnvironments, UsualRequests
  PROVE  Spec => []SmallestFit
<1>1. SizesInv => SmallestFit
  BY DEF SizesInv, RequestIsServed, IsServed, SmallestFit
<1> QED BY SizesInvariant, <1>1, PTL

(* Every fixed_size_heap of the vectors and of the map gets a block out of *)
(* each segment, so that the loop of pool::allocate ends.                  *)
THEOREM SegmentsHoldBlocksTheorem ==
  ASSUME UsualEnvironments, UsualRequests
  PROVE  Spec => []SegmentsHoldBlocks
<1>1. ASSUME HeapInv, SizesInv PROVE SegmentsHoldBlocks
  <2>1. ConfigsAreSound /\ MapIsOfPowers /\ made \in Nat
    BY <1>1 DEF SizesInv, HeapInv
  <2> QED
    BY <1>1, <2>1, VectorHeapsAreHeaps, MadeHeapsAreHeaps DEF SegmentsHoldBlocks
<1> QED BY HeapInvariant, SizesInvariant, <1>1, PTL

(* Type correctness of the heap.                                           *)
THEOREM HeapTypeCorrect ==
  ASSUME UsualEnvironments, UsualRequests
  PROVE  Spec => []TypeOK
<1> DEFINE SizesAreRequests == size \in [Threads -> Requests \cup {0}]
<1>1. Spec => []SizesAreRequests
  <2>1. Init => SizesAreRequests
    BY DEF Init
  <2>2. SizesAreRequests /\ [Next]_vars => SizesAreRequests'
    BY DEF Next, vars, heapVars, FindTiny, FindInVector, Find, FindHuge, Lock,
           LookUpHit, LookUpMiss, MakeThrows, Unlock, Return
  <2> HIDE DEF SizesAreRequests
  <2> QED BY <2>1, <2>2, PTL DEF Spec
<1>2. ASSUME HeapInv, SizesInv, SizesAreRequests PROVE TypeOK
  <2>1. InstanceTypeOK /\ made \in Nat /\ mutex \in Threads \cup {NoThread}
    BY <1>2 DEF HeapInv, InstanceInv
  <2>2. pc \in [Threads -> {"idle", "lock", "look_up", "unlock", "found"}]
    BY <1>2 DEF HeapInv
  <2>3. DOMAIN huge_heaps \subseteq 0..(2^SizeBits - 1)
    <3>1. ASSUME NEW k \in 1..(UIntBits - 1) PROVE 2^k \in 0..(2^SizeBits - 1)
      <4>1. k \in Nat /\ UIntBits - 1 \in Nat /\ k <= UIntBits - 1
        BY Widths
      <4>2. 2^k <= 2^(UIntBits - 1) /\ 2^k \in Nat
        BY <4>1, PowerIsMonotonic, PowerIsPositive
      <4> QED BY <4>2, Widths
    <3> QED BY <1>2, <3>1 DEF SizesInv, MapIsOfPowers, PowersOf2
  <2>4. \A f \in MadeHeaps : f.id \in 1..made
    BY <1>2, <2>1, MadeHeapsAreHeaps DEF SizesInv
  <2>5. \A t \in Threads : h[t] \in
          {NoHeap} \cup IF pc[t] = "idle" THEN {} ELSE VectorHeaps(t) \cup MadeHeaps
    BY <1>2, <2>2 DEF SizesInv, RequestIsServed, IsServed
  <2> QED BY <1>2, <2>1, <2>2, <2>3, <2>4, <2>5 DEF TypeOK
<1> QED BY HeapInvariant, SizesInvariant, <1>1, <1>2, PTL

=============================================================================
