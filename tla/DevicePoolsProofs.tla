------------------------- MODULE DevicePoolsProofs -------------------------
(***************************************************************************)
(* Proofs about module DevicePools, for any number of threads, nodes and   *)
(* devices: a client gets memory of the device it asked for, it keeps its  *)
(* own device, and at most one piece of device memory is lost in a pool.   *)
(***************************************************************************)
EXTENDS DevicePools, FiniteSetTheorems, TLAPS

-----------------------------------------------------------------------------
(* The pools of the constructor                                            *)

(* An index counts all the devices of the nodes before it.                 *)
LEMMA RowsBefore ==
  ASSUME NEW n \in Nat, NEW i \in Nat, NEW m \in Nat, i < m
  PROVE  i * n + n <= m * n
<1>1. PICK j \in Nat : m = i + 1 + j
  <2>1. m - (i + 1) \in Nat /\ m = i + 1 + (m - (i + 1))
    OBVIOUS
  <2> QED BY <2>1
<1>2. m * n = i * n + n + j * n
  BY <1>1
<1>3. j * n \in Nat /\ i * n \in Nat
  OBVIOUS
<1> QED BY <1>2, <1>3

(* The remainder of an index is the device.                                *)
LEMMA RemainderIsDevice ==
  ASSUME NEW n \in Nat \ {0}, NEW i \in Nat, NEW d \in 0..(n - 1)
  PROVE  (i * n + d) % n = d
<1> DEFINE a == i * n + d
           q == a \div n
           r == a % n
<1>1. a \in Nat /\ i * n \in Nat
  OBVIOUS
<1>2. q \in Int /\ r \in 0..(n - 1) /\ a = n * q + r
  BY <1>1
<1> HIDE DEF q, r
<1>3. q \in Nat
  <2>1. ASSUME q < 0 PROVE FALSE
    <3>1. PICK p \in Nat : q = -1 - p
      <4>1. -1 - q \in Nat /\ q = -1 - (-1 - q)
        BY <1>2, <2>1
      <4> QED BY <4>1
    <3>2. n * q = - n - n * p /\ n * p \in Nat
      BY <3>1
    <3> QED BY <1>1, <1>2, <3>2
  <2> QED BY <1>2, <2>1
<1>4. n * q = q * n /\ q * n \in Nat
  BY <1>3
<1>5. ~ (q < i)
  <2>1. ASSUME q < i PROVE FALSE
    <3>1. q * n + n <= i * n
      BY <1>3, <2>1, RowsBefore
    <3> QED BY <1>1, <1>2, <1>4, <3>1
  <2> QED BY <2>1
<1>6. ~ (i < q)
  <2>1. ASSUME i < q PROVE FALSE
    <3>1. i * n + n <= q * n
      BY <1>3, <2>1, RowsBefore
    <3> QED BY <1>1, <1>2, <1>4, <3>1
  <2> QED BY <2>1
<1>7. q = i
  BY <1>3, <1>5, <1>6
<1> QED BY <1>1, <1>2, <1>4, <1>7 DEF r

(* There are devices and pools, and the pool a request goes to is one of   *)
(* the device it asks for.                                                 *)
LEMMA PoolsOfDevices ==
  /\ 0 \in Devices /\ 0 \in Pools /\ NoDevice \notin Devices
  /\ Pools \subseteq Nat
  /\ \A k \in Pools : m_device_id(k) \in Devices
  /\ \A i \in NodeIndices : \A d \in Devices :
       pool_index(i, d) \in Pools /\ m_device_id(pool_index(i, d)) = d
<1>1. /\ NumNodes \in Nat \ {0} /\ NumDevices \in Nat \ {0}
      /\ NodeIndices \subseteq 0..(NumNodes - 1)
  BY DevicePoolsAssumption
<1>2. NumNodes * NumDevices \in Nat
  BY <1>1
<1>3. 0 * NumDevices + NumDevices <= NumNodes * NumDevices
  BY <1>1, RowsBefore
<1>4. 0 \in Devices /\ NoDevice \notin Devices
  BY <1>1 DEF Devices, NoDevice
<1>5. Pools \subseteq Nat /\ 0 \in Pools
  BY <1>1, <1>2, <1>3 DEF Pools
<1>6. ASSUME NEW k \in Pools
      PROVE  m_device_id(k) \in Devices
  BY <1>1, <1>5 DEF m_device_id, Devices
<1>7. ASSUME NEW i \in NodeIndices, NEW d \in Devices
      PROVE  pool_index(i, d) \in Pools /\ m_device_id(pool_index(i, d)) = d
  <2>1. i \in Nat /\ i < NumNodes /\ d \in 0..(NumDevices - 1)
    BY <1>1 DEF Devices
  <2>2. i * NumDevices + NumDevices <= NumNodes * NumDevices
    BY <1>1, <2>1, RowsBefore
  <2>3. i * NumDevices \in Nat
    BY <1>1, <2>1
  <2>4. pool_index(i, d) \in Pools
    BY <1>1, <1>2, <2>1, <2>2, <2>3 DEF pool_index, Pools
  <2>5. (i * NumDevices + d) % NumDevices = d
    BY <1>1, <2>1, RemainderIsDevice
  <2> QED BY <2>4, <2>5 DEF pool_index, m_device_id
<1> QED BY <1>4, <1>5, <1>6, <1>7

USE DEF Goto, Leave, Throw, set_device_id, runtimeVars, clientVars, poolVars, localVars

-----------------------------------------------------------------------------
(* allocate                                                                *)

(* The client sets the device of its thread, which is in no call.          *)
LEMMA ClientSetsDeviceInv ==
  ASSUME DeviceInv, NEW t \in Threads, NEW id \in Devices, ClientSetsDevice(t, id)
  PROVE  DeviceInv'
BY PoolsOfDevices, DevicePoolsAssumption
DEF DeviceInv, TypeOK, ThreadsUseTheirPool, ThreadsSwitchBack,
    SegmentsAreOnTheirDevice, ThreadsHaveTheirMemory, HasMemory, BlocksAreInSegments,
    LockedPcs, AllocatePcs, SwitchedPcs,
    ClientSetsDevice

(* The pool is one of the device that is asked for.                        *)
LEMMA AllocateInv ==
  ASSUME DeviceInv, NEW t \in Threads, NEW i \in NodeIndices, NEW d \in Devices, Allocate(t, i, d)
  PROVE  DeviceInv'
BY PoolsOfDevices, DevicePoolsAssumption
DEF DeviceInv, TypeOK, ThreadsUseTheirPool, ThreadsSwitchBack,
    SegmentsAreOnTheirDevice, ThreadsHaveTheirMemory, HasMemory, BlocksAreInSegments,
    LockedPcs, AllocatePcs, SwitchedPcs,
    Allocate

(* The block a thread pops is on the device the client asked for, and its  *)
(* segment is not the one another thread is erasing.                       *)
LEMMA PopIsServed ==
  ASSUME DeviceInv, NEW t \in Threads, pc[t] \in {"pop", "pop_locked"}, Pop(t)
  PROVE  /\ owned' \subseteq [memory : DeviceMemory, device : Devices]
         /\ \A b \in owned' :
              /\ \E k \in Pools : b.memory \in m_segments[k] /\ b.device = m_device_id(k)
              /\ \A u \in Threads : pc[u] = "erase" => b.memory # device_ptr[u]
<1>1. PICK x \in m_segments[pool[t]] :
        /\ \A u \in Threads : pc[u] = "erase" => device_ptr[u] # x
        /\ owned' = owned \cup {[memory |-> x, device |-> device_id[t]]}
  BY DEF Pop
<1>2. pool[t] \in Pools /\ x \in DeviceMemory /\ device_id[t] \in Devices
  BY DEF DeviceInv, TypeOK
<1>3. device_id[t] = m_device_id(pool[t])
  BY DEF DeviceInv, ThreadsUseTheirPool, AllocatePcs
<1> QED
  BY <1>1, <1>2, <1>3 DEF DeviceInv, TypeOK, BlocksAreInSegments

(* A block is popped without the mutex ...                                 *)
LEMMA PopHitInv ==
  ASSUME DeviceInv, NEW t \in Threads, PopHit(t)
  PROVE  DeviceInv'
<1>1. pc[t] = "pop" /\ Pop(t)
  BY DEF PopHit
<1>2. TypeOK'
  BY <1>1, PopIsServed, PoolsOfDevices DEF DeviceInv, TypeOK, LockedPcs, PopHit, Pop
<1>3. BlocksAreInSegments'
  BY <1>1, PopIsServed DEF DeviceInv, TypeOK, BlocksAreInSegments, PopHit, Pop
<1>4. /\ ThreadsUseTheirPool' /\ ThreadsSwitchBack'
      /\ SegmentsAreOnTheirDevice' /\ ThreadsHaveTheirMemory'
  BY PoolsOfDevices, DevicePoolsAssumption
  DEF DeviceInv, TypeOK, ThreadsUseTheirPool, ThreadsSwitchBack,
      SegmentsAreOnTheirDevice, ThreadsHaveTheirMemory, HasMemory,
      LockedPcs, AllocatePcs, SwitchedPcs, PopHit, Pop
<1> QED BY <1>2, <1>3, <1>4 DEF DeviceInv

(* There is none: m_mutex is locked by one thread at a time.               *)
LEMMA PopMissInv ==
  ASSUME DeviceInv, NEW t \in Threads, PopMiss(t)
  PROVE  DeviceInv'
BY PoolsOfDevices, DevicePoolsAssumption
DEF DeviceInv, TypeOK, ThreadsUseTheirPool, ThreadsSwitchBack,
    SegmentsAreOnTheirDevice, ThreadsHaveTheirMemory, HasMemory, BlocksAreInSegments,
    LockedPcs, AllocatePcs, SwitchedPcs,
    PopMiss, Lock

(* ... or with it.                                                         *)
LEMMA PopLockedHitInv ==
  ASSUME DeviceInv, NEW t \in Threads, PopLockedHit(t)
  PROVE  DeviceInv'
<1>1. pc[t] = "pop_locked" /\ Pop(t)
  BY DEF PopLockedHit
<1>2. TypeOK'
  BY <1>1, PopIsServed, PoolsOfDevices DEF DeviceInv, TypeOK, LockedPcs, PopLockedHit, Pop
<1>3. BlocksAreInSegments'
  BY <1>1, PopIsServed DEF DeviceInv, TypeOK, BlocksAreInSegments, PopLockedHit, Pop
<1>4. /\ ThreadsUseTheirPool' /\ ThreadsSwitchBack'
      /\ SegmentsAreOnTheirDevice' /\ ThreadsHaveTheirMemory'
  BY PoolsOfDevices, DevicePoolsAssumption
  DEF DeviceInv, TypeOK, ThreadsUseTheirPool, ThreadsSwitchBack,
      SegmentsAreOnTheirDevice, ThreadsHaveTheirMemory, HasMemory,
      LockedPcs, AllocatePcs, SwitchedPcs, PopLockedHit, Pop
<1> QED BY <1>2, <1>3, <1>4 DEF DeviceInv

(* A segment is to be added ...                                            *)
LEMMA PopLockedMissInv ==
  ASSUME DeviceInv, NEW t \in Threads, PopLockedMiss(t)
  PROVE  DeviceInv'
BY PoolsOfDevices, DevicePoolsAssumption
DEF DeviceInv, TypeOK, ThreadsUseTheirPool, ThreadsSwitchBack,
    SegmentsAreOnTheirDevice, ThreadsHaveTheirMemory, HasMemory, BlocksAreInSegments,
    LockedPcs, AllocatePcs, SwitchedPcs,
    PopLockedMiss

(* ... but there is no memory on the node.                                 *)
LEMMA AddSegmentThrowsInv ==
  ASSUME DeviceInv, NEW t \in Threads, AddSegmentThrows(t)
  PROVE  DeviceInv'
BY PoolsOfDevices, DevicePoolsAssumption
DEF DeviceInv, TypeOK, ThreadsUseTheirPool, ThreadsSwitchBack,
    SegmentsAreOnTheirDevice, ThreadsHaveTheirMemory, HasMemory, BlocksAreInSegments,
    LockedPcs, AllocatePcs, SwitchedPcs,
    AddSegmentThrows

(* The switch to the device of the pool throws, and may have happened.     *)
LEMMA SwitchThrowsInv ==
  ASSUME DeviceInv, NEW t \in Threads, SwitchThrows(t)
  PROVE  DeviceInv'
<1>1. m_device_id(pool[t]) \in Devices
  BY PoolsOfDevices DEF DeviceInv, TypeOK
<1>2. current' \in [Threads -> Devices]
  BY <1>1 DEF DeviceInv, TypeOK, SwitchThrows, SetDeviceThrows
<1>3. TypeOK'
  <2>1. /\ Throw(t, "switch") /\ UNCHANGED on_device
    BY DEF SwitchThrows, SetDeviceThrows
  <2> QED BY <1>2, <2>1, PoolsOfDevices DEF DeviceInv, TypeOK, LockedPcs
<1>4. /\ ThreadsUseTheirPool' /\ ThreadsSwitchBack' /\ BlocksAreInSegments'
      /\ SegmentsAreOnTheirDevice' /\ ThreadsHaveTheirMemory'
  BY PoolsOfDevices, DevicePoolsAssumption
  DEF DeviceInv, TypeOK, ThreadsUseTheirPool, ThreadsSwitchBack,
      SegmentsAreOnTheirDevice, ThreadsHaveTheirMemory, HasMemory, BlocksAreInSegments,
      LockedPcs, AllocatePcs, SwitchedPcs, SwitchThrows, SetDeviceThrows
<1> QED BY <1>3, <1>4 DEF DeviceInv

(* The device of the pool becomes current, and tmp has the client's own.   *)
LEMMA SwitchToAllocateInv ==
  ASSUME DeviceInv, NEW t \in Threads, SwitchToAllocate(t)
  PROVE  DeviceInv'
<1>1. m_device_id(pool[t]) \in Devices
  BY PoolsOfDevices DEF DeviceInv, TypeOK
<1>2. TypeOK'
  BY <1>1 DEF DeviceInv, TypeOK, LockedPcs, SwitchToAllocate, SwitchDevice
<1>3. /\ ThreadsUseTheirPool' /\ ThreadsSwitchBack' /\ BlocksAreInSegments'
      /\ SegmentsAreOnTheirDevice' /\ ThreadsHaveTheirMemory'
  BY PoolsOfDevices, DevicePoolsAssumption
  DEF DeviceInv, TypeOK, ThreadsUseTheirPool, ThreadsSwitchBack,
      SegmentsAreOnTheirDevice, ThreadsHaveTheirMemory, HasMemory, BlocksAreInSegments,
      LockedPcs, AllocatePcs, SwitchedPcs, SwitchToAllocate, SwitchDevice
<1> QED BY <1>2, <1>3 DEF DeviceInv

(* Memory that was free is of no segment, and no thread has it.            *)
LEMMA FreeMemoryHasNoOwner ==
  ASSUME DeviceInv, NEW x \in DeviceMemory, on_device[x] = NoDevice
  PROVE  /\ \A k \in Pools : x \notin m_segments[k]
         /\ \A u \in Threads : HasMemory(u) => device_ptr[u] # x
<1>1. \A k \in Pools : x \notin m_segments[k]
  BY PoolsOfDevices DEF DeviceInv, SegmentsAreOnTheirDevice
<1>2. \A u \in Threads : HasMemory(u) => device_ptr[u] # x
  <2>1. ASSUME NEW u \in Threads, HasMemory(u)
        PROVE  m_device_id(pool[u]) # NoDevice
    BY PoolsOfDevices DEF DeviceInv, TypeOK
  <2> QED BY <2>1 DEF DeviceInv, ThreadsHaveTheirMemory
<1> QED BY <1>1, <1>2

(* Memory of the current device, which is the one of the pool.             *)
LEMMA DeviceMallocInv ==
  ASSUME DeviceInv, NEW t \in Threads, NEW x \in DeviceMemory, DeviceMalloc(t, x)
  PROVE  DeviceInv'
<1>1. /\ pc[t] = "malloc" /\ pc' = [pc EXCEPT ![t] = "register"]
      /\ on_device[x] = NoDevice
      /\ on_device' = [on_device EXCEPT ![x] = current[t]]
      /\ device_ptr' = [device_ptr EXCEPT ![t] = x]
      /\ UNCHANGED <<current, clientVars, poolVars, device_id, pool, tmp>>
  BY DEF DeviceMalloc, device_malloc
<1>2. current[t] = m_device_id(pool[t])
  BY <1>1 DEF DeviceInv, ThreadsSwitchBack, SwitchedPcs
<1>3. /\ \A k \in Pools : x \notin m_segments[k]
      /\ \A u \in Threads : HasMemory(u) => device_ptr[u] # x
  BY <1>1, FreeMemoryHasNoOwner
<1>4. ThreadsHaveTheirMemory'
  <2>1. \A u \in Threads \ {t} :
          (HasMemory(u)' <=> HasMemory(u)) /\ device_ptr'[u] = device_ptr[u]
    BY <1>1 DEF DeviceInv, TypeOK, HasMemory
  <2>2. device_ptr'[t] = x /\ on_device'[x] = m_device_id(pool[t])
    BY <1>1, <1>2 DEF DeviceInv, TypeOK
  <2>3. \A y \in DeviceMemory \ {x} : on_device'[y] = on_device[y]
    BY <1>1 DEF DeviceInv, TypeOK
  <2> QED
    BY <1>1, <1>3, <2>1, <2>2, <2>3 DEF DeviceInv, ThreadsHaveTheirMemory
<1>5. /\ TypeOK' /\ ThreadsUseTheirPool' /\ ThreadsSwitchBack'
      /\ SegmentsAreOnTheirDevice' /\ BlocksAreInSegments'
  BY <1>1, <1>3
  DEF DeviceInv, TypeOK, ThreadsUseTheirPool, ThreadsSwitchBack,
      SegmentsAreOnTheirDevice, BlocksAreInSegments,
      LockedPcs, AllocatePcs, SwitchedPcs
<1> QED BY <1>4, <1>5 DEF DeviceInv

(* The runtime throws, and may have given memory that nobody knows of.     *)
LEMMA DeviceMallocThrowsInv ==
  ASSUME DeviceInv, NEW t \in Threads, DeviceMallocThrows(t)
  PROVE  DeviceInv'
<1>1. current[t] \in Devices
  BY DEF DeviceInv, TypeOK
<1>2. \A k \in Pools : \A x \in m_segments[k] : on_device'[x] = on_device[x]
  BY FreeMemoryHasNoOwner
  DEF DeviceInv, TypeOK, DeviceMallocThrows, device_malloc
<1>3. \A u \in Threads : HasMemory(u) => on_device'[device_ptr[u]] = on_device[device_ptr[u]]
  BY FreeMemoryHasNoOwner
  DEF DeviceInv, TypeOK, ThreadsHaveTheirMemory, DeviceMallocThrows, device_malloc
<1>4. \A u \in Threads : HasMemory(u)' => HasMemory(u) /\ device_ptr'[u] = device_ptr[u]
                                         /\ pool'[u] = pool[u]
  BY DEF DeviceInv, TypeOK, HasMemory, DeviceMallocThrows
<1>5. ThreadsHaveTheirMemory'
  BY <1>3, <1>4 DEF DeviceInv, ThreadsHaveTheirMemory, DeviceMallocThrows
<1>6. on_device' \in [DeviceMemory -> Devices \cup {NoDevice}]
  BY <1>1 DEF DeviceInv, TypeOK, DeviceMallocThrows, device_malloc
<1>7. /\ TypeOK' /\ ThreadsUseTheirPool' /\ ThreadsSwitchBack'
      /\ SegmentsAreOnTheirDevice' /\ BlocksAreInSegments'
  BY <1>2, <1>6, PoolsOfDevices
  DEF DeviceInv, TypeOK, ThreadsUseTheirPool, ThreadsSwitchBack,
      SegmentsAreOnTheirDevice, BlocksAreInSegments,
      LockedPcs, AllocatePcs, SwitchedPcs, DeviceMallocThrows
<1> QED BY <1>5, <1>7 DEF DeviceInv

(* The Context throws: the memory is nobody's any more.                    *)
LEMMA RegisterThrowsInv ==
  ASSUME DeviceInv, NEW t \in Threads, RegisterThrows(t)
  PROVE  DeviceInv'
BY PoolsOfDevices, DevicePoolsAssumption
DEF DeviceInv, TypeOK, ThreadsUseTheirPool, ThreadsSwitchBack,
    SegmentsAreOnTheirDevice, ThreadsHaveTheirMemory, HasMemory, BlocksAreInSegments,
    LockedPcs, AllocatePcs, SwitchedPcs,
    RegisterThrows

(* The memory of a segment that was not built is freed, by the one thread  *)
(* that has it.                                                            *)
LEMMA ConstructThrowsInv ==
  ASSUME DeviceInv, NEW t \in Threads, ConstructThrows(t)
  PROVE  DeviceInv'
<1> DEFINE x == device_ptr[t]
<1>1. /\ pc[t] = "register" /\ pc' = [pc EXCEPT ![t] = "idle"]
      /\ on_device' = [on_device EXCEPT ![x] = NoDevice]
      /\ UNCHANGED <<current, poolVars>>
      /\ \A u \in Threads \ {t} : pool'[u] = pool[u] /\ device_ptr'[u] = device_ptr[u]
  BY DEF ConstructThrows, device_free, DeviceInv, TypeOK
<1>2. /\ x \in DeviceMemory
      /\ \A j \in Pools : x \notin m_segments[j]
      /\ \A u \in Threads : HasMemory(u) /\ device_ptr[u] = x => u = t
  BY <1>1 DEF DeviceInv, ThreadsHaveTheirMemory, HasMemory
<1>3. \A y \in DeviceMemory \ {x} : on_device'[y] = on_device[y]
  BY <1>1 DEF DeviceInv, TypeOK
<1>4. TypeOK'
  <2>1. on_device' \in [DeviceMemory -> Devices \cup {NoDevice}]
    BY <1>1 DEF DeviceInv, TypeOK
  <2>2. {current, chosen, device_id, tmp}' \subseteq [Threads -> Devices]
    BY PoolsOfDevices DEF DeviceInv, TypeOK, ConstructThrows
  <2>3. /\ failed' \subseteq Threads /\ pool' \in [Threads -> Pools]
        /\ device_ptr' \in [Threads -> DeviceMemory \cup {NoMemory}]
        /\ pc' \in [Threads -> LockedPcs \cup {"idle", "pop", "free_lock"}]
        /\ UNCHANGED <<registered, m_segments, mutex, owned>>
    BY PoolsOfDevices, DevicePoolsAssumption DEF DeviceInv, TypeOK, ConstructThrows
  <2> QED BY <2>1, <2>2, <2>3 DEF DeviceInv, TypeOK
<1>5. ThreadsUseTheirPool' /\ ThreadsSwitchBack' /\ BlocksAreInSegments'
  BY DEF DeviceInv, TypeOK, ThreadsUseTheirPool, ThreadsSwitchBack,
         BlocksAreInSegments, LockedPcs, AllocatePcs, SwitchedPcs, ConstructThrows
<1> HIDE DEF x
<1>6. SegmentsAreOnTheirDevice'
  BY <1>1, <1>2, <1>3 DEF DeviceInv, TypeOK, SegmentsAreOnTheirDevice
<1>7. ThreadsHaveTheirMemory'
  <2>1. \A u \in Threads : HasMemory(u)' => u # t /\ HasMemory(u)
    BY <1>1 DEF DeviceInv, TypeOK, HasMemory
  <2> QED
    BY <1>1, <1>2, <1>3, <2>1 DEF DeviceInv, ThreadsHaveTheirMemory
<1> QED BY <1>4, <1>5, <1>6, <1>7 DEF DeviceInv

(* The segment of a pool is on its device, and the thread gives it away.   *)
LEMMA InsertInv ==
  ASSUME DeviceInv, NEW t \in Threads, Insert(t)
  PROVE  DeviceInv'
<1> DEFINE x == device_ptr[t]
           k == pool[t]
<1>1. /\ pc[t] = "register" /\ pc' = [pc EXCEPT ![t] = "switch_back"]
      /\ registered' = registered \cup {x}
      /\ m_segments' = [m_segments EXCEPT ![k] = @ \cup {x}]
      /\ device_ptr' = [device_ptr EXCEPT ![t] = NoMemory]
      /\ UNCHANGED <<runtimeVars, clientVars, mutex, device_id, pool, tmp>>
  BY DEF Insert
<1>2. /\ k \in Pools /\ x \in DeviceMemory
      /\ on_device[x] = m_device_id(k)
      /\ \A j \in Pools : x \notin m_segments[j]
      /\ \A u \in Threads : HasMemory(u) /\ device_ptr[u] = x => u = t
  BY <1>1 DEF DeviceInv, TypeOK, ThreadsHaveTheirMemory, HasMemory
<1>3. /\ \A j \in Pools : m_segments'[j] = m_segments[j] \cup IF j = k THEN {x} ELSE {}
      /\ DOMAIN m_segments' = Pools
  BY <1>1, <1>2 DEF DeviceInv, TypeOK
<1> HIDE DEF x, k
<1>4. TypeOK'
  <2>1. m_segments' \in [Pools -> SUBSET DeviceMemory]
    BY <1>1, <1>2 DEF DeviceInv, TypeOK
  <2> QED BY <1>1, <1>2, <2>1 DEF DeviceInv, TypeOK, LockedPcs
<1>5. SegmentsAreOnTheirDevice'
  BY <1>1, <1>2, <1>3 DEF DeviceInv, SegmentsAreOnTheirDevice
<1>6. ThreadsHaveTheirMemory'
  <2>1. \A u \in Threads : HasMemory(u)' => u # t /\ HasMemory(u)
                                            /\ device_ptr'[u] = device_ptr[u]
    BY <1>1 DEF DeviceInv, TypeOK, HasMemory
  <2> QED
    BY <1>1, <1>2, <1>3, <2>1 DEF DeviceInv, ThreadsHaveTheirMemory
<1>7. BlocksAreInSegments'
  BY <1>1, <1>3 DEF DeviceInv, TypeOK, BlocksAreInSegments
<1>8. ThreadsUseTheirPool' /\ ThreadsSwitchBack'
  BY <1>1
  DEF DeviceInv, TypeOK, ThreadsUseTheirPool, ThreadsSwitchBack,
      LockedPcs, AllocatePcs, SwitchedPcs
<1> QED BY <1>4, <1>5, <1>6, <1>7, <1>8 DEF DeviceInv

(* The device of the client is current again ...                           *)
LEMMA SwitchBackAllocatedInv ==
  ASSUME DeviceInv, NEW t \in Threads, SwitchBackAllocated(t)
  PROVE  DeviceInv'
BY PoolsOfDevices, DevicePoolsAssumption
DEF DeviceInv, TypeOK, ThreadsUseTheirPool, ThreadsSwitchBack,
    SegmentsAreOnTheirDevice, ThreadsHaveTheirMemory, HasMemory, BlocksAreInSegments,
    LockedPcs, AllocatePcs, SwitchedPcs,
    SwitchBackAllocated, SwitchBack

(* ... or the runtime throws.                                              *)
LEMMA SwitchBackThrowsInv ==
  ASSUME DeviceInv, NEW t \in Threads, SwitchBackThrows(t)
  PROVE  DeviceInv'
BY PoolsOfDevices, DevicePoolsAssumption
DEF DeviceInv, TypeOK, ThreadsUseTheirPool, ThreadsSwitchBack,
    SegmentsAreOnTheirDevice, ThreadsHaveTheirMemory, HasMemory, BlocksAreInSegments,
    LockedPcs, AllocatePcs, SwitchedPcs,
    SwitchBackThrows, SetDeviceThrows

-----------------------------------------------------------------------------
(* free                                                                    *)

(* A block is freed to the pool its segment is in.                         *)
LEMMA FreeInv ==
  ASSUME DeviceInv, NEW t \in Threads, NEW b \in owned, Free(t, b)
  PROVE  DeviceInv'
<1>1. \E k \in Pools : b.memory \in m_segments[k]
  BY DEF DeviceInv, BlocksAreInSegments
<1>2. PICK k \in Pools : pool' = [pool EXCEPT ![t] = k]
  BY <1>1 DEF Free
<1>3. b.memory \in DeviceMemory
  BY DEF DeviceInv, TypeOK
<1>4. TypeOK'
  BY <1>2, <1>3 DEF DeviceInv, TypeOK, LockedPcs, Free
<1>5. /\ ThreadsUseTheirPool' /\ ThreadsSwitchBack' /\ BlocksAreInSegments'
      /\ SegmentsAreOnTheirDevice' /\ ThreadsHaveTheirMemory'
  BY PoolsOfDevices, DevicePoolsAssumption
  DEF DeviceInv, TypeOK, ThreadsUseTheirPool, ThreadsSwitchBack,
      SegmentsAreOnTheirDevice, ThreadsHaveTheirMemory, HasMemory, BlocksAreInSegments,
      LockedPcs, AllocatePcs, SwitchedPcs, Free
<1> QED BY <1>4, <1>5 DEF DeviceInv

(* The segment is not empty.                                               *)
LEMMA FreeReturnsInv ==
  ASSUME DeviceInv, NEW t \in Threads, FreeReturns(t)
  PROVE  DeviceInv'
BY PoolsOfDevices, DevicePoolsAssumption
DEF DeviceInv, TypeOK, ThreadsUseTheirPool, ThreadsSwitchBack,
    SegmentsAreOnTheirDevice, ThreadsHaveTheirMemory, HasMemory, BlocksAreInSegments,
    LockedPcs, AllocatePcs, SwitchedPcs,
    FreeReturns

(* m_mutex is locked by one thread at a time.                              *)
LEMMA FreeLockInv ==
  ASSUME DeviceInv, NEW t \in Threads, FreeLock(t)
  PROVE  DeviceInv'
BY PoolsOfDevices, DevicePoolsAssumption
DEF DeviceInv, TypeOK, ThreadsUseTheirPool, ThreadsSwitchBack,
    SegmentsAreOnTheirDevice, ThreadsHaveTheirMemory, HasMemory, BlocksAreInSegments,
    LockedPcs, AllocatePcs, SwitchedPcs,
    FreeLock, Lock

(* The segment is not empty any more, or not there.                        *)
LEMMA RecheckKeepInv ==
  ASSUME DeviceInv, NEW t \in Threads, RecheckKeep(t)
  PROVE  DeviceInv'
BY PoolsOfDevices, DevicePoolsAssumption
DEF DeviceInv, TypeOK, ThreadsUseTheirPool, ThreadsSwitchBack,
    SegmentsAreOnTheirDevice, ThreadsHaveTheirMemory, HasMemory, BlocksAreInSegments,
    LockedPcs, AllocatePcs, SwitchedPcs,
    RecheckKeep

(* A segment no client has a block of is to be erased.                     *)
LEMMA SwitchToFreeInv ==
  ASSUME DeviceInv, NEW t \in Threads, SwitchToFree(t)
  PROVE  DeviceInv'
<1>1. m_device_id(pool[t]) \in Devices
  BY PoolsOfDevices DEF DeviceInv, TypeOK
<1>2. TypeOK'
  BY <1>1 DEF DeviceInv, TypeOK, LockedPcs, SwitchToFree, SwitchDevice
<1>3. /\ ThreadsUseTheirPool' /\ ThreadsSwitchBack' /\ BlocksAreInSegments'
      /\ SegmentsAreOnTheirDevice' /\ ThreadsHaveTheirMemory'
  BY PoolsOfDevices, DevicePoolsAssumption
  DEF DeviceInv, TypeOK, ThreadsUseTheirPool, ThreadsSwitchBack,
      SegmentsAreOnTheirDevice, ThreadsHaveTheirMemory, HasMemory, BlocksAreInSegments,
      LockedPcs, AllocatePcs, SwitchedPcs, SwitchToFree, SwitchDevice
<1> QED BY <1>2, <1>3 DEF DeviceInv

(* The segment leaves its pool; no other segment and no block has its      *)
(* memory.                                                                 *)
LEMMA EraseInv ==
  ASSUME DeviceInv, NEW t \in Threads, Erase(t)
  PROVE  DeviceInv'
<1> DEFINE x == device_ptr[t]
           k == pool[t]
<1>1. /\ pc[t] = "erase" /\ pc' = [pc EXCEPT ![t] = "device_free"]
      /\ registered' = registered \ {x}
      /\ m_segments' = [m_segments EXCEPT ![k] = @ \ {x}]
      /\ UNCHANGED <<runtimeVars, clientVars, mutex, localVars>>
  BY DEF Erase
<1>2. /\ k \in Pools /\ x \in m_segments[k] /\ x \in DeviceMemory
      /\ on_device[x] = m_device_id(k)
      /\ \A j \in Pools : x \in m_segments[j] => j = k
      /\ \A b \in owned : b.memory # x
  BY <1>1
  DEF DeviceInv, TypeOK, SegmentsAreOnTheirDevice, BlocksAreInSegments
<1>3. \A u \in Threads : pc[u] = "erase" /\ pool[u] = k => u = t
  BY <1>1 DEF DeviceInv, ThreadsUseTheirPool, LockedPcs
<1>4. \A u \in Threads : HasMemory(u) => device_ptr[u] # x
  BY <1>2 DEF DeviceInv, ThreadsHaveTheirMemory
<1>5. /\ \A j \in Pools : m_segments'[j] = m_segments[j] \ {x}
      /\ DOMAIN m_segments' = Pools
  BY <1>1, <1>2 DEF DeviceInv, TypeOK
<1> HIDE DEF x, k
<1>6. TypeOK'
  <2>1. m_segments' \in [Pools -> SUBSET DeviceMemory]
    BY <1>1, <1>2 DEF DeviceInv, TypeOK
  <2> QED BY <1>1, <2>1 DEF DeviceInv, TypeOK, LockedPcs
<1>7. SegmentsAreOnTheirDevice'
  BY <1>1, <1>5 DEF DeviceInv, SegmentsAreOnTheirDevice
<1>8. ThreadsHaveTheirMemory'
  <2>1. \A u \in Threads : HasMemory(u)' => u = t \/ HasMemory(u)
    BY <1>1 DEF DeviceInv, TypeOK, HasMemory
  <2>2. device_ptr[t] = x /\ pool[t] = k
    BY DEF x, k
  <2> QED
    BY <1>1, <1>2, <1>4, <1>5, <2>1, <2>2 DEF DeviceInv, ThreadsHaveTheirMemory
<1>9. BlocksAreInSegments'
  <2>1. \A u \in Threads : pc'[u] = "erase" => u # t /\ pc[u] = "erase"
    BY <1>1 DEF DeviceInv, TypeOK
  <2>2. \A u \in Threads : pc'[u] = "erase" => device_ptr[u] # x
    BY <1>2, <1>3, <2>1 DEF DeviceInv, TypeOK, BlocksAreInSegments
  <2> QED
    BY <1>1, <1>2, <1>5, <2>1, <2>2 DEF DeviceInv, TypeOK, BlocksAreInSegments
<1>10. ThreadsUseTheirPool' /\ ThreadsSwitchBack'
  BY <1>1
  DEF DeviceInv, TypeOK, ThreadsUseTheirPool, ThreadsSwitchBack,
      LockedPcs, AllocatePcs, SwitchedPcs
<1> QED BY <1>6, <1>7, <1>8, <1>9, <1>10 DEF DeviceInv

(* The memory of no segment is freed, by the one thread that has it.       *)
LEMMA DeviceFreeInv ==
  ASSUME DeviceInv, NEW t \in Threads, DeviceFree(t)
  PROVE  DeviceInv'
<1> DEFINE x == device_ptr[t]
<1>1. /\ pc[t] = "device_free" /\ pc' = [pc EXCEPT ![t] = "free_switch_back"]
      /\ on_device' = [on_device EXCEPT ![x] = NoDevice]
      /\ UNCHANGED <<current, clientVars, poolVars, localVars>>
  BY DEF DeviceFree, device_free
<1>2. /\ x \in DeviceMemory
      /\ \A j \in Pools : x \notin m_segments[j]
      /\ \A u \in Threads : HasMemory(u) /\ device_ptr[u] = x => u = t
  BY <1>1 DEF DeviceInv, ThreadsHaveTheirMemory, HasMemory
<1>3. \A y \in DeviceMemory \ {x} : on_device'[y] = on_device[y]
  BY <1>1 DEF DeviceInv, TypeOK
<1> HIDE DEF x
<1>4. SegmentsAreOnTheirDevice'
  BY <1>1, <1>2, <1>3 DEF DeviceInv, TypeOK, SegmentsAreOnTheirDevice
<1>5. ThreadsHaveTheirMemory'
  <2>1. \A u \in Threads : HasMemory(u)' => u # t /\ HasMemory(u)
    BY <1>1 DEF DeviceInv, TypeOK, HasMemory
  <2> QED
    BY <1>1, <1>2, <1>3, <2>1 DEF DeviceInv, ThreadsHaveTheirMemory
<1>6. /\ TypeOK' /\ ThreadsUseTheirPool' /\ ThreadsSwitchBack'
      /\ BlocksAreInSegments'
  BY <1>1
  DEF DeviceInv, TypeOK, ThreadsUseTheirPool, ThreadsSwitchBack,
      BlocksAreInSegments, LockedPcs, AllocatePcs, SwitchedPcs
<1> QED BY <1>4, <1>5, <1>6 DEF DeviceInv

(* The device of the client is current again.                              *)
LEMMA SwitchBackFreedInv ==
  ASSUME DeviceInv, NEW t \in Threads, SwitchBackFreed(t)
  PROVE  DeviceInv'
BY PoolsOfDevices, DevicePoolsAssumption
DEF DeviceInv, TypeOK, ThreadsUseTheirPool, ThreadsSwitchBack,
    SegmentsAreOnTheirDevice, ThreadsHaveTheirMemory, HasMemory, BlocksAreInSegments,
    LockedPcs, AllocatePcs, SwitchedPcs,
    SwitchBackFreed, SwitchBack

(* free returns.                                                           *)
LEMMA FreeUnlockInv ==
  ASSUME DeviceInv, NEW t \in Threads, FreeUnlock(t)
  PROVE  DeviceInv'
BY PoolsOfDevices, DevicePoolsAssumption
DEF DeviceInv, TypeOK, ThreadsUseTheirPool, ThreadsSwitchBack,
    SegmentsAreOnTheirDevice, ThreadsHaveTheirMemory, HasMemory, BlocksAreInSegments,
    LockedPcs, AllocatePcs, SwitchedPcs,
    FreeUnlock

-----------------------------------------------------------------------------
(* The invariant                                                           *)

(* Nothing is allocated at the start, and no thread is in a call.          *)
LEMMA DeviceInitInv == Init => DeviceInv
BY PoolsOfDevices, DevicePoolsAssumption
DEF Init, DeviceInv, TypeOK, ThreadsUseTheirPool, ThreadsSwitchBack,
    SegmentsAreOnTheirDevice, ThreadsHaveTheirMemory, HasMemory, BlocksAreInSegments,
    LockedPcs, AllocatePcs, SwitchedPcs

(* Every step preserves the invariant.                                     *)
LEMMA DeviceNextInv ==
  ASSUME DeviceInv, [Next]_vars
  PROVE  DeviceInv'
<1>1. ASSUME NEW t \in Threads, AllocateStep(t)
      PROVE  DeviceInv'
  BY <1>1, PopHitInv, PopMissInv, PopLockedHitInv, PopLockedMissInv,
     AddSegmentThrowsInv, SwitchThrowsInv, SwitchToAllocateInv, DeviceMallocInv,
     DeviceMallocThrowsInv, RegisterThrowsInv, ConstructThrowsInv, InsertInv,
     SwitchBackAllocatedInv,
     SwitchBackThrowsInv
  DEF AllocateStep
<1>2. ASSUME NEW t \in Threads, FreeStep(t)
      PROVE  DeviceInv'
  BY <1>2, FreeReturnsInv, FreeLockInv, RecheckKeepInv, SwitchToFreeInv,
     EraseInv, DeviceFreeInv, SwitchBackFreedInv, FreeUnlockInv
  DEF FreeStep
<1>3. CASE UNCHANGED vars
  BY <1>3
  DEF vars, DeviceInv, TypeOK, ThreadsUseTheirPool, ThreadsSwitchBack,
      SegmentsAreOnTheirDevice, ThreadsHaveTheirMemory, HasMemory, BlocksAreInSegments
<1> QED
  BY <1>1, <1>2, <1>3, ClientSetsDeviceInv, AllocateInv, FreeInv DEF Next

(* DeviceInv is an invariant, for any number of nodes and devices.         *)
THEOREM DeviceInvariant == Spec => []DeviceInv
<1>1. DeviceInv /\ [Next]_vars => DeviceInv'
  BY DeviceNextInv
<1> QED BY DeviceInitInv, <1>1, PTL DEF Spec

(* Every thread works in a pool that exists.                               *)
THEOREM DeviceTypeCorrect == Spec => []TypeOK
<1>1. DeviceInv => TypeOK
  BY DEF DeviceInv
<1> QED BY DeviceInvariant, <1>1, PTL

(* A block is on the device the client asked for until it is freed.        *)
THEOREM ServedOnDeviceTheorem == Spec => []ServedOnDeviceAskedFor
<1>1. DeviceInv => ServedOnDeviceAskedFor
  BY DEF DeviceInv, BlocksAreInSegments, SegmentsAreOnTheirDevice,
         ServedOnDeviceAskedFor
<1> QED BY DeviceInvariant, <1>1, PTL

(* A call that returns leaves the device of the client current.            *)
THEOREM ClientsKeepTheirDeviceTheorem == Spec => []ClientsKeepTheirDevice
<1>1. DeviceInv => ClientsKeepTheirDevice
  BY DEF DeviceInv, ThreadsSwitchBack, SwitchedPcs, ClientsKeepTheirDevice
<1> QED BY DeviceInvariant, <1>1, PTL

-----------------------------------------------------------------------------
(* The device memory exceptions leave behind                               *)

(* Device memory that nobody will free.                                    *)
IsLost(x) ==
  /\ on_device[x] # NoDevice
  /\ \A t \in Threads : ~ (HasMemory(t) /\ device_ptr[t] = x)
  /\ \A k \in Pools : x \notin m_segments[k]

(* It is what Lost has.                                                    *)
LEMMA LostMembers == Lost = {x \in DeviceMemory : IsLost(x)}
BY DEF Lost, Owners, IsLost, HasMemory

(* A pool whose mutex is held by a thread that is not in its code.         *)
IsStuck(k) ==
  /\ mutex[k] # NoThread
  /\ ~ (pool[mutex[k]] = k /\ pc[mutex[k]] \in LockedPcs)

(* The mutex of a stuck pool is never unlocked: whoever unlocks it would   *)
(* have had to lock it before.                                             *)
LEMMA StuckStays ==
  ASSUME DeviceInv, [Next]_vars, NEW k \in Pools, IsStuck(k)
  PROVE  IsStuck(k)'
<1>1. \A t \in Threads : pc[t] \in LockedPcs => pool[t] # k
  BY DEF DeviceInv, ThreadsUseTheirPool, IsStuck
<1>2. mutex[k] \in Threads /\ mutex[k] # NoThread
  BY DEF DeviceInv, TypeOK, IsStuck
<1>3. ASSUME NEW t \in Threads, AllocateStep(t)
      PROVE  IsStuck(k)'
  BY <1>1, <1>2, <1>3
  DEF DeviceInv, TypeOK, IsStuck, LockedPcs, AllocateStep, PopHit, PopMiss,
      PopLockedHit, PopLockedMiss, AddSegmentThrows, SwitchThrows, SwitchToAllocate,
      DeviceMalloc, DeviceMallocThrows, RegisterThrows, ConstructThrows, Insert,
      SwitchBackAllocated,
      SwitchBackThrows, Lock, Pop, SetDeviceThrows, SwitchDevice, SwitchBack
<1>4. ASSUME NEW t \in Threads, FreeStep(t)
      PROVE  IsStuck(k)'
  BY <1>1, <1>2, <1>4
  DEF DeviceInv, TypeOK, IsStuck, LockedPcs, FreeStep, FreeReturns, FreeLock,
      RecheckKeep, SwitchToFree, Erase, DeviceFree, SwitchBackFreed, FreeUnlock,
      Lock, SwitchDevice, SwitchBack
<1>5. ASSUME NEW t \in Threads, NEW id \in Devices, ClientSetsDevice(t, id)
      PROVE  IsStuck(k)'
  BY <1>1, <1>2, <1>5 DEF IsStuck, ClientSetsDevice
<1>6. ASSUME NEW t \in Threads, NEW i \in NodeIndices, NEW d \in Devices,
             Allocate(t, i, d)
      PROVE  IsStuck(k)'
  BY <1>1, <1>2, <1>6 DEF DeviceInv, TypeOK, IsStuck, LockedPcs, Allocate
<1>7. ASSUME NEW t \in Threads, NEW b \in owned, Free(t, b)
      PROVE  IsStuck(k)'
  BY <1>1, <1>2, <1>7 DEF DeviceInv, TypeOK, IsStuck, LockedPcs, Free
<1>8. CASE UNCHANGED vars
  BY <1>8 DEF vars, IsStuck
<1> QED BY <1>3, <1>4, <1>5, <1>6, <1>7, <1>8 DEF Next

(* Most steps lose nothing: the memory a thread gets is its own until the  *)
(* pool has it, and again when it takes it from the pool.                  *)
LEMMA NothingIsLost ==
  ASSUME DeviceInv, NEW x \in DeviceMemory, IsLost(x)', [Next]_vars,
         \A t \in Threads : ~ DeviceMallocThrows(t) /\ ~ RegisterThrows(t)
  PROVE  IsLost(x)
<1>1. ASSUME NEW t \in Threads, AllocateStep(t)
      PROVE  IsLost(x)
  <2>1. CASE Insert(t)
    <3>1. /\ UNCHANGED on_device
          /\ \A k \in Pools : m_segments[k] \subseteq m_segments'[k]
          /\ \A u \in Threads \ {t} : pc'[u] = pc[u] /\ device_ptr'[u] = device_ptr[u]
          /\ device_ptr[t] \in m_segments'[pool[t]] /\ pool[t] \in Pools
      BY <2>1 DEF DeviceInv, TypeOK, Insert
    <3> QED BY <3>1 DEF IsLost, HasMemory
  <2>2. ASSUME NEW y \in DeviceMemory, DeviceMalloc(t, y)
        PROVE  IsLost(x)
    <3>1. /\ UNCHANGED m_segments
          /\ pc[t] = "malloc" /\ pc'[t] = "register" /\ device_ptr'[t] = y
          /\ \A u \in Threads \ {t} : pc'[u] = pc[u] /\ device_ptr'[u] = device_ptr[u]
          /\ x # y => on_device'[x] = on_device[x]
      BY <2>2 DEF DeviceInv, TypeOK, DeviceMalloc, device_malloc
    <3> QED BY <3>1 DEF IsLost, HasMemory
  <2>3. CASE /\ UNCHANGED <<on_device, m_segments>>
             /\ pc[t] \notin {"register", "device_free"}
             /\ \A u \in Threads \ {t} : pc'[u] = pc[u] /\ device_ptr'[u] = device_ptr[u]
    BY <2>3 DEF IsLost, HasMemory
  <2>4. CASE ConstructThrows(t)
    <3>1. /\ UNCHANGED m_segments
          /\ device_ptr[t] \in DeviceMemory
          /\ on_device' = [on_device EXCEPT ![device_ptr[t]] = NoDevice]
          /\ \A u \in Threads \ {t} : pc'[u] = pc[u] /\ device_ptr'[u] = device_ptr[u]
      BY <2>4 DEF DeviceInv, TypeOK, ThreadsHaveTheirMemory, HasMemory,
                  ConstructThrows, device_free
    <3>2. x # device_ptr[t] /\ on_device'[x] = on_device[x]
      BY <3>1 DEF DeviceInv, TypeOK, IsLost
    <3> QED BY <3>1, <3>2 DEF IsLost, HasMemory
  <2> QED
    BY <1>1, <2>1, <2>2, <2>3, <2>4
    DEF DeviceInv, TypeOK, AllocateStep, PopHit, PopMiss,
        PopLockedHit, PopLockedMiss, AddSegmentThrows, SwitchThrows, SwitchToAllocate,
        SwitchBackAllocated, SwitchBackThrows, Lock, Pop, SetDeviceThrows,
        SwitchDevice, SwitchBack
<1>2. ASSUME NEW t \in Threads, FreeStep(t)
      PROVE  IsLost(x)
  <2>1. CASE Erase(t)
    <3>1. /\ UNCHANGED <<on_device, device_ptr>>
          /\ pc[t] = "erase" /\ pc'[t] = "device_free"
          /\ \A k \in Pools : m_segments[k] \subseteq m_segments'[k] \cup {device_ptr[t]}
          /\ \A u \in Threads \ {t} : pc'[u] = pc[u]
      BY <2>1 DEF DeviceInv, TypeOK, Erase
    <3> QED BY <3>1 DEF IsLost, HasMemory
  <2>2. CASE DeviceFree(t)
    <3>1. /\ UNCHANGED <<m_segments, device_ptr>>
          /\ device_ptr[t] \in DeviceMemory
          /\ on_device' = [on_device EXCEPT ![device_ptr[t]] = NoDevice]
          /\ \A u \in Threads \ {t} : pc'[u] = pc[u]
      BY <2>2 DEF DeviceInv, TypeOK, ThreadsHaveTheirMemory, HasMemory, DeviceFree, device_free
    <3>2. x # device_ptr[t] /\ on_device'[x] = on_device[x]
      BY <3>1 DEF DeviceInv, TypeOK, IsLost
    <3> QED BY <3>1, <3>2 DEF IsLost, HasMemory
  <2>3. CASE /\ UNCHANGED <<on_device, m_segments>>
             /\ pc[t] \notin {"register", "device_free"}
             /\ \A u \in Threads \ {t} : pc'[u] = pc[u] /\ device_ptr'[u] = device_ptr[u]
    BY <2>3 DEF IsLost, HasMemory
  <2> QED
    BY <1>2, <2>1, <2>2, <2>3
    DEF DeviceInv, TypeOK, FreeStep, FreeReturns, FreeLock, RecheckKeep, SwitchToFree,
        SwitchBackFreed, FreeUnlock, Lock, SwitchDevice, SwitchBack
<1>3. ASSUME NEW t \in Threads, NEW id \in Devices, ClientSetsDevice(t, id)
      PROVE  IsLost(x)
  BY <1>3 DEF IsLost, HasMemory, ClientSetsDevice
<1>4. ASSUME NEW t \in Threads, NEW i \in NodeIndices, NEW d \in Devices,
             Allocate(t, i, d)
      PROVE  IsLost(x)
  BY <1>4 DEF DeviceInv, TypeOK, IsLost, HasMemory, Allocate
<1>5. ASSUME NEW t \in Threads, NEW b \in owned, Free(t, b)
      PROVE  IsLost(x)
  BY <1>5 DEF DeviceInv, TypeOK, IsLost, HasMemory, Free
<1>6. CASE UNCHANGED vars
  BY <1>6 DEF vars, IsLost, HasMemory
<1> QED BY <1>1, <1>2, <1>3, <1>4, <1>5, <1>6 DEF Next

(* An exception loses at most one piece of memory, and the pool is stuck.  *)
LEMMA ThrowLosesOne ==
  ASSUME DeviceInv, NEW t \in Threads, DeviceMallocThrows(t) \/ RegisterThrows(t),
         NEW k, k = pool[t]
  PROVE  /\ \E y : \A x \in DeviceMemory : IsLost(x)' => IsLost(x) \/ x = y
         /\ k \in Pools /\ ~ IsStuck(k) /\ IsStuck(k)'
<1>1. /\ k \in Pools /\ mutex[k] = t
      /\ pc[t] \in LockedPcs /\ pc'[t] = "idle"
      /\ mutex' = mutex
      /\ UNCHANGED m_segments
      /\ \A u \in Threads \ {t} : pc'[u] = pc[u] /\ device_ptr'[u] = device_ptr[u]
  BY DEF DeviceInv, TypeOK, ThreadsUseTheirPool, LockedPcs, DeviceMallocThrows,
         RegisterThrows
<1>2. ~ IsStuck(k) /\ IsStuck(k)'
  <2>1. t # NoThread /\ "idle" \notin LockedPcs
    BY DevicePoolsAssumption DEF LockedPcs
  <2> QED BY <1>1, <2>1 DEF IsStuck
<1>3. CASE RegisterThrows(t)
  <2>1. UNCHANGED on_device
    BY <1>3 DEF RegisterThrows
  <2>2. \A x \in DeviceMemory : IsLost(x)' => IsLost(x) \/ x = device_ptr[t]
    BY <1>1, <2>1 DEF IsLost, HasMemory
  <2> QED BY <1>1, <1>2, <2>2
<1>4. CASE DeviceMallocThrows(t)
  <2>1. PICK y : \A x \in DeviceMemory \ {y} : on_device'[x] = on_device[x]
    BY <1>4 DEF DeviceInv, TypeOK, DeviceMallocThrows, device_malloc
  <2>2. pc[t] = "malloc"
    BY <1>4 DEF DeviceMallocThrows
  <2>3. \A x \in DeviceMemory : IsLost(x)' => IsLost(x) \/ x = y
    BY <1>1, <2>1, <2>2 DEF IsLost, HasMemory
  <2> QED BY <1>1, <1>2, <2>3
<1> QED BY <1>3, <1>4

(* The lost memory is counted against the pools that are stuck.            *)
LossIsBounded == IsFiniteSet(Lost) /\ Cardinality(Lost) <= Cardinality(Stuck)

(* There are finitely many pools ...                                       *)
LEMMA PoolsAreFinite == IsFiniteSet(Pools)
<1>1. NumNodes * NumDevices - 1 \in Int
  BY DevicePoolsAssumption
<1> QED BY <1>1, FS_Interval DEF Pools

(* ... and Stuck has those that are stuck.                                 *)
LEMMA StuckMembers ==
  /\ Stuck = {k \in Pools : IsStuck(k)}
  /\ IsFiniteSet(Stuck) /\ Cardinality(Stuck) \in Nat
<1>1. Stuck = {k \in Pools : IsStuck(k)}
  BY DEF Stuck, IsStuck
<1>2. IsFiniteSet(Stuck)
  BY <1>1, PoolsAreFinite, FS_Subset
<1> QED BY <1>1, <1>2, FS_CardinalityType

(* A step that loses memory blocks one more pool.                          *)
LEMMA LossNext ==
  ASSUME DeviceInv, LossIsBounded, [Next]_vars
  PROVE  LossIsBounded'
<1>1. /\ Lost = {x \in DeviceMemory : IsLost(x)}
      /\ Lost' = {x \in DeviceMemory : IsLost(x)'}
  BY LostMembers DEF Lost, Owners, IsLost, HasMemory
<1>2. /\ Stuck = {k \in Pools : IsStuck(k)}
      /\ Stuck' = {k \in Pools : IsStuck(k)'}
  BY StuckMembers DEF Stuck, IsStuck
<1>3. Stuck \subseteq Stuck'
  BY <1>2, StuckStays
<1>4. IsFiniteSet(Stuck) /\ IsFiniteSet(Stuck')
  BY <1>2, PoolsAreFinite, FS_Subset
<1>5. /\ IsFiniteSet(Lost) /\ Cardinality(Lost) \in Nat
      /\ Cardinality(Stuck) \in Nat /\ Cardinality(Stuck') \in Nat
  BY <1>4, FS_CardinalityType DEF LossIsBounded
<1>6. SUFFICES IsFiniteSet(Lost') /\ Cardinality(Lost') <= Cardinality(Stuck')
  BY DEF LossIsBounded
<1>7. CASE \A t \in Threads : ~ DeviceMallocThrows(t) /\ ~ RegisterThrows(t)
  <2>1. Lost' \subseteq Lost
    BY <1>1, <1>7, NothingIsLost
  <2>2. IsFiniteSet(Lost') /\ Cardinality(Lost') <= Cardinality(Lost)
    BY <1>5, <2>1, FS_Subset
  <2>3. Cardinality(Stuck) <= Cardinality(Stuck')
    BY <1>3, <1>4, FS_Subset
  <2>4. Cardinality(Lost') \in Nat
    BY <2>2, FS_CardinalityType
  <2> QED BY <1>5, <2>2, <2>3, <2>4 DEF LossIsBounded
<1>8. ASSUME NEW t \in Threads, DeviceMallocThrows(t) \/ RegisterThrows(t)
      PROVE  IsFiniteSet(Lost') /\ Cardinality(Lost') <= Cardinality(Stuck')
  <2>1. PICK k : k = pool[t]
    OBVIOUS
  <2>2. /\ \E y : \A x \in DeviceMemory : IsLost(x)' => IsLost(x) \/ x = y
        /\ k \in Pools /\ ~ IsStuck(k) /\ IsStuck(k)'
    BY <1>8, <2>1, ThrowLosesOne
  <2>3. PICK y : \A x \in DeviceMemory : IsLost(x)' => IsLost(x) \/ x = y
    BY <2>2
  <2>4. /\ IsFiniteSet(Lost \cup {y})
        /\ Cardinality(Lost \cup {y}) <= Cardinality(Lost) + 1
        /\ Cardinality(Lost \cup {y}) \in Nat
    <3>1. /\ IsFiniteSet(Lost \cup {y})
          /\ Cardinality(Lost \cup {y}) =
               IF y \in Lost THEN Cardinality(Lost) ELSE Cardinality(Lost) + 1
      BY <1>5, FS_AddElement
    <3> QED BY <1>5, <3>1
  <2>5. Lost' \subseteq Lost \cup {y}
    BY <1>1, <2>3
  <2>6. IsFiniteSet(Lost') /\ Cardinality(Lost') <= Cardinality(Lost \cup {y})
    BY <2>4, <2>5, FS_Subset
  <2>7. k \notin Stuck /\ Stuck \cup {k} \subseteq Stuck'
    BY <1>2, <1>3, <2>2
  <2>8. /\ Cardinality(Stuck \cup {k}) = Cardinality(Stuck) + 1
        /\ Cardinality(Stuck \cup {k}) <= Cardinality(Stuck')
    BY <1>4, <2>7, FS_AddElement, FS_Subset
  <2>9. Cardinality(Lost') \in Nat
    BY <2>6, FS_CardinalityType
  <2> QED BY <1>5, <2>4, <2>6, <2>8, <2>9 DEF LossIsBounded
<1> QED BY <1>7, <1>8

(* Memory has one owner while it is on a device.                           *)
LEMMA OneOwner ==
  ASSUME DeviceInv, NEW x \in DeviceMemory
  PROVE  Cardinality(Owners(x)) <= IF on_device[x] = NoDevice THEN 0 ELSE 1
<1>1. ASSUME on_device[x] = NoDevice
      PROVE  Owners(x) = {}
  BY <1>1, FreeMemoryHasNoOwner DEF Owners, HasMemory
<1>2. \A a, b \in Owners(x) : a = b
  BY DEF DeviceInv, Owners, SegmentsAreOnTheirDevice, ThreadsHaveTheirMemory, HasMemory
<1>3. Owners(x) = {} \/ \E a : Owners(x) = {a}
  BY <1>2
<1>4. CASE Owners(x) = {}
  <2>1. Cardinality(Owners(x)) = 0
    BY <1>4, FS_EmptySet
  <2> QED BY <2>1
<1>5. CASE \E a : Owners(x) = {a}
  <2>1. Cardinality(Owners(x)) = 1 /\ Owners(x) # {}
    BY <1>5, FS_Singleton
  <2> QED BY <1>1, <2>1
<1> QED BY <1>3, <1>4, <1>5

(* Device memory is freed by whoever has it, once; what exceptions leave   *)
(* behind is at most one piece for each pool they have left locked.        *)
THEOREM DeviceMemoryTheorem == Spec => []DeviceMemoryIsAccountedFor
<1>1. Init => LossIsBounded
  <2>1. ASSUME Init PROVE Lost = {}
    BY <2>1 DEF Init, Lost
  <2> QED BY <2>1, StuckMembers, FS_EmptySet DEF LossIsBounded
<1>2. LossIsBounded /\ DeviceInv /\ [Next]_vars => LossIsBounded'
  BY LossNext
<1>3. DeviceInv /\ LossIsBounded => DeviceMemoryIsAccountedFor
  BY OneOwner DEF LossIsBounded, DeviceMemoryIsAccountedFor
<1> QED BY <1>1, <1>2, <1>3, DeviceInvariant, PTL DEF Spec

=============================================================================
