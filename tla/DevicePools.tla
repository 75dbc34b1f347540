---------------------------- MODULE DevicePools ----------------------------
(***************************************************************************)
(* The pools of a fixed_size_heap that mirror their memory on a device     *)
(* (HWMALLOC_ENABLE_DEVICE): one for each pair of a node and a device.     *)
(* The device runtime gives memory on the current device of the calling    *)
(* thread, which belongs to the client; add_segment and free switch it and *)
(* switch it back.                                                         *)
(*                                                                         *)
(* The stacks and counters of a pool are in module Pool.  Here a segment   *)
(* is known by its device memory, and a thread that pops finds a block of  *)
(* some segment or none.  An exception leaves allocate with m_mutex        *)
(* locked.                                                                 *)
(***************************************************************************)
EXTENDS Integers, FiniteSets

CONSTANTS
  Threads,        (* the threads that use the heap                         *)
  NoThread,       (* a mutex that is free                                  *)
  NumNodes,       (* numa().local_nodes().size()                           *)
  NodeIndices,    (* the nodes that are asked for, as numa_node_index      *)
                  (* maps them                                             *)
  NumDevices,     (* get_num_devices()                                     *)
  DeviceMemory,   (* the addresses device_malloc may return                *)
  NoMemory,       (* no device memory in hand                              *)
  MayThrow        (* can the runtime, the system and the Context fail?     *)

ASSUME DevicePoolsAssumption ==
  /\ NoThread \notin Threads
  /\ {NumNodes, NumDevices} \subseteq Nat \ {0}
  /\ NodeIndices \subseteq 0..(NumNodes - 1)
  /\ NoMemory \notin DeviceMemory
  /\ MayThrow \in BOOLEAN

VARIABLES
  current,     (* of each thread: the current device of the runtime        *)
  chosen,      (* of each thread: the device its client has set            *)
  failed,      (* the threads whose client got an exception since          *)
  on_device,   (* of each address: the device it is on, or NoDevice        *)
  registered,  (* the addresses with a device_region                       *)
  m_segments,  (* of each pool: the device memory of its segments          *)
  mutex,       (* of each pool: the thread that locked m_mutex             *)
  owned,       (* what clients have: device memory, and the device the     *)
               (* client asked for                                         *)
  pc,
  device_id,   (* of each thread: the device it asked for                  *)
  pool,        (* of each thread: the index of the pool it works in        *)
  tmp,         (* of each thread: the device to switch back to             *)
  device_ptr   (* of each thread: the device memory it works with          *)

runtimeVars == <<current, on_device>>
clientVars == <<chosen, failed, owned>>
poolVars == <<registered, m_segments, mutex>>
localVars == <<device_id, pool, tmp, device_ptr>>
vars == <<runtimeVars, clientVars, poolVars, pc, localVars>>

Devices == 0..(NumDevices - 1)
NoDevice == -1

-----------------------------------------------------------------------------
(* m_device_pools                                                          *)

Pools == 0..(NumNodes * NumDevices - 1)

(* The constructor counts the devices of one node after the other.         *)
m_device_id(k) == k % NumDevices

(* Mutant of pool_index: devices are counted from 1.                       *)
PoolIndexFromOne(node_index, d) == node_index * NumDevices + d + 1

(* numa_node_index(numa_node) * m_num_devices + device_id                  *)
pool_index(node_index, d) == node_index * NumDevices + d

Init ==
  /\ current = [t \in Threads |-> 0]
  /\ chosen = [t \in Threads |-> 0]
  /\ failed = {}
  /\ on_device = [x \in DeviceMemory |-> NoDevice]
  /\ registered = {}
  /\ m_segments = [k \in Pools |-> {}]
  /\ mutex = [k \in Pools |-> NoThread]
  /\ owned = {}
  /\ pc = [t \in Threads |-> "idle"]
  /\ device_id = [t \in Threads |-> 0]
  /\ pool = [t \in Threads |-> 0]
  /\ tmp = [t \in Threads |-> 0]
  /\ device_ptr = [t \in Threads |-> NoMemory]

Goto(t, from, to) ==
  /\ pc[t] = from
  /\ pc' = [pc EXCEPT ![t] = to]

(* A call of the heap returns or throws: its variables are gone.           *)
Leave(t, from) ==
  /\ Goto(t, from, "idle")
  /\ device_id' = [device_id EXCEPT ![t] = 0]
  /\ pool' = [pool EXCEPT ![t] = 0]
  /\ tmp' = [tmp EXCEPT ![t] = 0]
  /\ device_ptr' = [device_ptr EXCEPT ![t] = NoMemory]

(* An exception leaves allocate.                                           *)
Throw(t, from) ==
  /\ MayThrow
  /\ Leave(t, from)
  /\ failed' = failed \cup {t}
  /\ UNCHANGED <<chosen, owned, poolVars>>

-----------------------------------------------------------------------------
(* The device runtime                                                      *)

set_device_id(t, id) == current' = [current EXCEPT ![t] = id]

(* Memory on the current device.                                           *)
device_malloc(t, x) ==
  /\ on_device[x] = NoDevice
  /\ on_device' = [on_device EXCEPT ![x] = current[t]]

device_free(x) == on_device' = [on_device EXCEPT ![x] = NoDevice]

(* A call of the runtime that fails is made again, for the message of the  *)
(* exception, and may then succeed (device_cuda.cpp; device_hip.cpp does   *)
(* the same).                                                              *)
SetDeviceThrows(t, from, id) ==
  /\ Throw(t, from)
  /\ UNCHANGED current \/ set_device_id(t, id)
  /\ UNCHANGED on_device

(* The client sets the device of its thread.                               *)
ClientSetsDevice(t, id) ==
  /\ pc[t] = "idle"
  /\ set_device_id(t, id)
  /\ chosen' = [chosen EXCEPT ![t] = id]
  /\ failed' = failed \ {t}
  /\ UNCHANGED <<on_device, owned, poolVars, pc, localVars>>

(* Mutant of SwitchDevice: the device of the client stays current.         *)
SwitchDeviceForgets(t) ==
  /\ tmp' = [tmp EXCEPT ![t] = current[t]]
  /\ UNCHANGED <<runtimeVars, clientVars, poolVars, device_id, pool, device_ptr>>

(* const auto tmp = get_device_id(); set_device_id(m_device_id);           *)
SwitchDevice(t) ==
  /\ tmp' = [tmp EXCEPT ![t] = current[t]]
  /\ set_device_id(t, m_device_id(pool[t]))
  /\ UNCHANGED <<on_device, clientVars, poolVars, device_id, pool, device_ptr>>

(* set_device_id(tmp)                                                      *)
SwitchBack(t) ==
  /\ set_device_id(t, tmp[t])
  /\ UNCHANGED <<on_device, clientVars, poolVars, localVars>>

-----------------------------------------------------------------------------
(* fixed_size_heap::allocate(numa_node, device_id) and pool::allocate      *)

Allocate(t, node_index, d) ==
  /\ Goto(t, "idle", "pop")
  /\ device_id' = [device_id EXCEPT ![t] = d]
  /\ pool' = [pool EXCEPT ![t] = pool_index(node_index, d)]
  /\ UNCHANGED <<runtimeVars, clientVars, poolVars, tmp, device_ptr>>

(* A block of some segment of the pool; all the blocks of a segment that   *)
(* is to be erased are on its own stack of freed blocks.                   *)
Pop(t) ==
  /\ \E x \in m_segments[pool[t]] :
       /\ \A u \in Threads : pc[u] = "erase" => device_ptr[u] # x
       /\ owned' = owned \cup {[memory |-> x, device |-> device_id[t]]}
  /\ UNCHANGED <<runtimeVars, chosen, failed, registered, m_segments>>

PopHit(t) == Leave(t, "pop") /\ Pop(t) /\ UNCHANGED mutex

Lock(t, from, to) ==
  /\ Goto(t, from, to)
  /\ mutex[pool[t]] = NoThread
  /\ mutex' = [mutex EXCEPT ![pool[t]] = t]
  /\ UNCHANGED <<runtimeVars, clientVars, registered, m_segments, localVars>>

PopMiss(t) == Lock(t, "pop", "pop_locked")

(* A pop before or after collect, or after a segment was added.            *)
PopLockedHit(t) ==
  /\ Leave(t, "pop_locked")
  /\ Pop(t)
  /\ mutex' = [mutex EXCEPT ![pool[t]] = NoThread]

(* add_segment: check_allocation returned ...                              *)
PopLockedMiss(t) ==
  /\ Goto(t, "pop_locked", "switch")
  /\ UNCHANGED <<runtimeVars, clientVars, poolVars, localVars>>

(* ... or threw.                                                           *)
AddSegmentThrows(t) == Throw(t, "pop_locked") /\ UNCHANGED runtimeVars

(* get_device_id or set_device_id throws.                                  *)
SwitchThrows(t) == SetDeviceThrows(t, "switch", m_device_id(pool[t]))

SwitchToAllocate(t) == Goto(t, "switch", "malloc") /\ SwitchDevice(t)

DeviceMalloc(t, x) ==
  /\ Goto(t, "malloc", "register")
  /\ device_malloc(t, x)
  /\ device_ptr' = [device_ptr EXCEPT ![t] = x]
  /\ UNCHANGED <<current, clientVars, poolVars, device_id, pool, tmp>>

(* What the second call of cudaMalloc returns is not looked at.            *)
DeviceMallocThrows(t) ==
  /\ Throw(t, "malloc")
  /\ UNCHANGED on_device \/ \E x \in DeviceMemory : device_malloc(t, x)
  /\ UNCHANGED current

(* register_memory and register_device_memory, in any order, before the    *)
(* constructor of segment takes hold of the memory: if one throws, nothing *)
(* has.  The region of the other one is deregistered.                      *)
RegisterThrows(t) == Throw(t, "register") /\ UNCHANGED runtimeVars

(* The constructor throws before the first of its blocks is pushed: its    *)
(* device_allocation_holder gives the memory back.                         *)
ConstructThrows(t) ==
  /\ Throw(t, "register")
  /\ device_free(device_ptr[t])
  /\ UNCHANGED current

(* The segment is constructed and inserted, in one step: in between only   *)
(* the stack of free blocks can be seen without the mutex, and a pop of a  *)
(* block of a segment that is not inserted yet is that pop a step later.   *)
(* If the constructor or the insertion throws with blocks pushed already,  *)
(* they outlive their memory, as in any pool: module PoolFaults shows it.  *)
Insert(t) ==
  /\ Goto(t, "register", "switch_back")
  /\ registered' = registered \cup {device_ptr[t]}
  /\ m_segments' = [m_segments EXCEPT ![pool[t]] = @ \cup {device_ptr[t]}]
  /\ device_ptr' = [device_ptr EXCEPT ![t] = NoMemory]
  /\ UNCHANGED <<runtimeVars, clientVars, mutex, device_id, pool, tmp>>

SwitchBackAllocated(t) == Goto(t, "switch_back", "pop_locked") /\ SwitchBack(t)

(* The segment stays in a pool that stays locked.                          *)
SwitchBackThrows(t) == SetDeviceThrows(t, "switch_back", tmp[t])

-----------------------------------------------------------------------------
(* pool::free                                                              *)

(* The last block of a segment that clients have is freed, by any thread;  *)
(* the pool is the one of the segment.                                     *)
Free(t, b) ==
  /\ Goto(t, "idle", "free_lock")
  /\ owned' = owned \ {b}
  /\ pool' = [pool EXCEPT ![t] = CHOOSE k \in Pools : b.memory \in m_segments[k]]
  /\ device_ptr' = [device_ptr EXCEPT ![t] = b.memory]
  /\ UNCHANGED <<runtimeVars, chosen, failed, poolVars, device_id, tmp>>

(* m_never_free is set, or is_empty() is false: its other blocks may be    *)
(* waiting in the stack of the pool.                                       *)
FreeReturns(t) ==
  /\ Leave(t, "free_lock")
  /\ UNCHANGED <<runtimeVars, clientVars, poolVars>>

FreeLock(t) == Lock(t, "free_lock", "recheck")

(* is_empty() is false now, or the segment is of the reserve or erased.    *)
RecheckKeep(t) ==
  /\ Goto(t, "recheck", "free_unlock")
  /\ UNCHANGED <<runtimeVars, clientVars, poolVars, localVars>>

(* No client has a block of an empty segment.  If the runtime throws, free *)
(* ends the process, for release() is noexcept.                            *)
SwitchToFree(t) ==
  LET x == device_ptr[t]
  IN /\ Goto(t, "recheck", "erase")
     /\ x \in m_segments[pool[t]]
     /\ \A b \in owned : b.memory # x
     /\ Cardinality(m_segments[pool[t]]) > 1
     /\ SwitchDevice(t)

(* ~segment: the device_region is destroyed first ...                      *)
Erase(t) ==
  /\ Goto(t, "erase", "device_free")
  /\ m_segments' = [m_segments EXCEPT ![pool[t]] = @ \ {device_ptr[t]}]
  /\ registered' = registered \ {device_ptr[t]}
  /\ UNCHANGED <<runtimeVars, clientVars, mutex, localVars>>

(* Mutant of DeviceFree: there is no device_allocation_holder.             *)
DeviceFreeForgets(t) ==
  /\ Goto(t, "device_free", "free_switch_back")
  /\ UNCHANGED <<runtimeVars, clientVars, poolVars, localVars>>

(* ... and the device_allocation_holder after it.                          *)
DeviceFree(t) ==
  /\ Goto(t, "device_free", "free_switch_back")
  /\ device_free(device_ptr[t])
  /\ UNCHANGED <<current, clientVars, poolVars, localVars>>

(* Mutant of SwitchBackFreed: the device of the pool stays current.        *)
SwitchBackFreedForgets(t) ==
  /\ Goto(t, "free_switch_back", "free_unlock")
  /\ UNCHANGED <<runtimeVars, clientVars, poolVars, localVars>>

SwitchBackFreed(t) == Goto(t, "free_switch_back", "free_unlock") /\ SwitchBack(t)

FreeUnlock(t) ==
  /\ Leave(t, "free_unlock")
  /\ mutex' = [mutex EXCEPT ![pool[t]] = NoThread]
  /\ UNCHANGED <<runtimeVars, clientVars, registered, m_segments>>

-----------------------------------------------------------------------------

AllocateStep(t) ==
  \/ PopHit(t)
  \/ PopMiss(t)
  \/ PopLockedHit(t)
  \/ PopLockedMiss(t)
  \/ AddSegmentThrows(t)
  \/ SwitchThrows(t)
  \/ SwitchToAllocate(t)
  \/ \E x \in DeviceMemory : DeviceMalloc(t, x)
  \/ DeviceMallocThrows(t)
  \/ RegisterThrows(t)
  \/ ConstructThrows(t)
  \/ Insert(t)
  \/ SwitchBackAllocated(t)
  \/ SwitchBackThrows(t)

FreeStep(t) ==
  \/ FreeReturns(t)
  \/ FreeLock(t)
  \/ RecheckKeep(t)
  \/ SwitchToFree(t)
  \/ Erase(t)
  \/ DeviceFree(t)
  \/ SwitchBackFreed(t)
  \/ FreeUnlock(t)

Next ==
  \E t \in Threads :
    \/ \E id \in Devices : ClientSetsDevice(t, id)
    \/ \E i \in NodeIndices : \E d \in Devices : Allocate(t, i, d)
    \/ \E b \in owned : Free(t, b)
    \/ AllocateStep(t)
    \/ FreeStep(t)

Spec == Init /\ [][Next]_vars

-----------------------------------------------------------------------------

LockedPcs ==
  {"pop_locked", "switch", "malloc", "register", "switch_back", "recheck",
   "erase", "device_free", "free_switch_back", "free_unlock"}

(* Every thread works in a pool that exists.                               *)
TypeOK ==
  /\ {current, chosen, device_id, tmp} \subseteq [Threads -> Devices]
  /\ failed \subseteq Threads
  /\ on_device \in [DeviceMemory -> Devices \cup {NoDevice}]
  /\ registered \subseteq DeviceMemory
  /\ m_segments \in [Pools -> SUBSET DeviceMemory]
  /\ mutex \in [Pools -> Threads \cup {NoThread}]
  /\ owned \subseteq [memory : DeviceMemory, device : Devices]
  /\ pc \in [Threads -> LockedPcs \cup {"idle", "pop", "free_lock"}]
  /\ pool \in [Threads -> Pools]
  /\ device_ptr \in [Threads -> DeviceMemory \cup {NoMemory}]

(* The device memory of a block is on the device the client asked for,     *)
(* whatever device is current in the thread that added the segment, and it *)
(* is there and registered until the client frees the block, whatever      *)
(* other threads free.                                                     *)
ServedOnDeviceAskedFor ==
  \A b \in owned :
    /\ on_device[b.memory] = b.device
    /\ b.memory \in registered

(* A client finds its own device current when a call returns: only an      *)
(* exception leaves it with the device of a pool, until it sets it again.  *)
ClientsKeepTheirDevice ==
  \A t \in Threads : pc[t] = "idle" /\ t \notin failed => current[t] = chosen[t]

(* Who is to give back the device memory at x: a thread that is building   *)
(* or destroying a segment, or a pool.                                     *)
Owners(x) ==
  {t \in Threads : device_ptr[t] = x /\ pc[t] \in {"register", "device_free"}}
    \cup {k \in Pools : x \in m_segments[k]}
Lost == {x \in DeviceMemory : on_device[x] # NoDevice /\ Owners(x) = {}}

(* The pools whose mutex an exception has left locked.                     *)
Stuck ==
  {k \in Pools : mutex[k] # NoThread /\
     ~ (pool[mutex[k]] = k /\ pc[mutex[k]] \in LockedPcs)}

(* Device memory has one owner while there is any, and none when it was    *)
(* freed.  What an exception of register_memory, or a cudaMalloc that      *)
(* fails and then succeeds, leaves behind is at most one piece in each     *)
(* pool, for nobody can lock that pool again.                              *)
DeviceMemoryIsAccountedFor ==
  /\ \A x \in DeviceMemory :
       Cardinality(Owners(x)) <= IF on_device[x] = NoDevice THEN 0 ELSE 1
  /\ Cardinality(Lost) <= Cardinality(Stuck)

-----------------------------------------------------------------------------
(* The inductive invariant                                                 *)

AllocatePcs == {"pop", "pop_locked", "switch", "malloc", "register", "switch_back"}
SwitchedPcs ==
  {"malloc", "register", "switch_back", "erase", "device_free", "free_switch_back"}

(* Whoever is behind a lock of m_mutex holds it, and a thread allocates in *)
(* a pool of the device it asked for.                                      *)
ThreadsUseTheirPool ==
  \A t \in Threads :
    /\ pc[t] \in LockedPcs => mutex[pool[t]] = t
    /\ pc[t] \in AllocatePcs => device_id[t] = m_device_id(pool[t])

(* Between the two switches the device of the pool is current, and the one *)
(* of the client is in tmp.                                                *)
ThreadsSwitchBack ==
  \A t \in Threads :
    /\ pc[t] \in SwitchedPcs => current[t] = m_device_id(pool[t])
    /\ t \notin failed =>
         chosen[t] = IF pc[t] \in SwitchedPcs THEN tmp[t] ELSE current[t]

(* The memory of a segment is on the device of its pool, and registered.   *)
SegmentsAreOnTheirDevice ==
  \A k \in Pools : \A x \in m_segments[k] :
    /\ on_device[x] = m_device_id(k)
    /\ x \in registered
    /\ \A j \in Pools : x \in m_segments[j] => j = k

(* So is the memory of a segment that is being built or destroyed, which   *)
(* one thread alone knows.                                                 *)
HasMemory(t) == pc[t] \in {"register", "device_free"}
ThreadsHaveTheirMemory ==
  \A t \in Threads : HasMemory(t) =>
    /\ device_ptr[t] \in DeviceMemory
    /\ on_device[device_ptr[t]] = m_device_id(pool[t])
    /\ \A k \in Pools : device_ptr[t] \notin m_segments[k]
    /\ \A u \in Threads : HasMemory(u) /\ device_ptr[u] = device_ptr[t] => u = t

(* Blocks are of a segment of the device that was asked for, and a segment *)
(* that is being erased has none.                                          *)
BlocksAreInSegments ==
  /\ \A b \in owned : \E k \in Pools :
       b.memory \in m_segments[k] /\ b.device = m_device_id(k)
  /\ \A t \in Threads : pc[t] = "erase" =>
       /\ device_ptr[t] \in m_segments[pool[t]]
       /\ \A b \in owned : b.memory # device_ptr[t]

DeviceInv ==
  /\ TypeOK
  /\ ThreadsUseTheirPool
  /\ ThreadsSwitchBack
  /\ SegmentsAreOnTheirDevice
  /\ ThreadsHaveTheirMemory
  /\ BlocksAreInSegments

=============================================================================
