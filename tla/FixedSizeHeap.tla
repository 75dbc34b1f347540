--------------------------- MODULE FixedSizeHeap ---------------------------
(***************************************************************************)
(* fixed_size_heap (include/hwmalloc/detail/fixed_size_heap.hpp): a pool   *)
(* for each node the process may allocate on.  A request names a node; the *)
(* pool that serves it adds segments with memory of its node, while the    *)
(* operating system moves the threads from cpu to cpu.                     *)
(*                                                                         *)
(* What pool::allocate and pool::free do besides is in module Pool.  Here  *)
(* a pool is the set of its segments: a block comes from any of them, or   *)
(* none is found and a segment is added, and a segment no client has       *)
(* blocks of may be destroyed.  The mutex of a pool is here because the    *)
(* exceptions of add_segment leave it locked (module Pool), which bounds   *)
(* what they can do to the memory of the pool.                             *)
(***************************************************************************)
EXTENDS NumaTools

CONSTANTS
  Threads,       (* the threads that use the heap                          *)
  Nodes,         (* the nodes they ask for, existing or not                *)
  NoAllocation,  (* a thread that has no memory in hand                    *)
  NoThread,      (* the owner of a mutex that is not locked                *)
  NumaForLocal   (* HWMALLOC_NUMA_FOR_LOCAL                                *)

ASSUME FixedSizeHeapAssumption ==
  /\ NoAllocation \notin Allocation
  /\ NoThread \notin Threads
  /\ NumaForLocal \in BOOLEAN

VARIABLES
  m_pools,    (* of each index: the allocations of the segments there      *)
  m_mutex,    (* of each index: the thread that has locked the pool        *)
  leaked,     (* of each index: the memory an exception has left behind;   *)
              (* a history variable, which no step reads                   *)
  cpu,        (* of each thread: where it runs                             *)
  pc,
  numa_node,  (* of each thread: the node it asks for                      *)
  index,      (* of each thread: the pool it was sent to                   *)
  a           (* of each thread: the memory it is adding, or the segment   *)
              (* its block is from                                         *)

threadVars == <<pc, numa_node, index, a>>
poolVars == <<m_pools, m_mutex, leaked>>
vars == <<numaVars, poolVars, cpu, threadVars>>

Indices == 0..(size(m_local_nodes) - 1)

(* m_numa_node of the pool at an index                                     *)
NodeOfPool(i) == m_local_nodes.nodes[i + 1]

Init ==
  /\ NumaInit
  /\ m_pools = [i \in Indices |-> {}]
  /\ m_mutex = [i \in Indices |-> NoThread]
  /\ leaked = [i \in Indices |-> {}]
  /\ cpu \in [Threads -> machine.task_cpus]
  /\ pc = [t \in Threads |-> "idle"]
  /\ numa_node = [t \in Threads |-> 0]
  /\ index = [t \in Threads |-> 0]
  /\ a = [t \in Threads |-> NoAllocation]

-----------------------------------------------------------------------------

Goto(t, from, to) ==
  /\ pc[t] = from
  /\ pc' = [pc EXCEPT ![t] = to]

(* Mutant of numa_node_index: no fall back on the node of the thread.      *)
NumaNodeIndexOfFound(node, c) == find(m_local_nodes, node)

(* The pool of the node; of the node the thread runs on, where there is    *)
(* none.                                                                   *)
numa_node_index(node, c) ==
  IF contains(m_local_nodes, node)
    THEN find(m_local_nodes, node)
    ELSE find(m_local_nodes, local_node(c))

Allocate(t, node) ==
  /\ Goto(t, "idle", "pop")
  /\ numa_node' = [numa_node EXCEPT ![t] = node]
  /\ index' = [index EXCEPT ![t] = numa_node_index(node, cpu[t])]
  /\ UNCHANGED <<numaVars, poolVars, cpu, a>>

(* A block of a segment of the pool: the pop needs no lock.                *)
PopHit(t) ==
  /\ Goto(t, "pop", "client")
  /\ \E segment \in m_pools[index[t]] : a' = [a EXCEPT ![t] = segment]
  /\ UNCHANGED <<numaVars, poolVars, cpu, numa_node, index>>

(* Without a block, the thread waits for the mutex of the pool.            *)
PopMiss(t) ==
  /\ Goto(t, "pop", "locked")
  /\ m_mutex[index[t]] = NoThread
  /\ m_mutex' = [m_mutex EXCEPT ![index[t]] = t]
  /\ UNCHANGED <<numaVars, m_pools, leaked, cpu, numa_node, index, a>>

PopLockedHit(t) ==
  /\ Goto(t, "locked", "client")
  /\ \E segment \in m_pools[index[t]] : a' = [a EXCEPT ![t] = segment]
  /\ m_mutex' = [m_mutex EXCEPT ![index[t]] = NoThread]
  /\ UNCHANGED <<numaVars, m_pools, leaked, cpu, numa_node, index>>

PopLockedMiss(t) ==
  /\ Goto(t, "locked", "allocate")
  /\ UNCHANGED <<numaVars, poolVars, cpu, numa_node, index, a>>

(* numa_tools::allocate: libnuma is not used if hwmalloc is built without  *)
(* it, for the node the thread runs on, nor for a node the process may not *)
(* allocate on.                                                            *)
ChooseAllocator(t) ==
  /\ LET node == NodeOfPool(index[t])
         with_calloc == \/ ~ machine.libnuma
                        \/ ~ NumaForLocal /\ node = local_node(cpu[t])
                        \/ ~ can_allocate_on(node)
     IN Goto(t, "allocate", IF with_calloc THEN "calloc" ELSE "libnuma")
  /\ UNCHANGED <<numaVars, poolVars, cpu, numa_node, index, a>>

NumaAlloc(t, x) ==
  LET node == NodeOfPool(index[t])
  IN /\ Goto(t, "libnuma", "check")
     /\ AllocateOnNode(x, node)
     /\ a' = [a EXCEPT ![t] = OnNode(x, node)]
     /\ UNCHANGED <<machine, poolVars, cpu, numa_node, index>>

NumaAllocFails(t) ==
  /\ Goto(t, "libnuma", "calloc")
  /\ UNCHANGED <<numaVars, poolVars, cpu, numa_node, index, a>>

Calloc(t, x, node) ==
  /\ Goto(t, "calloc", "check")
  /\ AllocateMalloc(x, node)
  /\ a' = [a EXCEPT ![t] = Malloced(x, node)]
  /\ UNCHANGED <<machine, poolVars, cpu, numa_node, index>>

(* check_allocation throws: there is no memory ...  No exception unlocks   *)
(* the mutex of the pool.                                                  *)
CallocFails(t) ==
  /\ Goto(t, "calloc", "idle")
  /\ UNCHANGED <<numaVars, poolVars, cpu, numa_node, index, a>>

(* Mutant of OnExpectedNode: the node is not looked at.                    *)
OnAnyNode(t) == TRUE

(* a.node == expected_numa_node                                            *)
OnExpectedNode(t) == a[t].node = NodeOfPool(index[t])

(* Mutant of CheckThrows: the exception leaves the memory behind.          *)
CheckThrowsAtOnce(t) ==
  /\ Goto(t, "check", "idle")
  /\ ~ OnExpectedNode(t)
  /\ a' = [a EXCEPT ![t] = NoAllocation]
  /\ UNCHANGED <<numaVars, poolVars, cpu, numa_node, index>>

(* ... or it is on another node, and is given back.                        *)
CheckThrows(t) ==
  /\ Goto(t, "check", "idle")
  /\ ~ OnExpectedNode(t)
  /\ Free(a[t])
  /\ a' = [a EXCEPT ![t] = NoAllocation]
  /\ UNCHANGED <<machine, poolVars, cpu, numa_node, index>>

(* register_memory throws, or there is no memory for the segment: nothing  *)
(* owns the allocation yet, and it is not given back.                      *)
RegisterThrows(t) ==
  /\ Goto(t, "check", "idle")
  /\ OnExpectedNode(t)
  /\ leaked' = [leaked EXCEPT ![index[t]] = @ \cup {a[t].ptr}]
  /\ a' = [a EXCEPT ![t] = NoAllocation]
  /\ UNCHANGED <<numaVars, m_pools, m_mutex, cpu, numa_node, index>>

(* Mutant of ConstructThrows: allocation_holder does not free.             *)
ConstructThrowsWithoutHolder(t) ==
  /\ Goto(t, "check", "idle")
  /\ OnExpectedNode(t)
  /\ a' = [a EXCEPT ![t] = NoAllocation]
  /\ UNCHANGED <<numaVars, poolVars, cpu, numa_node, index>>

(* The constructor of the segment throws before the first of its blocks is *)
(* pushed: the allocation_holder gives the memory back.                    *)
ConstructThrows(t) ==
  /\ Goto(t, "check", "idle")
  /\ OnExpectedNode(t)
  /\ Free(a[t])
  /\ a' = [a EXCEPT ![t] = NoAllocation]
  /\ UNCHANGED <<machine, poolVars, cpu, numa_node, index>>

(* The segment is built and is in the pool.  When its constructor or the   *)
(* insertion throws with blocks already pushed, their memory is freed      *)
(* under the clients that popped them: module PoolFaults shows that.       *)
AddSegment(t) ==
  /\ Goto(t, "check", "locked")
  /\ OnExpectedNode(t)
  /\ m_pools' = [m_pools EXCEPT ![index[t]] = @ \cup {a[t]}]
  /\ a' = [a EXCEPT ![t] = NoAllocation]
  /\ UNCHANGED <<numaVars, m_mutex, leaked, cpu, numa_node, index>>

(* The client frees its block, from wherever it runs ...                   *)
FreeBlock(t) ==
  /\ Goto(t, "client", "idle")
  /\ a' = [a EXCEPT ![t] = NoAllocation]
  /\ UNCHANGED <<numaVars, poolVars, cpu, numa_node, index>>

(* ... and with its last block a segment may go: free locks the mutex,     *)
(* looks again and erases it.                                              *)
DestroySegment(t, i, segment) ==
  /\ pc[t] = "idle"
  /\ m_mutex[i] = NoThread
  /\ segment \in m_pools[i]
  /\ \A u \in Threads : a[u] # segment
  /\ Free(segment)
  /\ m_pools' = [m_pools EXCEPT ![i] = @ \ {segment}]
  /\ UNCHANGED <<machine, m_mutex, leaked, cpu, threadVars>>

(* The operating system keeps the threads on the cpus of the process.      *)
Migrate(t, c) ==
  /\ c \in machine.task_cpus
  /\ cpu' = [cpu EXCEPT ![t] = c]
  /\ UNCHANGED <<numaVars, poolVars, threadVars>>

Next ==
  \E t \in Threads :
    \/ \E node \in Nodes : Allocate(t, node)
    \/ PopHit(t)
    \/ PopMiss(t)
    \/ PopLockedHit(t)
    \/ PopLockedMiss(t)
    \/ ChooseAllocator(t)
    \/ \E x \in Addresses : NumaAlloc(t, x)
    \/ NumaAllocFails(t)
    \/ \E x \in Addresses : \E node \in MemoryNodes : Calloc(t, x, node)
    \/ CallocFails(t)
    \/ CheckThrows(t)
    \/ RegisterThrows(t)
    \/ ConstructThrows(t)
    \/ AddSegment(t)
    \/ FreeBlock(t)
    \/ \E i \in Indices : \E segment \in m_pools[i] : DestroySegment(t, i, segment)
    \/ \E c \in machine.task_cpus : Migrate(t, c)

Spec == Init /\ [][Next]_vars

-----------------------------------------------------------------------------

(* Every request is sent to a pool that exists, also one for a node the    *)
(* process knows nothing of: an index is never that of end().              *)
TypeOK ==
  /\ machine \in Machines
  /\ held \in [Addresses ->
                 [from : {"none", "libnuma", "calloc"},
                  node : {0} \cup MemoryNodes]]
  /\ m_pools \in [Indices -> SUBSET Allocation]
  /\ m_mutex \in [Indices -> Threads \cup {NoThread}]
  /\ leaked \in [Indices -> SUBSET Addresses]
  /\ cpu \in [Threads -> machine.task_cpus]
  /\ pc \in [Threads ->
               {"idle", "pop", "locked", "allocate", "libnuma", "calloc", "check",
                "client"}]
  /\ numa_node \in [Threads -> Nodes \cup {0}]
  /\ index \in [Threads -> Indices]
  /\ a \in [Threads -> Allocation \cup {NoAllocation}]

(* node_map "maps node id to index where index is enumerating the nodes    *)
(* contiguously" (numa.hpp): find and count agree with the set of nodes,   *)
(* and the index leads back to the node, whatever numbers the nodes of the *)
(* process, of hosts and of devices have.                                  *)
NodeMapIsExact ==
  \A m \in {<<m_local_nodes, LocalNodes>>, <<m_host_nodes, HostNodes>>,
            <<m_device_nodes, DeviceNodes>>} :
    \A n \in Nodes :
      /\ contains(m[1], n) <=> n \in m[2]
      /\ n \in m[2] => m[1].nodes[find(m[1], n) + 1] = n
      /\ n \notin m[2] => find(m[1], n) = size(m[1])

(* A client that asks for a node it may use gets memory that is on that    *)
(* node, and never memory of another pool: whatever calloc returned, and   *)
(* wherever the thread was moved between the choice of calloc, the         *)
(* allocation and the check.  Memory of calloc is checked only where the   *)
(* process may call get_mempolicy: otherwise all of it seems to be on node *)
(* 0, and nothing is promised of the pool of that node.                    *)
ServedOnNodeAskedFor ==
  \A t \in Threads :
    pc[t] = "client" /\ (machine.mempolicy \/ held[a[t].ptr].from = "libnuma") =>
    /\ held[a[t].ptr].node = NodeOfPool(index[t])
    /\ numa_node[t] \in LocalNodes => held[a[t].ptr].node = numa_node[t]

(* Where a thread has locked the mutex of its pool.                        *)
LockedPcs == {"locked", "allocate", "libnuma", "calloc", "check"}

(* The pools whose mutex is locked by a thread that has left it behind, so *)
(* that no segment of theirs is ever added or destroyed again.             *)
Stuck ==
  {i \in Indices :
     \E t \in Threads :
       m_mutex[i] = t /\ ~ (index[t] = i /\ pc[t] \in LockedPcs)}

(* Whose the memory at x is: a thread's that adds it, a segment's, or that *)
(* of an exception which made it nobody's.                                 *)
Owners(x) ==
  {<<"thread", t>> : t \in {u \in Threads : pc[u] = "check" /\ a[u].ptr = x}}
    \cup {<<"segment", i>> :
             i \in {j \in Indices : \E segment \in m_pools[j] : segment.ptr = x}}
    \cup {<<"leaked", i>> : i \in {j \in Indices : x \in leaked[j]}}

(* All the memory hwmalloc has is in the hands of one thread or of one     *)
(* segment, or was lost once between check_allocation and the segment, and *)
(* so is none that it has not: nothing is given back twice or with the     *)
(* wrong function, and no other exception of add_segment forgets memory.   *)
(* A pool loses at most one piece, since it does not get its mutex back.   *)
MemoryIsAccountedFor ==
  /\ \A x \in Addresses :
       /\ Cardinality(Owners(x)) = IF held[x].from = "none" THEN 0 ELSE 1
       /\ held[x].from # "corrupt"
  /\ \A i \in Indices : Cardinality(leaked[i]) <= IF i \in Stuck THEN 1 ELSE 0

-----------------------------------------------------------------------------
(* The inductive invariant                                                 *)

(* A thread in allocate is at the pool of a node of the process, and of    *)
(* the one it asked for, if it is such a node, and has locked it to add a  *)
(* segment.                                                                *)
ThreadsUseTheirPool ==
  \A t \in Threads : pc[t] # "idle" =>
    /\ NodeOfPool(index[t]) \in LocalNodes
    /\ numa_node[t] \in LocalNodes => NodeOfPool(index[t]) = numa_node[t]
    /\ pc[t] \in LockedPcs => m_mutex[index[t]] = t

(* What the code knows of memory is right; of its node, if it knows that.  *)
IsAt(al) ==
  /\ held[al.ptr].from = IF al.use_numa_free THEN "libnuma" ELSE "calloc"
  /\ machine.mempolicy \/ al.use_numa_free => held[al.ptr].node = al.node

(* The memory of a segment is on the node of its pool ...                  *)
SegmentsAreOnTheirNode ==
  \A i \in Indices : \A segment \in m_pools[i] :
    /\ IsAt(segment)
    /\ segment.node = NodeOfPool(i)
    /\ \A j \in Indices : \A other \in m_pools[j] :
         other.ptr = segment.ptr => j = i /\ other = segment

(* ... that of a segment to be is known by one thread, and the segment a   *)
(* client has a block of is there.                                         *)
ThreadsHaveTheirMemory ==
  \A t \in Threads :
    /\ pc[t] = "check" =>
         /\ a[t] \in Allocation /\ IsAt(a[t])
         /\ \A i \in Indices : \A segment \in m_pools[i] : segment.ptr # a[t].ptr
         /\ \A u \in Threads : pc[u] = "check" /\ a[u].ptr = a[t].ptr => u = t
    /\ pc[t] = "client" => a[t] \in m_pools[index[t]]

(* There is no other memory but what exceptions of register_memory left    *)
(* behind ...                                                              *)
MemoryIsKnown ==
  \A x \in Addresses : held[x].from # "none" =>
    \/ \E t \in Threads : pc[t] = "check" /\ a[t].ptr = x
    \/ \E i \in Indices : \E segment \in m_pools[i] : segment.ptr = x
    \/ \E i \in Indices : x \in leaked[i]

(* ... which is held and nobody's, one piece at most for each pool that    *)
(* has lost its mutex with it.                                             *)
LeaksAreStuck ==
  \A i \in Indices : \A x \in leaked[i] :
    /\ i \in Stuck
    /\ held[x].from # "none"
    /\ \A j \in Indices : \A y \in leaked[j] : x = y <=> i = j
    /\ \A j \in Indices : \A segment \in m_pools[j] : segment.ptr # x
    /\ \A t \in Threads : pc[t] = "check" => a[t].ptr # x

PlacementInv ==
  /\ TypeOK
  /\ ThreadsUseTheirPool
  /\ SegmentsAreOnTheirNode
  /\ ThreadsHaveTheirMemory
  /\ MemoryIsKnown
  /\ LeaksAreStuck

=============================================================================
