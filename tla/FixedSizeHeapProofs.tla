------------------------ MODULE FixedSizeHeapProofs ------------------------
(***************************************************************************)
(* Proofs about modules NumaTools and FixedSizeHeap, for any machines and  *)
(* any number of threads: node_map is exact, a client gets memory of the   *)
(* node it asks for, and all memory has one owner, or was lost once with   *)
(* the mutex of its pool.                                                  *)
(***************************************************************************)
EXTENDS FixedSizeHeap, FiniteSetTheorems, TLAPS

-----------------------------------------------------------------------------
(* node_map                                                                *)

(* How many nodes come before n.                                           *)
Rank(S, n) == Cardinality({m \in S : m < n})

(* Each node has an index of its own.                                      *)
LEMMA RankOrders ==
  ASSUME NEW S \in SUBSET Nat, IsFiniteSet(S), NEW n \in S
  PROVE  /\ Rank(S, n) \in 0..(Cardinality(S) - 1)
         /\ \A k \in S : n < k => Rank(S, n) < Rank(S, k)
<1> DEFINE B(k) == {m \in S : m < k}
<1>1. \A k \in S : IsFiniteSet(B(k)) /\ Cardinality(B(k)) \in Nat
  BY FS_Subset, FS_CardinalityType
<1>2. ASSUME NEW T \in SUBSET S, n \in T, B(n) \subseteq T
      PROVE  Cardinality(B(n)) < Cardinality(T)
  <2>1. IsFiniteSet(T) /\ Cardinality(T) \in Nat
    BY FS_Subset, FS_CardinalityType
  <2>2. B(n) \in SUBSET T /\ B(n) # T
    BY <1>2
  <2>3. /\ Cardinality(B(n)) <= Cardinality(T)
        /\ Cardinality(T) = Cardinality(B(n)) => T = B(n)
    BY <2>1, <2>2, FS_Subset
  <2> QED BY <1>1, <2>1, <2>2, <2>3
<1>3. Cardinality(B(n)) < Cardinality(S) /\ Cardinality(S) \in Nat
  BY <1>2, FS_CardinalityType
<1>4. ASSUME NEW k \in S, n < k
      PROVE  Cardinality(B(n)) < Cardinality(B(k))
  <2>1. B(k) \in SUBSET S /\ n \in B(k)
    BY <1>4
  <2>2. ASSUME NEW m \in B(n) PROVE m \in B(k)
    <3>1. m \in Nat /\ n \in Nat /\ k \in Nat /\ m < n
      OBVIOUS
    <3> QED BY <1>4, <3>1
  <2> HIDE DEF B
  <2> QED BY <1>2, <2>1, <2>2
<1> QED BY <1>1, <1>3, <1>4 DEF Rank

(* There is a sorted vector of the nodes: the one that has each node at    *)
(* its rank.                                                               *)
LEMMA SortedExists ==
  ASSUME NEW S \in SUBSET Nat, IsFiniteSet(S)
  PROVE  /\ Sorted(S) \in [1..Cardinality(S) -> S]
         /\ \A i, j \in 1..Cardinality(S) : i < j => Sorted(S)[i] < Sorted(S)[j]
<1> DEFINE N == Cardinality(S)
           f == [n \in S |-> Rank(S, n) + 1]
           s == [i \in 1..N |-> CHOOSE n \in S : f[n] = i]
<1>1. N \in Nat
  BY FS_CardinalityType
<1>2. f \in [S -> 1..N]
  <2>1. \A n \in S : Rank(S, n) + 1 \in 1..N
    BY <1>1, RankOrders
  <2> QED BY <2>1
<1>3. \A n, k \in S : n < k => f[n] < f[k]
  <2>1. \A n \in S : Rank(S, n) \in Nat /\ \A k \in S : n < k => Rank(S, n) < Rank(S, k)
    BY <1>1, RankOrders
  <2> QED BY <2>1
<1> HIDE DEF f
<1>4. f \in Injection(S, 1..N)
  <2>1. ASSUME NEW n \in S, NEW k \in S, f[n] = f[k]
        PROVE  n = k
    <3>1. n \in Nat /\ k \in Nat /\ f[n] \in Nat
      BY <1>1, <1>2
    <3>2. ~ (n < k) /\ ~ (k < n)
      BY <1>3, <2>1, <3>1
    <3> QED BY <3>1, <3>2
  <2> QED BY <1>2, <2>1 DEF Injection, IsInjective
<1>5. f \in Surjection(S, 1..N)
  <2>1. IsFiniteSet(1..N) /\ Cardinality(1..N) = N
    BY <1>1, FS_Interval
  <2> QED BY <1>4, <2>1, FS_Injection
<1>6. \A i \in 1..N : \E n \in S : f[n] = i
  BY <1>5 DEF Surjection
<1>7. \A i \in 1..N : s[i] \in S /\ f[s[i]] = i
  BY <1>6
<1>8. s \in [1..N -> S]
  BY <1>7
<1>9. \A i, j \in 1..N : i < j => s[i] < s[j]
  <2>1. ASSUME NEW i \in 1..N, NEW j \in 1..N, i < j
        PROVE  s[i] < s[j]
    <3> DEFINE n == s[i]
               k == s[j]
    <3>1. n \in S /\ k \in S /\ f[n] = i /\ f[k] = j
      BY <1>7
    <3> HIDE DEF n, k
    <3>2. n \in Nat /\ k \in Nat /\ n # k /\ ~ (k < n)
      BY <1>1, <1>3, <2>1, <3>1
    <3>3. n < k
      BY <3>2
    <3> QED BY <3>3 DEF n, k
  <2> QED BY <2>1
<1> HIDE DEF s
<1>10. \E r \in [1..N -> S] : \A i, j \in 1..N : i < j => r[i] < r[j]
  BY <1>8, <1>9
<1> QED BY <1>10 DEF Sorted

(* The sorted vector has every node at the index of the node.              *)
LEMMA SortedAtRank ==
  ASSUME NEW S \in SUBSET Nat, IsFiniteSet(S), NEW n \in S
  PROVE  Sorted(S)[Rank(S, n) + 1] = n
<1> DEFINE N == Cardinality(S)
<1>1. PICK s : s = Sorted(S)
  OBVIOUS
<1>2. N \in Nat
  BY FS_CardinalityType
<1>3. s \in [1..N -> S] /\ \A i, j \in 1..N : i < j => s[i] < s[j]
  BY <1>1, SortedExists
<1>4. s \in Injection(1..N, S)
  <2>1. ASSUME NEW i \in 1..N, NEW j \in 1..N, s[i] = s[j]
        PROVE  i = j
    <3>1. s[i] \in Nat /\ s[j] \in Nat
      BY <1>3
    <3>2. ~ (i < j) /\ ~ (j < i)
      BY <1>3, <2>1, <3>1
    <3> QED BY <3>2
  <2> QED BY <1>3, <2>1 DEF Injection, IsInjective
<1>5. s \in Surjection(1..N, S)
  <2>1. Cardinality(1..N) = N
    BY <1>2, FS_Interval
  <2> QED BY <1>4, <2>1, FS_Injection
<1>6. PICK j \in 1..N : s[j] = n
  BY <1>5 DEF Surjection
<1>7. Rank(S, n) = j - 1
  <2> DEFINE B == {m \in S : m < n}
             g == [i \in 1..(j - 1) |-> s[i]]
  <2>1. \A i \in 1..(j - 1) : i \in 1..N /\ i < j
    BY <1>2
  <2>2. g \in [1..(j - 1) -> B]
    BY <1>3, <1>6, <2>1
  <2>3. g \in Injection(1..(j - 1), B)
    BY <1>4, <2>1, <2>2 DEF Injection, IsInjective
  <2>4. ASSUME NEW m \in B
        PROVE  \E i \in 1..(j - 1) : g[i] = m
    <3>1. PICK i \in 1..N : s[i] = m
      BY <1>5 DEF Surjection
    <3>2. m \in Nat /\ n \in Nat /\ m < n
      OBVIOUS
    <3>3. i # j /\ ~ (j < i)
      BY <1>3, <1>6, <3>1, <3>2
    <3>4. i \in 1..(j - 1)
      BY <1>2, <3>3
    <3> QED BY <3>1, <3>4
  <2>5. g \in Surjection(1..(j - 1), B)
    BY <2>2, <2>4 DEF Surjection
  <2>6. IsFiniteSet(B)
    BY FS_Subset
  <2>7. Cardinality(1..(j - 1)) = Cardinality(B)
    BY <2>3, <2>5, <2>6, FS_Injection
  <2>8. Cardinality(1..(j - 1)) = j - 1
    BY <1>2, FS_Interval
  <2> QED BY <2>7, <2>8 DEF Rank
<1>8. j - 1 + 1 = j
  OBVIOUS
<1> QED BY <1>1, <1>6, <1>7, <1>8

(* find and count agree with the set of nodes.                             *)
LEMMA NodeMapOfSet ==
  ASSUME NEW S \in SUBSET Nat, IsFiniteSet(S), NEW n
  PROVE  /\ size(node_map(S)) = Cardinality(S)
         /\ contains(node_map(S), n) <=> n \in S
         /\ n \in S => /\ find(node_map(S), n) \in 0..(Cardinality(S) - 1)
                       /\ node_map(S).nodes[find(node_map(S), n) + 1] = n
         /\ n \notin S => find(node_map(S), n) = size(node_map(S))
<1>1. Cardinality(S) \in Nat
  BY FS_CardinalityType
<1>2. node_map(S).nodes = Sorted(S) /\ node_map(S).nodes_to_index = nodes_to_index(S)
  BY DEF node_map
<1>3. size(node_map(S)) = Cardinality(S)
  <2>1. Sorted(S) \in [1..Cardinality(S) -> S]
    BY SortedExists
  <2> QED BY <1>1, <1>2, <2>1 DEF size
<1>4. n \in S => n \in NodesUpTo(S)
  <2>1. ASSUME n \in S PROVE n \in 0..n
    BY <2>1
  <2> QED BY <2>1 DEF NodesUpTo
<1>5. /\ DOMAIN nodes_to_index(S) = NodesUpTo(S)
      /\ n \in S => nodes_to_index(S)[n] = Rank(S, n)
      /\ n \notin S /\ n \in NodesUpTo(S) => nodes_to_index(S)[n] = Cardinality(S)
  BY <1>4 DEF nodes_to_index, Rank
<1>6. n \in S => Rank(S, n) \in 0..(Cardinality(S) - 1)
  BY RankOrders
<1>7. /\ n \in S => find(node_map(S), n) = Rank(S, n)
      /\ n \notin S => find(node_map(S), n) = Cardinality(S)
  BY <1>2, <1>3, <1>4, <1>5 DEF find
<1>8. contains(node_map(S), n) <=> n \in S
  BY <1>1, <1>2, <1>3, <1>4, <1>5, <1>6 DEF contains
<1> QED BY <1>2, <1>3, <1>6, <1>7, <1>8, SortedAtRank

-----------------------------------------------------------------------------
(* The nodes of the machine                                                *)

(* The nodes of the three maps are finitely many numbers.                  *)
LEMMA NodeSets ==
  ASSUME machine \in Machines
  PROVE  /\ LocalNodes \in SUBSET Nat /\ IsFiniteSet(LocalNodes)
         /\ HostNodes \in SUBSET Nat /\ IsFiniteSet(HostNodes)
         /\ DeviceNodes \in SUBSET Nat /\ IsFiniteSet(DeviceNodes)
         /\ MemoryNodes \in SUBSET Nat /\ LocalNodes \subseteq MemoryNodes
<1> DEFINE D == DOMAIN machine.node_of_cpu
           T == machine.task_cpus
           f == [c \in T |-> machine.node_of_cpu[c]]
<1>1. /\ machine.node_of_cpu \in [D -> Nat] /\ T \in SUBSET D
      /\ machine.all_nodes \in SUBSET Nat
      /\ IsFiniteSet(D) /\ IsFiniteSet(machine.all_nodes)
  BY NumaToolsAssumption
<1>2. Range(m_cpu_to_node) \in SUBSET Nat
  BY <1>1 DEF Range, m_cpu_to_node
<1>3. LocalNodes \subseteq Range(m_cpu_to_node)
  BY <1>1 DEF LocalNodes, Range, m_cpu_to_node
<1>4. IsFiniteSet(LocalNodes)
  <2>1. f \in Surjection(T, LocalNodes)
    BY <1>1 DEF Surjection, LocalNodes, m_cpu_to_node
  <2>2. IsFiniteSet(T)
    BY <1>1, FS_Subset
  <2> HIDE DEF f, T
  <2> QED BY <2>1, <2>2, FS_Surjection
<1>5. IsFiniteSet(HostNodes) /\ IsFiniteSet(DeviceNodes)
  <2>1. /\ HostNodes \in SUBSET machine.all_nodes
        /\ DeviceNodes \in SUBSET machine.all_nodes
    BY DEF HostNodes, DeviceNodes
  <2> QED BY <1>1, <2>1, FS_Subset
<1> QED
  BY <1>1, <1>2, <1>3, <1>4, <1>5 DEF HostNodes, DeviceNodes, MemoryNodes

(* A request is sent to the pool of the node it asks for, or else to the   *)
(* pool of the node the thread runs on.                                    *)
LEMMA RequestsHaveAPool ==
  ASSUME machine \in Machines, NEW node, NEW c \in machine.task_cpus
  PROVE  /\ numa_node_index(node, c) \in Indices
         /\ NodeOfPool(numa_node_index(node, c)) \in LocalNodes
         /\ node \in LocalNodes => NodeOfPool(numa_node_index(node, c)) = node
         /\ 0 \in Indices
<1>1. LocalNodes \in SUBSET Nat /\ IsFiniteSet(LocalNodes)
  BY NodeSets
<1>2. local_node(c) \in LocalNodes
  BY DEF local_node, LocalNodes
<1>3. \A n \in LocalNodes : /\ find(m_local_nodes, n) \in Indices
                             /\ NodeOfPool(find(m_local_nodes, n)) = n
  BY <1>1, NodeMapOfSet DEF m_local_nodes, Indices, NodeOfPool
<1>4. contains(m_local_nodes, node) <=> node \in LocalNodes
  BY <1>1, NodeMapOfSet DEF m_local_nodes
<1>5. 0 \in Indices
  <2>1. size(m_local_nodes) = Cardinality(LocalNodes) /\ Cardinality(LocalNodes) \in Nat
    BY <1>1, NodeMapOfSet, FS_CardinalityType DEF m_local_nodes
  <2>2. find(m_local_nodes, local_node(c)) \in Indices
    BY <1>2, <1>3
  <2> QED BY <2>1, <2>2 DEF Indices
<1> QED BY <1>2, <1>3, <1>4, <1>5 DEF numa_node_index

(* The maps of the constructor find every node and no other.               *)
LEMMA MapsAreExact == machine \in Machines => NodeMapIsExact
<1> SUFFICES ASSUME machine \in Machines PROVE NodeMapIsExact
  OBVIOUS
<1>1. ASSUME NEW S \in SUBSET Nat, IsFiniteSet(S), NEW n
      PROVE  /\ contains(node_map(S), n) <=> n \in S
             /\ n \in S => node_map(S).nodes[find(node_map(S), n) + 1] = n
             /\ n \notin S => find(node_map(S), n) = size(node_map(S))
  BY <1>1, NodeMapOfSet
<1> DEFINE Exact(map, S) ==
      \A n \in Nodes :
        /\ contains(map, n) <=> n \in S
        /\ n \in S => map.nodes[find(map, n) + 1] = n
        /\ n \notin S => find(map, n) = size(map)
<1>2. /\ Exact(m_local_nodes, LocalNodes)
      /\ Exact(m_host_nodes, HostNodes)
      /\ Exact(m_device_nodes, DeviceNodes)
  BY <1>1, NodeSets DEF m_local_nodes, m_host_nodes, m_device_nodes
<1> QED BY <1>2 DEF NodeMapIsExact

(* The machine does not change, and with it the pools and their nodes.     *)
LEMMA MachineStays ==
  ASSUME machine' = machine
  PROVE  /\ Indices' = Indices /\ LocalNodes' = LocalNodes
         /\ MemoryNodes' = MemoryNodes
         /\ m_local_nodes' = m_local_nodes
BY DEF Indices, LocalNodes, MemoryNodes, m_local_nodes, m_cpu_to_node

-----------------------------------------------------------------------------
(* The steps of a thread                                                   *)

(* Segments stay where they are, if some go and their memory is left.      *)
LEMMA SegmentsStay ==
  ASSUME SegmentsAreOnTheirNode, machine' = machine,
         \A i \in Indices : m_pools'[i] \subseteq m_pools[i],
         \A i \in Indices : \A segment \in m_pools'[i] :
           held'[segment.ptr] = held[segment.ptr]
  PROVE  SegmentsAreOnTheirNode'
<1>1. Indices' = Indices /\ m_local_nodes' = m_local_nodes
  BY MachineStays
<1>2. ASSUME NEW i \in Indices, NEW segment \in m_pools'[i]
      PROVE  /\ IsAt(segment)'
             /\ segment.node = NodeOfPool(i)
             /\ \A j \in Indices : \A other \in m_pools'[j] :
                  other.ptr = segment.ptr => j = i /\ other = segment
  <2>1. segment \in m_pools[i]
    OBVIOUS
  <2>2. IsAt(segment) /\ held'[segment.ptr] = held[segment.ptr]
    BY <2>1 DEF SegmentsAreOnTheirNode
  <2>3. IsAt(segment)'
    BY <2>2 DEF IsAt
  <2> QED BY <2>1, <2>3 DEF SegmentsAreOnTheirNode
<1>3. \A i \in Indices : NodeOfPool(i)' = NodeOfPool(i)
  BY <1>1 DEF NodeOfPool
<1> QED BY <1>1, <1>2, <1>3 DEF SegmentsAreOnTheirNode

(* A mutex that was left behind stays locked: nobody can lock it, and its  *)
(* owner can only wait for it.                                             *)
LEMMA StuckStays ==
  ASSUME machine' = machine, NEW t \in Threads,
         \A u \in Threads \ {t} : pc'[u] = pc[u] /\ index'[u] = index[u],
         pc'[t] \in LockedPcs => \/ pc[t] \in LockedPcs /\ index'[t] = index[t]
                                 \/ m_mutex[index'[t]] = NoThread,
         \A i \in Stuck : m_mutex'[i] = m_mutex[i]
  PROVE  \A i \in Stuck : i \in Stuck'
<1>1. ASSUME NEW i \in Stuck PROVE i \in Stuck'
  <2>1. PICK u \in Threads : m_mutex[i] = u /\ ~ (index[u] = i /\ pc[u] \in LockedPcs)
    BY DEF Stuck
  <2>2. ~ (index'[u] = i /\ pc'[u] \in LockedPcs)
    BY <2>1, FixedSizeHeapAssumption
  <2>3. i \in Indices /\ Indices' = Indices /\ m_mutex'[i] = u
    BY <2>1, MachineStays DEF Stuck
  <2> QED BY <2>2, <2>3 DEF Stuck
<1> QED BY <1>1

(* Nothing but cpus changes.                                               *)
LEMMA OtherStepInv ==
  ASSUME PlacementInv, TypeOK',
         UNCHANGED <<machine, held, m_pools, m_mutex, leaked, pc, numa_node,
                     index, a>>
  PROVE  PlacementInv'
<1>1. SegmentsAreOnTheirNode'
  BY SegmentsStay DEF PlacementInv
<1>2. LeaksAreStuck'
  <2>1. Stuck' = Stuck /\ Indices' = Indices
    BY MachineStays DEF Stuck
  <2> QED BY <2>1 DEF PlacementInv, LeaksAreStuck
<1>3. ThreadsUseTheirPool' /\ ThreadsHaveTheirMemory' /\ MemoryIsKnown'
  BY MachineStays
  DEF PlacementInv, ThreadsUseTheirPool, ThreadsHaveTheirMemory, MemoryIsKnown,
      IsAt, NodeOfPool
<1> QED BY <1>1, <1>2, <1>3 DEF PlacementInv

(* A thread that has no memory in hand before and after its step, and may  *)
(* lock or unlock the mutex of its pool.                                   *)
LEMMA ThreadStepInv ==
  ASSUME PlacementInv, TypeOK', NEW t \in Threads,
         UNCHANGED <<machine, held, m_pools, leaked>>,
         pc[t] # "check", pc'[t] # "check",
         \A u \in Threads \ {t} : /\ pc'[u] = pc[u] /\ index'[u] = index[u]
                                  /\ a'[u] = a[u] /\ numa_node'[u] = numa_node[u],
         pc'[t] = "client" => a'[t] \in m_pools[index'[t]],
         pc'[t] # "idle" =>
           /\ NodeOfPool(index'[t]) \in LocalNodes
           /\ numa_node'[t] \in LocalNodes => NodeOfPool(index'[t]) = numa_node'[t],
         \/ /\ m_mutex' = m_mutex
            /\ pc'[t] \in LockedPcs => pc[t] \in LockedPcs /\ index'[t] = index[t]
         \/ /\ m_mutex[index[t]] = NoThread /\ index'[t] = index[t]
            /\ m_mutex' = [m_mutex EXCEPT ![index[t]] = t]
         \/ /\ pc[t] \in LockedPcs /\ pc'[t] \notin LockedPcs
            /\ m_mutex' = [m_mutex EXCEPT ![index[t]] = NoThread]
  PROVE  PlacementInv'
<1> USE FixedSizeHeapAssumption
<1>1. /\ m_mutex \in [Indices -> Threads \cup {NoThread}]
      /\ \A u \in Threads : index[u] \in Indices
      /\ \A u \in Threads : pc[u] \in LockedPcs => pc[u] # "idle" /\ m_mutex[index[u]] = u
  BY DEF PlacementInv, TypeOK, ThreadsUseTheirPool, LockedPcs
<1>2. \A i \in Stuck : m_mutex'[i] = m_mutex[i]
  <2>1. \A i \in Stuck : /\ i \in Indices /\ m_mutex[i] # NoThread
                         /\ m_mutex[i] = t => ~ (index[t] = i /\ pc[t] \in LockedPcs)
    BY DEF Stuck
  <2> QED BY <1>1, <2>1
<1>3. \A i \in Stuck : i \in Stuck'
  BY <1>1, <1>2, StuckStays
<1>4. LeaksAreStuck'
  BY <1>3, MachineStays DEF PlacementInv, LeaksAreStuck
<1>5. SegmentsAreOnTheirNode'
  BY SegmentsStay DEF PlacementInv
<1>6. ThreadsHaveTheirMemory' /\ MemoryIsKnown'
  BY MachineStays DEF PlacementInv, ThreadsHaveTheirMemory, MemoryIsKnown, IsAt
<1>7. \A u \in Threads : pc'[u] \in LockedPcs => m_mutex'[index'[u]] = u
  BY <1>1
<1>8. ThreadsUseTheirPool'
  BY <1>7, MachineStays
  DEF PlacementInv, ThreadsUseTheirPool, NodeOfPool, LockedPcs
<1> QED BY <1>4, <1>5, <1>6, <1>8 DEF PlacementInv

(* A request for a node becomes one for a pool.                            *)
LEMMA AllocateInv ==
  ASSUME PlacementInv, NEW t \in Threads, NEW node \in Nodes, Allocate(t, node)
  PROVE  PlacementInv'
<1> DEFINE i == numa_node_index(node, cpu[t])
<1>1. /\ pc[t] = "idle" /\ pc' = [pc EXCEPT ![t] = "pop"]
      /\ numa_node' = [numa_node EXCEPT ![t] = node]
      /\ index' = [index EXCEPT ![t] = i]
      /\ UNCHANGED <<machine, held, m_pools, m_mutex, leaked, cpu, a>>
  BY DEF Allocate, Goto, numaVars, poolVars
<1>2. /\ i \in Indices /\ NodeOfPool(i) \in LocalNodes
      /\ node \in LocalNodes => NodeOfPool(i) = node
  BY RequestsHaveAPool DEF PlacementInv, TypeOK
<1> HIDE DEF i
<1>3. TypeOK'
  BY <1>1, <1>2, MachineStays DEF PlacementInv, TypeOK
<1>4. pc'[t] = "pop" /\ numa_node'[t] = node /\ index'[t] = i /\ "pop" \notin LockedPcs
  BY <1>1 DEF PlacementInv, TypeOK, LockedPcs
<1>5. \A u \in Threads \ {t} : /\ pc'[u] = pc[u] /\ index'[u] = index[u]
                               /\ a'[u] = a[u] /\ numa_node'[u] = numa_node[u]
  BY <1>1 DEF PlacementInv, TypeOK
<1> QED BY <1>1, <1>2, <1>3, <1>4, <1>5, ThreadStepInv

(* The steps that change nothing but the pc of the thread and its block:   *)
(* where a thread goes from and to, and what happens to the mutex.         *)
LEMMA PcStepInv ==
  ASSUME PlacementInv, NEW t \in Threads,
         NEW to \in {"idle", "locked", "allocate", "libnuma", "calloc", "client"},
         pc[t] \notin {"idle", "check"}, pc' = [pc EXCEPT ![t] = to],
         NEW al \in Allocation \cup {NoAllocation}, a' = [a EXCEPT ![t] = al],
         to = "client" => al \in m_pools[index[t]],
         \/ /\ m_mutex' = m_mutex
            /\ to \in LockedPcs => pc[t] \in LockedPcs
         \/ /\ m_mutex[index[t]] = NoThread
            /\ m_mutex' = [m_mutex EXCEPT ![index[t]] = t]
         \/ /\ pc[t] \in LockedPcs /\ to \notin LockedPcs
            /\ m_mutex' = [m_mutex EXCEPT ![index[t]] = NoThread],
         UNCHANGED <<machine, held, m_pools, leaked, cpu, numa_node, index>>
  PROVE  PlacementInv'
<1>1. m_mutex' \in [Indices -> Threads \cup {NoThread}]
  BY DEF PlacementInv, TypeOK
<1>2. TypeOK'
  BY <1>1, MachineStays DEF PlacementInv, TypeOK
<1>3. /\ pc'[t] = to /\ a'[t] = al
      /\ \A u \in Threads \ {t} : pc'[u] = pc[u] /\ a'[u] = a[u]
  BY DEF PlacementInv, TypeOK
<1>4. /\ NodeOfPool(index[t]) \in LocalNodes
      /\ numa_node[t] \in LocalNodes => NodeOfPool(index[t]) = numa_node[t]
  BY DEF PlacementInv, ThreadsUseTheirPool
<1> QED BY <1>2, <1>3, <1>4, ThreadStepInv

(* A block of a segment of the pool.                                       *)
LEMMA PopHitInv ==
  ASSUME PlacementInv, NEW t \in Threads, PopHit(t)
  PROVE  PlacementInv'
<1>1. PICK segment \in m_pools[index[t]] : a' = [a EXCEPT ![t] = segment]
  BY DEF PopHit
<1>2. /\ pc[t] = "pop" /\ pc' = [pc EXCEPT ![t] = "client"]
      /\ UNCHANGED <<machine, held, m_pools, m_mutex, leaked, cpu, numa_node, index>>
  BY DEF PopHit, Goto, numaVars, poolVars
<1>3. segment \in Allocation /\ "client" \notin LockedPcs
  BY DEF PlacementInv, TypeOK, LockedPcs
<1> QED BY <1>1, <1>2, <1>3, PcStepInv

(* There is none, and the mutex is free ...                                *)
LEMMA PopMissInv ==
  ASSUME PlacementInv, NEW t \in Threads, PopMiss(t)
  PROVE  PlacementInv'
<1>1. /\ pc[t] = "pop" /\ pc' = [pc EXCEPT ![t] = "locked"]
      /\ m_mutex[index[t]] = NoThread
      /\ m_mutex' = [m_mutex EXCEPT ![index[t]] = t]
      /\ UNCHANGED <<machine, held, m_pools, leaked, cpu, numa_node, index, a>>
  BY DEF PopMiss, Goto, numaVars
<1>2. a' = [a EXCEPT ![t] = a[t]] /\ a[t] \in Allocation \cup {NoAllocation}
  BY <1>1 DEF PlacementInv, TypeOK
<1> QED BY <1>1, <1>2, PcStepInv

(* ... there is one now, or one that the thread has added ...              *)
LEMMA PopLockedHitInv ==
  ASSUME PlacementInv, NEW t \in Threads, PopLockedHit(t)
  PROVE  PlacementInv'
<1>1. PICK segment \in m_pools[index[t]] : a' = [a EXCEPT ![t] = segment]
  BY DEF PopLockedHit
<1>2. /\ pc[t] = "locked" /\ pc' = [pc EXCEPT ![t] = "client"]
      /\ m_mutex' = [m_mutex EXCEPT ![index[t]] = NoThread]
      /\ UNCHANGED <<machine, held, m_pools, leaked, cpu, numa_node, index>>
  BY DEF PopLockedHit, Goto, numaVars
<1>3. segment \in Allocation /\ "client" \notin LockedPcs /\ pc[t] \in LockedPcs
  BY <1>2 DEF PlacementInv, TypeOK, LockedPcs
<1> QED BY <1>1, <1>2, <1>3, PcStepInv

(* ... or a segment is added.                                              *)
LEMMA PopLockedMissInv ==
  ASSUME PlacementInv, NEW t \in Threads, PopLockedMiss(t)
  PROVE  PlacementInv'
<1>1. /\ pc[t] = "locked" /\ pc' = [pc EXCEPT ![t] = "allocate"]
      /\ UNCHANGED <<machine, held, m_pools, m_mutex, leaked, cpu, numa_node,
                     index, a>>
  BY DEF PopLockedMiss, Goto, numaVars, poolVars
<1>2. a' = [a EXCEPT ![t] = a[t]] /\ a[t] \in Allocation \cup {NoAllocation}
  BY <1>1 DEF PlacementInv, TypeOK
<1>3. pc[t] \in LockedPcs
  BY <1>1 DEF LockedPcs
<1> QED BY <1>1, <1>2, <1>3, PcStepInv

(* numa_tools::allocate decides between libnuma and calloc.                *)
LEMMA ChooseAllocatorInv ==
  ASSUME PlacementInv, NEW t \in Threads, ChooseAllocator(t)
  PROVE  PlacementInv'
<1>1. /\ pc[t] = "allocate"
      /\ pc' = [pc EXCEPT ![t] = "calloc"] \/ pc' = [pc EXCEPT ![t] = "libnuma"]
      /\ UNCHANGED <<machine, held, m_pools, m_mutex, leaked, cpu, numa_node,
                     index, a>>
  BY DEF ChooseAllocator, Goto, numaVars, poolVars
<1>2. a' = [a EXCEPT ![t] = a[t]] /\ a[t] \in Allocation \cup {NoAllocation}
  BY <1>1 DEF PlacementInv, TypeOK
<1>3. pc[t] \in LockedPcs
  BY <1>1 DEF LockedPcs
<1> QED BY <1>1, <1>2, <1>3, PcStepInv

(* Memory that was free has no owner.                                      *)
LEMMA FreeMemoryIsNobodys ==
  ASSUME PlacementInv, NEW x \in Addresses, held[x] = NotHeld
  PROVE  /\ \A i \in Indices : \A segment \in m_pools[i] : segment.ptr # x
         /\ \A u \in Threads : pc[u] = "check" => a[u].ptr # x
         /\ \A i \in Indices : x \notin leaked[i]
<1>1. held[x].from \notin {"libnuma", "calloc"}
  BY DEF NotHeld
<1>2. ASSUME NEW al, al.ptr = x, IsAt(al) PROVE FALSE
  BY <1>1, <1>2 DEF IsAt
<1>3. \A i \in Indices : \A segment \in m_pools[i] : segment.ptr # x
  BY <1>2 DEF PlacementInv, SegmentsAreOnTheirNode
<1>4. \A u \in Threads : pc[u] = "check" => a[u].ptr # x
  BY <1>2 DEF PlacementInv, ThreadsHaveTheirMemory
<1>5. \A i \in Indices : x \notin leaked[i]
  BY DEF PlacementInv, LeaksAreStuck, NotHeld
<1> QED BY <1>3, <1>4, <1>5

(* A thread gets memory, on a node that the code knows if it can.          *)
LEMMA GetMemoryInv ==
  ASSUME PlacementInv, NEW t \in Threads, NEW x \in Addresses,
         NEW node \in MemoryNodes, NEW known \in Nat, NEW numa \in BOOLEAN,
         machine.mempolicy \/ numa => known = node,
         pc[t] \in {"libnuma", "calloc"}, pc' = [pc EXCEPT ![t] = "check"],
         held[x] = NotHeld,
         held' = [held EXCEPT ![x] = [from |-> IF numa THEN "libnuma" ELSE "calloc",
                                      node |-> node]],
         a' = [a EXCEPT ![t] = [ptr |-> x, node |-> known, use_numa_free |-> numa]],
         UNCHANGED <<machine, m_pools, m_mutex, leaked, cpu, numa_node, index>>
  PROVE  PlacementInv'
<1> DEFINE al == [ptr |-> x, node |-> known, use_numa_free |-> numa]
           there == [from |-> IF numa THEN "libnuma" ELSE "calloc", node |-> node]
<1>2. /\ al \in Allocation /\ al.ptr = x
      /\ there \in [from : {"none", "libnuma", "calloc"}, node : {0} \cup MemoryNodes]
      /\ there.from = IF al.use_numa_free THEN "libnuma" ELSE "calloc"
      /\ machine.mempolicy \/ al.use_numa_free => there.node = al.node
      /\ there.from # "none"
  BY DEF Allocation
<1>3. a' = [a EXCEPT ![t] = al] /\ held' = [held EXCEPT ![x] = there]
  OBVIOUS
<1> HIDE DEF al, there
<1>4. /\ \A i \in Indices : \A segment \in m_pools[i] :
           segment.ptr # x /\ segment.ptr \in Addresses
      /\ \A u \in Threads : pc[u] = "check" => a[u].ptr # x /\ a[u].ptr \in Addresses
      /\ \A i \in Indices : x \notin leaked[i] /\ leaked[i] \subseteq Addresses
  BY FreeMemoryIsNobodys
  DEF PlacementInv, TypeOK, ThreadsHaveTheirMemory, Allocation
<1>5. held'[x] = there /\ \A y \in Addresses \ {x} : held'[y] = held[y]
  BY <1>3 DEF PlacementInv, TypeOK
<1>6. /\ a'[t] = al /\ pc'[t] = "check" /\ pc[t] \in LockedPcs
      /\ \A u \in Threads \ {t} : a'[u] = a[u] /\ pc'[u] = pc[u]
  BY <1>3 DEF PlacementInv, TypeOK, LockedPcs
<1>7. TypeOK'
  BY <1>2, <1>3, MachineStays DEF PlacementInv, TypeOK
<1>8. SegmentsAreOnTheirNode'
  BY <1>4, <1>5, SegmentsStay DEF PlacementInv
<1>9. ThreadsHaveTheirMemory'
  BY <1>2, <1>4, <1>5, <1>6, MachineStays
  DEF PlacementInv, ThreadsHaveTheirMemory, IsAt
<1>10. MemoryIsKnown'
  BY <1>2, <1>5, <1>6, MachineStays DEF PlacementInv, MemoryIsKnown
<1>11. ThreadsUseTheirPool'
  BY <1>6, MachineStays
  DEF PlacementInv, ThreadsUseTheirPool, NodeOfPool, LockedPcs
<1>12. LeaksAreStuck'
  <2>1. \A i \in Stuck : i \in Stuck'
    BY <1>6, StuckStays
  <2> QED
    BY <1>2, <1>4, <1>5, <1>6, <2>1, MachineStays DEF PlacementInv, LeaksAreStuck
<1> QED BY <1>7, <1>8, <1>9, <1>10, <1>11, <1>12 DEF PlacementInv

(* numa_alloc_onnode returns memory on the node of the pool ...            *)
LEMMA NumaAllocInv ==
  ASSUME PlacementInv, NEW t \in Threads, NEW x \in Addresses, NumaAlloc(t, x)
  PROVE  PlacementInv'
<1> DEFINE node == NodeOfPool(index[t])
<1>1. node \in MemoryNodes
  <2>1. node \in LocalNodes
    BY DEF PlacementInv, ThreadsUseTheirPool, NumaAlloc, Goto
  <2> QED BY <2>1, NodeSets DEF PlacementInv, TypeOK
<1>2. /\ pc[t] = "libnuma" /\ pc' = [pc EXCEPT ![t] = "check"]
      /\ held[x] = NotHeld
      /\ held' = [held EXCEPT ![x] = [from |-> "libnuma", node |-> node]]
      /\ a' = [a EXCEPT ![t] = [ptr |-> x, node |-> node, use_numa_free |-> TRUE]]
      /\ UNCHANGED <<machine, m_pools, m_mutex, leaked, cpu, numa_node, index>>
  BY DEF NumaAlloc, AllocateOnNode, OnNode, Goto, poolVars
<1>3. node \in Nat
  BY <1>1, NodeSets DEF PlacementInv, TypeOK
<1> HIDE DEF node
<1>4. PICK m : m = node
  OBVIOUS
<1> QED BY <1>1, <1>2, <1>3, <1>4, GetMemoryInv

(* ... or fails;                                                           *)
LEMMA NumaAllocFailsInv ==
  ASSUME PlacementInv, NEW t \in Threads, NumaAllocFails(t)
  PROVE  PlacementInv'
<1>1. /\ pc[t] = "libnuma" /\ pc' = [pc EXCEPT ![t] = "calloc"]
      /\ UNCHANGED <<machine, held, m_pools, m_mutex, leaked, cpu, numa_node,
                     index, a>>
  BY DEF NumaAllocFails, Goto, numaVars, poolVars
<1>2. a' = [a EXCEPT ![t] = a[t]] /\ a[t] \in Allocation \cup {NoAllocation}
  BY <1>1 DEF PlacementInv, TypeOK
<1>3. pc[t] \in LockedPcs
  BY <1>1 DEF LockedPcs
<1> QED BY <1>1, <1>2, <1>3, PcStepInv

(* calloc returns memory on any node.                                      *)
LEMMA CallocInv ==
  ASSUME PlacementInv, NEW t \in Threads, NEW x \in Addresses,
         NEW node \in MemoryNodes, Calloc(t, x, node)
  PROVE  PlacementInv'
<1>1. /\ pc[t] = "calloc" /\ pc' = [pc EXCEPT ![t] = "check"]
      /\ held[x] = NotHeld
      /\ held' = [held EXCEPT ![x] = [from |-> "calloc", node |-> node]]
      /\ a' = [a EXCEPT ![t] = [ptr |-> x, node |-> get_node(node),
                                use_numa_free |-> FALSE]]
      /\ UNCHANGED <<machine, m_pools, m_mutex, leaked, cpu, numa_node, index>>
  BY DEF Calloc, AllocateMalloc, Malloced, Goto, poolVars
<1>2. get_node(node) \in Nat /\ (machine.mempolicy => get_node(node) = node)
  BY NodeSets DEF get_node, PlacementInv, TypeOK
<1>3. PICK known : known = get_node(node)
  OBVIOUS
<1> QED BY <1>1, <1>2, <1>3, GetMemoryInv

(* There is no memory, and the mutex stays locked.                         *)
LEMMA CallocFailsInv ==
  ASSUME PlacementInv, NEW t \in Threads, CallocFails(t)
  PROVE  PlacementInv'
<1>1. /\ pc[t] = "calloc" /\ pc' = [pc EXCEPT ![t] = "idle"]
      /\ UNCHANGED <<machine, held, m_pools, m_mutex, leaked, cpu, numa_node,
                     index, a>>
  BY DEF CallocFails, Goto, numaVars, poolVars
<1>2. a' = [a EXCEPT ![t] = a[t]] /\ a[t] \in Allocation \cup {NoAllocation}
  BY <1>1 DEF PlacementInv, TypeOK
<1>3. "idle" \notin LockedPcs
  BY DEF LockedPcs
<1> QED BY <1>1, <1>2, <1>3, PcStepInv

(* Memory the code is right about is given back with the right function.   *)
LEMMA FreeGivesBack ==
  ASSUME NEW al, IsAt(al), al.use_numa_free \in BOOLEAN, Free(al)
  PROVE  held' = [held EXCEPT ![al.ptr] = NotHeld]
<1>1. held[al.ptr].from = IF al.use_numa_free THEN "libnuma" ELSE "calloc"
  BY DEF IsAt
<1>2. al.use_numa_free = (held[al.ptr].from = "libnuma")
  <2>1. CASE al.use_numa_free = TRUE
    BY <1>1, <2>1
  <2>2. CASE al.use_numa_free = FALSE
    BY <1>1, <2>2
  <2> QED BY <2>1, <2>2
<1> QED BY <1>2 DEF Free

(* A thread gives back the memory in its hand: no segment has it.          *)
LEMMA GiveBackInv ==
  ASSUME PlacementInv, NEW t \in Threads,
         pc[t] = "check", pc' = [pc EXCEPT ![t] = "idle"],
         a' = [a EXCEPT ![t] = NoAllocation], Free(a[t]),
         UNCHANGED <<machine, m_pools, m_mutex, leaked, cpu, numa_node, index>>
  PROVE  PlacementInv'
<1> DEFINE al == a[t]
<1>1. Free(al)
  OBVIOUS
<1>2. /\ al \in Allocation /\ IsAt(al)
      /\ \A i \in Indices : \A segment \in m_pools[i] : segment.ptr # al.ptr
      /\ \A u \in Threads : pc[u] = "check" /\ a[u].ptr = al.ptr => u = t
  BY <1>1 DEF PlacementInv, ThreadsHaveTheirMemory
<1>3. al.ptr \in Addresses /\ al.use_numa_free \in BOOLEAN
  BY <1>2 DEF Allocation
<1>4. held' = [held EXCEPT ![al.ptr] = NotHeld]
  BY <1>1, <1>2, <1>3, FreeGivesBack
<1>5. PICK x \in Addresses : x = al.ptr
  BY <1>3
<1>6. /\ held'[x] = NotHeld /\ held' \in [Addresses -> {held[y] : y \in Addresses} \cup {NotHeld}]
      /\ \A y \in Addresses \ {x} : held'[y] = held[y]
  BY <1>4, <1>5 DEF PlacementInv, TypeOK
<1> HIDE DEF al
<1>7. /\ pc'[t] = "idle" /\ "idle" \notin LockedPcs
      /\ \A u \in Threads \ {t} : a'[u] = a[u] /\ pc'[u] = pc[u]
  BY <1>1 DEF PlacementInv, TypeOK, LockedPcs
<1>8. /\ \A i \in Indices : \A segment \in m_pools[i] :
           segment.ptr # x /\ segment.ptr \in Addresses
      /\ \A u \in Threads \ {t} : pc[u] = "check" => a[u].ptr # x /\ a[u].ptr \in Addresses
      /\ a[t].ptr = x
      /\ \A i \in Indices : \A y \in leaked[i] : y # x /\ y \in Addresses
  BY <1>2, <1>5
  DEF al, PlacementInv, TypeOK, ThreadsHaveTheirMemory, Allocation, LeaksAreStuck
<1>9. TypeOK'
  <2>1. NotHeld \in [from : {"none", "libnuma", "calloc"}, node : {0} \cup MemoryNodes]
    BY DEF NotHeld
  <2> QED BY <1>1, <1>6, <2>1, MachineStays DEF PlacementInv, TypeOK
<1>10. SegmentsAreOnTheirNode'
  BY <1>1, <1>6, <1>8, SegmentsStay DEF PlacementInv
<1>11. ThreadsHaveTheirMemory'
  BY <1>1, <1>6, <1>7, <1>8, MachineStays
  DEF PlacementInv, ThreadsHaveTheirMemory, IsAt
<1>12. MemoryIsKnown'
  <2>1. held'[x].from = "none"
    BY <1>6 DEF NotHeld
  <2> QED
    BY <1>1, <1>6, <1>7, <1>8, <2>1, MachineStays DEF PlacementInv, MemoryIsKnown
<1>13. ThreadsUseTheirPool'
  BY <1>1, <1>7, MachineStays DEF PlacementInv, ThreadsUseTheirPool, NodeOfPool
<1>14. LeaksAreStuck'
  <2>1. \A i \in Stuck : i \in Stuck'
    BY <1>7, StuckStays
  <2> QED
    BY <1>6, <1>7, <1>8, <2>1, MachineStays DEF PlacementInv, LeaksAreStuck
<1> QED BY <1>9, <1>10, <1>11, <1>12, <1>13, <1>14 DEF PlacementInv

(* Memory of another node is given back ...                                *)
LEMMA CheckThrowsInv ==
  ASSUME PlacementInv, NEW t \in Threads, CheckThrows(t)
  PROVE  PlacementInv'
BY GiveBackInv DEF CheckThrows, Goto, poolVars

(* ... and that of a segment that was not built, by its holder.            *)
LEMMA ConstructThrowsInv ==
  ASSUME PlacementInv, NEW t \in Threads, ConstructThrows(t)
  PROVE  PlacementInv'
BY GiveBackInv DEF ConstructThrows, Goto, poolVars

(* Memory whose registration fails is nobody's, and its pool is stuck.     *)
LEMMA RegisterThrowsInv ==
  ASSUME PlacementInv, NEW t \in Threads, RegisterThrows(t)
  PROVE  PlacementInv'
<1>1. /\ pc[t] = "check" /\ pc' = [pc EXCEPT ![t] = "idle"]
      /\ leaked' = [leaked EXCEPT ![index[t]] = @ \cup {a[t].ptr}]
      /\ a' = [a EXCEPT ![t] = NoAllocation]
      /\ UNCHANGED <<machine, held, m_pools, m_mutex, cpu, numa_node, index>>
  BY DEF RegisterThrows, Goto, numaVars
<1>2. PICK x, k : x = a[t].ptr /\ k = index[t]
  OBVIOUS
<1>3. /\ x \in Addresses /\ k \in Indices
      /\ held[x].from # "none"
      /\ \A i \in Indices : \A segment \in m_pools[i] : segment.ptr # x
      /\ \A u \in Threads : pc[u] = "check" /\ a[u].ptr = x => u = t
      /\ \A i \in Indices : x \notin leaked[i]
  BY <1>1, <1>2
  DEF PlacementInv, TypeOK, ThreadsHaveTheirMemory, LeaksAreStuck, IsAt, Allocation
<1>4. m_mutex[k] = t /\ k \notin Stuck
  BY <1>1, <1>2, <1>3
  DEF PlacementInv, ThreadsUseTheirPool, LockedPcs, Stuck
<1>5. /\ pc'[t] = "idle" /\ "idle" \notin LockedPcs
      /\ \A u \in Threads \ {t} : a'[u] = a[u] /\ pc'[u] = pc[u]
  BY <1>1 DEF PlacementInv, TypeOK, LockedPcs
<1>6. leaked[k] = {}
  BY <1>3, <1>4 DEF PlacementInv, LeaksAreStuck
<1>7. /\ leaked' \in [Indices -> SUBSET Addresses]
      /\ leaked'[k] = {x} /\ \A i \in Indices \ {k} : leaked'[i] = leaked[i]
  BY <1>1, <1>2, <1>3, <1>6 DEF PlacementInv, TypeOK
<1>8. TypeOK'
  BY <1>1, <1>7, MachineStays DEF PlacementInv, TypeOK
<1>9. SegmentsAreOnTheirNode'
  BY <1>1, SegmentsStay DEF PlacementInv
<1>10. ThreadsHaveTheirMemory'
  BY <1>1, <1>5, MachineStays DEF PlacementInv, ThreadsHaveTheirMemory, IsAt
<1>11. MemoryIsKnown'
  BY <1>1, <1>2, <1>3, <1>5, <1>7, MachineStays DEF PlacementInv, MemoryIsKnown
<1>12. ThreadsUseTheirPool'
  BY <1>1, <1>5, MachineStays DEF PlacementInv, ThreadsUseTheirPool, NodeOfPool
<1>13. LeaksAreStuck'
  <2>1. \A i \in Stuck : i \in Stuck'
    BY <1>1, <1>5, StuckStays
  <2>2. k \in Stuck'
    BY <1>1, <1>3, <1>4, <1>5, MachineStays DEF Stuck
  <2>3. Indices' = Indices
    BY <1>1, MachineStays
  <2>4. ASSUME NEW i \in Indices, NEW y \in leaked'[i]
        PROVE  /\ i \in Stuck'
               /\ held[y].from # "none"
               /\ \A j \in Indices : \A z \in leaked'[j] : y = z <=> i = j
               /\ \A j \in Indices : \A segment \in m_pools[j] : segment.ptr # y
               /\ \A u \in Threads : pc'[u] = "check" => a'[u].ptr # y
    <3>1. CASE i = k
      BY <1>3, <1>5, <1>7, <2>2, <3>1
    <3>2. CASE i # k
      <4>1. y \in leaked[i]
        BY <1>7, <3>2
      <4>2. y # x
        BY <1>3, <4>1
      <4> QED
        BY <1>5, <1>7, <2>1, <3>2, <4>1, <4>2 DEF PlacementInv, LeaksAreStuck
    <3> QED BY <3>1, <3>2
  <2> QED BY <1>1, <2>3, <2>4 DEF LeaksAreStuck
<1> QED BY <1>8, <1>9, <1>10, <1>11, <1>12, <1>13 DEF PlacementInv

(* Memory of the node of the pool becomes a segment of it.                 *)
LEMMA AddSegmentInv ==
  ASSUME PlacementInv, NEW t \in Threads, AddSegment(t)
  PROVE  PlacementInv'
<1>1. /\ pc[t] = "check" /\ pc' = [pc EXCEPT ![t] = "locked"]
      /\ a[t].node = NodeOfPool(index[t])
      /\ m_pools' = [m_pools EXCEPT ![index[t]] = @ \cup {a[t]}]
      /\ a' = [a EXCEPT ![t] = NoAllocation]
      /\ UNCHANGED <<machine, held, m_mutex, leaked, cpu, numa_node, index>>
  BY DEF AddSegment, OnExpectedNode, Goto, numaVars
<1>2. PICK al, k : al = a[t] /\ k = index[t]
  OBVIOUS
<1>3. /\ al \in Allocation /\ IsAt(al) /\ k \in Indices
      /\ al.node = NodeOfPool(k)
      /\ \A i \in Indices : \A segment \in m_pools[i] : segment.ptr # al.ptr
      /\ \A u \in Threads : pc[u] = "check" /\ a[u].ptr = al.ptr => u = t
      /\ \A i \in Indices : \A x \in leaked[i] : al.ptr # x
  BY <1>1, <1>2
  DEF PlacementInv, TypeOK, ThreadsHaveTheirMemory, LeaksAreStuck
<1>4. /\ m_pools' \in [Indices -> SUBSET Allocation]
      /\ m_pools'[k] = m_pools[k] \cup {al}
      /\ \A i \in Indices \ {k} : m_pools'[i] = m_pools[i]
  BY <1>1, <1>2, <1>3 DEF PlacementInv, TypeOK
<1>5. /\ pc'[t] = "locked" /\ {"check", "locked"} \subseteq LockedPcs
      /\ \A u \in Threads \ {t} : a'[u] = a[u] /\ pc'[u] = pc[u]
  BY <1>1 DEF PlacementInv, TypeOK, LockedPcs
<1>6. TypeOK'
  BY <1>1, <1>4, MachineStays DEF PlacementInv, TypeOK
<1>7. SegmentsAreOnTheirNode'
  <2>1. ASSUME NEW i \in Indices, NEW segment \in m_pools'[i]
        PROVE  /\ IsAt(segment)
               /\ segment.node = NodeOfPool(i)
               /\ \A j \in Indices : \A other \in m_pools'[j] :
                    other.ptr = segment.ptr => j = i /\ other = segment
    BY <1>3, <1>4 DEF PlacementInv, SegmentsAreOnTheirNode
  <2>2. \A segment : IsAt(segment)' <=> IsAt(segment)
    BY <1>1 DEF IsAt
  <2>3. Indices' = Indices /\ \A i : NodeOfPool(i)' = NodeOfPool(i)
    BY <1>1, MachineStays DEF NodeOfPool
  <2> QED BY <2>1, <2>2, <2>3 DEF SegmentsAreOnTheirNode
<1>8. ThreadsHaveTheirMemory'
  BY <1>1, <1>3, <1>4, <1>5, MachineStays
  DEF PlacementInv, TypeOK, ThreadsHaveTheirMemory, IsAt
<1>9. MemoryIsKnown'
  BY <1>1, <1>2, <1>3, <1>4, <1>5, MachineStays DEF PlacementInv, MemoryIsKnown
<1>10. ThreadsUseTheirPool'
  BY <1>1, <1>5, MachineStays DEF PlacementInv, ThreadsUseTheirPool, NodeOfPool
<1>11. LeaksAreStuck'
  <2>1. \A i \in Stuck : i \in Stuck'
    BY <1>1, <1>5, StuckStays
  <2>2. \A i \in Indices : \A segment \in m_pools'[i] :
          segment \in m_pools[i] \/ segment = al
    BY <1>4
  <2> QED
    BY <1>1, <1>3, <1>5, <2>1, <2>2, MachineStays DEF PlacementInv, LeaksAreStuck
<1> QED BY <1>6, <1>7, <1>8, <1>9, <1>10, <1>11 DEF PlacementInv

(* The client frees its block.                                             *)
LEMMA FreeBlockInv ==
  ASSUME PlacementInv, NEW t \in Threads, FreeBlock(t)
  PROVE  PlacementInv'
<1>1. /\ pc[t] = "client" /\ pc' = [pc EXCEPT ![t] = "idle"]
      /\ a' = [a EXCEPT ![t] = NoAllocation]
      /\ UNCHANGED <<machine, held, m_pools, m_mutex, leaked, cpu, numa_node, index>>
  BY DEF FreeBlock, Goto, numaVars, poolVars
<1>2. "idle" \notin LockedPcs
  BY DEF LockedPcs
<1> QED BY <1>1, <1>2, PcStepInv

(* The memory of a segment no client has a block of is given back.         *)
LEMMA DestroySegmentInv ==
  ASSUME PlacementInv, NEW t \in Threads, NEW k \in Indices,
         NEW al \in m_pools[k], DestroySegment(t, k, al)
  PROVE  PlacementInv'
<1>1. /\ \A u \in Threads : a[u] # al
      /\ Free(al)
      /\ m_pools' = [m_pools EXCEPT ![k] = @ \ {al}]
      /\ UNCHANGED <<machine, m_mutex, leaked, cpu, pc, numa_node, index, a>>
  BY DEF DestroySegment, threadVars
<1>2. /\ al \in Allocation /\ IsAt(al)
      /\ \A i \in Indices : \A segment \in m_pools[i] :
           segment.ptr = al.ptr => i = k /\ segment = al
  BY DEF PlacementInv, TypeOK, SegmentsAreOnTheirNode
<1>3. al.ptr \in Addresses /\ al.use_numa_free \in BOOLEAN
  BY <1>2 DEF Allocation
<1>4. held' = [held EXCEPT ![al.ptr] = NotHeld]
  BY <1>1, <1>2, <1>3, FreeGivesBack
<1>5. PICK x \in Addresses : x = al.ptr
  BY <1>3
<1>6. /\ held'[x] = NotHeld /\ held' \in [Addresses -> {held[y] : y \in Addresses} \cup {NotHeld}]
      /\ \A y \in Addresses \ {x} : held'[y] = held[y]
  BY <1>4, <1>5 DEF PlacementInv, TypeOK
<1>7. /\ m_pools' \in [Indices -> SUBSET Allocation]
      /\ \A i \in Indices : m_pools'[i] = {segment \in m_pools[i] : segment.ptr # x}
  BY <1>1, <1>2, <1>5 DEF PlacementInv, TypeOK
<1>8. /\ \A i \in Indices : \A segment \in m_pools[i] : segment.ptr \in Addresses
      /\ \A u \in Threads : pc[u] = "check" => a[u].ptr # x /\ a[u].ptr \in Addresses
      /\ \A i \in Indices : \A y \in leaked[i] : y # x /\ y \in Addresses
  BY <1>5
  DEF PlacementInv, TypeOK, ThreadsHaveTheirMemory, Allocation, LeaksAreStuck
<1>9. TypeOK'
  <2>1. NotHeld \in [from : {"none", "libnuma", "calloc"}, node : {0} \cup MemoryNodes]
    BY DEF NotHeld
  <2> QED BY <1>1, <1>6, <1>7, <2>1, MachineStays DEF PlacementInv, TypeOK
<1>10. SegmentsAreOnTheirNode'
  BY <1>1, <1>6, <1>7, <1>8, SegmentsStay DEF PlacementInv
<1>11. ThreadsHaveTheirMemory'
  <2>1. \A u \in Threads : pc[u] = "client" => a[u] \in m_pools'[index[u]]
    BY <1>1, <1>2, <1>5, <1>7 DEF PlacementInv, TypeOK, ThreadsHaveTheirMemory
  <2> QED
    BY <1>1, <1>6, <1>7, <1>8, <2>1, MachineStays
    DEF PlacementInv, ThreadsHaveTheirMemory, IsAt
<1>12. MemoryIsKnown'
  <2>1. held'[x].from = "none"
    BY <1>6 DEF NotHeld
  <2> QED
    BY <1>1, <1>6, <1>7, <2>1, MachineStays DEF PlacementInv, MemoryIsKnown
<1>13. ThreadsUseTheirPool'
  BY <1>1, MachineStays DEF PlacementInv, ThreadsUseTheirPool, NodeOfPool
<1>14. LeaksAreStuck'
  <2>1. Stuck' = Stuck
    BY <1>1, MachineStays DEF Stuck
  <2> QED
    BY <1>1, <1>6, <1>7, <1>8, <2>1, MachineStays DEF PlacementInv, LeaksAreStuck
<1> QED BY <1>9, <1>10, <1>11, <1>12, <1>13, <1>14 DEF PlacementInv

(* The operating system moves a thread.                                    *)
LEMMA MigrateInv ==
  ASSUME PlacementInv, NEW t \in Threads, NEW c \in machine.task_cpus, Migrate(t, c)
  PROVE  PlacementInv'
<1>1. /\ cpu' = [cpu EXCEPT ![t] = c]
      /\ UNCHANGED <<machine, held, m_pools, m_mutex, leaked, pc, numa_node,
                     index, a>>
  BY DEF Migrate, numaVars, poolVars, threadVars
<1>2. TypeOK'
  BY <1>1, MachineStays DEF PlacementInv, TypeOK
<1> QED BY <1>1, <1>2, OtherStepInv

-----------------------------------------------------------------------------
(* The theorems                                                            *)

(* The pools of the constructor are empty.                                 *)
LEMMA PlacementInitInv == Init => PlacementInv
<1> SUFFICES ASSUME Init PROVE PlacementInv
  OBVIOUS
<1>1. machine \in Machines /\ cpu \in [Threads -> machine.task_cpus]
  BY DEF Init, NumaInit
<1>2. \A t \in Threads : 0 \in Indices
  BY <1>1, RequestsHaveAPool
<1>3. NotHeld \in [from : {"none", "libnuma", "calloc"}, node : {0} \cup MemoryNodes]
  BY DEF NotHeld
<1>4. TypeOK
  BY <1>1, <1>2, <1>3 DEF Init, NumaInit, TypeOK
<1>5. MemoryIsKnown
  BY DEF Init, NumaInit, MemoryIsKnown, NotHeld
<1>6. /\ ThreadsUseTheirPool /\ SegmentsAreOnTheirNode
      /\ ThreadsHaveTheirMemory /\ LeaksAreStuck
  BY DEF Init, ThreadsUseTheirPool, SegmentsAreOnTheirNode,
         ThreadsHaveTheirMemory, LockedPcs, LeaksAreStuck
<1> QED BY <1>4, <1>5, <1>6 DEF PlacementInv

(* Every step preserves the invariant.                                     *)
LEMMA PlacementNextInv ==
  ASSUME PlacementInv, [Next]_vars
  PROVE  PlacementInv'
<1>1. CASE UNCHANGED vars
  <2>1. UNCHANGED <<machine, held, m_pools, m_mutex, leaked, cpu, pc, numa_node,
                    index, a>>
    BY <1>1 DEF vars, numaVars, poolVars, threadVars
  <2>2. TypeOK'
    BY <2>1, MachineStays DEF PlacementInv, TypeOK
  <2> QED BY <2>1, <2>2, OtherStepInv
<1> QED
  BY <1>1, AllocateInv, PopHitInv, PopMissInv, PopLockedHitInv, PopLockedMissInv,
     ChooseAllocatorInv, NumaAllocInv, NumaAllocFailsInv, CallocInv, CallocFailsInv,
     CheckThrowsInv, RegisterThrowsInv, ConstructThrowsInv, AddSegmentInv,
     FreeBlockInv, DestroySegmentInv, MigrateInv
  DEF Next

(* PlacementInv is an invariant, for any machines, threads and requests.   *)
THEOREM PlacementInvariant == Spec => []PlacementInv
<1>1. PlacementInv /\ [Next]_vars => PlacementInv'
  BY PlacementNextInv
<1> QED BY PlacementInitInv, <1>1, PTL DEF Spec

(* Every request is sent to a pool that exists.                            *)
THEOREM PlacementTypeCorrect == Spec => []TypeOK
<1>1. PlacementInv => TypeOK
  BY DEF PlacementInv
<1> QED BY PlacementInvariant, <1>1, PTL

(* The node maps find every node of their set, at its index, and no other, *)
(* whatever numbers the nodes have.                                        *)
THEOREM NodeMapIsExactTheorem == Spec => []NodeMapIsExact
<1>1. PlacementInv => NodeMapIsExact
  BY MapsAreExact DEF PlacementInv, TypeOK
<1> QED BY PlacementInvariant, <1>1, PTL

(* A client gets memory on the node it asked for, wherever its thread was  *)
(* moved while the memory was allocated and checked, if libnuma placed it  *)
(* or get_mempolicy could say where it is.                                 *)
THEOREM ServedOnNodeTheorem == Spec => []ServedOnNodeAskedFor
<1>1. ASSUME PlacementInv, NEW t \in Threads, pc[t] = "client",
             machine.mempolicy \/ held[a[t].ptr].from = "libnuma"
      PROVE  /\ held[a[t].ptr].node = NodeOfPool(index[t])
             /\ numa_node[t] \in LocalNodes => held[a[t].ptr].node = numa_node[t]
  <2>1. a[t] \in m_pools[index[t]] /\ index[t] \in Indices
    BY <1>1 DEF PlacementInv, TypeOK, ThreadsHaveTheirMemory
  <2>2. IsAt(a[t]) /\ a[t].node = NodeOfPool(index[t])
    BY <1>1, <2>1 DEF PlacementInv, SegmentsAreOnTheirNode
  <2>3. held[a[t].ptr].node = a[t].node
    BY <1>1, <2>2 DEF IsAt
  <2> QED BY <1>1, <2>2, <2>3 DEF PlacementInv, ThreadsUseTheirPool
<1>2. PlacementInv => ServedOnNodeAskedFor
  BY <1>1 DEF ServedOnNodeAskedFor
<1> QED BY PlacementInvariant, <1>2, PTL

(* All memory has one owner, who gives it back once and the right way, or  *)
(* was lost to an exception of register_memory, once at most in a pool,    *)
(* and only in one whose mutex stays locked.                               *)
THEOREM MemoryIsAccountedForTheorem == Spec => []MemoryIsAccountedFor
<1>1. ASSUME PlacementInv, NEW x \in Addresses
      PROVE  /\ Cardinality(Owners(x)) = IF held[x].from = "none" THEN 0 ELSE 1
             /\ held[x].from # "corrupt"
  <2>1. held[x].from \in {"none", "libnuma", "calloc"}
    BY <1>1 DEF PlacementInv, TypeOK
  <2>2. \A al : IsAt(al) /\ al.ptr = x => held[x].from # "none"
    BY DEF IsAt
  <2>3. \A o, p \in Owners(x) : o = p /\ held[x].from # "none"
    BY <1>1, <2>2
    DEF PlacementInv, SegmentsAreOnTheirNode, ThreadsHaveTheirMemory,
        LeaksAreStuck, Owners
  <2>4. held[x].from # "none" => Owners(x) # {}
    BY <1>1 DEF PlacementInv, MemoryIsKnown, Owners
  <2>5. CASE held[x].from = "none"
    <3>1. Owners(x) = {}
      BY <2>3, <2>5
    <3> QED BY <2>1, <2>5, <3>1, FS_EmptySet
  <2>6. CASE held[x].from # "none"
    <3>1. PICK o : Owners(x) = {o}
      BY <2>3, <2>4, <2>6
    <3>2. Cardinality(Owners(x)) = 1
      BY <3>1, FS_Singleton
    <3> QED BY <2>1, <2>6, <3>2
  <2> QED BY <2>5, <2>6
<1>2. ASSUME PlacementInv, NEW i \in Indices
      PROVE  Cardinality(leaked[i]) <= IF i \in Stuck THEN 1 ELSE 0
  <2>1. CASE leaked[i] = {}
    BY <2>1, FS_EmptySet
  <2>2. CASE leaked[i] # {}
    <3>1. PICK x : x \in leaked[i]
      BY <2>2
    <3>2. leaked[i] = {x} /\ i \in Stuck
      BY <1>2, <3>1 DEF PlacementInv, LeaksAreStuck
    <3> QED BY <3>2, FS_Singleton
  <2> QED BY <2>1, <2>2
<1>3. PlacementInv => MemoryIsAccountedFor
  BY <1>1, <1>2 DEF MemoryIsAccountedFor
<1> QED BY PlacementInvariant, <1>3, PTL

=============================================================================
