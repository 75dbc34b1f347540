----------------------------- MODULE NumaTools -----------------------------
(***************************************************************************)
(* numa_tools (include/hwmalloc/numa.hpp, src/numa.cpp): what hwmalloc     *)
(* knows of the nodes of the machine, and the memory it gets from them.    *)
(***************************************************************************)
EXTENDS Integers, Sequences, FiniteSets, Functions

CONSTANTS
  Addresses,  (* where memory can be                                       *)
  Machines    (* the machines and affinities hwmalloc may be loaded on     *)

(* Cpus and nodes have numbers, and the process runs on cpus of the        *)
(* machine.                                                                *)
ASSUME NumaToolsAssumption ==
  \A m \in Machines :
    /\ m.node_of_cpu \in [DOMAIN m.node_of_cpu -> Nat]
    /\ m.task_cpus \subseteq DOMAIN m.node_of_cpu
    /\ m.all_nodes \subseteq Nat
    /\ IsFiniteSet(DOMAIN m.node_of_cpu) /\ IsFiniteSet(m.all_nodes)

VARIABLES
  machine,  (* node_of_cpu: from 0, 1, ... to the numbers of their nodes;  *)
            (* task_cpus: those the process may run on when it is loaded;  *)
            (* all_nodes: numa_all_nodes_ptr, those it can access;         *)
            (* libnuma: is hwmalloc built with libnuma?                    *)
            (* mempolicy: may the process ask get_mempolicy where memory   *)
            (* is?  Containers are often forbidden to.                     *)
  held      (* of each address: the memory the process has there, if any   *)

numaVars == <<machine, held>>

(* What the code knows of memory it has allocated.                         *)
Allocation == [ptr : Addresses, node : Nat, use_numa_free : BOOLEAN]

(* What hwmalloc makes of any machine when it is built without libnuma:    *)
(* one node for all cpus, and memory from calloc only.                     *)
StubMachine ==
  [node_of_cpu |-> [cpu \in {0} |-> 0], task_cpus |-> {0}, all_nodes |-> {},
   libnuma |-> FALSE, mempolicy |-> FALSE]

NotHeld == [from |-> "none", node |-> 0]

NumaInit ==
  /\ machine \in Machines
  /\ held = [x \in Addresses |-> NotHeld]

-----------------------------------------------------------------------------
(* node_map: the nodes of a set in increasing order, and the index of each *)

NodesUpTo(S) == UNION {0..n : n \in S}

(* Mutant of nodes_to_index: the nodes between those of S get index 0.     *)
NodesToIndexOfZeros(S) ==
  [n \in NodesUpTo(S) |-> IF n \in S THEN Cardinality({m \in S : m < n}) ELSE 0]

(* A node that is not in S has the index of end().                         *)
nodes_to_index(S) ==
  [n \in NodesUpTo(S) |->
     IF n \in S THEN Cardinality({m \in S : m < n}) ELSE Cardinality(S)]

(* std::sort of nodes that are all different                               *)
Sorted(S) ==
  CHOOSE s \in [1..Cardinality(S) -> S] :
    \A i, j \in 1..Cardinality(S) : i < j => s[i] < s[j]

node_map(S) == [nodes |-> Sorted(S), nodes_to_index |-> nodes_to_index(S)]

size(map) == Len(map.nodes)

(* The index find(n) points to, size(map) for end().                       *)
find(map, n) ==
  IF n \in DOMAIN map.nodes_to_index THEN map.nodes_to_index[n] ELSE size(map)

(* count(n) > 0                                                            *)
contains(map, n) ==
  n \in DOMAIN map.nodes_to_index /\ map.nodes_to_index[n] < size(map)

-----------------------------------------------------------------------------

(* discover_nodes                                                          *)
m_cpu_to_node == machine.node_of_cpu
LocalNodes == {m_cpu_to_node[cpu] : cpu \in machine.task_cpus}
m_local_nodes == node_map(LocalNodes)

(* The nodes with cpus, and those of devices, which have memory only.      *)
HostNodes == machine.all_nodes \cap Range(m_cpu_to_node)
DeviceNodes == machine.all_nodes \ Range(m_cpu_to_node)
m_host_nodes == node_map(HostNodes)
m_device_nodes == node_map(DeviceNodes)

(* The nodes get_node may find memory of calloc on.                        *)
MemoryNodes == machine.all_nodes \cup Range(m_cpu_to_node)

(* local_node(), called on a cpu                                           *)
local_node(cpu) == m_cpu_to_node[cpu]

can_allocate_on(node) == contains(m_local_nodes, node)

(* numa_alloc_onnode returns memory on the node it was asked for.          *)
AllocateOnNode(x, node) ==
  /\ held[x] = NotHeld
  /\ held' = [held EXCEPT ![x] = [from |-> "libnuma", node |-> node]]

OnNode(x, node) == [ptr |-> x, node |-> node, use_numa_free |-> TRUE]

(* allocate_malloc: calloc returns memory on any node, recycled memory or  *)
(* pages the policy of the thread places.                                  *)
AllocateMalloc(x, node) ==
  /\ held[x] = NotHeld
  /\ held' = [held EXCEPT ![x] = [from |-> "calloc", node |-> node]]

(* get_node finds out which: an error of get_mempolicy is not looked at,   *)
(* and leaves node_id as it was initialized.                               *)
get_node(node) == IF machine.mempolicy THEN node ELSE 0

Malloced(x, node) == [ptr |-> x, node |-> get_node(node), use_numa_free |-> FALSE]

(* free: numa_free of memory that is not libnuma's, or std::free of memory *)
(* that is, does not give it back.                                         *)
Free(a) ==
  held' = IF a.use_numa_free = (held[a.ptr].from = "libnuma")
            THEN [held EXCEPT ![a.ptr] = NotHeld]
            ELSE [held EXCEPT ![a.ptr].from = "corrupt"]

=============================================================================
