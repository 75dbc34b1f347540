-------------------------- MODULE MCFixedSizeHeap --------------------------
(***************************************************************************)
(* Small machines for TLC: what hwmalloc sees of one without libnuma, one  *)
(* whose process may run on both of its nodes, and one with a device node, *)
(* 2, whose process is kept away from node 1 of the nodes 0, 1 and 3; and  *)
(* a machine of two nodes whose process may not call get_mempolicy.        *)
(***************************************************************************)
EXTENDS FixedSizeHeap, TLC

Symmetric == Permutations(Threads) \cup Permutations(Addresses)

SmallMachines ==
  {StubMachine,
   [node_of_cpu |-> 0 :> 0 @@ 1 :> 1, task_cpus |-> {0, 1},
    all_nodes |-> {0, 1}, libnuma |-> TRUE, mempolicy |-> TRUE],
   [node_of_cpu |-> 0 :> 0 @@ 1 :> 1 @@ 2 :> 3, task_cpus |-> {0, 2},
    all_nodes |-> 0..3, libnuma |-> TRUE, mempolicy |-> TRUE],
   [node_of_cpu |-> 0 :> 0 @@ 1 :> 1, task_cpus |-> {0, 1},
    all_nodes |-> {0, 1}, libnuma |-> TRUE, mempolicy |-> FALSE]}

AllNodes == 0..4

=============================================================================
