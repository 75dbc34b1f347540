------------------------------ MODULE Segment ------------------------------
(***************************************************************************)
(* A segment (include/hwmalloc/detail/segment.hpp): one allocation of      *)
(* memory, registered with the Context and cut into BlocksPerSegment       *)
(* blocks.  This module holds the state of all the segments a pool may     *)
(* have and the atomic operations the code applies to one of them; module  *)
(* Pool puts them in the order in which the threads execute them.          *)
(*                                                                         *)
(* A segment is named by the address of its segment object.  An address    *)
(* is used again once the segment that had it is destroyed, as new and     *)
(* delete do.                                                              *)
(***************************************************************************)
EXTENDS Integers, FiniteSets, SequencesExt

CONSTANTS
  Segments,          (* the addresses the allocator can give to segments   *)
  BlocksPerSegment   (* m_num_blocks, i.e. alloc.size / block_size         *)

ASSUME SegmentAssumption ==
  /\ IsFiniteSet(Segments)
  /\ BlocksPerSegment \in Nat \ {0}

VARIABLES
  memory,       (* what the segment's memory is: see MemoryState           *)
  freed_stack,  (* m_freed_stack: the blocks freed since the last collect  *)
  num_freed     (* m_num_freed, an atomic signed counter                   *)

segmentVars == <<memory, freed_stack, num_freed>>

-----------------------------------------------------------------------------

(* A block as it travels between the stacks and the clients; its handle,   *)
(* which depends on nothing but the segment and the offset, is left out.   *)
Block == [m_segment : Segments, index : 1..BlocksPerSegment]

BlocksOf(s) == {b \in Block : b.m_segment = s}

(* "unmapped":   the operating system has not given this memory            *)
(* "mapped":     allocated, not (or no longer) registered; no segment      *)
(*               object manages it                                         *)
(* "registered": a segment object is alive and owns both the allocation    *)
(*               and its registration with the Context                     *)
MemoryState == {"unmapped", "mapped", "registered"}

IsLive(s) == memory[s] = "registered"

SegmentTypeOK ==
  /\ memory \in [Segments -> MemoryState]
  /\ freed_stack \in [Segments -> Seq(Block)]
  /\ num_freed \in [Segments -> Int]

SegmentInit ==
  /\ memory = [s \in Segments |-> "unmapped"]
  /\ freed_stack = [s \in Segments |-> <<>>]
  /\ num_freed = [s \in Segments |-> 0]

-----------------------------------------------------------------------------

(* numa().allocate returned memory for the segment.                        *)
MapMemory(s) ==
  /\ memory' = [memory EXCEPT ![s] = "mapped"]
  /\ UNCHANGED <<freed_stack, num_freed>>

(* register_memory returned and the members of the segment are             *)
(* initialised: an empty freed stack and a zero counter.                   *)
ConstructMembers(s) ==
  /\ memory' = [memory EXCEPT ![s] = "registered"]
  /\ freed_stack' = [freed_stack EXCEPT ![s] = <<>>]
  /\ num_freed' = [num_freed EXCEPT ![s] = 0]

(* ~segment, members in reverse order of declaration: the freed stack and  *)
(* the counter, then the region (which deregisters the memory)...          *)
DestroyMembers(s) ==
  /\ memory' = [memory EXCEPT ![s] = "mapped"]
  /\ freed_stack' = [freed_stack EXCEPT ![s] = <<>>]
  /\ num_freed' = [num_freed EXCEPT ![s] = 0]

(* Mutant of UnmapMemory: the allocation_holder forgets to free.           *)
KeepMemory(s) == UNCHANGED segmentVars

(* ...and last the allocation_holder, which gives the memory back.         *)
UnmapMemory(s) ==
  /\ memory' = [memory EXCEPT ![s] = "unmapped"]
  /\ UNCHANGED <<freed_stack, num_freed>>

(* The values is_empty() can return to a thread that calls it now.  On a   *)
(* destroyed segment it reads freed memory: it may return anything.        *)
IsEmptyResults(s) ==
  IF IsLive(s) THEN {num_freed[s] = BlocksPerSegment} ELSE BOOLEAN

PushFreed(s, b) ==
  /\ freed_stack' = [freed_stack EXCEPT ![s] = Append(@, b)]
  /\ UNCHANGED <<memory, num_freed>>

(* Mutant of PopFreed: the top is read and stays on the stack.             *)
ReadFreed(s) == UNCHANGED segmentVars

PopFreed(s) ==
  /\ freed_stack' = [freed_stack EXCEPT ![s] = Front(@)]
  /\ UNCHANGED <<memory, num_freed>>

AddToNumFreed(s, n) ==
  /\ num_freed' = [num_freed EXCEPT ![s] = @ + n]
  /\ UNCHANGED <<memory, freed_stack>>

=============================================================================
