----------------------------- MODULE PoolFaults -----------------------------
(***************************************************************************)
(* A pool whose add_segment also fails after the segment object exists:    *)
(* get_handle of the Context throws in the loop of the constructor of      *)
(* segment, the stack of the pool has no memory for a node, or m_segments  *)
(* has none for an entry.  The blocks pushed so far are on m_free_stack,   *)
(* where other threads find them; nothing takes them off again.            *)
(*                                                                         *)
(* A destroyed segment whose blocks are in use is out of the model: that   *)
(* there is one is what the property is about.                             *)
(***************************************************************************)
EXTENDS PoolProperties

(* The exception destroys the members constructed so far or, if the        *)
(* constructor had returned, the segment: the region first ...             *)
ConstructThrows(t) ==
  /\ Goto(t, "construct", "unwind")
  /\ DestroyMembers(seg[t])
  /\ left' = [left EXCEPT ![t] = 0]
  /\ odd' = [odd EXCEPT ![t] = FALSE]
  /\ UNCHANGED <<free_stack, segments, mutex, owned, block, seg, todo, consumed>>

(* ... and the memory next.  It leaves allocate with m_mutex locked.       *)
Unwind(t) ==
  /\ Goto(t, "unwind", "idle")
  /\ UnmapMemory(seg[t])
  /\ seg' = [seg EXCEPT ![t] = NoSegment]
  /\ UNCHANGED <<free_stack, segments, mutex, owned, block, todo, consumed,
                 odd, left>>

FaultNext == Next \/ \E t \in Threads : ConstructThrows(t) \/ Unwind(t)

FaultSpec == Init /\ [][FaultNext]_vars

-----------------------------------------------------------------------------

(* The memory of a block a client has is not given back before the client  *)
(* frees the block: segments "are kept alive" (heap.hpp).                  *)
ClientsBlocksAreBacked == \A b \in owned : memory[b.m_segment] # "unmapped"

=============================================================================
