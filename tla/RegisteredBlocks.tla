-------------------------- MODULE RegisteredBlocks --------------------------
(***************************************************************************)
(* What a pool promises its clients, without stacks, counters, locks or    *)
(* threads: a block is handed out to one client at a time, its memory is   *)
(* registered with the Context for as long as the client has it, and       *)
(* memory is given back only when nobody uses it and more segments than    *)
(* the reserve are registered.                                             *)
(***************************************************************************)
EXTENDS Integers, FiniteSets

CONSTANTS
  Segments,          (* the pieces of memory the system can give           *)
  BlocksPerSegment,  (* how many blocks one piece is cut into              *)
  Reserve,           (* never give back memory down to fewer segments      *)
  NeverFree          (* never give back memory at all                      *)

VARIABLES
  owned,   (* the blocks the clients have                                  *)
  backed   (* the segments whose memory is registered                      *)

vars == <<owned, backed>>

Block == [m_segment : Segments, index : 1..BlocksPerSegment]

Init ==
  /\ owned = {}
  /\ backed = {}

Back(s) ==
  /\ s \notin backed
  /\ backed' = backed \cup {s}
  /\ UNCHANGED owned

Unback(s) ==
  /\ ~ NeverFree
  /\ s \in backed
  /\ Cardinality(backed) > Reserve
  /\ \A b \in owned : b.m_segment # s
  /\ backed' = backed \ {s}
  /\ UNCHANGED owned

HandOut(b) ==
  /\ b \notin owned
  /\ b.m_segment \in backed
  /\ owned' = owned \cup {b}
  /\ UNCHANGED backed

TakeBack(b) ==
  /\ b \in owned
  /\ owned' = owned \ {b}
  /\ UNCHANGED backed

Next ==
  \/ \E s \in Segments : Back(s) \/ Unback(s)
  \/ \E b \in Block : HandOut(b) \/ TakeBack(b)

Spec == Init /\ [][Next]_vars

=============================================================================
