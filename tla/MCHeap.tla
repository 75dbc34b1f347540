------------------------------- MODULE MCHeap -------------------------------
(***************************************************************************)
(* Small heaps for TLC: an unsigned int of UIntBits bits, limits and       *)
(* segment sizes to match, those heap_config rejects and those that are    *)
(* not powers of two among them, and the limit at which twice the          *)
(* large_limit is too much for an unsigned int.                            *)
(***************************************************************************)
EXTENDS Heap

Symmetric == Permutations(Threads)

SmallDefaults ==
  [tiny_limit |-> 8, small_limit |-> 16, large_limit |-> 64,
   tiny_segment_size |-> 32, small_segment_size |-> 32, large_segment_size |-> 64]

AllEnvironments ==
  [tiny_limit : {Unset, Unparsable, 12, 20, -1}, small_limit : {Unset, 40},
   large_limit : {100, 2^(UIntBits - 1), 2^SizeBits},
   tiny_segment_size : {Unset, 12}, small_segment_size : {16, 64},
   large_segment_size : {Unset, 2^(UIntBits - 1)}]

(* One that is valid, and one whose limits do not increase.                *)
NoVariables == [o \in DOMAIN SmallDefaults |-> Unset]
ValidAndInvalid == {NoVariables, [NoVariables EXCEPT !.small_limit = 8]}
OneEnvironment == {NoVariables}

(* The sizes are meant to be right for these.                              *)
ASSUME MCHeapAssumption == UsualEnvironments

(* Every size an unsigned int can be the power of two for.                 *)
AllRequests == 1..2^(UIntBits - 1)

(* Two requests of one huge size, one of another, and a small one.         *)
HugeRequests == {10, 200, 256, 300}

(* Sizes beyond that.                                                      *)
LargerRequests == AllRequests \cup {2^(UIntBits - 1) + 1, 2^UIntBits + 1}

=============================================================================
