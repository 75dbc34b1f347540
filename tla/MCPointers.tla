----------------------------- MODULE MCPointers -----------------------------
(***************************************************************************)
(* Few pointers to few blocks, for TLC.                                    *)
(***************************************************************************)
EXTENDS Pointers, TLC

(* Each block is of another pool.                                          *)
CONSTANTS h1, h2
PoolOfBlock == <<h1, h2>>

(* To the next element, and back: += and -= with an n of either sign.      *)
SmallDistances == {-1, 1}

Symmetric == Permutations(Variables) \cup Permutations(UniquePtrs)
               \cup Permutations(Allocators)

=============================================================================
