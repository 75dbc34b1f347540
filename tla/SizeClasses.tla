---------------------------- MODULE SizeClasses ----------------------------
(***************************************************************************)
(* The arithmetic of heap_config (include/hwmalloc/heap_config.hpp,        *)
(* src/heap_config.cpp) and of the constructor of heap                     *)
(* (include/hwmalloc/heap.hpp): which block sizes a heap has, and which of *)
(* them serves a request.  Numbers are as wide as in the code.  Sequences  *)
(* start at 1, vectors of the code at 0.                                   *)
(***************************************************************************)
EXTENDS Integers, Sequences

CONSTANTS
  SizeBits,  (* the width of std::size_t                                   *)
  UIntBits,  (* the width of unsigned int                                  *)
  PageSize   (* numa().page_size()                                         *)

ASSUME SizeClassesAssumption ==
  /\ {SizeBits, UIntBits, PageSize} \subseteq Nat \ {0}
  /\ UIntBits <= SizeBits
  /\ PageSize <= 2^(SizeBits - 1)

(* The value of an expression of type std::size_t.                         *)
SizeT(n) == n % (2^SizeBits)

-----------------------------------------------------------------------------

log2_c[n \in Nat] == IF n < 2 THEN 1 ELSE 1 + log2_c[n \div 2]

(* The values 1u << k can have.  A shift by the width or more is           *)
(* undefined: the machine instruction takes the count modulo the width, a  *)
(* compiler that evaluates the shift may give 0.                           *)
ShiftedOne(k) == IF k < UIntBits THEN {2^k} ELSE {0, 2^(k % UIntBits)}

round_to_pow_of_2(n) == ShiftedOne(log2_c[SizeT(n - 1)])

-----------------------------------------------------------------------------
(* heap_config                                                             *)

(* What the constructor can make of its arguments a: each one rounded.     *)
heap_configs(a) ==
  [tiny_limit : round_to_pow_of_2(a.tiny_limit),
   small_limit : round_to_pow_of_2(a.small_limit),
   large_limit : round_to_pow_of_2(a.large_limit),
   tiny_segment_size : round_to_pow_of_2(a.tiny_segment_size),
   small_segment_size : round_to_pow_of_2(a.small_segment_size),
   large_segment_size : round_to_pow_of_2(a.large_segment_size)]

(* Mutant of Accepts: limits larger than a segment are not rejected.       *)
AcceptsLargeLimits(a, c) ==
  c.tiny_limit < c.small_limit /\ c.small_limit < c.large_limit

(* The constructor throws unless the rounded limits increase and the       *)
(* limits, as they were given, are at most the segment sizes.              *)
Accepts(a, c) ==
  /\ c.tiny_limit < c.small_limit /\ c.small_limit < c.large_limit
  /\ a.tiny_limit <= a.tiny_segment_size
  /\ a.small_limit <= a.small_segment_size
  /\ a.large_limit <= a.large_segment_size

m_tiny_increment == 8
m_bucket_shift(c) == log2_c[c.tiny_limit] - 1
m_num_small_heaps(c) == log2_c[c.small_limit] - log2_c[c.tiny_limit]
m_num_large_heaps(c) == log2_c[c.large_limit] - log2_c[c.small_limit]

-----------------------------------------------------------------------------
(* The vectors of fixed_size_heaps in a heap                               *)

(* Mutant of tiny_bucket_index: the size is rounded down to the increment. *)
TinyBucketIndexRoundedDown(n) == SizeT(n \div m_tiny_increment - 1)

tiny_bucket_index(n) ==
  SizeT(SizeT(n + m_tiny_increment - 1) \div m_tiny_increment - 1)

(* Mutant of bucket_index: a power of two goes to the next heap.           *)
BucketIndexOfNext(n, bucket_shift) ==
  SizeT(log2_c[n \div 2^bucket_shift] - 1)

bucket_index(n, bucket_shift) ==
  SizeT(log2_c[SizeT(n - 1) \div 2^bucket_shift] - 1)

(* A fixed_size_heap with blocks of one size.                              *)
FixedSizeHeap(b, s) == [block_size |-> b, segment_size |-> s]

num_pages(segment_size) == SizeT(segment_size + PageSize - 1) \div PageSize

(* The blocks of a segment of the pools of f: it has as many as fit into   *)
(* its pages.                                                              *)
m_num_blocks(f) == SizeT(num_pages(f.segment_size) * PageSize) \div f.block_size

(* n heaps, each with blocks twice as large as the one before.             *)
Doubling(limit, n, s) ==
  [i \in 1..n |-> FixedSizeHeap(SizeT(limit * 2^i), s)]

max_sizes(c) ==
  {IF r > c.large_limit THEN r ELSE c.large_limit :
     r \in round_to_pow_of_2(SizeT(c.large_limit * 2))}

TinyHeaps(c) ==
  [i \in 1..(c.tiny_limit \div m_tiny_increment) |->
     FixedSizeHeap(m_tiny_increment * i, c.tiny_segment_size)]

SmallHeaps(c) ==
  Doubling(c.tiny_limit, m_num_small_heaps(c), c.small_segment_size)

LargeHeaps(c) ==
  Doubling(c.small_limit, m_num_large_heaps(c), c.large_segment_size)

(* The rest of m_heaps, whose size is the index of max_size plus one.      *)
HugeHeaps(c, max_size) ==
  [i \in 1..(bucket_index(max_size, m_bucket_shift(c)) + 1
               - m_num_small_heaps(c) - m_num_large_heaps(c)) |->
     LET b == SizeT(c.large_limit * 2^i) IN FixedSizeHeap(b, b)]

Heaps(c, max_size) == SmallHeaps(c) \o LargeHeaps(c) \o HugeHeaps(c, max_size)

-----------------------------------------------------------------------------
(* The sizes the arithmetic above is meant for                             *)

(* The powers of two, beyond 1, that an unsigned int can be.               *)
PowersOf2 == {2^k : k \in 1..(UIntBits - 1)}

(* Arguments of heap_config that rounding can handle: no limit is zero,    *)
(* the tiny one is rounded to at least one increment, and no segment is    *)
(* larger than the largest power of two.  The constructor checks the rest. *)
UsualArguments(a) ==
  /\ a.tiny_limit \in (m_tiny_increment \div 2 + 1)..(2^SizeBits - 1)
  /\ {a.small_limit, a.large_limit} \subseteq 1..(2^SizeBits - 1)
  /\ {a.tiny_segment_size, a.small_segment_size, a.large_segment_size}
       \subseteq 0..2^(UIntBits - 1)

(* What the rest of the heap expects of its configuration.                 *)
SoundConfig(c) ==
  /\ {c.tiny_limit, c.small_limit, c.large_limit, c.tiny_segment_size,
      c.small_segment_size, c.large_segment_size} \subseteq PowersOf2
  /\ m_tiny_increment <= c.tiny_limit
  /\ c.tiny_limit < c.small_limit /\ c.small_limit < c.large_limit
  /\ c.tiny_limit <= c.tiny_segment_size
  /\ c.small_limit <= c.small_segment_size
  /\ c.large_limit <= c.large_segment_size

=============================================================================
