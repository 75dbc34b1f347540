# A formal model of hwmalloc

hwmalloc is a C++ library for heaps of memory that is registered with a
*Context* (an RDMA fabric, for instance), placed on a chosen NUMA node and, if
wanted, mirrored on a device.  This directory holds TLA+ models of it, TLC
configurations that check them on small instances, and proofs, checked by
TLAPS, that every safety property of the runs holds for any number of threads,
segments, blocks, nodes, devices and pointers, and any width of the integers.

All paths below are relative to the root of the repository.

## The system and its parts

A `heap` maps the size of a request to a `fixed_size_heap`; this maps the NUMA
node (and device) of the request to a `pool`; the pool hands out blocks of
its `segment`s and asks `numa()` for more memory when it has none.  What the
client gets is a fancy pointer with a `block_t` in it, which knows the segment
it has to be given back to.

    client -- hw_ptr / unique_ptr -- heap -- fixed_size_heap -- pool -- segment
                     |                             |             |
              user_allocation                  numa_tools    Context, devices

| component | state | operations | what is hard | what makes it correct |
|---|---|---|---|---|
| `segment` (`detail/segment.hpp`) | `m_freed_stack` (lock-free, as many nodes as blocks), `m_num_freed` (atomic), the allocation and its registration | constructor (pushes its blocks on the pool's stack), `free`, `collect`, `is_empty`, destructor | push and count, pop and subtract are two steps each; `free` takes no lock | the counter agrees with the stack; nobody uses a destroyed segment |
| `pool` (`detail/pool.hpp`) | `m_free_stack` (lock-free), `m_segments`, `m_mutex` | `allocate`, `add_segment`, `free` | a lock-free fast path beside a mutex; exceptions with the mutex locked; blocks published while their segment is being built | a block in one place only, none lost, none that outlives its segment; only empty segments beyond the reserve destroyed; every call returns |
| `fixed_size_heap` (`detail/fixed_size_heap.hpp`) | a pool per node, and per node and device | `allocate` (choice of the pool), `free` | nodes that are not local; indices into one vector | every request reaches a pool, the pool of the node and the device asked for |
| `numa_tools` (`numa.hpp`, `src/numa.cpp`, `src/numa_stub.cpp`) | `m_local_nodes`, `m_host_nodes`, `m_device_nodes`, `m_cpu_to_node` | discovery, `allocate`, `allocate_malloc`, `free` | a thread is moved between `local_node()`, `calloc` and `get_node`; `get_mempolicy` may fail unseen | memory is on the node it is used for, and is given back the way it was obtained |
| `heap_config`, `heap` (`heap_config.hpp`, `heap.hpp`, `src/heap_config.cpp`) | the configuration, vectors of `fixed_size_heap`s, `m_huge_heaps` with `m_mutex` | construction, `allocate`, `free`, `make_unique`, `register_user_allocation`, `get_instance` | integer widths, rounding, boundaries at each power of two; environment variables; two threads that ask for a new huge size, or for the heap itself; an invalid environment | the smallest block that fits; one `fixed_size_heap` per huge size, never replaced; one heap, with a Context |
| fancy pointers (`fancy_ptr/*.hpp`), `user_allocation` (`detail/user_allocation.hpp`) | the `block_t` in each pointer | copies, arithmetic, conversion to const, reset, `release`, `heap_delete` | a pointer that was moved, reset or copied and is released; two kinds of memory behind one `release` | the pool gets back exactly what it gave, once |
| devices (`device.hpp`, `src/device_cuda.cpp`, `_hip`, `_emulate`) | the current device of each thread | `get_device_id`, `set_device_id`, `device_malloc`, `device_free` | the current device belongs to the client; a switch must be undone | memory is on the device asked for, the client's device is unchanged |
| `allocator` (`allocator.hpp`) | a plain pointer to the heap, a node | constructors, assignment, `swap`, `allocate`, `deallocate` | containers deallocate with another allocator than they allocated with; no ownership of the heap | blocks go back to the pool they are from; the heap outlives it |
| `register*.hpp`, `context.hpp`, `log` | none of their own | dispatch, formatting | | |

`PROJECT.json` lists the hazards, each at the line where it bites, with the
properties that would catch it.

## The modules

| module | what it models |
|---|---|
| `Segment` | the state of all the segments of a pool and the atomic operations on one: memory, freed stack, counter, construction, destruction |
| `Pool` | the threads in `pool::allocate` (with `add_segment` and `segment::collect`) and `pool::free`; `EXTENDS Segment` |
| `RegisteredBlocks` | the abstract specification: what a pool promises its clients |
| `PoolProperties` | the properties of a pool, the refinement mapping to `RegisteredBlocks`, the inductive invariant |
| `PoolFaults` | a pool whose `add_segment` fails after blocks of the new segment were published; `EXTENDS PoolProperties` |
| `MCPool`, `MCPoolCalls` | small pools for TLC; `MCPoolCalls` adds a bound on the calls, fairness, and the properties of calls that do not overlap with their inductive invariant |
| `PoolTypeProofs`, `PoolBlockProofs`, `PoolProofs` | the proofs about a pool, and about its calls as long as they do not overlap |
| `SizeClasses` | the arithmetic of `heap_config`, of the constructor of `heap` and of the pages of a segment, with the widths of `size_t` and `unsigned int` |
| `SizeClassesProofs` | the proofs about `SizeClasses` |
| `HeapInstance` | `heap::get_instance`, `get_default_heap_config` with the environment, `allocator()`; `EXTENDS SizeClasses` |
| `Heap`, `MCHeap` | `heap::allocate` of the instance: the search for a `fixed_size_heap`, the map of huge heaps and its mutex; `EXTENDS HeapInstance` |
| `HeapProofs` | the proofs about `HeapInstance` and `Heap`; `EXTENDS SizeClassesProofs` |
| `NumaTools` | `node_map`, the nodes of the process, the ways memory is obtained and given back |
| `FixedSizeHeap`, `MCFixedSizeHeap` | the pools of the nodes: the choice of the pool, and the way of its memory while threads move from cpu to cpu |
| `FixedSizeHeapProofs` | the proofs about `NumaTools` and `FixedSizeHeap` |
| `DevicePools`, `MCDevicePools` | the pools of the devices: `add_segment` and `free` with device memory, and the current device of each thread |
| `DevicePoolsProofs` | the proofs about `DevicePools` |
| `Pointers`, `MCPointers` | fancy pointers, `unique_ptr`s, `user_allocation`s and allocators |
| `PointersProofs` | the proofs about `Pointers` |

### How the models correspond to the code

**Pool and Segment.** One action is one access to state that another thread
can touch: a pop or push of a lock-free stack, an operation on an atomic, on
the mutex or on the map, a call of the operating system or of the Context.
`pc[t]` names the access thread `t` executes next; `block`, `seg`, `todo`,
`consumed`, `odd` and `left` are the local variables of the functions it is in.
The operations of the boost lock-free stacks are external and atomic
(linearizable), except that `consume_all` of boost's stack is, as in boost, a
loop of pops, in which the functor runs before the node is given back: this
is why a push to a full freed stack can fail, and `segment::free` spin, although
there are as many nodes as blocks (`NodesInUse`).  Atomics are sequentially
consistent, as they are in the code.  The addresses of segments are used again
after destruction, as by `new` and `delete`.  A read of a destroyed segment
returns anything (`IsEmptyResults`).  `numa().allocate` may fail
(`OsMayRefuse`), `register_memory` may throw (`RegisterMayThrow`); an exception
of `add_segment` leaves `allocate` with the mutex locked, as there is no guard.
A pool that is destroyed destroys its segments one after the other, as `free`
destroys one, when no client may use it any more: there is no action for it.

**PoolFaults** adds one more exception, at each step of the loop in the
constructor of `segment` and at the insertion into the map: the segment is
destroyed, the region before the memory, and its blocks stay on the free stack.
It is a module of its own since the invariant does not survive it (finding 5);
the proofs are about pools whose Context gives out handles without exceptions.

**RegisteredBlocks** has two variables: the blocks the clients have, and the
segments whose memory is registered.  It says that a block is handed out to one
client at a time, in registered memory, and that memory is given back only
when no client has a block of it, more segments than the reserve are left, and
`never_free` is not set.  `PoolProperties!Promise` maps `backed` to the
segments with `memory[s] = "registered"`.

**SizeClasses and Heap.** The operators keep the names and the widths of the
code: arguments and results of `size_t` expressions are taken modulo
`2^SizeBits`, and `1u << k` for `k >= UIntBits` is undefined, so it is a choice
between the two results a build can produce.  The search in `Heap` returns
what the vectors hold at the computed index, or `OutOfRange`.

**HeapInstance.** `env` maps each option to a number, `Unset` or `Unparsable`;
the client changes it until the static configuration is made.  `get_env` gives
what `std::stoul` makes of a value, a negative one included, or the default.  An
exception of `heap_config` or of `new heap` leaves the statics unmade and
unlocks `heap_init_mutex_`, whose `lock_guard` goes with it.  A client gives
`get_instance` one of the `Contexts`; `allocator()` gives none, and is
called only once `get_instance` has returned (`returned`), as the assertion in
it demands.  Clients drop the pointers they got; the static `shared_ptr` stays.
`Heap` runs `heap::allocate` on the instance its thread has.

**NumaTools and FixedSizeHeap.** `machine` says which node each cpu is on, on
which cpus the process may run, which nodes it can access, and whether libnuma
is used; a build with `numa_stub.cpp` is `StubMachine`.  A node that can be
accessed and has no cpu is a device node.  Threads move from cpu to cpu at any
moment.  `calloc` returns memory on any node; `get_node` finds out which, or says
0 where `get_mempolicy` fails (`machine.mempolicy`), since its result is not
looked at.  A pool is here the set of its segments, with its mutex; that blocks
are neither lost nor duplicated is the subject of `Pool`.  The mutex matters
for what exceptions do: every exception of `add_segment` leaves it locked.  There
is no memory (`CallocFails`); it is on another node and is given back
(`CheckThrows`); `register_memory`, or the `new` of the segment, throws while
nothing owns the memory, which is lost (`RegisterThrows`); or the constructor
throws before it has pushed a block, and its `allocation_holder` gives the memory
back (`ConstructThrows`).  `leaked` is a history variable: what `RegisterThrows`
has lost, by pool.  An exception with blocks pushed is in `PoolFaults`.

**DevicePools.** A pool is again the set of its segments, with its mutex; what
is modelled in detail is the order of `get_device_id`, `set_device_id`,
`device_malloc`, registration and the way back, in `add_segment` and in `free`,
and the exceptions between them.  The macro that checks a call of the runtime
makes a failing call a second time, which may succeed: the device is then
switched although the call throws (`SetDeviceThrows`), and memory is allocated
that nobody looks at (`DeviceMallocThrows`).  Registration may throw while
nothing owns the device memory (`RegisterThrows`), the constructor once its
`device_allocation_holder` does (`ConstructThrows`).  `Insert` constructs the
segment and puts it into the map in one step: the mutex is held, so that others
see only the free stack in between, and a pop of a block of a segment that is
not in the map yet is the same pop one step later.

**Pointers.** A pointer is the `block_t` in it: the segment (known by its pool),
the user allocation, the host address, the device address and the handle.  A
pool, one for each heap, node and size, is a bag of the blocks that can be
handed out, so that a block that is freed twice, with another address or to
another pool is seen when it comes back.  An allocator is the pool its heap and
node lead to.  Each arithmetic operator of `hw_ptr` is an operator of its own
(`pre_increment`, `post_increment`, `plus_assign`, `plus` and their opposites), as
each one moves the host and the device address by itself.  `Distances` and
`InBlock` bound how far pointers are moved, and are not in the code.  A user
allocation of device memory may be without host memory, since the result of
its `malloc` is not looked at (`"unbacked"`).  What clients may get wrong is a
constant: `FreesReset`, that they free pointers they have set to `nullptr`, and
`FreesMoved`, that they free pointers they have moved along.  In the runs
`FreesMoved` is `FALSE`; if it is `TRUE`, `PoolsGetBackWhatTheyGave` is violated
in three steps, for `release` gives the pool the address that is in the pointer.

## The runs

Every run is one question.  The bounds are in the `.cfg` files.

| run | instance | what it checks and shows |
|---|---|---|
| `pool_safety` | 3 threads, 2 segments of 2 blocks, memory and registration may fail, `MaxConsumed = 3` | No block is in two places (`BlocksInOnePlace`), lost (`NoBlockLost`) or left in destroyed memory (`NoDanglingBlock`); no thread pushes to, counts in, collects or builds a destroyed segment (`SegmentInUseIsLive`); the counter agrees with the stack up to the operations in progress (`CounterAgrees`); a push that spins waits for a collect that is about to give a node back (`SpinningFreeHasCollector`); only segments with all their blocks freed are destroyed (`DestroysOnlyEmptySegments`); the pool implements `RegisteredBlocks` (`PoolKeepsPromise`); the invariant of the proofs holds (`Inv`). |
| `pool_progress` | 2 threads, 4 segments of 2 blocks, 8 calls, memory never fails, fairness | Every call returns (`CallsReturn`), no state is a deadlock, and memory is never forgotten between the system and a segment (`NoMemoryForgotten`). As long as calls follow one another, on whichever thread, memory is asked for only when all blocks are in use (`GrowsOnlyWhenExhausted`), and no empty segment beyond the reserve is left (`EmptySegmentsAreReclaimed`). Of calls that overlap neither is true: a block may be freed while another thread is about to grow the pool. |
| `mutex_leak` | 2 threads, memory may fail, fairness | *Violation*, see the findings. |
| `use_after_free` | 2 threads | *Violation*, see the findings. |
| `half_built_segment` | 2 threads, 3 segments of 2 blocks, exceptions with blocks published | *Violation*, see the findings. |
| `heap_sizes` | 1 thread, 240 environments, as far as `heap_config` accepts them (it rejects each one with a negative `tiny_limit`), every size up to the largest power of two of an `unsigned int` of 10 bits | A request gets blocks that are large enough (`BlockFitsRequest`) and the smallest such (`SmallestFit`), and the pages of a segment hold at least one block (`SegmentsHoldBlocks`). |
| `heap_huge` | 3 threads, 2 Contexts, a valid and an invalid environment, sizes beyond `m_max_size`, memory may be refused | All threads use one heap (`OneInstance`) that has a Context (`InstanceHasContext`), whoever asked for it first and whatever was thrown before; one `fixed_size_heap` per huge size (`OneHeapPerSize`), never replaced (`HugeHeapsStay`); both mutexes are always released (`InitMutexIsReleased`, `MutexIsReleased`); the invariant of the proofs holds (`HeapInv`). |
| `heap_too_large` | sizes beyond the largest power of two of an `unsigned int` | *Violation*, see the findings. |
| `placement` | 2 threads, 2 pieces of memory, 4 machines: without libnuma; with two local nodes; with nodes 0, 1 and 3 of which 1 is not local and a device node 2; with two local nodes and a `get_mempolicy` that fails; every exception of `add_segment` before a block is pushed | the maps find exactly the nodes of the process, of hosts and of devices (`NodeMapIsExact`); a client that asks for a node the process may use gets memory of it, if it is libnuma's or `get_mempolicy` works (`ServedOnNodeAskedFor`); memory has one owner, is given back once and the right way, and is lost only by an exception between `check_allocation` and the segment, one piece at most in a pool, which stays locked (`MemoryIsAccountedFor`). `TypeOK` says among other things that every request reaches an existing pool; the invariant of the proofs holds (`PlacementInv`). |
| `pointers` | 2 pointers, 1 pointer to const, 2 `unique_ptr`s, 2 allocators, 2 pools with a block of one element each, one with a mirror on a device, 1 user allocation | Releasing gives each pool the block it gave, once (`PoolsGetBackWhatTheyGave`), for clients that free what they were returned, at the address they got, with whichever allocator; only exceptions leak (`OnlyExceptionsLeak`); host and device address move together, by each operator (`DevicePtrFollowsPtr`); the invariant of the proofs holds (`PointersInv`). |
| `devices` | 2 threads, 2 devices, 2 nodes, 3 pieces of device memory, everything may fail, a call of the runtime also at the first of two attempts | Clients get memory on the device they asked for (`ServedOnDeviceAskedFor`) and keep their current device unless they got an exception (`ClientsKeepTheirDevice`); at most one piece of device memory is lost in a pool, when an exception left its mutex locked (`DeviceMemoryIsAccountedFor`); the invariant of the proofs holds (`DeviceInv`). |
| `null_pointers` | as `pointers`, with clients that free pointers they have set to `nullptr` | *Violation*, see the findings. |

Each property of a passing run has a mutant: an operator that changes one
mapped definition as a plausible bug would (a dropped recheck, a forgotten
unlock, an off-by-one), under which TLC finds the property violated.  They
are defined just before the definitions they replace, and nothing else uses
them.

### Bounds

* *Segments and blocks.*  Two segments are needed for one to be destroyed while
  one is kept (the reserve is at least one), a third and fourth for growth
  beside it.  Two blocks per segment are enough for a segment that is neither
  full nor empty.  Two threads reach each race of the pool, the third one
  makes it possible that a block is taken from a segment under construction and
  freed while a further thread collects.
* *`MaxConsumed`.*  A collect loop runs as long as other threads free blocks of
  the segment, and its count grows without a bound.  The clients start no call
  while a count is at the bound; calls that have started go on.  Three is more
  than a segment has blocks, so a block that is collected, allocated, freed and
  collected again by one collect is among the behaviours.
* *`MaxCalls`.*  Liveness is checked for clients that make at most eight calls:
  enough to fill two segments, free them and destroy one, while a call of
  the other thread overlaps each of them; and, in calls that do not overlap, to
  fill two segments, free all four blocks and see which segments are left.
* *Widths.*  `SizeBits = 12` and `UIntBits = 10` leave room above the `unsigned
  int` as 64 and 32 bits do; limits and segment sizes cover values that are and
  are not powers of two, equal and increasing limits, limits above the segment
  size, and the largest power of two.  Environment variables are unset, not a
  number, negative, too large for `size_t`, and valid.  Two Contexts are
  enough to see that the second one is ignored.
* *Machines, devices and pointers* are the smallest with a gap in the
  nodes, a node that is not local, two devices with a different index in the
  second node, and two copies of each kind of pointer.
* *Memory in `placement`.*  With two pieces, a segment can be in a pool while
  another one is added to the same pool or to that of another node, two threads
  can add at once, and one piece can be lost while the other is used.  The proofs
  are for any number.
* *`BlockElements` and `Distances`.*  A pointer is at the element of its block
  or past it; `+=`, `-=`, `+` and `-` get 1 and -1, so that one that takes its
  argument for 1, or its opposite, is seen.  The proofs are for any distance.

Deadlock is not checked (`CHECK_DEADLOCK FALSE`) in the runs of pools where the
system may refuse memory, and of devices: after an exception that leaves the
mutex locked all threads may wait, which is the finding `mutex_leak`.
Deadlock is checked everywhere else, `pool_progress` in particular; in
`placement` it shows nothing, for the system can always move a thread.

Symmetry is used for threads, addresses, segments and pointers in runs of safety
properties only; nothing in the models tells these apart.

### Fairness

`MCPoolCalls!CallsSpec` assumes weak fairness of `CallStep(t)` for each thread:
a thread inside a call that can take its next step takes it at some time, as
the operating system schedules every runnable thread.  Clients are not obliged
to make calls.  Nothing is assumed of the mutex: which of several waiting
threads gets it is open, and strong fairness is not needed as the number of
calls is finite.  With infinitely many calls of the others a thread may wait for
ever, in the code as well.

## The proofs

Every invariant and action property of the passing runs, and the refinement, is
a theorem about its specification, for every value of its constants.  Each
component has an inductive invariant that is a conjunction of named parts, and
the properties follow from it.  `Inv`, `HeapInv`, `PlacementInv`, `DeviceInv`
and `PointersInv` are also invariants of the runs; `SequentialInv` and `SizesInv`
can be added to `pool_progress.cfg` and `heap_sizes.cfg`.  The assumptions on the
constants are the `ASSUME`s of the modules, which TLC evaluates in the runs.
Two theorems about a pool and those about the sizes and the pointers have one
hypothesis more or two, named with them below.

### The pool

The theorems of `PoolProofs` are about `Pool!Spec`, for any finite sets of
threads and segments, any positive number of blocks per segment, any reserve,
with and without `never_free`, failures of memory and exceptions.  The
assumptions are `SegmentAssumption` and `PoolAssumption`.

The inductive invariant `Inv` has twelve parts:

* `TypeOK` and `LocalsMatchPc`: what a thread holds at each access;
* `NeverFreeKeepsSegments`: with `never_free` no thread is in the second half of
  `pool::free`;
* `FreedBlocksGoHome`: a freed block is pushed on the stack of its own segment,
  without which a full stack would not mean that all blocks of *this* segment
  are there;
* `MutualExclusion`, `SegmentsMatchMemory`, `HolderMatchesMemory`: the thread
  with the mutex is the only one that maps, registers, collects and destroys,
  and the live segments are those of the map and the one under
  construction;
* `BlocksInOnePlace`, `NoDanglingBlock`, `NoBlockLost`: the blocks of live
  segments are partitioned among clients, stacks, threads and constructor;
* `SegmentInUseIsLive`, `CounterAgrees`: the equation
  `m_num_freed = |m_freed_stack| + (popped and not subtracted) - (pushed and not
  counted)`.

The central argument is in `PoolBlockProofs`.  `pool::free` destroys a segment
because its counter equals the number of blocks.  It holds the mutex, so no
collect is in progress; by the equation the freed stack has at least as many
elements as the segment has blocks.  The stack repeats no block and holds only
blocks of this segment, so it holds *all* of them and, by counting, no free is
between its push and its increment.  Hence no client has a block of the segment, no
stack holds one, and no thread is about to use it -- except to call
`is_empty()`, which is the finding `use_after_free`, and whose result, whatever
it is, does no harm to the invariant.

`PoolTypeProofs` has the facts about push and pop on sequences and the steps of
the first seven parts, `PoolBlockProofs` those of the other five, about the
places of blocks and the counter.  `PoolProofs` puts them together (`InvHolds`)
and derives:

| theorem | statement |
|---|---|
| `TypeCorrect`, `MutexExcludes`, `NoDoubleAllocation`, `NoBlockIsLost`, `BlocksStayBacked`, `SegmentsOutliveTheirUse`, `CounterIsRight` | the parts of `Inv`, always |
| `DestroysOnlyEmpty` | `pool::free` destroys only segments with all their blocks on their freed stack |
| `SpinHasReason` | a push that finds no node waits for a collect that has one in hand: otherwise there would be more blocks in the segment than it has |
| `PoolImplementsPromise` | `Spec => RegisteredBlocks!Spec` under the mapping |
| `MemoryIsNotForgotten` | `NoMemoryForgotten`, under the assumption that `register_memory` does not throw; if it throws, nothing owns the memory any more, as the hazards say |
| `CallsImplySpec` | `MCPoolCalls!CallsSpec => Spec`: bounding and observing the calls adds no step, so all of the above holds of it |

**Calls that follow one another.**  That memory is asked for only when no block
is left, and that no empty segment stays beyond the reserve, is true only while
calls do not overlap.  Why it is true then is the invariant
`MCPoolCalls!SequentialInv`: either no thread is in a call and no segment is left
to reclaim (`ReclaimedBut`), or one is and has done so far what its place in the
code says (`CallSoFar`).  A thread in the loop of `allocate` has emptied the
freed stacks of the segments it is past (`CollectedBut`), so all of them are
empty when it grows the pool; a thread in `free` leaves only the segment of its
block to look at.  Two arguments carry the proof.  By `CounterAgrees` the
counter is, in the absence of other threads, exactly the length of the freed
stack, so `is_empty()` decides rightly in both directions
(`EmptyWhenAllFreed`).  And a call that has collected all segments leaves none
to reclaim: a segment with an empty freed stack has blocks that are not freed,
as every segment has a block (`CollectedIsNotEmpty`).  `SequentialInvariant` and
`GrowsOnlyWhenExhaustedTheorem` have no hypothesis: failures of memory and of
the registration are included.  `EmptySegmentsAreReclaimedTheorem` has the
hypothesis `NeverFree = FALSE`, without which `free` destroys nothing.

### The heap

`HeapProofs` is about `Heap!Spec`, which contains `get_instance`, for any
threads, Contexts, environments and requests (`HeapInstanceAssumption`,
`HeapAssumption`).  Its first half is about the heap as a shared object.  The
sizes play no role there: `round_to_pow_of_2` and the rest of `SizeClasses` stay
unexpanded, and all that is used of them is that a size is rounded to the same
number for every thread.

`InstanceInv` says that a thread is behind the `lock_guard` of `get_instance`
exactly while it holds the mutex, makes the heap only while there is none
(`InitMutexExcludes`), and calls without a Context only once a heap was returned
(`CallersKnowTheHeap`), from which the heap never is one without a Context.
`HeapInv` adds the same for `m_mutex` (`MutexExcludes`) and that the map finds
under each size the heap of that size, the ones threads use without the mutex
included (`MapIsBySize`).  The theorems are `HeapInvariant`,
`OneInstanceTheorem`, `InstanceHasContextTheorem`, `InitMutexIsReleasedTheorem`,
`MutexIsReleasedTheorem`, `OneHeapPerSizeTheorem` and, an action property,
`HugeHeapsStayTheorem`.

### The sizes

`SizeClassesProofs` is about the arithmetic, for every width of `size_t` and of
`unsigned int`, every page size and every configuration.  What an operator
computes by recursion (`log2_c`, and `2^k` itself) is proved by induction in
the form the provers can use: a least counterexample (`LeastNatural`) and its
predecessor contradict each other.  That `2^k` doubles comes from counting the
subsets of `1..k`, and that the recursive function `log2_c` satisfies its own
equation from exhibiting a function that does.  With that:

| theorem | statement |
|---|---|
| `AcceptedIsSound` | the constructor of `heap_config` compares the limits with the segment sizes before it rounds them; what it accepts is right after rounding as well (`SoundConfig`: increasing powers of two, every limit within its segment) |
| `TinyIndexTheorem` | each size up to the tiny limit has an index within `m_tiny_heaps`, and the smallest blocks that fit are there |
| `IndexTheorem` | each size above, up to `m_max_size`, has an index within `m_heaps`, where the blocks are the smallest that fit and less than twice the size: the three loops of the constructor and the shift of `bucket_index` agree |
| `VectorSegmentsTheorem` | a segment of any of these heaps has room for a block |

The second half of `HeapProofs` carries this through the steps of
`get_instance` and `allocate`.  `SizesInv` says that the default configuration
and that of the instance are sound (`ConfigsAreSound`), that the map has powers
of two only, each with the heap of that size (`MapIsOfPowers`), and that a
thread goes to the map only with a huge size and leaves with the best heap for
its request (`RequestIsServed`).  `SizesInvariant` states it, and from it follow
`BlockFitsRequestTheorem`, `SmallestFitTheorem`, `SegmentsHoldBlocksTheorem` and
`HeapTypeCorrect`, which says among other things that no vector is read past
its end.

They have two hypotheses.  `UsualEnvironments`: whatever the environment is set
to, no limit is zero, the tiny one is above half an increment and the segment
sizes are at most the largest power of two of an `unsigned int`.  It allows the
environments that `heap_config` rejects as well, and TLC evaluates it in the runs
of the heap (`MCHeapAssumption`).  `UsualRequests`: requests are between one and
that power of two.  The run `heap_too_large` shows what happens beyond.

### The pools of the nodes

`FixedSizeHeapProofs` is about `FixedSizeHeap!Spec`, for any machines whose
nodes are numbered and finitely many (`NumaToolsAssumption`), any threads and
any memory.  Its first half is about `node_map`: the sorted sequence of a finite
set of numbers exists, the index of a node counts the nodes before it, and so
`find` leads back to the node and finds `end()` for all other numbers.
`NodeMapIsExactTheorem` and, in `PlacementTypeCorrect`, that every request
reaches a pool that exists follow from that.

`PlacementInv` says that a thread in a call is at the pool of the node it asked
for, if the process may use it (`ThreadsUseTheirPool`), that the segments of a
pool have memory of its node, as far as the code can know it, each of its own
(`SegmentsAreOnTheirNode`), that memory being checked is with one thread and in no
segment (`ThreadsHaveTheirMemory`), that there is no other but what exceptions
have left behind (`MemoryIsKnown`), and that this is still held, in no segment
and with no thread, and one piece for each pool that has lost its mutex
(`LeaksAreStuck`); it holds by `PlacementInvariant`.
`ServedOnNodeTheorem` and `MemoryIsAccountedForTheorem` follow; the latter
counts the owners of a piece of memory, which needs the parts on both sides to
exclude each other.  That a pool loses one piece at most rests on the mutex: a
thread that loses memory has locked it (`ThreadsUseTheirPool`) and leaves it
locked, and no step unlocks the mutex of such a pool again (`StuckStays`).

### The pools of the devices

`DevicePoolsProofs` is about `DevicePools!Spec`, for any threads, nodes, devices
and device memory (`DevicePoolsAssumption`).  A lemma shows that `pool_index`
is one-to-one and onto the pools the constructor makes.  `DeviceInv` says that a
thread is at the pool it was sent to and holds its mutex where it must
(`ThreadsUseTheirPool`), that it is on the device of the pool between the two
switches and remembers the client's (`ThreadsSwitchBack`), that segments are on
the device of their pool, registered, and shared by no two pools
(`SegmentsAreOnTheirDevice`), that memory between the runtime and a segment is
with one thread (`ThreadsHaveTheirMemory`), and that the blocks of clients are in
segments nobody is erasing (`BlocksAreInSegments`).  It holds by
`DeviceInvariant`; `DeviceTypeCorrect`, `ServedOnDeviceTheorem` and
`ClientsKeepTheirDeviceTheorem` follow.  `DeviceMemoryTheorem` bounds what is
lost: it needs a second induction, on the cardinality bound itself
(`LossIsBounded`).  A pool whose mutex an exception left locked stays so
(`StuckStays`), a step that loses a piece of memory locks one more pool for ever
(`ThrowLosesOne`), and the other steps lose nothing (`NothingIsLost`).

### Pointers

`PointersProofs` is about `Pointers!Spec`, for any pointers, `unique_ptr`s,
allocators, pools, blocks, distances and user allocations
(`PointersAssumption`), under two further hypotheses, `FreesReset = FALSE` and
`FreesMoved = FALSE`: clients free no pointer they have set to `nullptr` or moved
along.  The run `null_pointers` shows that the theorems are false without the
first one; `pointers.cfg` with `FreesMoved = TRUE` shows it of the second.
`OperatorsMove` says of each arithmetic operator that it moves both addresses by
the same distance.  `PointersInv` adds to the properties that a `unique_ptr` has a block of a
segment or is null (`UniquePtrsHaveBlocks`), and that a user allocation a client
has still to free exists and is owned through one pointer
(`UserAllocationsAreAlive`): without the latter a second `free` could delete it
again.  The other lemmas say what a pop and a release do to the bags of the pools;
each step then says where else the block goes.  The theorems are
`PointersInvariant`, `PointersTypeCorrect`, `PoolsGetBackTheorem`,
`OnlyExceptionsLeakTheorem` and `DevicePtrTheorem`.

### What the attempts have shown of the models

* The first type invariant of `HeapInstance` compared the configuration of the
  instance with what each thread had read, which no step preserves; what is
  true, and checked now, is that the instance has the default configuration.
* `TypeOK` of `Pointers` left open what a pointer holds; it is a `block_t`.
* `std::sort` is stated as what it returns (`Sorted`), as nothing can be proved
  of a library's recursive sort.
* The sizes are right only if a page is not larger than half of what `size_t`
  can hold, which is an assumption of `SizeClasses` now: otherwise rounding a
  segment up to whole pages wraps around.  What is read past the end of a vector
  must differ from every `fixed_size_heap`, or `TypeOK` would say nothing
  (`HeapAssumption`).
* A `tiny_limit` of at least 5 is enough, not 8: it is rounded up before it is
  divided by the increment.
* `GrowsOnlyWhenExhausted` needs nothing of the reserve and of `never_free`;
  `EmptySegmentsAreReclaimed` is false with `never_free`, as it is meant to be.

### Only model-checked

Liveness: `CallsReturn`, and the counterexample to `WaitersGetTheMutex` in
`mutex_leak`.  Fairness is out of reach of TLAPS 1.4.5.

## Findings

1. `use_after_free` (`include/hwmalloc/detail/pool.hpp:143`): `is_empty()` is
   called on a segment another thread may have destroyed.  The proofs show that
   this is the only access to a destroyed segment, and that the blocks stay
   right whatever it returns.
2. `mutex_leak` (`include/hwmalloc/detail/pool.hpp:118`): an exception of
   `add_segment` leaves the mutex locked; later calls that need it wait for ever.
3. `heap_too_large` (`include/hwmalloc/heap_config.hpp:27`): sizes above 2^31 are
   served by blocks that are too small.
4. `null_pointers` (`include/hwmalloc/fancy_ptr/void_ptr.hpp:54`): a pointer set
   to `nullptr` still frees its block when released.
5. `half_built_segment` (`include/hwmalloc/detail/pool.hpp:87`): if the
   constructor of a segment or the insertion into the map throws, the memory is
   given back while blocks of it are on the free stack and with clients.

## Not modelled

* The destructors of pools and heaps, which are implicit and destroy the
  segments one after the other as `pool::free` does; clients may use nothing of
  a heap by then, and the instance of `get_instance` goes when the process ends.
* `allocate(0)`, products `n * sizeof(T)` that wrap around, a `tiny_limit` below
  5 and segment sizes above 2^31: they read past a vector or make blocks that are
  too small and segments without blocks, and are listed among the hazards.
* Segments with more blocks than a fixed-size boost stack can address.
* `allocator()` before the first `get_instance` with a Context: the assertion
  forbids it.
* An exception of a push in `collect` (the node of the freed stack is lost with
  the block) and of the runtime in `free`, which is called from a `noexcept`
  function: it ends the process.
* Releasing pointers that were moved along is modelled (`FreesMoved`), but left
  out of the runs and the theorems.
* Offline cpus, affinities that change after hwmalloc is loaded, a machine on
  which `numa_available()` fails, and allocations whose pages are on several
  nodes.  `numa_alloc_onnode` is taken to return memory of the node it is asked
  for, as the code takes it to.
* Device ids that do not exist; the copies between host and device, which touch
  no state of the library.
* The arithmetic of `hw_ptr<const T>`, which does not compile when it is used
  (`include/hwmalloc/fancy_ptr/const_ptr.hpp:89` assigns a `const T*` to a
  `void*`).
* `log` (formatting), traits, rebinding, comparison and dereferencing of
  pointers (no state).
* The memory model: all atomics of the code are sequentially consistent.

A composition of `FixedSizeHeap` with one `RegisteredBlocks` per node would add
nothing: the pools share no state, a block knows its own segment, and that the
right pool is chosen is what `placement`, `devices` and `pointers` check.

## Plan

The order is by importance: the pool first, since everything else relies on it
and no test reaches its races, then what chooses the pool, then the pointers.

Done:

1. `Segment`, `Pool`, `RegisteredBlocks`, their runs, `Inv` and the theorems.
2. `SizeClasses`, `Heap`; `NumaTools`, `FixedSizeHeap`; `Pointers`;
   `DevicePools`, with their runs.
3. `PoolFaults`; `HeapInstance` with the environment; allocators in `Pointers`;
   the second attempt of the runtime calls in `DevicePools`; host and device
   nodes.
4. The proofs: `HeapInstance` and `Heap`; `NumaTools` and `FixedSizeHeap`;
   `DevicePools`; `Pointers`; `NoMemoryForgotten` of `Pool`.
5. The proofs about calls that follow one another (`MCPoolCalls`).
6. The proofs about the sizes: `SizeClasses`, and `Heap` with them.

What is left of the plan is the proof of `CallsReturn`, which needs a prover for
fairness; the arguments it would use, `SpinHasReason` and `MutexExcludes`, are
theorems.
