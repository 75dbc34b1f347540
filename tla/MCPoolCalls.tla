---------------------------- MODULE MCPoolCalls ----------------------------
(***************************************************************************)
(* Small pools whose clients make at most MaxCalls calls.  Every thread    *)
(* that is inside a call keeps running, as the operating system schedules  *)
(* every runnable thread; no client is obliged to make a call, and no      *)
(* fairness is assumed of who gets the mutex next.                         *)
(***************************************************************************)
EXTENDS PoolProperties, TLC

CONSTANT MaxCalls

VARIABLES
  calls,      (* the calls made so far                                     *)
  overlapped  (* have two threads ever been in a call at the same time?    *)

callVars == <<vars, calls, overlapped>>

Symmetric == Permutations(Segments)

BoundedCall(t) ==
  /\ calls < MaxCalls
  /\ calls' = calls + 1
  /\ overlapped' = (overlapped \/ \E u \in Threads : pc[u] # "idle")
  /\ Call(t)

CallStep(t) == Step(t) /\ UNCHANGED <<calls, overlapped>>

(* The clients are done and every call has returned.                       *)
Done ==
  /\ \A t \in Threads : pc[t] = "idle"
  /\ UNCHANGED callVars

CallsInit == Init /\ calls = 0 /\ overlapped = FALSE
CallsNext == Done \/ \E t \in Threads : BoundedCall(t) \/ CallStep(t)

CallsSpec ==
  /\ CallsInit
  /\ [][CallsNext]_callVars
  /\ \A t \in Threads : WF_callVars(CallStep(t))

(* Every call of allocate and of free returns, unless other threads keep   *)
(* making calls for ever: nobody waits for the mutex in vain, no push      *)
(* spins for ever, and the loop that adds segments ends.                   *)
CallsReturn == \A t \in Threads : pc[t] # "idle" ~> pc[t] = "idle"

(* Memory is asked for only when no block is left: while the calls of the  *)
(* threads follow one another, allocate never grows the pool as long as a  *)
(* block freed by any thread in any segment could be reused.  With calls   *)
(* that overlap, a block may be freed after the collect has passed.        *)
GrowsOnlyWhenExhausted ==
  \A t \in Threads : pc[t] = "numa_allocate" /\ ~ overlapped =>
    \A b \in Block : IsLive(b.m_segment) => b \in owned

(* While the calls follow one another, free leaves no segment with all its *)
(* blocks freed behind once there are more segments than the reserve.      *)
EmptySegmentsAreReclaimed ==
  /\ \A t \in Threads : pc[t] = "idle"
  /\ ~ overlapped
  /\ Cardinality(segments) > m_num_reserve_segments
  => \A s \in segments : ToSet(freed_stack[s]) # BlocksOf(s)

(* A thread that waits for the mutex gets it.                              *)
WaitersGetTheMutex ==
  \A t \in Threads : pc[t] \in {"lock", "free_lock"} ~>
                       pc[t] \notin {"lock", "free_lock"}

-----------------------------------------------------------------------------
(* The inductive invariant of calls that follow one another                *)

(* Beyond the reserve, no segment but those of S has all its blocks freed, *)
(* unless m_never_free is set.                                             *)
ReclaimedBut(S) ==
  ~ NeverFree /\ Cardinality(segments) > m_num_reserve_segments =>
    \A s \in segments \ S : ToSet(freed_stack[s]) # BlocksOf(s)

(* No segment but those of S has blocks to collect.                        *)
CollectedBut(S) == \A s \in Segments \ S : freed_stack[s] = <<>>

(* What the call of the only thread in a call has done so far: allocate    *)
(* collects one segment after the other, and grows the pool when all have  *)
(* been collected in vain; free leaves the segment of its block to look    *)
(* at, and the others as they were.                                        *)
CallSoFar(t) ==
  /\ pc[t] \in {"idle", "lock", "pop_locked", "unlock", "release", "free_unlock"} =>
       ReclaimedBut({})
  /\ pc[t] \in {"collect", "subtract"} => CollectedBut(todo[t])
  /\ pc[t] \in {"consume", "consume_push", "consume_release"} =>
       CollectedBut(todo[t] \cup {seg[t]})
  /\ pc[t] \in {"grow", "numa_allocate", "register", "construct"} => CollectedBut({})
  /\ pc[t] = "numa_allocate" => free_stack = <<>>
  /\ pc[t] \in {"free_push", "free_increment", "check_empty", "free_lock", "recheck"} =>
       seg[t] \in segments /\ ReclaimedBut({seg[t]})

IdleBut(T) == \A u \in Threads \ T : pc[u] = "idle"

SequentialInv ==
  ~ overlapped =>
    \/ IdleBut({}) /\ ReclaimedBut({})
    \/ \E t \in Threads : pc[t] # "idle" /\ IdleBut({t}) /\ CallSoFar(t)

=============================================================================
