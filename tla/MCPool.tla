------------------------------- MODULE MCPool -------------------------------
(***************************************************************************)
(* Small pools for TLC.  A collect loop can run for as long as other       *)
(* threads allocate and free what it has collected, and its count grows    *)
(* with it: the clients start no call while a count is at MaxConsumed.     *)
(***************************************************************************)
EXTENDS PoolProperties, TLC

CONSTANT MaxConsumed

Symmetric == Permutations(Threads) \cup Permutations(Segments)

CallsAllowed == \A t \in Threads : consumed[t] < MaxConsumed

MCNext == \E t \in Threads : (CallsAllowed /\ Call(t)) \/ Step(t)

MCSpec == Init /\ [][MCNext]_vars

=============================================================================
