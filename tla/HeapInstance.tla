---------------------------- MODULE HeapInstance ----------------------------
(***************************************************************************)
(* heap::get_instance (include/hwmalloc/heap.hpp): the one heap of the     *)
(* process, made by the first thread that asks for it, under a mutex.  Its *)
(* configuration is get_default_heap_config() (src/heap_config.cpp), a     *)
(* static that is made from the environment at its first use; if the       *)
(* environment is invalid the exception leaves it unmade, and the next     *)
(* call tries again.                                                       *)
(*                                                                         *)
(* A client keeps the shared_ptr it gets.  allocator()                     *)
(* (include/hwmalloc/allocator.hpp) has no context to give, and keeps a    *)
(* plain pointer: that the heap stays is up to the static shared_ptr.      *)
(***************************************************************************)
EXTENDS SizeClasses, FiniteSets

CONSTANTS
  Threads,        (* the threads that use the heap                         *)
  NoThread,       (* a mutex that is free                                  *)
  Contexts,       (* the Contexts clients give to get_instance             *)
  NoContext,      (* a null pointer to a Context                           *)
  NoConfig,       (* the static configuration is not made yet              *)
  Unset,          (* an environment variable that is not set               *)
  Unparsable,     (* one that is set to something that is not a number     *)
  Environments,   (* the environments the process may have                 *)
  Defaults,       (* the *_default members of heap_config                  *)
  MakeMayThrow    (* can the system refuse the memory of heap objects?     *)

ASSUME HeapInstanceAssumption ==
  /\ NoThread \notin Threads
  /\ NoContext \notin Contexts
  /\ MakeMayThrow \in BOOLEAN

VARIABLES
  env,             (* the environment variables: from options to values    *)
  default_config,  (* config in get_default_heap_config()                  *)
  instance,        (* instance in get_instance()                           *)
  init_mutex,      (* the thread that locked heap_init_mutex_              *)
  returned,        (* has get_instance ever returned?                      *)
  stage,           (* of each thread: what it does next in get_instance    *)
  context,         (* of each thread: the argument of get_instance         *)
  heap             (* of each thread: the heap it uses                     *)

staticVars == <<env, default_config, instance, returned>>
callVars == <<stage, context>>
instanceVars == <<staticVars, init_mutex, callVars, heap>>

(* A null pointer to the heap: one that no thread has made.                *)
NoInstance == [made_by |-> NoThread]

InstanceInit ==
  /\ env \in Environments
  /\ default_config = NoConfig
  /\ instance = NoInstance
  /\ init_mutex = NoThread
  /\ returned = FALSE
  /\ stage = [t \in Threads |-> "none"]
  /\ context = [t \in Threads |-> NoContext]
  /\ heap = [t \in Threads |-> NoInstance]

-----------------------------------------------------------------------------
(* get_default_heap_config                                                 *)

(* A variable that is not set leaves the default, and so does one for      *)
(* which std::stoul throws: no number, or one that is too large.  A minus  *)
(* sign is applied to an unsigned number.                                  *)
get_env(value, default_value) ==
  IF value \in (1 - 2^SizeBits)..(2^SizeBits - 1)
    THEN SizeT(value) ELSE default_value

Arguments(e) == [o \in DOMAIN Defaults |-> get_env(e[o], Defaults[o])]

(* The client sets environment variables.  Nobody reads them any more once *)
(* the static configuration is made.                                       *)
SetEnv(e) ==
  /\ default_config = NoConfig
  /\ \A t \in Threads : stage[t] = "none"
  /\ env' = e
  /\ UNCHANGED <<default_config, instance, returned, init_mutex, callVars, heap>>

-----------------------------------------------------------------------------
(* get_instance                                                            *)

Advance(t, from, to) ==
  /\ stage[t] = from
  /\ stage' = [stage EXCEPT ![t] = to]

(* The lock_guard unlocks, on every way out.                               *)
LeaveGetInstance(t, from) ==
  /\ Advance(t, from, "none")
  /\ context' = [context EXCEPT ![t] = NoContext]
  /\ init_mutex' = NoThread

GetInstance(t, c) ==
  /\ heap[t] = NoInstance
  /\ Advance(t, "none", "lock")
  /\ context' = [context EXCEPT ![t] = c]
  /\ UNCHANGED <<staticVars, init_mutex, heap>>

(* allocator(), by a client that knows that there is a heap: get_instance  *)
(* asserts that the first call gives a context.                            *)
ConstructAllocator(t) == returned /\ GetInstance(t, NoContext)

(* Mutant of InitLock: there is no heap_init_mutex_.                       *)
InitLockForgets(t) ==
  /\ Advance(t, "lock", "look")
  /\ UNCHANGED <<staticVars, init_mutex, context, heap>>

InitLock(t) ==
  /\ Advance(t, "lock", "look")
  /\ init_mutex = NoThread
  /\ init_mutex' = t
  /\ UNCHANGED <<staticVars, context, heap>>

InstanceFound(t) ==
  /\ instance # NoInstance
  /\ LeaveGetInstance(t, "look")
  /\ heap' = [heap EXCEPT ![t] = instance]
  /\ UNCHANGED staticVars

InstanceMissing(t) ==
  /\ Advance(t, "look", "config")
  /\ instance = NoInstance
  /\ UNCHANGED <<staticVars, init_mutex, context, heap>>

(* The default argument of the constructor of heap.                        *)
GetDefaultConfig(t) ==
  /\ Advance(t, "config", "make")
  /\ default_config' \in
       IF default_config # NoConfig
         THEN {default_config}
         ELSE {c \in heap_configs(Arguments(env)) : Accepts(Arguments(env), c)}
  /\ UNCHANGED <<env, instance, returned, init_mutex, context, heap>>

(* Mutant of DefaultConfigThrows: the mutex is locked and unlocked by hand. *)
DefaultConfigThrowsLocked(t) ==
  /\ default_config = NoConfig
  /\ \E c \in heap_configs(Arguments(env)) : ~ Accepts(Arguments(env), c)
  /\ Advance(t, "config", "none")
  /\ context' = [context EXCEPT ![t] = NoContext]
  /\ UNCHANGED <<staticVars, init_mutex, heap>>

DefaultConfigThrows(t) ==
  /\ default_config = NoConfig
  /\ \E c \in heap_configs(Arguments(env)) : ~ Accepts(Arguments(env), c)
  /\ LeaveGetInstance(t, "config")
  /\ UNCHANGED <<staticVars, heap>>

(* instance.reset(new heap(context)).  The heap is known by the thread     *)
(* that made it.                                                           *)
MakeInstance(t) ==
  /\ LeaveGetInstance(t, "make")
  /\ \E n \in max_sizes(default_config) :
       instance' = [made_by |-> t, m_context |-> context[t],
                    m_config |-> default_config, m_max_size |-> n]
  /\ heap' = [heap EXCEPT ![t] = instance']
  /\ returned' = TRUE
  /\ UNCHANGED <<env, default_config>>

(* new heap throws: instance is what it was.                               *)
MakeInstanceThrows(t) ==
  /\ MakeMayThrow
  /\ LeaveGetInstance(t, "make")
  /\ UNCHANGED <<staticVars, heap>>

(* Mutant of Drop: the static is a weak_ptr.                               *)
DropLast(t) ==
  /\ heap[t] # NoInstance
  /\ heap' = [heap EXCEPT ![t] = NoInstance]
  /\ instance' = IF \A u \in Threads \ {t} : heap[u] = NoInstance
                   THEN NoInstance ELSE instance
  /\ UNCHANGED <<env, default_config, returned, init_mutex, callVars>>

(* The client drops its shared_ptr or its allocator.                       *)
Drop(t) ==
  /\ heap[t] # NoInstance
  /\ heap' = [heap EXCEPT ![t] = NoInstance]
  /\ UNCHANGED <<staticVars, init_mutex, callVars>>

InstanceStep(t) ==
  \/ \E c \in Contexts : GetInstance(t, c)
  \/ ConstructAllocator(t)
  \/ InitLock(t)
  \/ InstanceFound(t)
  \/ InstanceMissing(t)
  \/ GetDefaultConfig(t)
  \/ DefaultConfigThrows(t)
  \/ MakeInstance(t)
  \/ MakeInstanceThrows(t)

-----------------------------------------------------------------------------

InstanceTypeOK ==
  /\ env \in Environments
  /\ init_mutex \in Threads \cup {NoThread}
  /\ returned \in BOOLEAN
  /\ stage \in [Threads -> {"none", "lock", "look", "config", "make"}]
  /\ context \in [Threads -> Contexts \cup {NoContext}]
  /\ instance # NoInstance => instance.m_config = default_config

(* However many threads ask for the heap at the same time, and whatever    *)
(* was thrown before, all of them use the same one, and it is there as     *)
(* long as one of them does, an allocator with its plain pointer too.      *)
OneInstance == \A t \in Threads : heap[t] \in {instance, NoInstance}

(* The heap is never one without a Context, although allocator() would     *)
(* make such a heap if it found none: "assert(context != nullptr)".        *)
InstanceHasContext == instance # NoInstance => instance.m_context # NoContext

(* heap_init_mutex_ is held only by a thread that is about to unlock it,   *)
(* also after an invalid environment made the constructor throw.           *)
InitMutexIsReleased ==
  init_mutex # NoThread => stage[init_mutex] \in {"look", "config", "make"}

-----------------------------------------------------------------------------
(* The inductive invariant of get_instance                                 *)

(* A thread is behind the lock_guard exactly while it holds the mutex, and *)
(* it makes the heap only as long as there is none.                        *)
InitMutexExcludes ==
  \A t \in Threads :
    /\ stage[t] \in {"look", "config", "make"} <=> init_mutex = t
    /\ stage[t] \in {"config", "make"} => instance = NoInstance

(* A thread that calls without a context does so when there is a heap, and *)
(* no thread in the call has one yet.                                      *)
CallersKnowTheHeap ==
  /\ returned <=> instance # NoInstance
  /\ \A t \in Threads : stage[t] # "none" =>
       /\ heap[t] = NoInstance
       /\ context[t] = NoContext => returned

InstanceInv ==
  /\ InstanceTypeOK
  /\ heap \in [Threads -> {instance, NoInstance}]
  /\ InitMutexExcludes
  /\ CallersKnowTheHeap
  /\ InstanceHasContext

-----------------------------------------------------------------------------
(* The inductive invariant of the configuration                            *)

(* Whatever the environment is set to, the arguments are usual ones.       *)
UsualEnvironments == \A e \in Environments : UsualArguments(Arguments(e))

(* The static configuration is one the heap can work with, or not made.    *)
ConfigsAreSound ==
  /\ default_config = NoConfig \/ SoundConfig(default_config)
  /\ \A t \in Threads : stage[t] = "make" => SoundConfig(default_config)
  /\ instance # NoInstance =>
       /\ SoundConfig(instance.m_config)
       /\ instance.m_max_size \in max_sizes(instance.m_config)

=============================================================================
