----------------------------- MODULE KernelInit -----------------------------
(***************************************************************************)
(* Who builds the kernel of a worker process, and when: the first call     *)
(* that needs one (_initialize_kernel_if_ready of rust_orm_shim.py, under  *)
(* _KERNEL_LOCK) and the hook on Registry.new (addons/rust_engine,         *)
(* _arm_registry_hook, under no lock).  Both export the registry through   *)
(* the ORM, whose reads reach the routing and the port, which ask for the  *)
(* kernel again: building() marks the thread that must not wait for        *)
(* itself.                                                                 *)
(*                                                                         *)
(* A thread has a stack of what it is in the middle of: an ask for the     *)
(* kernel, waiting for the lock; a build under the lock; a build of the    *)
(* hook.  A build under the lock interrupted by an ask that waits for the  *)
(* same lock waits for ever.                                               *)
(***************************************************************************)
EXTENDS Integers, Sequences, FiniteSets, SequencesExt

CONSTANTS
    Threads,     \* of one worker process
    NoThread,    \* the None of _KERNEL_BUILDING_THREAD and of a free lock
    MaxRegistry, \* bound: registries made by Registry.new
    MaxReads     \* bound: ORM reads of one export

ASSUME KernelInitAssumption ==
    NoThread \notin Threads /\ {MaxRegistry, MaxReads} \subseteq Nat \ {0}

VARIABLES
    KERNEL,      \* the registry the kernel was built from, 0 for None
    tried,       \* _KERNEL_TRIED_PID is this process
    incomplete,  \* _KERNEL_INCOMPLETE[0]: the load an export found incomplete
    lock,        \* the holder of _KERNEL_LOCK
    mark,        \* _KERNEL_BUILDING_THREAD
    registry,    \* the number of the last registry made
    loaded,      \* whether the first registry has all its models
    stack,       \* what each thread is in the middle of
    overlapped   \* history: a build of the hook met another build

vars == <<KERNEL, tried, incomplete, lock, mark, registry, loaded, stack,
          overlapped>>

Load == <<registry, loaded>>

NoLoad == <<0, FALSE>>

Builds == {"locked", "hook"}

Frame(at, r, prev) == [at |-> at, registry |-> r, prev |-> prev, reads |-> 0]

Top(t) == Last(stack[t])

At(t) == IF stack[t] = <<>> THEN "idle" ELSE Top(t).at

Building(t, how) == \E i \in DOMAIN stack[t] : stack[t][i].at = how

Push(t, f) == stack' = [stack EXCEPT ![t] = Append(@, f)]

Pop(t) == stack' = [stack EXCEPT ![t] = Front(@)]

Init ==
    /\ KERNEL = 0 /\ tried = FALSE /\ incomplete = NoLoad
    /\ lock = NoThread /\ mark = NoThread
    /\ registry = 1 /\ loaded \in BOOLEAN
    /\ stack = [t \in Threads |-> <<>>]
    /\ overlapped = FALSE

----------------------------------------------------------------------------
(* Asking for the kernel *)

\* Mutant of BuildingHere: the building thread is not recognised.
BuildingAnywhere(t) == FALSE

\* building_here.
BuildingHere(t) == mark = t

\* _initialize_kernel_if_ready, before the lock: Python answers at once.
PythonAnswers(t) == tried \/ incomplete = Load \/ BuildingHere(t)

\* A call needs the kernel: a request of the thread, or a read of the export it
\* is making, which then goes on.
Ask(t) ==
    /\ \/ At(t) = "idle"
       \/ At(t) \in Builds /\ Top(t).reads < MaxReads
    /\ LET read == IF At(t) = "idle" THEN stack[t]
                   ELSE Append(Front(stack[t]), [Top(t) EXCEPT !.reads = @ + 1])
           asked == KERNEL = 0 /\ ~PythonAnswers(t)
       IN stack' = [stack EXCEPT ![t] =
             IF asked THEN Append(read, Frame("asking", registry, NoThread)) ELSE read]
    /\ UNCHANGED <<KERNEL, tried, incomplete, lock, mark, registry, loaded, overlapped>>

\* Mutant of NothingToBuild: the second look misses the kernel built meanwhile.
NothingToBuildIfTried == tried

\* The second look, under the lock.
NothingToBuild == KERNEL # 0 \/ tried

\* with _KERNEL_LOCK: building() marks the thread that finds it has to build.
Acquire(t) ==
    /\ At(t) = "asking" /\ lock = NoThread
    /\ IF NothingToBuild
       THEN Pop(t) /\ UNCHANGED <<lock, mark, overlapped>>
       ELSE /\ lock' = t /\ mark' = t
            /\ stack' = [stack EXCEPT ![t] =
                  Append(Front(@), Frame("locked", Top(t).registry, mark))]
            /\ overlapped' = (overlapped \/ \E u \in Threads : Building(u, "hook"))
    /\ UNCHANGED <<KERNEL, tried, incomplete, registry, loaded>>

\* Mutant of Unlock: the mark is not restored.
UnlockKeepsMark(t) == lock' = NoThread /\ mark' = mark /\ Pop(t)

\* Mutant of Unlock: the exception keeps the lock.
UnlockUnlessFailed(t) ==
    lock' = (IF tried' THEN lock ELSE NoThread) /\ mark' = Top(t).prev /\ Pop(t)

\* Leaving building() and the lock.
Unlock(t) == lock' = NoThread /\ mark' = Top(t).prev /\ Pop(t)

\* Mutant of Complete: every export is taken for an incomplete one.
CompleteNever == FALSE

\* What the export finds: the models of the registry are all loaded.
Complete == loaded

\* KERNEL = KERNEL_FACTORY(env.registry).
Built(t) ==
    /\ At(t) = "locked" /\ Complete
    /\ KERNEL' = Top(t).registry
    /\ UNCHANGED <<tried, incomplete, registry, loaded, overlapped>>
    /\ Unlock(t)

\* The export is incomplete: not before more models are loaded.
Incomplete(t) ==
    /\ At(t) = "locked" /\ ~Complete
    /\ incomplete' = <<Top(t).registry, FALSE>>
    /\ UNCHANGED <<KERNEL, tried, registry, loaded, overlapped>>
    /\ Unlock(t)

\* Any other exception: never again in this process.
BuildFails(t) ==
    /\ At(t) = "locked"
    /\ tried' = TRUE
    /\ UNCHANGED <<KERNEL, incomplete, registry, loaded, overlapped>>
    /\ Unlock(t)

----------------------------------------------------------------------------
(* The registry *)

\* The first registry finishes loading its modules.
FinishLoading ==
    /\ ~loaded
    /\ loaded' = TRUE
    /\ UNCHANGED <<KERNEL, tried, incomplete, lock, mark, registry, stack,
                   overlapped>>

\* The hook: Registry.new has returned a registry, and building() marks.
NewRegistry(t) ==
    /\ At(t) = "idle" /\ loaded /\ registry < MaxRegistry
    /\ registry' = registry + 1
    /\ mark' = t
    /\ Push(t, Frame("hook", registry', mark))
    /\ overlapped' = (overlapped \/ \E u \in Threads, how \in Builds : Building(u, how))
    /\ UNCHANGED <<KERNEL, tried, incomplete, lock, loaded>>

\* orm_shim.KERNEL = _create_kernel(registry).
HookBuilt(t) ==
    /\ At(t) = "hook"
    /\ KERNEL' = Top(t).registry
    /\ mark' = Top(t).prev /\ Pop(t)
    /\ UNCHANGED <<tried, incomplete, lock, registry, loaded, overlapped>>

\* The exception leaves building() and KERNEL is dropped.
HookFails(t) ==
    /\ At(t) = "hook"
    /\ KERNEL' = 0
    /\ mark' = Top(t).prev /\ Pop(t)
    /\ UNCHANGED <<tried, incomplete, lock, registry, loaded, overlapped>>

----------------------------------------------------------------------------

Step(t) ==
    \/ Acquire(t) \/ Built(t) \/ Incomplete(t) \/ BuildFails(t)
    \/ HookBuilt(t) \/ HookFails(t)

Next ==
    \/ \E t \in Threads : Ask(t) \/ NewRegistry(t) \/ Step(t)
    \/ FinishLoading

Spec == Init /\ [][Next]_vars

\* Builds end, a free lock is taken in turn, and loading finishes.
Fairness == WF_vars(FinishLoading) /\ \A t \in Threads : SF_vars(Step(t))

FairSpec == Spec /\ Fairness

----------------------------------------------------------------------------
(* Properties *)

TypeOK ==
    /\ KERNEL \in 0..MaxRegistry /\ tried \in BOOLEAN
    /\ incomplete \in {NoLoad, <<1, FALSE>>}
    /\ {lock, mark} \subseteq Threads \cup {NoThread}
    /\ registry \in 1..MaxRegistry /\ loaded \in BOOLEAN
    /\ \A t \in Threads : \A i \in DOMAIN stack[t] :
          stack[t][i] \in [at : Builds \cup {"asking"}, registry : 1..MaxRegistry,
                           prev : Threads \cup {NoThread}, reads : 0..MaxReads]
    /\ overlapped \in BOOLEAN

\* The thread waits for a lock it holds itself.
WaitsForItself(t) == At(t) = "asking" /\ lock = t

\* A build waits for itself only after a build of the hook met another build:
\* only then does the one mark they share stop keeping the reads of an export
\* away from the lock (building, _initialize_kernel_if_ready,
\* _arm_registry_hook).
BuildNeverWaitsForItself ==
    \A t \in Threads : WaitsForItself(t) => overlapped

\* Without such a meeting the mark names the thread that builds and is gone when
\* it is done, however the build ended: a mark left behind would keep its thread
\* on Python for good (building).
MarkNamesBuilder ==
    overlapped \/ \A t \in Threads :
        mark = t <=> \E how \in Builds : Building(t, how)

\* The mark and the frames of the builds agree (building).
MarkMatchesBuilds == TypeOK /\ MarkNamesBuilder

\* Without such a meeting the kernel of a registry is never replaced by that of
\* an older one, though a thread may have asked for its kernel long before it
\* takes the lock.
KernelKeepsUp ==
    [][KERNEL' = 0 \/ KERNEL' >= KERNEL \/ overlapped]_vars

\* Without such a meeting every ask for the kernel is answered, by the kernel or
\* by Python, whatever fails.
AsksAnswered ==
    [](~overlapped) => \A t \in Threads : (At(t) = "asking") ~> (At(t) # "asking")

=============================================================================
