------------------------------- MODULE RustPool -------------------------------
(***************************************************************************)
(* The connection pool behind Odoo's cursors (engine-py/python/            *)
(* rust_db_shim.py `_RustPool`), shared by the threads of a process.       *)
(*                                                                         *)
(* One condition variable guards the idle stack and the count of           *)
(* connections out.  A `with self._cond` block is a step; connecting, the  *)
(* check and the reset of a connection happen between the blocks.  drain   *)
(* and close each take two blocks.  A waiter whose wait times out stays on *)
(* the condition's list until it has the lock again, so a notify can be    *)
(* spent on it.                                                            *)
(*                                                                         *)
(* Data abstraction: a connection is a name that is free again once        *)
(* nothing refers to it; its `born` is the pool's generation when its      *)
(* connect began.  A fork leaves one process in the model, the child.      *)
(***************************************************************************)
EXTENDS Integers, Sequences, FiniteSets, SequencesExt

CONSTANTS
    Threads,
    Conns,          \* names of connections
    Sizes,          \* the values max_size is given
    MaxDrains,      \* bound: drain() calls in a behaviour
    Forks           \* whether the process forks

None == "none"

ASSUME RustPoolAssumption ==
    /\ IsFiniteSet(Threads) /\ None \notin Conns
    /\ Sizes \subseteq Nat \ {0} /\ Sizes # {}
    /\ MaxDrains \in Nat
    /\ Forks \in BOOLEAN

VARIABLES
    idle, out, generation, closed, max_size,    \* _RustPool's fields
    own,            \* self._pid is the running process
    waiters,        \* threads on the condition's list, oldest first
    pc, conn, gen,  \* of each thread: where it is in getconn, putconn, drain or close
    dead,           \* connections whose backend is gone
    born,           \* generation in which a connection was opened
    inherited,      \* connections whose socket the parent process still uses
    drained,        \* generation of the newest drain that has returned
    since,          \* drained, when the thread called getconn
    trampled,       \* the child closed a socket of its parent
    floor           \* history: the smallest max_size so far

sizeVars == <<max_size, floor>>
poolVars == <<idle, out, generation, closed, sizeVars, own>>
connVars == <<dead, born, inherited, trampled>>
vars == <<poolVars, waiters, pc, conn, gen, connVars, drained, since>>

Awake == {"get", "expired"}             \* about to take the lock in getconn
Slotted == {"opening", "checking", "using", "resetting"}

Init ==
    /\ idle = <<>> /\ out = 0 /\ generation = 0 /\ closed = FALSE
    /\ max_size \in Sizes /\ floor = max_size
    /\ own = TRUE
    /\ waiters = <<>>
    /\ pc = [t \in Threads |-> "away"]
    /\ conn = [t \in Threads |-> None]
    /\ gen = [t \in Threads |-> 0]
    /\ dead = {} /\ born = [c \in Conns |-> 0] /\ inherited = {} /\ trampled = FALSE
    /\ drained = 0 /\ since = [t \in Threads |-> 0]

-----------------------------------------------------------------------------
(* The condition variable. *)

\* notify: the oldest waiter leaves the list, and wakes if it had not already.
Notify(status) ==
    IF waiters = <<>> THEN /\ pc' = status
                           /\ UNCHANGED waiters
    ELSE /\ waiters' = Tail(waiters)
         /\ pc' = [status EXCEPT ![Head(waiters)] =
                      IF @ = "sleeping" THEN "get" ELSE @]

NotifyAll(status) ==
    /\ waiters' = <<>>
    /\ pc' = [t \in Threads |-> IF status[t] = "sleeping" THEN "get" ELSE status[t]]

\* The list without t, which is on it at most once.
Left(t) ==
    LET at == {i \in DOMAIN waiters : waiters[i] = t}
    IN  IF at = {} THEN waiters ELSE RemoveAt(waiters, CHOOSE i \in at : TRUE)

-----------------------------------------------------------------------------
(* Connections. *)

IdleConns == {idle[i].conn : i \in DOMAIN idle}
HeldConns == {conn[t] : t \in Threads} \ {None}
FreeConns == Conns \ (IdleConns \cup HeldConns \cup inherited)

\* _close_quietly, on every connection of a set.
Close(conns) ==
    /\ trampled' = (trampled \/ conns \cap inherited # {})
    /\ dead' = dead \ conns
    /\ UNCHANGED <<born, inherited>>

\* Mutant of OwnIdle: a fork keeps the idle connections.
OwnIdleInherited == idle

\* _forget_inherited_after_fork: the idle stack and the count, as the running
\* process may use them.
OwnIdle == IF own THEN idle ELSE <<>>
OwnOut == IF own THEN out ELSE 0

-----------------------------------------------------------------------------
(* getconn. *)

getconn(t) ==
    /\ pc[t] = "away"
    /\ pc' = [pc EXCEPT ![t] = "get"]
    /\ since' = [since EXCEPT ![t] = drained]
    /\ UNCHANGED <<poolVars, waiters, conn, gen, connVars, drained>>

\* The wait's timeout: the thread still has to get the lock back.
Expire(t) ==
    /\ pc[t] = "sleeping"
    /\ pc' = [pc EXCEPT ![t] = "expired"]
    /\ UNCHANGED <<poolVars, waiters, conn, gen, connVars, drained, since>>

RaiseClosed(t) ==
    /\ pc[t] \in Awake /\ closed
    /\ pc' = [pc EXCEPT ![t] = "away"]
    /\ waiters' = Left(t)
    /\ own' = TRUE /\ idle' = OwnIdle /\ out' = OwnOut
    /\ UNCHANGED <<generation, closed, sizeVars, conn, gen, connVars, drained, since>>

\* An idle connection is popped when it is of this generation and does not say it
\* is closed; those popped before it are closed.  A lost backend may go unnoticed.
Usable(i) == OwnIdle[i].gen = generation
\* Mutant of PopIdle: the connection is handed out and stays idle.
PopIdleLeavingIt(t) ==
    /\ pc[t] \in Awake /\ ~closed
    /\ OwnIdle # <<>> /\ Usable(Len(OwnIdle))
    /\ conn' = [conn EXCEPT ![t] = Last(OwnIdle).conn]
    /\ idle' = OwnIdle
    /\ out' = OwnOut + 1
    /\ own' = TRUE
    /\ gen' = [gen EXCEPT ![t] = generation]
    /\ pc' = [pc EXCEPT ![t] = "checking"]
    /\ waiters' = Left(t)
    /\ UNCHANGED <<generation, closed, sizeVars, connVars, drained, since>>

PopIdle(t) ==
    /\ pc[t] \in Awake /\ ~closed
    /\ \E i \in DOMAIN OwnIdle :
          /\ Usable(i)
          /\ \A j \in DOMAIN OwnIdle :
                j > i => ~Usable(j) \/ OwnIdle[j].conn \in dead
          /\ conn' = [conn EXCEPT ![t] = OwnIdle[i].conn]
          /\ idle' = SubSeq(OwnIdle, 1, i - 1)
          /\ Close({OwnIdle[j].conn : j \in (i + 1)..Len(OwnIdle)})
    /\ out' = OwnOut + 1
    /\ own' = TRUE
    /\ gen' = [gen EXCEPT ![t] = generation]
    /\ pc' = [pc EXCEPT ![t] = "checking"]
    /\ waiters' = Left(t)
    /\ UNCHANGED <<generation, closed, sizeVars, drained, since>>

\* No idle connection is any good: all were popped and closed.
NoneIdle == \A i \in DOMAIN OwnIdle : ~Usable(i) \/ OwnIdle[i].conn \in dead

\* Mutant of EmptyIdle: what a child drops it also closes.
EmptyIdleOfParent ==
    /\ idle' = <<>>
    /\ Close({idle[i].conn : i \in DOMAIN idle})
    /\ own' = TRUE

EmptyIdle ==
    /\ idle' = <<>>
    /\ Close({OwnIdle[i].conn : i \in DOMAIN OwnIdle})
    /\ own' = TRUE

\* Mutant of Full: the limit is off by one.
FullOneLate == OwnOut > max_size

\* Every connection the pool may have is out.
Full == OwnOut >= max_size

TakeSlot(t) ==
    /\ pc[t] \in Awake /\ ~closed /\ NoneIdle /\ ~Full
    /\ EmptyIdle
    /\ out' = OwnOut + 1
    /\ gen' = [gen EXCEPT ![t] = generation]
    /\ pc' = [pc EXCEPT ![t] = "opening"]
    /\ waiters' = Left(t)
    /\ UNCHANGED <<generation, closed, sizeVars, conn, drained, since>>

Sleep(t) ==
    /\ pc[t] = "get" /\ ~closed /\ NoneIdle /\ Full
    /\ EmptyIdle
    /\ out' = OwnOut
    /\ pc' = [pc EXCEPT ![t] = "sleeping"]
    /\ waiters' = Append(Left(t), t)
    /\ UNCHANGED <<generation, closed, sizeVars, conn, gen, drained, since>>

RaiseTimeout(t) ==
    /\ pc[t] \in Awake /\ ~closed /\ NoneIdle /\ Full
    /\ EmptyIdle
    /\ out' = OwnOut
    /\ pc' = [pc EXCEPT ![t] = "away"]
    /\ waiters' = Left(t)
    /\ UNCHANGED <<generation, closed, sizeVars, conn, gen, drained, since>>

\* _connect_until: one of its attempts succeeds, or the deadline passes.
OpenOk(t) ==
    /\ pc[t] = "opening"
    /\ FreeConns # {}
    /\ LET c == CHOOSE c \in FreeConns : TRUE
       IN  /\ conn' = [conn EXCEPT ![t] = c]
           /\ born' = [born EXCEPT ![c] = generation]
    /\ pc' = [pc EXCEPT ![t] = "using"]
    /\ UNCHANGED <<poolVars, waiters, gen, dead, inherited, trampled, drained, since>>

\* Mutant of OpenFails: a failed connect keeps its slot.
OpenFailsKeepingSlot(t) ==
    /\ pc[t] = "opening"
    /\ Notify([pc EXCEPT ![t] = "away"])
    /\ UNCHANGED <<poolVars, conn, gen, connVars, drained, since>>

OpenFails(t) ==
    /\ pc[t] = "opening"
    /\ out' = out - 1
    /\ Notify([pc EXCEPT ![t] = "away"])
    /\ UNCHANGED <<idle, generation, closed, sizeVars, own, conn, gen, connVars,
                   drained, since>>

CheckOk(t) ==
    /\ pc[t] = "checking" /\ conn[t] \notin dead
    /\ pc' = [pc EXCEPT ![t] = "using"]
    /\ UNCHANGED <<poolVars, waiters, conn, gen, connVars, drained, since>>

\* Mutant of CheckFails: the slot is given back by the check and by its caller.
CheckFailsTwice(t) ==
    /\ pc[t] = "checking" /\ conn[t] \in dead
    /\ Close({conn[t]})
    /\ conn' = [conn EXCEPT ![t] = None]
    /\ out' = out - 2
    /\ Notify([pc EXCEPT ![t] = "get"])
    /\ UNCHANGED <<idle, generation, closed, sizeVars, own, gen, drained, since>>

\* The connection is closed, its slot given back, and getconn starts over.
CheckFails(t) ==
    /\ pc[t] = "checking" /\ conn[t] \in dead
    /\ Close({conn[t]})
    /\ conn' = [conn EXCEPT ![t] = None]
    /\ out' = out - 1
    /\ Notify([pc EXCEPT ![t] = "get"])
    /\ UNCHANGED <<idle, generation, closed, sizeVars, own, gen, drained, since>>

-----------------------------------------------------------------------------
(* putconn: the reset outside the lock, then the return. *)

putconn(t) ==
    /\ pc[t] = "using"
    /\ pc' = [pc EXCEPT ![t] = "resetting"]
    /\ UNCHANGED <<poolVars, waiters, conn, gen, connVars, drained, since>>

\* Mutant of Keeps: a connection of an older generation is kept.
KeepsAnyGeneration(t) ==
    /\ Len(OwnIdle) < max_size
    /\ ~closed

Keeps(t) ==
    /\ Len(OwnIdle) < max_size
    /\ gen[t] = generation
    /\ ~closed

GivenBack == IF OwnOut > 0 THEN OwnOut - 1 ELSE 0

\* Kept: reset, not known to be closed, and the pool has room for its generation.
PutIdle(t) ==
    /\ pc[t] = "resetting" /\ conn[t] \notin dead /\ Keeps(t)
    /\ idle' = Append(OwnIdle, [conn |-> conn[t], gen |-> generation])
    /\ out' = GivenBack
    /\ own' = TRUE
    /\ conn' = [conn EXCEPT ![t] = None]
    /\ Notify([pc EXCEPT ![t] = "away"])
    /\ UNCHANGED <<generation, closed, sizeVars, gen, connVars, drained, since>>

\* Mutant of PutClosed: only a connection that goes idle is announced.
PutClosedSilently(t) ==
    /\ pc[t] = "resetting"
    /\ idle' = OwnIdle
    /\ out' = GivenBack
    /\ own' = TRUE
    /\ Close({conn[t]})
    /\ conn' = [conn EXCEPT ![t] = None]
    /\ pc' = [pc EXCEPT ![t] = "away"]
    /\ UNCHANGED <<generation, closed, sizeVars, waiters, gen, drained, since>>

\* Not kept, for any of those reasons or because the reset raised: the slot is
\* given back all the same.
PutClosed(t) ==
    /\ pc[t] = "resetting"
    /\ idle' = OwnIdle
    /\ out' = GivenBack
    /\ own' = TRUE
    /\ Close({conn[t]})
    /\ conn' = [conn EXCEPT ![t] = None]
    /\ Notify([pc EXCEPT ![t] = "away"])
    /\ UNCHANGED <<generation, closed, sizeVars, gen, drained, since>>

-----------------------------------------------------------------------------
(* drain, close, open, resize. *)

\* drain's first block; gen[t] remembers which drain it is.
drain(t) ==
    /\ pc[t] = "away" /\ generation < MaxDrains
    /\ generation' = generation + 1
    /\ gen' = [gen EXCEPT ![t] = generation + 1]
    /\ pc' = [pc EXCEPT ![t] = "draining"]
    /\ UNCHANGED <<idle, out, closed, sizeVars, own, waiters, conn, connVars,
                   drained, since>>

close(t) ==
    /\ pc[t] = "away"
    /\ closed' = TRUE
    /\ pc' = [pc EXCEPT ![t] = "closing"]
    /\ UNCHANGED <<idle, out, generation, sizeVars, own, waiters, conn, gen, connVars,
                   drained, since>>

\* Mutant of Evict: the waiters are left asleep.
EvictSilently(t) ==
    /\ pc[t] \in {"draining", "closing"}
    /\ idle' = <<>>
    /\ Close(IdleConns)
    /\ pc' = [pc EXCEPT ![t] = "away"]
    /\ drained' = IF pc[t] = "draining" /\ gen[t] > drained THEN gen[t] ELSE drained
    /\ UNCHANGED <<out, generation, closed, sizeVars, own, waiters, conn, gen, since>>

\* _evict_idle, and the return of drain or close.
Evict(t) ==
    /\ pc[t] \in {"draining", "closing"}
    /\ idle' = <<>>
    /\ Close(IdleConns)
    /\ NotifyAll([pc EXCEPT ![t] = "away"])
    /\ drained' = IF pc[t] = "draining" /\ gen[t] > drained THEN gen[t] ELSE drained
    /\ UNCHANGED <<out, generation, closed, sizeVars, own, conn, gen, since>>

open ==
    /\ closed
    /\ closed' = FALSE
    /\ UNCHANGED <<idle, out, generation, sizeVars, own, waiters, pc, conn, gen, connVars,
                   drained, since>>

\* Nobody is notified.
resize(n) ==
    /\ max_size' = n
    /\ floor' = Min({floor, n})
    /\ UNCHANGED <<idle, out, generation, closed, own, waiters, pc, conn, gen, connVars,
                   drained, since>>

-----------------------------------------------------------------------------
(* The environment. *)

BackendDies(c) ==
    /\ c \in (IdleConns \cup HeldConns) \ (dead \cup inherited)
    /\ dead' = dead \cup {c}
    /\ UNCHANGED <<poolVars, waiters, pc, conn, gen, born, inherited, trampled,
                   drained, since>>

\* The process forks, single-threaded and with no connection out; from here on
\* the model is the child.
Fork ==
    /\ Forks /\ own /\ inherited = {}
    /\ \A t \in Threads : pc[t] = "away"
    /\ own' = FALSE
    /\ inherited' = IdleConns
    /\ UNCHANGED <<idle, out, generation, closed, sizeVars, waiters, pc, conn, gen,
                   dead, born, trampled, drained, since>>

-----------------------------------------------------------------------------
Getting(t) ==
    \/ getconn(t) \/ Expire(t)
    \/ RaiseClosed(t) \/ PopIdle(t) \/ TakeSlot(t) \/ Sleep(t) \/ RaiseTimeout(t)
    \/ OpenOk(t) \/ OpenFails(t) \/ CheckOk(t) \/ CheckFails(t)

Next ==
    \/ \E t \in Threads :
          \/ Getting(t)
          \/ putconn(t) \/ PutIdle(t) \/ PutClosed(t)
          \/ drain(t) \/ close(t) \/ Evict(t)
    \/ open \/ (\E n \in Sizes : resize(n))
    \/ (\E c \in Conns : BackendDies(c)) \/ Fork

Spec == Init /\ [][Next]_vars

-----------------------------------------------------------------------------
(* Properties. *)

\* Every variable has the shape its code counterpart has.
TypeOK ==
    /\ idle \in Seq([conn : Conns, gen : 0..MaxDrains]) /\ out \in Nat
    /\ generation \in 0..MaxDrains /\ closed \in BOOLEAN
    /\ max_size \in Sizes /\ floor \in Sizes
    /\ own \in BOOLEAN
    /\ waiters \in Seq(Threads)
    /\ pc \in [Threads -> {"away", "sleeping", "draining", "closing"} \cup Awake \cup Slotted]
    /\ conn \in [Threads -> Conns \cup {None}] /\ gen \in [Threads -> 0..MaxDrains]
    /\ dead \subseteq Conns /\ inherited \subseteq Conns /\ trampled \in BOOLEAN
    /\ born \in [Conns -> 0..MaxDrains]
    /\ drained \in 0..MaxDrains /\ since \in [Threads -> 0..MaxDrains]

\* Every slot is given back exactly once, whichever of the failures of getconn and
\* putconn ends a checkout and whatever drain, close and resize do meanwhile: the
\* count of connections out is the number of threads inside a checkout.
SlotsAccounted ==
    own => out = Cardinality({t \in Threads : pc[t] \in Slotted})

\* The pool never has more connections than the largest size it was given.
WithinMax == \E n \in Sizes : Len(OwnIdle) + OwnOut <= n

\* A connection has one owner: it is idle once, or held by one thread, and a forked
\* child never works on a socket its parent uses (_forget_inherited_after_fork,
\* wherever the child first enters the pool).
OneOwner ==
    /\ HeldConns \cap inherited = {}
    /\ \A i, j \in DOMAIN idle : idle[i].conn = idle[j].conn => i = j
    /\ IdleConns \cap HeldConns = {}
    /\ \A t, u \in Threads : conn[t] = conn[u] /\ conn[t] # None => t = u

\* Slots are conserved, each connection has one owner, and the pool stays within
\* the size it was given: through timeouts, failed connects, drains, closes and a
\* fork (getconn, putconn).
SlotsConserved == TypeOK /\ SlotsAccounted /\ OneOwner /\ WithinMax

\* drain() retires what it was called to retire: a checkout that began after a drain
\* returned gets a connection opened after that drain, through a connect, a return
\* or another drain that overlaps it (the generation's two uses).
DrainRetires ==
    \A t \in Threads : pc[t] = "using" => born[conn[t]] >= since[t]

\* No wakeup is lost: while a thread sleeps, as many threads are awake as there are
\* free slots, though a notify may reach a waiter that has timed out and a newcomer
\* may take the slot first.  Slots that resize() adds are not counted, as it notifies
\* nobody, and a close still to notify is excepted.
NoLostWakeup ==
    \/ closed \/ \E t \in Threads : pc[t] = "closing"
    \/ \A t \in Threads : pc[t] # "sleeping"
    \/ Cardinality({t \in Threads : pc[t] \in Awake}) >= floor - out

\* close() leaves nobody asleep, also when it races open() and other closes.
CloseWakesAll ==
    closed /\ (\A t \in Threads : pc[t] # "closing")
        => \A t \in Threads : pc[t] # "sleeping"

\* Nobody sleeps beside a free slot, or in a closed pool (getconn, putconn, drain,
\* close, and the notify of each).
NoSleeperForgotten == NoLostWakeup /\ CloseWakesAll

\* The child drops the connections it inherited "without closing them", whichever
\* checkout or return is its first and whatever follows; only a drain or a close
\* that comes before these closes them, as _evict_idle does not look at the pid.
ParentSocketsKept ==
    [][trampled' # trampled => ~own /\ \E t \in Threads : Evict(t)]_vars
=============================================================================
