------------------------------- MODULE HttpPool -------------------------------
(***************************************************************************)
(* The connection pool of the HTTP server (server/src/http.rs `Pool`,      *)
(* `Lease`, `TxGuard`) and the one thing a call does with a connection:    *)
(* `dispatch_once`, one read-only transaction under a timeout.             *)
(*                                                                         *)
(* `free` is the Vec of idle connections and `permits` the semaphore that  *)
(* is supposed to count them; the two are changed one after the other, and *)
(* every await in between may be the last thing a request does: the        *)
(* acquire timeout, the request timeout, a panic and a client that hangs   *)
(* up all drop the future where it stands.                                 *)
(*                                                                         *)
(* A connection is a backend session: it may be inside a transaction,      *)
(* poisoned, or dead.  A session is named by its slot in the pool: nothing *)
(* refers to one that a reconnect has replaced.                            *)
(***************************************************************************)
EXTENDS Integers, Sequences, FiniteSets, SequencesExt

CONSTANTS
    Requests,   \* tasks of the server: calls, health probes, rebuilds
    Size,       \* ServeOptions.pool_size
    NoConn      \* a task that holds no lease

ASSUME SizeAssumption == Size \in Nat \ {0}
ASSUME NoConnAssumption == NoConn \notin 1..Size
ASSUME RequestsAssumption == IsFiniteSet(Requests)

Conns == 1..Size

VARIABLES
    free,       \* Pool.free, popped from the end
    permits,    \* Pool.permits: what is not handed out
    waiters,    \* the semaphore's queue, first come first served
    poisoned,   \* PooledConn.poisoned
    dead,       \* Client::is_closed
    inTx,       \* the session is inside a transaction
    pc,
    lease,      \* the connection in the task's Lease
    kind,       \* "call" (dispatch_once) or "plain" (health, rebuild)
    ran         \* history: the sessions a task's queries ran on after a poison

poolVars == <<free, permits, waiters>>
connVars == <<poisoned, dead, inTx>>
vars == <<poolVars, connVars, pc, lease, kind, ran>>

Goto(r, label) == pc' = [pc EXCEPT ![r] = label]

\* Pool::connect opens every connection before the server listens.
Init ==
    /\ free = [i \in 1..Size |-> i]
    /\ permits = Size
    /\ waiters = <<>>
    /\ poisoned = {} /\ dead = {} /\ inTx = {}
    /\ pc = [r \in Requests |-> "idle"]
    /\ lease = [r \in Requests |-> NoConn]
    /\ kind = [r \in Requests |-> "call"]
    /\ ran = {}

-----------------------------------------------------------------------------
(* Acquiring. *)

\* Mutant of is_unusable: a poisoned session is trusted again once its transaction is over.
UnusableInTransactionOnly(c) == c \in dead \/ (c \in poisoned /\ c \in inTx)

is_unusable(c) == c \in dead \/ c \in poisoned

\* try_acquire: the task joins the semaphore's queue.
Arrive(r, k) ==
    /\ pc[r] = "idle"
    /\ kind' = [kind EXCEPT ![r] = k]
    /\ waiters' = Append(waiters, r)
    /\ Goto(r, "wait")
    /\ UNCHANGED <<free, permits, connVars, lease, ran>>

\* Mutant of AcquirePermit: the permit is taken without waiting for one.
AcquireWithoutPermit(r) ==
    /\ pc[r] = "wait"
    /\ Head(waiters) = r
    /\ permits' = permits - 1
    /\ waiters' = Tail(waiters)
    /\ Goto(r, "pop")
    /\ UNCHANGED <<free, connVars, lease, kind, ran>>

\* Mutant of AcquirePermit: the semaphore serves the last comer first.
AcquireLastComer(r) ==
    /\ pc[r] = "wait"
    /\ permits > 0 /\ Last(waiters) = r
    /\ permits' = permits - 1
    /\ waiters' = Front(waiters)
    /\ Goto(r, "pop")
    /\ UNCHANGED <<free, connVars, lease, kind, ran>>

\* permits.acquire(): the task at the head of the queue gets a permit.
AcquirePermit(r) ==
    /\ pc[r] = "wait"
    /\ permits > 0 /\ Head(waiters) = r
    /\ permits' = permits - 1
    /\ waiters' = Tail(waiters)
    /\ Goto(r, "pop")
    /\ UNCHANGED <<free, connVars, lease, kind, ran>>

\* free.pop().expect(..), permit.forget(), and the Lease that now owns the slot.
Pop(r) ==
    /\ pc[r] = "pop"
    /\ free # <<>>
    /\ free' = Front(free)
    /\ lease' = [lease EXCEPT ![r] = Last(free)]
    /\ Goto(r, IF is_unusable(Last(free)) THEN "connect" ELSE "leased")
    /\ UNCHANGED <<permits, waiters, connVars, kind, ran>>

\* The reconnect succeeded: the lease holds a new session in the old one's slot.
Reconnect(r) ==
    /\ pc[r] = "connect"
    /\ poisoned' = poisoned \ {lease[r]}
    /\ dead' = dead \ {lease[r]}
    /\ inTx' = inTx \ {lease[r]}
    /\ Goto(r, "leased")
    /\ UNCHANGED <<poolVars, lease, kind, ran>>

\* Mutant of ReconnectFails: the lease is not built before the reconnect.
ReconnectFailsWithoutLease(r) ==
    /\ pc[r] = "connect"
    /\ lease' = [lease EXCEPT ![r] = NoConn]
    /\ Goto(r, "idle")
    /\ UNCHANGED <<poolVars, connVars, kind, ran>>

\* Mutant of ReconnectFails: after a failed reconnect another connection is tried.
ReconnectFailsRetrying(r) ==
    /\ pc[r] = "connect"
    /\ free' = Append(free, lease[r])
    /\ lease' = [lease EXCEPT ![r] = NoConn]
    /\ Goto(r, "pop")
    /\ UNCHANGED <<permits, waiters, connVars, kind, ran>>

\* The reconnect failed, or the acquire timeout fired while it was under way:
\* the old connection goes back with the lease.
ReconnectFails(r) ==
    /\ pc[r] = "connect"
    /\ Goto(r, "release")
    /\ UNCHANGED <<poolVars, connVars, lease, kind, ran>>

\* The dropped acquire takes the task out of the queue.
Leave(r) == \E i \in DOMAIN waiters : waiters[i] = r /\ waiters' = RemoveAt(waiters, i)

\* Mutant of Shed: a permit is added for a request that had none.
ShedReturnsPermit(r) ==
    /\ pc[r] = "wait"
    /\ Leave(r)
    /\ permits' = permits + 1
    /\ Goto(r, "idle")
    /\ UNCHANGED <<free, connVars, lease, kind, ran>>

\* The acquire timeout fires in the queue: the request is shed.
Shed(r) ==
    /\ pc[r] = "wait"
    /\ Leave(r)
    /\ Goto(r, "idle")
    /\ UNCHANGED <<free, permits, connVars, lease, kind, ran>>

-----------------------------------------------------------------------------
(* dispatch_once and dispatch_in_transaction. *)

Conn(r) == lease[r]

\* Every query of the task names the session it runs on.
Query(r) == ran' = IF Conn(r) \in poisoned THEN ran \cup {Conn(r)} ELSE ran

\* handle_health and rebuild_registry query outside a transaction and hold no
\* TxGuard: answered, failed or dropped, the lease goes back as it is.
PlainQuery(r) ==
    /\ pc[r] = "leased" /\ kind[r] = "plain"
    /\ Query(r)
    /\ Goto(r, "release")
    /\ UNCHANGED <<poolVars, connVars, lease, kind>>

\* BEGIN ISOLATION LEVEL REPEATABLE READ READ ONLY.
Begin(r) ==
    /\ pc[r] = "leased" /\ kind[r] = "call"
    /\ Conn(r) \notin dead
    /\ inTx' = inTx \cup {Conn(r)}
    /\ Query(r)
    /\ Goto(r, "run")
    /\ UNCHANGED <<poolVars, poisoned, dead, lease, kind>>

BeginFails(r) ==
    /\ pc[r] = "leased" /\ kind[r] = "call"
    /\ Query(r)
    /\ Goto(r, "failed")
    /\ UNCHANGED <<poolVars, connVars, lease, kind>>

\* The dispatch answered and COMMIT went through, or it was refused and ROLLBACK
\* did; a refused one comes out of dispatch_in_transaction as an error.
EndTransaction(r) ==
    /\ pc[r] = "run"
    /\ Conn(r) \notin dead
    /\ inTx' = inTx \ {Conn(r)}
    /\ \E label \in {"release", "failed"} : Goto(r, label)
    /\ Query(r)
    /\ UNCHANGED <<poolVars, poisoned, dead, lease, kind>>

poison(r) == poisoned' = poisoned \cup {Conn(r)}

\* TxEndFailed: COMMIT or ROLLBACK failed and nobody can name the session's
\* state; no second ROLLBACK is sent on it.
TxEndFailed(r) ==
    /\ pc[r] = "run"
    /\ inTx' \in {inTx, inTx \ {Conn(r)}}
    /\ poison(r)
    /\ Query(r)
    /\ Goto(r, "release")
    /\ UNCHANGED <<poolVars, dead, lease, kind>>

\* The explicit ROLLBACK after a failed dispatch.
RollBackAfterError(r) ==
    /\ pc[r] = "failed"
    /\ Query(r)
    /\ \/ Conn(r) \notin dead /\ inTx' = inTx \ {Conn(r)} /\ UNCHANGED poisoned
       \/ poison(r) /\ UNCHANGED inTx
    /\ Goto(r, "release")
    /\ UNCHANGED <<poolVars, dead, lease, kind>>

\* Mutant of Unwind: the dropped transaction poisons nothing.
UnwindUnpoisoned(r) ==
    /\ pc[r] \in {"leased", "run"} /\ kind[r] = "call"
    /\ inTx' \in {inTx, inTx \cup ({Conn(r)} \ dead), inTx \ {Conn(r)}}
    /\ Goto(r, "release")
    /\ UNCHANGED <<poolVars, poisoned, dead, lease, kind, ran>>

\* The request timeout or a panic drops dispatch_in_transaction wherever it
\* stands, its statement in flight: TxGuard::drop poisons.
Unwind(r) ==
    /\ pc[r] \in {"leased", "run"} /\ kind[r] = "call"
    /\ inTx' \in {inTx, inTx \cup ({Conn(r)} \ dead), inTx \ {Conn(r)}}
    /\ poison(r)
    /\ Goto(r, "release")
    /\ UNCHANGED <<poolVars, dead, lease, kind, ran>>

-----------------------------------------------------------------------------
(* Lease::drop and Pool::release. *)

\* Mutant of Push: the lease still names the connection it gave back.
PushKeepingLease(r) ==
    /\ pc[r] = "release"
    /\ free' = Append(free, lease[r])
    /\ Goto(r, "add_permit")
    /\ UNCHANGED <<permits, waiters, connVars, lease, kind, ran>>

Push(r) ==
    /\ pc[r] = "release"
    /\ free' = Append(free, lease[r])
    /\ lease' = [lease EXCEPT ![r] = NoConn]
    /\ Goto(r, "add_permit")
    /\ UNCHANGED <<permits, waiters, connVars, kind, ran>>

AddPermit(r) ==
    /\ pc[r] = "add_permit"
    /\ permits' = permits + 1
    /\ Goto(r, "idle")
    /\ UNCHANGED <<free, waiters, connVars, lease, kind, ran>>

\* The server closes a session: a restart, a network failure, an idle timeout.
BackendDies(c) ==
    /\ c \notin dead
    /\ dead' = dead \cup {c}
    /\ inTx' = inTx \ {c}
    /\ UNCHANGED <<poolVars, poisoned, pc, lease, kind, ran>>

-----------------------------------------------------------------------------
\* What a task does by itself, as opposed to what happens to it.
Step(r) ==
    \/ AcquirePermit(r) \/ Pop(r) \/ Reconnect(r) \/ ReconnectFails(r)
    \/ PlainQuery(r) \/ Begin(r) \/ BeginFails(r) \/ EndTransaction(r)
    \/ TxEndFailed(r) \/ RollBackAfterError(r) \/ Unwind(r)
    \/ Push(r) \/ AddPermit(r)

Next ==
    \/ \E r \in Requests : \/ \E k \in {"call", "plain"} : Arrive(r, k)
                           \/ Shed(r)
                           \/ Step(r)
    \/ \E c \in Conns : BackendDies(c)

Spec == Init /\ [][Next]_vars

\* The runtime polls every task, and a connection attempt ends.
Fairness == \A r \in Requests : WF_vars(Step(r))

FairSpec == Spec /\ Fairness

-----------------------------------------------------------------------------
(* Properties. *)

Labels == {"idle", "wait", "pop", "connect", "leased", "run", "failed", "release", "add_permit"}
At(labels) == {r \in Requests : pc[r] \in labels}
Leased == {r \in Requests : lease[r] # NoConn}

\* Every variable has the shape its code counterpart has.
TypeOK ==
    /\ free \in Seq(Conns) /\ permits \in Nat
    /\ waiters \in Seq(Requests)
    /\ poisoned \subseteq Conns /\ dead \subseteq Conns /\ inTx \subseteq Conns
    /\ pc \in [Requests -> Labels]
    /\ lease \in [Requests -> Conns \cup {NoConn}]
    /\ kind \in [Requests -> {"call", "plain"}]
    /\ ran \subseteq Conns

\* A permit taken finds a connection in the free list, however acquires,
\* timeouts and releases interleave.
PermitGuaranteesConnection ==
    Cardinality(At({"pop"})) + permits <= Len(free)

\* No slot is lost: whatever drops a task, its connection and its permit are
\* back once it is gone (Lease::drop; the comment above `let mut lease`).
NoSlotLost ==
    /\ Len(free) + Cardinality(Leased) = Size
    /\ permits + Cardinality(At({"pop", "connect", "leased", "run", "failed", "release", "add_permit"})) = Size

\* A connection is in one place: idle once, or in one lease.
OneOwner ==
    /\ IsInjective(free)
    /\ \A r \in Leased : lease[r] \notin ToSet(free)
    /\ \A r, q \in Leased : lease[r] = lease[q] => r = q

\* The parts above together: wherever a task is dropped, the free list, the
\* semaphore and the leases agree on every slot (release, Lease::drop), and
\* "a permit guarantees a free connection": the expect of Pool::acquire never
\* fires.
SlotsConserved == TypeOK /\ NoSlotLost /\ OneOwner /\ PermitGuaranteesConnection

\* A task starts on a session outside any transaction: never inside the
\* snapshot, or the aborted transaction, that an earlier request left behind
\* (README "A connection whose transaction could not be ENDED is discarded").
StartsOutsideTransaction ==
    \A r \in Requests : pc[r] = "leased" => lease[r] \notin inTx

\* No query runs on a session that has been poisoned, so the cancel that
\* poison() spawned can only hit the query it was meant for.
CancelHitsNobodyElse == ran = {}

\* A task that got a permit gives its slot back.
LeasesEnd == \A r \in Requests : (pc[r] \notin {"idle", "wait"}) ~> (pc[r] \in {"idle", "wait"})

\* A waiting task is not forgotten: it is served or shed.
Served == \A r \in Requests : pc[r] = "wait" ~> pc[r] # "wait"
=============================================================================
