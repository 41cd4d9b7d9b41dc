------------------------------ MODULE Routing ------------------------------
(***************************************************************************)
(* How a process decides, call by call, between the Rust kernel and Python *)
(* (engine-py/python/rust_orm_shim.py), how the persistence port asks the  *)
(* same question (rust_backend.py), and how the kill switch of the addon   *)
(* (addons/rust_engine/__init__.py) moves both layers under open           *)
(* transactions.                                                           *)
(*                                                                         *)
(* A thread has one open transaction and a stack of calls in progress: a   *)
(* wrapped read (search_read, read, _read_group, ...: the eight wrappers   *)
(* share one control skeleton) or a call of the port.  The Python code a   *)
(* call runs (rules, flush, labels, the original method) may issue further *)
(* ORM calls, so calls nest.  The shared dictionaries STATS[...] are read  *)
(* and written in separate steps, as threads interleave between bytecodes. *)
(***************************************************************************)
EXTENDS Integers, Sequences, FiniteSets, SequencesExt

CONSTANTS
    Threads,      \* request threads of one worker process
    Models,       \* the models they read
    Breaker,      \* BREAKER, the number of errors that disables a model
    Sampling,     \* SAMPLE > 0
    Nesting,      \* bound: the threads whose calls nest
    Misled,       \* bound: the threads whose mark may part from the transaction
    MaxDepth,     \* bound: calls nested in one of these
    MaxInner,     \* bound: calls issued by the Python code of one call
    MaxErrors,    \* bound: the counts from which a model is still reset
    MaxFaults     \* bound on the errors that can precede a lasting trip

ASSUME RoutingAssumption ==
    /\ Breaker \in Nat \ {0} /\ Sampling \in BOOLEAN
    /\ Nesting \subseteq Threads /\ Misled \subseteq Threads
    /\ MaxDepth \in Nat \ {0} /\ {MaxInner, MaxErrors, MaxFaults} \subseteq Nat

VARIABLES
    mode,         \* MODE: "on", "off" or "shadow"
    active,       \* rust_db_shim.ACTIVE: whether new cursors are rust-backed
    cursor,       \* each thread's open connection: "none", "rust", "psycopg"
    tx,           \* its transaction, as the server knows it: "sound" or "aborted"
    marked,       \* in_failed_transaction, what its rust connection takes it for
    stack,        \* its calls in progress, outermost first
    depth,        \* _BASELINE.depth, thread-local
    errors,       \* STATS["errors_by_model"]; 0 is an absent key
    quarantined,  \* STATS["quarantined"]: occurrences of each model
    faults,       \* history: errors being recorded since the last reset
    found         \* history: models with a completed divergence since then

vars == <<mode, active, cursor, tx, marked, stack, depth, errors,
          quarantined, faults, found>>

stats == <<errors, quarantined, faults, found>>
switch == <<mode, active>>

Modes == {"on", "off", "shadow"}

\* Where a call runs Python code of the ORM, which may call back into it.
PythonCode == {"deps", "prepare", "post", "baseline", "original"}

\* Where a call has been let through to the kernel.
Routed == {"deps", "prepare", "dispatch", "post", "decide", "native"}

Places == PythonCode \cup Routed \cup
    {"gate", "quarantine", "append", "countWrite", "countFirst", "armed",
     "keyError", "attributeError"}

Top(t) == Last(stack[t])

Place(t) == IF stack[t] = <<>> THEN "idle" ELSE Top(t).pc

SetTop(t, f) == stack' = [stack EXCEPT ![t][Len(stack[t])] = f]

Goto(t, pc) == SetTop(t, [Top(t) EXCEPT !.pc = pc])

\* The call returns, or raises what is its caller's to handle.
Leave(t) == stack' = [stack EXCEPT ![t] = Front(@)]

----------------------------------------------------------------------------
(* Transactions and calls *)

Init ==
    /\ mode \in Modes /\ active = (mode # "off")
    /\ cursor = [t \in Threads |-> "none"]
    /\ tx = [t \in Threads |-> "sound"] /\ marked = [t \in Threads |-> FALSE]
    /\ stack = [t \in Threads |-> <<>>]
    /\ depth = [t \in Threads |-> 0]
    /\ errors = [m \in Models |-> 0]
    /\ quarantined = [m \in Models |-> 0]
    /\ faults = [m \in Models |-> 0] /\ found = {}

\* pool_factory decides by ACTIVE what the next borrowed connection is.
Begin(t) ==
    /\ cursor[t] = "none"
    /\ cursor' = [cursor EXCEPT ![t] = IF active THEN "rust" ELSE "psycopg"]
    /\ UNCHANGED <<switch, tx, marked, stack, depth, stats>>

\* The request ends, by commit or rollback, and returns its connection.
End(t) ==
    /\ Place(t) = "idle" /\ cursor[t] # "none"
    /\ cursor' = [cursor EXCEPT ![t] = "none"]
    /\ tx' = [tx EXCEPT ![t] = "sound"]
    /\ marked' = [marked EXCEPT ![t] = FALSE]
    /\ UNCHANGED <<switch, stack, depth, stats>>

\* A database error that aborts a transaction leaves the Python code that met
\* it nothing to do but raise, and the caller nothing to do but roll back.
MustRaise(t) == tx[t] = "aborted"

Frame(t, m, pc) ==
    [model |-> m, pc |-> pc, same |-> TRUE, seen |-> 0, inner |-> 0]

\* The caller, or the Python code of the call in progress, issues an ORM call:
\* a wrapped read, which enters at its gate, or a call of the port.
Call(t, m, pc) ==
    /\ cursor[t] # "none" /\ ~MustRaise(t)
    /\ \/ /\ Place(t) = "idle"
          /\ stack' = [stack EXCEPT ![t] = <<Frame(t, m, pc)>>]
       \/ /\ t \in Nesting /\ Place(t) \in PythonCode
          /\ Top(t).inner < MaxInner /\ Len(stack[t]) < MaxDepth
          /\ stack' = [stack EXCEPT ![t] =
                Append(Front(stack[t]), [Top(t) EXCEPT !.inner = @ + 1])
                \o <<Frame(t, m, pc)>>]
    /\ UNCHANGED <<switch, cursor, tx, marked, depth, stats>>

----------------------------------------------------------------------------
(* The gate *)

\* Mutant of Allows: reads below a baseline are routed.
AllowsInBaseline(t) ==
    LET m == Top(t).model IN
    mode # "off" /\ quarantined[m] = 0 /\ errors[m] < Breaker

\* Mutant of Allows: the quarantine is not consulted.
AllowsQuarantined(t) ==
    mode # "off" /\ depth[t] = 0 /\ errors[Top(t).model] < Breaker

\* _policy_allows, after ONLY and EXCEPT, which keep a model out for good.  The
\* list of tripped models it fills is only reported, and left out.
Allows(t) ==
    LET m == Top(t).model IN
    /\ mode # "off" /\ depth[t] = 0
    /\ quarantined[m] = 0 /\ errors[m] < Breaker

\* _gate: after the policy another database, a loading registry, no kernel, a
\* tainted cursor, an overridden method, ... may refuse.  A routed call lists
\* what to flush unless nothing is dirty.
Gate(t) ==
    /\ Place(t) = "gate"
    /\ \E pc \in {"deps", "prepare", "original"} :
          (pc # "original" => Allows(t)) /\ Goto(t, pc)
    /\ UNCHANGED <<switch, cursor, tx, marked, depth, stats>>

----------------------------------------------------------------------------
(* _record_error *)

\* _python_cannot_answer: in_failed_transaction is the rust connection's mark;
\* asked of any other connection, it raises and counts as yes.
CannotAnswer(t, e) ==
    \/ e = "user"
    \/ e = "db" /\ (cursor[t] # "rust" \/ marked'[t])

\* _record_error(e), e being "refused" (KernelRefused and its subclasses),
\* "user" (UserError), "db" (psycopg.Error) or "internal" (any other exception,
\* the kernel's database and internal errors included).  The last two are
\* counted: errors_by_model[m] = errors_by_model.get(m, 0) + 1 reads here ...
RecordError(t, e) ==
    LET m == Top(t).model
        counted == ~CannotAnswer(t, e) /\ e \in {"db", "internal"}
    IN
    /\ CASE CannotAnswer(t, e) -> Leave(t)
         [] e = "refused" -> Goto(t, "original")
         [] counted -> SetTop(t, [Top(t) EXCEPT !.pc = "countWrite",
                                                !.same = TRUE, !.seen = errors[m]])
    /\ faults' = IF counted THEN [faults EXCEPT ![m] = @ + 1] ELSE faults

\* Mutant of CountWrite: the count is written back as it was read.
CountWriteAsRead(t) ==
    /\ Place(t) = "countWrite"
    /\ errors' = [errors EXCEPT ![Top(t).model] = Top(t).seen]
    /\ SetTop(t, [Top(t) EXCEPT !.pc = "countFirst", !.seen = 0])
    /\ UNCHANGED <<switch, cursor, tx, marked, depth, quarantined, faults, found>>

\* ... and writes here, over what other threads counted in between.
CountWrite(t) ==
    /\ Place(t) = "countWrite"
    /\ errors' = [errors EXCEPT ![Top(t).model] = Top(t).seen + 1]
    /\ SetTop(t, [Top(t) EXCEPT !.pc = "countFirst", !.seen = 0])
    /\ UNCHANGED <<switch, cursor, tx, marked, depth, quarantined, faults, found>>

\* errors_by_model[m] == 1 raises KeyError when a reset popped the key.
CountFirst(t) ==
    /\ Place(t) = "countFirst"
    /\ Goto(t, IF errors[Top(t).model] = 0 THEN "keyError" ELSE "original")
    /\ UNCHANGED <<switch, cursor, tx, marked, depth, stats>>

----------------------------------------------------------------------------
(* The routed branch *)

\* A statement fails on the server, whose transaction is aborted.  A rust
\* connection marks it, unless the statement was a COPY.
ServerError(t) ==
    /\ tx' = [tx EXCEPT ![t] = "aborted"]
    /\ \/ cursor[t] = "rust" /\ marked' = [marked EXCEPT ![t] = TRUE]
       \/ (cursor[t] = "rust" => t \in Misled) /\ UNCHANGED marked

\* A value cannot be converted before the statement is sent: a rust connection
\* raises the server's 22P02 itself, and marks a transaction that is sound.
ClientError(t) ==
    /\ cursor[t] = "rust" /\ t \in Misled /\ marked' = [marked EXCEPT ![t] = TRUE]
    /\ ~MustRaise(t) /\ UNCHANGED tx

\* How a piece of Python code may end: in order, or with an exception; a
\* database error may have been put right, by a savepoint, or not.
Outcome(t, e) ==
    \/ ~MustRaise(t) /\ UNCHANGED <<tx, marked>>
    \/ e = "db" /\ (ServerError(t) \/ ClientError(t))

\* _flush_if_needed, inner try: _read_dependencies evaluates the access domain
\* of the model; whatever it raises means "what to flush is unknown".
Deps(t) ==
    /\ Place(t) = "deps"
    /\ \E e \in {"none", "user", "db", "internal"} :
          /\ Outcome(t, e)
          /\ IF e = "none" THEN Goto(t, "prepare") /\ UNCHANGED faults
                           ELSE RecordError(t, "refused")
    /\ UNCHANGED <<switch, cursor, depth, errors, quarantined, found>>

\* Mutant of Classify: whatever the preparation raises is a refusal.
ClassifyRefused(e) == {"refused"}

\* _error_is_the_callers: what the flush, the search methods, the group state
\* and the rules raise propagates when it is the caller's, and refuses the call
\* or counts as an error of the routing otherwise.
Classify(e) == IF e \in {"user", "db"} THEN {e} ELSE {"refused", "internal"}

\* The flush proper and _request, up to the call of the kernel.
Prepare(t) ==
    /\ Place(t) = "prepare"
    /\ \E e \in {"none", "user", "db", "internal"} :
          /\ Outcome(t, e)
          /\ IF e = "none" THEN Goto(t, "dispatch") /\ UNCHANGED faults
             ELSE \E k \in Classify(e) : RecordError(t, k)
    /\ UNCHANGED <<switch, cursor, depth, errors, quarantined, found>>

\* _dispatch: _rust_conn fails on a psycopg connection; RustKernel.dispatch
\* works inside a savepoint and leaves the transaction as it found it.
Dispatch(t) ==
    /\ Place(t) = "dispatch" /\ UNCHANGED <<tx, marked>>
    /\ \/ RecordError(t, "internal")
       \/ cursor[t] = "rust" /\ RecordError(t, "refused")
       \/ /\ cursor[t] = "rust"
          /\ \E same \in BOOLEAN :
                SetTop(t, [Top(t) EXCEPT !.pc = "post", !.same = same])
          /\ UNCHANGED faults
    /\ UNCHANGED <<switch, cursor, depth, errors, quarantined, found>>

\* Reviving the answer: labels, many2ones and Python fields are read by Python,
\* and a read whose order cannot be reproduced is refused.
Post(t) ==
    /\ Place(t) = "post"
    /\ \E e \in {"none", "refused", "user", "db", "internal"} :
          /\ Outcome(t, e)
          /\ IF e = "none" THEN Goto(t, "decide") /\ UNCHANGED faults
                           ELSE RecordError(t, e)
    /\ UNCHANGED <<switch, cursor, depth, errors, quarantined, found>>

\* MODE != "shadow" and not sampled: the kernel's answer is returned.
ReturnKernel(t) ==
    /\ Place(t) = "decide" /\ mode # "shadow"
    /\ Leave(t)
    /\ UNCHANGED <<switch, cursor, tx, marked, depth, stats>>

\* Otherwise the original runs as a baseline.
EnterBaseline(t) ==
    /\ Place(t) = "decide" /\ (mode = "shadow" \/ Sampling)
    /\ Goto(t, "baseline")
    /\ depth' = [depth EXCEPT ![t] = @ + 1]
    /\ UNCHANGED <<switch, cursor, tx, marked, stats>>

\* The original method answers, or raises what it raises.
Original(t) ==
    /\ Place(t) = "original"
    /\ \E e \in {"none", "db"} : Outcome(t, e)
    /\ Leave(t)
    /\ UNCHANGED <<switch, cursor, depth, stats>>

\* An exception of the routing code itself reaches the caller.
Unwind(t) ==
    /\ Place(t) \in {"keyError", "attributeError"}
    /\ Leave(t)
    /\ UNCHANGED <<switch, cursor, tx, marked, depth, stats>>

----------------------------------------------------------------------------
(* Shadow comparison and quarantine *)

\* Mutant of BaselineDepth: the depth is restored only when nothing raised.
BaselineDepthKept(t, e) == IF e = "none" THEN depth[t] - 1 ELSE depth[t]

\* The finally of _baseline.
BaselineDepth(t, e) == depth[t] - 1

\* _verified_baseline and _shadow: the call returns Python's answer or raises
\* its exception; an exception or a difference quarantines the model first.
LeaveBaseline(t) ==
    /\ Place(t) = "baseline"
    /\ \E e \in {"none", "user", "db", "internal"} :
          /\ Outcome(t, e)
          /\ depth' = [depth EXCEPT ![t] = BaselineDepth(t, e)]
          /\ IF e = "none" /\ Top(t).same THEN Leave(t)
             ELSE SetTop(t, [Top(t) EXCEPT !.pc = "quarantine", !.same = TRUE])
    /\ UNCHANGED <<switch, cursor, stats>>

\* _quarantine tests for the model ...
Quarantine(t) ==
    /\ Place(t) = "quarantine"
    /\ IF quarantined[Top(t).model] > 0
       THEN Leave(t) /\ found' = found \cup {Top(t).model}
       ELSE Goto(t, "append") /\ UNCHANGED found
    /\ UNCHANGED <<switch, cursor, tx, marked, depth, errors, quarantined, faults>>

\* ... and then appends it, which another thread may have done in between.
AppendQuarantine(t) ==
    /\ Place(t) = "append"
    /\ quarantined' = [quarantined EXCEPT ![Top(t).model] = @ + 1]
    /\ Leave(t) /\ found' = found \cup {Top(t).model}
    /\ UNCHANGED <<switch, cursor, tx, marked, depth, errors, faults>>

----------------------------------------------------------------------------
(* The persistence port (RustBackend) *)

\* RustBackend._armed: in NATIVE, the registry ready, _routing_allows.
Armed(t) == mode = "on" /\ Allows(t)

\* The delegate answers when the port is not armed.
PortArmed(t) ==
    /\ Place(t) = "armed"
    /\ IF Armed(t) THEN Goto(t, "native") ELSE Leave(t)
    /\ UNCHANGED <<switch, cursor, tx, marked, depth, stats>>

\* _search_native: a refusal delegates; any other exception, that of asking a
\* psycopg connection for its rust one included, is the caller's.
SearchNative(t) ==
    \/ Leave(t)
    \/ cursor[t] # "rust" /\ Goto(t, "attributeError")

PortNative(t) ==
    /\ Place(t) = "native"
    /\ SearchNative(t)
    /\ UNCHANGED <<switch, cursor, tx, marked, depth, stats>>

----------------------------------------------------------------------------
(* The operator *)

\* Mutant of Removed: a model is removed without being looked for.
RemovedBlindly(n) == n - 1

\* list.remove takes one occurrence away, and is asked only of a member.
Removed(n) == IF n > 0 THEN n - 1 ELSE 0

\* reset_breaker(m).
ResetBreaker(m) ==
    /\ errors[m] <= MaxErrors
    /\ errors' = [errors EXCEPT ![m] = 0]
    /\ quarantined' = [quarantined EXCEPT ![m] = Removed(@)]
    /\ faults' = [faults EXCEPT ![m] = 0]
    /\ found' = IF quarantined'[m] = 0 THEN found \ {m} ELSE found
    /\ UNCHANGED <<switch, cursor, tx, marked, stack, depth>>

\* reset_breaker(): everything is cleared.
ResetAll ==
    /\ \A m \in Models : errors[m] <= MaxErrors
    /\ errors' = [m \in Models |-> 0]
    /\ quarantined' = [m \in Models |-> 0]
    /\ faults' = [m \in Models |-> 0] /\ found' = {}
    /\ UNCHANGED <<switch, cursor, tx, marked, stack, depth>>

\* _apply_params on a tick: set_mode with the mode the database names ...
TickMode(new) ==
    /\ active = (mode # "off") /\ new # mode
    /\ mode' = new
    /\ UNCHANGED <<active, cursor, tx, marked, stack, depth, stats>>

\* ... and then rust_db_shim.set_active, which closes the armed pools; the
\* connections already borrowed stay what they are.
TickActive ==
    /\ active # (mode # "off")
    /\ active' = (mode # "off")
    /\ UNCHANGED <<mode, cursor, tx, marked, stack, depth, stats>>

----------------------------------------------------------------------------

Step(t) ==
    \/ Gate(t) \/ Deps(t) \/ Prepare(t) \/ Dispatch(t) \/ Post(t)
    \/ ReturnKernel(t) \/ EnterBaseline(t) \/ LeaveBaseline(t)
    \/ Quarantine(t) \/ AppendQuarantine(t) \/ CountWrite(t) \/ CountFirst(t)
    \/ Original(t) \/ Unwind(t) \/ PortArmed(t) \/ PortNative(t)

Next ==
    \/ \E t \in Threads : Begin(t) \/ End(t) \/ Step(t)
    \/ \E t \in Threads, m \in Models : Call(t, m, "gate") \/ Call(t, m, "armed")
    \/ \E m \in Models : ResetBreaker(m)
    \/ ResetAll
    \/ (\E new \in Modes : TickMode(new)) \/ TickActive

Spec == Init /\ [][Next]_vars

----------------------------------------------------------------------------
(* Properties *)

TypeOK ==
    /\ mode \in Modes /\ active \in BOOLEAN
    /\ cursor \in [Threads -> {"none", "rust", "psycopg"}]
    /\ tx \in [Threads -> {"sound", "aborted"}] /\ marked \in [Threads -> BOOLEAN]
    /\ \A t \in Threads :
          /\ Len(stack[t]) <= MaxDepth
          /\ \A i \in DOMAIN stack[t] :
                stack[t][i] \in
                    [model : Models, pc : Places, same : BOOLEAN, seen : Nat,
                     inner : 0..MaxInner]
    /\ depth \in [Threads -> Nat]
    /\ errors \in [Models -> Nat]
    /\ quarantined \in [Models -> Nat]
    /\ faults \in [Models -> Nat] /\ found \subseteq Models

\* What a baseline is compared with must not come from the kernel again: while
\* a call runs its original as a baseline, no call below it on the same thread,
\* wrapped or of the port, is let through to the kernel, however the baselines
\* before it ended (_baseline, _in_baseline; rust_backend._routing_allows).
BaselineIsPython ==
    \A t \in Threads : \A i, j \in DOMAIN stack[t] :
        (i < j /\ stack[t][i].pc = "baseline") =>
            stack[t][j].pc \notin Routed

\* A baseline that ends, in whatever way, gives the thread back to routing: no
\* thread is left between calls with its baseline depth raised (_baseline).
BaselineEnds == \A t \in Threads : Place(t) = "idle" => depth[t] = 0

\* Baselines begin and end with the call they verify, on every level of nested
\* calls, and nothing below them is the kernel's (_baseline, _verified_baseline).
BaselinesNest == TypeOK /\ BaselineIsPython /\ BaselineEnds

\* Python is given a call the kernel failed on an aborted transaction only by an
\* error that left no mark: the call was on a rust connection, the error that
\* ended it was a database error, counted against the model, and the connection
\* took its transaction for sound (_record_error, _python_cannot_answer).  What
\* is met while listing what to flush is outside: _flush_if_needed turns every
\* error there into a refusal.
FallbackOnMarkedAbort(t) ==
    /\ tx'[t] = "aborted"
    /\ cursor[t] # "rust" \/ marked'[t] \/ Place(t)' # "countWrite"

NoFallbackOnMarkedAbort ==
    [][\A t \in Threads :
          (/\ Place(t) \in Routed \ {"deps"} /\ Len(stack'[t]) = Len(stack[t])
           /\ Place(t)' \in {"original", "countWrite"})
          => ~FallbackOnMarkedAbort(t)]_vars

\* After a comparison found a model to diverge, and until it is reset, no call
\* that begins on it is let through to the kernel, in any thread (_quarantine,
\* _policy_allows).
NoAnswerAfterDivergence ==
    [][\A t \in Threads :
          (Place(t) \in {"gate", "armed"} /\ Place(t)' \in Routed
           /\ Len(stack'[t]) = Len(stack[t]))
          => Top(t).model \notin found]_vars

\* Updates of errors_by_model lost between threads, which can even untrip a
\* breaker, only delay it: since the last reset of a model a bounded number of
\* errors is recorded, after which its reads go to Python (_record_error).
BreakerTripsInTheEnd == \A m \in Models : faults[m] <= MaxFaults

\* A switch under an open transaction disturbs no call: no call raises because
\* its connection is not the kind the mode supposes (_set_mode, _search_native).
SwitchBreaksNoCall == \A t \in Threads : Place(t) # "attributeError"

============================================================================
