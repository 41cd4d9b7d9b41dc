------------------------------- MODULE RustConn -------------------------------
(***************************************************************************)
(* One connection of the Python cursors (engine-py/src/cursor.rs           *)
(* `RustConn`), the session behind it, and the kernel that reads through   *)
(* it (engine-py/src/kernel.rs `dispatch`).                                *)
(*                                                                         *)
(* The connection mirrors the session in flags, because tokio-postgres     *)
(* reports no transaction status: `in_tx`, `aborted`, and `ddl_in_tx`,     *)
(* which decides whether a rollback drops the kernel's prepared plans.     *)
(* The mirror is kept from the statements' text and from their outcome, so *)
(* a COMMIT in a statement's text, a COPY, a simple query and an error     *)
(* made on the client each leave it behind in a way of their own.          *)
(* A connection has one user at a time, so every call is a step.           *)
(*                                                                         *)
(* Data abstraction: a schema is the number of the last DDL in effect, a   *)
(* plan is the statement it is for and the schema it was prepared against, *)
(* and a rollback makes the schemas it undoes unreachable for good.        *)
(***************************************************************************)
EXTENDS Integers, Sequences, FiniteSets, SequencesExt

CONSTANTS
    Statements,     \* SQL texts run with parameters
    Literals,       \* SQL texts run without, that return rows
    MaxPrepared,    \* db.rs MAX_PREPARED
    MaxDdl,         \* bound: DDL statements in a behaviour
    MaxSavepoints,  \* bound: savepoints open at once
    MaxGeneration,  \* bound: kernel generations
    Failures        \* calls the server may refuse: "commit" (the transaction is
                    \* aborted, or a deferred check fails), "copy"

ASSUME RustConnAssumption ==
    /\ MaxPrepared \in Nat \ {0}
    /\ MaxDdl \in Nat /\ MaxSavepoints \in Nat /\ MaxGeneration \in Nat
    /\ Failures \subseteq {"commit", "copy"}

VARIABLES
    \* the session
    alive, tx,          \* tx: "none", "open" or "aborted"
    schema, base,       \* the DDL in effect, now and when the transaction began
    lastDdl,
    savepoints,         \* the schema at each open savepoint
    undone,             \* schemas a rollback has undone
    \* RustConn
    in_tx, aborted, ddl_in_tx, autocommit, closed,
    stmt_cache, kernel_stmts, kernel_generation,
    \* the kernel
    generation          \* of the kernel that dispatches

sessionVars == <<alive, tx, schema, base, lastDdl, savepoints, undone>>
flagVars == <<in_tx, aborted, ddl_in_tx>>
planVars == <<stmt_cache, kernel_stmts, kernel_generation>>
vars == <<sessionVars, flagVars, autocommit, closed, planVars, generation>>

Schemas == 0..MaxDdl
Plans == [sql : Statements \cup Literals, schema : Schemas]

Init ==
    /\ alive = TRUE /\ tx = "none"
    /\ schema = 0 /\ base = 0 /\ lastDdl = 0
    /\ savepoints = <<>> /\ undone = {}
    /\ in_tx = FALSE /\ aborted = FALSE /\ ddl_in_tx = FALSE
    /\ autocommit = FALSE /\ closed = FALSE
    /\ stmt_cache = {} /\ kernel_stmts = {} /\ kernel_generation = 0
    /\ generation = 0

-----------------------------------------------------------------------------
(* The session: what PostgreSQL does with a statement. *)

\* The transaction the statement runs in, after ensure_tx's BEGIN if one is due;
\* none with autocommit, or once a statement's text has ended it.
Began == ~autocommit /\ ~in_tx
TxNow == IF Began THEN "open" ELSE tx
BaseNow == IF Began THEN schema ELSE base

\* The statement is accepted, with no effect on the schema.
ServerOk ==
    /\ tx' = TxNow /\ base' = BaseNow
    /\ UNCHANGED <<alive, schema, lastDdl, savepoints, undone>>

\* The statement fails: an open transaction is aborted.
ServerError ==
    /\ tx' = IF TxNow = "open" THEN "aborted" ELSE TxNow
    /\ base' = BaseNow
    /\ UNCHANGED <<alive, schema, lastDdl, savepoints, undone>>

ServerDdl ==
    /\ lastDdl < MaxDdl
    /\ lastDdl' = lastDdl + 1
    /\ schema' = lastDdl + 1
    /\ tx' = TxNow
    /\ base' = IF TxNow = "none" THEN schema' ELSE BaseNow
    /\ UNCHANGED <<alive, savepoints, undone>>

\* Everything back to the given schema: the later ones never were.
Undo(to) ==
    /\ schema' = to
    /\ undone' = undone \cup ((to + 1)..lastDdl)

ServerEnd ==
    /\ tx' = "none"
    /\ base' = schema'
    /\ savepoints' = <<>>
    /\ UNCHANGED <<alive, lastDdl>>

-----------------------------------------------------------------------------
(* Plans. *)

clear_prepared == stmt_cache' = {} /\ kernel_stmts' = {} /\ UNCHANGED kernel_generation

\* Mutant of clear_prepared_after_rollback: the kernel's plans survive every rollback.
RollbackClearsCursorPlans ==
    /\ stmt_cache' = {}
    /\ UNCHANGED <<kernel_stmts, kernel_generation>>

\* The kernel's plans go only if the transaction ran DDL.
clear_prepared_after_rollback ==
    /\ stmt_cache' = {}
    /\ kernel_stmts' = IF ddl_in_tx THEN {} ELSE kernel_stmts
    /\ UNCHANGED kernel_generation

\* The cursor's plan for a statement with parameters: found, or prepared and
\* inserted, the whole cache going first if it is full.
Prepare(sql) ==
    /\ stmt_cache' = IF \E p \in stmt_cache : p.sql = sql THEN stmt_cache
                     ELSE (IF Cardinality(stmt_cache) >= MaxPrepared THEN {} ELSE stmt_cache)
                            \cup {[sql |-> sql, schema |-> schema]}
    /\ UNCHANGED <<kernel_stmts, kernel_generation>>

\* A statement without parameters that returns rows is prepared and inserted too,
\* with no regard for the cache's size.
PrepareLiteral(sql) ==
    /\ stmt_cache' = IF \E p \in stmt_cache : p.sql = sql THEN stmt_cache
                     ELSE stmt_cache \cup {[sql |-> sql, schema |-> schema]}
    /\ UNCHANGED <<kernel_stmts, kernel_generation>>

-----------------------------------------------------------------------------
(* execute: the head of execute_statement, the statement, track_abort. *)

Usable == alive /\ ~closed

\* Mutant of Flags: ensure_tx begins the transaction and does not note it.
FlagsNotRaised(ddl) ==
    /\ UNCHANGED in_tx
    /\ ddl_in_tx' = ((in_tx /\ ddl_in_tx) \/ (ddl /\ ~autocommit))

\* ensure_tx, and the mark of an earlier transaction that ended without end_tx.
Flags(ddl) ==
    /\ in_tx' = (in_tx \/ ~autocommit)
    /\ ddl_in_tx' = ((in_tx /\ ddl_in_tx) \/ (ddl /\ ~autocommit))

\* track_abort, for a statement that succeeded or failed at the server.
Succeeded == aborted' = (aborted /\ in_tx')
\* Mutant of Failed: a failed statement leaves no mark.
FailedUnmarked == UNCHANGED aborted

Failed == aborted' = in_tx'

Unaborted == TxNow # "aborted"

\* A statement's plan is found, or prepared, which an aborted transaction refuses.
PlanAtHand(sql) ==
    /\ Unaborted \/ \E p \in stmt_cache : p.sql = sql
    /\ Prepare(sql)

\* A statement is prepared, then run; in an aborted transaction neither works.
ExecuteQuery(sql) ==
    /\ Usable
    /\ Flags(FALSE)
    /\ \/ /\ Unaborted
          /\ IF sql \in Literals THEN PrepareLiteral(sql) ELSE Prepare(sql)
          /\ \/ ServerOk /\ Succeeded
             \/ ServerError /\ Failed
       \/ ~Unaborted /\ ServerError /\ Failed /\ UNCHANGED planVars
    /\ UNCHANGED <<autocommit, closed, generation>>

\* A text that the type of its parameter does not admit: with the plan at hand the
\* client words the server's error itself, and track_abort takes it for one.
RefusedOnClient(sql) ==
    /\ Usable
    /\ Flags(FALSE)
    /\ PlanAtHand(sql)
    /\ ServerOk /\ Failed
    /\ UNCHANGED <<autocommit, closed, generation>>

\* Mutant of ClientError: every error of the client is taken for the server's.
ClientErrorMarked ==
    /\ Usable
    /\ Flags(FALSE)
    /\ ServerOk /\ Failed
    /\ UNCHANGED <<autocommit, closed, planVars, generation>>

\* Any other error made on the client - a missing parameter, a NUL, a value of a
\* wrong class - is known for one, once the flags are set and the plans dropped.
ClientError ==
    /\ Usable
    /\ \/ Flags(FALSE) /\ \/ UNCHANGED planVars \/ clear_prepared_after_rollback
                          \/ \E sql \in Statements : PlanAtHand(sql)
       \/ Flags(TRUE) /\ (UNCHANGED planVars \/ clear_prepared)
    /\ ServerOk /\ Succeeded
    /\ UNCHANGED <<autocommit, closed, generation>>

\* CREATE, ALTER and the like: the mark is set before the statement runs.
ExecuteDdl ==
    /\ Usable
    /\ Flags(TRUE)
    /\ \/ Unaborted /\ ServerDdl /\ Succeeded
       \/ ServerError /\ Failed
    /\ UNCHANGED <<autocommit, closed, planVars, generation>>

\* DROP: every plan goes first.
ExecuteDrop ==
    /\ Usable
    /\ Flags(TRUE)
    /\ clear_prepared
    /\ \/ Unaborted /\ ServerDdl /\ Succeeded
       \/ ServerError /\ Failed
    /\ UNCHANGED <<autocommit, closed, generation>>

ExecuteSavepoint ==
    /\ Usable
    /\ Flags(FALSE)
    /\ \/ /\ TxNow = "open" /\ Len(savepoints) < MaxSavepoints
          /\ savepoints' = Append(savepoints, schema)
          /\ tx' = TxNow /\ base' = BaseNow
          /\ UNCHANGED <<alive, schema, lastDdl, undone>>
          /\ Succeeded
       \/ TxNow # "open" /\ ServerError /\ Failed
    /\ UNCHANGED <<autocommit, closed, planVars, generation>>

ExecuteRelease ==
    /\ Usable
    /\ Flags(FALSE)
    /\ \/ /\ TxNow = "open" /\ savepoints # <<>>
          /\ savepoints' = Front(savepoints)
          /\ UNCHANGED <<alive, tx, base, schema, lastDdl, undone>>
          /\ Succeeded
       \/ (TxNow # "open" \/ savepoints = <<>>) /\ ServerError /\ Failed
    /\ UNCHANGED <<autocommit, closed, planVars, generation>>

\* ROLLBACK TO SAVEPOINT: plans are dropped on the text, before it runs.
ExecuteRollbackTo ==
    /\ Usable
    /\ in_tx' = (in_tx \/ ~autocommit)
    /\ ddl_in_tx' = (in_tx /\ ddl_in_tx)
    /\ clear_prepared_after_rollback
    /\ \/ /\ savepoints # <<>>
          /\ Undo(Last(savepoints))
          /\ tx' = "open"
          /\ UNCHANGED <<alive, base, lastDdl, savepoints>>
          /\ aborted' = FALSE
       \/ savepoints = <<>> /\ ServerError /\ Failed
    /\ UNCHANGED <<autocommit, closed, generation>>

\* The server's answer to a COMMIT in a statement's text: the session's transaction
\* is over, and in_tx is not told.  One that was aborted is rolled back without an
\* error, a deferred check that fails is one.
CommitInText ==
    \/ TxNow # "aborted" /\ UNCHANGED <<schema, undone>> /\ ServerEnd /\ Succeeded
    \/ /\ "commit" \in Failures /\ TxNow # "none"
       /\ Undo(BaseNow) /\ ServerEnd
       /\ IF TxNow = "aborted" THEN Succeeded ELSE Failed

\* BEGIN: a warning inside a transaction.
BeginInText ==
    \/ TxNow = "open" /\ ServerOk /\ Succeeded
    \/ TxNow = "none" /\ tx' = "open" /\ UNCHANGED <<alive, schema, base, lastDdl, savepoints, undone>>
       /\ Succeeded
    \/ TxNow = "aborted" /\ ServerError /\ Failed

\* execute("COMMIT") and execute("BEGIN"): statements like any other.
ExecuteCommit ==
    /\ Usable
    /\ Flags(FALSE)
    /\ CommitInText
    /\ UNCHANGED <<autocommit, closed, planVars, generation>>

ExecuteBegin ==
    /\ Usable /\ ~autocommit
    /\ Flags(FALSE)
    /\ BeginInText
    /\ UNCHANGED <<autocommit, closed, planVars, generation>>

\* execute("ROLLBACK"): the text drops plans and, run, clears the mark.
ExecuteRollback ==
    /\ Usable
    /\ Flags(FALSE)
    /\ clear_prepared_after_rollback
    /\ Undo(BaseNow) /\ ServerEnd
    /\ aborted' = FALSE
    /\ UNCHANGED <<autocommit, closed, generation>>

\* Several statements in one string: every plan goes first, and the string is taken
\* for DDL.  It may end the transaction as well; only one that begins with ROLLBACK
\* clears the mark.
ExecuteScript ==
    /\ Usable
    /\ Flags(TRUE)
    /\ clear_prepared
    /\ \/ Unaborted /\ (ServerOk \/ ServerDdl) /\ Succeeded
       \/ ServerError /\ Failed
       \/ CommitInText
       \/ ~autocommit /\ BeginInText
       \/ Undo(BaseNow) /\ ServerEnd /\ (aborted' = FALSE \/ (Unaborted /\ Succeeded))
    /\ UNCHANGED <<autocommit, closed, generation>>

-----------------------------------------------------------------------------
(* The other calls. *)

\* A COPY stream: opened, written, finished or dropped, outside execute and so
\* outside track_abort.
Copy ==
    /\ Usable
    /\ in_tx' = (in_tx \/ ~autocommit)
    /\ \/ Unaborted /\ ServerOk
       \/ "copy" \in Failures /\ ServerError
    /\ UNCHANGED <<aborted, ddl_in_tx, autocommit, closed, planVars, generation>>

\* exec_simple, by which Odoo resets a session: no ensure_tx before it and no
\* track_abort after it.
SimpleQuery ==
    /\ Usable
    /\ \/ tx # "aborted" /\ ddl_in_tx' = (in_tx /\ ddl_in_tx) /\ UNCHANGED sessionVars
       \/ /\ tx' = IF tx = "open" THEN "aborted" ELSE tx
          /\ UNCHANGED <<alive, schema, base, lastDdl, savepoints, undone, ddl_in_tx>>
    /\ UNCHANGED <<in_tx, aborted, autocommit, closed, planVars, generation>>

\* Mutant of EndFlags: the end of the transaction is not noted.
EndFlagsInTx == aborted' = FALSE /\ ddl_in_tx' = FALSE /\ UNCHANGED in_tx

\* Mutant of EndFlags: the abort mark outlives the transaction.
EndFlagsAborted == in_tx' = FALSE /\ ddl_in_tx' = FALSE /\ UNCHANGED aborted

EndFlags == in_tx' = FALSE /\ aborted' = FALSE /\ ddl_in_tx' = FALSE

\* commit: the flags first, then COMMIT if a transaction was open.  PostgreSQL
\* answers COMMIT with a rollback when the transaction is aborted or a deferred
\* check fails.
Commit ==
    /\ Usable
    /\ EndFlags
    /\ \/ in_tx /\ tx # "aborted" /\ UNCHANGED <<schema, undone>> /\ ServerEnd
       \/ in_tx /\ "commit" \in Failures /\ Undo(base) /\ ServerEnd
       \/ ~in_tx /\ UNCHANGED sessionVars
    /\ UNCHANGED <<autocommit, closed, planVars, generation>>

\* rollback, and the rollback that resets a connection on its way back to the pool.
Rollback ==
    /\ Usable
    /\ clear_prepared_after_rollback
    /\ EndFlags
    /\ \/ in_tx /\ Undo(base) /\ ServerEnd
       \/ ~in_tx /\ UNCHANGED sessionVars
    /\ UNCHANGED <<autocommit, closed, generation>>

\* reset_session(discard = True): DISCARD ALL drops the server's plans too.
Discard ==
    /\ Usable
    /\ clear_prepared
    /\ EndFlags
    /\ \/ in_tx /\ Undo(base) /\ ServerEnd
       \/ ~in_tx /\ UNCHANGED sessionVars
    /\ UNCHANGED <<autocommit, closed, generation>>

set_autocommit(value) ==
    /\ ~in_tx
    /\ autocommit' = value
    /\ UNCHANGED <<sessionVars, flagVars, closed, planVars, generation>>

\* The backend dies; the next statement finds out, marks its transaction aborted if
\* the server said so, and marks the connection.
BackendDies ==
    /\ alive
    /\ alive' = FALSE
    /\ tx' = "none" /\ savepoints' = <<>>
    /\ Undo(base) /\ base' = base
    /\ UNCHANGED <<lastDdl, flagVars, autocommit, closed, planVars, generation>>

NoteLostBackend ==
    /\ ~alive /\ ~closed
    /\ closed' = TRUE
    /\ in_tx' = FALSE /\ aborted' \in {aborted, in_tx}
    /\ UNCHANGED <<sessionVars, ddl_in_tx, autocommit, planVars, generation>>

\* The addon replaces the kernel.
RebuildKernel ==
    /\ generation < MaxGeneration
    /\ generation' = generation + 1
    /\ UNCHANGED <<sessionVars, flagVars, autocommit, closed, planVars>>

-----------------------------------------------------------------------------
(* RustKernel.dispatch: a savepoint, the read, and its release or undo. *)

KernelPlans == IF kernel_generation = generation THEN kernel_stmts ELSE {}

\* The kernel's plans once it has one for the statement.
Planned(sql) ==
    IF \E p \in KernelPlans : p.sql = sql THEN KernelPlans
    ELSE KernelPlans \cup {[sql |-> sql, schema |-> schema]}

\* Answered: the plan was cached or is prepared in the caller's transaction.  What
\* the savepoint's opening and release come to is not looked at, so a read is also
\* answered when a statement's text has ended the transaction.
Dispatch(sql) ==
    /\ Usable /\ ~autocommit
    /\ Unaborted
    /\ ~ \E p \in KernelPlans : p.sql = sql /\ p.schema \in undone
    /\ in_tx' = TRUE
    /\ kernel_generation' = generation
    /\ kernel_stmts' = Planned(sql)
    /\ ServerOk
    /\ UNCHANGED <<aborted, ddl_in_tx, autocommit, closed, stmt_cache, generation>>

\* Refused or failed: the savepoint is rolled back, so the caller's transaction
\* is as it was, and plans are dropped as after any rollback, those prepared on the
\* way too; all of them if the kernel has just learned that it is stale, and one
\* that the DDL of another session has outdated.
DispatchFails ==
    /\ Usable /\ ~autocommit
    /\ in_tx' = TRUE
    /\ stmt_cache' = {}
    /\ kernel_generation' = generation
    /\ \/ kernel_stmts' = {}
       \/ ~ddl_in_tx /\ kernel_stmts' = KernelPlans
       \/ ~ddl_in_tx /\ \E p \in KernelPlans : kernel_stmts' = KernelPlans \ {p}
       \/ /\ ~ddl_in_tx /\ Unaborted
          /\ \E sql \in Statements : kernel_stmts' = Planned(sql)
    /\ ServerOk
    /\ UNCHANGED <<aborted, ddl_in_tx, autocommit, closed, generation>>

-----------------------------------------------------------------------------
\* The statements that the server answers.
Execute ==
    \/ \E sql \in Statements \cup Literals : ExecuteQuery(sql)
    \/ ExecuteDdl \/ ExecuteDrop
    \/ ExecuteSavepoint \/ ExecuteRelease \/ ExecuteRollbackTo
    \/ ExecuteCommit \/ ExecuteBegin \/ ExecuteRollback \/ ExecuteScript

Next ==
    \/ Execute
    \/ (\E sql \in Statements : RefusedOnClient(sql)) \/ ClientError
    \/ Copy \/ SimpleQuery \/ Commit \/ Rollback \/ Discard
    \/ (\E value \in BOOLEAN : set_autocommit(value))
    \/ BackendDies \/ NoteLostBackend \/ RebuildKernel
    \/ (\E sql \in Statements : Dispatch(sql)) \/ DispatchFails

Spec == Init /\ [][Next]_vars

-----------------------------------------------------------------------------
(* Properties. *)

\* Every variable has the shape its code counterpart has.
TypeOK ==
    /\ alive \in BOOLEAN /\ tx \in {"none", "open", "aborted"}
    /\ schema \in Schemas /\ base \in Schemas /\ lastDdl \in Schemas
    /\ savepoints \in Seq(Schemas) /\ Len(savepoints) <= MaxSavepoints
    /\ undone \subseteq Schemas
    /\ in_tx \in BOOLEAN /\ aborted \in BOOLEAN /\ ddl_in_tx \in BOOLEAN
    /\ autocommit \in BOOLEAN /\ closed \in BOOLEAN
    /\ stmt_cache \subseteq Plans /\ kernel_stmts \subseteq Plans
    /\ kernel_generation \in 0..MaxGeneration /\ generation \in 0..MaxGeneration

\* The connection knows whether its session is in a transaction (ensure_tx, end_tx).
TransactionMirrored == Usable => (in_tx <=> tx # "none")

\* The session's transaction is aborted and the connection does not know, so
\* in_failed_transaction calls it sound.
MarkLost == Usable /\ tx = "aborted" /\ ~aborted

\* The connection calls aborted what is not, so in_failed_transaction makes a caller
\* give up a transaction that is sound, or that is over.
MarkInvented == Usable /\ in_tx /\ aborted /\ tx # "aborted"

\* No transaction is left open unnoticed, and no mark outlives the transaction the
\* connection set it in, through every order of statements, errors of the server and
\* of the client, and ends of transactions (ensure_tx, end_tx, track_abort).
FlagsMirrorSession ==
    /\ TypeOK
    /\ Usable => (tx # "none" => in_tx) /\ (aborted => in_tx)

\* Which calls part the flags from the session.  in_tx stays behind only when a
\* statement's text ends the transaction.  "RustConn now marks its transaction aborted
\* when a statement fails there with a server error": a failure goes unmarked only in
\* a COPY or a simple query, which no track_abort follows, and the next statement
\* that the server sees finds it, whatever came between.  A mark is invented only by
\* the 22P02 that the client words, by a COMMIT in a statement's text, or once
\* such a text has ended the transaction that in_tx still stands for.
FlagsPartedOnlyByUntrackedCalls ==
    [][ /\ TransactionMirrored /\ ~TransactionMirrored'
             => ExecuteCommit \/ ExecuteRollback \/ ExecuteScript
        /\ (~MarkLost \/ Execute) /\ MarkLost' => Copy \/ SimpleQuery
        /\ ~MarkInvented /\ MarkInvented'
             => \/ \E sql \in Statements : RefusedOnClient(sql)
                \/ ExecuteCommit \/ ExecuteScript
                \/ ~TransactionMirrored ]_vars

\* No plan outlives the DDL it was prepared against.
NoPlanOutlivesItsSchema ==
    Usable => \A p \in stmt_cache \cup KernelPlans : p.schema \notin undone

\* Whether the DDL came before or after the savepoint, the failure and the plan,
\* and whichever call undoes it, a plan is broken only by a COMMIT, end_tx's or a
\* statement's, that the server answers with a rollback.
PlansBrokenOnlyByCommit ==
    [][NoPlanOutlivesItsSchema /\ ~NoPlanOutlivesItsSchema' => Commit \/ ExecuteCommit]_vars
=============================================================================
