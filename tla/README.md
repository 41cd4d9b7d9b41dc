# A TLA+ development for the Rust ORM kernel

`odoo-rust-orm` answers Odoo reads from a Rust kernel that lives beside Odoo's
own ORM: inside a Python worker (through `engine-py`) or behind an HTTP server.
The kernel must apply Odoo's record rules as exactly as Odoo does, on metadata it
caches, in transactions it shares with code it does not control.  The
modules here model the parts where that can go wrong between two correct
lines: shared snapshots, caches, pools, mirrored session state, rebuilds, the
choice between kernel and Python, and the way from a domain and a policy to the
rows that are answered, which is checked against a reference that rewrites nothing.
They are checked with TLC on small instances; the invariants of the security
snapshot, of both pools, of the HTTP server's rebuilds, of the connection's flags and
plans, of the choice between kernel and Python with its breaker, of the kernel's
initialisation, of the statement cache and of the cached rules are proved with TLAPS for
every instance.

## 1. Inventory

| component | source | state | operations | interacts with |
|---|---|---|---|---|
| security snapshot | `kernel/src/registry.rs`, `kernel/src/orm.rs` | published `Dynamic` and its signalling watermark, `env_cache`, `rule_cache` | `snapshot`, `check_signaling`, `refresh_dynamic`, `stamp_signals`, `build_env`, `identity_rules`, `evict`, `clear` | every dispatch; the database's signalling tables |
| taint | `engine-py/python/rust_orm_shim.py` | `DIRTY_CRS`, `DIRTY_USERS`, `COMMITTED_*` | patched create/write/unlink, commit, rollback, `signal_changes` | Odoo's cursors; decides what is dispatched |
| routing | `rust_orm_shim.py`, `rust_backend.py` | `MODE`, `STATS` (errors per model, quarantine), `_BASELINE.depth` per thread | the eight wrapped reads: `_gate`, `_flush_if_needed`, `_dispatch`, `_record_error`, `_verified_baseline`, `_shadow`, `_quarantine`; the port's `_armed`, `_search_native`; `reset_breaker`, `set_mode` | the ORM, which calls back into the wrapped reads; the operator |
| kernel initialisation | `rust_orm_shim.py`, `addons/rust_engine` | `KERNEL`, `_KERNEL_TRIED_PID`, `_KERNEL_INCOMPLETE`, `_KERNEL_LOCK`, `_KERNEL_BUILDING_THREAD` | `_initialize_kernel_if_ready`, `building`, the hook on `Registry.new` | the export reads through the ORM, which asks for the kernel |
| kernel object | `engine-py/src/kernel.rs` | `stale`, generation, registry | `build`, `dispatch` | runs on the caller's connection, under a savepoint |
| Python connection | `engine-py/src/cursor.rs` | `in_tx`, `aborted`, `ddl_in_tx`, `autocommit`, `closed`, `stmt_cache`, `kernel_stmts`, remembered signals | `execute`, `copy`, `commit`, `rollback`, `reset_session`, `set_autocommit` | mirrors a PostgreSQL session |
| Python connection pool | `engine-py/python/rust_db_shim.py` | idle stack, count out, generation, closed, size, pid | `getconn`, `putconn`, `drain`, `close`, `open`, `resize` | threads of one process; forks of the prefork master |
| HTTP pool | `server/src/http.rs` | free list, semaphore, poisoned sessions | `acquire`, `try_acquire`, `release`, `Lease::drop`, `TxGuard::drop` | tasks that may be dropped at any await |
| HTTP registry rebuild | `server/src/http.rs` | registry, export mtime, stale flag, caches | `handle_call`, `fresh_export`, `rebuild_registry` | the export file, the export command, the operator |
| statement cache | `kernel/src/db.rs` | map with ages, clock | `get`, `insert`, `remove`, `clear` | one per connection and kernel |
| arming and tick | `addons/rust_engine` | `_STATE`, tick thread, switch connection | start, tick, fork hooks | moves `MODE` and `ACTIVE` under open cursors |
| row security | `kernel/src/security.rs`, `registry.rs`, `orm.rs` | the rule sets of identities | access rows, guards, reach and anchors, scopes of groups; access check; the walk over reachable models | reads the user's record and its links; its domains are compiled like a request's |
| domains, SQL | `kernel/src/domain.rs`, `sqlgen.rs`, `fragment.rs`, `sqllex.rs`, `trigram.rs` | columns reported to be flushed | parsing, normalisation, optimisation, complements, conditions, order, groups | output is one statement; rules of comodels go into its subqueries |
| hierarchies | `kernel/src/orm.rs` | memo of one request | `child_of`, `parent_of`, seeds by name | compiled rules freeze their result |
| scan | `kernel/src/scan.rs` | none | pages, labels, redaction, x2many lists, groups, JSON | second statements under the comodels' rules |
| freshness, export | `kernel/src/freshness.rs`, `engine-py/src/export.rs` | none | coverage of an export over a database | decides whether a map may be used |
| native writes | `kernel/src/write.rs`, `engine-py/python/rust_backend.py` | none | UPDATE, INSERT | the host's cache |
| configuration, errors, logs, CLI | the rest | settings | parsing, forwarding | |

What is hard here, and what makes each part correct:

* **Interleaving.** Cursors of several threads refresh, relabel and read one
  snapshot; HTTP tasks interleave at every await; threads sleep on one condition
  variable.  Correct means: an answer rests on metadata that its own
  transaction's snapshot justifies; no connection has two owners; nobody sleeps
  next to a free slot.
* **Staleness.** The snapshot, environments, rules, plans and the model map are
  caches over a database that others change and that the request sees through
  a repeatable-read snapshot older or newer than the cache.
* **Callbacks.**  Rules, labels, flushes and exports run Python code of the ORM,
  which calls the routed reads again, on the same thread, in the middle of one.
* **Partial failure.** Statements, COMMIT, COPY, connects and rebuilds fail, tasks
  are dropped, backends die, processes fork.  Mirrored state must still be right.
* **Rewriting.** A domain is normalised, its complements are pushed down to its
  leaves, related fields, paths and hierarchies are replaced by other conditions,
  and the result runs in a three-valued logic.  Correct means: the rows are those
  the domain says, read in two values, below the reader's rules, and no rewriting
  drops a NULL, an inactive flag, a rule or a report.
* **Boundaries.** Caches at their limits, a clock at the end of its range.

`PROJECT.json` lists each hazard at its line with the properties aimed at it.

## 2. Modules

### `SecuritySnapshot` (with `MCSecuritySnapshot`, `SecuritySnapshot_proofs`)

Threads ("cursors") share one kernel.  Each runs repeatable-read transactions
that write security models, commit, roll back, signal, and route reads.  The
database is a write id per *subject* (each user, and one subject for everything
that is not per user): a value is the id of the write that produced it, so "was
what I am looking at ever committed, and did its signal reach me" is a question
about numbers.  A watermark is a function from signalling tables to ids.

| code | model |
|---|---|
| `Registry::dynamic` (content, signals) | `dynamic`, `holds` (is the caller's `Arc` the published one) |
| `env_cache`, `rule_cache`, `MAX_IDENTITIES` | sets of entries that carry their key; `MaxIdentities` |
| the taint sets of the shim | `DIRTY_CRS`, `DIRTY_USERS`, `COMMITTED_DIRTY`, `COMMITTED_DIRTY_USERS` |
| `RustConn.signals_checked` | `checked`, `memo` |
| `Orm::snapshot` → `check_signaling` → `stamp_signals` or `refresh_dynamic` + `Caches::clear` → `build_env` → `identity_rules` → `evict` | one action per lock or await, ordered by `pc` |
| patched write/commit/rollback/`signal_changes` | `WriteSecurityModel`, `WriteUser`, `Commit`, `Rollback`, `SignalChanges`, `SignalNothing` |
| other workers | `ForeignSignal` |

Nothing ties a signal to the commit before it: a cursor may begin again, write and read between
the two, and others may signal.  `_signalled` lifts the committed taints of every cursor of the
database, so such a signal may come too early for somebody; `uncovered` and `exposed` are
history and keep, cursor by cursor, what was pending then (`NoteCutShort`).  The properties
of the taints are stated up to these two sets and no further.

### `KernelSearch` and what it stands on (with `KernelCaches_proofs`)

A request from its admission to its answer, over a database small enough to be
written down.

| module | code | model |
|---|---|---|
| `Domain` | `domain.rs` | tokens of a prefix list, parsed into a tree; normalisation with its nesting limit |
| `SqlValues` | the database, `trigram.rs` | values, three truth values, comparison, LIKE, the patterns an index is asked with |
| `SqlGen` | `sqlgen.rs` | a condition is what it selects: a truth value per record, the columns it reads and those it reports; `err` for what is refused |
| `RuleSet` | `RuleSet` of `security.rs` | one identity's compiled rules: domains, columns read, models not evaluated, ruled and compiled; a rule set is put together by adding one model's rules at a time |
| `Hierarchy` | `orm.rs` (`resolve_hierarchy`, `seeds_by_name`) | walks by parent links or by `parent_path`, in place of the operators of a domain and of the domains in it |
| `Rules` | `security.rs`, loading in `registry.rs` | access rows, permissions and guards, reach, anchors, companies of groups; names in a rule read for a user; the models a domain reaches |
| `Scan` | `scan.rs`, `read_group` of `orm.rs` | order through links, pages, cells, labels, redaction, lists, groups, counts |
| `Answers` | `orm.rs` (`dispatch_inner`, `build_condition`) | what one step of a request computes: admission, the models whose rules it needs, the answer under compiled rules |
| `KernelSearch` | `orm.rs` (`dispatch_inner`, `identity_rules`) | `Receive`, `CompileModel` once per reachable model, `StatementFails`, `Publish`, `Search`, `Return`; the properties |
| `UncachedSearch` | none | the same requests without a cache and without a walk |
| `SearchReference` | none | what an answer should be |
| `MCKernelSearch` | none | the world and the requests |

`KernelSearch` is the protocol alone: what its steps compute (`Admit`, `RulesFor`, `Reach`, `Reply`, ...) and
what is promised (`Picks`, `Renders`, `Comes`, ...) are constants.  `MCKernelSearch` brings the two
sides together: its configuration gives the first the operators of `Answers`, which are the
code's, and the second those of `SearchReference`.  What a compilation makes of one model's rules is
a value (no restriction, not evaluated, or a domain with the columns it was resolved from), and the
rule set is what `RuleSet` makes of these values one after the other.

`UncachedSearch` is what `identity_rules` is for: each request is answered under a rule set in which
every model that the request names or another model's rules need has its own rules, as they are
compiled for its reader, with nobody else's in it, or is turned away.  The refinement hides the walk and
the cache: while models are being compiled the abstract kernel is still idle.

The text of the SQL is left out and its meaning kept: a condition is a function
from the records of its model to "T", "F" or "U", so that what the compiler
writes as `NOT`, `IS NOT TRUE`, `COALESCE`, `IN (subquery)` or `LEFT JOIN` is the
operator of that meaning.  `touched` are the columns reported through `ExprCtx::touch`, `reads`
those the statement, and the walks and searches before it, look at; the two are kept apart so that
their difference can be asked for.  A read that the code never reports carries the name of its
statement ("roots", "walk", "followed"), so that it can be told from another read of the same column.  A refusal is a value ("refused"), because the kernel's refusals are
control: Python answers in its place.

`SearchReference` reads a domain token by token and record by record, in two
truth values, without any rewriting: an operator and its complement are each other's
negation, an absent value is the falsy one of its type, a link is followed and not
joined, a rule is asked of each record, an order compares two records.  It shares with
the model only values and fields.  A request the kernel refuses promises nothing, which
is why the requests are chosen so that each refusal of the modelled code happens
beside many answers.

### `HttpPool` (with `HttpPool_proofs`)

`Pool`, `Lease`, `TxGuard` and `dispatch_once`.  The free list and the semaphore
change one after the other, and every await may be a task's last: `Shed` is the
acquire timeout, `ReconnectFails` the failing or dropped reconnect, `Unwind` a
request timeout, a panic or a client that hangs up inside the transaction.  `poison` discards a session;
`ran` records the sessions on which a query ran after their poison.  A session is
named by the slot it serves and by whether it replaced another, so that runs with
many replacements stay finite.

### `HttpServer` (with `HttpServer_proofs`)

`handle_call`, `fresh_export` and `rebuild_registry`, each await a step.  A model
map is the registry sequence it describes, an export file a sequence and an
mtime, an mtime a value only compared for equality.  `Faults` are failed
acquires, failed commands, stale plans and hang-ups; `HasCmd` says whether
`RUSTORM_EXPORT_CMD` may be set.  The security watermark stands still here: it is the
subject of `SecuritySnapshot`.

### `StmtCache` and `LruCache` (with `KernelCaches_proofs`)

`StmtCache` is `RecencyMap`: entries carry the tick of their last use, and
`next_tick` renumbers them when the clock is at `u64::MAX` (`MaxClock`).
`LruCache` is what it promises: a recency order without a clock.  The refinement
maps the order to the comparison of ages.  (`MapInit`, `MapNext` and `returned` carry their own
names because the proofs of both caches share a module.)

### `RustConn` (with `RustConn_proofs`)

A connection, the session behind it and the kernel that reads through it.
tokio-postgres reports no transaction status, so the connection mirrors the
session in `in_tx`, `aborted` and `ddl_in_tx`; the model has both sides.  A
schema is the number of the last DDL in effect, a plan the statement and the
schema it was prepared against; a rollback puts the schemas it undoes into
`undone`.  One connection has one user at a time, so a call is one step, and a
dispatch is one step (its savepoint never outlives it).  `Failures` says which
calls the server may refuse besides ordinary statements.

| code | model |
|---|---|
| `execute_statement`, by the statement's text | `ExecuteQuery`, `ExecuteDdl`, `ExecuteDrop`, `ExecuteSavepoint`, `ExecuteRelease`, `ExecuteRollbackTo`, `ExecuteCommit`, `ExecuteBegin`, `ExecuteRollback` |
| several statements in one text | `ExecuteScript` |
| a parameter the client cannot convert | `RefusedOnClient` (an error worded `SQLSTATE:22P02`, after the prepare), `ClientError` (any other) |
| `track_abort` | `Succeeded`, `Failed`, `ClientErrorMarked` |
| `copy`, `exec_simple` | `Copy`, `SimpleQuery`: no `track_abort` follows them |
| `end_tx`, `reset_session` | `Commit`, `Rollback`, `Discard` |

### `Routing` (with `Routing_proofs`)

The eight wrapped reads share one skeleton (gate, flush, dispatch, revive, then
answer, fall back or compare); a call is a frame on its thread's stack and its
place in the skeleton.  Wherever Python code of the ORM runs, the frame may issue
further calls, up to `MaxDepth` and `MaxInner`, on the threads of `Nesting`.

| code | model |
|---|---|
| `_policy_allows`; the rest of `_gate` | `Allows`; a choice in `Gate` |
| `_flush_if_needed`: inner try, outer try | `Deps`, `Prepare` |
| `_request`, `_dispatch` | `Prepare`, `Dispatch` |
| reviving, labels, many2ones | `Post` |
| `MODE != "shadow" and not _is_verification_sampled()` | `ReturnKernel`, `EnterBaseline` |
| `_baseline`, `_verified_baseline`, `_shadow`, `_quarantine` | `LeaveBaseline`, `Quarantine`, `AppendQuarantine` |
| `_record_error` | `RecordError`, `CountWrite`, `CountFirst`: the dictionary is read, written and read again |
| `RustBackend._armed`, `_search_native` | `PortArmed`, `PortNative` |
| `reset_breaker` | `ResetBreaker`, `ResetAll` |
| `_apply_params` → `set_mode`, `set_active`; `pool_factory` | `TickMode`, `TickActive`; `Begin` |

An exception is "refused", "user", "db" or "internal", the classes the code tells
apart; a "db" one may leave the transaction aborted, after which Python code can only
raise (`MustRaise`).  `tx` is the transaction as the server knows it and `marked` what
`in_failed_transaction` answers: a failed COPY aborts the one without the other (`ServerError`),
an error the client words as a server's marks a sound one (`ClientError`), on the threads of `Misled`.
Whether Python may answer is asked of the mark (`CannotAnswer`), and whether it can is a
fact of the transaction.  `faults` and `found` are history: the errors being recorded
and the models found to diverge since the last reset.

### `KernelInit` (with `KernelInit_proofs`)

`_initialize_kernel_if_ready` under `_KERNEL_LOCK`, and the build of the registry
hook under none.  A thread's stack says what it is in the middle of; the export of
a build may ask for the kernel again (`Ask` on top of a build), which
`building_here` must answer before the lock does.  Registries are numbered;
`KERNEL` is the number of the one it was built from.  `overlapped` is history: a
build of the hook met another build.

### `RustPool` (with `MCRustPool`, `RustPool_proofs`)

`_RustPool`.  A `with self._cond` block is a step; connecting, checking and
resetting happen between blocks, and `drain` and `close` take two blocks each.
The condition variable is modelled with its list of waiters: one that has timed
out stays on it until it has the lock, so a notify can be spent on it.  `Fork` leaves
the child, with `inherited` the sockets its parent still uses.

## 3. Runs

| run | instance | checks | states |
|---|---|---|---|
| `snapshot` | 2 cursors, 1 user, 2 changes (security writes, or tables another worker signals on), a security table, signals of assets and of the registry that another worker moves, 1 identity per cache | `ServedCoversSignals`, `ServedAtOwnWatermark`, `TaintedUntilSignalled`, `SharedStateDurable`, `RuleCacheBounded`, `ServedFromOwnMap`, `StampKeepsContent` | 1.6 M |
| `http_pool` | 3 tasks, 2 connections, fair | `SlotsConserved` (`TypeOK`, `NoSlotLost`, `OneOwner`, `PermitGuaranteesConnection`), `StartsOutsideTransaction`, `CancelHitsNobodyElse`, `Served`, `LeasesEnd` | 85 k |
| `http_server_faults` | 2 handlers, 2 upgrades, with and without a command, faults, fair | `AnsweredFromCurrentMap`, `RebuildAlone`, `Responds`, `KeepsServing` | 0.3 M |
| `stmt_cache` | 4 keys, 2 values, capacity 3, clock up to 6 | `ImplementsLru` | 26 k |
| `rust_conn` | 2 statements and a literal, caches of 1, 2 DDLs, 2 savepoints, 2 kernel generations, COPY and COMMIT may fail | `FlagsMirrorSession`, `FlagsPartedOnlyByUntrackedCalls`, `PlansBrokenOnlyByCommit` | 0.34 M |
| `rust_pool` | 3 threads, sizes 1 and 2, 3 connections, a drain, a fork | `SlotsConserved` (`TypeOK`, `SlotsAccounted`, `WithinMax`, `OneOwner`), `NoSleeperForgotten` (`NoLostWakeup`, `CloseWakesAll`), `DrainRetires`, `ParentSocketsKept` | 2.0 M |
| `routing` | 2 threads, one of them nesting calls 2 deep and with a mark that may be wrong, 1 model, breaker at 2, shadow mode, switches | `BaselinesNest` (`TypeOK`, `BaselineIsPython`, `BaselineEnds`), `BreakerTripsInTheEnd`, `NoAnswerAfterDivergence`, `NoFallbackOnMarkedAbort` | 1.8 M |
| `kernel_init` | 3 threads, 3 registries, an export that reads once, fair | `BuildNeverWaitsForItself`, `MarkMatchesBuilds` (`TypeOK`, `MarkNamesBuilder`), `KernelKeepsUp`, `AsksAnswered` | 39 k |
| `kernel_search` | 3 users, about 270 requests, one after the other in any order, one rule cache, fair | `SelectsReference`, `ShowsReadableLinks`, `OrderedThroughLinks`, `GroupsKeepRows`, `FlushCoversReads`, `CachedRulesFresh`, `ImplementsUncached`, `RequestsEnd` | 27 k |
| `http_server_wedge` | 2 handlers, 1 upgrade, no faults | refutes `NotWedged` | |
| `routing_switch` | 1 thread, switches | refutes `SwitchBreaksNoCall` | |
| `grouped_rows` | one request, grouped by a many2many | refutes `GroupedRowsObeyRules` | |

Where a run checks a conjunction, its parts are named in parentheses.  What they say
in words:

* `ServedCoversSignals`: the rules, memberships and user row behind an answer
  include every change whose signal the transaction's snapshot shows.
  `ServedAtOwnWatermark`: they are those of the transaction's own watermark.
  `TaintedUntilSignalled`: from its write to the signal of its commit, no read about what a cursor
  wrote is routed, whatever it commits, rolls back or writes in between and whoever else signals
  after a commit of theirs; only a signal that finds a commit of the cursor unsignalled cuts this
  short.  `SharedStateDurable`: no rule or user row that was never committed gets into what
  cursors share, but for a write that was pending at such a signal.  `StampKeepsContent`: relabelling after an
  irrelevant signal never undoes a refresh it raced.
* `PermitGuaranteesConnection` is the `expect` in `Pool::acquire`; `NoSlotLost`
  that permits and connections are conserved through every drop;
  `StartsOutsideTransaction` that no request inherits the snapshot or the
  aborted transaction of another; `CancelHitsNobodyElse` that the cancel
  `poison()` sends can only reach the query it was meant for.
* `AnsweredFromCurrentMap`: no call is answered by a map other than its
  snapshot's.  `KeepsServing`: with an export command, once faults and
  upgrades stop, calls are answered again.
* `FlagsMirrorSession`: a connection never leaves a transaction open unnoticed, and never takes its
  session for aborted outside one.  `FlagsPartedOnlyByUntrackedCalls` and
  `PlansBrokenOnlyByCommit` say exactly how far the mirror goes: `in_tx` stays behind only when a
  statement's text ends the transaction; an abort goes unmarked only in a COPY or a simple query, and
  the next statement the server sees finds it; a mark is invented only by the client's own 22P02 or
  by a text that ends the transaction; a plan survives its schema only where the server answers a
  COMMIT with a rollback.
* `RebuildAlone`: as long as no rebuild meets another call, a rebuild leaves the
  registry, its recorded mtime, the stale flag and the rule cache consistent,
  wherever it is dropped.  Section 5 and 6 say what happens when one does.
* `BaselineIsPython`: what a baseline computes never comes from the kernel, on any
  level of nested calls; `BaselineEnds`: no exception leaves a thread in its
  baseline.  `NoAnswerAfterDivergence`: from the end of a comparison that found
  a difference to the reset, no call that begins on that model reaches the kernel.
  `BreakerTripsInTheEnd`: races on the error counts delay the breaker by a bounded
  number of errors and no more.  `NoFallbackOnMarkedAbort`: a call the kernel failed is given to
  Python on an aborted transaction only where no mark shows the abort, by a database error on a rust
  connection, and that error is counted against the model (with one exception, named there).
* `SelectsReference`: an answered search selects exactly the records the reference
  selects, and who is denied a model could see none of its records.
  `ShowsReadableLinks`: a row shows the links its reader may see, and nothing of the
  others.  `OrderedThroughLinks`: the order is total, follows links by their
  models' own orders with nulls where they belong, and pages partition it.
  `GroupsKeepRows`: the groups are exactly those the reference puts the selected rows into, with
  their counts: a row under each link its reader may see, under the value at the end of a path, or under
  the empty key where a record of the path is hidden from the reader, and no row is lost.
  `FlushCoversReads`: whatever column a compiled condition, or a walk or search before it, looks at has
  been reported, so Python flushes it first; three reads that no statement reports are left out by
  name (`Unreported`), and other reads of the same columns are not.  `CachedRulesFresh`: rules that an identity's
  requests compiled, cached and extended are those compiled from nothing, with every model
  they reach among them.  `ImplementsUncached`: a request is answered as by a kernel without
  a cache (`UncachedSearch`): under a whole rule set of its reader's own, nothing left out and
  nothing of anybody else's.  (Which of the reader's requests compiled it, and how much more than needed is
  in it, the abstract kernel leaves open.)  `RequestsEnd`: a request is answered, circles between models or not.
* `BuildNeverWaitsForItself`, `MarkNamesBuilder`, `KernelKeepsUp` and
  `AsksAnswered` hold until a build of the hook meets another build, and
  the first three fail after it (Section 6).
* `NoLostWakeup`: while a thread sleeps on a pool that is open, as many threads are awake as
  the smallest size the pool has had leaves slots free; so nobody sleeps next to a slot
  that nobody was woken for.
* `ParentSocketsKept`: a forked child closes a socket of its parent only by a
  drain or a close that comes before its first checkout.
* `DrainRetires`: a checkout begun after a drain returned never gets a connection
  opened before it.

**Bounds.** Two cursors are enough for every race on the published snapshot,
because its writers compare and swap against one other party.  Two changes, which may be two writes of
one cursor, one of each, or a write and another worker's signal, let a cursor write again between its commit and its
signal, which is what cuts a taint short; an uncommitted row reaches a cached identity that way
(Begin, WriteUser, Commit, Begin, WriteUser, the cursor's own signal, a routed read).  An uncommitted
shared write that is also published needs a third, and rests on the proof, as do the
user in the keys of the caches and more than one user.  One identity per cache makes every second insert evict.  Three tasks on two
connections give a waiter while both are leased, and a replaced session may die in its turn.  Two
upgrades let a rebuild read an export that is already old again.  Two DDLs and two savepoints give
DDL before, between and after savepoints, two at a time; more rest on the proof.  Three threads on a pool of two give a sleeper with both
slots out, and on a pool of one two sleepers.  In `routing` the bound of 7 on `faults` is the
property itself: with a breaker at 2 and two threads, one of which can hold two stale counts, 7
errors are the most that fit before the model stays off (with 6 the run fails).  One thread whose mark may part
from its transaction is enough, because marks and transactions are not shared.  One nested level is
what a baseline that calls another read needs.  In `kernel_init` three registries let a late asker
hold the first while the third is built.  A clock of 6 with capacity 3 is rebased every few
operations.

The world of `kernel_search` has six models: tasks with a customer, a parent, tags,
watchers, lines, a company and an owner; customers in a tree with stored paths; tags, lines
that delegate to their task, users and companies.  Every table has a NULL, an absent link, an
inactive record, an empty list and a tie in the place where a rewriting could lose it;
fields are translated, company-dependent, related through one and two links, restricted to
groups, with their own domain or active test.  Three readers (one with permissions only, one with
guards, company scopes and more groups, one with nothing) ask 92 domains, which cover each
operator on each kind of field, its complement and its negation, one below another; some are
asked again in another language and time zone; others are asked by a superuser, by a trusted
caller or with rules Python resolved; pages, orders, groups and counts have requests of
their own.  A property of a rewriting is a statement about one condition, and four records that
differ in each respect a condition can see tell two conditions apart as well as four hundred;
longer domains are built from the same operators.  The rule cache is shared by all the
requests, so they meet it in every state.  Dates are four days of two hours, and an index
pattern is two characters long.

**Symmetry** is used for the cursors of `snapshot` and the threads of `rust_pool`, which check
no liveness; no definition chooses among them.

**Fairness.** `HttpPool`: every task that can take a step by itself is polled
again (tokio's runtime) and a connection attempt ends; timeouts, arrivals and
deaths are not fair.  `HttpServer`: handlers run on and calls keep coming
(weak fairness of each handler's own steps and of `Arrive`); faults, upgrades and the
operator are not fair.  `KernelSearch`: a request that has begun goes on (nothing in its
steps waits); the fairness is written as `[]<>(pc = "idle") \/ []<><<pc # "idle">>_vars`, which
is weak fairness of the steps of a request with what enables them spelled out, so that TLC need
not compute an answer to see that there is one.  Requests need not arrive.  `KernelInit`: builds end, a lock that is free again and
again is got in the end (strong fairness of `Acquire` stands for the queue of
the lock), and the first registry finishes loading; asks and new registries are not fair.

**Deadlock** is checked everywhere but in `kernel_init`, where a process whose
registries are all made and whose every ask is answered at once has nothing
left to do.

## 4. Proofs

`SecuritySnapshot_proofs` proves, for any sets of cursors, users and tables and any bounds
(assumptions: `CursorsAssumption`, which only the last theorem needs, `SubjectsAssumption`,
`TablesAssumption`, `BoundsAssumption`):

* `TypeCorrect`, `ServedMetadataIsCurrent` (`ServedCoversSignals`),
  `ServedMetadataIsOwn` (`ServedAtOwnWatermark`), `ServedOnOwnMap`
  (`ServedFromOwnMap`), `StampsKeepContent` (`StampKeepsContent`);
* `TaintLastsUntilSignal` (`TaintedUntilSignalled`) and `SharedIsDurable` (`SharedStateDurable`), for
  any number of writes and users and every step between a commit and its signal;
* `RuleCacheIsBounded` (`RuleCacheBounded`), for finitely many cursors.

`ServedCoversSignals` speaks of the last step of a dispatch and is far from
inductive.  The invariant `SnapshotInv` adds the reasons, one conjunct each:

* `DatabaseInv`: a signal announces only what is committed, and a transaction's
  data contain everything announced by what it sees;
* `LabelInv`: content labelled with a watermark contains everything announced up
  to that watermark, for the published snapshot, the dispatch's and the
  remembered one;
* `WatermarkInv`: between `check_signaling` and the answer the dispatch's label
  agrees with the transaction's view on the guarded tables;
* `CacheInv`: cached environments and rules contain everything announced up
  to the watermark in their key, also those inserted after a clear;
* `RequestInv`: the same for what the dispatch has picked up.

`MapInv` is a second, independent invariant for `ServedFromOwnMap`.

The taints have two of their own.  `GateInv` relates, cursor by cursor, what it wrote and
has not committed, what it committed and has not signalled, its taints and the marks that
say which of them a signal may lift, up to what is uncovered and exposed: an open transaction's taint
is lifted only by a signal that finds an earlier commit of the cursor unsignalled, and a request past the gate wrote
neither shared nor its own user's rows, or exposed them.  `DurableInv` says that
every number a transaction reads was committed or is its own write, so that what a
request puts into shared state was committed or exposed.  `BoundInv` adds to `RuleCacheBounded`
that the cache is finite, which its cardinality needs.

`KernelCaches_proofs` proves both caches of the kernel.  Of the statement cache,
`CacheStaysBounded` and `AgesAreOrdered` (together `CacheInvariant`: the cache is bounded by its
capacity and the clock by its width, and ages are ordered) and `RefinesLru` (`ImplementsLru`): the
cache with a clock implements `LruCache`, for every capacity and width with
`Capacity + 1 < MaxClock`.  The inductive invariant is that ages are distinct
and at most the clock; `RankOrder` and `AgedFacts` say that the renumbering keeps order,
distinctness and range.  In the refinement the order of the abstract cache is
the comparison of ages, so a rebase is invisible.  The first two are not checked by the run, which
has the refinement: a clock or an eviction gone wrong is already one there.

Of the cached rules it proves, for any requests, registry and compilation (`CompilationAssumption`: what
is made of a model's rules is one of the three values, and only models of the registry are looked at):

* `CacheIsWhole` (`CachedRulesFresh`): every cached rule set is its identity's own and whole.
* `RefinesUncached` (`ImplementsUncached`): the kernel with its cache implements `UncachedSearch`.

Both say that cached rules were compiled for their identity, not that every request of it would compile
the same: Section 6 says where the key leaves something out.

`CachedRulesFresh` is not inductive, because a rule set is whole only at the end of its
walk.  `SearchInv` is `CacheInv` (what it says, in every state) and `WalkInv`: the rules being compiled are the
identity's own, what they need is among them or pending, what the request names is compiled or
pending, and no pending model is compiled.  The last is what makes adding a model's rules exact:
`AddedEntry` says that it gives this model these rules and changes no other's, which is false of
one that is there already.  `BookParts` and `PartsMakeBook` take a rule set apart into its five
fields and back, so that `AddedOwned` (a step of the walk) is an argument about one model at a time.

`HttpPool_proofs` proves, for any finite set of tasks and any size (`RequestsAssumption`,
`SizeAssumption`, `NoConnAssumption`):

* `SlotsAreConserved` (`SlotsConserved`).  The invariant `PoolInv` says what a task owns by where
  it stands: a connection between the pop and the push, a permit from the acquire to the
  release, which encloses them.  `NoSlotLost` is a sum of cardinalities, and `AtStep`
  says what one task's step does to each of them.
* `TasksStartOutside` (`StartsOutsideTransaction`) and `CancelsHitTheirOwn`
  (`CancelHitsNobodyElse`).  The invariant `SessionInv` says that a free connection inside a
  transaction is poisoned, and that one on which a task runs is not.

`HttpServer_proofs` proves, for any finite set of handlers, any number of upgrades and
either setting of `RUSTORM_EXPORT_CMD` (`HttpServerAssumption`):

* `CurrentMap` (`AnsweredFromCurrentMap`), from `CheckedInv`: past `check_signaling` a handler's
  map is the one its snapshot calls for, and every retry goes through the check again.
* `RebuildsAlone` (`RebuildAlone`).  `RebuildMeetsCall` is a predicate of states, and
  `AloneInv` is preserved by a step that neither starts nor ends in it: such a rebuild owns the shared
  state from its first look at the file to the fall of the stale flag.  `FileInv` says that an
  mtime is recorded together with the registry read under it: the mtime was looked up before the
  content was read, so a file replaced in between has another mtime than the one recorded.
  `StaleInv` says that the flag is up only while the registry is behind the database or
  a rebuild has installed its registry and not lowered the flag yet; without it `NotWedged` is
  not inductive.  `MapInv` says that a call's map is the installed one, and that the rule cache is
  empty or of that map.

Both rest on `ShapeInvariant`: no sequence is ahead of the database's, and a rebuild holds what it
has looked up.  `FreshMTime` shows that the mtime given to a new file exists and is known to nobody,
so that comparing mtimes is sound.  Dropping the hypothesis of `RebuildsAlone` makes it false, as the
run `http_server_wedge` shows.

`RustConn_proofs` proves, for any statements, cache sizes, savepoints, generations and
failing calls (`RustConnAssumption`):

* `FlagsMirror` (`FlagsMirrorSession`).  `MirrorInv` adds that savepoints
  exist only inside a transaction and that autocommit is off inside one.
* `FlagsPartedByNamedCalls` (`FlagsPartedOnlyByUntrackedCalls`): every call but the named ones keeps
  flags and session together, and a statement that the server sees finds a lost mark again, from
  whatever state; `AnswerParts` says it of the server's plain answers, `EndTextParts`, `ClientParts` and
  `OtherParts` of the rest.
* `PlansOutlivedOnlyByCommit` (`PlansBrokenOnlyByCommit`), from `SchemaInv`.  A rollback keeps the
  kernel's plans when the transaction ran no DDL, and must then undo none.  `SchemaKnown`: the schemas
  above the one in effect have all been undone; `BaseRight`: a transaction that ran no DDL still has
  the schema it began with; `SavedRight`: savepoints lie between the two, in order, and so a
  rollback to one of them undoes exactly the schemas above it.

`KernelInit_proofs` proves, for any threads, registries and reads of an export
(`KernelInitAssumption`), `MarksMatch` (`MarkMatchesBuilds`), `NoSelfWait` (`BuildNeverWaitsForItself`) and
`KernelNeverRegresses` (`KernelKeepsUp`).  `AloneInv` is the reason for all three: until two builds
have met, a thread is in the middle of at most one thing, since the reads of a build find
its mark and go to Python, and lock and mark name the thread that is.

`Routing_proofs` proves, for any threads, models and depth of nesting (`RoutingAssumption`):

* `BaselinesAreNested` (`BaselinesNest`), from `RoutingInv`: nothing above a baseline on a
  thread's stack is routed or a baseline itself, so that the depth of a thread is one when its
  stack has a baseline and zero when it has none, whatever raised in between.
* `DivergenceIsRemembered` (`NoAnswerAfterDivergence`), from `FoundInv`: a model found to diverge has an
  occurrence in the quarantine, however many threads append it and however a reset removes one.
* `FallbackIsSound` (`NoFallbackOnMarkedAbort`), from `LowerInv` and `DispatchInv`: calls
  nest under Python code only, so a call that returns never gives its thread back to a
  dispatch in progress, and a dispatch begins and ends on a transaction the server calls sound.
* `BreakerTrips` (`BreakerTripsInTheEnd`), for finitely many threads.  Threads that count at once
  overwrite each other, and the count may even fall below the breaker again.  `DebtInv` is
  a potential: the errors recorded and what every place (a level of a thread's stack, only
  the first outside `Nesting`: `Slots`) may still record never exceed `V[0]`.  Once the
  breaker is tripped a place that is not past the gate owes nothing; one that is owes an error
  and the write after it; one about to write a count owes what all places may record from
  the count it writes.  So `V[p]`, the bound once the count is `p`, must be at least
  `K * (1 + V[p + 1])` for `K` places and 0 from the breaker on (`Ladder`).  `V` is a
  parameter of the theorem because it is defined by recursion; it exists for every finite `K`.
* `DefaultBreakerTrips`: for the default breaker of three errors (`DEFAULT_BREAKER`,
  `addons/rust_engine/__init__.py:236`) the ladder is given (`DefaultLadder`), and a model is shut off
  within `K + K^2 + K^3` errors.  The bound need not be tight: with the run's breaker of two and
  three places the ladder is 12, 3, 0, while 7 is exact for that instance.

`RustPool_proofs` proves, for any finite set of threads, any sizes and any number of drains
(`RustPoolAssumption`):

* `SlotsAreConserved` (`SlotsConserved`), from `PoolInv`: a slot is out exactly while a thread stands
  between the two ends of a checkout, and in a process that has not looked at the pool yet no
  thread does, so resetting its count loses nothing.
* `DrainsRetire` (`DrainRetires`), from `GenInv`: the drains that had returned when a thread called
  `getconn`, the generation its checkout starts in, and the generation its connection was opened
  in never decrease along this line.
* `ParentKeepsSockets` (`ParentSocketsKept`): once a process owns the pool no idle connection
  is its parent's.
* `NobodySleepsOn` (`NoSleeperForgotten`), from `WakeInv`: `NoLostWakeup` is not inductive, because a
  thread that has timed out is awake and yet a notify may be spent on it.  The invariant counts only
  those who are awake and off the list: while anyone is on the list, at least as many of them as
  there are free slots.

The few lemmas on sequences that these need (a slice, the sequence without its last element,
taking one element out, and that the rest keeps its members) stand in the module that uses them.

Only model-checked, and why:

* `SelectsReference`, `ShowsReadableLinks`, `OrderedThroughLinks`, `GroupsKeepRows` and
  `FlushCoversReads` of `KernelSearch`: what a domain, a rule or a hierarchy
  computes is defined by recursion over data, which needs an induction the prover cannot make.
  The proofs about cached rules take these computations as parameters; that the operators of `Answers`
  meet `CompilationAssumption` is evaluated by TLC on the run's world;
* the liveness properties `LeasesEnd`, `Served`, `Responds`, `KeepsServing`, `AsksAnswered` and
  `RequestsEnd`: fairness and `ENABLED` are out of the prover's reach;
* the runs that expect a violation, which are counterexamples.

## 5. Findings

* `http_server_wedge`: `fresh_export` raises the stale flag when the export's
  mtime is the recorded one.  A handler that arrives there just after another
  has rebuilt from that file concludes that a fresh, installed export is old, and
  every later call is refused until the file is touched.
* `routing_switch`: connections borrowed while the mode was off are psycopg ones and
  stay so after a switch to on.  The port is armed by the mode alone, and
  `_search_native` asks the connection for `_rust`: the `AttributeError` reaches the
  caller.  (The wrapped reads meet the same error inside their try: they fall
  back and count it against the model, so a switch can trip breakers.)

* `grouped_rows`: grouping by a many2many joins the relation table "narrowed by `column2
  IN` the comodel's ids under ... the comodel's rules" (README.md:3824 of the repository).  The parts
  of that condition are dropped when they are empty, and a rule that folds to
  `FALSE` compiles to the empty disjunction: the reader who may see no record of the comodel is the
  one whose groups name every record of it.

## 6. Observations without a run

Met while modelling, each reproducible by relaxing a named constant or asking
the question of the model:

* `_signalled` (rust_orm_shim.py:1969) clears the committed taints of every cursor of the database,
  whoever signals, and a user's taint with what was written again since.  M3-PLAN.md:2086-2092 of the
  repository gives a taint "the same commit-until-signal lifetime", without exception; what the code keeps of it is
  `TaintedUntilSignalled`, and without the two history sets the properties fail in a few steps.  A
  cursor that has committed a rule change and not signalled it reads through the kernel, which does not know the
  change, as soon as another cursor ends a request with nothing to signal; one that writes a
  user again before its signal has the uncommitted row cached for that identity by its next read.
* A cursor that wrote `res.users` may still route reads as another user.  If a
  security signal is due, `refresh_dynamic` reads memberships through that
  transaction and publishes uncommitted ones: `dynamic.data[u]` need not be
  durable for a user, although M3-PLAN.md 2088 limits the effect to reads made
  as that user.  This is why `SharedStateDurable` speaks of the shared subject
  and of user rows, and not of the published memberships.
* `identity_rules` returns early for a superuser, so environments that `build_env`
  inserted are not evicted on that path; there is no bound on `env_cache` to check.
* A statement without parameters is inserted into the cursor's `stmt_cache`
  without the `MAX_PREPARED` test (`PrepareLiteral`).
* A COPY or a simple query that fails aborts the transaction and leaves no mark
  (`FlagsPartedOnlyByUntrackedCalls` names both for this reason).
* A parameter that the client cannot convert is reported as `SQLSTATE:22P02`, in the words of a server
  error (cursor.rs:1871-1881), and `track_abort` (cursor.rs:1750) marks the transaction aborted, which it
  is not; the mark stands until a rollback, a commit or a ROLLBACK TO.  README.md:3957 of the repository says
  "no mark from a client-side error", and harness/runtime_contract.py:849-853 tests it with an
  error that is not worded so.
* A COMMIT in a statement's text ends the transaction and leaves `in_tx` set
  (`FlagsPartedOnlyByUntrackedCalls` names `ExecuteCommit`); PostgreSQL then runs what follows outside one.
* `end_tx("COMMIT")` drops no plan and forgets that DDL ran.  If PostgreSQL answers
  the COMMIT with a rollback, plans prepared against the undone schema stay
  (`PlansBrokenOnlyByCommit` names `Commit` for this reason), although README.md:3884
  of the repository says that only a rollback can break a plan, and drops it.
* `drain` and `close` do not look at the pid, so a child that calls one of them
  first closes its parent's connections (`ParentSocketsKept` names `Evict`).
* When a rebuild meets another call (`RebuildMeetsCall`), each part of
  `RebuildAlone` can fail: two rebuilds may install in one order and record their
  mtimes in the other, so that a fresh export counts as seen; and a dispatch on the
  old registry may insert its rules after the caches were cleared, under a key that
  does not name the registry.
* `errors_by_model` is updated in two steps.  A thread that read a count before
  another tripped the breaker writes a smaller one over it, which lets the model
  through again; one that read before a reset trips it again without a new error.
* A `reset_breaker` between the count and the look at it (`CountFirst`) makes
  `_record_error` raise `KeyError` to the caller.
* Two threads may append a model to the quarantine twice; `reset_breaker(model)`
  removes one occurrence, and the model stays out until a second reset.
* `_flush_if_needed` turns whatever `_read_dependencies` raises into a refusal, a
  database error included: Python then answers on an aborted transaction
  (`NoFallbackOnMarkedAbort` excepts `deps`), although README.md:3515-3526 of the
  repository says that such an error propagates "as `_flush_if_needed` already
  decided".
* `_python_cannot_answer` asks for the mark.  Where a COPY in the Python code of a call failed and left none, the
  error is counted and Python answers on the aborted transaction, with an `InFailedSqlTransaction` of its own
  in place of the error that ended it; where the client invented a mark, an error that Python could
  recover from propagates instead.
* If a build of the registry hook starts while a request builds under
  `_KERNEL_LOCK`, it takes over the mark, and the next read of the request's export
  waits for the lock its own thread holds.  Ends in the other order leave the mark
  on a thread that builds nothing, and an older kernel may replace a newer one.
* While the hook rebuilds, `KERNEL` is still the old kernel, so reads of the export
  are served by it, although the comment in `_arm_registry_hook` says "must be
  served by python".
* `resize` to a larger size wakes nobody (`floor` in `NoLostWakeup`).
* `ensure_tx` sets `in_tx` before it sends BEGIN (cursor.rs:1409): a BEGIN that a living server
  refused would leave a connection that believes it is in a transaction.
* A connection held across a fork is given back twice in the child, whose count was
  reset (rust_db_shim.py:836); `Fork` happens with none out, as in the prefork master.
* The join of a group path through a many2one drops a `FALSE` rule like that of a
  many2many (sqlgen.rs:1702), for the same reader; the run of the finding asks about the
  many2many only.
* `followed_by_partners` reads `mail.followers` (sqlgen.rs:1983-1990), `seeds_by_name` the active flag of the
  model it searches (orm.rs:966-968), and a walk by path the `parent_path` of its roots (orm.rs:1205-1217 down,
  1271-1279 up, where only the link is reported, orm.rs:1105) without reporting it: the three parts of
  `Unreported`, each of which the run needs.  README.md:4398-4402 of the repository says that the compiler
  records every column its SQL reads, "by construction".  Going down, the prefix condition
  reports `parent_path` again unless no root has a path.
* Compiled rules hold ids a hierarchy operator resolved to, values of the user's
  attributes, and texts compared in the language of the request that compiled them
  (orm.rs:1001, security.rs:247).  They stand until a security signal, whatever happens to the
  hierarchy; the database of `KernelSearch` does not change.
* The key of the cached rules (orm.rs:697) is made of the identity, without the language of the
  request, and a rule's hierarchy may be rooted at a name: `seeds_by_name` (orm.rs:920) looks for it
  in the display names of that language.  Then the rules an identity compiles are not the same for all
  its requests, and which it is answered under depends on who came first.  The rules of the run's world
  root their hierarchies at ids.
* A group path with a dot is not among the models a request names (orm.rs:850 splits at
  ":" only): such a request is refused while the rules of the model it leads to are not
  cached, and answered afterwards.

## 7. Not modelled, and the plan

Left out for good: text of SQL, JSON and COPY encodings, DSN and settings
parsing, logging, TLS and socket set-up, command line: conversions and I/O
without shared state, covered by unit tests of the repository.  `sqllex.rs` scans characters.

In the modelled parts, left out of `KernelSearch`: properties fields, JSON accessors and
date parts; aggregates, `having` and the granularity of dates in `read_group`;
write access and the audit of policies; the environment (`build_env`), which `SecuritySnapshot`
has as one value per user.  A fragment of SQL from Python is the set of ids it selects.

Next, in this order:

1. **Arming and forks** (`addons/rust_engine`): start, tick thread and fork hooks; a
   child never uses its parent's kernel or switch connection.
2. Writes to a hierarchy between two requests of `KernelSearch`, and aggregates.
3. **COPY buffering**, **native writes**, **export freshness**.
4. Proofs: of `Routing`, a bound for the breaker that is exact, as the run's is; of `KernelSearch`,
   that a request is answered once finitely many models are reached (the walk compiles no model
   twice, which `WalkInv` already says).
