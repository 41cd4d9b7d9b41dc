--------------------------- MODULE SecuritySnapshot ---------------------------
(***************************************************************************)
(* How the kernel keeps its security metadata (record rules, access rows,  *)
(* memberships, defaults: registry.rs `Dynamic`) in step with a database   *)
(* that other Odoo workers, and its own host process, keep writing.        *)
(*                                                                         *)
(* Several Python threads ("cursors") share one kernel.  Each runs         *)
(* repeatable-read transactions that may write security models and may     *)
(* route reads through the kernel.  The kernel holds ONE published         *)
(* snapshot (`dynamic`), labelled with the signalling watermark it was     *)
(* read at, and caches per-identity environments and compiled rules under  *)
(* the security part of that watermark.                                    *)
(*                                                                         *)
(* Data abstraction: the security content is one write id per "subject":   *)
(* each user (memberships and user row) and one subject for everything     *)
(* that is not per user (rules, access rows, groups, defaults).  A value   *)
(* is the id of the write that produced it, so "who wrote what I am        *)
(* looking at, and was it ever committed" is a question about numbers.     *)
(***************************************************************************)
EXTENDS Integers, FiniteSets

CONSTANTS
    Cursors,        \* Python cursors, one per worker thread
    Users,          \* res.users ids
    Nobody,         \* the uid of a cursor that is dispatching nothing
    Shared,         \* the subject standing for all non-per-user metadata
    SecTables,      \* registry.rs SECURITY_SIGNAL_TABLES
    OtherTables,    \* signalling tables that carry no security
    Registry,       \* orm_signaling_registry
    MaxIdentities,  \* orm.rs MAX_IDENTITIES
    MaxChanges,     \* bound: security writes plus tables others have signalled on
    ForeignTables,  \* the tables other workers signal on
    SuperModes,     \* the su flags requests carry
    MaxForeign      \* bound: highest id of a table other workers signal on

Subjects == Users \cup {Shared}
Tables == SecTables \cup OtherTables \cup {Registry}

ASSUME CursorsAssumption == IsFiniteSet(Cursors)
ASSUME SubjectsAssumption == Shared \notin Users /\ Nobody \notin Subjects
ASSUME TablesAssumption ==
    /\ Registry \notin SecTables \cup OtherTables
    /\ SecTables \cap OtherTables = {}
    /\ ForeignTables \subseteq OtherTables \cup {Registry}
ASSUME BoundsAssumption ==
    /\ MaxIdentities \in Nat
    /\ MaxChanges \in Nat
    /\ MaxForeign \in Nat
    /\ SuperModes \subseteq BOOLEAN

Content == [Subjects -> Nat]
Signals == [Tables -> Nat]
Dynamic == [data : Content, signals : Signals]

EnvValue == [row : Nat, groups : Nat]
RuleSet == [rules : Nat, row : Nat]
EnvEntry == [uid : Users, signals : [SecTables -> Nat], value : EnvValue]
RuleEntry == [uid : Users, env : EnvValue, signals : [SecTables -> Nat], value : RuleSet]

NoDynamic == [data |-> [s \in Subjects |-> 0], signals |-> [t \in Tables |-> 0]]
NoEnv == [row |-> 0, groups |-> 0]
NoRules == [rules |-> 0, row |-> 0]

VARIABLES
    \* the database
    committed,      \* the committed write of each subject
    durable,        \* ids of all writes that were ever committed
    lastWrite,      \* the last write id handed out
    signals,        \* max(id) of each signalling table
    announced,      \* history: which signal announced which write
    \* each cursor's transaction
    open, data, seen, wrote,
    unsignalled,    \* subjects committed by the cursor, its signal not sent yet
    uncovered,      \* history: subjects pending when somebody else's signal came
    exposed,        \* history: ids of uncommitted writes pending at such a signal
    \* rust_orm_shim.py's taint sets
    DIRTY_CRS, DIRTY_USERS, COMMITTED_DIRTY, COMMITTED_DIRTY_USERS,
    \* the kernel
    dynamic,        \* the published snapshot
    stale,          \* RustKernel.stale
    env_cache, rule_cache,
    \* each cursor's dispatch
    pc, uid, su, dyn, env, rules,
    holds,          \* is the Arc in dyn the published one?
    checked, memo   \* RustConn.signals_checked of the open transaction

dbVars == <<committed, durable, lastWrite, signals, announced>>
txVars == <<open, data, seen, wrote, unsignalled, uncovered, exposed>>
taintVars == <<DIRTY_CRS, DIRTY_USERS, COMMITTED_DIRTY, COMMITTED_DIRTY_USERS>>
kernelVars == <<dynamic, stale, env_cache, rule_cache>>
reqVars == <<uid, su, dyn, env, rules>>
memoVars == <<checked, memo>>
vars == <<dbVars, txVars, taintVars, kernelVars, reqVars, pc, holds, memoVars>>

-----------------------------------------------------------------------------
(* The signalling watermark. *)

GuardedTables == SecTables \cup {Registry}

\* Mutant of snapshot_precedes: only the registry signal is compared.
PrecedesByRegistryOnly(snapshot, current) == snapshot[Registry] < current[Registry]

\* A snapshot whose registry or security signal is behind the published one.
snapshot_precedes(snapshot, current) ==
    \E t \in GuardedTables : snapshot[t] < current[t]

Moved(old, new, tables) == \E t \in tables : old[t] # new[t]

\* Mutant of signal_change: a move of the registry signal goes unnoticed.
RegistryMoveIrrelevant(old, new) ==
    CASE old = new -> "None"
      [] Moved(old, new, SecTables) -> "Security"
      [] OTHER -> "Irrelevant"

signal_change(old, new) ==
    CASE old = new -> "None"
      [] Moved(old, new, {Registry}) -> "Registry"
      [] ~Moved(old, new, {Registry}) /\ Moved(old, new, SecTables) -> "Security"
      [] OTHER -> "Irrelevant"

security_signals(sigs) == [t \in SecTables |-> sigs[t]]

-----------------------------------------------------------------------------
(* The caches: maps as sets of entries, at most one entry per key. *)

\* Mutant of EnvHits: the key lacks the watermark.
EnvHitsAtAnyWatermark(u, sigs) == {x \in env_cache : x.uid = u}

EnvHits(u, sigs) == {x \in env_cache : x.uid = u /\ x.signals = sigs}
RuleHits(u, e, sigs) ==
    {x \in rule_cache : x.uid = u /\ x.env = e /\ x.signals = sigs}

\* Mutant of evict: the bound is off by one.
EvictsOneLate(cache, current) ==
    IF Cardinality(cache) <= MaxIdentities + 1 THEN cache
    ELSE {x \in cache : x.signals = current}

\* Past the bound, superseded watermarks go first; if that is not enough,
\* everything goes.
evict(cache, current) ==
    LET kept == {x \in cache : x.signals = current}
    IN  IF Cardinality(cache) <= MaxIdentities THEN cache
        ELSE IF Cardinality(kept) <= MaxIdentities THEN kept ELSE {}

-----------------------------------------------------------------------------
Init ==
    /\ committed = [s \in Subjects |-> 0]
    /\ durable = {0}
    /\ lastWrite = 0
    /\ signals = [t \in Tables |-> 0]
    /\ announced = {}
    /\ open = [c \in Cursors |-> FALSE]
    /\ data = [c \in Cursors |-> [s \in Subjects |-> 0]]
    /\ seen = [c \in Cursors |-> [t \in Tables |-> 0]]
    /\ wrote = [c \in Cursors |-> {}]
    /\ unsignalled = [c \in Cursors |-> {}]
    /\ uncovered = [c \in Cursors |-> {}]
    /\ exposed = {}
    /\ DIRTY_CRS = {}
    /\ COMMITTED_DIRTY = {}
    /\ DIRTY_USERS = [c \in Cursors |-> {}]
    /\ COMMITTED_DIRTY_USERS = [c \in Cursors |-> {}]
    /\ dynamic = NoDynamic
    /\ stale = FALSE
    /\ env_cache = {}
    /\ rule_cache = {}
    /\ pc = [c \in Cursors |-> "idle"]
    /\ uid = [c \in Cursors |-> Nobody]
    /\ su = [c \in Cursors |-> FALSE]
    /\ dyn = [c \in Cursors |-> NoDynamic]
    /\ env = [c \in Cursors |-> NoEnv]
    /\ rules = [c \in Cursors |-> NoRules]
    /\ holds = [c \in Cursors |-> FALSE]
    /\ checked = [c \in Cursors |-> FALSE]
    /\ memo = [c \in Cursors |-> NoDynamic]

-----------------------------------------------------------------------------
(* The host: transactions, security writes, signals. *)

\* ensure_tx: a repeatable-read transaction opens, tx_serial moves, and the
\* signals memoised for the previous transaction no longer match.
Begin(c) ==
    /\ pc[c] = "idle"
    /\ ~open[c]
    /\ open' = [open EXCEPT ![c] = TRUE]
    /\ data' = [data EXCEPT ![c] = committed]
    /\ seen' = [seen EXCEPT ![c] = signals]
    /\ checked' = [checked EXCEPT ![c] = FALSE]
    /\ memo' = [memo EXCEPT ![c] = NoDynamic]
    /\ UNCHANGED <<dbVars, wrote, unsignalled, uncovered, exposed, taintVars, kernelVars, reqVars, pc, holds>>

\* The transaction is over and so is its view of the database.
EndTx(c) ==
    /\ open' = [open EXCEPT ![c] = FALSE]
    /\ data' = [data EXCEPT ![c] = NoDynamic.data]
    /\ seen' = [seen EXCEPT ![c] = NoDynamic.signals]
    /\ wrote' = [wrote EXCEPT ![c] = {}]

\* What the database has gone through, against the bound of the model.
Changes == lastWrite + Cardinality({t \in ForeignTables : signals[t] > 0})

\* The row may be written: nobody else holds it, and it has not changed since
\* this transaction's snapshot (PostgreSQL's first-updater-wins).
Writable(c, s) ==
    /\ Changes < MaxChanges
    /\ \A d \in Cursors \ {c} : s \notin wrote[d]
    /\ s \in wrote[c] \/ data[c][s] = committed[s]

WriteRow(c, s) ==
    /\ Writable(c, s)
    /\ lastWrite' = lastWrite + 1
    /\ data' = [data EXCEPT ![c][s] = lastWrite + 1]
    /\ wrote' = [wrote EXCEPT ![c] = @ \cup {s}]
    /\ UNCHANGED <<committed, durable, signals, announced, open, seen, unsignalled,
                   uncovered, exposed, kernelVars, reqVars, pc, holds, memoVars>>

\* create/write/unlink of a SECURITY_MODELS record other than res.users.
WriteSecurityModel(c) ==
    /\ pc[c] = "idle" /\ open[c]
    /\ DIRTY_CRS' = DIRTY_CRS \cup {c}
    /\ UNCHANGED <<DIRTY_USERS, COMMITTED_DIRTY, COMMITTED_DIRTY_USERS>>
    /\ WriteRow(c, Shared)

\* A write to res.users taints the written ids only.
WriteUser(c, u) ==
    /\ pc[c] = "idle" /\ open[c]
    /\ DIRTY_USERS' = [DIRTY_USERS EXCEPT ![c] = @ \cup {u}]
    /\ UNCHANGED <<DIRTY_CRS, COMMITTED_DIRTY, COMMITTED_DIRTY_USERS>>
    /\ WriteRow(c, u)

\* commit: the original commit, then _untaint(committed=True).
Commit(c) ==
    /\ pc[c] = "idle" /\ open[c]
    /\ committed' = [s \in Subjects |-> IF s \in wrote[c] THEN data[c][s] ELSE committed[s]]
    /\ durable' = durable \cup {data[c][s] : s \in wrote[c]}
    /\ EndTx(c)
    /\ unsignalled' = [unsignalled EXCEPT ![c] = @ \cup wrote[c]]
    /\ COMMITTED_DIRTY' = COMMITTED_DIRTY \cup ({c} \cap DIRTY_CRS)
    /\ COMMITTED_DIRTY_USERS' = [COMMITTED_DIRTY_USERS EXCEPT ![c] = @ \cup DIRTY_USERS[c]]
    /\ UNCHANGED <<lastWrite, signals, announced, uncovered, exposed, DIRTY_CRS, DIRTY_USERS,
                   kernelVars, reqVars, pc, holds, memoVars>>

\* Mutant of Rollback: the taints of earlier commits go with the transaction's own.
RollbackForgets(c) ==
    /\ pc[c] = "idle" /\ open[c]
    /\ DIRTY_CRS' = DIRTY_CRS \ {c}
    /\ DIRTY_USERS' = [DIRTY_USERS EXCEPT ![c] = {}]
    /\ EndTx(c)
    /\ uncovered' = [uncovered EXCEPT ![c] = @ \cap unsignalled[c]]
    /\ UNCHANGED <<dbVars, unsignalled, exposed, COMMITTED_DIRTY, COMMITTED_DIRTY_USERS,
                   kernelVars, reqVars, pc, holds, memoVars>>

\* rollback: _untaint(committed=False), then the original rollback.
Rollback(c) ==
    /\ pc[c] = "idle" /\ open[c]
    /\ DIRTY_CRS' = IF c \in COMMITTED_DIRTY THEN DIRTY_CRS ELSE DIRTY_CRS \ {c}
    /\ DIRTY_USERS' = [DIRTY_USERS EXCEPT ![c] = COMMITTED_DIRTY_USERS[c]]
    /\ EndTx(c)
    /\ uncovered' = [uncovered EXCEPT ![c] = @ \cap unsignalled[c]]
    /\ UNCHANGED <<dbVars, unsignalled, exposed, COMMITTED_DIRTY, COMMITTED_DIRTY_USERS,
                   kernelVars, reqVars, pc, holds, memoVars>>

\* Mutant of Signalled: taints of transactions that are still open go too.
SignalledForgetsAll ==
    /\ DIRTY_CRS' = {}
    /\ COMMITTED_DIRTY' = {}
    /\ DIRTY_USERS' = [c \in Cursors |-> {}]
    /\ COMMITTED_DIRTY_USERS' = [c \in Cursors |-> {}]

\* _signalled(db_name): whoever signals, every committed taint of the database
\* goes, whichever cursor committed it.
Signalled ==
    /\ DIRTY_CRS' = DIRTY_CRS \ COMMITTED_DIRTY
    /\ COMMITTED_DIRTY' = {}
    /\ DIRTY_USERS' = [c \in Cursors |->
                         IF COMMITTED_DIRTY_USERS[c] = {} THEN DIRTY_USERS[c] ELSE {}]
    /\ COMMITTED_DIRTY_USERS' = [c \in Cursors |-> {}]

\* A signal that comes while a commit of c awaits its own ends c's taints early:
\* all c had pending is uncovered from here on, and what c has not even committed
\* is exposed.
CutShort(c) == unsignalled[c] # {}

NoteCutShort(signaller) ==
    /\ uncovered' = [c \in Cursors |->
         IF ~CutShort(c) THEN uncovered[c]
         ELSE wrote[c] \cup (IF c = signaller THEN {} ELSE unsignalled[c])]
    /\ exposed' = exposed \cup
                    UNION {{data[c][s] : s \in wrote[c]} : c \in {d \in Cursors : CutShort(d)}}

\* registry.signal_changes() at the end of a request: a row in the signalling
\* table if this thread invalidated a cache, and then, either way, _signalled.
SignalChanges(c, t) ==
    /\ pc[c] = "idle"
    /\ unsignalled[c] # {}
    /\ signals' = [signals EXCEPT ![t] = @ + 1]
    /\ announced' = announced \cup
         {[table |-> t, id |-> signals[t] + 1, subject |-> s, write |-> committed[s]] :
             s \in unsignalled[c]}
    /\ unsignalled' = [unsignalled EXCEPT ![c] = {}]
    /\ Signalled
    /\ NoteCutShort(c)
    /\ UNCHANGED <<committed, durable, lastWrite, open, data, seen, wrote,
                   kernelVars, reqVars, pc, holds, memoVars>>

SignalNothing(c) ==
    /\ pc[c] = "idle"
    /\ unsignalled[c] = {}
    /\ Signalled
    /\ NoteCutShort(c)
    /\ UNCHANGED <<dbVars, open, data, seen, wrote, unsignalled, kernelVars, reqVars, pc, holds, memoVars>>

\* A signal of another worker: an assets/templates/routing cache, or the model
\* map itself.
ForeignSignal(t) ==
    /\ signals[t] < MaxForeign
    /\ signals[t] = 0 => Changes < MaxChanges
    /\ signals' = [signals EXCEPT ![t] = @ + 1]
    /\ UNCHANGED <<committed, durable, lastWrite, announced, txVars, taintVars,
                   kernelVars, reqVars, pc, holds, memoVars>>

-----------------------------------------------------------------------------
(* A routed read: gate, RustKernel.dispatch, Orm::dispatch_inner. *)

is_tainted(c, u) == c \in DIRTY_CRS \/ u \in DIRTY_USERS[c]

Goto(c, label) == pc' = [pc EXCEPT ![c] = label]

\* The gate lets the read through and dispatch finds the kernel not stale.
Route(c, u, super) ==
    /\ pc[c] = "idle" /\ open[c]
    /\ ~is_tainted(c, u)
    /\ ~stale
    /\ uid' = [uid EXCEPT ![c] = u]
    /\ su' = [su EXCEPT ![c] = super]
    /\ Goto(c, "snapshot")
    /\ UNCHANGED <<dbVars, txVars, taintVars, kernelVars, dyn, env, rules, holds, memoVars>>

\* dispatch returns, with or without an answer: its locals are gone.
Return(c) ==
    /\ Goto(c, "idle")
    /\ uid' = [uid EXCEPT ![c] = Nobody]
    /\ su' = [su EXCEPT ![c] = FALSE]
    /\ dyn' = [dyn EXCEPT ![c] = NoDynamic]
    /\ env' = [env EXCEPT ![c] = NoEnv]
    /\ rules' = [rules EXCEPT ![c] = NoRules]
    /\ holds' = [holds EXCEPT ![c] = FALSE]

Hold(c, d, published, next) ==
    /\ dyn' = [dyn EXCEPT ![c] = d]
    /\ holds' = [holds EXCEPT ![c] = published]
    /\ Goto(c, next)
    /\ UNCHANGED <<uid, su, env, rules>>

\* snapshot(checked): the transaction already checked its signals once.
Recheck(c) ==
    /\ pc[c] = "snapshot"
    /\ checked[c]
    /\ \/ /\ snapshot_precedes(memo[c].signals, dynamic.signals)
          /\ Return(c)
       \/ /\ ~snapshot_precedes(memo[c].signals, dynamic.signals)
          /\ Hold(c, memo[c], FALSE, "env")
    /\ UNCHANGED <<dbVars, txVars, taintVars, kernelVars, memoVars>>

\* check_signaling: the watermark read in the request's own transaction against
\* the published snapshot's.
Unmoved(c) ==
    \/ ~ \E t \in Tables : seen[c][t] > dynamic.signals[t]
    \/ signal_change(dynamic.signals, seen[c]) = "None"

check_signaling(c) ==
    LET change == signal_change(dynamic.signals, seen[c])
    IN  /\ pc[c] = "snapshot"
        /\ ~checked[c]
        /\ \/ /\ snapshot_precedes(seen[c], dynamic.signals)
              /\ Return(c)
              /\ UNCHANGED stale
           \/ /\ ~snapshot_precedes(seen[c], dynamic.signals)
              /\ \/ Unmoved(c) /\ Hold(c, dynamic, TRUE, "env") /\ UNCHANGED stale
                 \/ /\ ~Unmoved(c) /\ change = "Irrelevant"
                    /\ Hold(c, dynamic, TRUE, "stamp") /\ UNCHANGED stale
                 \/ /\ ~Unmoved(c) /\ change = "Security"
                    /\ Hold(c, dynamic, TRUE, "refresh") /\ UNCHANGED stale
                 \/ /\ ~Unmoved(c) /\ change = "Registry"
                    /\ Return(c) /\ stale' = TRUE
        /\ UNCHANGED <<dbVars, txVars, taintVars, dynamic, env_cache, rule_cache, memoVars>>

\* Mutant of stamp_signals: the published Arc is not compared with the checked one.
StampOverAnything(c) ==
    LET fresh == [dyn[c] EXCEPT !.signals = seen[c]]
    IN  /\ pc[c] = "stamp"
        /\ dynamic' = fresh
        /\ dyn' = [dyn EXCEPT ![c] = fresh]
        /\ holds' = [d \in Cursors |-> d = c]
        /\ Goto(c, "env")
        /\ UNCHANGED <<dbVars, txVars, taintVars, stale, env_cache, rule_cache, uid, su, env, rules, memoVars>>

\* stamp_signals: the checked content under the new watermark, published only if
\* the checked Arc is still the published one.
stamp_signals(c) ==
    LET fresh == [dyn[c] EXCEPT !.signals = seen[c]]
    IN  /\ pc[c] = "stamp"
        /\ dynamic' = IF holds[c] THEN fresh ELSE dynamic
        /\ dyn' = [dyn EXCEPT ![c] = fresh]
        /\ holds' = IF holds[c] THEN [d \in Cursors |-> d = c] ELSE holds
        /\ Goto(c, "env")
        /\ UNCHANGED <<dbVars, txVars, taintVars, stale, env_cache, rule_cache, uid, su, env, rules, memoVars>>

\* refresh_dynamic: everything is reloaded through the request's own
\* transaction and published over whatever is there.
refresh_dynamic(c) ==
    LET fresh == [data |-> data[c], signals |-> seen[c]]
    IN  /\ pc[c] = "refresh"
        /\ dynamic' = fresh
        /\ dyn' = [dyn EXCEPT ![c] = fresh]
        /\ holds' = [d \in Cursors |-> d = c]
        /\ Goto(c, "clear")
        /\ UNCHANGED <<dbVars, txVars, taintVars, stale, env_cache, rule_cache, uid, su, env, rules, memoVars>>

\* caches.clear(): two locks, one after the other.
ClearRules(c) ==
    /\ pc[c] = "clear"
    /\ rule_cache' = {}
    /\ Goto(c, "clear_env")
    /\ UNCHANGED <<dbVars, txVars, taintVars, dynamic, stale, env_cache, reqVars, holds, memoVars>>

ClearEnvs(c) ==
    /\ pc[c] = "clear_env"
    /\ env_cache' = {}
    /\ Goto(c, "env")
    /\ UNCHANGED <<dbVars, txVars, taintVars, dynamic, stale, rule_cache, reqVars, holds, memoVars>>

\* build_env, the environment is cached under (uid, security watermark).
EnvHit(c) ==
    /\ pc[c] = "env"
    /\ \E x \in EnvHits(uid[c], security_signals(dyn[c].signals)) :
         env' = [env EXCEPT ![c] = x.value]
    /\ Goto(c, IF su[c] THEN "reply" ELSE "rules")
    /\ UNCHANGED <<dbVars, txVars, taintVars, kernelVars, uid, su, dyn, rules, holds, memoVars>>

EnvMiss(c) ==
    /\ pc[c] = "env"
    /\ EnvHits(uid[c], security_signals(dyn[c].signals)) = {}
    /\ Goto(c, "fill_env")
    /\ UNCHANGED <<dbVars, txVars, taintVars, kernelVars, reqVars, holds, memoVars>>

\* build_env, the user's row is read in the request's transaction, the
\* memberships come from the snapshot, and both are inserted.
FillEnv(c) ==
    LET sigs == security_signals(dyn[c].signals)
        value == [row |-> data[c][uid[c]], groups |-> dyn[c].data[uid[c]]]
    IN  /\ pc[c] = "fill_env"
        /\ env_cache' = (env_cache \ EnvHits(uid[c], sigs))
                          \cup {[uid |-> uid[c], signals |-> sigs, value |-> value]}
        /\ env' = [env EXCEPT ![c] = value]
        /\ Goto(c, IF su[c] THEN "reply" ELSE "rules")
        /\ UNCHANGED <<dbVars, txVars, taintVars, dynamic, stale, rule_cache, uid, su, dyn, rules,
                       holds, memoVars>>

\* identity_rules, every reachable model is already compiled for this identity.
RulesHit(c) ==
    /\ pc[c] = "rules"
    /\ \E x \in RuleHits(uid[c], env[c], security_signals(dyn[c].signals)) :
         rules' = [rules EXCEPT ![c] = x.value]
    /\ Goto(c, "reply")
    /\ UNCHANGED <<dbVars, txVars, taintVars, kernelVars, uid, su, dyn, env, holds, memoVars>>

RulesMiss(c) ==
    /\ pc[c] = "rules"
    /\ RuleHits(uid[c], env[c], security_signals(dyn[c].signals)) = {}
    /\ Goto(c, "compile")
    /\ UNCHANGED <<dbVars, txVars, taintVars, kernelVars, reqVars, holds, memoVars>>

\* identity_rules, the snapshot's rules are compiled for the user, whose paths
\* are read in the request's transaction; the result is inserted.
CompileRules(c) ==
    LET sigs == security_signals(dyn[c].signals)
        value == [rules |-> dyn[c].data[Shared], row |-> data[c][uid[c]]]
    IN  /\ pc[c] = "compile"
        /\ rule_cache' = (rule_cache \ RuleHits(uid[c], env[c], sigs))
             \cup {[uid |-> uid[c], env |-> env[c], signals |-> sigs, value |-> value]}
        /\ rules' = [rules EXCEPT ![c] = value]
        /\ Goto(c, "evict")
        /\ UNCHANGED <<dbVars, txVars, taintVars, dynamic, stale, env_cache, uid, su, dyn, env,
                       holds, memoVars>>

Evict(c) ==
    /\ pc[c] = "evict"
    /\ rule_cache' = evict(rule_cache, security_signals(dyn[c].signals))
    /\ env_cache' = evict(env_cache, security_signals(dyn[c].signals))
    /\ Goto(c, "reply")
    /\ UNCHANGED <<dbVars, txVars, taintVars, dynamic, stale, reqVars, holds, memoVars>>

\* The answer goes out; remember_signals keeps the snapshot for the
\* transaction's next dispatch.
Reply(c) ==
    /\ pc[c] = "reply"
    /\ checked' = [checked EXCEPT ![c] = TRUE]
    /\ memo' = [memo EXCEPT ![c] = IF checked[c] THEN @ ELSE dyn[c]]
    /\ Return(c)
    /\ UNCHANGED <<dbVars, txVars, taintVars, kernelVars>>

\* A dispatch may fail after its snapshot was checked (an access error, a
\* refused model): nothing is remembered.
Fail(c) ==
    /\ pc[c] \in {"env", "fill_env", "rules", "compile", "reply"}
    /\ Return(c)
    /\ UNCHANGED <<dbVars, txVars, taintVars, kernelVars, memoVars>>

-----------------------------------------------------------------------------
Host(c) ==
    \/ Begin(c) \/ WriteSecurityModel(c) \/ (\E u \in Users : WriteUser(c, u))
    \/ Commit(c) \/ Rollback(c)
    \/ (\E t \in SecTables : SignalChanges(c, t)) \/ SignalNothing(c)

Dispatch(c) ==
    \/ (\E u \in Users, super \in SuperModes : Route(c, u, super))
    \/ Recheck(c) \/ check_signaling(c) \/ stamp_signals(c)
    \/ refresh_dynamic(c) \/ ClearRules(c) \/ ClearEnvs(c)
    \/ EnvHit(c) \/ EnvMiss(c) \/ FillEnv(c)
    \/ RulesHit(c) \/ RulesMiss(c) \/ CompileRules(c) \/ Evict(c)
    \/ Reply(c) \/ Fail(c)

Next ==
    \/ \E c \in Cursors : Host(c) \/ Dispatch(c)
    \/ \E t \in ForeignTables : ForeignSignal(t)

Spec == Init /\ [][Next]_vars

-----------------------------------------------------------------------------
(* Properties. *)

Labels == {"idle", "snapshot", "stamp", "refresh", "clear", "clear_env", "env",
           "fill_env", "rules", "compile", "evict", "reply"}

\* Every variable has the shape its code counterpart has.
TypeOK ==
    /\ committed \in Content /\ durable \subseteq Nat /\ lastWrite \in Nat
    /\ signals \in Signals
    /\ announced \subseteq [table : SecTables, id : Nat, subject : Subjects, write : Nat]
    /\ open \in [Cursors -> BOOLEAN] /\ data \in [Cursors -> Content]
    /\ seen \in [Cursors -> Signals] /\ wrote \in [Cursors -> SUBSET Subjects]
    /\ unsignalled \in [Cursors -> SUBSET Subjects]
    /\ uncovered \in [Cursors -> SUBSET Subjects] /\ exposed \subseteq Nat
    /\ DIRTY_CRS \subseteq Cursors /\ COMMITTED_DIRTY \subseteq Cursors
    /\ DIRTY_USERS \in [Cursors -> SUBSET Users]
    /\ COMMITTED_DIRTY_USERS \in [Cursors -> SUBSET Users]
    /\ dynamic \in Dynamic /\ stale \in BOOLEAN
    /\ env_cache \subseteq EnvEntry /\ rule_cache \subseteq RuleEntry
    /\ pc \in [Cursors -> Labels] /\ su \in [Cursors -> BOOLEAN]
    /\ uid \in [Cursors -> Users \cup {Nobody}]
    /\ \A c \in Cursors : pc[c] # "idle" => uid[c] \in Users
    /\ dyn \in [Cursors -> Dynamic] /\ holds \in [Cursors -> BOOLEAN]
    /\ env \in [Cursors -> EnvValue] /\ rules \in [Cursors -> RuleSet]
    /\ checked \in [Cursors -> BOOLEAN] /\ memo \in [Cursors -> Dynamic]

\* What a transaction knows to be announced: the signal is in its snapshot.
Announced(c, s) == {a \in announced : a.subject = s /\ a.id <= seen[c][a.table]}

\* A read is answered from metadata that contains every change its own
\* database snapshot shows as signalled, whether the metadata was loaded,
\* published by another cursor, remembered by the transaction or cached under
\* the watermark (orm.rs check_signaling, build_env, identity_rules).
ServedCoversSignals ==
    \A c \in Cursors : pc[c] = "reply" =>
        /\ \A a \in Announced(c, uid[c]) :
             /\ a.write <= env[c].row /\ a.write <= env[c].groups
             /\ su[c] \/ a.write <= rules[c].row
        /\ \A a \in Announced(c, Shared) :
             /\ a.write <= dyn[c].data[Shared]
             /\ su[c] \/ a.write <= rules[c].rules

\* A read never mixes its transaction's rows with the metadata of another
\* watermark, older or newer (orm.rs snapshot, check_signaling; registry.rs
\* snapshot_precedes).
ServedAtOwnWatermark ==
    \A c \in Cursors : pc[c] = "reply" =>
        \A t \in GuardedTables : dyn[c].signals[t] = seen[c][t]

\* The registry signal the kernel's model map was exported at.
BuiltAt == NoDynamic.signals[Registry]

\* A read never runs on a model map that its own snapshot shows as outdated, though
\* other cursors refresh and relabel the metadata beside the map all the time
\* (orm.rs check_signaling, RegistryStale; kernel.rs stale).
ServedFromOwnMap ==
    \A c \in Cursors : pc[c] = "reply" => seen[c][Registry] = BuiltAt

\* From the write of a security row to the signal of its commit the cursor's reads
\* about it stay with Python, whatever it commits, rolls back or writes again
\* meanwhile and whenever others commit and signal; only a signal that comes between
\* its commit and its own cuts this short, its own signal for what it has written
\* since included (rust_orm_shim.py is_tainted, _untaint, _signalled).
TaintedUntilSignalled ==
    \A c \in Cursors : pc[c] # "idle" =>
        ((wrote[c] \cup unsignalled[c]) \ uncovered[c]) \cap {uid[c], Shared} = {}

\* What cursors share through the kernel about rules, and the user rows cached
\* for an identity, were committed by somebody, unless the uncommitted write was
\* pending when a signal cut its cursor's taints short: no other order of writes,
\* commits, rollbacks, signals and reads loads them into the shared state
\* (rust_orm_shim.py _gate, _untaint, _signalled).
SharedStateDurable ==
    LET Known == durable \cup exposed
    IN  /\ dynamic.data[Shared] \in Known
        /\ \A x \in rule_cache : x.value.rules \in Known /\ x.value.row \in Known
        /\ \A x \in env_cache : x.value.row \in Known

\* The rule cache is over its bound only by the inserts whose eviction is due
\* (orm.rs Caches::evict).
RuleCacheBounded ==
    Cardinality(rule_cache) <= MaxIdentities + Cardinality({c \in Cursors : pc[c] = "evict"})

\* A signal without security moves the published label and nothing else: it
\* never puts older content back over a refresh it raced (registry.rs
\* stamp_signals).
StampKeepsContent ==
    [][\A c \in Cursors : stamp_signals(c) =>
          /\ dynamic'.data = dynamic.data
          /\ security_signals(dynamic'.signals) = security_signals(dynamic.signals)]_vars

-----------------------------------------------------------------------------
(* The inductive strengthening behind ServedCoversSignals and               *)
(* ServedAtOwnWatermark, in parts.                                           *)

\* A watermark some transaction has really read, or an older one.
Reached(sigs) == \A t \in Tables : sigs[t] <= signals[t]

\* Content that contains every change announced at or before its label.
Covers(content, sigs) ==
    \A a \in announced : a.id <= sigs[a.table] => a.write <= content[a.subject]

Labelled(d) == Reached(d.signals) /\ Covers(d.data, d.signals)

\* The database: announcements are of committed writes, rows have one writer,
\* and a writer's version is newer than the committed one.
DatabaseInv ==
    /\ \A a \in announced :
         a.id > 0 /\ a.id <= signals[a.table] /\ a.write <= committed[a.subject]
    /\ \A s \in Subjects : committed[s] <= lastWrite
    /\ \A c \in Cursors : \A s \in Subjects : data[c][s] <= lastWrite
    /\ \A c \in Cursors : \A s \in wrote[c] : committed[s] <= data[c][s]
    /\ \A c, d \in Cursors : c # d => wrote[c] \cap wrote[d] = {}

\* Every snapshot anywhere is truthfully labelled.
LabelInv ==
    /\ Labelled(dynamic)
    /\ \A c \in Cursors :
         /\ Reached(seen[c]) /\ Covers(data[c], seen[c])
         /\ Labelled(dyn[c])
         /\ Labelled(memo[c])

SameGuarded(s1, s2) == \A t \in GuardedTables : s1[t] = s2[t]

\* A dispatch past its check, and a transaction that has checked, hold the
\* snapshot of the transaction's own watermark.
WatermarkInv ==
    \A c \in Cursors :
        /\ pc[c] # "idle" => open[c]
        /\ pc[c] \notin {"idle", "snapshot", "refresh"} => SameGuarded(dyn[c].signals, seen[c])
        /\ open[c] /\ checked[c] => SameGuarded(memo[c].signals, seen[c])
        /\ holds[c] => dyn[c] = dynamic

\* Cached identities cover what was announced under their key.
CacheInv ==
    /\ \A x \in env_cache :
         /\ \A t \in SecTables : x.signals[t] <= signals[t]
         /\ \A a \in announced : a.subject = x.uid /\ a.id <= x.signals[a.table] =>
              a.write <= x.value.row /\ a.write <= x.value.groups
    /\ \A x \in rule_cache :
         /\ \A t \in SecTables : x.signals[t] <= signals[t]
         /\ \A a \in announced : a.id <= x.signals[a.table] =>
              /\ a.subject = x.uid => a.write <= x.value.row
              /\ a.subject = Shared => a.write <= x.value.rules

\* A dispatch's resolved identity covers what its transaction sees announced.
RequestInv ==
    \A c \in Cursors :
        /\ pc[c] \in {"rules", "compile", "evict"} => ~su[c]
        /\ pc[c] \in {"rules", "compile", "evict", "reply"} =>
             \A a \in Announced(c, uid[c]) : a.write <= env[c].row /\ a.write <= env[c].groups
        /\ pc[c] \in {"evict", "reply"} /\ ~su[c] =>
             /\ \A a \in Announced(c, uid[c]) : a.write <= rules[c].row
             /\ \A a \in Announced(c, Shared) : a.write <= rules[c].rules

\* Nothing carries the label of a model map other than the kernel's, and whoever
\* is about to relabel or reload has seen that the map is current.
MapInv ==
    /\ dynamic.signals[Registry] = BuiltAt
    /\ \A c \in Cursors :
         /\ dyn[c].signals[Registry] = BuiltAt
         /\ memo[c].signals[Registry] = BuiltAt
         /\ pc[c] \in {"stamp", "refresh"} => seen[c][Registry] = BuiltAt

\* Every label in the system is honest and every dispatch past its check holds
\* the metadata of its own watermark: the inductive invariant.
SnapshotInv ==
    TypeOK /\ DatabaseInv /\ LabelInv /\ WatermarkInv /\ CacheInv /\ RequestInv
=============================================================================
