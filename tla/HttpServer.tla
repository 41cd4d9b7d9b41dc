------------------------------ MODULE HttpServer ------------------------------
(***************************************************************************)
(* How the HTTP server keeps its model map in step with the database       *)
(* (server/src/http.rs handle_call, fresh_export, rebuild_registry).       *)
(*                                                                         *)
(* The map is built from an export file.  When `orm_signaling_registry`    *)
(* moves, a dispatch fails with RegistryStale and the handler that got the *)
(* error rebuilds: it looks at the file's mtime, reads the file, checks    *)
(* the sequence the file was taken at against the database, drops the      *)
(* identity caches, installs the registry, records the mtime and clears    *)
(* the stale flag.  Nothing serialises two handlers doing this at once.    *)
(*                                                                         *)
(* Data abstraction: a model map is the registry sequence it describes;    *)
(* the compiled rules of the one identity modelled are the map they were   *)
(* compiled with; an mtime is a value that is only compared for equality,  *)
(* so a new one is any value nobody remembers.  The pool (HttpPool) is an  *)
(* acquire that may fail; the security watermark (SecuritySnapshot), the   *)
(* key of the rule cache, stands still.                                    *)
(***************************************************************************)
EXTENDS Integers, FiniteSets, FiniteSetsExt

CONSTANTS
    Requests,       \* HTTP handlers
    MaxUpgrades,    \* bound: moves of orm_signaling_registry
    HasCmd,         \* whether RUSTORM_EXPORT_CMD may be set, one or both of BOOLEAN
    Faults          \* acquires, commands and plans may fail; clients hang up

ASSUME HttpServerAssumption ==
    /\ IsFiniteSet(Requests)
    /\ MaxUpgrades \in Nat
    /\ HasCmd \subseteq BOOLEAN /\ Faults \in BOOLEAN

Sequences == 0..MaxUpgrades
None == -1

VARIABLES
    sequence,       \* orm_signaling_registry in the database
    file,           \* the export on disk: the sequence it was taken at, its mtime
    registry,       \* AppState.registry
    export_mtime,   \* AppState.export_mtime
    stale,          \* AppState.stale
    rule_cache,     \* AppState.caches, the entry of one identity
    export_cmd,     \* AppState.export_cmd is set
    \* per handler
    pc, phase,      \* which dispatch comes next, or is under way
    mtime, built,   \* rebuild_registry's locals
    map, seen, used \* the dispatch's registry Arc, its snapshot, its rules

serverVars == <<registry, export_mtime, stale, rule_cache>>
rebuildVars == <<mtime, built>>
dispatchVars == <<map, seen, used>>
vars == <<sequence, file, serverVars, export_cmd, pc, phase, rebuildVars, dispatchVars>>

MTimes == 0..(Cardinality(Requests) + 2)
NewMTime == Min(MTimes \ ({file.mtime, export_mtime} \cup {mtime[r] : r \in Requests}))

Goto(r, label) == pc' = [pc EXCEPT ![r] = label]

\* serve: the registry is built from the export before the server listens.
Init ==
    /\ sequence = 0
    /\ file = [seq |-> 0, mtime |-> 0]
    /\ registry = 0
    /\ export_mtime = 0
    /\ stale = FALSE
    /\ rule_cache = None
    /\ export_cmd \in HasCmd
    /\ pc = [r \in Requests |-> "idle"]
    /\ phase = [r \in Requests |-> "first"]
    /\ mtime = [r \in Requests |-> None]
    /\ built = [r \in Requests |-> None]
    /\ map = [r \in Requests |-> None]
    /\ seen = [r \in Requests |-> None]
    /\ used = [r \in Requests |-> None]

\* dispatch_once returns: its locals are gone.
EndDispatch(r) ==
    /\ map' = [map EXCEPT ![r] = None]
    /\ seen' = [seen EXCEPT ![r] = None]
    /\ used' = [used EXCEPT ![r] = None]

\* The handler returns.
Respond(r) ==
    /\ Goto(r, "idle")
    /\ phase' = [phase EXCEPT ![r] = "first"]
    /\ mtime' = [mtime EXCEPT ![r] = None]
    /\ built' = [built EXCEPT ![r] = None]
    /\ EndDispatch(r)

-----------------------------------------------------------------------------
(* The world: module upgrades, and the exports made after them. *)

Upgrade ==
    /\ sequence < MaxUpgrades
    /\ sequence' = sequence + 1
    /\ UNCHANGED <<file, serverVars, export_cmd, pc, phase, rebuildVars, dispatchVars>>

WriteFile == file' = [seq |-> sequence, mtime |-> NewMTime]

SupplyExport ==
    /\ ~export_cmd
    /\ file.seq # sequence
    /\ WriteFile
    /\ UNCHANGED <<sequence, serverVars, export_cmd, pc, phase, rebuildVars, dispatchVars>>

-----------------------------------------------------------------------------
(* handle_call, up to the dispatch. *)

\* An admitted call; the stale flag is read once.
Arrive(r) ==
    /\ pc[r] = "idle"
    /\ phase' = [phase EXCEPT ![r] = IF stale THEN "gate" ELSE "first"]
    /\ Goto(r, IF stale THEN "fresh" ELSE "dispatch")
    /\ UNCHANGED <<sequence, file, serverVars, export_cmd, rebuildVars, dispatchVars>>

\* Mutant of RunExportCmd: the command is not run again while the stale flag is up.
RunExportCmdUnlessStale(r) ==
    /\ pc[r] = "fresh"
    /\ \/ export_cmd /\ ~stale /\ WriteFile
       \/ (~export_cmd \/ stale) /\ UNCHANGED file
    /\ Goto(r, "changed")
    /\ UNCHANGED <<sequence, serverVars, phase, rebuildVars, dispatchVars>>

\* fresh_export: regenerate if a command is configured.
RunExportCmd(r) ==
    /\ pc[r] = "fresh"
    /\ \/ export_cmd /\ WriteFile
       \/ ~export_cmd /\ UNCHANGED file
    /\ Goto(r, "changed")
    /\ UNCHANGED <<sequence, serverVars, phase, rebuildVars, dispatchVars>>

ExportCmdFails(r) ==
    /\ Faults /\ export_cmd
    /\ pc[r] = "fresh"
    /\ Respond(r)
    /\ UNCHANGED <<sequence, file, serverVars>>

\* fresh_export: rebuild if the file's mtime is not the recorded one, refuse and
\* raise the stale flag if it is.
export_changed == file.mtime # export_mtime

TakeFreshExport(r) ==
    /\ pc[r] = "changed"
    /\ export_changed
    /\ Goto(r, "mtime")
    /\ UNCHANGED <<sequence, file, serverVars, phase, rebuildVars, dispatchVars>>

RefuseStale(r) ==
    /\ pc[r] = "changed"
    /\ ~export_changed
    /\ stale' = TRUE
    /\ Respond(r)
    /\ UNCHANGED <<sequence, file, registry, export_mtime, rule_cache>>

-----------------------------------------------------------------------------
(* rebuild_registry. *)

ReadMTime(r) ==
    /\ pc[r] = "mtime"
    /\ mtime' = [mtime EXCEPT ![r] = file.mtime]
    /\ Goto(r, "read")
    /\ UNCHANGED <<sequence, file, serverVars, phase, built, dispatchVars>>

\* build_registry: the file is read and parsed.
ReadExport(r) ==
    /\ pc[r] = "read"
    /\ built' = [built EXCEPT ![r] = file.seq]
    /\ Goto(r, "verify")
    /\ UNCHANGED <<sequence, file, serverVars, phase, mtime, dispatchVars>>

\* from_export: an export of another watermark is refused as stale.
VerifySequence(r) ==
    /\ pc[r] = "verify"
    /\ \/ built[r] = sequence /\ Goto(r, "clear")
          /\ UNCHANGED <<phase, rebuildVars, dispatchVars>>
       \/ built[r] # sequence /\ Respond(r)
    /\ UNCHANGED <<sequence, file, serverVars>>

ClearCaches(r) ==
    /\ pc[r] = "clear"
    /\ rule_cache' = None
    /\ Goto(r, "install")
    /\ UNCHANGED <<sequence, file, registry, export_mtime, stale, phase, rebuildVars, dispatchVars>>

Install(r) ==
    /\ pc[r] = "install"
    /\ registry' = built[r]
    /\ Goto(r, "record")
    /\ UNCHANGED <<sequence, file, export_mtime, stale, rule_cache, phase, rebuildVars, dispatchVars>>

\* Mutant of RecordMTime: the mtime is looked up after the rebuild.
RecordMTimeOfNow(r) ==
    /\ pc[r] = "record"
    /\ export_mtime' = file.mtime
    /\ Goto(r, "unstale")
    /\ UNCHANGED <<sequence, file, registry, stale, rule_cache, phase, rebuildVars, dispatchVars>>

RecordMTime(r) ==
    /\ pc[r] = "record"
    /\ export_mtime' = mtime[r]
    /\ Goto(r, "unstale")
    /\ UNCHANGED <<sequence, file, registry, stale, rule_cache, phase, rebuildVars, dispatchVars>>

\* The flag falls and the call is dispatched, for the first time or again.
Unstale(r) ==
    /\ pc[r] = "unstale"
    /\ stale' = FALSE
    /\ phase' = [phase EXCEPT ![r] = IF @ = "gate" THEN "first" ELSE "retry"]
    /\ mtime' = [mtime EXCEPT ![r] = None]
    /\ built' = [built EXCEPT ![r] = None]
    /\ Goto(r, "dispatch")
    /\ UNCHANGED <<sequence, file, registry, export_mtime, rule_cache, dispatchVars>>

\* No connection for the rebuild, or the client hangs up and the handler is
\* dropped at an await: nothing after that point happens.
RebuildDropped(r) ==
    /\ Faults
    /\ pc[r] \in {"mtime", "read", "verify", "clear", "install"}
    /\ Respond(r)
    /\ UNCHANGED <<sequence, file, serverVars>>

-----------------------------------------------------------------------------
(* dispatch_once, in a task of its own. *)

\* The registry Arc is cloned before a connection is acquired.
TakeRegistry(r) ==
    /\ pc[r] = "dispatch"
    /\ map' = [map EXCEPT ![r] = registry]
    /\ Goto(r, "begin")
    /\ UNCHANGED <<sequence, file, serverVars, phase, rebuildVars, seen, used>>

BeginTx(r) ==
    /\ pc[r] = "begin"
    /\ seen' = [seen EXCEPT ![r] = sequence]
    /\ Goto(r, "check")
    /\ UNCHANGED <<sequence, file, serverVars, phase, rebuildVars, map, used>>

DispatchFails(r) ==
    /\ Faults
    /\ pc[r] \in {"begin", "rules", "compile"}
    /\ Respond(r)
    /\ UNCHANGED <<sequence, file, serverVars>>

\* Mutant of CheckRegistry: the retry is not checked against the signal.
CheckRegistryOnce(r) ==
    /\ pc[r] = "check"
    /\ \/ /\ seen[r] = map[r] \/ phase[r] = "retry"
          /\ Goto(r, "rules") /\ UNCHANGED dispatchVars
       \/ /\ seen[r] > map[r] /\ phase[r] = "first"
          /\ Goto(r, "fresh") /\ EndDispatch(r)
    /\ UNCHANGED <<sequence, file, serverVars, phase, rebuildVars>>

\* check_signaling: the registry signal against the map's; the first RegistryStale
\* sends the handler to rebuild, the second is the answer.  The snapshot never
\* precedes the map, which was built before the transaction began.
CheckRegistry(r) ==
    /\ pc[r] = "check"
    /\ \/ seen[r] = map[r] /\ Goto(r, "rules") /\ UNCHANGED <<phase, rebuildVars, dispatchVars>>
       \/ seen[r] > map[r] /\ phase[r] = "first" /\ Goto(r, "fresh")
          /\ EndDispatch(r) /\ UNCHANGED <<phase, rebuildVars>>
       \/ seen[r] > map[r] /\ phase[r] = "retry" /\ Respond(r)
    /\ UNCHANGED <<sequence, file, serverVars>>

\* identity_rules: cached under the security watermark, or compiled and inserted.
RulesHit(r) ==
    /\ pc[r] = "rules"
    /\ rule_cache # None
    /\ used' = [used EXCEPT ![r] = rule_cache]
    /\ Goto(r, "answer")
    /\ UNCHANGED <<sequence, file, serverVars, phase, rebuildVars, map, seen>>

RulesMiss(r) ==
    /\ pc[r] = "rules"
    /\ rule_cache = None
    /\ Goto(r, "compile")
    /\ UNCHANGED <<sequence, file, serverVars, phase, rebuildVars, dispatchVars>>

CompileRules(r) ==
    /\ pc[r] = "compile"
    /\ rule_cache' = map[r]
    /\ used' = [used EXCEPT ![r] = map[r]]
    /\ Goto(r, "answer")
    /\ UNCHANGED <<sequence, file, registry, export_mtime, stale, phase, rebuildVars, map, seen>>

\* Mutant of StalePlan: a stale plan is retried without limit.
StalePlanAgain(r) ==
    /\ Faults
    /\ pc[r] = "answer"
    /\ Goto(r, "dispatch") /\ EndDispatch(r)
    /\ UNCHANGED <<sequence, file, serverVars, phase, rebuildVars>>

\* A plan went stale under DDL: the first dispatch is repeated whole.
StalePlan(r) ==
    /\ Faults
    /\ pc[r] = "answer" /\ phase[r] = "first"
    /\ phase' = [phase EXCEPT ![r] = "retry"]
    /\ Goto(r, "dispatch") /\ EndDispatch(r)
    /\ UNCHANGED <<sequence, file, serverVars, rebuildVars>>

Answer(r) ==
    /\ pc[r] = "answer"
    /\ Respond(r)
    /\ UNCHANGED <<sequence, file, serverVars>>

-----------------------------------------------------------------------------
Handle(r) ==
    /\ UNCHANGED export_cmd
    /\ \/ RunExportCmd(r) \/ TakeFreshExport(r) \/ RefuseStale(r)
       \/ ReadMTime(r) \/ ReadExport(r) \/ VerifySequence(r)
       \/ ClearCaches(r) \/ Install(r) \/ RecordMTime(r) \/ Unstale(r)
       \/ TakeRegistry(r) \/ BeginTx(r) \/ CheckRegistry(r)
       \/ RulesHit(r) \/ RulesMiss(r) \/ CompileRules(r) \/ Answer(r)

Fault(r) ==
    /\ UNCHANGED export_cmd
    /\ ExportCmdFails(r) \/ RebuildDropped(r) \/ DispatchFails(r) \/ StalePlan(r)

Next ==
    \/ \E r \in Requests : Arrive(r) \/ Handle(r) \/ Fault(r)
    \/ Upgrade \/ SupplyExport

Spec == Init /\ [][Next]_vars

\* Handlers run to their end and calls keep coming.
Fairness == \A r \in Requests : WF_vars(Handle(r)) /\ WF_vars(Arrive(r))

FairSpec == Spec /\ Fairness

-----------------------------------------------------------------------------
(* Properties. *)

Rebuilding == {"fresh", "changed", "mtime", "read", "verify", "clear", "install",
               "record", "unstale"}
Labels == Rebuilding \cup
    {"idle", "dispatch", "begin", "check", "rules", "compile", "answer"}

\* Every variable has the shape its code counterpart has.
TypeOK ==
    /\ sequence \in Sequences /\ registry \in Sequences
    /\ file \in [seq : Sequences, mtime : MTimes]
    /\ export_mtime \in MTimes /\ stale \in BOOLEAN
    /\ rule_cache \in Sequences \cup {None} /\ export_cmd \in HasCmd
    /\ pc \in [Requests -> Labels]
    /\ phase \in [Requests -> {"gate", "first", "retry"}]
    /\ mtime \in [Requests -> MTimes \cup {None}]
    /\ \A f \in {built, map, seen, used} : f \in [Requests -> Sequences \cup {None}]

Quiet == \A r \in Requests : pc[r] = "idle"

\* A stale registry is refused until the export is fresh: with a fresh export on
\* disk and nobody busy, the server is not both refusing everything and
\* convinced that it has already seen the file (fresh_export, rebuild_registry).
NotWedged ==
    ~ (/\ Quiet /\ stale
       /\ file.seq = sequence /\ file.mtime = export_mtime)

\* A handler rebuilds, or is about to, while another is past its choice of a map.
RebuildMeetsCall ==
    \E r, s \in Requests :
        r # s /\ pc[r] \in Rebuilding /\ pc[s] \notin {"idle", "dispatch"}

\* Unless a rebuild meets another call, the recorded mtime is of the file the
\* installed registry came from, though the file may be replaced while it is read;
\* the server is never wedged, though a rebuild may be dropped at any await; and a
\* call is answered with rules compiled for the map it runs on: "every identity
\* cache was dropped" (fresh_export, rebuild_registry).
RebuildAlone ==
    []~RebuildMeetsCall =>
        [](/\ Quiet /\ file.mtime = export_mtime => registry = file.seq
           /\ NotWedged
           /\ \A r \in Requests : pc[r] = "answer" => used[r] = map[r])

\* A call runs on the model map of its own snapshot, before and after retries.
AnsweredFromCurrentMap ==
    \A r \in Requests : pc[r] = "answer" => map[r] = seen[r]

\* With RUSTORM_EXPORT_CMD set the server heals itself: once the database stops
\* moving and nothing fails any more, calls go on being answered, whatever
\* handlers raced and wherever a rebuild was dropped before.
KeepsServing ==
    export_cmd /\ <>[][\A r \in Requests : ~Fault(r)]_vars
        => []<>(\E r \in Requests : pc[r] = "answer")

\* Every call is answered or refused.
Responds == \A r \in Requests : pc[r] # "idle" ~> pc[r] = "idle"
=============================================================================
