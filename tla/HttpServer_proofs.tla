-------------------------- MODULE HttpServer_proofs --------------------------
(***************************************************************************)
(* A call is answered on the model map of its own snapshot; and while no   *)
(* rebuild meets another call, the recorded mtime, the registry, the stale *)
(* flag and the cached rules agree; for any number of handlers.            *)
(*                                                                         *)
(* Why it holds: a call compares its map with its own snapshot.  A rebuild *)
(* that meets no call owns the shared state from the file's mtime to the   *)
(* fall of the stale flag: it began because the registry was behind, the   *)
(* mtime it looked up first is of the file it then read or of an earlier   *)
(* one, and between the drop of the caches and the new registry nobody     *)
(* compiles rules.                                                         *)
(***************************************************************************)
EXTENDS HttpServer, FiniteSetTheorems, WellFoundedInduction, TLAPS

\* Any numbers have a least one.
LEMMA LeastOf ==
    ASSUME NEW S \in SUBSET Nat, S # {}
    PROVE  Min(S) \in S
<1> DEFINE R == OpToRel(<, Nat)
<1>1. IsWellFoundedOn(R, Nat)
    BY NatLessThanWellFounded
<1>2. \A x, y \in Nat : x < y => <<x, y>> \in R
    BY DEF OpToRel
<1> HIDE DEF R
<1>3. PICK x \in S : \A y \in S : <<y, x>> \notin R
    BY <1>1, WFMin
<1>4. ASSUME NEW y \in S PROVE x =< y
  <2>1. x \in Nat /\ y \in Nat /\ ~(y < x)
      BY <1>2, <1>3
  <2> QED BY <2>1
<1>5. \E z \in S : \A y \in S : z =< y
    BY <1>4
<1> QED BY <1>5 DEF Min

\* There is always an mtime that nobody remembers.
LEMMA FreshMTime ==
    ASSUME mtime \in [Requests -> MTimes \cup {None}]
    PROVE  /\ NewMTime \in MTimes /\ NewMTime # file.mtime /\ NewMTime # export_mtime
           /\ \A r \in Requests : NewMTime # mtime[r]
<1> DEFINE known == {mtime[r] : r \in Requests}
           taken == {file.mtime, export_mtime}
           U == taken \cup known
           n == Cardinality(Requests)
<1>1. IsFiniteSet(Requests) /\ n \in Nat
    BY HttpServerAssumption, FS_CardinalityType
<1>2. mtime \in Surjection(Requests, known)
    BY DEF Surjection
<1>3. IsFiniteSet(known) /\ Cardinality(known) <= n /\ Cardinality(known) \in Nat
    BY <1>1, <1>2, FS_Surjection, FS_CardinalityType
<1>4. IsFiniteSet(taken) /\ Cardinality(taken) <= 2 /\ Cardinality(taken) \in Nat
  <2>1. IsFiniteSet({file.mtime}) /\ Cardinality({file.mtime}) = 1
      BY FS_Singleton
  <2>2. taken = {file.mtime} \cup {export_mtime}
      OBVIOUS
  <2>3. /\ IsFiniteSet(taken)
        /\ Cardinality(taken) = IF export_mtime \in {file.mtime} THEN Cardinality({file.mtime})
                                ELSE Cardinality({file.mtime}) + 1
      BY <2>1, <2>2, FS_AddElement
  <2>4. Cardinality(taken) = 1 \/ Cardinality(taken) = 2
      BY <2>1, <2>3
  <2> QED BY <2>3, <2>4
<1> HIDE DEF known, taken
<1>5. IsFiniteSet(U) /\ Cardinality(U) <= n + 2 /\ Cardinality(U) \in Nat
  <2>1. Cardinality(U) = Cardinality(taken) + Cardinality(known) - Cardinality(taken \cap known)
      BY <1>3, <1>4, FS_Union
  <2>2. Cardinality(taken \cap known) \in Nat
      BY <1>4, FS_Intersection, FS_CardinalityType
  <2>3. IsFiniteSet(U) /\ Cardinality(U) \in Nat
      BY <1>3, <1>4, FS_Union, FS_CardinalityType
  <2> HIDE DEF U, n
  <2> QED BY <1>1, <1>3, <1>4, <2>1, <2>2, <2>3
<1>6. IsFiniteSet(MTimes) /\ Cardinality(MTimes) = n + 3 /\ MTimes \in SUBSET Nat
  <2> HIDE DEF n
  <2>1. n + 2 \in Nat /\ MTimes = 0..(n + 2)
      BY <1>1 DEF MTimes, n
  <2>2. /\ 0 \in Int /\ n + 2 \in Int /\ ~(0 > n + 2) /\ n + 2 - 0 + 1 = n + 3
      BY <1>1
  <2>3. IsFiniteSet(0..(n + 2)) /\ Cardinality(0..(n + 2)) = n + 2 - 0 + 1
      BY <2>2, FS_Interval
  <2> QED BY <2>1, <2>2, <2>3
<1> HIDE DEF U
<1>7. MTimes \ U # {}
  <2>1. ASSUME MTimes \ U = {} PROVE FALSE
    <3>1. MTimes \in SUBSET U
        BY <2>1
    <3>2. Cardinality(MTimes) <= Cardinality(U)
        BY <1>5, <3>1, FS_Subset
    <3> HIDE DEF n
    <3> QED BY <1>1, <1>5, <1>6, <3>2
  <2> QED BY <2>1
<1>8. Min(MTimes \ U) \in MTimes \ U
    BY <1>6, <1>7, LeastOf
<1>9. NewMTime \in MTimes \ U
    BY <1>8 DEF NewMTime, U, known, taken
<1> QED BY <1>9 DEF U, known, taken

\* Nothing is of a later registry sequence than the database's.
OrderInv ==
    /\ registry <= sequence /\ file.seq <= sequence
    /\ \A r \in Requests : seen[r] <= sequence /\ built[r] <= sequence

\* A rebuild that has looked at the file holds its mtime, and what it then read.
HeldInv ==
    \A r \in Requests :
        /\ pc[r] \in {"read", "verify", "clear", "install", "record"} => mtime[r] # None
        /\ pc[r] \in {"verify", "clear", "install", "record"} => built[r] # None

ShapeInv == TypeOK /\ OrderInv /\ HeldInv


\* Past the check of the signal, the map is the snapshot's.
CheckedInv == \A r \in Requests : pc[r] \in {"rules", "compile", "answer"} => map[r] = seen[r]

\* Where a handler has chosen its map, where it has found the file to be new, where
\* it has read it, and where the registry it read is installed.
Mapped == {"begin", "check", "rules", "compile", "answer"}
Read == {"verify", "clear", "install", "record"}
Found == {"mtime", "read"} \cup Read
Installed == {"record", "unstale"}

\* While rebuilds meet no call, the recorded mtime and the registry are of one file, ...
FileInv ==
    /\ file.mtime = export_mtime => registry = file.seq
    /\ \A r \in Requests :
          /\ pc[r] \in Found => file.mtime # export_mtime
          /\ pc[r] \in Read /\ mtime[r] = file.mtime => built[r] = file.seq
          /\ pc[r] = "record" => registry = built[r]

\* ... the stale flag is up only while the registry is behind, ...
StaleInv ==
    /\ stale => registry < sequence \/ \E r \in Requests : pc[r] \in Installed
    /\ \A r \in Requests : pc[r] \in Rebuilding \ Installed => registry < sequence

\* ... and the calls and the rule cache are of the registry installed.
MapInv ==
    /\ rule_cache \in {None, registry}
    /\ \A r \in Requests :
          /\ pc[r] \in Mapped => map[r] = registry
          /\ pc[r] = "install" => rule_cache = None
          /\ pc[r] = "answer" => used[r] = map[r]

AloneInv == FileInv /\ StaleInv /\ MapInv

Shared ==
    /\ sequence \in Sequences /\ registry \in Sequences
    /\ file \in [seq : Sequences, mtime : MTimes]
    /\ export_mtime \in MTimes /\ stale \in BOOLEAN
    /\ rule_cache \in Sequences \cup {None} /\ export_cmd \in HasCmd

Locals ==
    /\ pc \in [Requests -> Labels]
    /\ phase \in [Requests -> {"gate", "first", "retry"}]
    /\ mtime \in [Requests -> MTimes \cup {None}]
    /\ built \in [Requests -> Sequences \cup {None}]
    /\ map \in [Requests -> Sequences \cup {None}]
    /\ seen \in [Requests -> Sequences \cup {None}]
    /\ used \in [Requests -> Sequences \cup {None}]

LEMMA TypeParts == TypeOK <=> Shared /\ Locals
BY DEF TypeOK, Shared, Locals

LEMMA LabelSets ==
    Labels = {"fresh", "changed", "mtime", "read", "verify", "clear", "install", "record",
              "unstale", "idle", "dispatch", "begin", "check", "rules", "compile", "answer"}
BY DEF Labels, Rebuilding

LEMMA NumberSets ==
    /\ MaxUpgrades \in Nat /\ Sequences = 0..MaxUpgrades /\ None = -1
    /\ \A q \in Sequences : q \in Nat /\ None <= q
    /\ None \notin Sequences
BY HttpServerAssumption DEF Sequences, None

LEMMA InitShape == Init => ShapeInv /\ CheckedInv
<1> SUFFICES ASSUME Init PROVE ShapeInv /\ CheckedInv
    OBVIOUS
<1>1. 0 \in Sequences /\ 0 \in MTimes
  <2>1. Cardinality(Requests) \in Nat
      BY HttpServerAssumption, FS_CardinalityType
  <2> QED BY <2>1, NumberSets DEF MTimes
<1>2. Shared
    BY <1>1 DEF Init, Shared
<1>3. Locals
    BY LabelSets DEF Init, Locals
<1>4. OrderInv
    BY NumberSets DEF Init, OrderInv
<1> QED BY <1>2, <1>3, <1>4, TypeParts DEF Init, ShapeInv, CheckedInv, HeldInv

\* A handler that returns forgets what it held, and no other's.
LEMMA RespondFacts ==
    ASSUME Locals, NEW r \in Requests, Respond(r)
    PROVE  /\ Locals'
           /\ pc'[r] = "idle" /\ mtime'[r] = None /\ built'[r] = None /\ seen'[r] = None
           /\ \A s \in Requests \ {r} :
                 /\ pc'[s] = pc[s] /\ mtime'[s] = mtime[s] /\ built'[s] = built[s]
                 /\ map'[s] = map[s] /\ seen'[s] = seen[s] /\ used'[s] = used[s]
<1>1. pc' \in [Requests -> Labels] /\ phase' \in [Requests -> {"gate", "first", "retry"}]
    BY LabelSets DEF Respond, Goto, Locals
<1>2. mtime' \in [Requests -> MTimes \cup {None}]
    BY DEF Respond, Locals
<1>3. /\ built' \in [Requests -> Sequences \cup {None}]
      /\ map' \in [Requests -> Sequences \cup {None}]
      /\ seen' \in [Requests -> Sequences \cup {None}]
      /\ used' \in [Requests -> Sequences \cup {None}]
    BY DEF Respond, EndDispatch, Locals
<1>4. pc'[r] = "idle" /\ mtime'[r] = None /\ built'[r] = None /\ seen'[r] = None
    BY DEF Respond, EndDispatch, Goto, Locals
<1>5. \A s \in Requests \ {r} :
         /\ pc'[s] = pc[s] /\ mtime'[s] = mtime[s] /\ built'[s] = built[s]
         /\ map'[s] = map[s] /\ seen'[s] = seen[s] /\ used'[s] = used[s]
    BY DEF Respond, EndDispatch, Goto, Locals
<1> QED BY <1>1, <1>2, <1>3, <1>4, <1>5 DEF Locals

-----------------------------------------------------------------------------
(* The snapshot of an answer.                                              *)

LEMMA NextHeld == Shared /\ Locals /\ HeldInv /\ [Next]_vars => HeldInv'
<1> SUFFICES ASSUME Shared, Locals, HeldInv, [Next]_vars PROVE HeldInv'
    OBVIOUS
<1>1. ASSUME pc' = pc, mtime' = mtime, built' = built PROVE HeldInv'
    BY <1>1 DEF HeldInv
<1>2. ASSUME NEW r \in Requests, Respond(r) PROVE HeldInv'
    BY <1>2, RespondFacts DEF HeldInv
<1>3. ASSUME NEW r \in Requests, NEW l, Goto(r, l), UNCHANGED rebuildVars,
             l \in {"clear", "install", "record"} => pc[r] \in {"verify", "clear", "install"},
             l \notin {"read", "verify"}
      PROVE  HeldInv'
  <2>1. /\ pc'[r] = l /\ \A s \in Requests \ {r} : pc'[s] = pc[s]
        /\ mtime' = mtime /\ built' = built
      BY <1>3 DEF Goto, Locals, rebuildVars
  <2> QED BY <1>3, <2>1 DEF HeldInv
<1>4. CASE UNCHANGED vars
    BY <1>1, <1>4 DEF vars, rebuildVars
<1>5. CASE Upgrade \/ SupplyExport
    BY <1>1, <1>5 DEF Upgrade, SupplyExport, rebuildVars
<1>6. ASSUME NEW r \in Requests, Arrive(r) PROVE HeldInv'
  <2>1. Goto(r, IF stale THEN "fresh" ELSE "dispatch") /\ UNCHANGED rebuildVars
      BY <1>6 DEF Arrive
  <2>2. (IF stale THEN "fresh" ELSE "dispatch") \in {"fresh", "dispatch"}
      OBVIOUS
  <2> DEFINE l == IF stale THEN "fresh" ELSE "dispatch"
  <2> HIDE DEF l
  <2>3. Goto(r, l) /\ l \in {"fresh", "dispatch"}
      BY <2>1, <2>2 DEF l
  <2> QED BY <1>3, <2>1, <2>3
<1>7. ASSUME NEW r \in Requests, Handle(r) PROVE HeldInv'
  <2>1. CASE RunExportCmd(r) \/ TakeFreshExport(r) \/ TakeRegistry(r) \/ BeginTx(r)
      BY <1>3, <2>1 DEF RunExportCmd, TakeFreshExport, TakeRegistry, BeginTx
  <2>2. CASE RefuseStale(r) \/ Answer(r)
      BY <1>2, <2>2 DEF RefuseStale, Answer
  <2>3. CASE ReadMTime(r)
    <3>1. /\ pc'[r] = "read" /\ \A s \in Requests \ {r} : pc'[s] = pc[s] /\ mtime'[s] = mtime[s]
          /\ mtime'[r] = file.mtime /\ built' = built
        BY <2>3 DEF ReadMTime, Goto, Locals
    <3>2. file.mtime # None
      <4>1. Cardinality(Requests) \in Nat /\ file.mtime \in MTimes
          BY HttpServerAssumption, FS_CardinalityType DEF Shared
      <4> QED BY <4>1 DEF MTimes, None
    <3> QED BY <3>1, <3>2 DEF HeldInv
  <2>4. CASE ReadExport(r)
    <3>1. /\ pc'[r] = "verify" /\ \A s \in Requests \ {r} : pc'[s] = pc[s] /\ built'[s] = built[s]
          /\ built'[r] = file.seq /\ mtime' = mtime /\ pc[r] = "read"
        BY <2>4 DEF ReadExport, Goto, Locals
    <3>2. file.seq # None
        BY NumberSets DEF Shared
    <3> QED BY <3>1, <3>2 DEF HeldInv
  <2>5. CASE VerifySequence(r)
      BY <1>2, <1>3, <2>5 DEF VerifySequence
  <2>6. CASE ClearCaches(r) \/ Install(r) \/ RecordMTime(r)
      BY <1>3, <2>6 DEF ClearCaches, Install, RecordMTime
  <2>7. CASE Unstale(r)
    <3>1. /\ pc'[r] = "dispatch"
          /\ \A s \in Requests \ {r} : pc'[s] = pc[s] /\ mtime'[s] = mtime[s] /\ built'[s] = built[s]
        BY <2>7 DEF Unstale, Goto, Locals
    <3> QED BY <3>1 DEF HeldInv
  <2>8. CASE CheckRegistry(r)
      BY <1>2, <1>3, <2>8 DEF CheckRegistry, rebuildVars
  <2>9. CASE RulesHit(r) \/ RulesMiss(r) \/ CompileRules(r)
      BY <1>3, <2>9 DEF RulesHit, RulesMiss, CompileRules
  <2> QED BY <1>7, <2>1, <2>2, <2>3, <2>4, <2>5, <2>6, <2>7, <2>8, <2>9 DEF Handle
<1>8. ASSUME NEW r \in Requests, Fault(r) PROVE HeldInv'
    BY <1>2, <1>3, <1>8 DEF Fault, ExportCmdFails, RebuildDropped, DispatchFails, StalePlan
<1> QED BY <1>4, <1>5, <1>6, <1>7, <1>8 DEF Next

LEMMA NextShape == ShapeInv /\ [Next]_vars => ShapeInv'
<1> SUFFICES ASSUME ShapeInv, [Next]_vars PROVE ShapeInv'
    OBVIOUS
<1> USE LabelSets, NumberSets
<1>1. Shared /\ Locals /\ OrderInv /\ HeldInv /\ HeldInv'
    BY TypeParts, NextHeld DEF ShapeInv
<1>2. ASSUME Shared', Locals', OrderInv' PROVE ShapeInv'
    BY <1>1, <1>2 DEF ShapeInv, TypeOK, Shared, Locals
<1>3. ASSUME NEW r \in Requests, Respond(r), Shared', UNCHANGED <<sequence, file, registry>>
      PROVE  ShapeInv'
  <2>1. Locals'
      BY <1>1, <1>3, RespondFacts
  <2>2. ASSUME NEW s \in Requests PROVE seen'[s] <= sequence' /\ built'[s] <= sequence'
    <3>1. seen'[s] \in {None, seen[s]} /\ built'[s] \in {None, built[s]}
        BY <1>1, <1>3, RespondFacts
    <3>2. seen[s] <= sequence /\ built[s] <= sequence /\ None <= sequence /\ sequence' = sequence
        BY <1>1, <1>3 DEF OrderInv, Shared
    <3> QED BY <3>1, <3>2
  <2>3. OrderInv'
      BY <1>1, <1>3, <2>2 DEF OrderInv
  <2> QED BY <1>2, <1>3, <2>1, <2>3
<1>4. ASSUME WriteFile, UNCHANGED <<sequence, registry, export_mtime, stale, rule_cache, export_cmd,
                                    mtime, built, map, seen, used, phase>>, Locals'
      PROVE  ShapeInv'
  <2>1. NewMTime \in MTimes
      BY <1>1, FreshMTime DEF Locals
  <2>2. file' \in [seq : Sequences, mtime : MTimes] /\ file'.seq = sequence
      BY <1>1, <1>4, <2>1 DEF WriteFile, Shared
  <2>3. Shared'
      BY <1>1, <1>4, <2>2 DEF Shared
  <2>4. OrderInv'
      BY <1>1, <1>4, <2>2 DEF OrderInv, Shared
  <2> QED BY <1>2, <1>4, <2>3, <2>4
<1>5. CASE Upgrade
  <2>1. /\ sequence' = sequence + 1 /\ sequence < MaxUpgrades
        /\ file' = file /\ registry' = registry /\ export_mtime' = export_mtime /\ stale' = stale
        /\ rule_cache' = rule_cache /\ export_cmd' = export_cmd
        /\ pc' = pc /\ phase' = phase /\ mtime' = mtime /\ built' = built /\ map' = map
        /\ seen' = seen /\ used' = used
      BY <1>5 DEF Upgrade, serverVars, rebuildVars, dispatchVars
  <2>2. Shared' /\ Locals'
      BY <1>1, <2>1 DEF Shared, Locals
  <2>3. ASSUME NEW s \in Requests PROVE seen'[s] <= sequence' /\ built'[s] <= sequence'
    <3>1. seen[s] \in Int /\ built[s] \in Int /\ sequence \in Int
        BY <1>1 DEF Locals, Shared
    <3>2. seen[s] <= sequence /\ built[s] <= sequence
        BY <1>1 DEF OrderInv
    <3> QED BY <2>1, <3>1, <3>2
  <2>4. registry' <= sequence' /\ file'.seq <= sequence'
      BY <1>1, <2>1 DEF OrderInv, Shared
  <2> QED BY <1>2, <2>2, <2>3, <2>4 DEF OrderInv
<1>6. CASE SupplyExport
  <2>1. WriteFile /\ UNCHANGED <<sequence, registry, export_mtime, stale, rule_cache, export_cmd,
                                 pc, mtime, built, map, seen, used, phase>>
      BY <1>6 DEF SupplyExport, serverVars, rebuildVars, dispatchVars
  <2>2. Locals'
      BY <1>1, <2>1 DEF Locals
  <2> QED BY <1>4, <2>1, <2>2
<1>7. ASSUME NEW r \in Requests, NEW l \in Labels, Goto(r, l) PROVE pc' \in [Requests -> Labels]
    BY <1>1, <1>7 DEF Goto, Locals
<1>8. ASSUME NEW r \in Requests, EndDispatch(r)
      PROVE  /\ map' \in [Requests -> Sequences \cup {None}]
             /\ seen' \in [Requests -> Sequences \cup {None}]
             /\ used' \in [Requests -> Sequences \cup {None}]
             /\ \A s \in Requests : seen'[s] <= sequence
  <2>1. ASSUME NEW s \in Requests PROVE seen'[s] <= sequence
    <3>1. seen'[s] \in {None, seen[s]} /\ seen[s] <= sequence /\ None <= sequence
        BY <1>1, <1>8 DEF EndDispatch, Locals, OrderInv, Shared
    <3> QED BY <3>1
  <2> QED BY <1>1, <1>8, <2>1 DEF EndDispatch, Locals
<1>9. ASSUME NEW r \in Requests, Arrive(r) PROVE ShapeInv'
  <2>1. Shared' /\ OrderInv'
      BY <1>1, <1>9 DEF Arrive, serverVars, rebuildVars, dispatchVars, Shared, OrderInv
  <2>2. Locals'
      BY <1>1, <1>7, <1>9 DEF Arrive, rebuildVars, dispatchVars, Locals
  <2> QED BY <1>2, <2>1, <2>2
<1>10. ASSUME NEW r \in Requests, Handle(r) PROVE ShapeInv'
  <2>0. export_cmd' = export_cmd
      BY <1>10 DEF Handle
  <2>1. CASE RunExportCmd(r)
    <3>1. Locals' /\ UNCHANGED <<sequence, registry, export_mtime, stale, rule_cache,
                                 mtime, built, map, seen, used, phase>>
        BY <1>1, <1>7, <2>1 DEF RunExportCmd, serverVars, rebuildVars, dispatchVars, Locals
    <3>2. CASE WriteFile
        BY <1>4, <2>0, <3>1, <3>2
    <3>3. CASE UNCHANGED file
        BY <1>1, <1>2, <2>0, <3>1, <3>3 DEF Shared, OrderInv
    <3> QED BY <2>1, <3>2, <3>3 DEF RunExportCmd
  <2>2. CASE TakeFreshExport(r) \/ RulesMiss(r)
    <3>1. Locals' /\ UNCHANGED <<sequence, file, registry, export_mtime, stale, rule_cache, built, seen>>
        BY <1>1, <1>7, <2>2 DEF TakeFreshExport, RulesMiss, serverVars, rebuildVars, dispatchVars, Locals
    <3> QED BY <1>1, <1>2, <2>0, <3>1 DEF Shared, OrderInv
  <2>3. CASE RefuseStale(r) \/ Answer(r)
    <3>1. Respond(r) /\ UNCHANGED <<sequence, file, registry, export_mtime, rule_cache>> /\ stale' \in BOOLEAN
        BY <1>1, <2>3 DEF RefuseStale, Answer, serverVars, Shared
    <3>2. Shared'
        BY <1>1, <2>0, <3>1 DEF Shared
    <3> QED BY <1>3, <3>1, <3>2
  <2>4. CASE ReadMTime(r)
    <3>1. Shared' /\ OrderInv'
        BY <1>1, <2>0, <2>4 DEF ReadMTime, serverVars, dispatchVars, Shared, OrderInv
    <3>2. mtime' \in [Requests -> MTimes \cup {None}]
        BY <1>1, <2>4 DEF ReadMTime, Shared, Locals
    <3>3. Locals'
        BY <1>1, <1>7, <2>4, <3>2 DEF ReadMTime, dispatchVars, Locals
    <3> QED BY <1>2, <3>1, <3>3
  <2>5. CASE ReadExport(r)
    <3>1. built' \in [Requests -> Sequences \cup {None}] /\ \A s \in Requests : built'[s] <= sequence
        BY <1>1, <2>5 DEF ReadExport, Shared, Locals, OrderInv
    <3>2. Shared' /\ OrderInv'
        BY <1>1, <2>0, <2>5, <3>1 DEF ReadExport, serverVars, dispatchVars, Shared, OrderInv
    <3>3. Locals'
        BY <1>1, <1>7, <2>5, <3>1 DEF ReadExport, dispatchVars, Locals
    <3> QED BY <1>2, <3>2, <3>3
  <2>6. CASE VerifySequence(r)
    <3>1. UNCHANGED <<sequence, file, registry, export_mtime, stale, rule_cache>>
        BY <2>6 DEF VerifySequence, serverVars
    <3>2. Shared'
        BY <1>1, <2>0, <3>1 DEF Shared
    <3>3. CASE Respond(r)
        BY <1>3, <3>1, <3>2, <3>3
    <3>4. CASE ~Respond(r)
      <4>1. Locals' /\ UNCHANGED <<built, seen>>
          BY <1>1, <1>7, <2>6, <3>4 DEF VerifySequence, rebuildVars, dispatchVars, Locals
      <4> QED BY <1>1, <1>2, <3>1, <3>2, <4>1 DEF OrderInv
    <3> QED BY <3>3, <3>4
  <2>7. CASE ClearCaches(r) \/ RecordMTime(r)
    <3>1. Locals' /\ UNCHANGED <<sequence, file, registry, stale, built, seen>>
        BY <1>1, <1>7, <2>7 DEF ClearCaches, RecordMTime, rebuildVars, dispatchVars, Locals
    <3>2. mtime[r] \in MTimes \/ pc[r] # "record"
        BY <1>1 DEF Locals, HeldInv
    <3>3. rule_cache' \in {None, rule_cache} /\ export_mtime' \in MTimes
        BY <1>1, <2>7, <3>2 DEF ClearCaches, RecordMTime, Shared
    <3> QED BY <1>1, <1>2, <2>0, <3>1, <3>3 DEF Shared, OrderInv
  <2>8. CASE Install(r)
    <3>1. Locals' /\ UNCHANGED <<sequence, file, export_mtime, stale, rule_cache, built, seen>>
        BY <1>1, <1>7, <2>8 DEF Install, rebuildVars, dispatchVars, Locals
    <3>2. pc[r] = "install" /\ registry' = built[r]
        BY <2>8 DEF Install
    <3>3. built[r] \in Sequences /\ built[r] <= sequence
        BY <1>1, <3>2 DEF Locals, OrderInv, HeldInv
    <3> QED BY <1>1, <1>2, <2>0, <3>1, <3>2, <3>3 DEF Shared, OrderInv
  <2>9. CASE Unstale(r)
    <3>1. Shared' /\ seen' = seen
        BY <1>1, <2>0, <2>9 DEF Unstale, dispatchVars, Shared
    <3>2. /\ mtime' \in [Requests -> MTimes \cup {None}]
          /\ built' \in [Requests -> Sequences \cup {None}]
          /\ phase' \in [Requests -> {"gate", "first", "retry"}]
        BY <1>1, <2>9 DEF Unstale, Locals
    <3>3. Locals'
        BY <1>1, <1>7, <2>9, <3>2 DEF Unstale, dispatchVars, Locals
    <3>4. ASSUME NEW s \in Requests PROVE built'[s] <= sequence
      <4>1. built'[s] \in {None, built[s]} /\ None <= sequence
          BY <1>1, <2>9 DEF Unstale, Locals, Shared
      <4> QED BY <1>1, <4>1 DEF OrderInv
    <3>5. OrderInv'
        BY <1>1, <2>9, <3>1, <3>4 DEF Unstale, OrderInv
    <3> QED BY <1>2, <3>1, <3>3, <3>5
  <2>10. CASE TakeRegistry(r)
    <3>1. Shared' /\ OrderInv'
        BY <1>1, <2>0, <2>10 DEF TakeRegistry, serverVars, rebuildVars, Shared, OrderInv
    <3>2. map' \in [Requests -> Sequences \cup {None}]
        BY <1>1, <2>10 DEF TakeRegistry, Shared, Locals
    <3>3. Locals'
        BY <1>1, <1>7, <2>10, <3>2 DEF TakeRegistry, rebuildVars, Locals
    <3> QED BY <1>2, <3>1, <3>3
  <2>11. CASE BeginTx(r)
    <3>1. seen' \in [Requests -> Sequences \cup {None}] /\ \A s \in Requests : seen'[s] <= sequence
      <4>1. sequence <= sequence
          BY <1>1 DEF Shared
      <4> QED BY <1>1, <2>11, <4>1 DEF BeginTx, Shared, Locals, OrderInv
    <3>2. Shared' /\ OrderInv'
        BY <1>1, <2>0, <2>11, <3>1 DEF BeginTx, serverVars, rebuildVars, Shared, OrderInv
    <3>3. Locals'
        BY <1>1, <1>7, <2>11, <3>1 DEF BeginTx, rebuildVars, Locals
    <3> QED BY <1>2, <3>2, <3>3
  <2>12. CASE CheckRegistry(r)
    <3>1. UNCHANGED <<sequence, file, registry, export_mtime, stale, rule_cache>>
        BY <2>12 DEF CheckRegistry, serverVars
    <3>2. Shared'
        BY <1>1, <2>0, <3>1 DEF Shared
    <3>3. CASE Respond(r)
        BY <1>3, <3>1, <3>2, <3>3
    <3>4. CASE ~Respond(r)
      <4>1. /\ UNCHANGED <<phase, mtime, built>> /\ pc' \in [Requests -> Labels]
            /\ UNCHANGED <<map, seen, used>> \/ EndDispatch(r)
          BY <1>7, <2>12, <3>4 DEF CheckRegistry, rebuildVars, dispatchVars
      <4>2. Locals' /\ \A s \in Requests : seen'[s] <= sequence
          BY <1>1, <1>8, <4>1 DEF Locals, OrderInv
      <4> QED BY <1>1, <1>2, <3>1, <3>2, <4>1, <4>2 DEF OrderInv
    <3> QED BY <3>3, <3>4
  <2>13. CASE RulesHit(r)
    <3>1. Shared' /\ OrderInv'
        BY <1>1, <2>0, <2>13 DEF RulesHit, serverVars, rebuildVars, Shared, OrderInv
    <3>2. used' \in [Requests -> Sequences \cup {None}]
        BY <1>1, <2>13 DEF RulesHit, Shared, Locals
    <3>3. Locals'
        BY <1>1, <1>7, <2>13, <3>2 DEF RulesHit, rebuildVars, Locals
    <3> QED BY <1>2, <3>1, <3>3
  <2>14. CASE CompileRules(r)
    <3>1. used' \in [Requests -> Sequences \cup {None}] /\ rule_cache' \in Sequences \cup {None}
        BY <1>1, <2>14 DEF CompileRules, Locals
    <3>2. Shared' /\ OrderInv'
        BY <1>1, <2>0, <2>14, <3>1 DEF CompileRules, rebuildVars, Shared, OrderInv
    <3>3. Locals'
        BY <1>1, <1>7, <2>14, <3>1 DEF CompileRules, rebuildVars, Locals
    <3> QED BY <1>2, <3>2, <3>3
  <2> QED BY <1>10, <2>1, <2>2, <2>3, <2>4, <2>5, <2>6, <2>7, <2>8, <2>9, <2>10, <2>11, <2>12,
             <2>13, <2>14 DEF Handle
<1>11. ASSUME NEW r \in Requests, Fault(r) PROVE ShapeInv'
  <2>1. UNCHANGED <<sequence, file, registry, export_mtime, stale, rule_cache, export_cmd>>
      BY <1>11 DEF Fault, ExportCmdFails, RebuildDropped, DispatchFails, StalePlan, serverVars
  <2>2. Shared'
      BY <1>1, <2>1 DEF Shared
  <2>3. CASE Respond(r)
      BY <1>3, <2>1, <2>2, <2>3
  <2>4. CASE StalePlan(r)
    <3>1. Locals' /\ UNCHANGED built
        BY <1>1, <1>7, <1>8, <2>4 DEF StalePlan, rebuildVars, Locals
    <3>2. OrderInv'
        BY <1>1, <1>8, <2>1, <2>4, <3>1 DEF StalePlan, OrderInv
    <3> QED BY <1>2, <2>2, <3>1, <3>2
  <2> QED BY <1>11, <2>3, <2>4 DEF Fault, ExportCmdFails, RebuildDropped, DispatchFails
<1>12. CASE UNCHANGED vars
  <2>1. /\ sequence' = sequence /\ file' = file /\ registry' = registry /\ stale' = stale
        /\ export_mtime' = export_mtime /\ rule_cache' = rule_cache /\ export_cmd' = export_cmd
        /\ pc' = pc /\ phase' = phase /\ mtime' = mtime /\ built' = built /\ map' = map
        /\ seen' = seen /\ used' = used
      BY <1>12 DEF vars, serverVars, rebuildVars, dispatchVars
  <2> QED BY <1>1, <1>2, <2>1 DEF Shared, Locals, OrderInv
<1> QED BY <1>5, <1>6, <1>9, <1>10, <1>11, <1>12 DEF Next

LEMMA NextChecked == ShapeInv /\ CheckedInv /\ [Next]_vars => CheckedInv'
<1> SUFFICES ASSUME Locals, CheckedInv, [Next]_vars PROVE CheckedInv'
    BY TypeParts DEF ShapeInv
<1>1. ASSUME UNCHANGED <<map, seen>>, pc' = pc PROVE CheckedInv'
    BY <1>1 DEF CheckedInv
<1>2. ASSUME NEW r \in Requests, Respond(r) PROVE CheckedInv'
    BY <1>2, RespondFacts DEF CheckedInv
<1>3. ASSUME NEW r \in Requests, NEW l, Goto(r, l),
             \A s \in Requests \ {r} : map'[s] = map[s] /\ seen'[s] = seen[s],
             l \in {"rules", "compile", "answer"} => map'[r] = seen'[r]
      PROVE  CheckedInv'
  <2>1. pc'[r] = l /\ \A s \in Requests \ {r} : pc'[s] = pc[s]
      BY <1>3 DEF Goto, Locals
  <2> QED BY <1>3, <2>1 DEF CheckedInv
<1>4. CASE UNCHANGED vars
    BY <1>1, <1>4 DEF vars, dispatchVars
<1>5. CASE Upgrade \/ SupplyExport
    BY <1>1, <1>5 DEF Upgrade, SupplyExport, dispatchVars
<1>6. ASSUME NEW r \in Requests, Arrive(r) PROVE CheckedInv'
  <2> DEFINE l == IF stale THEN "fresh" ELSE "dispatch"
  <2>1. l \in {"fresh", "dispatch"}
      OBVIOUS
  <2>2. Goto(r, l) /\ map' = map /\ seen' = seen
      BY <1>6 DEF Arrive, dispatchVars
  <2> HIDE DEF l
  <2> QED BY <1>3, <2>1, <2>2
<1>7. ASSUME NEW r \in Requests, Handle(r) PROVE CheckedInv'
  <2>1. CASE RefuseStale(r) \/ Answer(r)
      BY <1>2, <2>1 DEF RefuseStale, Answer
  <2>2. CASE VerifySequence(r)
      BY <1>2, <1>3, <2>2 DEF VerifySequence, dispatchVars
  <2>3. CASE RunExportCmd(r) \/ TakeFreshExport(r) \/ ReadMTime(r) \/ ReadExport(r) \/ ClearCaches(r)
             \/ Install(r) \/ RecordMTime(r) \/ Unstale(r)
      BY <1>3, <2>3 DEF RunExportCmd, TakeFreshExport, ReadMTime, ReadExport, ClearCaches, Install,
                        RecordMTime, Unstale, dispatchVars
  <2>4. CASE TakeRegistry(r)
    <3>1. Goto(r, "begin") /\ \A s \in Requests \ {r} : map'[s] = map[s] /\ seen'[s] = seen[s]
        BY <2>4 DEF TakeRegistry, Locals
    <3> QED BY <1>3, <3>1
  <2>5. CASE BeginTx(r)
    <3>1. Goto(r, "check") /\ \A s \in Requests \ {r} : map'[s] = map[s] /\ seen'[s] = seen[s]
        BY <2>5 DEF BeginTx, Locals
    <3> QED BY <1>3, <3>1
  <2>6. CASE CheckRegistry(r)
    <3>1. CASE Goto(r, "rules") /\ seen[r] = map[r] /\ UNCHANGED dispatchVars
        BY <1>3, <3>1 DEF dispatchVars
    <3>2. CASE Goto(r, "fresh") /\ EndDispatch(r)
      <4>1. \A s \in Requests \ {r} : map'[s] = map[s] /\ seen'[s] = seen[s]
          BY <3>2 DEF EndDispatch, Locals
      <4> QED BY <1>3, <3>2, <4>1
    <3> QED BY <1>2, <2>6, <3>1, <3>2 DEF CheckRegistry
  <2>7. CASE RulesHit(r) \/ RulesMiss(r) \/ CompileRules(r)
    <3>1. /\ pc[r] \in {"rules", "compile"} /\ map' = map /\ seen' = seen
          /\ Goto(r, "compile") \/ Goto(r, "answer")
        BY <2>7 DEF RulesHit, RulesMiss, CompileRules, dispatchVars
    <3>2. map[r] = seen[r]
        BY <3>1 DEF CheckedInv
    <3> QED BY <1>3, <3>1, <3>2
  <2> QED BY <1>7, <2>1, <2>2, <2>3, <2>4, <2>5, <2>6, <2>7 DEF Handle
<1>8. ASSUME NEW r \in Requests, Fault(r) PROVE CheckedInv'
  <2>1. CASE StalePlan(r)
    <3>1. Goto(r, "dispatch") /\ \A s \in Requests \ {r} : map'[s] = map[s] /\ seen'[s] = seen[s]
        BY <2>1 DEF StalePlan, EndDispatch, Locals
    <3> QED BY <1>3, <3>1
  <2> QED BY <1>2, <1>8, <2>1 DEF Fault, ExportCmdFails, RebuildDropped, DispatchFails
<1> QED BY <1>4, <1>5, <1>6, <1>7, <1>8 DEF Next

\* The variables keep their shape through rebuilds, retries and dropped handlers.
THEOREM ShapeInvariant == Spec => [](ShapeInv /\ CheckedInv)
<1>1. Init => ShapeInv /\ CheckedInv
    BY InitShape
<1>2. ShapeInv /\ CheckedInv /\ [Next]_vars => ShapeInv' /\ CheckedInv'
    BY NextShape, NextChecked
<1> QED BY <1>1, <1>2, PTL DEF Spec

\* Whatever upgrades, rebuilds and retries come between, a call is answered on the
\* model map of its own snapshot (dispatch_once, check_signaling).
THEOREM CurrentMap == Spec => []AnsweredFromCurrentMap
<1>1. CheckedInv => AnsweredFromCurrentMap
    BY DEF CheckedInv, AnsweredFromCurrentMap
<1> QED BY <1>1, ShapeInvariant, PTL

-----------------------------------------------------------------------------
(* Rebuilds that meet no call.                                             *)

LEMMA Lone ==
    ASSUME ~RebuildMeetsCall, NEW r \in Requests, pc[r] \in Rebuilding, NEW s \in Requests \ {r}
    PROVE  pc[s] \in {"idle", "dispatch"}
BY DEF RebuildMeetsCall

LEMMA GotoFacts ==
    ASSUME Locals, NEW r \in Requests, NEW l, Goto(r, l)
    PROVE  pc'[r] = l /\ \A s \in Requests \ {r} : pc'[s] = pc[s]
BY DEF Locals, Goto

LEMMA NextFile ==
    ASSUME Shared, Locals, FileInv, ~RebuildMeetsCall, [Next]_vars
    PROVE  FileInv'
<1> USE DEF Found, Read
<1>1. ASSUME UNCHANGED <<file, export_mtime, registry, pc, mtime, built>> PROVE FileInv'
    BY <1>1 DEF FileInv
<1>2. ASSUME NEW r \in Requests, Respond(r), UNCHANGED <<file, export_mtime, registry>> PROVE FileInv'
    BY <1>2, RespondFacts DEF FileInv
<1>3. ASSUME NEW r \in Requests, NEW l, Goto(r, l), UNCHANGED <<file, export_mtime, registry>>,
             \A s \in Requests \ {r} : mtime'[s] = mtime[s] /\ built'[s] = built[s], l \notin Found
      PROVE  FileInv'
  <2>1. pc'[r] = l /\ \A s \in Requests \ {r} : pc'[s] = pc[s]
      BY <1>3, GotoFacts
  <2> QED BY <1>3, <2>1 DEF FileInv
<1>4. ASSUME WriteFile, UNCHANGED <<export_mtime, registry, mtime, built>>,
             \A r \in Requests : pc'[r] \in Found => pc'[r] = pc[r]
      PROVE  FileInv'
  <2>1. /\ file'.mtime # export_mtime /\ \A r \in Requests : file'.mtime # mtime[r]
      BY <1>4, FreshMTime DEF WriteFile, Locals
  <2> QED BY <1>4, <2>1 DEF FileInv
<1>5. CASE UNCHANGED vars
    BY <1>1, <1>5 DEF vars, serverVars, rebuildVars
<1>6. CASE Upgrade
    BY <1>1, <1>6 DEF Upgrade, serverVars, rebuildVars
<1>7. CASE SupplyExport
    BY <1>4, <1>7 DEF SupplyExport, serverVars, rebuildVars
<1>8. ASSUME NEW r \in Requests, Arrive(r) PROVE FileInv'
  <2> DEFINE l == IF stale THEN "fresh" ELSE "dispatch"
  <2>1. l \notin Found
      OBVIOUS
  <2>2. Goto(r, l) /\ UNCHANGED <<file, export_mtime, registry, mtime, built>>
      BY <1>8 DEF Arrive, serverVars, rebuildVars
  <2> HIDE DEF l
  <2> QED BY <1>3, <2>1, <2>2
<1>9. ASSUME NEW r \in Requests, Handle(r) PROVE FileInv'
  <2>1. CASE RunExportCmd(r)
    <3>1. Goto(r, "changed") /\ UNCHANGED <<export_mtime, registry, mtime, built>>
        BY <2>1 DEF RunExportCmd, serverVars, rebuildVars
    <3>2. \A s \in Requests : pc'[s] \in Found => pc'[s] = pc[s]
        BY <3>1, GotoFacts
    <3>3. CASE WriteFile
        BY <1>4, <3>1, <3>2, <3>3
    <3>4. CASE UNCHANGED file
        BY <1>3, <3>1, <3>4
    <3> QED BY <2>1, <3>3, <3>4 DEF RunExportCmd
  <2>2. CASE TakeFreshExport(r)
    <3>1. Goto(r, "mtime") /\ UNCHANGED <<file, export_mtime, registry, mtime, built>>
          /\ file.mtime # export_mtime
        BY <2>2 DEF TakeFreshExport, export_changed, serverVars, rebuildVars
    <3>2. pc'[r] = "mtime" /\ \A s \in Requests \ {r} : pc'[s] = pc[s]
        BY <3>1, GotoFacts
    <3> QED BY <3>1, <3>2 DEF FileInv
  <2>3. CASE RefuseStale(r) \/ Answer(r)
      BY <1>2, <2>3 DEF RefuseStale, Answer, serverVars
  <2>4. CASE ReadMTime(r)
    <3>1. /\ Goto(r, "read") /\ UNCHANGED <<file, export_mtime, registry, built>> /\ pc[r] = "mtime"
          /\ \A s \in Requests \ {r} : mtime'[s] = mtime[s]
        BY <2>4 DEF ReadMTime, serverVars, Locals
    <3>2. pc'[r] = "read" /\ \A s \in Requests \ {r} : pc'[s] = pc[s]
        BY <3>1, GotoFacts
    <3> QED BY <3>1, <3>2 DEF FileInv
  <2>5. CASE ReadExport(r)
    <3>1. /\ Goto(r, "verify") /\ UNCHANGED <<file, export_mtime, registry, mtime>> /\ pc[r] = "read"
          /\ built'[r] = file.seq /\ \A s \in Requests \ {r} : built'[s] = built[s]
        BY <2>5 DEF ReadExport, serverVars, Locals
    <3>2. pc'[r] = "verify" /\ \A s \in Requests \ {r} : pc'[s] = pc[s]
        BY <3>1, GotoFacts
    <3> QED BY <3>1, <3>2 DEF FileInv
  <2>6. CASE VerifySequence(r)
    <3>1. CASE Respond(r)
        BY <1>2, <2>6, <3>1 DEF VerifySequence, serverVars
    <3>2. CASE ~Respond(r)
      <4>1. /\ Goto(r, "clear") /\ pc[r] = "verify"
            /\ UNCHANGED <<file, export_mtime, registry, mtime, built>>
          BY <2>6, <3>2 DEF VerifySequence, serverVars, rebuildVars
      <4>2. pc'[r] = "clear" /\ \A s \in Requests \ {r} : pc'[s] = pc[s]
          BY <4>1, GotoFacts
      <4> QED BY <4>1, <4>2 DEF FileInv
    <3> QED BY <3>1, <3>2
  <2>7. CASE ClearCaches(r)
    <3>1. /\ Goto(r, "install") /\ pc[r] = "clear"
          /\ UNCHANGED <<file, export_mtime, registry, mtime, built>>
        BY <2>7 DEF ClearCaches, rebuildVars
    <3>2. pc'[r] = "install" /\ \A s \in Requests \ {r} : pc'[s] = pc[s]
        BY <3>1, GotoFacts
    <3> QED BY <3>1, <3>2 DEF FileInv
  <2>8. CASE Install(r)
    <3>1. /\ Goto(r, "record") /\ pc[r] = "install" /\ registry' = built[r]
          /\ UNCHANGED <<file, export_mtime, mtime, built>>
        BY <2>8 DEF Install, rebuildVars
    <3>2. pc'[r] = "record" /\ \A s \in Requests \ {r} : pc'[s] = pc[s]
        BY <3>1, GotoFacts
    <3>3. \A s \in Requests \ {r} : pc[s] \in {"idle", "dispatch"}
        BY <3>1, Lone DEF Rebuilding
    <3> QED BY <3>1, <3>2, <3>3 DEF FileInv
  <2>9. CASE RecordMTime(r)
    <3>1. /\ Goto(r, "unstale") /\ pc[r] = "record" /\ export_mtime' = mtime[r]
          /\ UNCHANGED <<file, registry, mtime, built>>
        BY <2>9 DEF RecordMTime, rebuildVars
    <3>2. pc'[r] = "unstale" /\ \A s \in Requests \ {r} : pc'[s] = pc[s]
        BY <3>1, GotoFacts
    <3>3. \A s \in Requests \ {r} : pc[s] \in {"idle", "dispatch"}
        BY <3>1, Lone DEF Rebuilding
    <3> QED BY <3>1, <3>2, <3>3 DEF FileInv
  <2>10. CASE Unstale(r)
    <3>1. /\ Goto(r, "dispatch") /\ UNCHANGED <<file, export_mtime, registry>>
          /\ \A s \in Requests \ {r} : mtime'[s] = mtime[s] /\ built'[s] = built[s]
        BY <2>10 DEF Unstale, Locals
    <3> QED BY <1>3, <3>1
  <2>11. CASE TakeRegistry(r) \/ BeginTx(r)
      BY <1>3, <2>11 DEF TakeRegistry, BeginTx, serverVars, rebuildVars
  <2>12. CASE CheckRegistry(r)
      BY <1>2, <1>3, <2>12 DEF CheckRegistry, serverVars, rebuildVars
  <2>13. CASE RulesHit(r) \/ RulesMiss(r) \/ CompileRules(r)
      BY <1>3, <2>13 DEF RulesHit, RulesMiss, CompileRules, serverVars, rebuildVars
  <2> QED BY <1>9, <2>1, <2>2, <2>3, <2>4, <2>5, <2>6, <2>7, <2>8, <2>9, <2>10, <2>11, <2>12,
             <2>13 DEF Handle
<1>10. ASSUME NEW r \in Requests, Fault(r) PROVE FileInv'
    BY <1>2, <1>3, <1>10 DEF Fault, ExportCmdFails, RebuildDropped, DispatchFails, StalePlan, serverVars,
                             rebuildVars
<1> QED BY <1>5, <1>6, <1>7, <1>8, <1>9, <1>10 DEF Next

LEMMA NextStale ==
    ASSUME Shared, Locals, OrderInv, StaleInv, MapInv, ~RebuildMeetsCall, ~RebuildMeetsCall', [Next]_vars
    PROVE  StaleInv'
<1> USE DEF Rebuilding, Installed
<1>0. /\ registry \in Nat /\ sequence \in Nat /\ registry <= sequence
      /\ \A r \in Requests : seen[r] <= sequence /\ seen[r] \in Int /\ map[r] \in Int
    BY NumberSets DEF Shared, Locals, OrderInv
<1>1. ASSUME UNCHANGED <<sequence, registry, stale, pc>> PROVE StaleInv'
    BY <1>1 DEF StaleInv
<1>2. ASSUME NEW r \in Requests, Respond(r), UNCHANGED <<sequence, registry, stale>>,
             pc[r] \notin Installed
      PROVE  StaleInv'
  <2>1. pc'[r] = "idle" /\ \A s \in Requests \ {r} : pc'[s] = pc[s]
      BY <1>2, RespondFacts
  <2> QED BY <1>2, <2>1 DEF StaleInv
<1>3. ASSUME NEW r \in Requests, NEW l, Goto(r, l), UNCHANGED <<sequence, registry, stale>>,
             pc[r] \notin Installed, l \in Rebuilding \ Installed => registry < sequence
      PROVE  StaleInv'
  <2>1. pc'[r] = l /\ \A s \in Requests \ {r} : pc'[s] = pc[s]
      BY <1>3, GotoFacts
  <2> QED BY <1>3, <2>1 DEF StaleInv
<1>4. ASSUME NEW r \in Requests, NEW l \in Installed, Goto(r, l), UNCHANGED <<sequence, stale>>,
             pc[r] \in Rebuilding
      PROVE  StaleInv'
  <2>1. pc'[r] = l /\ \A s \in Requests \ {r} : pc'[s] = pc[s]
      BY <1>4, GotoFacts
  <2>2. \A s \in Requests \ {r} : pc[s] \in {"idle", "dispatch"}
      BY <1>4, Lone
  <2> QED BY <1>4, <2>1, <2>2 DEF StaleInv
<1>5. CASE UNCHANGED vars
    BY <1>1, <1>5 DEF vars, serverVars
<1>6. CASE Upgrade
  <2>1. sequence' = sequence + 1 /\ registry' = registry
      BY <1>6 DEF Upgrade, serverVars
  <2>2. registry' < sequence'
      BY <1>0, <2>1
  <2> QED BY <2>2 DEF StaleInv
<1>7. CASE SupplyExport
    BY <1>1, <1>7 DEF SupplyExport, serverVars
<1>8. ASSUME NEW r \in Requests, Arrive(r) PROVE StaleInv'
  <2>1. pc[r] = "idle" /\ UNCHANGED <<sequence, registry, stale>>
      BY <1>8 DEF Arrive, serverVars
  <2>2. CASE stale
    <3>1. Goto(r, "fresh")
        BY <1>8, <2>2 DEF Arrive
    <3>2. pc'[r] = "fresh" /\ \A s \in Requests \ {r} : pc'[s] = pc[s]
        BY <3>1, GotoFacts
    <3>3. ASSUME NEW s \in Requests \ {r} PROVE pc[s] \notin Installed
        BY <3>2, <3>3 DEF RebuildMeetsCall
    <3>4. registry < sequence
        BY <2>1, <2>2, <3>3 DEF StaleInv
    <3> QED BY <1>3, <2>1, <3>1, <3>4
  <2>3. CASE ~stale
    <3>1. Goto(r, "dispatch")
        BY <1>8, <2>3 DEF Arrive
    <3> QED BY <1>3, <2>1, <3>1
  <2> QED BY <2>2, <2>3
<1>9. ASSUME NEW r \in Requests, pc[r] \in Rebuilding \ Installed PROVE registry < sequence
    BY <1>9 DEF StaleInv
<1>10. ASSUME NEW r \in Requests, Handle(r) PROVE StaleInv'
  <2>1. CASE RunExportCmd(r) \/ TakeFreshExport(r) \/ ReadMTime(r) \/ ReadExport(r)
      BY <1>3, <1>9, <2>1 DEF RunExportCmd, TakeFreshExport, ReadMTime, ReadExport, serverVars
  <2>2. CASE RefuseStale(r)
    <3>1. Respond(r) /\ UNCHANGED <<sequence, registry>> /\ pc[r] = "changed"
        BY <2>2 DEF RefuseStale
    <3>2. pc'[r] = "idle" /\ \A s \in Requests \ {r} : pc'[s] = pc[s]
        BY <3>1, RespondFacts
    <3>3. registry < sequence
        BY <1>9, <3>1
    <3> QED BY <3>1, <3>2, <3>3 DEF StaleInv
  <2>3. CASE Answer(r)
      BY <1>2, <2>3 DEF Answer, serverVars
  <2>4. CASE VerifySequence(r)
      BY <1>2, <1>3, <1>9, <2>4 DEF VerifySequence, serverVars
  <2>5. CASE ClearCaches(r)
      BY <1>3, <1>9, <2>5 DEF ClearCaches
  <2>6. CASE Install(r) \/ RecordMTime(r)
      BY <1>4, <2>6 DEF Install, RecordMTime
  <2>7. CASE Unstale(r)
    <3>1. pc[r] = "unstale" /\ Goto(r, "dispatch") /\ stale' = FALSE
        BY <2>7 DEF Unstale
    <3>2. pc'[r] = "dispatch" /\ \A s \in Requests \ {r} : pc'[s] = pc[s]
        BY <3>1, GotoFacts
    <3>3. \A s \in Requests \ {r} : pc[s] \in {"idle", "dispatch"}
        BY <3>1, Lone
    <3> QED BY <3>1, <3>2, <3>3 DEF StaleInv
  <2>8. CASE TakeRegistry(r) \/ BeginTx(r)
      BY <1>3, <2>8 DEF TakeRegistry, BeginTx, serverVars
  <2>9. CASE CheckRegistry(r)
    <3>1. pc[r] = "check" /\ UNCHANGED <<sequence, registry, stale>>
        BY <2>9 DEF CheckRegistry, serverVars
    <3>2. map[r] = registry
        BY <3>1 DEF MapInv, Mapped
    <3>3. seen[r] > map[r] => registry < sequence
        BY <1>0, <3>2
    <3> QED BY <1>2, <1>3, <2>9, <3>1, <3>3 DEF CheckRegistry
  <2>10. CASE RulesHit(r) \/ RulesMiss(r) \/ CompileRules(r)
      BY <1>3, <2>10 DEF RulesHit, RulesMiss, CompileRules, serverVars
  <2> QED BY <1>10, <2>1, <2>2, <2>3, <2>4, <2>5, <2>6, <2>7, <2>8, <2>9, <2>10 DEF Handle
<1>11. ASSUME NEW r \in Requests, Fault(r) PROVE StaleInv'
    BY <1>2, <1>3, <1>11 DEF Fault, ExportCmdFails, RebuildDropped, DispatchFails, StalePlan, serverVars
<1> QED BY <1>5, <1>6, <1>7, <1>8, <1>10, <1>11 DEF Next

LEMMA NextMap ==
    ASSUME Shared, Locals, MapInv, ~RebuildMeetsCall, [Next]_vars
    PROVE  MapInv'
<1> USE DEF Mapped
<1>1. ASSUME UNCHANGED <<registry, rule_cache, pc, map, used>> PROVE MapInv'
    BY <1>1 DEF MapInv
<1>2. ASSUME NEW r \in Requests, Respond(r), UNCHANGED <<registry, rule_cache>> PROVE MapInv'
    BY <1>2, RespondFacts DEF MapInv
<1>3. ASSUME NEW r \in Requests, NEW l, Goto(r, l), UNCHANGED <<registry, rule_cache>>,
             \A s \in Requests \ {r} : map'[s] = map[s] /\ used'[s] = used[s],
             l \notin Mapped \cup {"install"}
      PROVE  MapInv'
  <2>1. pc'[r] = l /\ \A s \in Requests \ {r} : pc'[s] = pc[s]
      BY <1>3, GotoFacts
  <2> QED BY <1>3, <2>1 DEF MapInv
<1>4. ASSUME NEW r \in Requests, NEW l \in Mapped, Goto(r, l), pc[r] \in Mapped,
             UNCHANGED <<registry, map>>, rule_cache' \in {rule_cache, map[r]},
             rule_cache' # rule_cache => \A s \in Requests : pc[s] # "install",
             \A s \in Requests \ {r} : used'[s] = used[s], l = "answer" => used'[r] = map[r]
      PROVE  MapInv'
  <2>1. pc'[r] = l /\ \A s \in Requests \ {r} : pc'[s] = pc[s]
      BY <1>4, GotoFacts
  <2>2. map[r] = registry
      BY <1>4 DEF MapInv
  <2> QED BY <1>4, <2>1, <2>2 DEF MapInv
<1>5. CASE UNCHANGED vars
    BY <1>1, <1>5 DEF vars, serverVars, dispatchVars
<1>6. CASE Upgrade \/ SupplyExport
    BY <1>1, <1>6 DEF Upgrade, SupplyExport, serverVars, dispatchVars
<1>7. ASSUME NEW r \in Requests, Arrive(r) PROVE MapInv'
  <2> DEFINE l == IF stale THEN "fresh" ELSE "dispatch"
  <2>1. l \notin Mapped \cup {"install"}
      OBVIOUS
  <2>2. Goto(r, l) /\ UNCHANGED <<registry, rule_cache, map, used>>
      BY <1>7 DEF Arrive, serverVars, dispatchVars
  <2> HIDE DEF l
  <2> QED BY <1>3, <2>1, <2>2
<1>8. ASSUME NEW r \in Requests, Handle(r) PROVE MapInv'
  <2>1. CASE RunExportCmd(r) \/ TakeFreshExport(r) \/ ReadMTime(r) \/ ReadExport(r) \/ RecordMTime(r)
             \/ Unstale(r)
      BY <1>3, <2>1 DEF RunExportCmd, TakeFreshExport, ReadMTime, ReadExport, RecordMTime, Unstale,
                        serverVars, dispatchVars
  <2>2. CASE RefuseStale(r) \/ Answer(r)
      BY <1>2, <2>2 DEF RefuseStale, Answer, serverVars
  <2>3. CASE VerifySequence(r)
      BY <1>2, <1>3, <2>3 DEF VerifySequence, serverVars, dispatchVars
  <2>4. CASE ClearCaches(r)
    <3>1. Goto(r, "install") /\ rule_cache' = None /\ UNCHANGED <<registry, map, used>>
        BY <2>4 DEF ClearCaches, dispatchVars
    <3>2. pc'[r] = "install" /\ \A s \in Requests \ {r} : pc'[s] = pc[s]
        BY <3>1, GotoFacts
    <3> QED BY <3>1, <3>2 DEF MapInv
  <2>5. CASE Install(r)
    <3>1. Goto(r, "record") /\ pc[r] = "install" /\ UNCHANGED <<rule_cache, map, used>>
        BY <2>5 DEF Install, dispatchVars
    <3>2. pc'[r] = "record" /\ \A s \in Requests \ {r} : pc'[s] = pc[s]
        BY <3>1, GotoFacts
    <3>3. \A s \in Requests \ {r} : pc[s] \in {"idle", "dispatch"}
        BY <3>1, Lone DEF Rebuilding
    <3>4. rule_cache = None
        BY <3>1 DEF MapInv
    <3> QED BY <3>1, <3>2, <3>3, <3>4 DEF MapInv
  <2>6. CASE TakeRegistry(r)
    <3>1. /\ Goto(r, "begin") /\ UNCHANGED <<registry, rule_cache, used>> /\ map'[r] = registry
          /\ \A s \in Requests \ {r} : map'[s] = map[s]
        BY <2>6 DEF TakeRegistry, serverVars, Locals
    <3>2. pc'[r] = "begin" /\ \A s \in Requests \ {r} : pc'[s] = pc[s]
        BY <3>1, GotoFacts
    <3> QED BY <3>1, <3>2 DEF MapInv
  <2>7. CASE BeginTx(r) \/ RulesMiss(r)
      BY <1>4, <2>7 DEF BeginTx, RulesMiss, serverVars, dispatchVars
  <2>8. CASE CheckRegistry(r)
    <3>1. pc[r] = "check" /\ UNCHANGED <<registry, rule_cache>>
        BY <2>8 DEF CheckRegistry, serverVars
    <3>2. CASE Goto(r, "rules") /\ UNCHANGED dispatchVars
        BY <1>4, <3>1, <3>2 DEF dispatchVars
    <3>3. CASE Goto(r, "fresh") /\ EndDispatch(r)
      <4>1. \A s \in Requests \ {r} : map'[s] = map[s] /\ used'[s] = used[s]
          BY <3>3 DEF EndDispatch, Locals
      <4> QED BY <1>3, <3>1, <3>3, <4>1
    <3> QED BY <1>2, <2>8, <3>1, <3>2, <3>3 DEF CheckRegistry
  <2>9. CASE RulesHit(r)
    <3>1. /\ Goto(r, "answer") /\ pc[r] = "rules" /\ UNCHANGED <<registry, rule_cache, map>>
          /\ used'[r] = rule_cache /\ rule_cache # None
          /\ \A s \in Requests \ {r} : used'[s] = used[s]
        BY <2>9 DEF RulesHit, serverVars, Locals
    <3>2. used'[r] = map[r]
        BY <3>1 DEF MapInv
    <3> QED BY <1>4, <3>1, <3>2
  <2>10. CASE CompileRules(r)
    <3>1. /\ Goto(r, "answer") /\ pc[r] = "compile" /\ UNCHANGED <<registry, map>>
          /\ used'[r] = map[r] /\ rule_cache' = map[r]
          /\ \A s \in Requests \ {r} : used'[s] = used[s]
        BY <2>10 DEF CompileRules, Locals
    <3>2. \A s \in Requests : pc[s] # "install"
        BY <3>1, Lone DEF Rebuilding
    <3> QED BY <1>4, <3>1, <3>2
  <2> QED BY <1>8, <2>1, <2>2, <2>3, <2>4, <2>5, <2>6, <2>7, <2>8, <2>9, <2>10 DEF Handle
<1>9. ASSUME NEW r \in Requests, Fault(r) PROVE MapInv'
  <2>1. CASE StalePlan(r)
    <3>1. /\ Goto(r, "dispatch") /\ UNCHANGED <<registry, rule_cache>>
          /\ \A s \in Requests \ {r} : map'[s] = map[s] /\ used'[s] = used[s]
        BY <2>1 DEF StalePlan, EndDispatch, serverVars, Locals
    <3> QED BY <1>3, <3>1
  <2> QED BY <1>2, <1>9, <2>1 DEF Fault, ExportCmdFails, RebuildDropped, DispatchFails, serverVars
<1> QED BY <1>5, <1>6, <1>7, <1>8, <1>9 DEF Next

\* While rebuilds meet no call, the server agrees with itself: the recorded mtime
\* with the registry, the stale flag with the registry's age, and the cached rules
\* with the map a call runs on (fresh_export, rebuild_registry).
THEOREM RebuildsAlone == Spec => RebuildAlone
<1>1. Init => AloneInv
  <2> SUFFICES ASSUME Init PROVE AloneInv
      OBVIOUS
  <2>1. FileInv
      BY DEF Init, FileInv, Found, Read
  <2>2. StaleInv
      BY DEF Init, StaleInv, Rebuilding, Installed
  <2>3. MapInv
      BY DEF Init, MapInv, Mapped
  <2> QED BY <2>1, <2>2, <2>3 DEF AloneInv
<1>2. /\ ShapeInv /\ AloneInv /\ ~RebuildMeetsCall /\ ~RebuildMeetsCall' /\ [Next]_vars
      => AloneInv'
    BY TypeParts, NextFile, NextStale, NextMap DEF ShapeInv, AloneInv
<1>3. ShapeInv /\ AloneInv =>
         (/\ Quiet /\ file.mtime = export_mtime => registry = file.seq
          /\ NotWedged
          /\ \A r \in Requests : pc[r] = "answer" => used[r] = map[r])
  <2> SUFFICES ASSUME ShapeInv, AloneInv
               PROVE  /\ Quiet /\ file.mtime = export_mtime => registry = file.seq
                      /\ NotWedged
                      /\ \A r \in Requests : pc[r] = "answer" => used[r] = map[r]
      OBVIOUS
  <2>1. file.mtime = export_mtime => registry = file.seq
      BY DEF AloneInv, FileInv
  <2>2. NotWedged
    <3> SUFFICES ASSUME Quiet, stale, file.seq = sequence, file.mtime = export_mtime PROVE FALSE
        BY DEF NotWedged
    <3>1. registry < sequence
        BY DEF Quiet, AloneInv, StaleInv, Installed
    <3>2. registry = sequence /\ sequence \in Nat
        BY <2>1, TypeParts, NumberSets DEF ShapeInv, Shared
    <3> QED BY <3>1, <3>2
  <2>3. \A r \in Requests : pc[r] = "answer" => used[r] = map[r]
      BY DEF AloneInv, MapInv
  <2> QED BY <2>1, <2>2, <2>3
<1>4. Spec => []ShapeInv
    BY ShapeInvariant, PTL
<1> QED BY <1>1, <1>2, <1>3, <1>4, PTL DEF Spec, RebuildAlone
=============================================================================
