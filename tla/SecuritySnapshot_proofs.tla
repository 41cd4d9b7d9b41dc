----------------------- MODULE SecuritySnapshot_proofs -----------------------
EXTENDS SecuritySnapshot, FiniteSetTheorems, TLAPS

\* The placeholder of a dispatch that holds no snapshot is a snapshot.
LEMMA NoDynamicType == NoDynamic \in Dynamic /\ NoDynamic.data \in Content /\ NoDynamic.signals \in Signals
  BY DEF NoDynamic, Dynamic, Content, Signals

\* The placeholders of an unresolved identity have the right shape.
LEMMA NoIdentityType == NoEnv \in EnvValue /\ NoRules \in RuleSet
  BY DEF NoEnv, NoRules, EnvValue, RuleSet

\* The initial state is well typed.
LEMMA InitType == Init => TypeOK
<1>. SUFFICES ASSUME Init PROVE TypeOK
  OBVIOUS
<1>1. committed \in Content /\ signals \in Signals /\ dynamic \in Dynamic
  BY NoDynamicType DEF Init, Content, Signals
<1>2. data \in [Cursors -> Content] /\ seen \in [Cursors -> Signals]
  BY DEF Init, Content, Signals
<1>3. dyn \in [Cursors -> Dynamic] /\ memo \in [Cursors -> Dynamic]
  BY NoDynamicType DEF Init
<1>4. env \in [Cursors -> EnvValue] /\ rules \in [Cursors -> RuleSet]
  BY DEF Init, NoEnv, NoRules, EnvValue, RuleSet
<1>5. pc \in [Cursors -> Labels] /\ \A c \in Cursors : pc[c] = "idle"
  BY DEF Init, Labels
<1>6. durable \subseteq Nat /\ lastWrite \in Nat /\ announced = {}
  BY DEF Init
<1>7. /\ open \in [Cursors -> BOOLEAN] /\ su \in [Cursors -> BOOLEAN]
      /\ holds \in [Cursors -> BOOLEAN] /\ checked \in [Cursors -> BOOLEAN]
  BY DEF Init
<1>8. /\ wrote \in [Cursors -> SUBSET Subjects] /\ unsignalled \in [Cursors -> SUBSET Subjects]
      /\ uncovered \in [Cursors -> SUBSET Subjects] /\ exposed \subseteq Nat
      /\ DIRTY_USERS \in [Cursors -> SUBSET Users]
      /\ COMMITTED_DIRTY_USERS \in [Cursors -> SUBSET Users]
      /\ uid \in [Cursors -> Users \cup {Nobody}]
  BY DEF Init
<1>9. /\ DIRTY_CRS = {} /\ COMMITTED_DIRTY = {} /\ env_cache = {} /\ rule_cache = {}
      /\ stale = FALSE
  BY DEF Init
<1>. QED
  BY <1>1, <1>2, <1>3, <1>4, <1>5, <1>6, <1>7, <1>8, <1>9 DEF TypeOK

\* What is noted of a signal that comes early has the right shape.
LEMMA NoteType ==
  ASSUME TypeOK, NEW c \in Cursors, NoteCutShort(c)
  PROVE  uncovered' \in [Cursors -> SUBSET Subjects] /\ exposed' \subseteq Nat
<1>1. \A d \in Cursors : \A s \in wrote[d] : data[d][s] \in Nat
  BY DEF TypeOK, Content, Subjects
<1>2. exposed \subseteq Nat
  BY DEF TypeOK
<1>3. ASSUME NEW n \in exposed', n \notin exposed PROVE n \in Nat
  <2>1. PICK e \in Cursors : n \in {data[e][s] : s \in wrote[e]}
    BY <1>3 DEF NoteCutShort
  <2>. QED BY <1>1, <2>1
<1>4. uncovered' \in [Cursors -> SUBSET Subjects]
  BY DEF NoteCutShort, TypeOK
<1>. QED BY <1>2, <1>3, <1>4

\* Every step keeps the types.
LEMMA NextType == TypeOK /\ [Next]_vars => TypeOK'
<1>. SUFFICES ASSUME TypeOK, [Next]_vars PROVE TypeOK'
  OBVIOUS
<1>. USE BoundsAssumption, SubjectsAssumption
<1>1. ASSUME NEW c \in Cursors, Begin(c) PROVE TypeOK'
  <2>1. data' \in [Cursors -> Content] /\ seen' \in [Cursors -> Signals]
    BY <1>1 DEF TypeOK, Begin
  <2>2. /\ open' \in [Cursors -> BOOLEAN] /\ checked' \in [Cursors -> BOOLEAN]
       /\ memo' \in [Cursors -> Dynamic]
    BY <1>1, NoDynamicType DEF TypeOK, Begin
  <2>. QED
    BY <1>1, <2>1, <2>2 DEF TypeOK, Begin, dbVars, taintVars, kernelVars, reqVars
<1>2. ASSUME NEW c \in Cursors, WriteSecurityModel(c) PROVE TypeOK'
  <2>1. lastWrite' \in Nat /\ data' \in [Cursors -> Content]
    <3>1. data' = [data EXCEPT ![c][Shared] = lastWrite + 1] /\ lastWrite' = lastWrite + 1
      BY <1>2 DEF WriteSecurityModel, WriteRow
    <3>2. [data[c] EXCEPT ![Shared] = lastWrite + 1] \in Content
      <4>1. data[c] \in [Subjects -> Nat]
        BY DEF TypeOK, Content
      <4>2. lastWrite + 1 \in Nat
        BY DEF TypeOK
      <4>. QED BY <4>1, <4>2 DEF Content
    <3> DEFINE row == [data[c] EXCEPT ![Shared] = lastWrite + 1]
    <3>3. data' = [data EXCEPT ![c] = row]
      BY <3>1
    <3>4. row \in Content
      BY <3>2
    <3> HIDE DEF row
    <3>5. data' \in [Cursors -> Content]
      BY <3>3, <3>4 DEF TypeOK
    <3>. QED BY <3>1, <3>5 DEF TypeOK
  <2>2. wrote' \in [Cursors -> SUBSET Subjects] /\ DIRTY_CRS' \subseteq Cursors
    BY <1>2 DEF TypeOK, WriteSecurityModel, WriteRow, Subjects
  <2>. QED
    BY <1>2, <2>1, <2>2 DEF TypeOK, WriteSecurityModel, WriteRow, vars, dbVars, txVars, taintVars, kernelVars, reqVars, memoVars
<1>3. ASSUME NEW c \in Cursors, NEW u \in Users, WriteUser(c, u) PROVE TypeOK'
  <2>1. lastWrite' \in Nat /\ data' \in [Cursors -> Content]
    BY <1>3 DEF TypeOK, WriteUser, WriteRow, Content, Subjects
  <2>2. wrote' \in [Cursors -> SUBSET Subjects] /\ DIRTY_USERS' \in [Cursors -> SUBSET Users]
    BY <1>3 DEF TypeOK, WriteUser, WriteRow, Subjects
  <2>. QED
    BY <1>3, <2>1, <2>2 DEF TypeOK, WriteUser, WriteRow, vars, dbVars, txVars, taintVars, kernelVars, reqVars, memoVars
<1>4. ASSUME NEW c \in Cursors, Commit(c) PROVE TypeOK'
  <2>1. committed' \in Content
    BY <1>4 DEF TypeOK, Commit, EndTx, Content
  <2>2. \A s \in wrote[c] : data[c][s] \in Nat
    BY <1>4 DEF TypeOK, Commit, EndTx, Content, Subjects
  <2>3. durable' \subseteq Nat
    <3>1. durable' = durable \cup {data[c][s] : s \in wrote[c]}
      BY <1>4 DEF Commit
    <3>2. durable \subseteq Nat
      BY DEF TypeOK
    <3>. QED BY <2>2, <3>1, <3>2, Zenon
  <2>4. data' \in [Cursors -> Content] /\ seen' \in [Cursors -> Signals]
    BY <1>4, NoDynamicType DEF TypeOK, Commit, EndTx, Dynamic
  <2>5. /\ open' \in [Cursors -> BOOLEAN]
       /\ wrote' \in [Cursors -> SUBSET Subjects]
       /\ unsignalled' \in [Cursors -> SUBSET Subjects]
    BY <1>4 DEF TypeOK, Commit, EndTx
  <2>6. /\ COMMITTED_DIRTY' \subseteq Cursors
       /\ COMMITTED_DIRTY_USERS' \in [Cursors -> SUBSET Users]
    BY <1>4 DEF TypeOK, Commit, EndTx
  <2>. QED
    BY <1>4, <2>1, <2>2, <2>3, <2>4, <2>5, <2>6 DEF TypeOK, Commit, EndTx, vars, dbVars, txVars, taintVars, kernelVars, reqVars, memoVars
<1>5. ASSUME NEW c \in Cursors, Rollback(c) PROVE TypeOK'
  BY <1>5
  DEF TypeOK, Content, Signals, Dynamic, EnvValue, RuleSet, EnvEntry, RuleEntry, NoDynamic, NoEnv, NoRules, Labels, Subjects, Tables, vars, dbVars, txVars, taintVars, kernelVars, reqVars, memoVars, Rollback, EndTx
<1>6. ASSUME NEW c \in Cursors, NEW t \in SecTables, SignalChanges(c, t) PROVE TypeOK'
  <2>1. signals' \in Signals
    BY <1>6 DEF TypeOK, SignalChanges, Signalled, Signals, Tables
  <2>2. announced' \subseteq [table : SecTables, id : Nat, subject : Subjects, write : Nat]
    BY <1>6 DEF TypeOK, SignalChanges, Signalled, Signals, Content, Tables
  <2>3. unsignalled' \in [Cursors -> SUBSET Subjects]
    BY <1>6 DEF TypeOK, SignalChanges, Signalled
  <2>4. uncovered' \in [Cursors -> SUBSET Subjects] /\ exposed' \subseteq Nat
    BY <1>6, NoteType DEF SignalChanges
  <2>. QED
    BY <1>6, <2>1, <2>2, <2>3, <2>4 DEF TypeOK, SignalChanges, Signalled, vars, dbVars, txVars, taintVars, kernelVars, reqVars, memoVars
<1>7. ASSUME NEW c \in Cursors, SignalNothing(c) PROVE TypeOK'
  <2>1. uncovered' \in [Cursors -> SUBSET Subjects] /\ exposed' \subseteq Nat
    BY <1>7, NoteType DEF SignalNothing
  <2>. QED BY <1>7, <2>1
  DEF TypeOK, Content, Signals, Dynamic, EnvValue, RuleSet, EnvEntry, RuleEntry, NoDynamic, NoEnv, NoRules, Labels, Subjects, Tables, vars, dbVars, txVars, taintVars, kernelVars, reqVars, memoVars, SignalNothing, Signalled
<1>8. ASSUME NEW c \in Cursors, NEW u \in Users, NEW super \in SuperModes, Route(c, u, super) PROVE TypeOK'
  BY <1>8
  DEF TypeOK, Content, Signals, Dynamic, EnvValue, RuleSet, EnvEntry, RuleEntry, NoDynamic, NoEnv, NoRules, Labels, Subjects, Tables, vars, dbVars, txVars, taintVars, kernelVars, reqVars, memoVars, Route, Goto
<1>9. ASSUME NEW c \in Cursors, Recheck(c) PROVE TypeOK'
  <2>1. pc' \in [Cursors -> Labels] /\ holds' \in [Cursors -> BOOLEAN] /\ su' \in [Cursors -> BOOLEAN]
    BY <1>9 DEF TypeOK, Recheck, Return, Hold, Goto, Labels
  <2>2. dyn' \in [Cursors -> Dynamic]
    BY <1>9, NoDynamicType DEF TypeOK, Recheck, Return, Hold, Goto
  <2>3. env' \in [Cursors -> EnvValue] /\ rules' \in [Cursors -> RuleSet]
    BY <1>9, NoIdentityType DEF TypeOK, Recheck, Return, Hold, Goto
  <2>4. /\ uid' \in [Cursors -> Users \cup {Nobody}]
       /\ \A d \in Cursors : pc'[d] # "idle" => uid'[d] \in Users
    BY <1>9 DEF TypeOK, Recheck, Return, Hold, Goto
  <2>. QED
    BY <1>9, <2>1, <2>2, <2>3, <2>4 DEF TypeOK, Recheck, Return, Hold, Goto, vars, dbVars, txVars, taintVars, kernelVars, reqVars, memoVars
<1>10. ASSUME NEW c \in Cursors, check_signaling(c) PROVE TypeOK'
  <2>1. pc' \in [Cursors -> Labels] /\ holds' \in [Cursors -> BOOLEAN] /\ su' \in [Cursors -> BOOLEAN]
    BY <1>10 DEF TypeOK, check_signaling, Return, Hold, Goto, Labels
  <2>2. stale' \in BOOLEAN
    BY <1>10 DEF TypeOK, check_signaling, Return, Hold, Goto
  <2>3. dyn' \in [Cursors -> Dynamic]
    BY <1>10, NoDynamicType DEF TypeOK, check_signaling, Return, Hold, Goto
  <2>4. env' \in [Cursors -> EnvValue] /\ rules' \in [Cursors -> RuleSet]
    BY <1>10, NoIdentityType DEF TypeOK, check_signaling, Return, Hold, Goto
  <2>5. /\ uid' \in [Cursors -> Users \cup {Nobody}]
       /\ \A d \in Cursors : pc'[d] # "idle" => uid'[d] \in Users
    BY <1>10 DEF TypeOK, check_signaling, Return, Hold, Goto
  <2>. QED
    BY <1>10, <2>1, <2>2, <2>3, <2>4, <2>5 DEF TypeOK, check_signaling, Return, Hold, Goto, vars, dbVars, txVars, taintVars, kernelVars, reqVars, memoVars
<1>11. ASSUME NEW c \in Cursors, stamp_signals(c) PROVE TypeOK'
  BY <1>11
  DEF TypeOK, Content, Signals, Dynamic, EnvValue, RuleSet, EnvEntry, RuleEntry, NoDynamic, NoEnv, NoRules, Labels, Subjects, Tables, vars, dbVars, txVars, taintVars, kernelVars, reqVars, memoVars, stamp_signals, Goto
<1>12. ASSUME NEW c \in Cursors, refresh_dynamic(c) PROVE TypeOK'
  BY <1>12
  DEF TypeOK, Content, Signals, Dynamic, EnvValue, RuleSet, EnvEntry, RuleEntry, NoDynamic, NoEnv, NoRules, Labels, Subjects, Tables, vars, dbVars, txVars, taintVars, kernelVars, reqVars, memoVars, refresh_dynamic, Goto
<1>13. ASSUME NEW c \in Cursors, ClearRules(c) PROVE TypeOK'
  BY <1>13
  DEF TypeOK, Content, Signals, Dynamic, EnvValue, RuleSet, EnvEntry, RuleEntry, NoDynamic, NoEnv, NoRules, Labels, Subjects, Tables, vars, dbVars, txVars, taintVars, kernelVars, reqVars, memoVars, ClearRules, Goto
<1>14. ASSUME NEW c \in Cursors, ClearEnvs(c) PROVE TypeOK'
  BY <1>14
  DEF TypeOK, Content, Signals, Dynamic, EnvValue, RuleSet, EnvEntry, RuleEntry, NoDynamic, NoEnv, NoRules, Labels, Subjects, Tables, vars, dbVars, txVars, taintVars, kernelVars, reqVars, memoVars, ClearEnvs, Goto
<1>15. ASSUME NEW c \in Cursors, EnvHit(c) PROVE TypeOK'
  BY <1>15
  DEF TypeOK, Content, Signals, Dynamic, EnvValue, RuleSet, EnvEntry, RuleEntry, NoDynamic, NoEnv, NoRules, Labels, Subjects, Tables, vars, dbVars, txVars, taintVars, kernelVars, reqVars, memoVars, EnvHit, Goto, EnvHits
<1>16. ASSUME NEW c \in Cursors, EnvMiss(c) PROVE TypeOK'
  BY <1>16
  DEF TypeOK, Content, Signals, Dynamic, EnvValue, RuleSet, EnvEntry, RuleEntry, NoDynamic, NoEnv, NoRules, Labels, Subjects, Tables, vars, dbVars, txVars, taintVars, kernelVars, reqVars, memoVars, EnvMiss, Goto
<1>17. ASSUME NEW c \in Cursors, FillEnv(c) PROVE TypeOK'
  <2>1. [row |-> data[c][uid[c]], groups |-> dyn[c].data[uid[c]]] \in EnvValue
    BY <1>17 DEF TypeOK, FillEnv, Goto, EnvHits, EnvValue, Content, Dynamic, Subjects
  <2>2. security_signals(dyn[c].signals) \in [SecTables -> Nat]
    BY <1>17 DEF TypeOK, FillEnv, Goto, EnvHits, security_signals, Signals, Dynamic, Tables
  <2>3. env_cache' \subseteq EnvEntry /\ env' \in [Cursors -> EnvValue]
    BY <1>17, <2>1, <2>2 DEF TypeOK, FillEnv, Goto, EnvHits, EnvEntry
  <2>4. pc' \in [Cursors -> Labels]
    BY <1>17 DEF TypeOK, FillEnv, Goto, EnvHits, Labels
  <2>. QED
    BY <1>17, <2>1, <2>2, <2>3, <2>4 DEF TypeOK, FillEnv, Goto, EnvHits, vars, dbVars, txVars, taintVars, kernelVars, reqVars, memoVars
<1>18. ASSUME NEW c \in Cursors, RulesHit(c) PROVE TypeOK'
  BY <1>18
  DEF TypeOK, Content, Signals, Dynamic, EnvValue, RuleSet, EnvEntry, RuleEntry, NoDynamic, NoEnv, NoRules, Labels, Subjects, Tables, vars, dbVars, txVars, taintVars, kernelVars, reqVars, memoVars, RulesHit, Goto, RuleHits
<1>19. ASSUME NEW c \in Cursors, RulesMiss(c) PROVE TypeOK'
  BY <1>19
  DEF TypeOK, Content, Signals, Dynamic, EnvValue, RuleSet, EnvEntry, RuleEntry, NoDynamic, NoEnv, NoRules, Labels, Subjects, Tables, vars, dbVars, txVars, taintVars, kernelVars, reqVars, memoVars, RulesMiss, Goto
<1>20. ASSUME NEW c \in Cursors, CompileRules(c) PROVE TypeOK'
  <2>1. [rules |-> dyn[c].data[Shared], row |-> data[c][uid[c]]] \in RuleSet
    BY <1>20 DEF TypeOK, CompileRules, Goto, RuleHits, RuleSet, Content, Dynamic, Subjects
  <2>2. security_signals(dyn[c].signals) \in [SecTables -> Nat]
    BY <1>20 DEF TypeOK, CompileRules, Goto, RuleHits, security_signals, Signals, Dynamic, Tables
  <2>3. rule_cache' \subseteq RuleEntry /\ rules' \in [Cursors -> RuleSet]
    BY <1>20, <2>1, <2>2 DEF TypeOK, CompileRules, Goto, RuleHits, RuleEntry
  <2>4. pc' \in [Cursors -> Labels]
    BY <1>20 DEF TypeOK, CompileRules, Goto, RuleHits, Labels
  <2>. QED
    BY <1>20, <2>1, <2>2, <2>3, <2>4 DEF TypeOK, CompileRules, Goto, RuleHits, vars, dbVars, txVars, taintVars, kernelVars, reqVars, memoVars
<1>21. ASSUME NEW c \in Cursors, Evict(c) PROVE TypeOK'
  BY <1>21
  DEF TypeOK, Content, Signals, Dynamic, EnvValue, RuleSet, EnvEntry, RuleEntry, NoDynamic, NoEnv, NoRules, Labels, Subjects, Tables, vars, dbVars, txVars, taintVars, kernelVars, reqVars, memoVars, Evict, Goto, evict
<1>22. ASSUME NEW c \in Cursors, Reply(c) PROVE TypeOK'
  BY <1>22
  DEF TypeOK, Content, Signals, Dynamic, EnvValue, RuleSet, EnvEntry, RuleEntry, NoDynamic, NoEnv, NoRules, Labels, Subjects, Tables, vars, dbVars, txVars, taintVars, kernelVars, reqVars, memoVars, Reply, Return, Goto
<1>23. ASSUME NEW c \in Cursors, Fail(c) PROVE TypeOK'
  BY <1>23
  DEF TypeOK, Content, Signals, Dynamic, EnvValue, RuleSet, EnvEntry, RuleEntry, NoDynamic, NoEnv, NoRules, Labels, Subjects, Tables, vars, dbVars, txVars, taintVars, kernelVars, reqVars, memoVars, Fail, Return, Goto
<1>24. ASSUME NEW t \in ForeignTables, ForeignSignal(t) PROVE TypeOK'
  BY <1>24, TablesAssumption
  DEF TypeOK, Signals, Tables, vars, dbVars, txVars, taintVars, kernelVars, reqVars, memoVars, ForeignSignal
<1>25. CASE UNCHANGED vars
  BY <1>25
  DEF TypeOK, Content, Signals, Dynamic, EnvValue, RuleSet, EnvEntry, RuleEntry, NoDynamic, NoEnv, NoRules, Labels, Subjects, Tables, vars, dbVars, txVars, taintVars, kernelVars, reqVars, memoVars
<1>. QED
  BY <1>1, <1>2, <1>3, <1>4, <1>5, <1>6, <1>7, <1>8, <1>9, <1>10, <1>11, <1>12, <1>13, <1>14, <1>15, <1>16, <1>17, <1>18, <1>19, <1>20, <1>21, <1>22, <1>23, <1>24, <1>25 DEF Next, Host, Dispatch
-----------------------------------------------------------------------------
(* Frames: what the host's steps and the kernel's steps leave alone. *)

\* The host never touches the kernel or a dispatch under way.
LEMMA HostFrame ==
  ASSUME NEW c \in Cursors, Host(c)
  PROVE  UNCHANGED <<kernelVars, reqVars, pc, holds>>
  BY DEF Host, Begin, WriteSecurityModel, WriteUser, WriteRow, Commit, Rollback, SignalChanges,
         SignalNothing

\* A dispatch never touches the database, the transactions or the taints.
LEMMA DispatchFrame ==
  ASSUME NEW c \in Cursors, Dispatch(c)
  PROVE  UNCHANGED <<dbVars, txVars, taintVars>>
  BY DEF Dispatch, Route, Recheck, check_signaling, stamp_signals, refresh_dynamic, ClearRules,
         ClearEnvs, EnvHit, EnvMiss, FillEnv, RulesHit, RulesMiss, CompileRules, Evict, Reply, Fail

-----------------------------------------------------------------------------
(* The database part. *)

\* Every step keeps announcements truthful and rows with one writer.
LEMMA NextDatabase == TypeOK /\ TypeOK' /\ DatabaseInv /\ [Next]_vars => DatabaseInv'
<1>. SUFFICES ASSUME TypeOK, TypeOK', DatabaseInv, [Next]_vars PROVE DatabaseInv'
  OBVIOUS
<1>1. ASSUME UNCHANGED <<dbVars, data, wrote>> PROVE DatabaseInv'
  BY <1>1 DEF DatabaseInv, dbVars
<1>2. ASSUME NEW c \in Cursors, Begin(c) PROVE DatabaseInv'
  <2>1. \A d \in Cursors : data'[d] = IF d = c THEN committed ELSE data[d]
    BY <1>2 DEF Begin, TypeOK
  <2>2. ASSUME NEW d \in Cursors, NEW s \in wrote[d] PROVE committed[s] <= data'[d][s]
    <3>1. s \in Subjects /\ committed[s] \in Nat
      BY DEF TypeOK, Content
    <3>. QED BY <2>1, <3>1 DEF DatabaseInv
  <2>. QED BY <1>2, <2>1, <2>2 DEF DatabaseInv, Begin, dbVars
<1>3. ASSUME NEW c \in Cursors, NEW s \in Subjects, WriteRow(c, s) PROVE DatabaseInv'
  <2>1. /\ data' = [data EXCEPT ![c][s] = lastWrite + 1]
        /\ wrote' = [wrote EXCEPT ![c] = @ \cup {s}]
        /\ lastWrite' = lastWrite + 1
        /\ UNCHANGED <<committed, signals, announced>>
        /\ \A d \in Cursors \ {c} : s \notin wrote[d]
    BY <1>3 DEF WriteRow, Writable
  <2>2. \A d \in Cursors : \A r \in Subjects : data'[d][r] <= lastWrite'
    BY <2>1 DEF DatabaseInv, TypeOK, Content
  <2>3. \A d \in Cursors : \A r \in wrote'[d] : committed'[r] <= data'[d][r]
    BY <2>1 DEF DatabaseInv, TypeOK, Content
  <2>4. \A r \in Subjects : committed'[r] <= lastWrite'
    BY <2>1 DEF DatabaseInv, TypeOK, Content
  <2>5. \A d, e \in Cursors : d # e => wrote'[d] \cap wrote'[e] = {}
    BY <2>1 DEF DatabaseInv, TypeOK
  <2>. QED BY <2>1, <2>2, <2>3, <2>4, <2>5 DEF DatabaseInv
<1>4. ASSUME NEW c \in Cursors, Commit(c) PROVE DatabaseInv'
  <2>1. /\ committed' = [s \in Subjects |-> IF s \in wrote[c] THEN data[c][s] ELSE committed[s]]
        /\ data' = [data EXCEPT ![c] = NoDynamic.data]
        /\ wrote' = [wrote EXCEPT ![c] = {}]
        /\ UNCHANGED <<lastWrite, signals, announced>>
    BY <1>4 DEF Commit, EndTx
  <2>2. \A s \in Subjects : committed[s] <= committed'[s] /\ committed'[s] <= lastWrite
    BY <2>1 DEF DatabaseInv, TypeOK, Content
  <2>3. \A a \in announced : a.write <= committed'[a.subject]
    BY <2>1, <2>2 DEF DatabaseInv, TypeOK, Content
  <2>4. \A d \in Cursors : \A s \in Subjects : data'[d][s] <= lastWrite
    BY <2>1 DEF DatabaseInv, TypeOK, Content, NoDynamic
  <2>5. \A d \in Cursors : \A s \in wrote'[d] : committed'[s] <= data'[d][s]
    BY <2>1 DEF DatabaseInv, TypeOK, Content
  <2>6. \A d, e \in Cursors : d # e => wrote'[d] \cap wrote'[e] = {}
    BY <2>1 DEF DatabaseInv, TypeOK
  <2>. QED BY <2>1, <2>2, <2>3, <2>4, <2>5, <2>6 DEF DatabaseInv
<1>5. ASSUME NEW c \in Cursors, Rollback(c) PROVE DatabaseInv'
  <2>1. /\ data' = [data EXCEPT ![c] = NoDynamic.data]
        /\ wrote' = [wrote EXCEPT ![c] = {}]
        /\ UNCHANGED <<committed, lastWrite, signals, announced>>
    BY <1>5 DEF Rollback, EndTx, dbVars
  <2>2. \A d \in Cursors : \A s \in Subjects : data'[d][s] <= lastWrite
    BY <2>1 DEF DatabaseInv, TypeOK, Content, NoDynamic
  <2>3. \A d \in Cursors : \A s \in wrote'[d] : committed[s] <= data'[d][s]
    BY <2>1 DEF DatabaseInv, TypeOK, Content
  <2>4. \A d, e \in Cursors : d # e => wrote'[d] \cap wrote'[e] = {}
    BY <2>1 DEF DatabaseInv, TypeOK
  <2>. QED BY <2>1, <2>2, <2>3, <2>4 DEF DatabaseInv
<1>6. ASSUME NEW c \in Cursors, NEW t \in SecTables, SignalChanges(c, t) PROVE DatabaseInv'
  <2>1. /\ signals' = [signals EXCEPT ![t] = @ + 1]
        /\ UNCHANGED <<committed, lastWrite, data, wrote>>
    BY <1>6 DEF SignalChanges
  <2>2. \A a \in announced' :
          \/ a \in announced
          \/ a.table = t /\ a.id = signals[t] + 1 /\ a.subject \in Subjects
             /\ a.write = committed[a.subject]
    BY <1>6 DEF SignalChanges, TypeOK
  <2>3. \A a \in announced' : a.id > 0 /\ a.id <= signals'[a.table] /\ a.write <= committed[a.subject]
    BY <2>1, <2>2 DEF DatabaseInv, TypeOK, Signals, Tables, Content
  <2>. QED BY <2>1, <2>3 DEF DatabaseInv
<1>7. ASSUME NEW t \in ForeignTables, ForeignSignal(t) PROVE DatabaseInv'
  <2>1. /\ signals' = [signals EXCEPT ![t] = @ + 1]
        /\ UNCHANGED <<committed, lastWrite, announced, data, wrote>>
    BY <1>7 DEF ForeignSignal, txVars
  <2>2. \A a \in announced : a.id <= signals'[a.table]
    BY <2>1 DEF DatabaseInv, TypeOK, Signals, Tables
  <2>. QED BY <2>1, <2>2 DEF DatabaseInv
<1>8. ASSUME NEW c \in Cursors, Host(c) PROVE DatabaseInv'
  BY <1>1, <1>2, <1>3, <1>4, <1>5, <1>6, <1>8
     DEF Host, WriteSecurityModel, WriteUser, SignalNothing, txVars, Subjects
<1>9. ASSUME NEW c \in Cursors, Dispatch(c) PROVE DatabaseInv'
  BY <1>1, <1>9, DispatchFrame DEF txVars
<1>. QED
  BY <1>1, <1>7, <1>8, <1>9 DEF Next, vars, txVars

-----------------------------------------------------------------------------
(* Labels. *)

\* New signals lie beyond every label already handed out.
LEMMA SignalKeepsLabels ==
  ASSUME TypeOK, TypeOK', NEW t \in Tables,
         signals' = [signals EXCEPT ![t] = @ + 1],
         \A a \in announced' : a \in announced \/ (a.table = t /\ a.id = signals[t] + 1),
         NEW content \in Content, NEW sigs \in Signals,
         Reached(sigs), Covers(content, sigs)
  PROVE  (\A r \in Tables : sigs[r] <= signals'[r])
         /\ \A a \in announced' : a.id <= sigs[a.table] => a.write <= content[a.subject]
<1>0. sigs \in [Tables -> Nat] /\ signals \in [Tables -> Nat] /\ \A r \in Tables : sigs[r] <= signals[r]
  BY DEF Reached, TypeOK, Signals
<1>1. \A r \in Tables : sigs[r] <= signals'[r]
  BY <1>0
<1>2. ASSUME NEW a \in announced', a.id <= sigs[a.table] PROVE a.write <= content[a.subject]
  <2>1. CASE a \in announced
    BY <1>2, <2>1 DEF Covers
  <2>2. CASE a.table = t /\ a.id = signals[t] + 1
    BY <1>0, <1>2, <2>2
  <2>. QED BY <2>1, <2>2
<1>. QED BY <1>1, <1>2

\* Every step keeps each snapshot labelled with a watermark it covers.
LEMMA NextLabel ==
  TypeOK /\ TypeOK' /\ DatabaseInv /\ LabelInv /\ WatermarkInv /\ [Next]_vars => LabelInv'
<1>. SUFFICES ASSUME TypeOK, TypeOK', DatabaseInv, LabelInv, WatermarkInv, [Next]_vars
             PROVE  LabelInv'
  OBVIOUS
<1>1. ASSUME UNCHANGED <<signals, announced>>,
             Labelled(dynamic'),
             \A c \in Cursors : Reached(seen'[c]) /\ Covers(data'[c], seen'[c]),
             \A c \in Cursors : Labelled(dyn'[c]),
             \A c \in Cursors : Labelled(memo'[c])
      PROVE  LabelInv'
  BY <1>1 DEF LabelInv, Labelled, Reached, Covers
<1>2. Labelled(NoDynamic)
  BY DEF Labelled, Reached, Covers, NoDynamic, DatabaseInv, TypeOK, Signals, Tables
<1>3. ASSUME NEW c \in Cursors, Begin(c) PROVE LabelInv'
  <2>1. Reached(signals) /\ Covers(committed, signals)
    BY DEF Reached, Covers, DatabaseInv, TypeOK, Signals
  <2>2. \A d \in Cursors : seen'[d] = (IF d = c THEN signals ELSE seen[d])
                           /\ data'[d] = (IF d = c THEN committed ELSE data[d])
                           /\ memo'[d] = (IF d = c THEN NoDynamic ELSE memo[d])
    BY <1>3 DEF Begin, TypeOK
  <2>. QED
    BY <1>1, <1>2, <1>3, <2>1, <2>2 DEF Begin, LabelInv, dbVars, kernelVars, reqVars
<1>4. ASSUME NEW c \in Cursors, NEW s \in Subjects, WriteRow(c, s) PROVE LabelInv'
  <2>1. \A d \in Cursors : \A r \in Subjects : data[d][r] <= data'[d][r]
    BY <1>4 DEF WriteRow, DatabaseInv, TypeOK, Content
  <2>2. \A d \in Cursors : Covers(data'[d], seen[d])
    BY <2>1 DEF LabelInv, Covers, TypeOK, Content
  <2>. QED
    BY <1>1, <1>4, <2>2 DEF WriteRow, LabelInv, kernelVars, reqVars, memoVars
<1>5. ASSUME NEW c \in Cursors, EndTx(c), UNCHANGED <<signals, announced, dynamic, dyn, memo>>
      PROVE  LabelInv'
  <2>1. \A d \in Cursors : seen'[d] = (IF d = c THEN NoDynamic.signals ELSE seen[d])
                           /\ data'[d] = (IF d = c THEN NoDynamic.data ELSE data[d])
    BY <1>5 DEF EndTx, TypeOK
  <2>. QED
    BY <1>1, <1>2, <1>5, <2>1 DEF LabelInv, Labelled
<1>6. ASSUME NEW t \in Tables, signals' = [signals EXCEPT ![t] = @ + 1],
             \A a \in announced' : a \in announced \/ (a.table = t /\ a.id = signals[t] + 1),
             UNCHANGED <<data, seen, dynamic, dyn, memo>>
      PROVE  LabelInv'
  <2>1. ASSUME NEW content \in Content, NEW sigs \in Signals, Reached(sigs), Covers(content, sigs)
        PROVE  /\ \A r \in Tables : sigs[r] <= signals'[r]
               /\ \A a \in announced' : a.id <= sigs[a.table] => a.write <= content[a.subject]
    BY <1>6, <2>1, SignalKeepsLabels
  <2>2. /\ dynamic \in Dynamic
        /\ \A c \in Cursors : data[c] \in Content /\ seen[c] \in Signals
                              /\ dyn[c] \in Dynamic /\ memo[c] \in Dynamic
    BY DEF TypeOK
  <2>3. \A d \in Dynamic : Labelled(d) =>
          /\ \A r \in Tables : d.signals[r] <= signals'[r]
          /\ \A a \in announced' : a.id <= d.signals[a.table] => a.write <= d.data[a.subject]
    BY <2>1 DEF Labelled, Dynamic
  <2>. QED
    BY <1>6, <2>1, <2>2, <2>3 DEF LabelInv, Labelled, Reached, Covers
<1>7. ASSUME NEW c \in Cursors, Host(c) PROVE LabelInv'
  <2>1. CASE Begin(c) BY <1>3, <2>1
  <2>2. CASE WriteSecurityModel(c)
    BY <1>4, <2>2 DEF WriteSecurityModel, Subjects
  <2>3. CASE \E u \in Users : WriteUser(c, u)
    BY <1>4, <2>3 DEF WriteUser, Subjects
  <2>4. CASE Commit(c)
    BY <1>5, <2>4 DEF Commit, kernelVars, reqVars, memoVars
  <2>5. CASE Rollback(c)
    BY <1>5, <2>5 DEF Rollback, dbVars, kernelVars, reqVars, memoVars
  <2>6. ASSUME NEW t \in SecTables, SignalChanges(c, t) PROVE LabelInv'
    <3>1. \A a \in announced' : a \in announced \/ (a.table = t /\ a.id = signals[t] + 1)
      BY <2>6 DEF SignalChanges
    <3>2. /\ signals' = [signals EXCEPT ![t] = @ + 1] /\ t \in Tables
          /\ UNCHANGED <<data, seen, dynamic, dyn, memo>>
      BY <2>6 DEF SignalChanges, Tables, kernelVars, reqVars, memoVars
    <3>. QED BY <1>6, <3>1, <3>2
  <2>7. CASE SignalNothing(c)
    BY <1>1, <2>7 DEF SignalNothing, LabelInv, dbVars, txVars, kernelVars, reqVars, memoVars
  <2>. QED BY <1>7, <2>1, <2>2, <2>3, <2>4, <2>5, <2>6, <2>7 DEF Host
<1>8. ASSUME NEW t \in ForeignTables, ForeignSignal(t) PROVE LabelInv'
  BY <1>6, <1>8, TablesAssumption
     DEF ForeignSignal, Tables, txVars, kernelVars, reqVars, memoVars
<1>9. ASSUME NEW c \in Cursors, Dispatch(c) PROVE LabelInv'
  <2>1. UNCHANGED <<signals, announced, data, seen>>
    BY <1>9, DispatchFrame DEF dbVars, txVars
  <2>2. ASSUME UNCHANGED <<dynamic, dyn, memo>> PROVE LabelInv'
    BY <1>1, <2>1, <2>2 DEF LabelInv
  <2>3. ASSUME NEW d, Labelled(d), dyn' = [dyn EXCEPT ![c] = d], UNCHANGED memo,
               dynamic' \in {dynamic, d}
        PROVE  LabelInv'
    BY <1>1, <2>1, <2>3 DEF LabelInv, TypeOK
  <2>4. CASE Recheck(c)
    BY <1>2, <2>3, <2>4 DEF Recheck, Return, Hold, LabelInv, kernelVars, memoVars
  <2>5. CASE check_signaling(c)
    BY <1>2, <2>3, <2>5 DEF check_signaling, Return, Hold, LabelInv, memoVars
  <2>6. CASE stamp_signals(c)
    <3> DEFINE fresh == [dyn[c] EXCEPT !.signals = seen[c]]
    <3>1. fresh.signals = seen[c] /\ fresh.data = dyn[c].data
      BY DEF TypeOK, Dynamic
    <3>2. \A t \in SecTables : dyn[c].signals[t] = seen[c][t]
      BY <2>6 DEF stamp_signals, WatermarkInv, SameGuarded, GuardedTables
    <3>3. Covers(dyn[c].data, seen[c])
      BY <3>2 DEF LabelInv, Labelled, Covers, TypeOK
    <3>4. Labelled(fresh)
      BY <3>1, <3>3 DEF Labelled, LabelInv
    <3>5. dyn' = [dyn EXCEPT ![c] = fresh] /\ UNCHANGED memo /\ dynamic' \in {dynamic, fresh}
      BY <2>6 DEF stamp_signals, memoVars
    <3>. HIDE DEF fresh
    <3>. QED BY <2>3, <3>4, <3>5
  <2>7. CASE refresh_dynamic(c)
    <3>1. Labelled([data |-> data[c], signals |-> seen[c]])
      BY DEF Labelled, LabelInv
    <3>. QED BY <2>3, <2>7, <3>1 DEF refresh_dynamic, memoVars
  <2>8. CASE Reply(c)
    <3>1. \A d \in Cursors : memo'[d] = memo[d] \/ memo'[d] = dyn[d]
      BY <2>8 DEF Reply, TypeOK
    <3>2. \A d \in Cursors : dyn'[d] = dyn[d] \/ dyn'[d] = NoDynamic
      BY <2>8 DEF Reply, Return, TypeOK
    <3>. QED BY <1>1, <1>2, <2>1, <2>8, <3>1, <3>2 DEF Reply, LabelInv, kernelVars
  <2>9. CASE Fail(c)
    BY <1>2, <2>3, <2>9 DEF Fail, Return, kernelVars, memoVars
  <2>. QED
    BY <1>9, <2>2, <2>4, <2>5, <2>6, <2>7, <2>8, <2>9
       DEF Dispatch, Route, ClearRules, ClearEnvs, EnvHit, EnvMiss, FillEnv, RulesHit, RulesMiss,
           CompileRules, Evict, kernelVars, reqVars, memoVars
<1>. QED
  <2>1. CASE UNCHANGED vars
    BY <1>1, <2>1 DEF LabelInv, vars, dbVars, txVars, kernelVars, reqVars, memoVars
  <2>. QED BY <1>7, <1>8, <1>9, <2>1 DEF Next

-----------------------------------------------------------------------------
(* Watermarks. *)

\* Every step leaves a dispatch past its check at the watermark of its own
\* transaction.
LEMMA NextWatermark ==
  TypeOK /\ TypeOK' /\ WatermarkInv /\ [Next]_vars => WatermarkInv'
<1>. SUFFICES ASSUME TypeOK, TypeOK', WatermarkInv, [Next]_vars PROVE WatermarkInv'
  OBVIOUS
<1>. DEFINE W(c) ==
       /\ pc[c] # "idle" => open[c]
       /\ pc[c] \notin {"idle", "snapshot", "refresh"} => SameGuarded(dyn[c].signals, seen[c])
       /\ open[c] /\ checked[c] => SameGuarded(memo[c].signals, seen[c])
       /\ holds[c] => dyn[c] = dynamic
<1>0. (\A c \in Cursors : W(c)) /\ ((\A c \in Cursors : W(c)') => WatermarkInv')
  BY DEF WatermarkInv
<1>1. ASSUME NEW c \in Cursors, Host(c) PROVE WatermarkInv'
  <2>1. UNCHANGED <<dynamic, dyn, pc, holds>>
    BY <1>1, HostFrame DEF kernelVars, reqVars
  <2>2. ASSUME NEW d \in Cursors, UNCHANGED <<open[d], seen[d], checked[d], memo[d]>> PROVE W(d)'
    BY <1>0, <2>1, <2>2 DEF SameGuarded
  <2>3. CASE UNCHANGED <<open, seen, checked, memo>>
    BY <1>0, <2>2, <2>3
  <2>4. CASE Begin(c)
    <3>1. \A d \in Cursors \ {c} : UNCHANGED <<open[d], seen[d], checked[d], memo[d]>>
      BY <2>4 DEF Begin, TypeOK
    <3>2. W(c)'
      BY <1>0, <2>1, <2>4 DEF Begin, TypeOK
    <3>. QED BY <1>0, <2>2, <3>1, <3>2
  <2>5. CASE Commit(c) \/ Rollback(c)
    <3>1. \A d \in Cursors \ {c} : UNCHANGED <<open[d], seen[d], checked[d], memo[d]>>
      BY <2>5 DEF Commit, Rollback, EndTx, TypeOK, memoVars
    <3>2. W(c)'
      BY <1>0, <2>1, <2>5 DEF Commit, Rollback, EndTx, TypeOK
    <3>. QED BY <1>0, <2>2, <3>1, <3>2
  <2>. QED
    BY <1>1, <2>3, <2>4, <2>5
       DEF Host, WriteSecurityModel, WriteUser, WriteRow, SignalChanges, SignalNothing, txVars, memoVars
<1>2. ASSUME NEW c \in Cursors, Dispatch(c) PROVE WatermarkInv'
  <2>1. UNCHANGED <<open, seen>>
    BY <1>2, DispatchFrame DEF txVars
  <2>2. ASSUME UNCHANGED <<dynamic, memo, checked>>, W(c)',
               \A d \in Cursors \ {c} : UNCHANGED <<pc[d], dyn[d], holds[d]>>
        PROVE  WatermarkInv'
    BY <1>0, <2>1, <2>2 DEF SameGuarded
  <2>3. ASSUME Return(c), UNCHANGED <<dynamic, memo, checked>> PROVE WatermarkInv'
    <3>1. /\ pc'[c] = "idle" /\ ~holds'[c]
          /\ \A d \in Cursors \ {c} : UNCHANGED <<pc[d], dyn[d], holds[d]>>
      BY <2>3 DEF Return, Goto, TypeOK
    <3>2. W(c)'
      BY <1>0, <2>1, <2>3, <3>1
    <3>. QED BY <2>2, <2>3, <3>1, <3>2
  <2>4. ASSUME pc[c] # "idle", UNCHANGED <<dynamic, memo, checked>>,
               NEW m, NEW published \in BOOLEAN, NEW next, Hold(c, m, published, next),
               published => m = dynamic,
               next \notin {"snapshot", "refresh"} => SameGuarded(m.signals, seen[c])
        PROVE  WatermarkInv'
    <3>1. /\ pc'[c] = next /\ dyn'[c] = m /\ holds'[c] = published
          /\ \A d \in Cursors \ {c} : UNCHANGED <<pc[d], dyn[d], holds[d]>>
      BY <2>4 DEF Hold, Goto, TypeOK
    <3>2. W(c)'
      BY <1>0, <2>1, <2>4, <3>1 DEF SameGuarded
    <3>. QED BY <2>2, <2>4, <3>1, <3>2
  <2>5. ASSUME pc[c] \notin {"idle", "snapshot", "refresh"}, NEW next \in Labels, Goto(c, next),
               UNCHANGED <<dynamic, memo, checked, dyn, holds>>
        PROVE  WatermarkInv'
    <3>1. pc'[c] = next /\ \A d \in Cursors \ {c} : UNCHANGED <<pc[d], dyn[d], holds[d]>>
      BY <2>5 DEF Goto, TypeOK
    <3>2. W(c)'
      BY <1>0, <2>1, <2>5, <3>1 DEF SameGuarded
    <3>. QED BY <2>2, <2>5, <3>1, <3>2
  <2>6. CASE \E u \in Users, super \in SuperModes : Route(c, u, super)
    <3>1. /\ open[c] /\ pc[c] = "idle" /\ pc'[c] = "snapshot"
          /\ \A d \in Cursors \ {c} : UNCHANGED <<pc[d], dyn[d], holds[d]>>
          /\ UNCHANGED <<dyn, holds, dynamic, memo, checked>>
      BY <2>6 DEF Route, Goto, TypeOK, kernelVars, memoVars
    <3>2. W(c)'
      BY <1>0, <2>1, <3>1 DEF SameGuarded
    <3>. QED BY <2>2, <3>1, <3>2
  <2>7. CASE Recheck(c)
    <3>1. pc[c] # "idle" /\ SameGuarded(memo[c].signals, seen[c]) /\ UNCHANGED <<dynamic, memo, checked>>
      BY <1>0, <2>7 DEF Recheck, kernelVars, memoVars
    <3>. QED BY <2>3, <2>4, <2>7, <3>1 DEF Recheck
  <2>8. CASE check_signaling(c)
    <3>1. pc[c] # "idle" /\ UNCHANGED <<dynamic, memo, checked>>
      BY <2>8 DEF check_signaling, memoVars
    <3>2. ASSUME ~snapshot_precedes(seen[c], dynamic.signals), Unmoved(c)
          PROVE  SameGuarded(dynamic.signals, seen[c])
      <4>1. seen[c] \in [Tables -> Nat] /\ dynamic.signals \in [Tables -> Nat]
        BY DEF TypeOK, Dynamic, Signals
      <4>2. CASE ~ \E t \in Tables : seen[c][t] > dynamic.signals[t]
        BY <3>2, <4>1, <4>2 DEF snapshot_precedes, GuardedTables, Tables, SameGuarded
      <4>3. CASE signal_change(dynamic.signals, seen[c]) = "None"
        <5>1. dynamic.signals = seen[c]
          BY <4>3 DEF signal_change
        <5>. QED BY <5>1 DEF SameGuarded
      <4>. QED BY <3>2, <4>2, <4>3 DEF Unmoved
    <3>3. ASSUME signal_change(dynamic.signals, seen[c]) = "Irrelevant"
          PROVE  SameGuarded(dynamic.signals, seen[c])
      BY <3>3 DEF signal_change, Moved, SameGuarded, GuardedTables
    <3>. QED BY <2>3, <2>4, <2>8, <3>1, <3>2, <3>3 DEF check_signaling
  <2>9. CASE stamp_signals(c)
    <3> DEFINE fresh == [dyn[c] EXCEPT !.signals = seen[c]]
    <3>1. fresh.signals = seen[c]
      BY DEF TypeOK, Dynamic
    <3>2. /\ pc[c] = "stamp" /\ pc'[c] = "env" /\ dyn'[c] = fresh
          /\ \A d \in Cursors \ {c} : UNCHANGED <<pc[d], dyn[d]>>
          /\ UNCHANGED <<memo, checked>>
      BY <2>9 DEF stamp_signals, Goto, TypeOK, memoVars
    <3>3. /\ holds[c] => dynamic' = fresh /\ \A d \in Cursors : holds'[d] = (d = c)
          /\ ~holds[c] => dynamic' = dynamic /\ holds' = holds
      BY <2>9 DEF stamp_signals
    <3>. HIDE DEF fresh
    <3>4. W(c)'
      BY <1>0, <2>1, <3>1, <3>2, <3>3 DEF SameGuarded
    <3>5. ASSUME NEW d \in Cursors \ {c} PROVE W(d)'
      <4>1. holds'[d] => holds[d] /\ dynamic' = dynamic
        BY <3>3
      <4>2. /\ pc'[d] = pc[d] /\ dyn'[d] = dyn[d] /\ memo'[d] = memo[d] /\ checked'[d] = checked[d]
            /\ open'[d] = open[d] /\ seen'[d] = seen[d]
        BY <2>1, <3>2
      <4>. QED BY <1>0, <4>1, <4>2 DEF SameGuarded
    <3>. QED BY <1>0, <3>4, <3>5
  <2>10. CASE refresh_dynamic(c)
    <3> DEFINE fresh == [data |-> data[c], signals |-> seen[c]]
    <3>1. /\ pc[c] = "refresh" /\ pc'[c] = "clear" /\ dyn'[c] = fresh /\ dynamic' = fresh
          /\ \A d \in Cursors \ {c} : UNCHANGED <<pc[d], dyn[d]>>
          /\ \A d \in Cursors : holds'[d] = (d = c)
          /\ UNCHANGED <<memo, checked>>
      BY <2>10 DEF refresh_dynamic, Goto, TypeOK, memoVars
    <3>2. fresh.signals = seen[c]
      OBVIOUS
    <3>. HIDE DEF fresh
    <3>3. W(c)'
      BY <1>0, <2>1, <3>1, <3>2 DEF SameGuarded
    <3>4. ASSUME NEW d \in Cursors \ {c} PROVE W(d)'
      <4>1. ~holds'[d]
        BY <3>1
      <4>2. /\ pc'[d] = pc[d] /\ dyn'[d] = dyn[d] /\ memo'[d] = memo[d] /\ checked'[d] = checked[d]
            /\ open'[d] = open[d] /\ seen'[d] = seen[d]
        BY <2>1, <3>1
      <4>. QED BY <1>0, <4>1, <4>2 DEF SameGuarded
    <3>. QED BY <1>0, <3>3, <3>4
  <2>11. CASE Reply(c)
    <3>1. /\ pc[c] = "reply" /\ pc'[c] = "idle" /\ ~holds'[c]
          /\ \A d \in Cursors \ {c} : UNCHANGED <<pc[d], dyn[d], holds[d], memo[d], checked[d]>>
          /\ memo'[c] = (IF checked[c] THEN memo[c] ELSE dyn[c])
          /\ UNCHANGED dynamic
      BY <2>11 DEF Reply, Return, Goto, TypeOK, kernelVars
    <3>2. \A d \in Cursors : W(d)'
      BY <1>0, <2>1, <3>1 DEF SameGuarded
    <3>. QED BY <1>0, <3>2
  <2>12. CASE Fail(c)
    BY <2>3, <2>12 DEF Fail, kernelVars, memoVars
  <2>. QED
    BY <1>2, <2>5, <2>6, <2>7, <2>8, <2>9, <2>10, <2>11, <2>12
       DEF Dispatch, ClearRules, ClearEnvs, EnvHit, EnvMiss, FillEnv, RulesHit, RulesMiss,
           CompileRules, Evict, kernelVars, reqVars, memoVars, Labels
<1>3. CASE UNCHANGED <<open, seen, checked, memo, dynamic, dyn, pc, holds>>
  BY <1>3 DEF WatermarkInv, SameGuarded
<1>. QED
  BY <1>1, <1>2, <1>3
     DEF Next, ForeignSignal, vars, txVars, kernelVars, reqVars, memoVars

-----------------------------------------------------------------------------
(* Caches. *)

\* Every step leaves cached identities covering what their key announces.
LEMMA NextCache ==
  TypeOK /\ TypeOK' /\ LabelInv /\ WatermarkInv /\ CacheInv /\ [Next]_vars => CacheInv'
<1>. SUFFICES ASSUME TypeOK, TypeOK', LabelInv, WatermarkInv, CacheInv, [Next]_vars
              PROVE  CacheInv'
  OBVIOUS
<1>. DEFINE EnvOK(x) ==
              /\ \A t \in SecTables : x.signals[t] <= signals[t]
              /\ \A a \in announced : a.subject = x.uid /\ a.id <= x.signals[a.table] =>
                   a.write <= x.value.row /\ a.write <= x.value.groups
            RuleOK(x) ==
              /\ \A t \in SecTables : x.signals[t] <= signals[t]
              /\ \A a \in announced : a.id <= x.signals[a.table] =>
                   /\ a.subject = x.uid => a.write <= x.value.row
                   /\ a.subject = Shared => a.write <= x.value.rules
<1>0. /\ \A x \in env_cache : EnvOK(x)
      /\ \A x \in rule_cache : RuleOK(x)
  BY DEF CacheInv
<1>1. ASSUME UNCHANGED <<signals, announced>>,
             \A x \in env_cache' : EnvOK(x), \A x \in rule_cache' : RuleOK(x)
      PROVE  CacheInv'
  BY <1>1 DEF CacheInv
<1>2. ASSUME NEW t \in Tables, signals' = [signals EXCEPT ![t] = @ + 1],
             \A a \in announced' : a \in announced \/ (a.table = t /\ a.id = signals[t] + 1),
             UNCHANGED <<env_cache, rule_cache>>
      PROVE  CacheInv'
  <2>1. signals \in [Tables -> Nat] /\ \A r \in SecTables : signals[r] <= signals'[r]
    BY <1>2 DEF TypeOK, Signals, Tables
  <2>2. ASSUME NEW s \in [SecTables -> Nat], \A r \in SecTables : s[r] <= signals[r]
        PROVE  \A r \in SecTables : s[r] <= signals'[r]
    BY <2>1, <2>2 DEF TypeOK, Signals, Tables
  <2>3. ASSUME NEW s \in [SecTables -> Nat], \A r \in SecTables : s[r] <= signals[r],
               NEW a \in announced', a.id <= s[a.table]
        PROVE  a \in announced
    <3>1. a.table \in SecTables
      BY DEF TypeOK
    <3>. QED BY <1>2, <2>1, <2>3, <3>1
  <2>4. \A x \in env_cache : x.signals \in [SecTables -> Nat]
    BY DEF TypeOK, EnvEntry
  <2>5. \A x \in rule_cache : x.signals \in [SecTables -> Nat]
    BY DEF TypeOK, RuleEntry
  <2>6. \A x \in env_cache : EnvOK(x)'
    BY <1>0, <2>2, <2>3, <2>4
  <2>7. \A x \in rule_cache : RuleOK(x)'
    BY <1>0, <2>2, <2>3, <2>5
  <2>. QED BY <1>2, <2>6, <2>7 DEF CacheInv
<1>3. ASSUME NEW c \in Cursors, Host(c) PROVE CacheInv'
  <2>1. UNCHANGED <<env_cache, rule_cache>>
    BY <1>3, HostFrame DEF kernelVars
  <2>2. ASSUME NEW t \in SecTables, SignalChanges(c, t) PROVE CacheInv'
    <3>1. \A a \in announced' : a \in announced \/ (a.table = t /\ a.id = signals[t] + 1)
      BY <2>2 DEF SignalChanges
    <3>2. signals' = [signals EXCEPT ![t] = @ + 1] /\ t \in Tables
      BY <2>2 DEF SignalChanges, Tables
    <3>. QED BY <1>2, <2>1, <3>1, <3>2
  <2>3. CASE UNCHANGED <<signals, announced>>
    BY <1>0, <1>1, <2>1, <2>3
  <2>. QED
    BY <1>3, <2>2, <2>3
       DEF Host, Begin, WriteSecurityModel, WriteUser, WriteRow, Commit, Rollback, SignalNothing, dbVars
<1>4. ASSUME NEW c \in Cursors, Dispatch(c) PROVE CacheInv'
  <2>1. UNCHANGED <<signals, announced>>
    BY <1>4, DispatchFrame DEF dbVars
  <2>2. CASE env_cache' \subseteq env_cache /\ rule_cache' \subseteq rule_cache
    BY <1>0, <1>1, <2>1, <2>2
  <2>3. ASSUME pc[c] \in {"fill_env", "compile"}
        PROVE  /\ \A t \in SecTables : /\ security_signals(dyn[c].signals)[t] = dyn[c].signals[t]
                                       /\ dyn[c].signals[t] = seen[c][t]
                                       /\ dyn[c].signals[t] <= signals[t]
               /\ \A a \in announced : a.id <= security_signals(dyn[c].signals)[a.table] =>
                    a.write <= data[c][a.subject] /\ a.write <= dyn[c].data[a.subject]
    <3>1. \A t \in SecTables : dyn[c].signals[t] = seen[c][t]
      BY <2>3 DEF WatermarkInv, SameGuarded, GuardedTables
    <3>2. \A t \in SecTables : security_signals(dyn[c].signals)[t] = dyn[c].signals[t]
      BY DEF security_signals
    <3>3. \A t \in SecTables : dyn[c].signals[t] <= signals[t]
      BY DEF LabelInv, Labelled, Reached, Tables
    <3>4. \A a \in announced : a.table \in SecTables
      BY DEF TypeOK
    <3>. QED BY <3>1, <3>2, <3>3, <3>4 DEF LabelInv, Labelled, Covers
  <2>4. CASE FillEnv(c)
    <3> DEFINE sigs == security_signals(dyn[c].signals)
               value == [row |-> data[c][uid[c]], groups |-> dyn[c].data[uid[c]]]
               new == [uid |-> uid[c], signals |-> sigs, value |-> value]
    <3>1. pc[c] = "fill_env" /\ rule_cache' = rule_cache
          /\ \A x \in env_cache' : x \in env_cache \/ x = new
      BY <2>4 DEF FillEnv
    <3>2. EnvOK(new)
      BY <2>3, <3>1
    <3>. QED BY <1>0, <1>1, <2>1, <3>1, <3>2
  <2>5. CASE CompileRules(c)
    <3> DEFINE sigs == security_signals(dyn[c].signals)
               value == [rules |-> dyn[c].data[Shared], row |-> data[c][uid[c]]]
               new == [uid |-> uid[c], env |-> env[c], signals |-> sigs, value |-> value]
    <3>1. pc[c] = "compile" /\ env_cache' = env_cache
          /\ \A x \in rule_cache' : x \in rule_cache \/ x = new
      BY <2>5 DEF CompileRules
    <3>2. RuleOK(new)
      BY <2>3, <3>1
    <3>. QED BY <1>0, <1>1, <2>1, <3>1, <3>2
  <2>. QED
    BY <1>4, <2>2, <2>4, <2>5
       DEF Dispatch, Route, Recheck, check_signaling, stamp_signals, refresh_dynamic, ClearRules,
           ClearEnvs, EnvHit, EnvMiss, RulesHit, RulesMiss, Evict, evict, Reply, Fail, kernelVars
<1>5. ASSUME NEW t \in ForeignTables, ForeignSignal(t) PROVE CacheInv'
  BY <1>2, <1>5, TablesAssumption DEF ForeignSignal, Tables, kernelVars
<1>6. CASE UNCHANGED vars
  BY <1>0, <1>1, <1>6 DEF vars, dbVars, kernelVars
<1>. QED BY <1>3, <1>4, <1>5, <1>6 DEF Next

-----------------------------------------------------------------------------
(* Requests. *)

\* Every step leaves a resolved identity covering what its transaction sees.
LEMMA NextRequest ==
  TypeOK /\ TypeOK' /\ LabelInv /\ WatermarkInv /\ CacheInv /\ RequestInv /\ [Next]_vars
    => RequestInv'
<1>. SUFFICES ASSUME TypeOK, TypeOK', LabelInv, WatermarkInv, CacheInv, RequestInv, [Next]_vars
              PROVE  RequestInv'
  OBVIOUS
<1>. DEFINE EnvOK(c) == \A a \in Announced(c, uid[c]) :
                          a.write <= env[c].row /\ a.write <= env[c].groups
            RulesOK(c) == /\ \A a \in Announced(c, uid[c]) : a.write <= rules[c].row
                          /\ \A a \in Announced(c, Shared) : a.write <= rules[c].rules
            R(c) == /\ pc[c] \in {"rules", "compile", "evict"} => ~su[c]
                    /\ pc[c] \in {"rules", "compile", "evict", "reply"} => EnvOK(c)
                    /\ pc[c] \in {"evict", "reply"} /\ ~su[c] => RulesOK(c)
<1>0. (\A c \in Cursors : R(c)) /\ ((\A c \in Cursors : R(c)') => RequestInv')
  BY DEF RequestInv
<1>1. ASSUME UNCHANGED <<pc, uid, su, env, rules>>,
             \A c \in Cursors : pc[c] # "idle" =>
               \A s \in Users \cup {Shared} : Announced(c, s)' \subseteq Announced(c, s)
      PROVE  RequestInv'
  <2>1. \A c \in Cursors : pc[c] # "idle" => uid[c] \in Users
    BY DEF TypeOK
  <2>2. \A c \in Cursors : R(c)'
    BY <1>0, <1>1, <2>1
  <2>. QED BY <1>0, <2>2
<1>2. ASSUME NEW t \in Tables, signals' = [signals EXCEPT ![t] = @ + 1],
             \A a \in announced' : a \in announced \/ (a.table = t /\ a.id = signals[t] + 1),
             UNCHANGED <<seen, pc, uid, su, env, rules>>
      PROVE  RequestInv'
  <2>1. ASSUME NEW c \in Cursors, NEW s, NEW a \in Announced(c, s)'
        PROVE  a \in Announced(c, s)
    <3>1. a \in announced' /\ a.subject = s /\ a.id <= seen[c][a.table]
      BY <1>2 DEF Announced
    <3>2. seen[c][t] <= signals[t] /\ seen[c][t] \in Nat /\ signals[t] \in Nat
      BY DEF LabelInv, Reached, TypeOK, Signals
    <3>3. a \in announced
      BY <1>2, <3>1, <3>2
    <3>. QED BY <3>1, <3>3 DEF Announced
  <2>. QED BY <1>1, <1>2, <2>1
<1>3. ASSUME NEW c \in Cursors, Host(c) PROVE RequestInv'
  <2>1. UNCHANGED <<pc, uid, su, env, rules>>
    BY <1>3, HostFrame DEF reqVars
  <2>2. CASE UNCHANGED <<announced, seen>>
    BY <1>1, <2>1, <2>2 DEF Announced
  <2>3. CASE Begin(c) \/ Commit(c) \/ Rollback(c)
    <3>1. pc[c] = "idle" /\ \A d \in Cursors \ {c} : seen'[d] = seen[d]
      BY <2>3 DEF Begin, Commit, Rollback, EndTx, TypeOK
    <3>2. UNCHANGED announced
      BY <2>3 DEF Begin, Commit, Rollback, dbVars
    <3>. QED BY <1>1, <2>1, <3>1, <3>2 DEF Announced
  <2>4. ASSUME NEW t \in SecTables, SignalChanges(c, t) PROVE RequestInv'
    <3>1. \A a \in announced' : a \in announced \/ (a.table = t /\ a.id = signals[t] + 1)
      BY <2>4 DEF SignalChanges
    <3>2. signals' = [signals EXCEPT ![t] = @ + 1] /\ t \in Tables /\ UNCHANGED seen
      BY <2>4 DEF SignalChanges, Tables
    <3>. QED BY <1>2, <2>1, <3>1, <3>2
  <2>. QED
    BY <1>3, <2>2, <2>3, <2>4
       DEF Host, WriteSecurityModel, WriteUser, WriteRow, SignalNothing, dbVars, txVars
<1>4. ASSUME NEW c \in Cursors, Dispatch(c) PROVE RequestInv'
  <2>1. UNCHANGED <<announced, seen, data>>
    BY <1>4, DispatchFrame DEF dbVars, txVars
  <2>2. \A d \in Cursors : \A s : Announced(d, s)' = Announced(d, s)
    BY <2>1 DEF Announced
  <2>3. ASSUME R(c)', \A d \in Cursors \ {c} : UNCHANGED <<pc[d], uid[d], su[d], env[d], rules[d]>>
        PROVE  RequestInv'
    <3>1. ASSUME NEW d \in Cursors \ {c} PROVE R(d)'
      BY <1>0, <2>1, <2>3 DEF Announced
    <3>. QED BY <1>0, <2>3, <3>1
  <2>4. ASSUME Return(c) PROVE RequestInv'
    <3>1. pc'[c] = "idle" /\ \A d \in Cursors \ {c} : UNCHANGED <<pc[d], uid[d], su[d], env[d], rules[d]>>
      BY <2>4 DEF Return, Goto, TypeOK
    <3>. QED BY <2>3, <3>1
  <2>5. ASSUME NEW next \in Labels \ {"rules", "compile", "evict", "reply"}, Goto(c, next),
               \A d \in Cursors \ {c} : UNCHANGED <<uid[d], su[d], env[d], rules[d]>>
        PROVE  RequestInv'
    <3>1. pc'[c] = next /\ \A d \in Cursors \ {c} : UNCHANGED pc[d]
      BY <2>5 DEF Goto, TypeOK
    <3>2. R(c)'
      BY <3>1
    <3>. QED BY <2>3, <2>5, <3>1, <3>2
  <2>6. \A a \in announced : a.table \in SecTables /\ security_signals(dyn[c].signals)[a.table] = dyn[c].signals[a.table]
    BY DEF TypeOK, security_signals
  <2>7. ASSUME pc[c] \notin {"idle", "snapshot", "refresh"}
        PROVE  \A a \in announced : seen[c][a.table] = dyn[c].signals[a.table]
    BY <2>6, <2>7 DEF WatermarkInv, SameGuarded, GuardedTables
  <2>8. ASSUME pc[c] = "env" \/ pc[c] = "fill_env",
               NEW v, \A a \in Announced(c, uid[c]) : a.write <= v.row /\ a.write <= v.groups,
               env' = [env EXCEPT ![c] = v], UNCHANGED <<uid, su, rules>>,
               Goto(c, IF su[c] THEN "reply" ELSE "rules")
        PROVE  RequestInv'
    <3>1. env'[c] = v /\ pc'[c] = (IF su[c] THEN "reply" ELSE "rules")
          /\ \A d \in Cursors \ {c} : UNCHANGED <<pc[d], uid[d], su[d], env[d], rules[d]>>
      BY <2>8 DEF Goto, TypeOK
    <3>2. EnvOK(c)'
      BY <2>2, <2>8, <3>1
    <3>3. R(c)'
      BY <2>8, <3>1, <3>2
    <3>. QED BY <2>3, <3>1, <3>3
  <2>9. CASE EnvHit(c)
    <3>1. PICK x \in env_cache : x.uid = uid[c] /\ x.signals = security_signals(dyn[c].signals)
                                 /\ env' = [env EXCEPT ![c] = x.value]
      BY <2>9 DEF EnvHit, EnvHits
    <3>2. pc[c] = "env"
      BY <2>9 DEF EnvHit
    <3>3. \A a \in Announced(c, uid[c]) : a.write <= x.value.row /\ a.write <= x.value.groups
      BY <2>6, <2>7, <3>1, <3>2 DEF CacheInv, Announced
    <3>. QED BY <2>8, <2>9, <3>1, <3>2, <3>3 DEF EnvHit
  <2>10. CASE FillEnv(c)
    <3> DEFINE value == [row |-> data[c][uid[c]], groups |-> dyn[c].data[uid[c]]]
    <3>1. pc[c] = "fill_env" /\ env' = [env EXCEPT ![c] = value] /\ UNCHANGED <<uid, su, rules>>
          /\ Goto(c, IF su[c] THEN "reply" ELSE "rules")
      BY <2>10 DEF FillEnv
    <3>2. \A a \in Announced(c, uid[c]) : a.write <= value.row /\ a.write <= value.groups
      BY <2>7, <3>1 DEF Announced, LabelInv, Labelled, Covers
    <3>. HIDE DEF value
    <3>. QED BY <2>8, <3>1, <3>2
  <2>11. ASSUME pc[c] = "rules" \/ pc[c] = "compile", NEW next \in {"reply", "evict"},
                NEW v, \A a \in Announced(c, uid[c]) : a.write <= v.row,
                \A a \in Announced(c, Shared) : a.write <= v.rules,
                rules' = [rules EXCEPT ![c] = v], UNCHANGED <<uid, su, env>>, Goto(c, next)
         PROVE  RequestInv'
    <3>1. rules'[c] = v /\ pc'[c] = next
          /\ \A d \in Cursors \ {c} : UNCHANGED <<pc[d], uid[d], su[d], env[d], rules[d]>>
      BY <2>11 DEF Goto, TypeOK
    <3>2. EnvOK(c)' /\ RulesOK(c)' /\ ~su'[c]
      BY <1>0, <2>2, <2>11, <3>1
    <3>. QED BY <2>3, <3>1, <3>2
  <2>12. CASE RulesHit(c)
    <3>1. PICK x \in rule_cache : x.uid = uid[c] /\ x.signals = security_signals(dyn[c].signals)
                                  /\ rules' = [rules EXCEPT ![c] = x.value]
      BY <2>12 DEF RulesHit, RuleHits
    <3>2. pc[c] = "rules"
      BY <2>12 DEF RulesHit
    <3>3. /\ \A a \in Announced(c, uid[c]) : a.write <= x.value.row
          /\ \A a \in Announced(c, Shared) : a.write <= x.value.rules
      BY <2>6, <2>7, <3>1, <3>2 DEF CacheInv, Announced
    <3>. QED BY <2>11, <2>12, <3>1, <3>2, <3>3 DEF RulesHit
  <2>13. CASE CompileRules(c)
    <3> DEFINE value == [rules |-> dyn[c].data[Shared], row |-> data[c][uid[c]]]
    <3>1. pc[c] = "compile" /\ rules' = [rules EXCEPT ![c] = value] /\ UNCHANGED <<uid, su, env>>
          /\ Goto(c, "evict")
      BY <2>13 DEF CompileRules
    <3>2. /\ \A a \in Announced(c, uid[c]) : a.write <= value.row
          /\ \A a \in Announced(c, Shared) : a.write <= value.rules
      BY <2>7, <3>1 DEF Announced, LabelInv, Labelled, Covers
    <3>. HIDE DEF value
    <3>. QED BY <2>11, <3>1, <3>2
  <2>14. CASE RulesMiss(c) \/ Evict(c)
    <3>1. /\ UNCHANGED <<uid, su, env, rules>>
          /\ \/ pc[c] = "rules" /\ pc'[c] = "compile"
             \/ pc[c] = "evict" /\ pc'[c] = "reply"
          /\ \A d \in Cursors \ {c} : UNCHANGED pc[d]
      BY <2>14 DEF RulesMiss, Evict, Goto, TypeOK, reqVars
    <3>2. R(c)'
      BY <1>0, <2>2, <3>1
    <3>. QED BY <2>3, <3>1, <3>2
  <2>15. CASE \E u \in Users, super \in SuperModes : Route(c, u, super)
    BY <2>5, <2>15 DEF Route, Labels, TypeOK
  <2>16. CASE Recheck(c)
    BY <2>4, <2>5, <2>16 DEF Recheck, Hold, Labels
  <2>17. CASE check_signaling(c)
    BY <2>4, <2>5, <2>17 DEF check_signaling, Hold, Labels
  <2>. QED
    BY <1>4, <2>4, <2>5, <2>9, <2>10, <2>12, <2>13, <2>14, <2>15, <2>16, <2>17
       DEF Dispatch, stamp_signals, refresh_dynamic, ClearRules, ClearEnvs, EnvMiss, Reply, Fail,
           reqVars, Labels
<1>5. ASSUME NEW t \in ForeignTables, ForeignSignal(t) PROVE RequestInv'
  BY <1>2, <1>5, TablesAssumption DEF ForeignSignal, Tables, txVars, reqVars
<1>6. CASE UNCHANGED vars
  BY <1>1, <1>6 DEF vars, dbVars, txVars, reqVars, Announced
<1>. QED BY <1>3, <1>4, <1>5, <1>6 DEF Next

-----------------------------------------------------------------------------
(* The theorems. *)

\* The inductive invariant holds initially.
LEMMA InitSnapshot == Init => SnapshotInv
<1>. SUFFICES ASSUME Init PROVE SnapshotInv
  OBVIOUS
<1>1. TypeOK
  BY InitType
<1>2. DatabaseInv
  BY DEF Init, DatabaseInv
<1>3. LabelInv
  BY DEF Init, LabelInv, Labelled, Reached, Covers, NoDynamic
<1>4. WatermarkInv /\ CacheInv /\ RequestInv
  BY DEF Init, WatermarkInv, CacheInv, RequestInv
<1>. QED BY <1>1, <1>2, <1>3, <1>4 DEF SnapshotInv

\* Every step keeps every label honest.
THEOREM SnapshotInvariant == Spec => []SnapshotInv
<1>1. SnapshotInv /\ [Next]_vars => SnapshotInv'
  BY NextType, NextDatabase, NextLabel, NextWatermark, NextCache, NextRequest DEF SnapshotInv
<1>. QED BY InitSnapshot, <1>1, PTL DEF Spec

\* Every variable keeps its shape, for any number of cursors, users and
\* signalling tables.
THEOREM TypeCorrect == Spec => []TypeOK
<1>1. SnapshotInv => TypeOK
  BY DEF SnapshotInv
<1>. QED BY SnapshotInvariant, <1>1, PTL

\* Whatever the interleaving of writers, signals, refreshes and cached
\* identities, an answer's metadata contains every change that the request's
\* snapshot shows as signalled (orm.rs check_signaling).
THEOREM ServedMetadataIsCurrent == Spec => []ServedCoversSignals
<1>1. SnapshotInv => ServedCoversSignals
  <2>. SUFFICES ASSUME SnapshotInv, NEW c \in Cursors, pc[c] = "reply"
                PROVE  /\ \A a \in Announced(c, uid[c]) :
                            /\ a.write <= env[c].row /\ a.write <= env[c].groups
                            /\ su[c] \/ a.write <= rules[c].row
                       /\ \A a \in Announced(c, Shared) :
                            /\ a.write <= dyn[c].data[Shared]
                            /\ su[c] \/ a.write <= rules[c].rules
    BY DEF ServedCoversSignals
  <2>1. \A a \in Announced(c, Shared) : a.write <= dyn[c].data[Shared]
    <3>1. \A a \in announced : a.table \in SecTables
      BY DEF SnapshotInv, TypeOK
    <3>2. \A a \in announced : dyn[c].signals[a.table] = seen[c][a.table]
      BY <3>1 DEF SnapshotInv, WatermarkInv, SameGuarded, GuardedTables
    <3>. QED BY <3>2 DEF SnapshotInv, LabelInv, Labelled, Covers, Announced
  <2>. QED BY <2>1 DEF SnapshotInv, RequestInv
<1>. QED BY SnapshotInvariant, <1>1, PTL

\* An answer is computed under the metadata of its own transaction's watermark.
THEOREM ServedMetadataIsOwn == Spec => []ServedAtOwnWatermark
<1>1. SnapshotInv => ServedAtOwnWatermark
  BY DEF SnapshotInv, WatermarkInv, SameGuarded, ServedAtOwnWatermark
<1>. QED BY SnapshotInvariant, <1>1, PTL

\* A signal without security only relabels: it never undoes a refresh it raced
\* (registry.rs stamp_signals).
THEOREM StampsKeepContent == Spec => StampKeepsContent
<1>1. SnapshotInv /\ [Next]_vars =>
        [\A c \in Cursors : stamp_signals(c) =>
          /\ dynamic'.data = dynamic.data
          /\ security_signals(dynamic'.signals) = security_signals(dynamic.signals)]_vars
  <2>. SUFFICES ASSUME SnapshotInv, NEW c \in Cursors, stamp_signals(c)
                PROVE  /\ dynamic'.data = dynamic.data
                       /\ security_signals(dynamic'.signals) = security_signals(dynamic.signals)
    OBVIOUS
  <2>1. CASE ~holds[c]
    BY <2>1 DEF stamp_signals
  <2>2. CASE holds[c]
    <3>1. dynamic' = [dyn[c] EXCEPT !.signals = seen[c]]
      BY <2>2 DEF stamp_signals
    <3>2. dyn[c] = dynamic /\ dynamic \in Dynamic
      BY <2>2 DEF SnapshotInv, WatermarkInv, TypeOK
    <3>3. \A t \in SecTables : dynamic.signals[t] = seen[c][t]
      BY <3>2 DEF stamp_signals, SnapshotInv, WatermarkInv, SameGuarded, GuardedTables
    <3>4. dynamic'.data = dynamic.data /\ dynamic'.signals = seen[c]
      BY <3>1, <3>2 DEF Dynamic
    <3>. QED BY <3>3, <3>4 DEF security_signals
  <2>. QED BY <2>1, <2>2
<1>. QED BY SnapshotInvariant, <1>1, PTL DEF Spec, StampKeepsContent
-----------------------------------------------------------------------------
(* The model map. *)

\* Every step leaves every label at the registry signal of the kernel's map: a move
\* of that signal ends the dispatch that notices it.
LEMMA NextMap == TypeOK /\ TypeOK' /\ MapInv /\ [Next]_vars => MapInv'
<1>. SUFFICES ASSUME TypeOK, TypeOK', MapInv, [Next]_vars PROVE MapInv'
  OBVIOUS
<1>. DEFINE G(c) ==
       /\ dyn[c].signals[Registry] = BuiltAt
       /\ memo[c].signals[Registry] = BuiltAt
       /\ pc[c] \in {"stamp", "refresh"} => seen[c][Registry] = BuiltAt
<1>0. /\ dynamic.signals[Registry] = BuiltAt
      /\ \A c \in Cursors : G(c)
      /\ dynamic'.signals[Registry] = BuiltAt /\ (\A c \in Cursors : G(c)') => MapInv'
  BY DEF MapInv, BuiltAt
<1>1. NoDynamic.signals[Registry] = BuiltAt
  BY DEF BuiltAt
<1>. HIDE DEF G
<1>2. ASSUME NEW c \in Cursors, Host(c) PROVE MapInv'
  <2>1. UNCHANGED <<dynamic, dyn, pc>>
    BY <1>2, HostFrame DEF kernelVars, reqVars
  <2>2. ASSUME NEW d \in Cursors, UNCHANGED <<seen[d], memo[d]>> PROVE G(d)'
    BY <1>0, <2>1, <2>2 DEF G, BuiltAt
  <2>3. CASE UNCHANGED <<seen, memo>>
    BY <1>0, <2>1, <2>2, <2>3
  <2>4. CASE Begin(c) \/ Commit(c) \/ Rollback(c)
    <3>1. /\ pc[c] = "idle" /\ memo'[c] \in {memo[c], NoDynamic}
          /\ \A d \in Cursors \ {c} : UNCHANGED <<seen[d], memo[d]>>
      BY <2>4 DEF Begin, Commit, Rollback, EndTx, TypeOK, memoVars
    <3>2. G(c)'
      BY <1>0, <1>1, <2>1, <3>1 DEF G, BuiltAt
    <3>. QED BY <1>0, <2>1, <2>2, <3>1, <3>2
  <2>. QED
    BY <1>2, <2>3, <2>4
       DEF Host, WriteSecurityModel, WriteUser, WriteRow, SignalChanges, SignalNothing, txVars, memoVars
<1>3. ASSUME NEW c \in Cursors, Dispatch(c) PROVE MapInv'
  <2>1. UNCHANGED seen
    BY <1>3, DispatchFrame DEF txVars
  <2>2. ASSUME dynamic'.signals[Registry] = BuiltAt, dyn'[c].signals[Registry] = BuiltAt,
               pc'[c] \in {"stamp", "refresh"} => seen[c][Registry] = BuiltAt,
               memo'[c] \in {memo[c], dyn[c]},
               \A d \in Cursors \ {c} : UNCHANGED <<pc[d], dyn[d], memo[d]>>
        PROVE  MapInv'
    <3>1. G(c)'
      BY <1>0, <2>1, <2>2 DEF G, BuiltAt
    <3>2. ASSUME NEW d \in Cursors \ {c} PROVE G(d)'
      BY <1>0, <2>1, <2>2 DEF G, BuiltAt
    <3>. QED BY <1>0, <2>2, <3>1, <3>2
  <2>3. ASSUME Return(c), UNCHANGED dynamic, memo'[c] \in {memo[c], dyn[c]},
               \A d \in Cursors \ {c} : UNCHANGED memo[d]
        PROVE  MapInv'
    <3>1. /\ pc'[c] = "idle" /\ dyn'[c] = NoDynamic
          /\ \A d \in Cursors \ {c} : UNCHANGED <<pc[d], dyn[d]>>
      BY <2>3 DEF Return, Goto, TypeOK
    <3>. QED BY <1>0, <1>1, <2>2, <2>3, <3>1
  <2>4. ASSUME UNCHANGED <<dynamic, memo>>, NEW m, NEW published, NEW next,
               Hold(c, m, published, next), m.signals[Registry] = BuiltAt,
               next \in {"stamp", "refresh"} => seen[c][Registry] = BuiltAt
        PROVE  MapInv'
    <3>1. /\ pc'[c] = next /\ dyn'[c] = m
          /\ \A d \in Cursors \ {c} : UNCHANGED <<pc[d], dyn[d]>>
      BY <2>4 DEF Hold, Goto, TypeOK
    <3>. QED BY <1>0, <2>2, <2>4, <3>1
  <2>5. ASSUME NEW next \in Labels \ {"stamp", "refresh"}, Goto(c, next), UNCHANGED <<dynamic, memo, dyn>>
        PROVE  MapInv'
    <3>1. pc'[c] = next /\ \A d \in Cursors \ {c} : UNCHANGED pc[d]
      BY <2>5 DEF Goto, TypeOK
    <3>2. dyn[c].signals[Registry] = BuiltAt
      BY <1>0 DEF G
    <3>. QED BY <1>0, <2>2, <2>5, <3>1, <3>2
  <2>6. CASE Recheck(c)
    <3>1. UNCHANGED <<dynamic, memo>> /\ memo[c].signals[Registry] = BuiltAt
      BY <1>0, <2>6 DEF Recheck, kernelVars, memoVars, G
    <3>. QED BY <2>3, <2>4, <2>6, <3>1 DEF Recheck
  <2>7. CASE check_signaling(c)
    <3>1. UNCHANGED <<dynamic, memo>>
      BY <2>7 DEF check_signaling, memoVars
    <3>2. ASSUME signal_change(dynamic.signals, seen[c]) \in {"Irrelevant", "Security"}
          PROVE  seen[c][Registry] = BuiltAt
      BY <1>0, <3>2 DEF signal_change, Moved
    <3>. QED BY <1>0, <2>3, <2>4, <2>7, <3>1, <3>2 DEF check_signaling
  <2>8. CASE stamp_signals(c)
    <3>1. [dyn[c] EXCEPT !.signals = seen[c]].signals = seen[c]
      BY DEF TypeOK, Dynamic
    <3>2. seen[c][Registry] = BuiltAt
      BY <1>0, <2>8 DEF stamp_signals, G
    <3>3. /\ dyn'[c].signals = seen[c] /\ pc'[c] = "env" /\ UNCHANGED memo
          /\ dynamic' = dynamic \/ dynamic'.signals = seen[c]
          /\ \A d \in Cursors \ {c} : UNCHANGED <<pc[d], dyn[d]>>
      BY <2>8, <3>1 DEF stamp_signals, Goto, TypeOK, memoVars
    <3>. QED BY <1>0, <2>2, <3>2, <3>3
  <2>9. CASE refresh_dynamic(c)
    <3>1. seen[c][Registry] = BuiltAt
      BY <1>0, <2>9 DEF refresh_dynamic, G
    <3>2. /\ dyn'[c].signals = seen[c] /\ dynamic'.signals = seen[c] /\ pc'[c] = "clear" /\ UNCHANGED memo
          /\ \A d \in Cursors \ {c} : UNCHANGED <<pc[d], dyn[d]>>
      BY <2>9 DEF refresh_dynamic, Goto, TypeOK, memoVars
    <3>. QED BY <2>2, <3>1, <3>2
  <2>10. CASE Reply(c)
    <3>1. /\ memo'[c] \in {memo[c], dyn[c]} /\ UNCHANGED dynamic
          /\ \A d \in Cursors \ {c} : UNCHANGED memo[d]
      BY <2>10 DEF Reply, kernelVars, TypeOK
    <3>. QED BY <2>3, <2>10, <3>1 DEF Reply
  <2>11. CASE Fail(c)
    BY <2>3, <2>11 DEF Fail, kernelVars, memoVars
  <2>. QED
    BY <1>3, <2>5, <2>6, <2>7, <2>8, <2>9, <2>10, <2>11
       DEF Dispatch, Route, ClearRules, ClearEnvs, EnvHit, EnvMiss, FillEnv, RulesHit, RulesMiss,
           CompileRules, Evict, kernelVars, reqVars, memoVars, Labels
<1>4. CASE UNCHANGED <<seen, memo, dynamic, dyn, pc>>
  BY <1>4 DEF MapInv, BuiltAt
<1>. QED
  BY <1>2, <1>3, <1>4
     DEF Next, ForeignSignal, vars, txVars, kernelVars, reqVars, memoVars

\* An answer never comes from a model map that the request's own snapshot shows as
\* outdated, however often other cursors relabel and reload the metadata beside it
\* (orm.rs check_signaling).
THEOREM ServedOnOwnMap == Spec => []ServedFromOwnMap
<1>1. Init => MapInv
  BY DEF Init, MapInv, BuiltAt, NoDynamic
<1>2. MapInv /\ SnapshotInv /\ SnapshotInv' /\ [Next]_vars => MapInv'
  BY NextMap DEF SnapshotInv
<1>3. MapInv /\ SnapshotInv => ServedFromOwnMap
  BY DEF MapInv, SnapshotInv, WatermarkInv, SameGuarded, GuardedTables, ServedFromOwnMap
<1>. QED BY SnapshotInvariant, <1>1, <1>2, <1>3, PTL DEF Spec

-----------------------------------------------------------------------------
(* The taints are enough: from the write to the signal of its commit a     *)
(* cursor's reads about what it changed stay with Python, and what it has  *)
(* not committed does not get into what cursors share, for any cursors,    *)
(* any users and any number of writes.  A taint is lifted before the       *)
(* cursor's own signal only by a signal that finds a commit of the cursor  *)
(* unsignalled, and of such a signal uncovered and exposed keep the whole. *)

TaintedFor(c, s) == IF s = Shared THEN c \in DIRTY_CRS ELSE s \in DIRTY_USERS[c]
OwedFor(c, s) == IF s = Shared THEN c \in COMMITTED_DIRTY ELSE s \in COMMITTED_DIRTY_USERS[c]

\* A cursor's taints, its writes and its signal, in step.
GateAt(c) ==
    /\ \A s \in wrote[c] \cup unsignalled[c] : s \in uncovered[c] \/ TaintedFor(c, s)
    /\ \A s \in unsignalled[c] : s \in uncovered[c] \/ OwedFor(c, s)
    /\ \A s \in wrote[c] : data[c][s] \in exposed \/ TaintedFor(c, s)
    /\ c \in COMMITTED_DIRTY \/ COMMITTED_DIRTY_USERS[c] # {} => unsignalled[c] # {}
    /\ c \in DIRTY_CRS => c \in COMMITTED_DIRTY \/ wrote[c] # {}
    /\ DIRTY_USERS[c] # {} => COMMITTED_DIRTY_USERS[c] # {} \/ wrote[c] # {}
    /\ wrote[c] # {} => open[c]
    /\ pc[c] # "idle" => \A s \in {Shared, uid[c]} :
         /\ s \in wrote[c] \cup unsignalled[c] => s \in uncovered[c]
         /\ s \in wrote[c] => data[c][s] \in exposed

GateInv == \A c \in Cursors : GateAt(c)

-----------------------------------------------------------------------------
(* The gate.                                                               *)

LEMMA InitGate == Init => GateInv
BY DEF Init, GateInv, GateAt

\* What a cursor's gate rests on, beside what is exposed.
Standing(c) ==
    <<wrote[c], unsignalled[c], uncovered[c], data[c], open[c], c \in DIRTY_CRS, DIRTY_USERS[c],
      c \in COMMITTED_DIRTY, COMMITTED_DIRTY_USERS[c]>>

LEMMA SameStanding ==
    ASSUME NEW c \in Cursors, GateAt(c), UNCHANGED Standing(c), exposed \subseteq exposed',
           pc'[c] = "idle" \/ (pc'[c] = pc[c] /\ uid'[c] = uid[c])
    PROVE  GateAt(c)'
BY DEF GateAt, Standing, TaintedFor, OwedFor

\* Whoever signals lifts the taints of transactions that have ended, and of
\* others only where it is noted.
LEMMA SignalKeepsGate ==
    ASSUME TypeOK, NEW c \in Cursors, NEW d \in Cursors, GateAt(d), Signalled, NoteCutShort(c),
           UNCHANGED <<wrote, data, open, pc, uid>>,
           unsignalled' = [unsignalled EXCEPT ![c] = {}]
    PROVE  GateAt(d)'
<1>1. /\ d \in DIRTY_CRS' <=> d \in DIRTY_CRS /\ d \notin COMMITTED_DIRTY
      /\ DIRTY_USERS'[d] = IF COMMITTED_DIRTY_USERS[d] = {} THEN DIRTY_USERS[d] ELSE {}
      /\ d \notin COMMITTED_DIRTY' /\ COMMITTED_DIRTY_USERS'[d] = {}
    BY DEF Signalled
<1>2. exposed \subseteq exposed'
    BY DEF NoteCutShort
<1>3. CASE unsignalled[d] = {}
  <2>1. d \notin COMMITTED_DIRTY /\ COMMITTED_DIRTY_USERS[d] = {}
      BY <1>3 DEF GateAt
  <2>2. uncovered'[d] = uncovered[d] /\ unsignalled'[d] = {}
      BY <1>3 DEF NoteCutShort, CutShort, TypeOK
  <2>3. UNCHANGED Standing(d)
      BY <1>1, <1>3, <2>1, <2>2 DEF Standing
  <2> QED BY <1>2, <2>3, SameStanding
<1>4. CASE unsignalled[d] # {}
  <2>1. /\ uncovered'[d] = wrote[d] \cup (IF d = c THEN {} ELSE unsignalled[d])
        /\ unsignalled'[d] = IF d = c THEN {} ELSE unsignalled[d]
      BY <1>4 DEF NoteCutShort, CutShort, TypeOK
  <2>2. \A s \in wrote[d] : data[d][s] \in exposed'
    <3> DEFINE ids(e) == {data[e][s] : s \in wrote[e]}
    <3>1. d \in {e \in Cursors : CutShort(e)}
        BY <1>4 DEF CutShort
    <3>2. ids(d) \in {ids(e) : e \in {f \in Cursors : CutShort(f)}}
        BY <3>1
    <3>3. ids(d) \subseteq exposed'
        BY <3>2 DEF NoteCutShort
    <3> QED BY <3>3
  <2> QED BY <1>1, <1>4, <2>1, <2>2 DEF GateAt
<1> QED BY <1>3, <1>4

LEMMA NextGate ==
    ASSUME TypeOK, GateInv, [Next]_vars
    PROVE  GateInv'
<1> SUFFICES ASSUME NEW d \in Cursors PROVE GateAt(d)'
    BY DEF GateInv
<1>0. GateAt(d)
    BY DEF GateInv
<1> USE <1>0
<1>1. ASSUME NEW c \in Cursors, Begin(c) PROVE GateAt(d)'
  <2>1. /\ UNCHANGED <<wrote, unsignalled, uncovered, exposed, taintVars, pc, uid>>
        /\ open' = [open EXCEPT ![c] = TRUE] /\ data' = [data EXCEPT ![c] = committed]
        /\ ~open[c] /\ pc[c] = "idle"
      BY <1>1 DEF Begin, reqVars
  <2>2. CASE c = d
      BY <2>1, <2>2 DEF GateAt, TaintedFor, OwedFor, taintVars, TypeOK
  <2>3. CASE c # d
      BY <2>1, <2>3, SameStanding DEF Standing, taintVars, TypeOK
  <2> QED BY <2>2, <2>3
<1>2. ASSUME NEW c \in Cursors, NEW s \in Subjects, WriteRow(c, s), open[c], pc[c] = "idle",
             UNCHANGED <<COMMITTED_DIRTY, COMMITTED_DIRTY_USERS>>,
             TaintedFor(c, s)',
             \A r \in Subjects : TaintedFor(c, r) => TaintedFor(c, r)',
             \A e \in Cursors \ {c} : (e \in DIRTY_CRS' <=> e \in DIRTY_CRS) /\ DIRTY_USERS'[e] = DIRTY_USERS[e]
      PROVE  GateAt(d)'
  <2>1. /\ wrote' = [wrote EXCEPT ![c] = @ \cup {s}]
        /\ data' = [data EXCEPT ![c][s] = lastWrite + 1]
        /\ UNCHANGED <<open, unsignalled, uncovered, exposed, pc, uid>>
      BY <1>2 DEF WriteRow, reqVars
  <2>2. CASE c = d
    <3>1. /\ wrote'[c] = wrote[c] \cup {s}
          /\ \A r \in wrote[c] : r \in Subjects /\ (r # s => data'[c][r] = data[c][r])
          /\ \A r \in unsignalled[c] : r \in Subjects
        BY <2>1 DEF TypeOK, Content
    <3>2. \A r \in wrote'[c] : data'[c][r] \in exposed' \/ TaintedFor(c, r)'
        BY <1>2, <2>1, <2>2, <3>1 DEF GateAt
    <3>3. \A r \in unsignalled[c] : OwedFor(c, r)' <=> OwedFor(c, r)
        BY <1>2 DEF OwedFor
    <3> QED BY <1>2, <2>1, <2>2, <3>1, <3>2, <3>3 DEF GateAt
  <2>3. CASE c # d
      BY <1>2, <2>1, <2>3, SameStanding DEF Standing, TypeOK
  <2> QED BY <2>2, <2>3
<1>3. ASSUME NEW c \in Cursors, WriteSecurityModel(c) PROVE GateAt(d)'
  <2>1. /\ DIRTY_CRS' = DIRTY_CRS \cup {c} /\ DIRTY_USERS' = DIRTY_USERS
        /\ Shared \in Subjects
      BY <1>3 DEF WriteSecurityModel, Subjects
  <2>2. TaintedFor(c, Shared)' /\ \A r \in Subjects : TaintedFor(c, r) => TaintedFor(c, r)'
      BY <2>1 DEF TaintedFor
  <2> QED BY <1>2, <1>3, <2>1, <2>2 DEF WriteSecurityModel
<1>4. ASSUME NEW c \in Cursors, NEW u \in Users, WriteUser(c, u) PROVE GateAt(d)'
  <2>1. /\ DIRTY_USERS' = [DIRTY_USERS EXCEPT ![c] = @ \cup {u}] /\ DIRTY_CRS' = DIRTY_CRS
        /\ u \in Subjects /\ u # Shared
      BY <1>4, SubjectsAssumption DEF WriteUser, Subjects
  <2>2. TaintedFor(c, u)' /\ \A r \in Subjects : TaintedFor(c, r) => TaintedFor(c, r)'
      BY <2>1 DEF TaintedFor, TypeOK
  <2>3. \A e \in Cursors \ {c} : DIRTY_USERS'[e] = DIRTY_USERS[e]
      BY <2>1 DEF TypeOK
  <2> QED BY <1>2, <1>4, <2>1, <2>2, <2>3 DEF WriteUser
<1>5. ASSUME NEW c \in Cursors, Commit(c) PROVE GateAt(d)'
  <2>1. CASE c = d
    <3>1. /\ wrote'[c] = {} /\ unsignalled'[c] = unsignalled[c] \cup wrote[c]
          /\ c \in COMMITTED_DIRTY' <=> c \in COMMITTED_DIRTY \/ c \in DIRTY_CRS
          /\ COMMITTED_DIRTY_USERS'[c] = COMMITTED_DIRTY_USERS[c] \cup DIRTY_USERS[c]
          /\ UNCHANGED <<uncovered, exposed, DIRTY_CRS, DIRTY_USERS, pc, uid>>
          /\ pc[c] = "idle"
        BY <1>5 DEF Commit, EndTx, TypeOK, reqVars
    <3>2. \A s \in unsignalled'[c] : s \in uncovered[c] \/ (TaintedFor(c, s)' /\ OwedFor(c, s)')
        BY <2>1, <3>1 DEF GateAt, TaintedFor, OwedFor
    <3> QED BY <2>1, <3>1, <3>2 DEF GateAt
  <2>2. CASE c # d
    <3>1. /\ wrote'[d] = wrote[d] /\ unsignalled'[d] = unsignalled[d]
          /\ data'[d] = data[d] /\ open'[d] = open[d]
          /\ d \in COMMITTED_DIRTY' <=> d \in COMMITTED_DIRTY
          /\ COMMITTED_DIRTY_USERS'[d] = COMMITTED_DIRTY_USERS[d]
          /\ UNCHANGED <<uncovered, exposed, DIRTY_CRS, DIRTY_USERS, pc, uid>>
        BY <1>5, <2>2 DEF Commit, EndTx, TypeOK, reqVars
    <3> QED BY <3>1, SameStanding DEF Standing
  <2> QED BY <2>1, <2>2
<1>6. ASSUME NEW c \in Cursors, Rollback(c) PROVE GateAt(d)'
  <2>1. CASE c = d
    <3>1. /\ wrote'[c] = {} /\ uncovered'[c] = uncovered[c] \cap unsignalled[c]
          /\ c \in DIRTY_CRS' <=> c \in COMMITTED_DIRTY /\ c \in DIRTY_CRS
          /\ DIRTY_USERS'[c] = COMMITTED_DIRTY_USERS[c]
          /\ UNCHANGED <<unsignalled, exposed, COMMITTED_DIRTY, COMMITTED_DIRTY_USERS, pc, uid>>
          /\ pc[c] = "idle"
        BY <1>6 DEF Rollback, EndTx, TypeOK, reqVars
    <3>2. \A s \in unsignalled[c] : s \in uncovered[c] \/ (TaintedFor(c, s)' /\ OwedFor(c, s)')
        BY <2>1, <3>1 DEF GateAt, TaintedFor, OwedFor
    <3> QED BY <2>1, <3>1, <3>2 DEF GateAt
  <2>2. CASE c # d
    <3>1. /\ wrote'[d] = wrote[d] /\ uncovered'[d] = uncovered[d] /\ DIRTY_USERS'[d] = DIRTY_USERS[d]
          /\ data'[d] = data[d] /\ open'[d] = open[d]
          /\ d \in DIRTY_CRS' <=> d \in DIRTY_CRS
          /\ UNCHANGED <<unsignalled, exposed, COMMITTED_DIRTY, COMMITTED_DIRTY_USERS, pc, uid>>
        BY <1>6, <2>2 DEF Rollback, EndTx, TypeOK, reqVars
    <3> QED BY <3>1, SameStanding DEF Standing
  <2> QED BY <2>1, <2>2
<1>7. ASSUME NEW c \in Cursors, NEW t \in SecTables, SignalChanges(c, t) PROVE GateAt(d)'
    BY <1>7, SignalKeepsGate DEF SignalChanges, reqVars
<1>8. ASSUME NEW c \in Cursors, SignalNothing(c) PROVE GateAt(d)'
  <2>1. unsignalled' = [unsignalled EXCEPT ![c] = {}]
      BY <1>8 DEF SignalNothing, TypeOK
  <2> QED BY <1>8, <2>1, SignalKeepsGate DEF SignalNothing, reqVars
<1>9. ASSUME NEW c \in Cursors, Dispatch(c) PROVE GateAt(d)'
  <2>1. UNCHANGED <<wrote, unsignalled, uncovered, exposed, data, open, DIRTY_CRS, DIRTY_USERS,
                    COMMITTED_DIRTY, COMMITTED_DIRTY_USERS>>
      BY <1>9, DispatchFrame DEF txVars, taintVars
  <2>2. ASSUME NEW u \in Users, NEW super \in SuperModes, Route(c, u, super), c = d PROVE GateAt(d)'
    <3>1. ~is_tainted(c, u) /\ uid'[c] = u /\ u # Shared
        BY <2>2, SubjectsAssumption DEF Route, TypeOK
    <3>2. ~TaintedFor(c, Shared) /\ ~TaintedFor(c, u)
        BY <3>1 DEF is_tainted, TaintedFor
    <3>3. \A s \in {Shared, u} :
            /\ s \in wrote[c] \cup unsignalled[c] => s \in uncovered[c]
            /\ s \in wrote[c] => data[c][s] \in exposed
        BY <2>2, <3>2 DEF GateAt
    <3> QED BY <2>1, <2>2, <3>1, <3>3 DEF GateAt, TaintedFor, OwedFor
  <2>3. ASSUME c # d PROVE GateAt(d)'
    <3>1. UNCHANGED <<pc[d], uid[d]>>
        BY <1>9, <2>3 DEF Dispatch, Route, Recheck, check_signaling, stamp_signals, refresh_dynamic,
           ClearRules, ClearEnvs, EnvHit, EnvMiss, FillEnv, RulesHit, RulesMiss, CompileRules, Evict,
           Reply, Fail, Return, Hold, Goto, TypeOK, reqVars
    <3> QED BY <2>1, <3>1, SameStanding DEF Standing
  <2>4. ASSUME c = d, ~\E u \in Users, super \in SuperModes : Route(c, u, super) PROVE GateAt(d)'
    <3>1. pc[c] # "idle" /\ (pc'[c] = "idle" \/ uid'[c] = uid[c])
        BY <1>9, <2>4 DEF Dispatch, Recheck, check_signaling, stamp_signals, refresh_dynamic,
           ClearRules, ClearEnvs, EnvHit, EnvMiss, FillEnv, RulesHit, RulesMiss, CompileRules, Evict,
           Reply, Fail, Return, Hold, Goto, TypeOK, reqVars
    <3> QED BY <2>1, <2>4, <3>1 DEF GateAt, TaintedFor, OwedFor
  <2> QED BY <2>2, <2>3, <2>4
<1>10. CASE UNCHANGED <<txVars, taintVars, pc, uid>>
    BY <1>10, SameStanding DEF Standing, txVars, taintVars
<1> QED
    BY <1>1, <1>3, <1>4, <1>5, <1>6, <1>7, <1>8, <1>9, <1>10
    DEF Next, Host, ForeignSignal, vars, reqVars

-----------------------------------------------------------------------------
(* What was committed.                                                     *)

\* The writes the shared state may know.
Known == durable \cup exposed

\* What a transaction reads was committed, or it wrote it itself; what the kernel
\* holds about rules, and the user rows in its caches, are known writes.
DurableInv ==
    /\ 0 \in durable /\ \A s \in Subjects : committed[s] \in durable
    /\ \A c \in Cursors : \A s \in Subjects \ wrote[c] : data[c][s] \in durable
    /\ \A c \in Cursors : dyn[c].data[Shared] \in Known /\ memo[c].data[Shared] \in Known
    /\ SharedStateDurable

LEMMA InitDurable == Init => DurableInv
BY DEF Init, DurableInv, Known, SharedStateDurable, NoDynamic, Subjects

\* Steps after which nothing but what was durable is shared.
LEMMA SharedLess ==
    ASSUME DurableInv, UNCHANGED <<durable, exposed, committed, data, wrote>>,
           dynamic'.data[Shared] \in Known,
           \A c \in Cursors : dyn'[c].data[Shared] \in Known /\ memo'[c].data[Shared] \in Known,
           \A x \in rule_cache' \ rule_cache : x.value.rules \in Known /\ x.value.row \in Known,
           \A x \in env_cache' \ env_cache : x.value.row \in Known
    PROVE  DurableInv'
BY DEF DurableInv, SharedStateDurable, Known

LEMMA NextDurable ==
    ASSUME TypeOK, GateInv, DurableInv, [Next]_vars
    PROVE  DurableInv'
<1>0. \A s \in Subjects : NoDynamic.data[s] \in durable
    BY DEF NoDynamic, DurableInv
<1>1. ASSUME NEW c \in Cursors, Begin(c) PROVE DurableInv'
  <2>1. \A d \in Cursors : /\ data'[d] = IF d = c THEN committed ELSE data[d]
                           /\ memo'[d] = IF d = c THEN NoDynamic ELSE memo[d]
      BY <1>1 DEF Begin, TypeOK
  <2>2. Shared \in Subjects
      BY DEF Subjects
  <2> QED BY <1>0, <1>1, <2>1, <2>2 DEF Begin, DurableInv, SharedStateDurable, Known, dbVars, kernelVars, reqVars
<1>2. ASSUME NEW c \in Cursors, NEW s \in Subjects, WriteRow(c, s) PROVE DurableInv'
  <2>1. \A d \in Cursors : \A r \in Subjects \ wrote'[d] : r \notin wrote[d] /\ data'[d][r] = data[d][r]
      BY <1>2 DEF WriteRow, TypeOK, Content
  <2> QED BY <1>2, <2>1 DEF WriteRow, DurableInv, SharedStateDurable, Known, kernelVars, reqVars, memoVars
<1>3. ASSUME NEW c \in Cursors, EndTx(c), durable \subseteq durable',
             \A s \in Subjects : committed'[s] \in durable',
             UNCHANGED <<exposed, kernelVars, reqVars, memoVars>>
      PROVE  DurableInv'
  <2>1. \A d \in Cursors : /\ data'[d] = IF d = c THEN NoDynamic.data ELSE data[d]
                           /\ d # c => wrote'[d] = wrote[d]
      BY <1>3 DEF EndTx, TypeOK
  <2>2. \A d \in Cursors : \A s \in Subjects \ wrote'[d] : data'[d][s] \in durable'
      BY <1>0, <1>3, <2>1 DEF DurableInv
  <2> QED BY <1>3, <2>2 DEF DurableInv, SharedStateDurable, Known, kernelVars, reqVars, memoVars
<1>4. ASSUME NEW c \in Cursors, Commit(c) PROVE DurableInv'
  <2>1. /\ durable' = durable \cup {data[c][s] : s \in wrote[c]}
        /\ committed' = [s \in Subjects |-> IF s \in wrote[c] THEN data[c][s] ELSE committed[s]]
      BY <1>4 DEF Commit
  <2>2. \A s \in Subjects : committed'[s] \in durable'
      BY <2>1 DEF DurableInv
  <2> QED BY <1>3, <1>4, <2>1, <2>2 DEF Commit
<1>5. ASSUME NEW c \in Cursors, Rollback(c) PROVE DurableInv'
    BY <1>3, <1>5 DEF Rollback, dbVars, DurableInv
<1>6. ASSUME NEW c \in Cursors, Dispatch(c) PROVE DurableInv'
  <2>1. UNCHANGED <<durable, exposed, committed, data, wrote>>
      BY <1>6, DispatchFrame DEF dbVars, txVars
  <2>2. ASSUME pc[c] # "idle" PROVE data[c][Shared] \in Known /\ data[c][uid[c]] \in Known
    <3>1. \A s \in {Shared, uid[c]} : s \in wrote[c] => data[c][s] \in exposed
        BY <2>2 DEF GateInv, GateAt
    <3>2. Shared \in Subjects /\ uid[c] \in Subjects
        BY <2>2 DEF TypeOK, Subjects
    <3> QED BY <3>1, <3>2 DEF DurableInv, Known
  <2>3. ASSUME NEW m, m.data[Shared] \in Known, dyn' = [dyn EXCEPT ![c] = m],
               dynamic' \in {dynamic, m}, UNCHANGED <<memo, rule_cache, env_cache>>
        PROVE  DurableInv'
    <3>1. \A d \in Cursors : dyn'[d] \in {dyn[d], m}
        BY <2>3 DEF TypeOK
    <3> QED BY <2>1, <2>3, <3>1, SharedLess DEF DurableInv, SharedStateDurable, Known
  <2>4. ASSUME UNCHANGED <<dynamic, dyn, memo>>, rule_cache' \subseteq rule_cache, env_cache' \subseteq env_cache
        PROVE  DurableInv'
      BY <2>1, <2>4, SharedLess DEF DurableInv, SharedStateDurable, Known
  <2>5. NoDynamic.data[Shared] \in Known
      BY <1>0 DEF Subjects, Known
  <2>6. CASE Recheck(c)
    <3>1. memo[c].data[Shared] \in Known
        BY DEF DurableInv
    <3> QED BY <2>3, <2>5, <2>6, <3>1 DEF Recheck, Return, Hold, kernelVars, memoVars
  <2>7. CASE check_signaling(c)
    <3>1. dynamic.data[Shared] \in Known
        BY DEF DurableInv, SharedStateDurable, Known
    <3>2. UNCHANGED <<dynamic, memo, rule_cache, env_cache>>
        BY <2>7 DEF check_signaling, memoVars
    <3>3. dyn' = [dyn EXCEPT ![c] = NoDynamic] \/ dyn' = [dyn EXCEPT ![c] = dynamic]
        BY <2>7 DEF check_signaling, Return, Hold
    <3> QED BY <2>3, <2>5, <3>1, <3>2, <3>3
  <2>8. CASE stamp_signals(c)
    <3> DEFINE fresh == [dyn[c] EXCEPT !.signals = seen[c]]
    <3>1. fresh.data[Shared] \in Known
        BY DEF DurableInv, TypeOK, Dynamic
    <3>2. /\ dyn' = [dyn EXCEPT ![c] = fresh] /\ dynamic' \in {dynamic, fresh}
          /\ UNCHANGED <<memo, rule_cache, env_cache>>
        BY <2>8 DEF stamp_signals, memoVars
    <3> HIDE DEF fresh
    <3> QED BY <2>3, <3>1, <3>2
  <2>9. CASE refresh_dynamic(c)
    <3> DEFINE fresh == [data |-> data[c], signals |-> seen[c]]
    <3>1. fresh.data[Shared] \in Known
        BY <2>2, <2>9 DEF refresh_dynamic
    <3>2. /\ dyn' = [dyn EXCEPT ![c] = fresh] /\ dynamic' \in {dynamic, fresh}
          /\ UNCHANGED <<memo, rule_cache, env_cache>>
        BY <2>9 DEF refresh_dynamic, memoVars
    <3> HIDE DEF fresh
    <3> QED BY <2>3, <3>1, <3>2
  <2>10. CASE FillEnv(c)
    <3>1. data[c][uid[c]] \in Known
        BY <2>2, <2>10 DEF FillEnv
    <3>2. \A x \in env_cache' \ env_cache : x.value.row = data[c][uid[c]]
        BY <2>10 DEF FillEnv
    <3>3. UNCHANGED <<dynamic, dyn, memo, rule_cache>>
        BY <2>10 DEF FillEnv, memoVars
    <3> QED BY <2>1, <3>1, <3>2, <3>3, SharedLess DEF DurableInv, SharedStateDurable, Known
  <2>11. CASE CompileRules(c)
    <3>1. data[c][uid[c]] \in Known /\ dyn[c].data[Shared] \in Known
        BY <2>2, <2>11 DEF CompileRules, DurableInv
    <3>2. \A x \in rule_cache' \ rule_cache :
             x.value.row = data[c][uid[c]] /\ x.value.rules = dyn[c].data[Shared]
        BY <2>11 DEF CompileRules
    <3>3. UNCHANGED <<dynamic, dyn, memo, env_cache>>
        BY <2>11 DEF CompileRules, memoVars
    <3> QED BY <2>1, <3>1, <3>2, <3>3, SharedLess DEF DurableInv, SharedStateDurable, Known
  <2>12. CASE Reply(c)
    <3>1. \A d \in Cursors : memo'[d] \in {memo[d], dyn[d]} /\ dyn'[d] \in {dyn[d], NoDynamic}
        BY <2>12 DEF Reply, Return, TypeOK
    <3>2. UNCHANGED <<dynamic, rule_cache, env_cache>>
        BY <2>12 DEF Reply, kernelVars
    <3> QED BY <2>1, <2>5, <3>1, <3>2, SharedLess DEF DurableInv, SharedStateDurable, Known
  <2>13. CASE Fail(c)
      BY <2>3, <2>5, <2>13 DEF Fail, Return, kernelVars, memoVars
  <2>14. CASE Evict(c)
      BY <2>4, <2>14 DEF Evict, evict, reqVars, memoVars
  <2> QED
      BY <1>6, <2>4, <2>6, <2>7, <2>8, <2>9, <2>10, <2>11, <2>12, <2>13, <2>14
      DEF Dispatch, Route, ClearRules, ClearEnvs, EnvHit, EnvMiss, RulesHit, RulesMiss, kernelVars,
          reqVars, memoVars
<1>7. ASSUME UNCHANGED <<committed, durable, data, wrote, kernelVars, dyn, memo>>,
             exposed \subseteq exposed'
      PROVE  DurableInv'
    BY <1>7 DEF DurableInv, SharedStateDurable, Known, kernelVars
<1> QED
    BY <1>1, <1>2, <1>4, <1>5, <1>6, <1>7
    DEF Next, Host, WriteSecurityModel, WriteUser, SignalChanges, SignalNothing, NoteCutShort, ForeignSignal, vars,
        dbVars, txVars, reqVars, memoVars, Subjects

\* No uncommitted rule or user row gets into what cursors share, whoever writes,
\* signals, rolls back or reloads, but for what a signal found pending behind an
\* unsignalled commit (rust_orm_shim.py _gate, _untaint, _signalled).
THEOREM SharedIsDurable == Spec => []SharedStateDurable
<1>1. Init => GateInv /\ DurableInv
    BY InitGate, InitDurable
<1>2. TypeOK /\ GateInv /\ DurableInv /\ [Next]_vars => (GateInv /\ DurableInv)'
    BY NextGate, NextDurable
<1>3. DurableInv => SharedStateDurable
    BY DEF DurableInv
<1> QED BY TypeCorrect, <1>1, <1>2, <1>3, PTL DEF Spec

\* From its write to the signal of its commit no read about the written subject is
\* routed, whatever happens in between but a signal that comes before its own
\* (rust_orm_shim.py is_tainted, _untaint, _signalled).
THEOREM TaintLastsUntilSignal == Spec => []TaintedUntilSignalled
<1>1. Init => GateInv
    BY InitGate
<1>2. TypeOK /\ GateInv /\ [Next]_vars => GateInv'
    BY NextGate
<1>3. GateInv => TaintedUntilSignalled
    BY DEF GateInv, GateAt, TaintedUntilSignalled
<1> QED BY TypeCorrect, <1>1, <1>2, <1>3, PTL DEF Spec

-----------------------------------------------------------------------------
(* The bound of the rule cache.                                            *)

Evicting == {c \in Cursors : pc[c] = "evict"}
BoundInv == IsFiniteSet(rule_cache) /\ RuleCacheBounded

LEMMA EvictingFinite == IsFiniteSet(Evicting) /\ Cardinality(Evicting) \in Nat
<1>1. Evicting \in SUBSET Cursors
    BY DEF Evicting
<1> QED BY <1>1, CursorsAssumption, FS_Subset, FS_CardinalityType

LEMMA EvictBounds ==
    ASSUME NEW cache, IsFiniteSet(cache), NEW sigs
    PROVE  IsFiniteSet(evict(cache, sigs)) /\ Cardinality(evict(cache, sigs)) <= MaxIdentities
<1> DEFINE kept == {x \in cache : x.signals = sigs}
<1>1. kept \in SUBSET cache /\ IsFiniteSet(kept)
    BY FS_Subset
<1>2. IsFiniteSet({}) /\ Cardinality({}) = 0
    BY FS_EmptySet
<1> HIDE DEF kept
<1>3. evict(cache, sigs) = IF Cardinality(cache) <= MaxIdentities THEN cache
                           ELSE IF Cardinality(kept) <= MaxIdentities THEN kept ELSE {}
    BY DEF evict, kept
<1> QED BY <1>1, <1>2, <1>3, BoundsAssumption

LEMMA NextBound ==
    ASSUME TypeOK, BoundInv, [Next]_vars
    PROVE  BoundInv'
<1>0. Cardinality(rule_cache) \in Nat /\ Cardinality(rule_cache) <= MaxIdentities + Cardinality(Evicting)
    BY FS_CardinalityType DEF BoundInv, RuleCacheBounded, Evicting
<1>1. IsFiniteSet(Evicting') /\ Cardinality(Evicting') \in Nat
  <2>1. Evicting' \in SUBSET Cursors
      BY DEF Evicting
  <2> QED BY <2>1, CursorsAssumption, FS_Subset, FS_CardinalityType
<1>2. ASSUME IsFiniteSet(rule_cache'), Cardinality(rule_cache') <= MaxIdentities + Cardinality(Evicting')
      PROVE  BoundInv'
    BY <1>2 DEF BoundInv, RuleCacheBounded, Evicting
<1>3. ASSUME UNCHANGED rule_cache, Evicting' = Evicting PROVE BoundInv'
    BY <1>0, <1>2, <1>3 DEF BoundInv
<1>4. ASSUME NEW c \in Cursors, CompileRules(c) PROVE BoundInv'
  <2> DEFINE hits == RuleHits(uid[c], env[c], security_signals(dyn[c].signals))
  <2>1. /\ \E x : rule_cache' = (rule_cache \ hits) \cup {x}
        /\ pc[c] = "compile" /\ pc' = [pc EXCEPT ![c] = "evict"]
      BY <1>4 DEF CompileRules, Goto
  <2> HIDE DEF hits
  <2>2. PICK x : rule_cache' = (rule_cache \ hits) \cup {x}
      BY <2>1
  <2>3. /\ IsFiniteSet(rule_cache \ hits) /\ Cardinality(rule_cache \ hits) \in Nat
        /\ Cardinality(rule_cache \ hits) <= Cardinality(rule_cache)
    <3>1. rule_cache \ hits \in SUBSET rule_cache
        OBVIOUS
    <3> QED BY <3>1, FS_Subset, FS_CardinalityType DEF BoundInv
  <2>4. /\ IsFiniteSet(rule_cache')
        /\ Cardinality(rule_cache') <= Cardinality(rule_cache) + 1
    <3>1. IsFiniteSet(rule_cache') /\ Cardinality(rule_cache') \in
             {Cardinality(rule_cache \ hits), Cardinality(rule_cache \ hits) + 1}
        BY <2>2, <2>3, FS_AddElement
    <3> QED BY <1>0, <2>3, <3>1
  <2>5. Evicting' = Evicting \cup {c} /\ c \notin Evicting
      BY <2>1 DEF Evicting, TypeOK
  <2>6. Cardinality(Evicting') = Cardinality(Evicting) + 1
      BY <2>5, EvictingFinite, FS_AddElement
  <2> QED BY <1>0, <1>1, <1>2, <2>4, <2>6, EvictingFinite, BoundsAssumption, FS_CardinalityType
<1>5. ASSUME NEW c \in Cursors, Evict(c) PROVE BoundInv'
  <2>1. rule_cache' = evict(rule_cache, security_signals(dyn[c].signals))
      BY <1>5 DEF Evict
  <2>2. IsFiniteSet(rule_cache') /\ Cardinality(rule_cache') <= MaxIdentities
      BY <2>1, EvictBounds DEF BoundInv
  <2>3. Cardinality(rule_cache') \in Nat
      BY <2>2, FS_CardinalityType
  <2> QED BY <1>1, <1>2, <2>2, <2>3, BoundsAssumption
<1>6. ASSUME NEW c \in Cursors, ClearRules(c) PROVE BoundInv'
  <2>1. IsFiniteSet(rule_cache') /\ Cardinality(rule_cache') = 0
      BY <1>6, FS_EmptySet DEF ClearRules
  <2> QED BY <1>1, <1>2, <2>1, BoundsAssumption
<1>7. ASSUME NEW c \in Cursors, Dispatch(c), ~CompileRules(c), ~Evict(c), ~ClearRules(c) PROVE BoundInv'
  <2>1. /\ UNCHANGED rule_cache /\ pc[c] # "evict" /\ pc'[c] # "evict"
        /\ \A d \in Cursors \ {c} : pc'[d] = pc[d]
      BY <1>7 DEF Dispatch, Route, Recheck, check_signaling, stamp_signals, refresh_dynamic, ClearEnvs,
         EnvHit, EnvMiss, FillEnv, RulesHit, RulesMiss, Reply, Fail, Return, Hold, Goto, TypeOK, kernelVars
  <2>2. Evicting' = Evicting
      BY <2>1 DEF Evicting
  <2> QED BY <1>3, <2>1, <2>2
<1>8. CASE UNCHANGED <<rule_cache, pc>>
    BY <1>3, <1>8 DEF Evicting
<1> QED
    BY <1>4, <1>5, <1>6, <1>7, <1>8, HostFrame DEF Next, ForeignSignal, vars, kernelVars

\* The cache of compiled rules is over its bound by no more entries than there are
\* dispatches about to evict (orm.rs Caches::evict).
THEOREM RuleCacheIsBounded == Spec => []RuleCacheBounded
<1>1. Init => BoundInv
  <2> SUFFICES ASSUME Init PROVE BoundInv
      OBVIOUS
  <2>1. IsFiniteSet(rule_cache) /\ Cardinality(rule_cache) = 0
      BY FS_EmptySet DEF Init
  <2> QED BY <2>1, EvictingFinite, BoundsAssumption DEF BoundInv, RuleCacheBounded, Evicting
<1>2. TypeOK /\ BoundInv /\ [Next]_vars => BoundInv'
    BY NextBound
<1>3. BoundInv => RuleCacheBounded
    BY DEF BoundInv
<1> QED BY TypeCorrect, <1>1, <1>2, <1>3, PTL DEF Spec
=============================================================================
