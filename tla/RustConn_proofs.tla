---------------------------- MODULE RustConn_proofs ----------------------------
(***************************************************************************)
(* What the flags of a connection know of its session, for any statements, *)
(* any cache size, any number of savepoints and whatever calls may fail:   *)
(* no transaction is open unnoticed, which calls part the flags from the   *)
(* session, and that a plan outlives its schema only through a COMMIT the  *)
(* server refuses.                                                         *)
(*                                                                         *)
(* Why: a session is inside a transaction only together with the flag,     *)
(* savepoints exist only inside one, and the abort mark is set only while  *)
(* in_tx is (MirrorInv); and while ddl_in_tx is not set, a rollback has no *)
(* DDL left to undo (SchemaInv).                                           *)
(***************************************************************************)
EXTENDS RustConn, SequenceTheorems, TLAPS

\* The reasons, one conjunct each.
MirrorInv ==
    /\ Usable /\ tx # "none" => in_tx
    /\ autocommit => ~in_tx
    /\ savepoints # <<>> => tx # "none"
    /\ Usable /\ aborted => in_tx

ConnInv == TypeOK /\ MirrorInv

LEMMA InitInv == Init => ConnInv
<1> SUFFICES ASSUME Init PROVE ConnInv
    OBVIOUS
<1>1. <<>> \in Seq(Schemas) /\ Len(<<>>) = 0
    BY EmptySeq
<1>2. savepoints \in Seq(Schemas) /\ Len(savepoints) <= MaxSavepoints
    BY <1>1, RustConnAssumption DEF Init
<1>3. 0 \in Schemas /\ 0 \in 0..MaxGeneration
    BY RustConnAssumption DEF Schemas
<1>4. TypeOK
    BY <1>2, <1>3 DEF Init, TypeOK
<1> QED BY <1>4 DEF Init, ConnInv, MirrorInv, Usable

-----------------------------------------------------------------------------
(* What the parts of the calls do to the shape of the state.               *)

SessionType ==
    /\ alive \in BOOLEAN /\ tx \in {"none", "open", "aborted"}
    /\ schema \in Schemas /\ base \in Schemas /\ lastDdl \in Schemas
    /\ savepoints \in Seq(Schemas) /\ Len(savepoints) <= MaxSavepoints
    /\ undone \subseteq Schemas
PlansType ==
    /\ stmt_cache \subseteq Plans /\ kernel_stmts \subseteq Plans
    /\ kernel_generation \in 0..MaxGeneration
OtherType ==
    /\ in_tx \in BOOLEAN /\ aborted \in BOOLEAN /\ ddl_in_tx \in BOOLEAN
    /\ autocommit \in BOOLEAN /\ closed \in BOOLEAN /\ generation \in 0..MaxGeneration

LEMMA TypeParts == TypeOK <=> SessionType /\ PlansType /\ OtherType
BY DEF TypeOK, SessionType, PlansType, OtherType

\* The server's answers keep the session's shape.
LEMMA ServerType ==
    ASSUME TypeOK, ServerOk \/ ServerError \/ ServerDdl
    PROVE  SessionType'
<1>1. TxNow \in {"none", "open", "aborted"} /\ BaseNow \in Schemas
    BY DEF TypeOK, TxNow, BaseNow
<1>2. CASE ServerOk
    BY <1>1, <1>2 DEF ServerOk, TypeOK, SessionType
<1>3. CASE ServerError
    BY <1>1, <1>3 DEF ServerError, TypeOK, SessionType
<1>4. CASE ServerDdl
  <2>1. lastDdl + 1 \in Schemas
      BY <1>4, RustConnAssumption DEF ServerDdl, TypeOK, Schemas
  <2> QED BY <1>1, <1>4, <2>1 DEF ServerDdl, TypeOK, SessionType
<1> QED BY <1>2, <1>3, <1>4

\* Undoing DDL names schemas only.
LEMMA UndoType ==
    ASSUME TypeOK, NEW to \in Schemas, Undo(to)
    PROVE  schema' \in Schemas /\ undone' \subseteq Schemas
<1>1. (to + 1)..lastDdl \subseteq Schemas
    BY RustConnAssumption DEF TypeOK, Schemas
<1> QED BY <1>1 DEF Undo, TypeOK

\* So does the end of a transaction.
LEMMA EndType ==
    ASSUME TypeOK, schema' \in Schemas, undone' \subseteq Schemas, ServerEnd
    PROVE  SessionType'
<1>1. <<>> \in Seq(Schemas) /\ Len(<<>>) = 0
    BY EmptySeq
<1> QED BY <1>1, RustConnAssumption DEF ServerEnd, TypeOK, SessionType

\* And what a statement's text does to it.
LEMMA TextType ==
    ASSUME TypeOK,
           \/ UNCHANGED <<schema, undone>> /\ ServerEnd
           \/ Undo(BaseNow) /\ ServerEnd
           \/ tx' = "open" /\ UNCHANGED <<alive, schema, base, lastDdl, savepoints, undone>>
    PROVE  SessionType'
<1>1. CASE UNCHANGED <<schema, undone>> /\ ServerEnd
    BY <1>1, EndType DEF TypeOK
<1>2. CASE Undo(BaseNow) /\ ServerEnd
  <2>1. BaseNow \in Schemas
      BY DEF TypeOK, BaseNow
  <2> QED BY <1>2, <2>1, UndoType, EndType
<1>3. CASE tx' = "open" /\ UNCHANGED <<alive, schema, base, lastDdl, savepoints, undone>>
    BY <1>3 DEF TypeOK, SessionType
<1> QED BY <1>1, <1>2, <1>3

\* A plan prepared now is a plan.
LEMMA PlanType ==
    ASSUME TypeOK, NEW sql \in Statements \cup Literals
    PROVE  [sql |-> sql, schema |-> schema] \in Plans
BY DEF TypeOK, Plans

LEMMA CacheType ==
    ASSUME TypeOK, NEW sql \in Statements \cup Literals,
           \/ Prepare(sql) \/ PrepareLiteral(sql) \/ PlanAtHand(sql) \/ clear_prepared
           \/ clear_prepared_after_rollback \/ UNCHANGED planVars
    PROVE  PlansType'
<1>1. [sql |-> sql, schema |-> schema] \in Plans
    BY PlanType
<1>2. CASE Prepare(sql) \/ PlanAtHand(sql)
    BY <1>1, <1>2 DEF Prepare, PlanAtHand, TypeOK, PlansType
<1>3. CASE PrepareLiteral(sql)
    BY <1>1, <1>3 DEF PrepareLiteral, TypeOK, PlansType
<1>4. CASE clear_prepared \/ clear_prepared_after_rollback \/ UNCHANGED planVars
    BY <1>4 DEF clear_prepared, clear_prepared_after_rollback, planVars, TypeOK, PlansType
<1> QED BY <1>2, <1>3, <1>4

-----------------------------------------------------------------------------
(* The statements.                                                         *)

\* execute's flags keep their shape, whatever the statement came to.
LEMMA FlagsType ==
    ASSUME TypeOK, NEW ddl \in BOOLEAN, Flags(ddl), Succeeded \/ Failed \/ aborted' = FALSE,
           UNCHANGED <<autocommit, closed, generation>>
    PROVE  OtherType'
BY DEF TypeOK, Flags, Succeeded, Failed, OtherType

\* A statement runs in the transaction that in_tx stands for.
LEMMA StatementMirror ==
    ASSUME TypeOK, MirrorInv, Usable, in_tx' = (in_tx \/ ~autocommit),
           UNCHANGED <<autocommit, closed, alive>>,
           Succeeded \/ Failed \/ aborted' = FALSE,
           tx' # "none" => TxNow # "none" \/ in_tx',
           savepoints' # <<>> => tx' # "none"
    PROVE  MirrorInv'
BY DEF TypeOK, MirrorInv, Usable, TxNow, Began, Succeeded, Failed

\* The server's plain answers leave the mirror right.
LEMMA AnswerMirror ==
    ASSUME TypeOK, MirrorInv, Usable, in_tx' = (in_tx \/ ~autocommit),
           UNCHANGED <<autocommit, closed>>,
           ServerOk \/ ServerError \/ ServerDdl, Succeeded \/ Failed
    PROVE  MirrorInv'
<1>1. /\ alive' = alive /\ savepoints' = savepoints
      /\ tx' \in {TxNow, IF TxNow = "open" THEN "aborted" ELSE TxNow}
    BY DEF ServerOk, ServerError, ServerDdl
<1>2. savepoints' # <<>> => tx' # "none"
    BY <1>1 DEF MirrorInv, TxNow, Began
<1> QED BY <1>1, <1>2, StatementMirror

\* So does a text that ends the transaction, or begins one.
LEMMA TextMirror ==
    ASSUME TypeOK, MirrorInv, Usable, in_tx' = (in_tx \/ ~autocommit),
           UNCHANGED <<autocommit, closed>>,
           Succeeded \/ Failed \/ aborted' = FALSE,
           \/ ServerEnd
           \/ in_tx' /\ tx' = "open" /\ UNCHANGED <<alive, savepoints>>
    PROVE  MirrorInv'
<1>1. CASE ServerEnd
    BY <1>1, StatementMirror DEF ServerEnd
<1>2. CASE in_tx' /\ tx' = "open" /\ UNCHANGED <<alive, savepoints>>
    BY <1>2, StatementMirror
<1> QED BY <1>1, <1>2

LEMMA QueryStep ==
    ASSUME ConnInv, NEW sql \in Statements \cup Literals, ExecuteQuery(sql) \/ RefusedOnClient(sql)
    PROVE  ConnInv'
<1>1. TypeOK /\ MirrorInv /\ Usable /\ Flags(FALSE)
    BY DEF ConnInv, ExecuteQuery, RefusedOnClient
<1>2. \/ Prepare(sql) \/ PrepareLiteral(sql) \/ PlanAtHand(sql) \/ UNCHANGED planVars
    BY DEF ExecuteQuery, RefusedOnClient
<1>3. (ServerOk \/ ServerError) /\ (Succeeded \/ Failed)
    BY DEF ExecuteQuery, RefusedOnClient
<1>4. UNCHANGED <<autocommit, closed, generation>>
    BY DEF ExecuteQuery, RefusedOnClient
<1>5. SessionType' /\ PlansType' /\ OtherType'
    BY <1>1, <1>2, <1>3, <1>4, ServerType, CacheType, FlagsType
<1>6. MirrorInv'
    BY <1>1, <1>3, <1>4, AnswerMirror DEF Flags
<1> QED BY <1>5, <1>6, TypeParts DEF TypeOK, SessionType, PlansType, OtherType, ConnInv

LEMMA ClientStep ==
    ASSUME ConnInv, ClientError
    PROVE  ConnInv'
<1>1. /\ TypeOK /\ MirrorInv /\ Usable /\ ServerOk /\ Succeeded
      /\ Flags(FALSE) \/ Flags(TRUE)
      /\ UNCHANGED <<autocommit, closed, generation>>
    BY DEF ConnInv, ClientError
<1>2. PlansType'
  <2>1. CASE \E sql \in Statements : PlanAtHand(sql)
      BY <1>1, <2>1, CacheType
  <2>2. CASE clear_prepared \/ clear_prepared_after_rollback \/ UNCHANGED planVars
      BY <1>1, <2>2 DEF clear_prepared, clear_prepared_after_rollback, planVars, TypeOK, PlansType
  <2> QED BY <2>1, <2>2 DEF ClientError
<1>3. SessionType' /\ OtherType'
    BY <1>1, ServerType, FlagsType
<1>4. MirrorInv'
    BY <1>1, AnswerMirror DEF Flags
<1> QED BY <1>2, <1>3, <1>4, TypeParts DEF TypeOK, SessionType, PlansType, OtherType, ConnInv

LEMMA DdlStep ==
    ASSUME ConnInv, ExecuteDdl \/ ExecuteDrop
    PROVE  ConnInv'
<1>1. TypeOK /\ MirrorInv /\ Usable /\ Flags(TRUE)
    BY DEF ConnInv, ExecuteDdl, ExecuteDrop
<1>2. clear_prepared \/ UNCHANGED planVars
    BY DEF ExecuteDdl, ExecuteDrop
<1>3. (ServerDdl \/ ServerError) /\ (Succeeded \/ Failed)
    BY DEF ExecuteDdl, ExecuteDrop
<1>4. UNCHANGED <<autocommit, closed, generation>>
    BY DEF ExecuteDdl, ExecuteDrop
<1>5. PlansType'
    BY <1>1, <1>2 DEF clear_prepared, planVars, TypeOK, PlansType
<1>6. SessionType' /\ OtherType'
    BY <1>1, <1>3, <1>4, ServerType, FlagsType
<1>7. MirrorInv'
    BY <1>1, <1>3, <1>4, AnswerMirror DEF Flags
<1> QED BY <1>5, <1>6, <1>7 DEF TypeOK, SessionType, PlansType, OtherType, ConnInv

\* COMMIT, BEGIN and ROLLBACK in a statement's text.
LEMMA TextStep ==
    ASSUME ConnInv, ExecuteCommit \/ ExecuteBegin \/ ExecuteRollback \/ ExecuteScript
    PROVE  ConnInv'
<1>1. /\ TypeOK /\ MirrorInv /\ Usable /\ (Flags(FALSE) \/ Flags(TRUE))
      /\ UNCHANGED <<autocommit, closed, generation>>
      /\ in_tx' = (in_tx \/ ~autocommit)
    BY DEF ConnInv, ExecuteCommit, ExecuteBegin, ExecuteRollback, ExecuteScript, Flags
<1>2. PlansType'
    BY <1>1 DEF ExecuteCommit, ExecuteBegin, ExecuteRollback, ExecuteScript, clear_prepared,
                clear_prepared_after_rollback, planVars, TypeOK, PlansType
<1>3. Succeeded \/ Failed \/ aborted' = FALSE
    BY DEF ExecuteCommit, ExecuteBegin, ExecuteRollback, ExecuteScript, CommitInText, BeginInText
<1>4. OtherType'
    BY <1>1, <1>3, FlagsType
<1>5. CASE (ServerOk \/ ServerError \/ ServerDdl) /\ (Succeeded \/ Failed)
  <2>1. SessionType'
      BY <1>1, <1>5, ServerType
  <2>2. MirrorInv'
      BY <1>1, <1>5, AnswerMirror
  <2> QED BY <1>2, <1>4, <2>1, <2>2, TypeParts DEF TypeOK, SessionType, PlansType, OtherType, ConnInv
<1>6. CASE ~((ServerOk \/ ServerError \/ ServerDdl) /\ (Succeeded \/ Failed))
  <2>1. \/ UNCHANGED <<schema, undone>> /\ ServerEnd
        \/ Undo(BaseNow) /\ ServerEnd
        \/ ~autocommit /\ tx' = "open" /\ UNCHANGED <<alive, schema, base, lastDdl, savepoints, undone>>
      BY <1>6 DEF ExecuteCommit, ExecuteBegin, ExecuteRollback, ExecuteScript, CommitInText, BeginInText
  <2>2. SessionType'
      BY <1>1, <2>1, TextType
  <2>3. MirrorInv'
      BY <1>1, <1>3, <2>1, TextMirror
  <2> QED BY <1>2, <1>4, <2>2, <2>3, TypeParts DEF TypeOK, SessionType, PlansType, OtherType, ConnInv
<1> QED BY <1>5, <1>6

LEMMA SavepointStep ==
    ASSUME ConnInv, ExecuteSavepoint \/ ExecuteRelease
    PROVE  ConnInv'
<1>1. TypeOK /\ MirrorInv /\ Usable /\ Flags(FALSE)
    BY DEF ConnInv, ExecuteSavepoint, ExecuteRelease
<1>2. UNCHANGED <<autocommit, closed, planVars, generation>>
    BY DEF ExecuteSavepoint, ExecuteRelease
<1>3. OtherType' /\ PlansType'
  <2>1. Succeeded \/ Failed
      BY DEF ExecuteSavepoint, ExecuteRelease
  <2> QED BY <1>1, <1>2, <2>1, FlagsType DEF planVars, TypeOK, PlansType
<1>4. CASE ServerError /\ Failed
    BY <1>1, <1>2, <1>3, <1>4, ServerType, AnswerMirror
       DEF Flags, TypeOK, SessionType, PlansType, OtherType, ConnInv
<1>5. CASE ExecuteSavepoint /\ ~(ServerError /\ Failed)
  <2>1. /\ TxNow = "open" /\ Len(savepoints) < MaxSavepoints
        /\ savepoints' = Append(savepoints, schema)
        /\ tx' = TxNow /\ base' = BaseNow
        /\ UNCHANGED <<alive, schema, lastDdl, undone>> /\ Succeeded
      BY <1>5 DEF ExecuteSavepoint
  <2>2. savepoints' \in Seq(Schemas) /\ Len(savepoints') <= MaxSavepoints
      BY <1>1, <2>1, AppendProperties, LenProperties, RustConnAssumption DEF TypeOK
  <2>3. SessionType'
      BY <1>1, <2>1, <2>2 DEF TypeOK, SessionType, BaseNow
  <2>4. MirrorInv'
      BY <1>1, <1>2, <2>1, StatementMirror DEF Flags, TxNow
  <2> QED BY <1>3, <2>3, <2>4 DEF TypeOK, SessionType, PlansType, OtherType, ConnInv
<1>6. CASE ExecuteRelease /\ ~(ServerError /\ Failed)
  <2>1. /\ TxNow = "open" /\ savepoints # <<>>
        /\ savepoints' = SubSeq(savepoints, 1, Len(savepoints) - 1)
        /\ UNCHANGED <<alive, tx, base, schema, lastDdl, undone>> /\ Succeeded
      BY <1>6 DEF ExecuteRelease, Front
  <2>2. Len(savepoints) \in Nat \ {0}
      BY <1>1, <2>1, EmptySeq DEF TypeOK
  <2>3. \A i \in 1..(Len(savepoints) - 1) : savepoints[i] \in Schemas
      BY <1>1, <2>2, ElementOfSeq DEF TypeOK
  <2>4. savepoints' \in Seq(Schemas) /\ Len(savepoints') <= MaxSavepoints
    <3> DEFINE n == Len(savepoints) - 1
    <3>1. SubSeq(savepoints, 1, n) \in Seq(Schemas)
          /\ Len(SubSeq(savepoints, 1, n)) = IF 1 <= n THEN n - 1 + 1 ELSE 0
        BY <2>2, <2>3, SubSeqProperties
    <3> QED BY <1>1, <2>1, <2>2, <3>1, RustConnAssumption DEF TypeOK
  <2>5. SessionType'
      BY <1>1, <2>1, <2>4 DEF TypeOK, SessionType
  <2>6. tx' = TxNow
      BY <1>1, <2>1 DEF MirrorInv, TxNow, Began
  <2>7. MirrorInv'
      BY <1>1, <1>2, <2>1, <2>6, StatementMirror DEF Flags, TypeOK
  <2> QED BY <1>3, <2>5, <2>7 DEF TypeOK, SessionType, PlansType, OtherType, ConnInv
<1> QED BY <1>4, <1>5, <1>6

LEMMA RollbackToStep ==
    ASSUME ConnInv, ExecuteRollbackTo
    PROVE  ConnInv'
<1>1. TypeOK /\ MirrorInv /\ Usable
    BY DEF ConnInv, ExecuteRollbackTo
<1>2. /\ in_tx' = (in_tx \/ ~autocommit) /\ ddl_in_tx' = (in_tx /\ ddl_in_tx)
      /\ UNCHANGED <<autocommit, closed, generation>>
      /\ clear_prepared_after_rollback
    BY DEF ExecuteRollbackTo
<1>3. PlansType'
    BY <1>1, <1>2 DEF clear_prepared_after_rollback, TypeOK, PlansType
<1>4. CASE ServerError /\ Failed
  <2>1. OtherType'
      BY <1>1, <1>2, <1>4 DEF Failed, TypeOK, OtherType
  <2>2. SessionType'
      BY <1>1, <1>4, ServerType
  <2>3. MirrorInv'
      BY <1>1, <1>2, <1>4, AnswerMirror
  <2> QED BY <1>3, <2>1, <2>2, <2>3 DEF TypeOK, SessionType, PlansType, OtherType, ConnInv
<1>5. CASE ~(ServerError /\ Failed)
  <2>1. /\ savepoints # <<>> /\ Undo(Last(savepoints)) /\ tx' = "open"
        /\ UNCHANGED <<alive, base, lastDdl, savepoints>> /\ aborted' = FALSE
      BY <1>5 DEF ExecuteRollbackTo
  <2>2. Last(savepoints) \in Schemas
      BY <1>1, <2>1, EmptySeq, ElementOfSeq DEF TypeOK, Last
  <2>3. SessionType'
      BY <1>1, <2>1, <2>2, UndoType DEF TypeOK, SessionType
  <2>4. OtherType'
      BY <1>1, <1>2, <2>1 DEF TypeOK, OtherType
  <2>5. MirrorInv'
      BY <1>1, <1>2, <2>1 DEF MirrorInv, Usable
  <2> QED BY <1>3, <2>3, <2>4, <2>5 DEF TypeOK, SessionType, PlansType, OtherType, ConnInv
<1> QED BY <1>4, <1>5

-----------------------------------------------------------------------------
(* The other calls.                                                        *)

LEMMA CopyStep ==
    ASSUME ConnInv, Copy
    PROVE  ConnInv'
<1>1. TypeOK /\ MirrorInv /\ Usable
    BY DEF ConnInv, Copy
<1>2. /\ in_tx' = (in_tx \/ ~autocommit)
      /\ \/ Unaborted /\ ServerOk
         \/ ServerError
      /\ UNCHANGED <<aborted, ddl_in_tx, autocommit, closed, planVars, generation>>
    BY DEF Copy
<1>3. SessionType'
    BY <1>1, <1>2, ServerType
<1>4. PlansType' /\ OtherType'
    BY <1>1, <1>2 DEF TypeOK, PlansType, OtherType, planVars
<1>5. MirrorInv'
    BY <1>1, <1>2 DEF TypeOK, MirrorInv, Usable, ServerOk, ServerError, Unaborted, TxNow, Began
<1> QED BY <1>3, <1>4, <1>5 DEF TypeOK, SessionType, PlansType, OtherType, ConnInv

LEMMA SimpleStep ==
    ASSUME ConnInv, SimpleQuery
    PROVE  ConnInv'
<1>1. TypeOK /\ MirrorInv /\ Usable
    BY DEF ConnInv, SimpleQuery
<1>2. /\ UNCHANGED <<alive, schema, base, lastDdl, savepoints, undone>>
      /\ tx' \in {tx, IF tx = "open" THEN "aborted" ELSE tx} /\ ddl_in_tx' \in BOOLEAN
      /\ UNCHANGED <<in_tx, aborted, autocommit, closed, planVars, generation>>
    BY <1>1 DEF SimpleQuery, sessionVars, TypeOK
<1>3. SessionType' /\ PlansType' /\ OtherType'
    BY <1>1, <1>2 DEF TypeOK, SessionType, PlansType, OtherType, planVars
<1>4. MirrorInv'
    BY <1>1, <1>2 DEF TypeOK, MirrorInv, Usable
<1> QED BY <1>3, <1>4 DEF TypeOK, SessionType, PlansType, OtherType, ConnInv

\* Whatever ends a transaction leaves flags and session outside one.
LEMMA EndStep ==
    ASSUME ConnInv, Commit \/ Rollback \/ Discard
    PROVE  ConnInv'
<1>1. TypeOK /\ MirrorInv /\ Usable /\ EndFlags
    BY DEF ConnInv, Commit, Rollback, Discard
<1>2. /\ UNCHANGED <<autocommit, closed, generation>>
      /\ clear_prepared \/ clear_prepared_after_rollback \/ UNCHANGED planVars
      /\ \/ UNCHANGED <<schema, undone>> /\ ServerEnd
         \/ Undo(base) /\ ServerEnd
         \/ ~in_tx /\ UNCHANGED sessionVars
    BY DEF Commit, Rollback, Discard
<1>3. SessionType'
  <2>1. CASE UNCHANGED <<schema, undone>> /\ ServerEnd
      BY <1>1, <2>1, EndType DEF TypeOK
  <2>2. CASE Undo(base) /\ ServerEnd
      BY <1>1, <2>2, UndoType, EndType DEF TypeOK
  <2>3. CASE UNCHANGED sessionVars
      BY <1>1, <2>3 DEF TypeOK, SessionType, sessionVars
  <2> QED BY <1>2, <2>1, <2>2, <2>3
<1>4. PlansType' /\ OtherType'
    BY <1>1, <1>2 DEF TypeOK, PlansType, OtherType, planVars, EndFlags,
                      clear_prepared, clear_prepared_after_rollback
<1>5. MirrorInv'
    BY <1>1, <1>2 DEF MirrorInv, Usable, EndFlags, ServerEnd, sessionVars
<1> QED BY <1>3, <1>4, <1>5 DEF TypeOK, SessionType, PlansType, OtherType, ConnInv

LEMMA HostStep ==
    ASSUME ConnInv,
           \/ \E value \in BOOLEAN : set_autocommit(value)
           \/ BackendDies \/ NoteLostBackend \/ RebuildKernel
    PROVE  ConnInv'
<1>1. TypeOK /\ MirrorInv
    BY DEF ConnInv
<1>2. CASE \E value \in BOOLEAN : set_autocommit(value)
    BY <1>1, <1>2 DEF set_autocommit, sessionVars, flagVars, planVars, TypeOK, MirrorInv, Usable, ConnInv
<1>3. CASE BackendDies
  <2>1. schema' \in Schemas /\ undone' \subseteq Schemas
      BY <1>1, <1>3, UndoType DEF BackendDies, TypeOK
  <2>2. savepoints' \in Seq(Schemas) /\ Len(savepoints') <= MaxSavepoints
      BY <1>3, EmptySeq, RustConnAssumption DEF BackendDies
  <2> QED BY <1>1, <1>3, <2>1, <2>2
             DEF BackendDies, flagVars, planVars, TypeOK, MirrorInv, Usable, ConnInv
<1>4. CASE NoteLostBackend
    BY <1>1, <1>4 DEF NoteLostBackend, sessionVars, planVars, TypeOK, MirrorInv, Usable, ConnInv
<1>5. CASE RebuildKernel
  <2>1. generation' \in 0..MaxGeneration
      BY <1>1, <1>5, RustConnAssumption DEF RebuildKernel, TypeOK
  <2> QED BY <1>1, <1>5, <2>1
             DEF RebuildKernel, sessionVars, flagVars, planVars, TypeOK, MirrorInv, Usable, ConnInv
<1> QED BY <1>2, <1>3, <1>4, <1>5

\* A dispatch runs in the caller's transaction and leaves it as it was.
LEMMA DispatchStep ==
    ASSUME ConnInv, (\E sql \in Statements : Dispatch(sql)) \/ DispatchFails
    PROVE  ConnInv'
<1>1. TypeOK /\ MirrorInv /\ Usable
    BY DEF ConnInv, Dispatch, DispatchFails
<1>2. /\ ~autocommit /\ in_tx' = TRUE /\ ServerOk
      /\ UNCHANGED <<aborted, ddl_in_tx, autocommit, closed, generation>>
      /\ kernel_generation' = generation /\ stmt_cache' \in {stmt_cache, {}}
    BY DEF Dispatch, DispatchFails
<1>3. kernel_stmts' \subseteq Plans
  <2>1. KernelPlans \subseteq Plans
      BY <1>1 DEF KernelPlans, TypeOK
  <2>2. \A sql \in Statements : Planned(sql) \subseteq Plans
      BY <1>1, <2>1, PlanType DEF Planned
  <2> QED BY <2>1, <2>2 DEF Dispatch, DispatchFails
<1>4. PlansType' /\ OtherType'
    BY <1>1, <1>2, <1>3 DEF TypeOK, PlansType, OtherType
<1>5. SessionType'
    BY <1>1, <1>2, ServerType
<1>6. MirrorInv'
    BY <1>1, <1>2 DEF TypeOK, MirrorInv, Usable, ServerOk, TxNow, Began
<1> QED BY <1>4, <1>5, <1>6 DEF TypeOK, SessionType, PlansType, OtherType, ConnInv

-----------------------------------------------------------------------------
(* The invariant.                                                          *)

LEMMA NextInv == ConnInv /\ [Next]_vars => ConnInv'
<1> SUFFICES ASSUME ConnInv, [Next]_vars PROVE ConnInv'
    OBVIOUS
<1>1. CASE Execute
    BY <1>1, QueryStep, DdlStep, SavepointStep, RollbackToStep, TextStep DEF Execute
<1>2. CASE Copy \/ SimpleQuery
    BY <1>2, CopyStep, SimpleStep
<1>3. CASE Commit \/ Rollback \/ Discard
    BY <1>3, EndStep
<1>4. CASE \/ \E value \in BOOLEAN : set_autocommit(value)
           \/ BackendDies \/ NoteLostBackend \/ RebuildKernel
    BY <1>4, HostStep
<1>5. CASE (\E sql \in Statements : Dispatch(sql)) \/ DispatchFails
    BY <1>5, DispatchStep
<1>6. CASE UNCHANGED vars
    BY <1>6 DEF vars, sessionVars, flagVars, planVars, TypeOK, MirrorInv, Usable, ConnInv
<1>7. CASE (\E sql \in Statements : RefusedOnClient(sql)) \/ ClientError
    BY <1>7, QueryStep, ClientStep
<1> QED BY <1>1, <1>2, <1>3, <1>4, <1>5, <1>6, <1>7 DEF Next

\* The invariant holds of every connection.
THEOREM ConnInvariant == Spec => []ConnInv
BY InitInv, NextInv, PTL DEF Spec

\* No transaction is open unnoticed, and no mark outlives the transaction the
\* connection set it in, through every order of statements, errors of server and
\* client and ends of transactions (ensure_tx, end_tx, track_abort).
THEOREM FlagsMirror == Spec => []FlagsMirrorSession
<1>1. ConnInv => FlagsMirrorSession
    BY DEF ConnInv, MirrorInv, FlagsMirrorSession
<1> QED BY <1>1, ConnInvariant, PTL

-----------------------------------------------------------------------------
(* Which calls part the flags from the session.                            *)

\* A plain answer keeps in_tx right, and what the mark says of it.
LEMMA AnswerParts ==
    ASSUME ConnInv, Usable, in_tx' = (in_tx \/ ~autocommit),
           UNCHANGED <<alive, closed, autocommit>>,
           \/ Unaborted /\ tx' = TxNow /\ Succeeded
           \/ tx' = (IF TxNow = "open" THEN "aborted" ELSE TxNow) /\ Failed
    PROVE  /\ TransactionMirrored => TransactionMirrored'
           /\ ~MarkLost'
           /\ MarkInvented' => MarkInvented \/ ~TransactionMirrored
<1>1. TypeOK /\ MirrorInv
    BY DEF ConnInv
<1>2. TransactionMirrored => TransactionMirrored'
    BY <1>1 DEF TypeOK, MirrorInv, Usable, TxNow, Began, TransactionMirrored
<1>3. CASE Unaborted /\ tx' = TxNow /\ Succeeded
    BY <1>1, <1>2, <1>3 DEF TypeOK, MirrorInv, Usable, TxNow, Began, Unaborted, Succeeded, MarkLost,
       MarkInvented
<1>4. CASE tx' = (IF TxNow = "open" THEN "aborted" ELSE TxNow) /\ Failed
    BY <1>1, <1>2, <1>4 DEF TypeOK, MirrorInv, Usable, TxNow, Began, Failed, MarkLost, MarkInvented,
       TransactionMirrored
<1> QED BY <1>2, <1>3, <1>4

LEMMA StatementParts ==
    ASSUME ConnInv,
           \/ \E sql \in Statements \cup Literals : ExecuteQuery(sql)
           \/ ExecuteDdl \/ ExecuteDrop \/ ExecuteSavepoint \/ ExecuteRelease
           \/ ExecuteRollbackTo \/ ExecuteBegin
    PROVE  /\ TransactionMirrored => TransactionMirrored'
           /\ ~MarkLost'
           /\ MarkInvented' => MarkInvented \/ ~TransactionMirrored
<1>1. TypeOK /\ MirrorInv
    BY DEF ConnInv
<1>2. CASE \E sql \in Statements \cup Literals : ExecuteQuery(sql)
    BY <1>2, AnswerParts DEF ExecuteQuery, Flags, ServerOk, ServerError
<1>3. CASE ExecuteDdl \/ ExecuteDrop
    BY <1>3, AnswerParts DEF ExecuteDdl, ExecuteDrop, Flags, ServerDdl, ServerError
<1>4. CASE ExecuteSavepoint
    BY <1>4, AnswerParts DEF ExecuteSavepoint, Flags, ServerError, Unaborted
<1>5. CASE ExecuteRelease
  <2>1. CASE ServerError /\ Failed
      BY <1>5, <2>1, AnswerParts DEF ExecuteRelease, Flags, ServerError
  <2>2. CASE ~(ServerError /\ Failed)
    <3>1. /\ TxNow = "open" /\ savepoints # <<>> /\ tx' = tx /\ Succeeded /\ Usable /\ Flags(FALSE)
          /\ UNCHANGED <<alive, closed, autocommit>>
        BY <1>5, <2>2 DEF ExecuteRelease
    <3>2. tx' = TxNow
        BY <1>1, <3>1 DEF MirrorInv, TxNow, Began
    <3> QED BY <3>1, <3>2, AnswerParts DEF Flags, Unaborted
  <2> QED BY <2>1, <2>2
<1>6. CASE ExecuteRollbackTo
  <2>1. CASE ServerError /\ Failed
      BY <1>6, <2>1, AnswerParts DEF ExecuteRollbackTo, ServerError
  <2>2. CASE ~(ServerError /\ Failed)
      BY <1>1, <1>6, <2>2 DEF ExecuteRollbackTo, MirrorInv, Usable, TransactionMirrored, MarkLost, MarkInvented
  <2> QED BY <2>1, <2>2
<1>7. CASE ExecuteBegin
  <2>1. CASE (TxNow = "open" /\ ServerOk /\ Succeeded) \/ (ServerError /\ Failed)
      BY <1>7, <2>1, AnswerParts DEF ExecuteBegin, Flags, ServerOk, ServerError, Unaborted
  <2>2. CASE TxNow = "none" /\ tx' = "open" /\ Succeeded /\ UNCHANGED alive
      BY <1>1, <1>7, <2>2 DEF ExecuteBegin, Flags, MirrorInv, TypeOK, TxNow, Began, Usable,
         Succeeded, TransactionMirrored, MarkLost, MarkInvented
  <2> QED BY <1>7, <2>1, <2>2 DEF ExecuteBegin, BeginInText
<1> QED BY <1>2, <1>3, <1>4, <1>5, <1>6, <1>7

\* A text that ends the transaction leaves none that is aborted, and a script that
\* fails is marked.
LEMMA EndTextParts ==
    ASSUME ConnInv, ExecuteCommit \/ ExecuteRollback \/ ExecuteScript
    PROVE  /\ ~MarkLost'
           /\ ExecuteRollback => ~MarkInvented'
<1>1. TypeOK /\ MirrorInv
    BY DEF ConnInv
<1>2. CASE ServerEnd
    BY <1>2 DEF ServerEnd, MarkLost, ExecuteRollback, MarkInvented
<1>3. CASE ~ServerEnd
  <2>1. ExecuteScript
      BY <1>3 DEF ExecuteCommit, ExecuteRollback, CommitInText
  <2>2. \/ Unaborted /\ (ServerOk \/ ServerDdl) /\ Succeeded
        \/ ServerError /\ Failed
        \/ ~autocommit /\ TxNow = "none" /\ tx' = "open"
      BY <1>3, <2>1 DEF ExecuteScript, CommitInText, BeginInText, Unaborted
  <2>3. ~MarkLost'
      BY <1>1, <2>1, <2>2 DEF ExecuteScript, ServerOk, ServerDdl, ServerError, Unaborted, Flags, TypeOK,
         MirrorInv, TxNow, Began, Failed, MarkLost, Usable
  <2> QED BY <1>3, <2>3 DEF ExecuteRollback
<1> QED BY <1>2, <1>3

\* An error of the client touches no transaction.
LEMMA ClientParts ==
    ASSUME ConnInv, (\E sql \in Statements : RefusedOnClient(sql)) \/ ClientError
    PROVE  /\ TransactionMirrored => TransactionMirrored'
           /\ MarkLost' => MarkLost
           /\ ClientError => (MarkInvented' => MarkInvented)
<1>1. TypeOK /\ MirrorInv /\ Usable
    BY DEF ConnInv, RefusedOnClient, ClientError
<1>2. /\ in_tx' = (in_tx \/ ~autocommit) /\ tx' = TxNow
      /\ UNCHANGED <<alive, autocommit, closed>>
      /\ Succeeded \/ Failed
      /\ ClientError => Succeeded
    BY DEF RefusedOnClient, ClientError, Flags, ServerOk
<1>3. TransactionMirrored => TransactionMirrored'
    BY <1>1, <1>2 DEF TypeOK, MirrorInv, Usable, TxNow, Began, TransactionMirrored
<1>4. MarkLost' => MarkLost
    BY <1>1, <1>2 DEF TypeOK, MirrorInv, Usable, TxNow, Began, Succeeded, Failed, MarkLost
<1>5. ClientError => (MarkInvented' => MarkInvented)
    BY <1>1, <1>2 DEF TypeOK, MirrorInv, Usable, TxNow, Began, Succeeded, MarkInvented
<1> QED BY <1>3, <1>4, <1>5

\* Nor do the calls that are not statements part them, but for a COPY and a simple
\* query, which lose a mark.
LEMMA OtherParts ==
    ASSUME ConnInv, [Next]_vars, ~Execute, ~ClientError,
           ~ \E sql \in Statements : RefusedOnClient(sql)
    PROVE  /\ TransactionMirrored => TransactionMirrored'
           /\ MarkLost' => MarkLost \/ Copy \/ SimpleQuery
           /\ MarkInvented' => MarkInvented
<1>1. TypeOK /\ MirrorInv
    BY DEF ConnInv
<1>2. CASE Commit \/ Rollback \/ Discard
  <2>1. CASE in_tx
      BY <1>2, <2>1 DEF Commit, Rollback, Discard, EndFlags, ServerEnd, TransactionMirrored, MarkLost,
         MarkInvented
  <2>2. CASE ~in_tx
      BY <1>1, <1>2, <2>2 DEF Commit, Rollback, Discard, EndFlags, sessionVars, MirrorInv, Usable,
         TypeOK, TransactionMirrored, MarkLost, MarkInvented
  <2> QED BY <2>1, <2>2
<1>3. CASE \E value \in BOOLEAN : set_autocommit(value)
    BY <1>3 DEF set_autocommit, sessionVars, flagVars, Usable, TransactionMirrored, MarkLost, MarkInvented
<1>4. CASE BackendDies \/ NoteLostBackend
    BY <1>4 DEF BackendDies, NoteLostBackend, Usable, TransactionMirrored, MarkLost, MarkInvented
<1>5. CASE RebuildKernel \/ UNCHANGED vars
    BY <1>5 DEF RebuildKernel, vars, sessionVars, flagVars, Usable, TransactionMirrored, MarkLost,
       MarkInvented
<1>6. CASE (\E sql \in Statements : Dispatch(sql)) \/ DispatchFails
  <2>1. /\ Usable /\ ~autocommit /\ in_tx' = TRUE /\ tx' = TxNow
        /\ UNCHANGED <<alive, closed, aborted>>
      BY <1>6 DEF Dispatch, DispatchFails, ServerOk
  <2> QED BY <1>1, <2>1 DEF TypeOK, MirrorInv, Usable, TxNow, Began, TransactionMirrored, MarkLost,
      MarkInvented
<1>7. CASE Copy
  <2>1. /\ Usable /\ in_tx' = (in_tx \/ ~autocommit)
        /\ tx' \in {TxNow, IF TxNow = "open" THEN "aborted" ELSE TxNow}
        /\ UNCHANGED <<alive, closed, aborted, autocommit>>
      BY <1>7 DEF Copy, ServerOk, ServerError
  <2> QED BY <1>1, <1>7, <2>1 DEF TypeOK, MirrorInv, Usable, TxNow, Began, TransactionMirrored, MarkInvented
<1>8. CASE SimpleQuery
  <2>1. /\ Usable /\ tx' \in {tx, IF tx = "open" THEN "aborted" ELSE tx}
        /\ UNCHANGED <<alive, closed, aborted, in_tx>>
      BY <1>8 DEF SimpleQuery, sessionVars
  <2> QED BY <1>1, <1>8, <2>1 DEF TypeOK, MirrorInv, Usable, TransactionMirrored, MarkInvented
<1> QED BY <1>2, <1>3, <1>4, <1>5, <1>6, <1>7, <1>8 DEF Next

\* A statement's text that ends the transaction parts in_tx from the session; a COPY
\* and a simple query lose a mark until the next statement that the server sees; the
\* client's own 22P02 and a COMMIT in a statement's text invent one
\* (execute_statement, track_abort, copy, exec_simple).
THEOREM FlagsPartedByNamedCalls == Spec => FlagsPartedOnlyByUntrackedCalls
<1> DEFINE Step ==
        /\ TransactionMirrored /\ ~TransactionMirrored'
             => ExecuteCommit \/ ExecuteRollback \/ ExecuteScript
        /\ (~MarkLost \/ Execute) /\ MarkLost' => Copy \/ SimpleQuery
        /\ ~MarkInvented /\ MarkInvented'
             => \/ \E sql \in Statements : RefusedOnClient(sql)
                \/ ExecuteCommit \/ ExecuteScript
                \/ ~TransactionMirrored
<1>1. ConnInv /\ [Next]_vars => [Step]_vars
  <2> SUFFICES ASSUME ConnInv, [Next]_vars PROVE Step
      OBVIOUS
  <2>1. CASE ExecuteCommit \/ ExecuteRollback \/ ExecuteScript
      BY <2>1, EndTextParts
  <2>2. CASE Execute /\ ~(ExecuteCommit \/ ExecuteRollback \/ ExecuteScript)
      BY <2>2, StatementParts DEF Execute
  <2>3. CASE ~Execute /\ ((\E sql \in Statements : RefusedOnClient(sql)) \/ ClientError)
      BY <2>3, ClientParts
  <2>4. CASE ~Execute /\ ~((\E sql \in Statements : RefusedOnClient(sql)) \/ ClientError)
      BY <2>4, OtherParts
  <2> QED BY <2>1, <2>2, <2>3, <2>4
<1> QED BY <1>1, ConnInvariant, PTL DEF Spec, FlagsPartedOnlyByUntrackedCalls

-----------------------------------------------------------------------------
(* Plans.  A rollback that keeps the kernel's plans must undo no DDL: until *)
(* the transaction runs DDL every schema above the one it began with has    *)
(* already been undone, and its savepoints all hold that one.               *)

\* The schemas above the one in effect have all been undone, and it has not.
SchemaKnown ==
    /\ (schema + 1)..lastDdl \subseteq undone
    /\ schema \notin undone

\* The schema a transaction began with has not been undone; one that ran no DDL
\* still has it, and outside a transaction there is nothing to undo.
BaseRight ==
    /\ tx = "none" => base = schema
    /\ in_tx => /\ base \notin undone /\ base <= schema
                /\ ~ddl_in_tx => base = schema

\* Savepoints lie between the two, in the order they were set.
SavedRight ==
    \A i \in 1..Len(savepoints) :
        /\ savepoints[i] \notin undone
        /\ base <= savepoints[i] /\ savepoints[i] <= schema
        /\ \A j \in i..Len(savepoints) : savepoints[i] <= savepoints[j]

SchemaInv ==
    /\ kernel_generation <= generation
    /\ undone \subseteq 0..lastDdl
    /\ schema <= lastDdl /\ base <= lastDdl
    /\ Usable => SchemaKnown /\ BaseRight /\ SavedRight

LEMMA InitSchema == Init => SchemaInv
<1> SUFFICES ASSUME Init PROVE SchemaInv
    OBVIOUS
<1>1. Len(savepoints) = 0
    BY EmptySeq DEF Init
<1> QED BY <1>1 DEF Init, SchemaInv, SchemaKnown, BaseRight, SavedRight

\* A call that runs no DDL and undoes none: it may begin the transaction, and open
\* or close a savepoint.
LEMMA KeepsSchema ==
    ASSUME ConnInv, SchemaInv, Usable, UNCHANGED <<schema, lastDdl, undone, generation>>,
           in_tx' = (in_tx \/ ~autocommit), base' = BaseNow,
           in_tx /\ ddl_in_tx => ddl_in_tx', tx' = "none" => TxNow = "none",
           kernel_generation' \in {kernel_generation, generation},
           \/ UNCHANGED savepoints
           \/ in_tx' /\ savepoints' = Append(savepoints, schema)
           \/ savepoints # <<>> /\ savepoints' = SubSeq(savepoints, 1, Len(savepoints) - 1)
    PROVE  SchemaInv'
<1>1. TypeOK /\ MirrorInv
    BY DEF ConnInv
<1> DEFINE n == Len(savepoints)
<1>2. n \in Nat /\ (~in_tx => n = 0) /\ (savepoints # <<>> => n > 0)
    BY <1>1, EmptySeq, LenProperties DEF TypeOK, MirrorInv
<1>3. base \in Int /\ schema \in Int /\ lastDdl \in Int /\ \A i \in 1..n : savepoints[i] \in Int
  <2>1. \A i \in 1..n : savepoints[i] \in Schemas
      BY <1>1, ElementOfSeq DEF TypeOK
  <2> QED BY <1>1, <2>1, RustConnAssumption DEF TypeOK, Schemas
<1>4. kernel_generation' <= generation'
    BY <1>1 DEF SchemaInv, TypeOK
<1>5. /\ base' = IF in_tx \/ autocommit THEN base ELSE schema
      /\ tx' = "none" => tx = "none" /\ (in_tx \/ autocommit)
    BY <1>1 DEF BaseNow, TxNow, Began
<1>6. SchemaKnown' /\ BaseRight' /\ base' <= lastDdl
  <2>1. schema' = schema /\ lastDdl' = lastDdl /\ undone' = undone
      OBVIOUS
  <2>2. SchemaKnown /\ BaseRight /\ schema <= lastDdl /\ base <= lastDdl
      BY DEF SchemaInv
  <2>3. SchemaKnown'
      BY <2>1, <2>2 DEF SchemaKnown
  <2>4. CASE in_tx
    <3>1. base' = base /\ (~ddl_in_tx' => ~ddl_in_tx) /\ (tx' = "none" => tx = "none")
        BY <1>5, <2>4
    <3> QED BY <2>1, <2>2, <2>3, <2>4, <3>1 DEF BaseRight
  <2>5. CASE ~in_tx /\ autocommit
    <3>1. ~in_tx' /\ base' = base /\ (tx' = "none" => tx = "none")
        BY <1>5, <2>5
    <3> QED BY <2>1, <2>2, <2>3, <3>1 DEF BaseRight
  <2>6. CASE ~in_tx /\ ~autocommit
    <3>1. base' = schema /\ schema \notin undone /\ schema <= schema
        BY <1>3, <1>5, <2>2, <2>6 DEF SchemaKnown
    <3> QED BY <2>1, <2>2, <2>3, <3>1 DEF BaseRight
  <2> QED BY <2>4, <2>5, <2>6
<1>7. n > 0 => base' = base /\ in_tx
    BY <1>2, <1>5
<1>8. SavedRight'
  <2>1. CASE UNCHANGED savepoints
      BY <1>2, <1>7, <2>1 DEF SchemaInv, SavedRight
  <2>2. CASE in_tx' /\ savepoints' = Append(savepoints, schema)
    <3>1. /\ Len(savepoints') = n + 1
          /\ \A i \in 1..n : savepoints'[i] = savepoints[i]
          /\ savepoints'[n + 1] = schema
        BY <1>1, <2>2, AppendProperties DEF TypeOK
    <3>2. base' <= schema /\ schema \notin undone
        BY <1>3, <1>6, <2>2 DEF BaseRight, SchemaKnown
    <3>3. ASSUME NEW i \in 1..(n + 1)
          PROVE  /\ savepoints'[i] \notin undone
                 /\ base' <= savepoints'[i] /\ savepoints'[i] <= schema
                 /\ \A j \in i..(n + 1) : savepoints'[i] <= savepoints'[j]
      <4>1. CASE i = n + 1
          BY <1>2, <1>3, <3>1, <3>2, <4>1
      <4>2. CASE i \in 1..n
        <5>1. /\ savepoints[i] \notin undone /\ savepoints'[i] = savepoints[i]
              /\ base' <= savepoints[i] /\ savepoints[i] <= schema
              /\ \A j \in i..n : savepoints[i] <= savepoints[j]
            BY <1>2, <1>7, <3>1, <4>2 DEF SchemaInv, SavedRight
        <5>2. ASSUME NEW j \in i..(n + 1) PROVE savepoints'[i] <= savepoints'[j]
          <6>1. CASE j = n + 1
              BY <3>1, <5>1, <6>1
          <6>2. CASE j \in i..n
            <7>1. j \in 1..n
                BY <1>2, <4>2, <6>2
            <7> QED BY <3>1, <5>1, <6>2, <7>1
          <6> QED BY <1>2, <4>2, <6>1, <6>2
        <5> QED BY <5>1, <5>2
      <4> QED BY <1>2, <4>1, <4>2
    <3> QED BY <3>1, <3>3 DEF SavedRight
  <2>3. CASE savepoints # <<>> /\ savepoints' = SubSeq(savepoints, 1, n - 1)
    <3> DEFINE m == n - 1
    <3>1. m \in Nat /\ n = m + 1
        BY <1>2, <2>3
    <3>2. \A i \in 1..m : savepoints[i] \in Schemas
        BY <1>1, <3>1, ElementOfSeq DEF TypeOK
    <3>3. /\ Len(savepoints') = m
          /\ \A i \in 1..m : savepoints'[i] = savepoints[i]
      <4> HIDE DEF m
      <4>1. savepoints' = SubSeq(savepoints, 1, m)
          BY <2>3 DEF m
      <4>2. /\ Len(SubSeq(savepoints, 1, m)) = IF 1 <= m THEN m - 1 + 1 ELSE 0
            /\ \A i \in 1..(m - 1 + 1) : SubSeq(savepoints, 1, m)[i] = savepoints[1 + i - 1]
          BY <3>1, <3>2, SubSeqProperties
      <4>3. m - 1 + 1 = m /\ \A i \in 1..m : 1 + i - 1 = i
          BY <3>1
      <4> QED BY <3>1, <4>1, <4>2, <4>3
    <3> HIDE DEF m
    <3>4. \A i \in 1..m : i \in 1..n /\ \A j \in i..m : j \in 1..m /\ j \in i..n
        BY <3>1
    <3> QED BY <1>2, <1>7, <2>3, <3>3, <3>4 DEF SchemaInv, SavedRight
  <2> QED BY <2>1, <2>2, <2>3
<1> QED BY <1>1, <1>4, <1>6, <1>8 DEF SchemaInv

\* New DDL: its schema is above every one before it, and the flag is set.
LEMMA DdlSchema ==
    ASSUME ConnInv, SchemaInv, Usable, Flags(TRUE), ServerDdl,
           UNCHANGED <<autocommit, kernel_generation, generation>>
    PROVE  SchemaInv'
<1>1. TypeOK /\ MirrorInv
    BY DEF ConnInv
<1> DEFINE n == Len(savepoints)
<1>2. n \in Nat /\ (~in_tx => n = 0)
    BY <1>1, EmptySeq, LenProperties DEF TypeOK, MirrorInv
<1>3. base \in Nat /\ schema \in Nat /\ lastDdl \in Nat /\ \A i \in 1..n : savepoints[i] \in Int
  <2>1. \A i \in 1..n : savepoints[i] \in Schemas
      BY <1>1, ElementOfSeq DEF TypeOK
  <2> QED BY <1>1, <2>1, RustConnAssumption DEF TypeOK, Schemas
<1>4. /\ schema' = lastDdl + 1 /\ lastDdl' = lastDdl + 1
      /\ undone' = undone /\ savepoints' = savepoints
      /\ tx' = TxNow
      /\ base' = IF TxNow = "none" THEN schema' ELSE IF in_tx \/ autocommit THEN base ELSE schema
    BY <1>1 DEF ServerDdl, BaseNow, Began
<1>5. SchemaKnown'
  <2>1. (schema' + 1)..lastDdl' = {}
      BY <1>3, <1>4
  <2>2. schema' \notin 0..lastDdl
      BY <1>3, <1>4
  <2> QED BY <1>4, <2>1, <2>2 DEF SchemaInv, SchemaKnown
<1>6. base' <= lastDdl'
    BY <1>3, <1>4 DEF SchemaInv
<1>7. BaseRight'
  <2>1. in_tx' => ddl_in_tx'
      BY <1>1 DEF Flags, MirrorInv
  <2>2. schema' \notin undone
      BY <1>3, <1>4 DEF SchemaInv
  <2>3. in_tx' => base' \notin undone
      BY <1>4, <2>2 DEF Flags, SchemaInv, SchemaKnown, BaseRight
  <2> QED BY <1>4, <1>6, <2>1, <2>3 DEF BaseRight
<1>8. SavedRight'
  <2>1. n > 0 => base' = base
      BY <1>1, <1>2, <1>4, EmptySeq DEF MirrorInv, TypeOK, TxNow, Began
  <2>2. \A i \in 1..n : savepoints[i] <= schema'
      BY <1>3, <1>4 DEF SchemaInv, SavedRight
  <2> QED BY <1>2, <1>4, <2>1, <2>2 DEF SchemaInv, SavedRight
<1>9. undone' \subseteq 0..lastDdl'
    BY <1>3, <1>4 DEF SchemaInv
<1> QED BY <1>3, <1>4, <1>5, <1>6, <1>7, <1>8, <1>9 DEF SchemaInv

\* A rollback to a savepoint goes back to a schema between the transaction's first
\* and the current one: it undoes none that an earlier savepoint holds.
LEMMA RollbackToSchema ==
    ASSUME ConnInv, SchemaInv, ExecuteRollbackTo, savepoints # <<>>,
           Undo(Last(savepoints)), tx' = "open", UNCHANGED <<base, lastDdl, savepoints>>
    PROVE  /\ SchemaInv'
           /\ ~ddl_in_tx => undone' = undone
<1>1. TypeOK /\ MirrorInv /\ Usable /\ in_tx
    BY DEF ConnInv, ExecuteRollbackTo, MirrorInv
<1> DEFINE n == Len(savepoints)
           t == savepoints[n]
<1>2. n \in Nat \ {0}
    BY <1>1, EmptySeq, LenProperties DEF TypeOK
<1>3. base \in Nat /\ schema \in Nat /\ lastDdl \in Nat /\ \A i \in 1..n : savepoints[i] \in Nat
  <2>1. \A i \in 1..n : savepoints[i] \in Schemas
      BY <1>1, ElementOfSeq DEF TypeOK
  <2> QED BY <1>1, <2>1, RustConnAssumption DEF TypeOK, Schemas
<1>4. /\ schema' = t /\ undone' = undone \cup ((t + 1)..lastDdl)
      /\ UNCHANGED <<base, lastDdl, savepoints, kernel_generation, generation>>
      /\ (in_tx' <=> TRUE) /\ (ddl_in_tx' <=> ddl_in_tx)
    BY <1>1 DEF ExecuteRollbackTo, Undo, Last, clear_prepared_after_rollback, TypeOK
<1>5. /\ base <= t /\ t <= schema /\ t \notin undone /\ t \in Nat
      /\ schema <= lastDdl
    BY <1>1, <1>2, <1>3 DEF SchemaInv, SavedRight
<1>6. \A i \in 1..n : /\ savepoints[i] \notin undone /\ savepoints[i] \in Nat
                       /\ base <= savepoints[i] /\ savepoints[i] <= t
                       /\ \A j \in i..n : savepoints[i] <= savepoints[j]
  <2> SUFFICES ASSUME NEW i \in 1..n
               PROVE  /\ savepoints[i] \notin undone /\ savepoints[i] \in Nat
                      /\ base <= savepoints[i] /\ savepoints[i] <= t
                      /\ \A j \in i..n : savepoints[i] <= savepoints[j]
      OBVIOUS
  <2>1. n \in i..n
      BY <1>2
  <2> QED BY <1>1, <1>3, <2>1 DEF SchemaInv, SavedRight
<1> HIDE DEF n, t
<1>7. SchemaKnown'
    BY <1>3, <1>4, <1>5 DEF SchemaKnown
<1>8. BaseRight'
  <2>1. base \notin undone /\ base \notin (t + 1)..lastDdl
      BY <1>1, <1>3, <1>5 DEF SchemaInv, BaseRight
  <2>2. ~ddl_in_tx => base = t
      BY <1>1, <1>3, <1>5 DEF SchemaInv, BaseRight
  <2> QED BY <1>4, <1>5, <2>1, <2>2 DEF BaseRight
<1>9. SavedRight'
  <2>1. \A i \in 1..n : savepoints[i] \notin (t + 1)..lastDdl
      BY <1>5, <1>6
  <2> QED BY <1>4, <1>6, <2>1 DEF SavedRight, n
<1>10. undone' \subseteq 0..lastDdl' /\ schema' <= lastDdl' /\ base' <= lastDdl'
    BY <1>3, <1>4, <1>5 DEF SchemaInv
<1>11. ~ddl_in_tx => undone' = undone
  <2> SUFFICES ASSUME ~ddl_in_tx PROVE undone' = undone
      OBVIOUS
  <2>1. t = schema
      BY <1>1, <1>3, <1>5 DEF SchemaInv, BaseRight
  <2> QED BY <1>1, <1>4, <2>1 DEF SchemaInv, SchemaKnown
<1> QED BY <1>4, <1>7, <1>8, <1>9, <1>10, <1>11 DEF SchemaInv

\* The end of a transaction, by a call or by a statement's text, with or without its
\* DDL; if it ran none, nothing is undone.
LEMMA EndSchema ==
    ASSUME ConnInv, SchemaInv, Usable, ServerEnd, UNCHANGED <<kernel_generation, generation>>,
           \/ UNCHANGED <<schema, undone>>
           \/ in_tx /\ Undo(base)
           \/ Undo(BaseNow)
    PROVE  /\ SchemaInv'
           /\ ~UNCHANGED <<schema, undone>> /\ ~ddl_in_tx => undone' = undone
<1>1. TypeOK /\ MirrorInv /\ base' = schema' /\ lastDdl' = lastDdl
    BY DEF ConnInv, ServerEnd
<1>2. base \in Nat /\ schema \in Nat /\ lastDdl \in Nat
    BY <1>1, RustConnAssumption DEF TypeOK, Schemas
<1>3. Len(savepoints') = 0
    BY EmptySeq DEF ServerEnd
<1>4. SavedRight'
    BY <1>3 DEF SavedRight
<1>5. ASSUME NEW to, \/ to = schema
                     \/ to = base /\ in_tx,
             Undo(to)
      PROVE  /\ SchemaKnown' /\ undone' \subseteq 0..lastDdl' /\ schema' <= lastDdl'
             /\ ~ddl_in_tx => undone' = undone
  <2>1. /\ to \notin undone /\ to <= schema /\ schema <= lastDdl /\ to \in Nat
        /\ ~ddl_in_tx => to = schema
      BY <1>2, <1>5 DEF SchemaInv, BaseRight, SchemaKnown
  <2>2. schema' = to /\ undone' = undone \cup ((to + 1)..lastDdl)
      BY <1>5 DEF Undo
  <2>3. SchemaKnown'
      BY <1>1, <1>2, <2>1, <2>2 DEF SchemaKnown
  <2>4. undone' \subseteq 0..lastDdl' /\ schema' <= lastDdl'
      BY <1>1, <1>2, <2>1, <2>2 DEF SchemaInv
  <2>5. ~ddl_in_tx => undone' = undone
      BY <2>1, <2>2 DEF SchemaInv, SchemaKnown
  <2> QED BY <2>3, <2>4, <2>5
<1>6. CASE UNCHANGED <<schema, undone>>
  <2>1. SchemaKnown'
      BY <1>1, <1>6 DEF SchemaInv, SchemaKnown
  <2>2. BaseRight'
      BY <1>1, <1>2, <1>6, <2>1 DEF SchemaKnown, BaseRight
  <2> QED BY <1>1, <1>4, <1>6, <2>1, <2>2 DEF SchemaInv
<1>7. CASE (in_tx /\ Undo(base)) \/ Undo(BaseNow)
  <2>1. BaseNow = schema \/ (BaseNow = base /\ in_tx)
      BY <1>1 DEF BaseNow, Began, MirrorInv, SchemaInv, BaseRight, TypeOK
  <2>2. /\ SchemaKnown' /\ undone' \subseteq 0..lastDdl' /\ schema' <= lastDdl'
        /\ ~ddl_in_tx => undone' = undone
      BY <1>5, <1>7, <2>1
  <2>3. schema' \in Nat
      BY <1>2, <1>7, <2>1 DEF Undo
  <2>4. BaseRight'
      BY <1>1, <2>2, <2>3 DEF SchemaKnown, BaseRight
  <2> QED BY <1>1, <1>4, <2>2, <2>4 DEF SchemaInv
<1> QED BY <1>6, <1>7

\* The calls that end one.
LEMMA CallSchema ==
    ASSUME ConnInv, SchemaInv, Commit \/ Rollback \/ Discard
    PROVE  /\ SchemaInv'
           /\ ~Commit /\ ~ddl_in_tx => undone' = undone
<1>1. Usable /\ in_tx' = FALSE /\ UNCHANGED <<kernel_generation, generation>>
    BY DEF Commit, Rollback, Discard, EndFlags, planVars, clear_prepared, clear_prepared_after_rollback
<1>2. CASE UNCHANGED sessionVars
  <2>1. /\ schema' = schema /\ base' = base /\ lastDdl' = lastDdl /\ tx' = tx
        /\ savepoints' = savepoints /\ undone' = undone
      BY <1>2 DEF sessionVars
  <2>2. SchemaKnown' /\ BaseRight' /\ SavedRight'
      BY <1>1, <2>1 DEF SchemaInv, SchemaKnown, BaseRight, SavedRight
  <2> QED BY <1>1, <2>1, <2>2 DEF SchemaInv
<1>3. CASE in_tx /\ Undo(base) /\ ServerEnd
    BY <1>1, <1>3, EndSchema
<1>4. CASE Commit /\ UNCHANGED <<schema, undone>> /\ ServerEnd
    BY <1>1, <1>4, EndSchema
<1> QED BY <1>2, <1>3, <1>4 DEF Commit, Rollback, Discard

\* And the statements: a COMMIT, a BEGIN or a ROLLBACK of their text, several at once.
LEMMA TextSchema ==
    ASSUME ConnInv, SchemaInv, ExecuteCommit \/ ExecuteBegin \/ ExecuteRollback \/ ExecuteScript
    PROVE  /\ SchemaInv'
           /\ ExecuteBegin => undone' = undone
           /\ ExecuteRollback /\ ~ddl_in_tx => undone' = undone
<1>1. /\ TypeOK /\ MirrorInv /\ Usable /\ (Flags(FALSE) \/ Flags(TRUE))
      /\ UNCHANGED <<autocommit, kernel_generation, generation>>
      /\ in_tx' = (in_tx \/ ~autocommit) /\ (in_tx /\ ddl_in_tx => ddl_in_tx')
    BY DEF ConnInv, ExecuteCommit, ExecuteBegin, ExecuteRollback, ExecuteScript, Flags, clear_prepared,
           clear_prepared_after_rollback, planVars
<1>2. CASE ServerEnd /\ (UNCHANGED <<schema, undone>> \/ Undo(BaseNow))
    BY <1>1, <1>2, EndSchema DEF ExecuteRollback, ExecuteBegin, BeginInText, ServerOk, ServerError
<1>3. CASE ServerOk \/ ServerError
  <2>1. tx' = "none" => TxNow = "none"
      BY <1>3 DEF ServerOk, ServerError
  <2>2. SchemaInv' /\ undone' = undone
      BY <1>1, <1>3, <2>1, KeepsSchema DEF ServerOk, ServerError
  <2> QED BY <2>2
<1>4. CASE ExecuteScript /\ ServerDdl
  <2>1. SchemaInv'
      BY <1>1, <1>4, DdlSchema DEF ExecuteScript
  <2> QED BY <1>4, <2>1 DEF ServerDdl
<1>5. CASE TxNow = "none" /\ tx' = "open" /\ UNCHANGED <<alive, schema, base, lastDdl, savepoints, undone>>
  <2>1. base' = BaseNow
      BY <1>1, <1>5 DEF TxNow, BaseNow, Began
  <2>2. SchemaInv'
      BY <1>1, <1>5, <2>1, KeepsSchema
  <2> QED BY <1>5, <2>2
<1> QED BY <1>2, <1>3, <1>4, <1>5 DEF ExecuteCommit, ExecuteBegin, ExecuteRollback, ExecuteScript,
    CommitInText, BeginInText

LEMMA HostSchema ==
    ASSUME ConnInv, SchemaInv,
           \/ \E value \in BOOLEAN : set_autocommit(value)
           \/ BackendDies \/ NoteLostBackend \/ RebuildKernel \/ UNCHANGED vars
    PROVE  SchemaInv'
<1>1. TypeOK
    BY DEF ConnInv
<1>2. base \in Nat /\ lastDdl \in Nat /\ kernel_generation \in Int /\ generation \in Int
    BY <1>1, RustConnAssumption DEF TypeOK, Schemas
<1>3. CASE (\E value \in BOOLEAN : set_autocommit(value)) \/ UNCHANGED vars
  <2>1. /\ schema' = schema /\ base' = base /\ lastDdl' = lastDdl
        /\ savepoints' = savepoints /\ undone' = undone /\ tx' = tx
        /\ in_tx' = in_tx /\ ddl_in_tx' = ddl_in_tx /\ (Usable' <=> Usable)
        /\ kernel_generation' = kernel_generation /\ generation' = generation
      BY <1>3 DEF set_autocommit, vars, sessionVars, flagVars, planVars, Usable
  <2>2. SchemaKnown' <=> SchemaKnown
      BY <2>1 DEF SchemaKnown
  <2>3. BaseRight' <=> BaseRight
      BY <2>1 DEF BaseRight
  <2>4. SavedRight' <=> SavedRight
      BY <2>1 DEF SavedRight
  <2> QED BY <2>1, <2>2, <2>3, <2>4 DEF SchemaInv
<1>4. CASE BackendDies
  <2>1. /\ ~Usable' /\ UNCHANGED <<lastDdl, kernel_generation, generation, base>>
        /\ schema' = base /\ undone' = undone \cup ((base + 1)..lastDdl)
      BY <1>4 DEF BackendDies, Undo, planVars, Usable
  <2>2. undone' \subseteq 0..lastDdl
      BY <1>2, <2>1 DEF SchemaInv
  <2> QED BY <2>1, <2>2 DEF SchemaInv
<1>5. CASE NoteLostBackend
    BY <1>5 DEF NoteLostBackend, sessionVars, planVars, SchemaInv, Usable
<1>6. CASE RebuildKernel
  <2>1. kernel_generation' <= generation'
      BY <1>2, <1>6 DEF RebuildKernel, planVars, SchemaInv
  <2> QED BY <1>6, <2>1 DEF RebuildKernel, sessionVars, flagVars, planVars, SchemaInv, SchemaKnown,
             BaseRight, SavedRight, Usable
<1> QED BY <1>3, <1>4, <1>5, <1>6

\* A simple query changes neither the schema nor, inside a transaction, ddl_in_tx.
LEMMA SimpleSchema ==
    ASSUME ConnInv, SchemaInv, SimpleQuery
    PROVE  SchemaInv'
<1>1. /\ schema' = schema /\ base' = base /\ lastDdl' = lastDdl /\ savepoints' = savepoints
      /\ undone' = undone /\ in_tx' = in_tx /\ Usable
      /\ (in_tx => (ddl_in_tx' <=> ddl_in_tx)) /\ (tx' = "none" => tx = "none")
      /\ kernel_generation' = kernel_generation /\ generation' = generation
    BY DEF SimpleQuery, sessionVars, planVars, ConnInv, TypeOK
<1>2. SchemaKnown' /\ BaseRight' /\ SavedRight'
    BY <1>1 DEF SchemaInv, SchemaKnown, BaseRight, SavedRight
<1> QED BY <1>1, <1>2 DEF SchemaInv

LEMMA NextSchema ==
    ASSUME ConnInv, SchemaInv, [Next]_vars
    PROVE  SchemaInv'
<1>1. TypeOK
    BY DEF ConnInv
<1>2. CASE (\E sql \in Statements \cup Literals : ExecuteQuery(sql) \/ RefusedOnClient(sql)) \/ ClientError
  <2>1. /\ Usable /\ in_tx' = (in_tx \/ ~autocommit) /\ (in_tx /\ ddl_in_tx => ddl_in_tx')
        /\ UNCHANGED <<kernel_generation, generation>> /\ (ServerOk \/ ServerError)
      BY <1>2 DEF ExecuteQuery, RefusedOnClient, ClientError, Flags, PlanAtHand, Prepare, PrepareLiteral,
                  planVars, clear_prepared, clear_prepared_after_rollback
  <2> QED BY <2>1, KeepsSchema DEF ServerOk, ServerError
<1>3. CASE ExecuteDdl \/ ExecuteDrop
  <2>1. /\ Usable /\ Flags(TRUE) /\ UNCHANGED <<autocommit, kernel_generation, generation>>
        /\ ServerDdl \/ ServerError
      BY <1>3 DEF ExecuteDdl, ExecuteDrop, planVars, clear_prepared
  <2>2. CASE ServerError
      BY <2>1, <2>2, KeepsSchema DEF Flags, ServerError
  <2> QED BY <2>1, <2>2, DdlSchema
<1>4. CASE ExecuteSavepoint
  <2>1. TxNow = "open" => in_tx'
      BY <1>1, <1>4 DEF ExecuteSavepoint, Flags, TxNow, Began, ConnInv, MirrorInv
  <2> QED BY <1>4, <2>1, KeepsSchema DEF ExecuteSavepoint, Flags, ServerError, planVars
<1>5. CASE ExecuteRelease
  <2>1. CASE ServerError
      BY <1>5, <2>1, KeepsSchema DEF ExecuteRelease, Flags, ServerError, planVars
  <2>2. CASE ~ServerError
    <3>1. /\ savepoints # <<>> /\ base' = base /\ tx' = tx /\ Usable /\ Flags(FALSE)
          /\ savepoints' = SubSeq(savepoints, 1, Len(savepoints) - 1)
          /\ UNCHANGED <<schema, lastDdl, undone, kernel_generation, generation>>
        BY <1>5, <2>2 DEF ExecuteRelease, Front, planVars
    <3>2. base' = BaseNow /\ TxNow = tx
        BY <3>1 DEF ConnInv, MirrorInv, BaseNow, TxNow, Began
    <3> QED BY <3>1, <3>2, KeepsSchema DEF Flags
  <2> QED BY <2>1, <2>2
<1>6. CASE ExecuteRollbackTo
  <2>1. CASE ServerError
      BY <1>6, <2>1, KeepsSchema DEF ExecuteRollbackTo, ServerError, clear_prepared_after_rollback
  <2> QED BY <1>6, <2>1, RollbackToSchema DEF ExecuteRollbackTo
<1>7. CASE Copy
    BY <1>7, KeepsSchema DEF Copy, ServerOk, ServerError, planVars
<1>8. CASE Commit \/ Rollback \/ Discard
    BY <1>8, CallSchema
<1>9. CASE (\E sql \in Statements : Dispatch(sql)) \/ DispatchFails
  <2>1. in_tx' = (in_tx \/ ~autocommit) /\ Usable /\ ServerOk /\ UNCHANGED <<ddl_in_tx, generation>>
        /\ kernel_generation' = generation
      BY <1>1, <1>9 DEF Dispatch, DispatchFails, TypeOK
  <2> QED BY <2>1, KeepsSchema DEF ServerOk
<1>10. CASE \/ \E value \in BOOLEAN : set_autocommit(value)
            \/ BackendDies \/ NoteLostBackend \/ RebuildKernel \/ UNCHANGED vars
    BY <1>10, HostSchema
<1>11. CASE ExecuteCommit \/ ExecuteBegin \/ ExecuteRollback \/ ExecuteScript
    BY <1>11, TextSchema
<1>12. CASE SimpleQuery
    BY <1>12, SimpleSchema
<1> QED BY <1>2, <1>3, <1>4, <1>5, <1>6, <1>7, <1>8, <1>9, <1>10, <1>11, <1>12 DEF Next, Execute

THEOREM SchemaInvariant == Spec => [](ConnInv /\ SchemaInv)
BY InitInv, InitSchema, NextInv, NextSchema, PTL DEF Spec

\* A call that undoes no DDL and prepares, if anything, against the schema in effect.
LEMMA PlansAdded ==
    ASSUME SchemaInv, Usable, NoPlanOutlivesItsSchema, undone' = undone,
           \A p \in stmt_cache' \cup KernelPlans' :
              p \in stmt_cache \cup KernelPlans \/ p.schema = schema
    PROVE  NoPlanOutlivesItsSchema'
BY DEF SchemaInv, SchemaKnown, NoPlanOutlivesItsSchema

\* A rollback drops the plans whenever it undoes DDL.
LEMMA PlansDropped ==
    ASSUME Usable, NoPlanOutlivesItsSchema, ddl_in_tx \in BOOLEAN,
           clear_prepared_after_rollback, UNCHANGED generation, ~ddl_in_tx => undone' = undone
    PROVE  NoPlanOutlivesItsSchema'
<1>1. CASE ddl_in_tx
    BY <1>1 DEF clear_prepared_after_rollback, NoPlanOutlivesItsSchema, KernelPlans
<1>2. CASE ~ddl_in_tx
    BY <1>2 DEF clear_prepared_after_rollback, NoPlanOutlivesItsSchema, KernelPlans
<1> QED BY <1>1, <1>2

LEMMA PlansStep ==
    ASSUME ConnInv, SchemaInv, NoPlanOutlivesItsSchema, [Next]_vars, ~Commit, ~ExecuteCommit
    PROVE  NoPlanOutlivesItsSchema'
<1>1. TypeOK
    BY DEF ConnInv
<1>2. CASE \E sql \in Statements \cup Literals : ExecuteQuery(sql) \/ RefusedOnClient(sql)
  <2>1. PICK sql \in Statements \cup Literals : ExecuteQuery(sql) \/ RefusedOnClient(sql)
      BY <1>2
  <2>2. Usable /\ undone' = undone /\ generation' = generation
      BY <2>1 DEF ExecuteQuery, RefusedOnClient, ServerOk, ServerError
  <2>3. /\ UNCHANGED <<kernel_stmts, kernel_generation>>
        /\ stmt_cache' \subseteq stmt_cache \cup {[sql |-> sql, schema |-> schema]}
      BY <2>1 DEF ExecuteQuery, RefusedOnClient, PlanAtHand, Prepare, PrepareLiteral, planVars
  <2>4. KernelPlans' = KernelPlans
      BY <2>2, <2>3 DEF KernelPlans
  <2> QED BY <2>2, <2>3, <2>4, PlansAdded
<1>3. CASE ExecuteDdl \/ ExecuteDrop \/ ExecuteSavepoint \/ ExecuteRelease \/ Copy
             \/ SimpleQuery \/ ExecuteBegin
  <2>1. Usable /\ undone' = undone /\ generation' = generation /\ kernel_generation' = kernel_generation
      BY <1>3 DEF ExecuteDdl, ExecuteDrop, ExecuteSavepoint, ExecuteRelease, Copy, SimpleQuery, ExecuteBegin,
                  BeginInText, ServerOk, ServerError, ServerDdl, clear_prepared, planVars, sessionVars
  <2>2. stmt_cache' \in {stmt_cache, {}} /\ kernel_stmts' \in {kernel_stmts, {}}
      BY <1>3 DEF ExecuteDdl, ExecuteDrop, ExecuteSavepoint, ExecuteRelease, Copy, SimpleQuery, ExecuteBegin,
                  clear_prepared, planVars
  <2>3. KernelPlans' \subseteq KernelPlans
      BY <2>1, <2>2 DEF KernelPlans
  <2> QED BY <2>1, <2>2, <2>3, PlansAdded
<1>4. CASE ExecuteRollbackTo
  <2>1. Usable /\ clear_prepared_after_rollback /\ UNCHANGED generation
      BY <1>4 DEF ExecuteRollbackTo
  <2>2. ~ddl_in_tx => undone' = undone
      BY <1>4, RollbackToSchema DEF ExecuteRollbackTo, ServerError
  <2> QED BY <1>1, <2>1, <2>2, PlansDropped DEF TypeOK
<1>5. CASE Rollback
    BY <1>1, <1>5, CallSchema, PlansDropped DEF Rollback, Commit, EndFlags, TypeOK
<1>6. CASE Discard
    BY <1>6 DEF Discard, clear_prepared, NoPlanOutlivesItsSchema, KernelPlans
<1>7. CASE (\E value \in BOOLEAN : set_autocommit(value)) \/ UNCHANGED vars
  <2>1. /\ stmt_cache' = stmt_cache /\ KernelPlans' = KernelPlans /\ undone' = undone
        /\ (Usable' <=> Usable)
      BY <1>7 DEF set_autocommit, vars, sessionVars, planVars, Usable, KernelPlans
  <2> QED BY <2>1 DEF NoPlanOutlivesItsSchema
<1>8. CASE BackendDies \/ NoteLostBackend
    BY <1>8 DEF BackendDies, NoteLostBackend, Usable, NoPlanOutlivesItsSchema
<1>9. CASE RebuildKernel
  <2>1. kernel_generation # generation + 1
      BY <1>1 DEF SchemaInv, TypeOK
  <2>2. KernelPlans' = {} /\ stmt_cache' = stmt_cache /\ undone' = undone /\ (Usable' <=> Usable)
      BY <1>9, <2>1 DEF RebuildKernel, sessionVars, planVars, KernelPlans, Usable
  <2> QED BY <2>2 DEF NoPlanOutlivesItsSchema
<1>10. CASE (\E sql \in Statements : Dispatch(sql)) \/ DispatchFails
  <2>1. /\ Usable /\ undone' = undone /\ stmt_cache' \in {stmt_cache, {}}
        /\ kernel_generation' = generation'
      BY <1>10 DEF Dispatch, DispatchFails, ServerOk
  <2>2. \A sql \in Statements : \A p \in Planned(sql) : p \in KernelPlans \/ p.schema = schema
      BY DEF Planned
  <2>3. \A p \in kernel_stmts' : p \in KernelPlans \/ p.schema = schema
      BY <1>10, <2>2 DEF Dispatch, DispatchFails
  <2>4. KernelPlans' = kernel_stmts'
      BY <2>1 DEF KernelPlans
  <2> QED BY <2>1, <2>3, <2>4, PlansAdded
<1>11. CASE ExecuteRollback
    BY <1>1, <1>11, TextSchema, PlansDropped DEF ExecuteRollback, TypeOK
<1>12. CASE ExecuteScript
    BY <1>12 DEF ExecuteScript, clear_prepared, NoPlanOutlivesItsSchema, KernelPlans
<1>13. CASE ClientError
  <2>1. Usable /\ undone' = undone /\ generation' = generation /\ kernel_generation' = kernel_generation
      BY <1>13 DEF ClientError, ServerOk, PlanAtHand, Prepare, planVars, clear_prepared,
                   clear_prepared_after_rollback
  <2>2. \A p \in stmt_cache' : p \in stmt_cache \/ p.schema = schema
    <3>1. CASE \E sql \in Statements : PlanAtHand(sql)
      <4>1. PICK sql \in Statements : PlanAtHand(sql)
          BY <3>1
      <4>2. stmt_cache' \subseteq stmt_cache \cup {[sql |-> sql, schema |-> schema]}
          BY <4>1 DEF PlanAtHand, Prepare
      <4> QED BY <4>2
    <3>2. CASE ~ \E sql \in Statements : PlanAtHand(sql)
      <4>1. stmt_cache' \in {stmt_cache, {}}
          BY <1>13, <3>2 DEF ClientError, planVars, clear_prepared, clear_prepared_after_rollback
      <4> QED BY <4>1
    <3> QED BY <3>1, <3>2
  <2>3. kernel_stmts' \subseteq kernel_stmts
      BY <1>13 DEF ClientError, PlanAtHand, Prepare, planVars, clear_prepared, clear_prepared_after_rollback
  <2>4. KernelPlans' \subseteq KernelPlans
      BY <2>1, <2>3 DEF KernelPlans
  <2> QED BY <2>1, <2>2, <2>4, PlansAdded
<1>14. CASE Execute
    BY <1>2, <1>3, <1>4, <1>11, <1>12, <1>14 DEF Execute
<1>15. CASE (\E sql \in Statements : RefusedOnClient(sql)) \/ ClientError
    BY <1>2, <1>13, <1>15
<1> QED BY <1>3, <1>5, <1>6, <1>7, <1>8, <1>9, <1>10, <1>14, <1>15 DEF Next

\* In whatever order the DDL, the savepoints, the failures and the plans came, only
\* a COMMIT, end_tx's or a statement's, that the server answers with a rollback
\* leaves a plan prepared against a schema that was undone
\* (clear_prepared_after_rollback, ddl_in_tx, dispatch).
THEOREM PlansOutlivedOnlyByCommit == Spec => PlansBrokenOnlyByCommit
<1>1. ConnInv /\ SchemaInv /\ [Next]_vars
      => [NoPlanOutlivesItsSchema /\ ~NoPlanOutlivesItsSchema' => Commit \/ ExecuteCommit]_vars
    BY PlansStep
<1> QED BY <1>1, SchemaInvariant, PTL DEF Spec, PlansBrokenOnlyByCommit
=============================================================================
