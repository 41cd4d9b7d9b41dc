-------------------------------- MODULE Answers --------------------------------
(***************************************************************************)
(* How a search is answered (src/kernel/src/orm.rs): whether it is         *)
(* admitted, which models' rules it needs, its condition and what is read  *)
(* by it, each from the request and a set of compiled rules alone.  A      *)
(* request runs in one repeatable-read transaction, so one database        *)
(* content serves it from end to end; `Database` is the content of all.    *)
(***************************************************************************)
EXTENDS Scan

CONSTANTS
    Database,   \* what the tables hold
    Trigram,    \* the database has trigram indexes
    Exported    \* the registry was built from an export

-----------------------------------------------------------------------------
(* A request's environment.                                                *)

\* An identity is the user record of Rules: what cached rules are kept by.
Compiler(r, compiled) ==
    [m |-> r.model, su |-> r.su, checked |-> ~r.su, activeTest |-> r.activeTest, stack |-> <<>>,
     env |-> [db |-> Database, company |-> r.user.company, lang |-> r.lang, groups |-> r.user.groups,
              scopes |-> r.user.scopes, midnight |-> r.midnight, fragments |-> r.fragments,
              access |-> [m \in DOMAIN Models |-> CheckReadAccess(m, r.user)],
              exported |-> Exported, trigram |-> Trigram, rules |-> compiled]]

Tokens(domain) == IF domain = Null THEN <<>> ELSE domain.l

\* The parameters each method takes.
ValidShape(r) ==
    CASE r.method = "search_read"  -> r.fields # <<>> /\ r.groupby = <<>>
      [] r.method = "search_count" -> r.fields = <<>> /\ r.offset = 0 /\ r.order = Null /\ r.groupby = <<>>
      [] r.method = "read_group"   -> r.fields = <<>> /\ r.groupby # <<>>
      [] OTHER -> TRUE

\* The access check comes before the look at the model's Python; a compiled
\* condition is asked for by a caller that checked both.
Admission(r) ==
    LET access == IF r.su THEN "ok" ELSE CheckReadAccess(r.model, r.user)
    IN  IF r.method = "compile_where" THEN "ok"
        ELSE IF ~ValidShape(r) THEN "refused"
        ELSE IF access # "ok" THEN access
        ELSE IF Models[r.model].overridden \cap Needs(r.method) # {} THEN "refused"
        ELSE IF r.method = "read_group" /\ ~Models[r.model].groupPure THEN "refused"
        ELSE "ok"

\* The models a request names: its own, those its fields link to, and those on
\* the paths of its domain.
ReachableSeeds(r) ==
    LET named  == Range(r.fields) \cup (IF Len(r.groupby) = 1 THEN {r.groupby[1]} ELSE {})
        linked == {Field(r.model, fname).relation : fname \in {n \in named : Has(r.model, n)}}
        tree   == ParseNested(List(Tokens(r.domain)))
    IN  ({r.model} \cup linked \cup (IF tree = Refused THEN {} ELSE ComodelsOf(r.model, tree)))
        \cap DOMAIN Models

\* The rules in the place of those Python resolved for this request.
WithResolved(compiled, resolved) ==
    [compiled EXCEPT !.compiled = @ \cup DOMAIN resolved,
                     !.unevaluated = @ \ DOMAIN resolved,
                     !.domains = [m \in DOMAIN resolved |-> Parse(resolved[m])] @@ @]

-----------------------------------------------------------------------------
(* The condition of a search.                                              *)

\* The active records, unless the domain names the active field.
RootActive(c, r, tree) ==
    LET active == Models[c.m].active
    IN  IF active = NoName \/ ~r.active \/ active \in ReferencedFields(tree) THEN AllRows(c)
        ELSE Sql([id \in Rows(c) |-> Member(c.env.db[c.m][id][active], {Bool(TRUE)})],
                 {<<c.m, active>>})

BuildCondition(c, r) ==
    LET asked    == Parse(Tokens(r.domain))
        resolved == Resolve(c, c.m, Tokens(r.domain))
        tree     == Parse(resolved.tokens)
        walked   == [AllRows(c) EXCEPT !.touched = resolved.touched, !.reads = resolved.reads]
        found    == Conj(Compile(c, tree), RootActive(c, r, tree))
        ruled    == IF c.su THEN AllRows(c)
                    ELSE IF ~Evaluated(c.env.rules, c.m) THEN Refuse
                    ELSE IF Restricted(c.env.rules, c.m) THEN CompileRules(c) ELSE AllRows(c)
    IN  IF ~r.trusted /\ (asked = Refused \/ ~AcceptedFromCaller(asked)) THEN Refuse
        ELSE IF resolved.err # "ok" THEN Fails(resolved.err)
        ELSE Conj(walked, Conj(found, ruled))

\* A domain that selects nothing is compiled, for what the compiler refuses,
\* and runs no statement.
CompileWhere(c, r) ==
    LET cond == BuildCondition(c, r)
    IN  IF cond.err = "ok" /\ r.domain # Null /\ IsFalse(Parse(Tokens(r.domain)))
        THEN NoRows(c) ELSE cond

Answer(err, found, cond) ==
    [err |-> err, found |-> found, ids |-> Selected(cond),
     touched |-> cond.touched, reads |-> cond.reads]
Unanswered(why) == Answer(why, <<>>, Fails(why))

AnswerOf(r, compiled) ==
    LET c     == Compiler(r, IF r.su THEN compiled ELSE WithResolved(compiled, r.resolved))
        cond  == IF r.method = "compile_where" THEN CompileWhere(c, r) ELSE BuildCondition(c, r)
        found == CASE r.method = "search_read"  -> SearchRead(c, r, cond)
                   [] r.method = "read_group"   -> ReadGroup(c, r, cond)
                   [] r.method = "search_count" -> Rowset(SearchCount(cond, r.limit))
                   [] OTHER                     -> Rowset(<<>>)
    IN  IF cond.err # "ok" THEN Unanswered(cond.err)
        ELSE IF found.err # "ok" THEN Unanswered(found.err)
        ELSE Answer("ok", found.rows, cond)

-----------------------------------------------------------------------------
(* The rules of a request's models.                                        *)

CompiledRules(r, m) == ModelRules(Compiler(r, EmptyRules), m, r.user)

\* The models one model's rules read, or are read with: its delegated parents and
\* those its domain reaches, short of what the registry does not have.
ReachedBy(m, own) ==
    LET parents == {Inherits[m][i].parent : i \in DOMAIN Inherits[m]}
    IN  (parents \cup (IF own \in {Unrestricted, Unevaluated} THEN {} ELSE ComodelsOf(m, own.domain)))
        \cap DOMAIN Models

=============================================================================
