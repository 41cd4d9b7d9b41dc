-------------------------------- MODULE Rules --------------------------------
(***************************************************************************)
(* Row security as the kernel compiles it: the access rows a database      *)
(* holds, what they let a principal read of a model as a whole, and the    *)
(* domain they make of its records (src/kernel/src/security.rs, and the    *)
(* loading of the rows in src/kernel/src/registry.rs).                     *)
(*                                                                         *)
(* An access row is a permission or a guard, read for a group's members or *)
(* for everyone, with a domain, a reach through an anchor of the model, or *)
(* both.  A user is a record of its id, its company and companies, the     *)
(* groups it holds (implied ones included), the companies a group is held  *)
(* in where it is not held in all, and the partners Python sent.           *)
(***************************************************************************)
EXTENDS Hierarchy

CONSTANTS
    AccessRows,    \* the rows of ir.access, in the order of their ids
    BoundBy,       \* per model: the models whose rows bind it too
    AccessParents, \* per model: the models whose read access it needs too
    CompanyAnchor, \* per model: the field that says which company owns it
    Inherits,      \* per model: its delegated parents and the links to them
    HeldBy,        \* per user id: the groups given and the groups held
    UserModel,     \* res.users
    CompanyModel   \* res.company

MaxInherits == 16

-----------------------------------------------------------------------------
(* Loading.                                                                *)

\* A domain as it is stored: no domain, a text that does not parse, or terms
\* whose values may read names.
Unparsable == [k |-> "unparsable"]
Nothing    == <<ConstTerm(Num(0), "=", Num(1))>>
NoReach    == [k |-> "noreach"]
Name(chain, mapped) == [k |-> "name", chain |-> chain, mapped |-> mapped]
Ref(id)    == [k |-> "ref", id |-> id]
Sum(a, b)  == [k |-> "sum", a |-> a, b |-> b]

RECURSIVE ReadsNames(_)
ReadsNames(v) ==
    CASE v.k = "name" -> TRUE
      [] v.k = "sum"  -> ReadsNames(v.a) \/ ReadsNames(v.b)
      [] v.k = "list" -> \E i \in DOMAIN v.l : ReadsNames(v.l[i])
      [] v.k = "term" -> ReadsNames(v.v)
      [] OTHER        -> FALSE

\* A row as the kernel applies it: reaching nothing is the domain of nothing,
\* and what Python alone compiles is refused where it binds.
Rungs == {"own", "company", "partner"}
RowDomain(row) ==
    IF row.reach = "none" THEN List(Nothing)
    ELSE IF row.reach \notin Rungs \cup {"", "all"} THEN Unparsable
    ELSE IF row.reach \in Rungs /\ row.domain # Unparsable /\ ReadsNames(row.domain) THEN Unparsable
    ELSE row.domain
Never(row) == RowDomain(row) = List(Nothing)
RowReach(row) == IF row.reach \in Rungs THEN [rung |-> row.reach, anchor |-> row.anchor] ELSE NoReach
Rule(row) ==
    [groups |-> IF row.guard /\ ~row.members THEN {} ELSE {row.group}, restrict |-> row.guard,
     domain |-> RowDomain(row), reach |-> RowReach(row), exempt |-> IF row.guard THEN row.exempt ELSE {}]

\* What a model's own rows and those of the models that bind it make.
RowsOn(m)  == SelectSeq(AccessRows, LAMBDA row : row.model = m)
Binding(m) == <<m>> \o BoundBy[m]
Gathered(m, Of(_)) == FlattenSeq([i \in DOMAIN Binding(m) |-> Of(Binding(m)[i])])
OwnRules(m) == LET rows == RowsOn(m) IN [i \in DOMAIN rows |-> Rule(rows[i])]
RulesOn(m)  == Gathered(m, OwnRules)

Granted(m) ==
    {row.group : row \in Range(SelectSeq(Gathered(m, RowsOn), LAMBDA r : ~r.guard /\ ~Never(r)))}
DenyingGuards(m) == Range(SelectSeq(Gathered(m, RowsOn), LAMBDA r : r.guard /\ Never(r)))

-----------------------------------------------------------------------------
(* Read access to a model as a whole.                                      *)

\* A guard held in some companies only denies nothing here where the model has
\* a company: it binds those companies' records.
Denies(guard, m, user) ==
    /\ guard.exempt \cap user.groups = {}
    /\ guard.members =>
           /\ guard.group \in user.groups
           /\ ~(m \in DOMAIN CompanyAnchor /\ guard.group \in DOMAIN user.scopes)

RECURSIVE ReadAccess(_, _, _)
ReadAccess(m, user, depth) ==
    LET parents == {ReadAccess(p, user, depth + 1) : p \in AccessParents[m]}
    IN  IF depth > MaxInherits THEN "refused"
        ELSE IF Granted(m) \cap user.groups = {} THEN "denied"
        ELSE IF \E guard \in DenyingGuards(m) : Denies(guard, m, user) THEN "denied"
        ELSE IF parents \subseteq {"ok"} THEN "ok"
        ELSE CHOOSE verdict \in parents : verdict # "ok"
CheckReadAccess(m, user) == ReadAccess(m, user, 0)

-----------------------------------------------------------------------------
(* Names in a rule's domain.                                               *)

\* A scalar as the record API gives it: an absent number is 0, any other
\* absent value is false.
Scalar(f, cell) ==
    IF cell # Null THEN cell
    ELSE IF f.type \in {"integer", "many2one_reference"} THEN Num(0) ELSE Bool(FALSE)

MaxSteps == 32

\* What one step of a path leads to: a field's links, short of those its comodel
\* counts as inactive.
Shown(db, f, ids) ==
    LET active == Models[f.relation].active
    IN  IF active = NoName \/ f.activeTest = Bool(FALSE) THEN ids
        ELSE {id \in ids : db[f.relation][id][active] = Bool(TRUE)}
Lines(db, f, ids) ==
    Shown(db, f, {r \in DOMAIN db[f.relation] : db[f.relation][r][f.inverse] \in {Num(id) : id \in ids}})
Linking(db, m, f, ids) == Shown(db, f, UNION {db[m][id][f.name] : id \in ids})
Targets(db, m, f, ids) == {db[m][id][f.name].n : id \in {i \in ids : db[m][i][f.name] # Null}}

\* What a path ends on: the groups of users, records, or the scalars of records.
Groups(attr, ids) == Ids(UNION {IF attr = "group_ids" THEN HeldBy[id].given ELSE HeldBy[id].all : id \in ids})
TheOne(ids) ==
    IF ids = {} THEN Bool(FALSE)
    ELSE IF Cardinality(ids) = 1 THEN Ids(ids)["l"][1] ELSE Refused
Scalars(db, m, f, ids, mapped) ==
    LET sorted == SortedIds(ids)
    IN  IF mapped THEN List([i \in DOMAIN sorted |-> Scalar(f, db[m][sorted[i]][f.name])])
        ELSE IF ids = {} THEN Scalar(f, Null)
        ELSE IF Cardinality(ids) = 1 THEN Scalar(f, db[m][sorted[1]][f.name])
        ELSE Refused

\* A field a path may not go through: what it holds, or shows, takes Python.
Impassable(f) ==
    \/ f.translated \/ f.cd
    \/ f.type \in ToMany /\ (f.domain \notin {Null, List(<<>>)} \/ f.activeTest = [k |-> "unmodelled"])

\* The value of an attribute path read on a model's records.
RECURSIVE Chase(_, _, _, _, _, _)
Chase(user, db, m, ids, path, at) ==
    LET attr     == path[1]
        f        == Field(m, attr)
        next(to) == Chase(user, db, f.relation, to, Tail(path), [at EXCEPT !.fuel = @ - 1])
    IN  IF at.fuel = 0 THEN Refused
        ELSE IF path = <<>> THEN IF Cardinality(ids) > 1 THEN Ids(ids) ELSE TheOne(ids)
        ELSE IF attr \in {"id", "ids"}
        THEN IF Len(path) > 1 \/ (at.mapped /\ attr = "ids") THEN Refused
             ELSE IF at.mapped \/ attr = "ids" THEN Ids(ids) ELSE TheOne(ids)
        ELSE IF m = UserModel /\ attr \in {"group_ids", "all_group_ids"}
        THEN IF Tail(path) \in {<<>>, <<"ids">>} THEN Groups(attr, ids) ELSE Refused
        ELSE IF ~Has(m, attr) THEN Refused
        ELSE IF f.related # <<>>
        THEN Chase(user, db, m, ids, f.related \o Tail(path), [at EXCEPT !.fuel = @ - 1])
        ELSE IF Impassable(f) THEN Refused
        ELSE IF f.type = "one2many" /\ f.stored
        THEN IF Field(f.relation, f.inverse).type = "many2one_reference" THEN Refused
             ELSE next(Lines(db, f, ids))
        ELSE IF f.type = "many2many" /\ f.stored THEN next(Linking(db, m, f, ids))
        ELSE IF ~f.column \/ ~(ids \subseteq DOMAIN db[m]) THEN Refused
        ELSE IF f.type = "many2one" THEN next(Targets(db, m, f, ids))
        ELSE IF Len(path) > 1 THEN Refused
        ELSE Scalars(db, m, f, ids, at.mapped)

\* A name chain: the user's record, its environment, or a value of the context.
ResolveName(user, db, name) ==
    LET chain == name.chain
        at    == [mapped |-> name.mapped, fuel |-> MaxSteps]
        from(m, ids, skipped) ==
            Chase(user, db, m, ids, SubSeq(chain, skipped + 1, Len(chain)), at)
    IN  IF chain = <<"company_id">> THEN Num(user.company)
        ELSE IF chain = <<"company_ids">> THEN Ids(user.companies)
        ELSE IF chain = <<"group_ids">> THEN Ids(user.groups)
        ELSE IF chain[1] # "user" THEN Refused
        ELSE IF Len(chain) = 1 \/ chain[2] # "env" THEN from(UserModel, {user.uid}, 1)
        ELSE IF Len(chain) = 2 THEN Refused
        ELSE CASE chain[3] = "companies" -> from(CompanyModel, user.companies, 3)
               [] chain[3] = "company"   -> from(CompanyModel, {user.company}, 3)
               [] chain[3] = "user"      -> from(UserModel, {user.uid}, 3)
               [] OTHER                  -> Refused

AddValues(a, b) ==
    IF a.k # b.k THEN Refused
    ELSE CASE a.k = "list" -> List(a.l \o b.l)
           [] a.k = "num"  -> Num(a.n + b.n)
           [] a.k = "str"  -> Str(a.s \o b.s)
           [] OTHER        -> Refused

RECURSIVE Eval(_, _, _)
Eval(user, db, v) ==
    LET items == [i \in DOMAIN v.l |-> Eval(user, db, v.l[i])]
        value == Eval(user, db, v.v)
        a     == Eval(user, db, v.a)
        b     == Eval(user, db, v.b)
    IN  CASE v.k = "name" -> ResolveName(user, db, v)
          [] v.k = "ref"  -> IF v.id = 0 THEN Refused ELSE Num(v.id)
          [] v.k = "sum"  -> IF Refused \in {a, b} THEN Refused ELSE AddValues(a, b)
          [] v.k = "list" -> IF Refused \in Range(items) THEN Refused ELSE List(items)
          [] v.k = "term" -> IF value = Refused THEN Refused ELSE [v EXCEPT !.v = value]
          [] OTHER        -> v

-----------------------------------------------------------------------------
(* Domains built term by term.                                             *)

\* An explicit prefix list: the conjunctions a list leaves out are put first.
NormalizeDomain(items) ==
    LET step(st, item) ==
            LET full == st.expected = 0
                out  == IF full THEN <<Op("&")>> \o st.out ELSE st.out
                left == IF full THEN 1 ELSE st.expected
            IN  [out |-> Append(out, item),
                 expected |-> IF item.k # "op" THEN left - 1 ELSE IF item.op = "!" THEN left ELSE left + 1]
    IN  FoldLeft(step, [out |-> <<>>, expected |-> 1], items).out

\* Any of the domains: one that is empty admits everything, none at all admits
\* nothing.
OrDomains(domains) ==
    IF domains = <<>> THEN Nothing
    ELSE IF Contains(domains, <<>>) THEN <<>>
    ELSE [i \in 1..(Len(domains) - 1) |-> Op("|")]
         \o FlattenSeq([i \in DOMAIN domains |-> NormalizeDomain(domains[i])])

\* The companies a rule's groups are held in: every one, where a group held is
\* not limited.
EveryCompany == [every |-> TRUE]
HeldScope(groups, user) ==
    LET held == groups \cap user.groups
    IN  IF held \subseteq DOMAIN user.scopes
        THEN [every |-> FALSE, in |-> UNION {user.scopes[g] : g \in held}]
        ELSE EveryCompany

\* A permission reaches the companies' records and the shared ones; a guard
\* binds them there only.
Scoped(domain, anchor, companies, guard) ==
    LET in     == Term(<<anchor>>, "in", Ids(companies))
        within == IF anchor = "id" THEN <<in>>
                  ELSE <<Op("|"), in, Term(<<anchor>>, "=", Bool(FALSE))>>
    IN  IF guard THEN OrDomains(<<domain, <<Op("!")>> \o within>>)
        ELSE IF domain = <<>> THEN within
        ELSE <<Op("&")>> \o NormalizeDomain(domain) \o within

\* The principal's partner and commercial partner: what Python sent, else what
\* the database holds.
AccessPartner(user, db) ==
    LET own  == db[UserModel][user.uid]["partner"]
        held == IF user.uid \in DOMAIN db[UserModel] /\ own # Null
                THEN db[Field(UserModel, "partner").relation][own.n]["commercial"] ELSE Null
    IN  IF user.partner # Null THEN user.partner
        ELSE IF held = Null THEN Refused
        ELSE [own |-> own.n, commercial |-> held.n]

RungAnchor == ("own" :> "owner") @@ ("company" :> "company") @@ ("partner" :> "partner")
ReachDomain(m, reach, user, db) ==
    LET anchors  == Models[m].anchors
        key      == IF reach.anchor = "" THEN RungAnchor[reach.rung] ELSE reach.anchor
        anchor   == anchors[key]
        partner  == AccessPartner(user, db)
        partners == reach.rung = "partner" \/ (reach.rung = "own" /\ anchor.kind = "partner")
        among(id) == Term(anchor.path, "in", List(<<Num(id)>>))
        leaf     == CASE reach.rung = "own" /\ anchor.kind \in {"owner", "creator"} -> among(user.uid)
                      [] reach.rung = "own" /\ anchor.kind = "partner" -> among(partner.own)
                      [] reach.rung = "own" -> Refused
                      [] reach.rung = "company" ->
                            Term(anchor.path, IF anchor.hierarchy = "" THEN "in" ELSE anchor.hierarchy,
                                 Ids(user.companies))
                      [] reach.rung = "partner" ->
                            Term(anchor.path, "child_of", List(<<Num(partner.commercial)>>))
    IN  IF key \notin DOMAIN anchors THEN Refused
        ELSE IF partners /\ partner = Refused THEN Refused
        ELSE IF leaf = Refused THEN Refused
        ELSE IF anchor.shared THEN List(<<Op("|"), leaf, Term(anchor.path, "=", Bool(FALSE))>>)
        ELSE List(<<leaf>>)

-----------------------------------------------------------------------------
(* A model's rules.                                                        *)

Applies(rule, user) ==
    /\ rule.groups = {} \/ rule.groups \cap user.groups # {}
    /\ ~(rule.restrict /\ rule.exempt \cap user.groups # {})

\* One rule's domain for a user: its terms with their names read, below its
\* reach, within the companies its group is held in.
RuleDomain(m, rule, user, db) ==
    LET own     == IF rule.domain = Null THEN List(<<>>)
                   ELSE IF rule.domain = Unparsable THEN Refused ELSE Eval(user, db, rule.domain)
        reach   == IF rule.reach = NoReach THEN List(<<>>) ELSE ReachDomain(m, rule.reach, user, db)
        reached == IF rule.reach = NoReach THEN own.l ELSE reach.l \o NormalizeDomain(own.l)
        scope   == HeldScope(rule.groups, user)
    IN  IF Refused \in {own, reach} THEN Refused
        ELSE IF rule.groups # {} /\ m \in DOMAIN CompanyAnchor /\ ~scope.every
        THEN List(Scoped(reached, CompanyAnchor[m], scope.in, rule.restrict))
        ELSE List(reached)

\* The domain of the records a user may read: any permission held, and every
\* guard that binds, and what each delegated parent asks of its own record.
\* Null where nothing is asked.
RECURSIVE RulesAt(_, _, _, _)
RulesAt(m, user, db, depth) ==
    LET links     == IF Models[m].inheritsRules THEN Inherits[m] ELSE <<>>
        columns   == \A i \in DOMAIN links : Has(m, links[i].via) /\ Field(m, links[i].via).column
        parents   == [i \in DOMAIN links |-> RulesAt(links[i].parent, user, db, depth + 1)]
        asked     == SelectSeq([i \in DOMAIN links |-> i], LAMBDA i : parents[i] # Null)
        inherited == [i \in DOMAIN asked |-> Term(<<links[asked[i]].via>>, "any", parents[asked[i]])]
        applying  == SelectSeq(RulesOn(m), LAMBDA rule : Applies(rule, user))
        domains   == [i \in DOMAIN applying |-> RuleDomain(m, applying[i], user, db)]
        chosen(Is(_)) == LET picked == SelectSeq([i \in DOMAIN applying |-> i], LAMBDA i : Is(applying[i]))
                         IN  [i \in DOMAIN picked |-> domains[picked[i]].l]
        permits(r) == r.groups # {} /\ ~r.restrict
        binds(r)   == ~permits(r)
        combined  == inherited \o FlattenSeq(chosen(binds)) \o OrDomains(chosen(permits))
    IN  IF depth > MaxInherits \/ ~Models[m].guardPure \/ ~columns THEN Refused
        ELSE IF Refused \in Range(parents) THEN Refused
        ELSE IF RulesOn(m) = <<>> THEN IF inherited = <<>> THEN Null ELSE List(inherited)
        ELSE IF Refused \in Range(domains) THEN Refused
        ELSE IF combined = <<>> THEN Null ELSE List(combined)
RulesDomain(m, user, db) == RulesAt(m, user, db, 0)

-----------------------------------------------------------------------------
(* Which models a domain reads.                                            *)

\* The models on the way of a path, as far as it leads.
RECURSIVE Along(_, _)
Along(m, path) ==
    IF path = <<>> THEN <<>>
    ELSE IF ~Has(m, path[1]) \/ Field(m, path[1]).relation = NoName THEN <<>>
    ELSE <<Field(m, path[1]).relation>> \o Along(Field(m, path[1]).relation, Tail(path))

RECURSIVE ComodelsOf(_, _)
ComodelsOf(m, t) ==
    LET along  == Along(m, NormalizePath(m, t.f))
        nested == ParseNested(t.v)
    IN  CASE t.k \in Junctions -> UNION {ComodelsOf(m, t.c[i]) : i \in DOMAIN t.c}
          [] t.k = "not"  -> ComodelsOf(m, t.n)
          [] t.k = "leaf" ->
                IF along = <<>> THEN {}
                ELSE Range(along) \cup
                     (IF nested \in {Refused, True} THEN {} ELSE ComodelsOf(Last(along), nested))
          [] OTHER -> {}

\* One model's rules as they are compiled: its tree, with constants folded and
\* its hierarchies walked, or rules no domain expresses.
Ruled == {m \in DOMAIN BoundBy : RulesOn(m) # <<>>}
ModelRules(c, m, user) ==
    LET root     == [Sudo(c) EXCEPT !.m = m, !.stack = <<>>]
        domain   == RulesDomain(m, user, c.env.db)
        resolved == Resolve(root, m, domain.l)
        tree     == FoldConstants(Parse(resolved.tokens))
    IN  IF domain = Null THEN Unrestricted
        ELSE IF domain = Refused \/ Parse(domain.l) = Refused \/ ~AcceptedFromCaller(Parse(domain.l))
                \/ resolved.err # "ok" \/ tree = Refused
        THEN Unevaluated
        ELSE Restriction(tree, resolved.touched)

=============================================================================
