--------------------------------- MODULE Scan ---------------------------------
(***************************************************************************)
(* What the kernel answers once a condition is built: the order of the     *)
(* rows (the last part of src/kernel/src/sqlgen.rs), the values, labels    *)
(* and links of a search_read, and the groups of a read_group              *)
(* (src/kernel/src/scan.rs).                                               *)
(*                                                                         *)
(* An order is a sequence of terms [field, desc, nulls], nulls being       *)
(* "default", "first" or "last".                                           *)
(***************************************************************************)
EXTENDS Rules

-----------------------------------------------------------------------------
(* Expressions: a value for each row, or the reason there is none.         *)

Expr(value) == [err |-> "ok", value |-> value]
NoExpr(why) == [err |-> why, value |-> <<>>]

\* A related field is read through links stored as columns, under its
\* records' own access only where Python computes it so.
RelatedAllowed(c, f) == ~c.checked \/ f.computeSudo \/ f.inherited
RECURSIVE Joinable(_, _)
Joinable(m, path) ==
    LET f == Field(m, path[1])
    IN  /\ f.column
        /\ Len(path) > 1 => f.type = "many2one" /\ Joinable(f.relation, Tail(path))

RECURSIVE RelatedCell(_, _, _)
RelatedCell(c, path, id) ==
    LET here == Value(c, Field(c.m, path[1]), id)
    IN  IF Len(path) = 1 \/ here = Null THEN here
        ELSE RelatedCell([c EXCEPT !.m = Field(c.m, path[1]).relation], Tail(path), here.n)

ReadExpr(c, f) ==
    LET path == NormalizePath(c.m, <<f.name>>)
    IN  IF f.column THEN Expr([id \in Rows(c) |-> Value(c, f, id)])
        ELSE IF f.related = <<>> \/ ~RelatedAllowed(c, f) \/ path = Unfollowable THEN NoExpr("refused")
        ELSE IF ~Joinable(c.m, path) THEN NoExpr("refused")
        ELSE Expr([id \in Rows(c) |-> RelatedCell(c, path, id)])

\* What a value is on the rows that reach a record, and on those that do not.
Reaching(at, value) == [id \in DOMAIN at |-> IF at[id] = Null THEN Null ELSE value[at[id].n]]
OrFalse(f, value) ==
    IF f.type = "boolean" /\ ~f.notnull
    THEN [id \in DOMAIN value |-> IF value[id] = Null THEN Bool(FALSE) ELSE value[id]]
    ELSE value

-----------------------------------------------------------------------------
(* Ordering.                                                               *)

Key(value, desc, nulls) == [value |-> value, desc |-> desc, nulls |-> nulls]
Keys(keys)   == [err |-> "ok", keys |-> keys]
NoKeys(why)  == [err |-> why, keys |-> <<>>]
ThenBy(a, b) == IF a.err # "ok" THEN a ELSE IF b.err # "ok" THEN b ELSE Keys(a.keys \o b.keys)

\* Mutant of Turned: the nulls stay where a reversed link's order puts them.
TurnedNever(nulls, reverse) == nulls

Turned(nulls, reverse) ==
    CASE reverse /\ nulls = "first" -> "last"
      [] reverse /\ nulls = "last"  -> "first"
      [] OTHER -> nulls

ById == <<[field |-> "id", desc |-> FALSE, nulls |-> "default"]>>

\* The keys of an order on the records that the rows reach: a link is ordered
\* by the order of what it leads to, reversed where the link is, and is left
\* out where the way here passed it already.
RECURSIVE OrderKeys(_, _, _, _, _)
OrderTerm(c, at, term, reverse, seen) ==
    LET f      == Field(c.m, term.field)
        desc   == term.desc # reverse
        nulls  == Turned(term.nulls, reverse)
        by(value) == Keys(<<Key(Reaching(at, value), desc, nulls)>>)
        related == ReadExpr(c, f)
        here   == OrFalse(f, Reaching(at, [id \in Rows(c) |-> Value(c, f, id)]))
        absent == [id \in DOMAIN at |-> Bool((here[id] = Null) = (nulls = "last"))]
        first  == IF nulls = "default" THEN Keys(<<>>) ELSE Keys(<<Key(absent, FALSE, "default")>>)
        co     == [c EXCEPT !.m = f.relation]
        link   == <<c.m, f.name>>
    IN  IF term.field \in DOMAIN c.env.fragments
        THEN IF seen # {} THEN NoKeys("refused") ELSE by(c.env.fragments[term.field])
        ELSE IF ~Has(c.m, term.field) THEN NoKeys("refused")
        ELSE IF c.checked /\ Reading(c, f) = "refused" THEN NoKeys("refused")
        ELSE IF c.checked /\ Reading(c, f) = "denied" THEN Keys(<<>>)
        ELSE IF f.orderBy # NoName
        THEN OrderKeys(c, at, <<[term EXCEPT !.field = f.orderBy]>>, reverse, seen)
        ELSE IF ~f.column
        THEN IF related.err # "ok" THEN NoKeys(related.err) ELSE by(related.value)
        ELSE IF f.type # "many2one" THEN Keys(<<Key(here, desc, nulls)>>)
        ELSE IF link \in seen THEN Keys(<<>>)
        ELSE IF Models[f.relation].order = ById THEN Keys(<<Key(here, desc, nulls)>>)
        ELSE ThenBy(first, OrderKeys(co, here, Models[f.relation].order, desc, seen \cup {link}))

OrderKeys(c, at, terms, reverse, seen) ==
    IF ~Models[c.m].orderPure THEN NoKeys("refused")
    ELSE FoldLeft(ThenBy, Keys(<<>>),
                  [i \in DOMAIN terms |-> OrderTerm(c, at, terms[i], reverse, seen)])

\* The id settles what the terms leave open.
TotalOrder(c, terms) ==
    LET itself == [id \in Rows(c) |-> Num(id)]
        asked  == OrderKeys(c, itself, terms, FALSE, {})
        named  == \E i \in DOMAIN terms : terms[i].field = "id"
    IN  IF named THEN asked ELSE ThenBy(asked, Keys(<<Key(itself, FALSE, "default")>>))

\* How the database orders by keys: an absent value comes after the others in
\* an ascending order and before them in a descending one, unless told.
NullsFirst(key) == key.nulls = "first" \/ (key.nulls = "default" /\ key.desc)
KeyBefore(key, a, b) ==
    LET x == key.value[a]
        y == key.value[b]
    IN  IF Null \in {x, y} THEN x # y /\ (x = Null) = NullsFirst(key)
        ELSE IF key.desc THEN Less(y, x) ELSE Less(x, y)
Before(keys, a, b) ==
    \E i \in DOMAIN keys :
        /\ KeyBefore(keys[i], a, b)
        /\ \A j \in 1..(i - 1) : ~KeyBefore(keys[j], b, a) /\ ~KeyBefore(keys[j], a, b)
Ordered(ids, keys) == SetToSortSeq(ids, LAMBDA a, b : Before(keys, a, b))

Page(sorted, offset, limit) ==
    SubSeq(sorted, offset + 1, IF limit = Null \/ offset + limit.n > Len(sorted) THEN Len(sorted)
                               ELSE offset + limit.n)

-----------------------------------------------------------------------------
(* Labels and links.                                                       *)

\* A column or related field the reader must be let read, to show it.
FieldAccess(c, f) == IF c.su THEN "ok" ELSE Reading(c, f)

\* The text a model's records are named with: the first of its name columns
\* that is not empty, or its record name where that can be read; no
\* expression where records are named after their id.
Unnamed == [err |-> "ok", value |-> Unbound]
DisplayNameExpr(c) ==
    LET columns  == Models[c.m].display
        exprs    == [i \in DOMAIN columns |-> ReadExpr(c, Field(c.m, columns[i]))]
        verdicts == [i \in DOMAIN columns |->
                        IF ~Has(c.m, columns[i]) THEN "refused"
                        ELSE IF FieldAccess(c, Field(c.m, columns[i])) # "ok"
                        THEN FieldAccess(c, Field(c.m, columns[i])) ELSE exprs[i].err]
        bad      == SelectInSeq(verdicts, LAMBDA v : v # "ok")
        first(id) == SelectInSeq(exprs, LAMBDA e : e.value[id] \notin {Null, Str(<<>>)})
        rec      == Models[c.m].recName
        named    == ReadExpr(c, Field(c.m, rec))
    IN  IF columns # <<>>
        THEN IF bad # 0 THEN NoExpr(verdicts[bad])
             ELSE Expr([id \in Rows(c) |-> IF first(id) = 0 THEN Null ELSE exprs[first(id)].value[id]])
        ELSE IF rec = NoName \/ ~Has(c.m, rec) THEN Unnamed
        ELSE IF named.err # "ok" THEN Unnamed
        ELSE IF FieldAccess(c, Field(c.m, rec)) # "ok" THEN NoExpr(FieldAccess(c, Field(c.m, rec)))
        ELSE named

DisplayNameCell(expr, id) ==
    IF expr.value = Unbound THEN [k |-> "modelAndId"]
    ELSE IF expr.value[id] \in {Null, Str(<<>>)} THEN Bool(FALSE) ELSE expr.value[id]

\* A record that names itself after a translated placeholder while its guard
\* column is empty is named so in the source language only.
English == 1
Placeholder(c, id) ==
    LET guard == Models[c.m].guard
    IN  guard # NoName /\ c.env.lang # English /\ Value(c, Field(c.m, guard), id) \in {Null, Str(<<>>)}

\* The names of the records a reader may see among those asked for.
Names(names) == [err |-> "ok", names |-> names]
NoNames(why) == [err |-> why, names |-> <<>>]
DisplayNames(base, co, ids) ==
    LET c       == [base EXCEPT !.m = co, !.stack = <<>>]
        expr    == DisplayNameExpr(c)
        ruled   == IF ~c.su /\ Restricted(c.env.rules, co) THEN CompileRules(c) ELSE AllRows(c)
        shown   == ids \cap Selected(ruled)
        widened == ~c.su /\ ~Models[co].namesPure
    IN  IF ids = {} THEN Names(<<>>)
        ELSE IF ~Models[co].displayDefault \/ (~c.su /\ ~Models[co].accessPure) THEN NoNames("refused")
        ELSE IF ~c.su /\ c.env.access[co] # "ok"
        THEN IF widened THEN NoNames("refused") ELSE Names(<<>>)
        ELSE IF expr.err # "ok" THEN NoNames(expr.err)
        ELSE IF ~c.su /\ ~Evaluated(c.env.rules, co) THEN NoNames("refused")
        ELSE IF ruled.err # "ok" THEN NoNames(ruled.err)
        ELSE IF expr.value # Unbound /\ \E id \in shown : Placeholder(c, id) THEN NoNames("refused")
        ELSE IF widened /\ shown # ids THEN NoNames("refused")
        ELSE Names([id \in shown |-> DisplayNameCell(expr, id)])

\* The records a to-many field shows for each of the owners, in their order.
Links(links)  == [err |-> "ok", links |-> links]
NoLinks(why)  == [err |-> why, links |-> <<>>]
X2manyIds(base, f, owners, activeTest) ==
    LET co      == f.relation
        c       == [base EXCEPT !.m = co, !.stack = <<>>]
        active  == Models[co].active
        tested  == IF f.activeTest = Null THEN activeTest ELSE f.activeTest = Bool(TRUE)
        shown   == Sql([id \in Rows(c) |-> Member(c.env.db[co][id][active], {Bool(TRUE)})], {})
        cond    == Conj(FieldDomainCond(c, f, base.m),
                        IF active # NoName /\ tested THEN shown ELSE AllRows(c))
        ruled   == IF ~c.su /\ Restricted(c.env.rules, co) THEN CompileRules(c) ELSE AllRows(c)
        keys    == TotalOrder(c, Models[co].order)
        of(id)  == IF f.type = "one2many" THEN Linked(c, co, f.inverse, {id})
                                          ELSE c.env.db[base.m][id][f.name] \cap Rows(c)
        members == Selected(Conj(cond, ruled))
    IN  IF owners = {} THEN Links(<<>>)
        ELSE IF ~Models[co].pure \/ (active # NoName /\ f.activeTest = [k |-> "unmodelled"])
        THEN NoLinks("refused")
        ELSE IF ~c.su /\ c.env.access[co] # "ok" THEN NoLinks(c.env.access[co])
        ELSE IF ~c.su /\ ~Evaluated(c.env.rules, co) THEN NoLinks("refused")
        ELSE IF ~f.stored \/ (f.type = "one2many" /\ (~Has(co, f.inverse) \/ ~Field(co, f.inverse).column))
        THEN NoLinks("refused")
        ELSE IF Conj(cond, ruled).err # "ok" THEN NoLinks(Conj(cond, ruled).err)
        ELSE IF keys.err # "ok" THEN NoLinks(keys.err)
        ELSE Links([id \in owners |-> Ordered(of(id) \cap members, keys.keys)])

-----------------------------------------------------------------------------
(* search_read.                                                            *)

Rowset(rows) == [err |-> "ok", rows |-> rows]
NoRowset(why) == [err |-> why, rows |-> <<>>]
FirstError(verdicts) ==
    LET i == SelectInSeq(verdicts, LAMBDA v : v # "ok") IN IF i = 0 THEN "ok" ELSE verdicts[i]

\* The field whose column a field shows: the last one of a related path.
FinalField(m, f) ==
    LET path == NormalizePath(m, <<f.name>>)
    IN  IF f.column \/ f.related = <<>> THEN f ELSE Field(Holder(m, path), Last(path))

\* Mutant of ShownLink: a hidden link keeps its id.
ShownLinkUnredacted(cell, names, keepHidden) ==
    IF cell = Null THEN Bool(FALSE)
    ELSE IF cell.n \in DOMAIN names THEN [k |-> "named", id |-> cell.n, name |-> names[cell.n]]
    ELSE cell

\* A many2one shows the name of what it links to; what the reader may not see
\* is shown as no link, or as a bare id where the request asks for it.
ShownLink(cell, names, keepHidden) ==
    IF cell = Null THEN Bool(FALSE)
    ELSE IF cell.n \in DOMAIN names THEN [k |-> "named", id |-> cell.n, name |-> names[cell.n]]
    ELSE IF keepHidden THEN cell ELSE Bool(FALSE)

\* A record name the reader's column cannot render is not the model and the id.
Unrendered(c) ==
    LET named == DisplayNameExpr(c)
    IN  /\ Models[c.m].recName # NoName /\ Models[c.m].display = <<>>
        /\ named.err = "ok" /\ named.value = Unbound

Readable(c, fname) ==
    LET f == Field(c.m, fname)
    IN  IF fname = "id" THEN "ok"
        ELSE IF fname = "display_name"
        THEN IF ~Models[c.m].displayDefault \/ Unrendered(c) THEN "refused" ELSE "ok"
        ELSE IF ~Has(c.m, fname) THEN "refused"
        ELSE IF FieldAccess(c, f) # "ok" THEN FieldAccess(c, f)
        ELSE IF f.type \in ToMany THEN "ok"
        ELSE ReadExpr(c, f).err

\* One field of the rows found: their values, or the reason they are not shown.
Column(c, r, fname, ids) ==
    LET f      == Field(c.m, fname)
        last   == FinalField(c.m, f)
        expr   == ReadExpr(c, f)
        named  == DisplayNameExpr(c)
        linked == {expr.value[id].n : id \in {i \in ids : expr.value[i] # Null}}
        names  == DisplayNames(c, last.relation, linked)
        links  == X2manyIds(c, f, ids, r.x2manyActive)
    IN  IF fname = "id" THEN Expr([id \in ids |-> Num(id)])
        ELSE IF fname = "display_name"
        THEN IF named.err # "ok" THEN NoExpr(named.err)
             ELSE IF \E id \in ids : Placeholder(c, id) THEN NoExpr("refused")
             ELSE Expr([id \in ids |-> DisplayNameCell(named, id)])
        ELSE IF f.type \in ToMany
        THEN IF links.err # "ok" THEN NoExpr(links.err)
             ELSE Expr([id \in ids |-> [k |-> "ids", ids |-> links.links[id]]])
        ELSE IF last.type # "many2one" \/ fname \in r.raw THEN Expr([id \in ids |-> expr.value[id]])
        ELSE IF names.err # "ok" THEN NoExpr(names.err)
        ELSE Expr([id \in ids |-> ShownLink(expr.value[id], names.names, fname \in r.unredacted)])

SearchRead(c, r, cond) ==
    LET keys    == TotalOrder(c, IF r.order = Null THEN Models[c.m].order ELSE r.order.l)
        sorted  == Page(Ordered(Selected(cond), keys.keys), r.offset, r.limit)
        columns == [i \in DOMAIN r.fields |-> Column(c, r, r.fields[i], Range(sorted))]
        planned == FirstError([i \in DOMAIN r.fields |-> Readable(c, r.fields[i])])
        shown   == FirstError([i \in DOMAIN columns |-> columns[i].err])
    IN  IF planned # "ok" THEN NoRowset(planned)
        ELSE IF keys.err # "ok" THEN NoRowset(keys.err)
        ELSE IF shown # "ok" THEN NoRowset(shown)
        ELSE Rowset([i \in DOMAIN sorted |->
                 [id |-> sorted[i],
                  cells |-> [j \in DOMAIN columns |-> columns[j].value[sorted[i]]]]])

SearchCount(cond, limit) ==
    LET n == Cardinality(Selected(cond)) IN IF limit = Null \/ n < limit.n THEN n ELSE limit.n

-----------------------------------------------------------------------------
(* read_group.                                                             *)

\* What the kernel's answers need of a model's Python.
Needs(method) ==
    CASE method = "search_read"  -> {"_search", "search_read", "search_fetch", "fetch",
                                     "_fetch_query", "_field_to_sql"}
      [] method = "search_count" -> {"_search", "search_count"}
      [] method = "read_group"   -> {"_search", "_read_group", "_field_to_sql"}
      [] method = "labels"       -> {"search_fetch", "fetch", "_fetch_query", "_field_to_sql"}
      [] OTHER                   -> {}

\* The text of a rule without a condition is left out of a join: a rule that
\* holds nowhere has none, as one that holds everywhere.
WithoutText(tree) == tree \in {True, False, And(<<>>), Or(<<>>)}

\* Mutant of JoinRules: the reader's rules are no part of the join.
JoinRulesLeftOut(sub, verdict) == AllRows(sub)

JoinRules(sub, verdict) ==
    IF verdict = "apply" /\ WithoutText(sub.env.rules.domains[sub.m]) THEN AllRows(sub)
    ELSE RuleCondition(sub, verdict)

\* The records reached through a link that the reader's rules let be joined.
HopJoin(c, at, fname) ==
    LET f    == Field(c.m, fname)
        sub  == Sub(c, f.relation)
        cond == JoinRules(sub, ComodelRules(sub, f.relation, "no"))
        here == Reaching(at, [id \in Rows(c) |-> Value(c, f, id)])
    IN  IF ~Has(c.m, fname) THEN NoExpr("refused")
        ELSE IF FieldAccess(c, f) # "ok" THEN NoExpr(FieldAccess(c, f))
        ELSE IF f.cd \/ f.type # "many2one" \/ ~f.column THEN NoExpr("refused")
        ELSE IF cond.err # "ok" THEN NoExpr(cond.err)
        ELSE Expr([id \in DOMAIN at |->
                 IF here[id] # Null /\ here[id].n \in Selected(cond) THEN here[id] ELSE Null])

\* Mutant of Joined: an inner join.
JoinedInner(links) == {Num(to) : to \in links}

\* An outer join: a row without a link has an empty one.
Joined(links) == IF links = {} THEN {Null} ELSE {Num(to) : to \in links}

\* The links of a many2many that a group may be made of.
GroupLinks(c, f) ==
    LET co    == f.relation
        sub   == Sub(c, co)
        cond  == Conj(Conj(FieldDomainCond(sub, f, c.m), ActiveFilter(sub, f, True)),
                      JoinRules(sub, ComodelRules(sub, co, f.bypass)))
        links == [id \in Rows(c) |-> c.env.db[c.m][id][f.name] \cap Selected(cond)]
    IN  IF f.related # <<>> \/ ~f.stored THEN NoExpr("refused")
        ELSE IF cond.err # "ok" THEN NoExpr(cond.err)
        ELSE Expr([id \in Rows(c) |-> Joined(links[id])])

\* What a row is grouped by along a path: its keys, more than one where it has
\* several links.  An empty text is no text, an unset boolean is false.
Folded(f, cell) ==
    IF f.type = "char" /\ cell = Str(<<>>) THEN Null
    ELSE IF f.type = "boolean" /\ cell = Null THEN Bool(FALSE) ELSE cell
GroupField(m, fname) ==
    LET named == Field(m, fname)
    IN  IF named.groupBy # NoName /\ Has(m, named.groupBy) THEN Field(m, named.groupBy) ELSE named
RECURSIVE GroupKeys(_, _, _, _)
GroupKeys(c, at, path, first) ==
    LET named == Field(c.m, path[1])
        f     == GroupField(c.m, path[1])
        hop   == HopJoin(c, at, path[1])
        expr  == ReadExpr(c, f)
        here  == Reaching(at, expr.value)
    IN  IF Len(path) > 1
        THEN IF hop.err # "ok" THEN hop
             ELSE GroupKeys(Sub(c, named.relation), hop.value, Tail(path), FALSE)
        ELSE IF ~Has(c.m, path[1]) THEN NoExpr("refused")
        ELSE IF FieldAccess(c, named) # "ok" THEN NoExpr(FieldAccess(c, named))
        ELSE IF named.groupBy # NoName /\ ~Has(c.m, named.groupBy) THEN NoExpr("refused")
        ELSE IF FieldAccess(c, f) # "ok" THEN NoExpr(FieldAccess(c, f))
        ELSE IF f.type = "many2many" THEN IF first THEN GroupLinks(c, f) ELSE NoExpr("refused")
        ELSE IF f.type \in {"date", "datetime"} THEN NoExpr("refused")
        ELSE IF expr.err # "ok" THEN expr
        ELSE Expr([id \in DOMAIN at |-> {Folded(f, here[id])}])

\* Groups of one spec, with their counts; a group of records the reader may not
\* see has an empty label where the request asks for it.
ReadGroup(c, r, cond) ==
    LET itself == [id \in Rows(c) |-> Num(id)]
        keys   == GroupKeys(c, itself, r.groupby, TRUE)
        f      == GroupField(Holder(c.m, r.groupby), Last(r.groupby))
        rows   == Selected(cond)
        groups == UNION {keys.value[id] : id \in rows}
        linked == f.type = "many2many" \/ (f.type = "many2one" /\ f.column)
        ids    == {key.n : key \in groups \ {Null}}
        names  == DisplayNames(c, f.relation, ids)
        impure == Models[f.relation].overridden \cap Needs("labels") # {}
        shown  == linked /\ r.labels
    IN  IF keys.err # "ok" THEN NoRowset(keys.err)
        ELSE IF shown /\ r.hiddenEmpty /\ impure THEN NoRowset("refused")
        ELSE IF shown /\ names.err # "ok" THEN NoRowset(names.err)
        ELSE IF shown /\ ~r.hiddenEmpty /\ ~(ids \subseteq DOMAIN names.names) THEN NoRowset("refused")
        ELSE Rowset({[key |-> key, count |-> Cardinality({id \in rows : key \in keys.value[id]})] :
                        key \in groups})

=============================================================================
