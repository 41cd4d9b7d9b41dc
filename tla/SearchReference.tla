---------------------------- MODULE SearchReference ----------------------------
(***************************************************************************)
(* What a search should answer.  The reference reads a domain from left to *)
(* right, record by record and in two truth values: it knows no rewriting, *)
(* no complement operator, no NULL and no subquery.  A reader x is         *)
(*   user      the identity, with its groups and companies                 *)
(*   su        no record rule applies                                      *)
(*   active    inactive records are left out of to-many fields             *)
(*   lang, midnight   of the request                                       *)
(*   resolved  the rules Python resolved for the request                   *)
(***************************************************************************)
EXTENDS Answers

Reader(r) == [user |-> r.user, su |-> r.su, active |-> r.activeTest, lang |-> r.lang,
              midnight |-> r.midnight, resolved |-> IF r.su THEN <<>> ELSE r.resolved]
Ruling(x) == [x EXCEPT !.su = TRUE, !.active = FALSE]

\* What a field holds for the reader: the text in their language, their
\* company's value or its default.
Default(x, f) ==
    LET of(company) == {d.v : d \in {d \in Range(f.defaults) : d.company = company}} \ {Null}
    IN  CASE of(x.user.company) # {} -> CHOOSE v \in of(x.user.company) : TRUE
          [] of(EveryOne) # {} -> CHOOSE v \in of(EveryOne) : TRUE
          [] OTHER -> f.cdFallback
Cell(x, f, id) ==
    LET stored == IF f.name = "id" THEN Num(id) ELSE Database[f.model][id][f.name]
        local(i, otherwise) == IF stored = Null THEN otherwise
                               ELSE IF stored.v[i] = Null THEN otherwise ELSE stored.v[i]
    IN  IF f.cd THEN local(x.user.company, Default(x, f))
        ELSE IF f.translated THEN local(x.lang, local(English, Null))
        ELSE stored

\* An absent value reads as the falsy one of its type.
Reads(f, cell) == IF cell = Null /\ Falsy(f) # NoFalsy THEN Falsy(f) ELSE cell
Midnight(x, d) == IF d \in {FirstDay, LastDay} THEN 2 * d ELSE x.midnight[d].t
OnDay(x, t, d) == Midnight(x, d) <= t /\ (d = LastDay \/ t < Midnight(x, d + 1))

\* A cell is one of the values a domain lists.
IsValue(x, f, cell, v) ==
    LET here == Reads(f, cell)
    IN  CASE IsNullLike(v) -> here = Reads(f, Null)
          [] f.type = "boolean" -> here = Bool(PyTruth(v))
          [] f.type = "datetime" /\ v.k = "day" -> cell # Null /\ OnDay(x, cell.t, v.d)
          [] f.type = "char" /\ IsNumber(v) -> here = NumberText(v.n)
          [] f.type = "integer" /\ IsText(v) -> here = CoerceNumeric(v)
          [] OTHER -> here = v

IsOrdered(x, f, cell, op, v) ==
    LET here == Reads(f, cell)
        than == IF IsNullLike(v) THEN Reads(f, Null)
                ELSE IF f.type = "char" /\ IsNumber(v) THEN NumberText(v.n) ELSE v
    IN  /\ here # Null /\ than # Null
        /\ IF f.type = "datetime" /\ than.k = "day"
           THEN CASE op = "<"  -> here.t < Midnight(x, than.d)
                  [] op = ">=" -> here.t >= Midnight(x, than.d)
                  [] op = ">"  -> than.d < LastDay /\ here.t >= Midnight(x, than.d + 1)
                  [] op = "<=" -> than.d = LastDay \/ here.t < Midnight(x, than.d + 1)
           ELSE Compares(here, op, than)

\* An absent text reads as the empty one.
IsLike(cell, op, v) ==
    LET text    == IF cell = Null THEN <<>> ELSE AsText(cell)
        pattern == IF IsNumber(v) THEN NumberText(v.n).s ELSE IF IsText(v) THEN v.s ELSE <<>>
    IN  Matches(text, IF op \in {"=like", "=ilike"} THEN pattern ELSE Wrapped(pattern),
                op \in {"ilike", "=ilike"})

Complement_ == ("!=" :> "=") @@ ("<>" :> "=") @@ ("not in" :> "in") @@ ("not any" :> "any")
               @@ ("not any!" :> "any!") @@ ("not like" :> "like") @@ ("not ilike" :> "ilike")
               @@ ("not =like" :> "=like") @@ ("not =ilike" :> "=ilike")

-----------------------------------------------------------------------------
(* Links and hierarchies.                                                  *)

RECURSIVE Satisfies(_, _, _, _), Allowed(_, _, _)

Linked_(x, f, id) ==
    CASE f.search = "followers" ->
            LET rows == Range(Database[Followers])
            IN  {row.partner_id.n : row \in {r \in rows : r.res_model = f.model /\ r.res_id = Num(id)}}
      [] f.type = "many2one"  -> IF Cell(x, f, id) = Null THEN {} ELSE {Cell(x, f, id).n}
      [] f.type = "many2many" /\ f.search = "column" -> Database[f.model][id][f.name]
      [] f.type = "one2many"  -> {r \in DOMAIN Database[f.relation] :
                                     Database[f.relation][r][f.inverse] = Num(id)}

\* The linked records that are the field's: those of its own domain.
Own(x, f, id) ==
    {r \in Linked_(x, f, id) : f.type \in ToMany /\ f.domain # Null =>
                                   Satisfies(x, f.relation, r, f.domain.l)}
Active(x, f, r) ==
    LET active == Models[f.relation].active
        tested == IF f.activeTest = Null THEN x.active ELSE f.activeTest = Bool(TRUE)
    IN  f.type \in ToMany /\ active # NoName /\ tested
            => Database[f.relation][r][active] = Bool(TRUE)

\* The linked records a search through the field reaches.
Reached(x, f, id, named, bypass) ==
    {r \in Own(x, f, id) : /\ named \/ Active(x, f, r)
                           /\ x.su \/ bypass \/ Allowed(x, f.relation, r)}

\* The chain of links between two records is followed to its end.
RECURSIVE Above(_, _, _, _)
Above(m, link, ids, n) ==
    IF n = 0 THEN ids
    ELSE LET up == {Database[m][id][link].n : id \in {i \in ids : Database[m][i][link] # Null}}
         IN  Above(m, link, ids \cup up, n - 1)
IsUnder(m, id, root, link) == root \in Above(m, link, {id}, Cardinality(DOMAIN Database[m]))

-----------------------------------------------------------------------------
(* Records and domains.                                                    *)

NameIs(x, m, id, op, v) ==
    \E i \in DOMAIN Models[m].names : Satisfies(x, m, id, <<Term(<<Models[m].names[i]>>, op, v)>>)

\* The values a related field reads: what it reaches, or an absent value.
RECURSIVE RelatedValues(_, _, _, _, _)
RelatedValues(x, m, id, path, sudo) ==
    LET f  == Field(m, path[1])
        to == Reached(x, f, id, FALSE, sudo)
    IN  IF Len(path) = 1 THEN {Cell(x, f, id)}
        ELSE IF to = {} THEN {Null}
        ELSE UNION {RelatedValues(x, f.relation, r, Tail(path), sudo) : r \in to}

Roots(x, m, v) ==
    LET items == Items(v)
    IN  {items[i].n : i \in {j \in DOMAIN items : IsNumber(items[j])}}
        \cup {r \in DOMAIN Database[m] :
                 /\ \E i \in DOMAIN items : IsText(items[i]) /\ NameIs(x, m, r, "ilike", items[i])
                 /\ x.su \/ Allowed(x, m, r)}

LinkHolds(x, f, id, op, v) ==
    LET items == Items(v)
        co    == f.relation
        named(i) == \E r \in Reached(x, f, id, FALSE, f.bypass = "yes") :
                        NameIs(x, co, r, "=", items[i])
        is(i)    == CASE items[i] \in {Null, Bool(FALSE), Num(0)} -> Own(x, f, id) = {}
                      [] IsText(items[i]) -> named(i)
                      [] OTHER -> items[i].n \in Own(x, f, id)
    IN  CASE v.k = "sql" -> Own(x, f, id) \cap v.ids # {}
          [] op = "any"  -> \E r \in Reached(x, f, id, "active" \in {v.l[i].left.p[1] :
                                                 i \in {j \in DOMAIN v.l : v.l[j].k = "term"}},
                                             f.bypass = "yes") : Satisfies(x, co, r, v.l)
          [] op = "any!" -> \E r \in Reached(x, f, id, FALSE, TRUE) : Satisfies(x, co, r, v.l)
          [] op \in LikeOperators ->
                \E r \in Reached(x, f, id, FALSE, f.bypass = "yes") : NameIs(x, co, r, op, v)
          [] OTHER -> \E i \in DOMAIN items : is(i)

Under(x, m, id, fname, op, v) ==
    LET f     == Field(m, fname)
        self  == fname = "id" \/ f.relation = m
        on    == IF self THEN m ELSE f.relation
        link  == IF fname # "id" /\ self THEN fname ELSE Models[on].parent
        here  == IF self THEN {id} ELSE Linked_(x, f, id)
        below(r, root) == IF op = "child_of" THEN IsUnder(on, r, root, link) ELSE IsUnder(on, root, r, link)
    IN  \E r \in here : \E root \in Roots(x, on, v) : below(r, root)

TermHolds(x, m, id, path, op, v) ==
    LET f        == Field(m, path[1])
        values   == IF f.column THEN {Cell(x, f, id)} ELSE RelatedValues(x, m, id, f.related, f.computeSudo)
        equal(cell) == \E i \in DOMAIN Items(v) : IsValue(x, f, cell, Items(v)[i])
        \* An inequality of an unreached value follows the falsy one, as any other.
        holds(cell) == IF op \in Inequalities THEN IsOrdered(x, f, cell, op, v)
                       ELSE IF op \in LikeOperators THEN IsLike(cell, op, v) ELSE equal(cell)
    IN  IF Len(path) > 1
        THEN IF op \in HierarchyOperators
             THEN Satisfies(x, m, id, <<Term(<<path[1]>>, "any", OneTerm(Tail(path), op, v))>>)
             ELSE \E r \in Reached(x, f, id, path[2] = Models[f.relation].active, f.bypass = "yes") :
                      Satisfies(x, f.relation, r, <<Term(Tail(path), op, v)>>)
        ELSE IF op \in DOMAIN Complement_ THEN ~Satisfies(x, m, id, <<Term(path, Complement_[op], v)>>)
        ELSE IF op = "=?" THEN IsPyFalsy(v) \/ Satisfies(x, m, id, <<Term(path, "=", v)>>)
        ELSE IF path = <<"display_name">> THEN NameIs(x, m, id, op, v)
        ELSE IF op \in HierarchyOperators THEN Under(x, m, id, path[1], op, v)
        ELSE IF f.type \in {"many2one"} \cup ToMany THEN LinkHolds(x, f, id, op, v)
        ELSE \E cell \in values : holds(cell)

\* A prefix list, read from its first token: the truth of one expression and
\* what is left after it.
RECURSIVE ReadExpression(_, _, _, _)
ReadExpression(x, m, id, tokens) ==
    LET t     == tokens[1]
        one   == ReadExpression(x, m, id, Tail(tokens))
        two   == ReadExpression(x, m, id, one.rest)
        leaf  == IF t.left.k = "path" THEN TermHolds(x, m, id, t.left.p, t.op, t.v)
                 ELSE t.left = t.v
        is(truth, rest) == [truth |-> truth, rest |-> rest]
    IN  CASE t.k = "term" -> is(leaf, Tail(tokens))
          [] t.op = "!"   -> is(~one.truth, one.rest)
          [] t.op = "&"   -> is(one.truth /\ two.truth, two.rest)
          [] t.op = "|"   -> is(one.truth \/ two.truth, two.rest)

Satisfies(x, m, id, tokens) ==
    tokens = <<>> \/ LET first == ReadExpression(x, m, id, tokens)
                     IN  first.truth /\ Satisfies(x, m, id, first.rest)

-----------------------------------------------------------------------------
(* The policy.                                                             *)

\* A value of a rule: what the principal's record leads to.
RECURSIVE Follows(_, _, _)
Follows(m, ids, path) ==
    IF path = <<"id">> THEN ids
    ELSE Follows(Field(m, path[1]).relation,
                 {Database[m][id][path[1]].n : id \in {i \in ids : Database[m][i][path[1]] # Null}},
                 Tail(path))
RECURSIVE Principal(_, _)
Principal(user, v) ==
    LET to == Follows(UserModel, {user.uid}, Tail(v.chain))
    IN  CASE v.k = "ref"  -> Num(v.id)
          [] v.k = "sum"  -> List(Principal(user, v.a).l \o Principal(user, v.b).l)
          [] v.k = "list" -> List([i \in DOMAIN v.l |-> Principal(user, v.l[i])])
          [] v.k = "name" -> IF v.chain = <<"company_ids">> THEN Ids(user.companies)
                             ELSE IF to = {} THEN Bool(FALSE) ELSE Ids(to)
          [] OTHER -> v
RowTokens(user, row) ==
    IF row.domain = Null THEN <<>>
    ELSE [i \in DOMAIN row.domain.l |->
             IF row.domain.l[i].k = "term" THEN [row.domain.l[i] EXCEPT !.v = Principal(user, @)]
                                           ELSE row.domain.l[i]]

\* A record within the reach of a row: of the principal, or of its companies.
Within(x, row, m, id) ==
    LET anchor == Models[m].anchors[IF row.anchor = "" THEN RungAnchor[row.reach] ELSE row.anchor]
        of     == Cell(x, Field(m, anchor.path[1]), id)
        to     == Field(m, anchor.path[1]).relation
        own    == Database[UserModel][x.user.uid]["partner"].n
        commercial == Database[to][own]["commercial"].n
    IN  CASE row.reach \in {"", "all"} -> TRUE
          [] row.reach = "none"    -> FALSE
          [] row.reach = "company" -> \/ of = Null /\ anchor.shared
                                      \/ of # Null /\ of.n \in x.user.companies
          [] row.reach = "own"     -> \/ of = Null /\ anchor.shared
                                      \/ of = Num(x.user.uid)
          [] row.reach = "partner" -> of # Null /\ IsUnder(to, of.n, commercial, Models[to].parent)

\* A row of a group held in some companies counts for their records and for
\* those of no company.
InScope(x, row, m, id) ==
    LET company == Cell(x, Field(m, CompanyAnchor[m]), id)
        limited == row.group \in DOMAIN x.user.scopes /\ (row.guard => row.members)
    IN  m \in DOMAIN CompanyAnchor /\ limited
            => company = Null \/ company.n \in x.user.scopes[row.group]

Allowed(x, m, id) ==
    LET rows     == {row \in Range(AccessRows) : row.model \in Range(Binding(m))}
        holds(row) == /\ Within(x, row, m, id)
                      /\ Satisfies(Ruling(x), m, id, RowTokens(x.user, row))
        permits(row) == ~row.guard /\ row.group \in x.user.groups /\ InScope(x, row, m, id)
        binds(row)   == /\ row.guard /\ row.exempt \cap x.user.groups = {}
                        /\ row.members => row.group \in x.user.groups
                        /\ InScope(x, row, m, id)
        links    == IF Models[m].inheritsRules THEN Range(Inherits[m]) ELSE {}
        delegated(link) == LET to == Database[m][id][link.via]
                           IN  to # Null /\ Allowed(x, link.parent, to.n)
    IN  IF m \in DOMAIN x.resolved THEN Satisfies(Ruling(x), m, id, x.resolved[m])
        ELSE /\ \E row \in rows : permits(row) /\ holds(row)
             /\ \A row \in rows : binds(row) => holds(row)
             /\ \A link \in links : delegated(link)

MayShow(x, m, id) == x.su \/ (CheckReadAccess(m, x.user) = "ok" /\ Allowed(x, m, id))

Selects(r, id) ==
    LET x      == Reader(r)
        tokens == Tokens(r.domain)
        active == Models[r.model].active
        named  == \E i \in DOMAIN tokens : tokens[i].k = "term" /\ tokens[i].left.k = "path"
                                           /\ tokens[i].left.p[1] = active
    IN  /\ Satisfies(x, r.model, id, tokens)
        /\ r.active /\ active # NoName /\ ~named => Database[r.model][id][active] = Bool(TRUE)
        /\ x.su \/ Allowed(x, r.model, id)
Selection(r) ==
    LET records == DOMAIN Database[r.model] IN {id \in records : Selects(r, id)}
VisibleRecords(r) ==
    LET x == Reader(r) IN {id \in DOMAIN Database[r.model] : Allowed(x, r.model, id)}

\* The links of a to-many field a reader sees.
VisibleLinks(x, f, id) == {to \in Own(x, f, id) : Active(x, f, to) /\ MayShow(x, f.relation, to)}

\* The value a field should show: a link to a record the reader may see as a
\* name, a hidden one as no link unless the request keeps bare ids, a to-many
\* field as its readable records.
RendersReadably(r, fname, id, cell) ==
    LET x  == Reader(r)
        f  == Field(r.model, fname)
        to == Cell(x, f, id)
    IN  Has(r.model, fname) =>
            /\ f.type \in ToMany =>
                   Range(cell.ids) = VisibleLinks([x EXCEPT !.active = r.x2manyActive], f, id)
            /\ f.type = "many2one" /\ fname \notin r.raw =>
                   IF to # Null /\ MayShow(x, f.relation, to.n)
                   THEN cell.k = "named" /\ cell.id = to.n
                   ELSE cell = IF to # Null /\ fname \in r.unredacted THEN to ELSE Bool(FALSE)

\* What grouping a record by a path shows the reader: the readable records of
\* its last field or its value, an empty text being none and an unset boolean
\* false; and what an unset value shows once the path ends at a hidden record.
GroupKey(f, cell) ==
    IF f.type = "boolean" THEN Reads(f, cell) ELSE IF cell = Str(<<>>) THEN Null ELSE cell
RECURSIVE KeysAlong(_, _, _, _)
KeysAlong(x, m, id, path) ==
    LET f    == Field(m, path[1])
        to   == Cell(x, f, id)
        seen == {Num(link) : link \in VisibleLinks(x, f, id)}
    IN  IF Len(path) > 1
        THEN IF to # Null /\ MayShow(x, f.relation, to.n)
             THEN KeysAlong(x, f.relation, to.n, Tail(path))
             ELSE {GroupKey(Field(Holder(m, path), Last(path)), Null)}
        ELSE IF f.type # "many2many" THEN {GroupKey(f, to)}
        ELSE IF seen = {} THEN {Null} ELSE seen
ReadableKeys(r, id) == LET x == Reader(r) IN KeysAlong(x, r.model, id, r.groupby)

\* A key a grouping may show: of a many2many, a link to a readable record.
MayBeKey(r, key) ==
    LET f == Field(r.model, r.groupby[1])
    IN  f.type = "many2many" /\ key # Null => MayShow(Reader(r), f.relation, key.n)

-----------------------------------------------------------------------------
(* The order.                                                              *)

\* Which of two records comes first by one model's order; an absent record has
\* nothing set.  "none" is a tie.
Opposed(verdict) == CASE verdict = "a" -> "b" [] verdict = "b" -> "a" [] OTHER -> verdict
RECURSIVE Earlier(_, _, _, _, _, _)
EarlierBy(x, m, a, b, term, seen) ==
    LET f      == Field(m, term.field)
        cell(r) == LET v == IF r = Null THEN Null ELSE Cell(x, f, r.n)
                   IN  IF v = Null /\ f.type = "boolean" /\ ~f.notnull THEN Bool(FALSE) ELSE v
        va     == cell(a)
        vb     == cell(b)
        nullIs(first) == IF (va = Null) = first THEN "a" ELSE "b"
        follow == Earlier(x, f.relation, va, vb, Models[f.relation].order, seen \cup {<<m, f.name>>})
    IN  IF va = vb THEN "none"
        ELSE IF Null \in {va, vb} /\ term.nulls # "default" THEN nullIs(term.nulls = "first")
        ELSE IF f.type = "many2one" /\ Models[f.relation].order # ById
        THEN IF <<m, f.name>> \in seen THEN "none" ELSE IF term.desc THEN Opposed(follow) ELSE follow
        ELSE IF Null \in {va, vb} THEN nullIs(term.desc)
        ELSE IF Less(va, vb) = ~term.desc THEN "a" ELSE "b"

Earlier(x, m, a, b, terms, seen) ==
    IF terms = <<>> THEN "none"
    ELSE LET first == EarlierBy(x, m, a, b, terms[1], seen)
         IN  IF first # "none" THEN first ELSE Earlier(x, m, a, b, Tail(terms), seen)

Precedes(r, a, b) ==
    LET terms   == IF r.order = Null THEN Models[r.model].order ELSE r.order.l
        verdict == Earlier(Reader(r), r.model, Num(a), Num(b), terms, {})
    IN  IF verdict = "none" THEN a < b ELSE verdict = "a"

\* What the code reads unreported, statement by statement: the followers' table of
\* a followers' subquery (sqlgen.rs:1983), the active test of a search for roots
\* by name (orm.rs:966), the paths a walk starts from (orm.rs:1211, orm.rs:1276).
Unreported ==
    {<<Followers, fname, "followed">> : fname \in {"res_model", "res_id", "partner_id"}}
    \cup {<<m, Models[m].active, "roots">> : m \in DOMAIN Models}
    \cup {<<m, "parent_path", "walk">> : m \in DOMAIN Models}

=============================================================================
