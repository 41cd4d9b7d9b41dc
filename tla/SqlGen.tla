------------------------------- MODULE SqlGen -------------------------------
(***************************************************************************)
(* The kernel's compiler from domains to SQL conditions                    *)
(* (src/kernel/src/sqlgen.rs).  A condition is represented by what it      *)
(* says of each row of its table (true, false or unknown), by the columns  *)
(* the compiler reported to be flushed before it runs (`touched`) and by   *)
(* the columns its text reads (`reads`), or by the reason it was refused.  *)
(* A column is <<model, field>>; what a statement reads that never reports *)
(* its columns carries that statement's name as well.                      *)
(*                                                                         *)
(* A compiler c is a record:                                               *)
(*   m          the model whose table it compiles against                  *)
(*   env        the request: database, rules, user, language, timezone     *)
(*   su         no record rules apply                                      *)
(*   checked    the reader's access is checked                             *)
(*   activeTest inactive records are left out of to-many subqueries        *)
(*   stack      the models it is nested in, outermost first                *)
(***************************************************************************)
EXTENDS SqlValues, RuleSet

CONSTANTS
    Models,    \* per model: its active flag, name fields, order and purity
    Fields,    \* per model and field name: the field's description
    MaxDepth   \* how deep subqueries may nest before they are refused

ASSUME SqlGenAssumption == MaxDepth \in Nat \ {0}

Relational == {"many2one", "many2one_reference", "one2many", "many2many"}
ToMany     == {"one2many", "many2many"}
Texts      == {"char", "selection"}

NoName     == "none"
NoSpec     == [k |-> "nospec"]
Has(m, fname) == fname \in DOMAIN Fields[m]
Field(m, fname) == Fields[m][fname]

\* The value a NULL of the field reads as, for the types that have one.
NoFalsy == [k |-> "nofalsy"]
Falsy(f) ==
    CASE f.type = "boolean"    -> Bool(FALSE)
      [] f.type = "char"       -> Str(<<>>)
      [] f.type = "many2one_reference" -> Num(0)
      [] f.type = "integer" /\ f.name # "id" -> Num(0)
      [] OTHER                 -> NoFalsy

-----------------------------------------------------------------------------
(* Conditions.                                                             *)

Rows(c) == DOMAIN c.env.db[c.m]

Sql(sat, touched) == [err |-> "ok", sat |-> sat, touched |-> touched, reads |-> touched]
Fails(why)        == [err |-> why, sat |-> <<>>, touched |-> {}, reads |-> {}]
Refuse == Fails("refused")

Everywhere(c, t) == Sql([id \in Rows(c) |-> t], {})
AllRows(c) == Everywhere(c, "T")
NoRows(c)  == Everywhere(c, "F")

Combine(a, b, Op3(_, _)) ==
    IF a.err # "ok" THEN a ELSE IF b.err # "ok" THEN b
    ELSE [err |-> "ok", sat |-> [id \in DOMAIN a.sat |-> Op3(a.sat[id], b.sat[id])],
          touched |-> a.touched \cup b.touched, reads |-> a.reads \cup b.reads]
Conj(a, b) == Combine(a, b, Both)
Disj(a, b) == Combine(a, b, Either)
Opposite(a) ==
    IF a.err # "ok" THEN a ELSE [a EXCEPT !.sat = [id \in DOMAIN a.sat |-> Negated(a.sat[id])]]
\* Mutant of IsNotTrue: not is not the complement: an unknown row is lost.
OnlyNegated(a) == Opposite(a)

IsNotTrue(a) ==
    IF a.err # "ok" THEN a
    ELSE [a EXCEPT !.sat = [id \in DOMAIN a.sat |-> Holds(a.sat[id] # "T")]]

ConjAll(c, conds) == FoldLeft(Conj, AllRows(c), conds)
DisjAll(c, conds) == FoldLeft(Disj, NoRows(c), conds)

-----------------------------------------------------------------------------
(* Columns.                                                                *)

\* The company's own default, else the one every company shares; a default of
\* null is none.
EveryOne == 0    \* no company in particular
CompanyDefault(c, f) ==
    LET i == SelectInSeq(f.defaults, LAMBDA d : d.company \in {EveryOne, c.env.company})
    IN  IF i = 0 THEN Null ELSE f.defaults[i].v
CdFallback(c, f) ==
    IF CompanyDefault(c, f) # Null THEN CompanyDefault(c, f) ELSE f.cdFallback

\* What a column's expression evaluates to on a row.
Value(c, f, id) ==
    LET cell    == IF f.name = "id" THEN Num(id) ELSE c.env.db[c.m][id][f.name]
        kept    == IF cell = Null THEN Null ELSE cell.v[c.env.company]
        current == IF kept = Null THEN CdFallback(c, f) ELSE kept
    IN  IF f.cd /\ f.type = "many2one"
        THEN IF current # Null /\ current.n \in DOMAIN c.env.db[f.relation] THEN current ELSE Null
        ELSE IF f.cd THEN current
        ELSE IF f.translated /\ cell # Null
        THEN IF cell.v[c.env.lang] # Null THEN cell.v[c.env.lang] ELSE cell.v[1]
        ELSE cell

OnColumn(c, f, P(_)) ==
    IF ~f.column THEN Refuse
    ELSE Sql([id \in Rows(c) |-> P(Value(c, f, id))], {<<c.m, f.name>>})
IsNull(c, f)    == OnColumn(c, f, LAMBDA x : Holds(x = Null))
IsNotNull(c, f) == OnColumn(c, f, LAMBDA x : Holds(x # Null))

\* The column itself, before a language or a company is taken out of it.
OnStored(c, f, P(_)) ==
    Sql([id \in Rows(c) |-> P(c.env.db[c.m][id][f.name])], {<<c.m, f.name>>})

\* A value bound to a statement as the field's type, or no value at all.
Unbound == [k |-> "unbound"]
ToValue(f, v) ==
    CASE f.type \in {"integer", "many2one", "many2one_reference"} ->
            IF v.k = "bool" THEN Num(SentinelNumber(v)) ELSE IF IsNumber(v) THEN v ELSE Unbound
      [] f.type = "boolean"  -> IF v.k = "bool" THEN v ELSE Unbound
      [] f.type \in Texts    -> IF IsNumber(v) THEN NumberText(v.n) ELSE IF IsText(v) THEN v ELSE Unbound
      [] f.type = "date"     -> IF v.k = "day" THEN v ELSE Unbound
      [] f.type = "datetime" -> IF v.k = "stamp" THEN v
                                ELSE IF v.k = "day" THEN Stamp(2 * v.d) ELSE Unbound
      [] OTHER -> Unbound

-----------------------------------------------------------------------------
(* Paths.                                                                  *)

\* Whether a field's groups let the reader read it: refused where that depends
\* on the record, a group being held in some companies only.
Reading(c, f) ==
    LET held(groups) == groups \cap c.env.groups
        scoped       == DOMAIN c.env.scopes
    IN  IF f.policy # "none" THEN "refused"
        ELSE IF f.groups = NoSpec THEN "ok"
        ELSE IF \/ f.groups.pos \cup f.groups.neg = {}
                \/ held(f.groups.neg) \ scoped # {}
                \/ f.groups.pos # {} /\ held(f.groups.pos) = {}
        THEN "denied"
        ELSE IF \/ held(f.groups.neg) # {}
                \/ f.groups.pos # {} /\ held(f.groups.pos) \subseteq scoped
        THEN "refused"
        ELSE "ok"

\* Whether the reader may filter on every field of a path.
RECURSIVE PathReading(_, _, _)
PathReading(c, m, path) ==
    IF ~c.checked \/ ~Has(m, path[1]) THEN "ok"
    ELSE LET f == Field(m, path[1])
         IN  IF Reading(c, f) # "ok" THEN Reading(c, f)
             ELSE IF Len(path) = 1 \/ f.relation = NoName THEN "ok"
             ELSE PathReading(c, f.relation, Tail(path))

\* A path with its related fields expanded, empty where it cannot be followed.
MaxExpansions == 64
Unfollowable == <<>>
RECURSIVE Follow(_, _, _, _)
Follow(m, path, first, fuel) ==
    LET f    == Field(m, path[1])
        rest == Follow(f.relation, Tail(path), FALSE, fuel - 1)
    IN  IF fuel = 0 THEN Unfollowable
        ELSE IF path = <<"display_name">> /\ ~first THEN path
        ELSE IF ~Has(m, path[1]) THEN Unfollowable
        ELSE IF ~f.column /\ f.related # <<>>
        THEN Follow(m, f.related \o Tail(path), first, fuel - 1)
        ELSE IF ~f.column /\ f.type \notin ToMany THEN Unfollowable
        ELSE IF Len(path) = 1 THEN path
        ELSE IF f.relation = NoName \/ rest = Unfollowable THEN Unfollowable
        ELSE <<path[1]>> \o rest
NormalizePath(m, path) == Follow(m, path, TRUE, MaxExpansions)

\* The model the last field of a path belongs to.
RECURSIVE Holder(_, _)
Holder(m, path) ==
    IF Len(path) = 1 THEN m ELSE Holder(Field(m, path[1]).relation, Tail(path))

\* The fields a related field goes through, its target excluded.
RECURSIVE Hops(_, _)
Hops(m, related) ==
    IF Len(related) = 1 THEN <<>>
    ELSE <<Field(m, related[1])>> \o Hops(Field(m, related[1]).relation, Tail(related))
Multivalued(hop) == \/ hop.type = "many2many"
                    \/ hop.type = "one2many" /\ ~hop.one2one
NegatesByOperator(m, f) ==
    f.related = <<>> \/ \A i \in DOMAIN Hops(m, f.related) : ~Multivalued(Hops(m, f.related)[i])

RECURSIVE SearchesOneValue(_, _)
SearchesOneValue(m, f) ==
    /\ f.type \notin ToMany
    /\ \/ f.stored
       \/ /\ f.related # <<>>
          /\ LET steps == Hops(m, f.related) \o <<Field(Holder(m, f.related), Last(f.related))>>
             IN  \A i \in DOMAIN steps : SearchesOneValue(steps[i].model, steps[i])

-----------------------------------------------------------------------------
(* Rewriting a leaf: a tree to compile instead of it, or Keep.             *)

Keep == [k |-> "keep"]
FirstOf(a, b) == IF a = Keep THEN b ELSE a

With(l, op, v)        == [l EXCEPT !.op = op, !.v = v]
FieldLeaf(name, op, v) == Leaf(<<name>>, op, v)
OneTerm(path, op, v)  == List(<<Term(path, op, v)>>)
Items(v)              == IF IsList(v) THEN v.l ELSE <<v>>
Each(l, F(_))         == With(l, l.op, List([i \in DOMAIN l.v.l |-> F(l.v.l[i])]))

Memberships == {"in", "not in"}
Equalities  == {"=", "==", "!=", "<>"}
AnyOperators == {"any", "not any", "any!", "not any!"}
Simple(l)      == Len(l.f) = 1
TypeOf(c, l)   == IF Has(c.m, l.f[1]) THEN Field(c.m, l.f[1]).type ELSE "synthetic"
IsRelational(c, l) == ~Simple(l) \/ TypeOf(c, l) \in Relational

\* '=?' holds of every row for an absent value.
RewriteOptional(c, l) ==
    IF l.op # "=?" THEN Keep
    ELSE IF ~Simple(l) /\ TypeOf(c, l) \in Relational
    THEN FieldLeaf(l.f[1], "any", OneTerm(Tail(l.f), "=?", l.v))
    ELSE IF IsPyFalsy(l.v) THEN True ELSE With(l, "=", l.v)

\* An equality is a membership, and a membership is in a list.
RewriteEquality(l) ==
    LET op    == IF l.op \in {"=", "=="} THEN "in" ELSE "not in"
        items == IF l.v = List(<<>>) THEN <<Bool(FALSE)>> ELSE Items(l.v)
    IN  IF l.op \in Equalities /\ l.f # <<"display_name">> THEN With(l, op, List(items))
        ELSE IF l.op \in Memberships /\ ~IsList(l.v) /\ Simple(l) THEN With(l, l.op, List(<<l.v>>))
        ELSE Keep

\* A pattern that matches everything, nothing or the absent value.
RewriteLike(c, l) ==
    LET negative   == l.op \in Negative
        equalForm  == l.op \in WholeValue
        falsy      == IsPyFalsy(l.v)
        wildcards  == IsText(l.v) /\ l.v.s # <<>> /\ \A i \in DOMAIN l.v.s : l.v.s[i] = "%"
        empty      == falsy /\ ~IsNumber(l.v)
        result     == IF empty THEN negative = equalForm ELSE ~negative
        onTarget   == ~Simple(l) /\ (falsy \/ wildcards \/ IsNumber(l.v))
        complement == /\ TypeOf(c, l) \in Relational
                      /\ falsy \/ wildcards
                      /\ ~NegatesByOperator(c.m, Field(c.m, l.f[1]))
    IN  IF l.op \notin LikeOperators \/ onTarget \/ complement THEN Keep
        ELSE IF empty \/ wildcards
        THEN IF IsRelational(c, l) \/ (empty /\ equalForm)
             THEN With(l, IF result THEN "!=" ELSE "=", Bool(FALSE))
             ELSE IF result THEN True ELSE False
        ELSE IF ~IsNumber(l.v) THEN Keep
        ELSE IF equalForm THEN Refused ELSE With(l, l.op, NumberText(l.v.n))

\* Numbers compared with a text are their text.
RewriteText(c, l) ==
    LET text(v) == IF IsNumber(v) THEN NumberText(v.n) ELSE v
    IN  IF ~Simple(l) \/ TypeOf(c, l) # "char" \/ l.op \notin Memberships \cup Inequalities THEN Keep
        ELSE IF IsNumber(l.v) THEN With(l, l.op, text(l.v))
        ELSE IF IsList(l.v) /\ \E i \in DOMAIN l.v.l : IsNumber(l.v.l[i]) THEN Each(l, text)
        ELSE Keep

\* Midnight of a day in the request's timezone; refused where the zone is not
\* known, or has no such midnight or two.  The first and the last year are not
\* shifted: Python's calendar has nothing beyond them.
FirstDay == 0
StartOf(c, d) == IF d \in {FirstDay, LastDay} THEN Stamp(2 * d) ELSE c.env.midnight[d]
FromDay(c, l, op, d) ==
    IF StartOf(c, d) = Refused THEN Refused ELSE With(l, op, StartOf(c, d))

\* A date compared with a datetime names a whole day.
RewriteDays(c, l) ==
    LET isDay(v) == v.k = "day"
        days     == SelectSeq(Items(l.v), isDay)
        exact    == SelectSeq(Items(l.v), LAMBDA v : ~isDay(v))
        within(v) == IF v.d < LastDay
                     THEN And(<<FromDay(c, l, ">=", v.d), FromDay(c, l, "<", v.d + 1)>>)
                     ELSE FromDay(c, l, ">=", v.d)
        ranges   == [i \in DOMAIN days |-> within(days[i])]
        terms    == IF exact = <<>> THEN ranges ELSE Append(ranges, With(l, "in", List(exact)))
        node     == IF Len(terms) = 1 THEN terms[1] ELSE Or(terms)
    IN  IF ~Simple(l) \/ TypeOf(c, l) # "datetime" \/ days = <<>> THEN Keep
        ELSE IF l.op \in Memberships THEN IF l.op = "in" THEN node ELSE Not(node)
        ELSE IF l.op \notin Inequalities THEN Keep
        ELSE IF l.op = ">" /\ l.v.d >= LastDay THEN False
        ELSE IF l.op = "<=" /\ l.v.d >= LastDay THEN With(l, "!=", Bool(FALSE))
        ELSE IF l.op = ">" THEN FromDay(c, l, ">=", l.v.d + 1)
        ELSE IF l.op = "<=" THEN FromDay(c, l, "<", l.v.d + 1)
        ELSE FromDay(c, l, l.op, l.v.d)

\* A relation compared with names, with 0, and with what it cannot equal.
RewriteRelation(c, l) ==
    LET f        == Field(c.m, l.f[1])
        linked   == TypeOf(c, l) \in {"many2one"} \cup ToMany
        items    == Items(l.v)
        names    == SelectSeq(items, IsString)
        others   == SelectSeq(items, LAMBDA v : ~IsString(v))
        positive == l.op = "in"
        byName   == With(l, IF positive THEN "any" ELSE "not any",
                         OneTerm(<<"display_name">>, "in", List(names)))
        byId     == With(l, l.op, List(others))
        unset(v) == IF v = Num(0) THEN Bool(FALSE) ELSE v
    IN  IF ~Simple(l) \/ TypeOf(c, l) \notin Relational THEN Keep
        ELSE IF linked /\ l.op \in Inequalities /\ IsString(l.v) THEN Refused
        ELSE IF l.op \notin Memberships THEN Keep
        ELSE IF linked /\ f.stored /\ f.search = "column" /\ Contains(items, Bool(TRUE)) THEN Refused
        ELSE IF Contains(items, Num(0)) THEN Each(l, unset)
        ELSE IF names = <<>> THEN Keep
        ELSE IF others = <<>> THEN byName
        ELSE IF positive THEN Or(<<byName, byId>>) ELSE And(<<byName, byId>>)

\* A number compared with texts: those that are no number are dropped.
RewriteNumber(c, l) ==
    LET coerced == [i \in DOMAIN l.v.l |-> CoerceNumeric(l.v.l[i])]
    IN  IF ~Simple(l) \/ TypeOf(c, l) # "integer" \/ l.op \notin Memberships \cup Inequalities THEN Keep
        ELSE IF IsString(l.v)
        THEN CASE CoerceNumeric(l.v) # NoNumber -> With(l, l.op, CoerceNumeric(l.v))
               [] OTHER -> CASE l.op = "in"     -> False
                             [] l.op = "not in" -> True
                             [] OTHER           -> Refused
        ELSE IF IsList(l.v) /\ \E i \in DOMAIN l.v.l : IsString(l.v.l[i])
        THEN With(l, l.op, List(SelectSeq(coerced, LAMBDA v : v # NoNumber)))
        ELSE Keep

RewriteBoolean(c, l) ==
    IF /\ Simple(l) /\ TypeOf(c, l) = "boolean"
       /\ l.op \in Memberships /\ \E i \in DOMAIN l.v.l : l.v.l[i].k # "bool"
    THEN Each(l, LAMBDA v : Bool(PyTruth(v)))
    ELSE Keep

\* Comparing with nothing is comparing with the field's falsy value.
RewriteNull(c, l) ==
    IF ~(Simple(l) /\ l.op \in Inequalities /\ IsNullLike(l.v) /\ Has(c.m, l.f[1])) THEN Keep
    ELSE LET falsy == Falsy(Field(c.m, l.f[1]))
         IN  IF falsy = NoFalsy THEN False
             ELSE IF IsNullLike(falsy) THEN Keep
             ELSE With(l, l.op, falsy)

Optimize(c, l) ==
    IF \/ ~Has(c.m, l.f[1]) /\ l.f # <<"display_name">>
       \/ c.checked /\ Has(c.m, l.f[1]) /\ Field(c.m, l.f[1]).policy # "none"
       \/ l.op \in Inequalities /\ (IsList(l.v) \/ l.v = Bool(TRUE))
    THEN Refused
    ELSE FirstOf(RewriteOptional(c, l),
         FirstOf(RewriteEquality(l),
         FirstOf(RewriteLike(c, l),
         FirstOf(RewriteText(c, l),
         FirstOf(RewriteDays(c, l),
         FirstOf(RewriteRelation(c, l),
         FirstOf(RewriteNumber(c, l),
         FirstOf(RewriteBoolean(c, l), RewriteNull(c, l)))))))))

-----------------------------------------------------------------------------
(* Complements.                                                            *)

Flip == LET pairs == {<<"any", "not any">>, <<"any!", "not any!">>, <<"in", "not in">>,
                      <<"like", "not like">>, <<"ilike", "not ilike">>, <<"=", "!=">>,
                      <<"=like", "not =like">>, <<"=ilike", "not =ilike">>}
            both  == pairs \cup {<<p[2], p[1]>> : p \in pairs} \cup {<<"==", "!=">>, <<"<>", "=">>}
        IN  [op \in {p[1] : p \in both} |-> (CHOOSE p \in both : p[1] = op)[2]]
InverseInequality == ("<" :> ">=") @@ (">" :> "<=") @@ (">=" :> "<") @@ ("<=" :> ">")

\* What no operator expresses is kept as a complement of the leaf's rows.
RECURSIVE Negate(_, _)
NegateLeaf(c, l) ==
    LET rewritten == Optimize(c, l)
        own       == Has(c.m, l.f[1])
        f         == Field(c.m, l.f[1])
        path      == NormalizePath(c.m, l.f)
        inverted  == With(l, InverseInequality[l.op], l.v)
    IN  IF rewritten # Keep THEN Negate(c, rewritten)
        ELSE IF ~Simple(l) THEN FieldLeaf(l.f[1], "not any", OneTerm(Tail(l.f), l.op, l.v))
        ELSE IF l.op \in DOMAIN Flip
        THEN IF own /\ ~NegatesByOperator(c.m, f) THEN Not(l) ELSE With(l, Flip[l.op], l.v)
        ELSE IF l.op \notin Inequalities THEN Refused
        ELSE IF own /\ ~SearchesOneValue(c.m, f) THEN Not(l)
        ELSE IF path = Unfollowable THEN Refused
        ELSE IF Falsy(Field(Holder(c.m, path), Last(path))) # NoFalsy THEN inverted
        ELSE Or(<<With(l, "in", List(<<Bool(FALSE)>>)), inverted>>)

Negate(c, t) ==
    LET all == [i \in DOMAIN t.c |-> Negate(c, t.c[i])]
    IN  CASE t.k = "true"  -> False
          [] t.k = "false" -> True
          [] t.k = "not"   -> t.n
          [] t.k = "and"   -> Or(all)
          [] t.k = "or"    -> And(all)
          [] t.k = "leaf"  -> NegateLeaf(c, t)
          [] OTHER         -> Refused

-----------------------------------------------------------------------------
(* Conditions on a column.                                                 *)

Touching(cond, columns) ==
    IF cond.err # "ok" THEN cond ELSE [cond EXCEPT !.touched = @ \cup columns]

\* A membership, where an absent value is a member if the list holds none or
\* the falsy value the column reads as.
InCondition(c, f, op, values) ==
    LET present == SelectSeq(values, LAMBDA v : ~IsNullLike(v))
        falsy   == Falsy(f)
        absent  == Len(present) < Len(values)
        nulls   == absent \/ (f.type # "boolean" /\ falsy # NoFalsy /\ Contains(present, falsy))
        params  == Range(present) \cup (IF absent /\ falsy # NoFalsy THEN {falsy} ELSE {})
        bound   == {ToValue(f, p) : p \in params}
        member  == OnColumn(c, f, LAMBDA x : IF op = "in" THEN Member(x, bound)
                                             ELSE Negated(Member(x, bound)))
    IN  IF values = <<>> THEN IF op = "in" THEN NoRows(c) ELSE AllRows(c)
        ELSE IF Unbound \in bound THEN Refuse
        ELSE IF (op = "in") = nulls
        THEN IF params = {} THEN IF f.notnull THEN NoRows(c) ELSE IsNull(c, f)
             ELSE IF f.notnull THEN member ELSE Disj(member, IsNull(c, f))
        ELSE IF op = "not in" /\ nulls /\ params = {}
        THEN IF f.notnull THEN AllRows(c) ELSE IsNotNull(c, f)
        ELSE member

AsText(x) == IF IsNumber(x) THEN NumberText(x.n).s ELSE x.s

\* The trigram index is asked for the pattern's literal runs, over every
\* translation at once; an absent answer leaves the condition to a scan.
TrigramIndexed(c, f) == c.env.trigram /\ f.translated /\ f.index = "trigram"
Accelerated(c, f, pattern, insensitive, cond) ==
    IF pattern = <<"%">> THEN cond
    ELSE Conj(OnStored(c, f, LAMBDA cell : IF cell = Null THEN "N" ELSE
                  Holds(Matches(IndexedText(cell), pattern, insensitive))), cond)

LikeCondition(c, f, op, v) ==
    LET pattern     == IF op \in WholeValue THEN v.s ELSE Wrapped(v.s)
        insensitive == op \in Insensitive
        match(x)    == IF x = Null THEN "N" ELSE Holds(Matches(AsText(x), pattern, insensitive))
        positive    == OnColumn(c, f, match)
        negative    == IF f.notnull THEN Opposite(positive)
                                    ELSE Disj(Opposite(positive), IsNull(c, f))
    IN  IF ~IsText(v) THEN Refuse
        ELSE IF op \in Negative THEN negative
        ELSE IF TrigramIndexed(c, f) /\ v.s # <<>> /\ IsExactOn(v.s)
        THEN Accelerated(c, f, PatternToPattern(v.s), insensitive, positive)
        ELSE positive

InequalityCondition(c, f, op, v) ==
    LET comparand  == IF f.type \in Texts /\ IsNumber(v) THEN NumberText(v.n) ELSE v
        value      == ToValue(f, v)
        compared   == OnColumn(c, f, LAMBDA x : IF x = Null THEN "N" ELSE Holds(Compares(x, op, value)))
        acceptNull == ~f.notnull /\ Falsy(f) # NoFalsy /\ JsonCompares(Falsy(f), op, comparand) = "yes"
    IN  IF value = Unbound THEN Refuse
        ELSE IF acceptNull THEN Disj(compared, IsNull(c, f)) ELSE compared

\* A company-dependent column indexed without its nulls is first asked for a
\* value, unless the company's default satisfies the condition.
Guard(c, f, op, values, cond) ==
    LET falsy     == Falsy(f)
        default   == CdFallback(c, f)
        fallback  == IF default # Null THEN default ELSE IF falsy # NoFalsy THEN falsy ELSE Null
        unset(v)  == IsNullLike(v) \/ v = falsy
        matches(v) == v = fallback \/ (unset(v) /\ unset(fallback))
        any       == \E i \in DOMAIN values : matches(values[i])
        satisfied == CASE op = "in" -> any
                       [] op = "not in" -> ~any
                       [] op \in Inequalities -> JsonCompares(fallback, op, values[1]) # "no"
                       [] OTHER -> TRUE
    IN  IF ~f.cd \/ f.index # "btree_not_null" \/ satisfied THEN cond
        ELSE Conj(OnStored(c, f, LAMBDA cell : Holds(cell # Null)), cond)

ColumnCondition(c, f, op, v) ==
    LET values    == Items(v)
        oneText   == Len(values) = 1 /\ IsText(values[1]) /\ IsExactOn(values[1].s)
        member    == InCondition(c, f, op, values)
        indexed   == IF op = "in" /\ oneText /\ TrigramIndexed(c, f)
                     THEN Accelerated(c, f, ValueToPattern(values[1].s), FALSE, member) ELSE member
        cond      == IF op \in Memberships THEN IF IsList(v) THEN indexed ELSE Refuse
                     ELSE IF f.type = "boolean" THEN Refuse
                     ELSE IF op \in LikeOperators THEN LikeCondition(c, f, op, v)
                     ELSE IF op \in Inequalities THEN InequalityCondition(c, f, op, v)
                     ELSE Refuse
    IN  IF ~f.column THEN Refuse
        ELSE Touching(Guard(c, f, op, values, cond), {<<c.m, f.name>>})

-----------------------------------------------------------------------------
(* Compiling a tree.                                                       *)

Sudo(c)    == [c EXCEPT !.checked = FALSE, !.activeTest = FALSE, !.su = TRUE]
Sub(c, co) == [c EXCEPT !.m = co, !.stack = Append(@, c.m)]

RECURSIVE Compile(_, _)

\* The rows a subquery's condition selects, and an outer condition that uses
\* them.
Selected(cond) == {id \in DOMAIN cond.sat : cond.sat[id] = "T"}
\* Mutant of Using: a subquery's columns are not reported.
UsingUnreported(sub, outer) ==
    IF sub.err # "ok" THEN sub
    ELSE IF outer.err # "ok" THEN outer ELSE [outer EXCEPT !.reads = @ \cup sub.reads]

Using(sub, outer) ==
    IF sub.err # "ok" THEN sub
    ELSE IF outer.err # "ok" THEN outer
    ELSE [outer EXCEPT !.touched = @ \cup sub.touched, !.reads = @ \cup sub.reads]

CompileRules(c) ==
    LET cond == Compile(Sudo(c), c.env.rules.domains[c.m])
    IN  Touching(cond, ReadsOf(c.env.rules, c.m))

\* Whether a subquery on a model applies its rules; `bypass` is what the field
\* says of them: "yes", "no", or "unknown".
ComodelRules(c, co, bypass) ==
    IF ~Models[co].pure THEN "refused"
    ELSE IF c.su \/ bypass = "yes" THEN "none"
    ELSE IF Contains(c.stack, co) THEN "refused"
    ELSE IF c.checked /\ c.env.access[co] # "ok" THEN c.env.access[co]
    ELSE IF ~Evaluated(c.env.rules, co) THEN "refused"
    ELSE IF ~Restricted(c.env.rules, co) THEN "none"
    ELSE IF bypass = "unknown" THEN "refused" ELSE "apply"
RuleCondition(c, verdict) ==
    CASE verdict = "none"  -> AllRows(c)
      [] verdict = "apply" -> CompileRules(c)
      [] OTHER             -> Fails(verdict)

BypassOf(f, op) == IF op \in {"any!", "not any!"} THEN "yes" ELSE f.bypass

\* What a field's own domain asks of the records it holds.
FieldDomainCond(c, f, owner) ==
    LET inverse == Field(c.m, f.inverse)
        own     == IF f.domain = Null THEN AllRows(c) ELSE Compile(c, ParseValue(f.domain))
        ofModel == Sql([id \in Rows(c) |-> Holds(c.env.db[c.m][id][inverse.modelField] = owner)],
                       {<<c.m, inverse.modelField>>})
    IN  IF ~c.env.exported \/ f.domain = [k |-> "callable"] THEN Refuse
        ELSE IF f.type = "one2many" /\ f.stored /\ inverse.type = "many2one_reference"
        THEN IF inverse.modelField = NoName THEN Refuse ELSE Conj(own, ofModel)
        ELSE own

\* Inactive records are left out unless the search names the active field.
ActiveFilter(c, f, tree) ==
    LET active == Models[c.m].active
        tested == IF f.activeTest = Null THEN c.activeTest ELSE f.activeTest = Bool(TRUE)
        named  == ReferencedFields(tree) \cup
                  (IF f.domain = Null THEN {} ELSE ReferencedFields(ParseValue(f.domain)))
    IN  IF active = NoName THEN AllRows(c)
        ELSE IF f.activeTest = [k |-> "unmodelled"] THEN Refuse
        ELSE IF ~tested \/ active \in named THEN AllRows(c)
        ELSE Sql([id \in Rows(c) |-> Member(c.env.db[c.m][id][active], {Bool(TRUE)})],
                 {<<c.m, active>>})

M2oAny(c, f, tree, positive, bypass) ==
    LET sub  == Sub(c, f.relation)
        cond == Conj(Compile(sub, tree), RuleCondition(sub, ComodelRules(c, f.relation, bypass)))
        ids  == {Num(id) : id \in Selected(cond)}
        member == OnColumn(c, f, LAMBDA x : Member(x, ids))
    IN  IF cond.err # "ok" THEN cond
        ELSE Using(cond, IF positive THEN member
                         ELSE IF f.notnull THEN Opposite(member)
                         ELSE Disj(IsNull(c, f), Opposite(member)))

\* The records a to-many field links to one of the selected comodel records.
X2manySubselect(c, f, tree, positive, applyActive, sudo, bypass) ==
    LET co     == f.relation
        sub    == IF sudo THEN Sudo(Sub(c, co)) ELSE Sub(c, co)
        asked  == IF tree = Null THEN AllRows(sub)
                  ELSE IF applyActive THEN Conj(Compile(sub, tree), ActiveFilter(sub, f, tree))
                  ELSE Compile(sub, tree)
        cond   == Conj(Conj(FieldDomainCond(sub, f, c.m), asked),
                       RuleCondition(sub, ComodelRules(sub, co, bypass)))
        owners == IF f.type = "one2many"
                  THEN {c.env.db[co][id][f.inverse].n :
                           id \in {i \in Selected(cond) : c.env.db[co][i][f.inverse] # Null}}
                  ELSE {id \in Rows(c) : c.env.db[c.m][id][f.name] \cap Selected(cond) # {}}
        link   == IF f.type = "one2many" THEN <<co, f.inverse>> ELSE <<c.m, f.name>>
        linked == Sql([id \in Rows(c) |-> Holds(id \in owners)], {link})
    IN  IF \/ ~f.stored
           \/ f.type = "one2many" /\ (~Has(co, f.inverse) \/ ~Field(co, f.inverse).column)
        THEN Refuse
        ELSE IF cond.err # "ok" THEN cond
        ELSE Using(cond, IF positive THEN linked ELSE Opposite(linked))

X2manyCondition(c, f, op, v) ==
    LET tree     == ParseValue(v)
        items    == Items(v)
        ids      == SelectSeq(items, LAMBDA x : ~IsNullLike(x))
        among    == FieldLeaf("id", "in", List(ids))
        matching == X2manySubselect(c, f, among, TRUE, FALSE, TRUE, f.bypass)
        empty    == X2manySubselect(c, f, Null, FALSE, FALSE, TRUE, f.bypass)
        combined == IF ids # <<>> /\ Len(ids) < Len(items) THEN Disj(empty, matching)
                    ELSE IF ids # <<>> THEN matching
                    ELSE IF items # <<>> THEN empty ELSE NoRows(c)
    IN  IF op \in AnyOperators
        THEN IF tree = Refused THEN Refuse
             ELSE X2manySubselect(c, f, tree, op \in {"any", "any!"}, TRUE, FALSE, BypassOf(f, op))
        ELSE IF op \notin Memberships \/ \E i \in DOMAIN ids : ~IsNumber(ids[i]) THEN Refuse
        ELSE IF op = "in" THEN combined ELSE Opposite(combined)

\* The tree that answers a search on a model's display name; refused where the
\* name is computed in Python.
DisplayNameTree(co, op, v) ==
    LET names      == Models[co].names
        negative   == op \in {"!=", "not in"} \cup Negative
        equality   == op \in {"=", "!=", "in", "not in"}
        related(n) == Has(co, n) /\ Field(co, n).relation # NoName
        named(n)   == <<n, "display_name">>
        unset(x)   == IsNullLike(x) \/ x = Str(<<>>)
        gather(ts) == IF Len(ts) = 1 THEN ts[1] ELSE IF negative THEN And(ts) ELSE Or(ts)
        matching(x) == gather([i \in DOMAIN names |->
                           Leaf(IF related(names[i]) THEN named(names[i]) ELSE <<names[i]>>, op, x)])
        absent(n)  == IF related(n)
                      THEN Or(<<FieldLeaf(n, "=", Bool(FALSE)), Leaf(named(n), "=", Bool(FALSE))>>)
                      ELSE FieldLeaf(n, "=", Bool(FALSE))
        noName     == And([i \in DOMAIN names |-> absent(names[i])])
        present    == SelectSeq(Items(v), LAMBDA x : ~unset(x))
        nameless   == IF negative THEN Not(noName) ELSE noName
    IN  IF names = <<>> \/ Contains(names, "display_name") THEN Refused
        ELSE IF op \in LikeOperators \ WholeValue /\ unset(v) THEN IF negative THEN False ELSE True
        ELSE IF Models[co].exactNames /\ op \in {"in", "ilike"} /\ ~unset(v) THEN Refused
        ELSE IF ~equality \/ Len(present) = Len(Items(v)) THEN matching(v)
        ELSE IF present = <<>> THEN nameless
        ELSE gather(<<matching(List(present)), nameless>>)

DisplayNameCondition(c, op, v) ==
    IF op \notin LikeOperators \cup {"=", "!=", "in", "not in"} THEN Refuse
    ELSE Compile(c, DisplayNameTree(c.m, op, v))

M2oNameSearch(c, f, op, v) ==
    LET positive == IF op \in Negative THEN Flip[op] ELSE op
        tree     == DisplayNameTree(f.relation, positive, v)
    IN  IF tree = Refused THEN Refuse ELSE M2oAny(c, f, tree, op \notin Negative, f.bypass)

\* The records of the model that the partners follow; the followers' table is
\* read without being reported.
Followers == "mail.followers"
FollowedByPartners(c, f, op, v) ==
    LET rows     == c.env.db[Followers]
        partners == {Items(v)[i] : i \in DOMAIN Items(v)}
        followed == {rows[r].res_id : r \in {r \in DOMAIN rows :
                        rows[r].res_model = c.m /\ rows[r].partner_id \in partners}}
        cond     == [err |-> "ok", sat |-> [id \in Rows(c) |-> Holds(Num(id) \in followed)],
                     touched |-> {},
                     reads |-> {<<Followers, x, "followed">> : x \in {"res_model", "res_id", "partner_id"}}]
    IN  IF \/ ~c.su
           \/ op \notin Memberships \cup {"=", "!="}
           \/ \E p \in partners : ~IsNumber(p)
        THEN Refuse
        ELSE IF partners = {} THEN IF op \in {"in", "="} THEN NoRows(c) ELSE AllRows(c)
        ELSE IF op \in {"in", "="} THEN cond ELSE Opposite(cond)

-----------------------------------------------------------------------------
(* Related fields.                                                         *)

NegativeOperators == {"not any", "not any!", "not in", "!=", "<>"} \cup Negative
Positive(op) == IF op \in NegativeOperators THEN Flip[op] ELSE op

\* Whether the condition holds for a record the related path reaches no value
\* of, which reads as the falsy one.
HoldsOnMissingStep(f, op, v) ==
    LET positive == Positive(op)
        falsy    == Falsy(f)
        unset(x) == IsNullLike(x) \/ (falsy # NoFalsy /\ PyEq(x, falsy))
        holds    == IF positive \in Inequalities
                    THEN /\ falsy # NoFalsy
                         /\ JsonCompares(falsy, positive, IF IsNullLike(v) THEN falsy ELSE v) = "yes"
                    ELSE \E i \in DOMAIN Items(v) : unset(Items(v)[i])
    IN  (positive = op) = holds

\* The domain on the path's first field that a condition on its last one is.
RelatedDomain(c, f, op, v, canBeNull) ==
    LET path    == f.related
        hops    == Hops(c.m, path)
        any     == IF f.computeSudo THEN "any!" ELSE "any"
        notAny  == Flip[any]
        through(i, inner) ==
            LET reached == Term(<<path[i]>>, any, inner)
                orElse(missing) == List(<<Op("|"), reached, missing>>)
            IN  IF canBeNull /\ hops[i].type \in ToMany
                THEN orElse(Term(<<path[i]>>, notAny, List(<<>>)))
                ELSE IF canBeNull /\ hops[i].type = "many2one" /\ ~hops[i].required
                THEN orElse(Term(<<path[i]>>, "=", Bool(FALSE)))
                ELSE List(<<reached>>)
    IN  ParseValue(FoldRight(through, [i \in DOMAIN hops |-> i], OneTerm(<<Last(path)>>, op, v)))

RelatedSearch(c, f, op, v) ==
    LET hops        == Hops(c.m, f.related)
        multivalued == \E i \in DOMAIN hops : Multivalued(hops[i])
        positive    == Positive(op)
        missing(o)  == HoldsOnMissingStep(f, o, v)
    IN  IF positive # op /\ (missing(op) \/ multivalued)
        THEN Compile(c, Not(RelatedDomain(c, f, positive, v, missing(positive))))
        ELSE Compile(c, RelatedDomain(c, f, op, v, missing(op)))

Dotted(c, path, op, v) ==
    LET head == Field(c.m, path[1])
        rest == Leaf(Tail(path), op, v)
    IN  CASE head.type = "many2one" -> M2oAny(c, head, rest, TRUE, head.bypass)
          [] head.type \in ToMany   -> X2manySubselect(c, head, rest, TRUE, TRUE, FALSE, head.bypass)
          [] OTHER                  -> Refuse

-----------------------------------------------------------------------------
(* Leaves and trees.                                                       *)

\* A subselect Python wrote, taken as it is: the rows of its comodel it names.
FragmentCondition(c, l) ==
    LET f        == Field(c.m, l.f[1])
        positive == l.op \in {"any", "any!", "in"}
        anyForm  == l.op \in AnyOperators
        ids      == {Num(id) : id \in l.v.ids}
        member   == OnColumn(c, f, LAMBDA x : Member(x, ids))
        readable == PathReading(c, c.m, l.f)
    IN  IF ~Simple(l) \/ l.op \notin AnyOperators \cup Memberships THEN Refuse
        ELSE IF readable # "ok" THEN Fails(readable)
        ELSE IF ~Has(c.m, l.f[1]) \/ ~l.v.genuine THEN Refuse
        ELSE IF f.type \in ToMany /\ anyForm
        THEN X2manySubselect(c, f, FieldLeaf("id", "any", l.v), positive, TRUE, TRUE, f.bypass)
        ELSE IF f.type = "many2one" /\ f.column /\ ~f.cd /\ anyForm
        THEN IF positive THEN member
             ELSE IF f.notnull THEN Opposite(member) ELSE Disj(IsNull(c, f), Opposite(member))
        ELSE IF f.name = "id" THEN IF positive THEN member ELSE Opposite(member)
        ELSE Refuse

FieldCondition(c, f, op, v) ==
    LET tree == ParseValue(v)
    IN  IF f.search = "followers" THEN FollowedByPartners(c, f, op, v)
        ELSE IF f.search = "custom" \/ f.type = "properties" THEN Refuse
        ELSE IF f.type = "many2one" /\ op \in LikeOperators THEN M2oNameSearch(c, f, op, v)
        ELSE IF f.type = "boolean" /\ op \notin Memberships THEN Refuse
        ELSE IF f.type \in ToMany /\ ~f.column THEN X2manyCondition(c, f, op, v)
        ELSE IF f.type = "many2one" /\ op \in AnyOperators
        THEN IF tree = Refused THEN Refuse
             ELSE M2oAny(c, f, tree, op \in {"any", "any!"}, BypassOf(f, op))
        ELSE ColumnCondition(c, f, op, v)

CompileLeaf(c, l) ==
    LET rewritten == Optimize(c, l)
        readable  == PathReading(c, c.m, l.f)
        path      == NormalizePath(c.m, l.f)
        f         == Field(c.m, l.f[1])
    IN  IF l.v.k = "sql" THEN FragmentCondition(c, l)
        ELSE IF rewritten # Keep THEN Compile(c, rewritten)
        ELSE IF l.f = <<"display_name">> THEN DisplayNameCondition(c, l.op, l.v)
        ELSE IF readable # "ok" THEN Fails(readable)
        ELSE IF Simple(l) /\ ~f.column /\ f.related # <<>> THEN RelatedSearch(c, f, l.op, l.v)
        ELSE IF path = Unfollowable THEN Refuse
        ELSE IF Len(path) > 1 THEN Dotted(c, path, l.op, l.v)
        ELSE FieldCondition(c, Field(c.m, path[1]), l.op, l.v)

Compile(c, t) ==
    LET negated == Negate(c, t.n)
        all     == [i \in DOMAIN t.c |-> Compile(c, t.c[i])]
    IN  IF Len(c.stack) > MaxDepth THEN Refuse
        ELSE CASE t.k = "true"  -> AllRows(c)
               [] t.k = "false" -> NoRows(c)
               [] t.k = "and"   -> ConjAll(c, all)
               [] t.k = "or"    -> DisjAll(c, all)
               [] t.k = "not"   -> IF negated.k = "not" THEN IsNotTrue(Compile(c, negated.n))
                                                        ELSE Compile(c, negated)
               [] t.k = "leaf"  -> CompileLeaf(c, t)
               [] OTHER         -> Refuse

=============================================================================
