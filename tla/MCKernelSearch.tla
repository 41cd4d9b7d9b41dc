--------------------------- MODULE MCKernelSearch ---------------------------
(***************************************************************************)
(* A small world for KernelSearch: tasks with a customer, tags and lines,  *)
(* three readers, and access rows that reach one another's models.         *)
(***************************************************************************)
EXTENDS KernelSearch, SearchReference

-----------------------------------------------------------------------------
(* The registry.                                                           *)

plain ==
    [name |-> NoName, model |-> NoName, type |-> "integer", column |-> TRUE, stored |-> TRUE,
     notnull |-> FALSE, translated |-> FALSE, cd |-> FALSE, defaults |-> <<>>, cdFallback |-> Null,
     index |-> "none", related |-> <<>>, relation |-> NoName, inverse |-> NoName, domain |-> Null,
     activeTest |-> Null, required |-> FALSE, computeSudo |-> FALSE, inherited |-> FALSE,
     bypass |-> "no", search |-> "column", groups |-> NoSpec, policy |-> "none", one2one |-> FALSE,
     modelField |-> NoName, orderBy |-> NoName, groupBy |-> NoName]
of(type)     == [plain EXCEPT !.type = type]
link(co)     == [plain EXCEPT !.type = "many2one", !.relation = co]
listed(co, inverse) == [plain EXCEPT !.type = "one2many", !.column = FALSE, !.relation = co, !.inverse = inverse]
many(co)     == [plain EXCEPT !.type = "many2many", !.column = FALSE, !.relation = co]
computed(type, path) == [plain EXCEPT !.type = type, !.column = FALSE, !.stored = FALSE, !.related = path]
key          == [plain EXCEPT !.notnull = TRUE]
flag         == of("boolean")

fields ==
    [task |->
        [id |-> key, name |-> [of("char") EXCEPT !.translated = TRUE, !.index = "trigram"],
         note |-> of("char"), qty |-> plain, done |-> flag, active |-> flag,
         due |-> of("date"), start |-> of("datetime"), partner |-> link("partner"),
         tags |-> many("tag"), watchers |-> many("partner"), lines |-> listed("line", "task"),
         own_tags |-> [many("tag") EXCEPT !.domain = OneTerm(<<"rank">>, "=", Num(1)),
                                          !.activeTest = Bool(FALSE)],
         partner_rank |-> [computed("integer", <<"partner", "rank">>) EXCEPT !.computeSudo = TRUE],
         tag_rank |-> computed("integer", <<"tags", "rank">>),
         partner_qty |-> [computed("integer", <<"partner", "tasks", "qty">>) EXCEPT !.computeSudo = TRUE],
         cost |-> [plain EXCEPT !.cd = TRUE, !.index = "btree_not_null",
                                !.defaults = <<[company |-> 1, v |-> Num(3)]>>],
         secret |-> [plain EXCEPT !.groups = [pos |-> {2}, neg |-> {}]],
         parent |-> link("task"), company |-> link("company"), user |-> link("user"),
         followers |-> [many("partner") EXCEPT !.stored = FALSE, !.search = "followers"]],
     partner |->
        [id |-> key, name |-> of("char"), rank |-> plain, active |-> flag, parent |-> link("partner"),
         commercial |-> link("partner"), parent_path |-> of("char"), tasks |-> listed("task", "partner")],
     tag |-> [id |-> key, name |-> of("char"), rank |-> plain, active |-> flag],
     line |-> [id |-> key, label |-> of("char"), amount |-> plain, task |-> link("task")],
     user |-> [id |-> key, area |-> link("partner"), partner |-> link("partner")],
     company |-> [id |-> key, name |-> of("char")]]
theFields == [m \in DOMAIN fields |-> [f \in DOMAIN fields[m] |->
                 [fields[m][f] EXCEPT !.name = f, !.model = m]]]

by(field, desc, nulls) == [field |-> field, desc |-> desc, nulls |-> nulls]
named(names) ==
    [active |-> NoName, names |-> names, exactNames |-> FALSE, pure |-> TRUE, parent |-> NoName,
     parentStore |-> FALSE, anchors |-> <<>>, guardPure |-> TRUE, inheritsRules |-> FALSE,
     order |-> ById, orderPure |-> TRUE, display |-> names, recName |-> NoName,
     displayDefault |-> TRUE, guard |-> NoName, namesPure |-> TRUE, accessPure |-> TRUE,
     overridden |-> {}, groupPure |-> TRUE]
anchored(field, kind, shared) == [path |-> <<field>>, kind |-> kind, shared |-> shared, hierarchy |-> ""]
theModels ==
    [task |-> [named(<<"name">>) EXCEPT
        !.active = "active", !.parent = "parent",
        !.order = <<by("partner", FALSE, "last"), by("id", TRUE, "default")>>,
        !.anchors = [company |-> anchored("company", "company", TRUE),
                     owner |-> anchored("user", "owner", FALSE),
                     partner |-> anchored("partner", "partner", FALSE)]],
     partner |-> [named(<<"name">>) EXCEPT
        !.active = "active", !.parent = "parent", !.parentStore = TRUE,
        !.order = <<by("parent", TRUE, "default"), by("rank", TRUE, "last")>>],
     tag |-> [named(<<"name">>) EXCEPT !.active = "active", !.order = <<by("rank", TRUE, "default")>>],
     line |-> [named(<<"label", "task">>) EXCEPT !.inheritsRules = TRUE, !.display = <<>>, !.recName = "label"],
     user |-> named(<<>>),
     company |-> named(<<"name">>)]

registered == DOMAIN theModels

-----------------------------------------------------------------------------
(* What the tables hold.                                                   *)

n(i) == Num(i)
l(items) == List(items)
a == Str(<<"a">>)
b == Str(<<"b">>)
ab == Str(<<"a", "b">>)
in2(english, french) == [v |-> <<english, french>>]
task(name, note, qty, done, due, start, partner, tags, cost, active, parent, company, user) ==
    [name |-> name, note |-> note, qty |-> qty, done |-> done, due |-> due, start |-> start,
     partner |-> partner, tags |-> tags, own_tags |-> tags, watchers |-> tags, cost |-> cost, secret |-> qty,
     active |-> Bool(active), parent |-> parent, company |-> company, user |-> user]
partner(name, rank, active, parent, commercial, path) ==
    [name |-> name, rank |-> rank, active |-> Bool(active), parent |-> parent, commercial |-> n(commercial),
     parent_path |-> Str(path)]
follows(m, id, who) == [res_model |-> m, res_id |-> n(id), partner_id |-> n(who)]

theDatabase ==
    [task |-> <<
        task(in2(ab, b), a, n(1), Bool(TRUE), Day(1), Stamp(2), n(1), {1, 2},
             [v |-> <<n(1), Null>>], TRUE, Null, Null, n(1)),
        task(in2(Str(<<"a", "_">>), Null), Null, Null, Null, Null, Null, n(2), {},
             Null, TRUE, n(3), n(1), n(2)),
        task(Null, Str(<<>>), n(0), Bool(FALSE), Day(2), Stamp(4), Null, {3},
             [v |-> <<n(0), n(3)>>], TRUE, n(2), n(2), n(2)),
        task(in2(Str(<<"A", "b">>), ab), b, n(2), Bool(TRUE), Day(0), Stamp(6), n(3), {2, 3},
             [v |-> <<Null, n(0)>>], FALSE, n(1), n(1), n(1))>>,
     partner |-> <<
        partner(b, n(1), TRUE, Null, 1, <<"1", "/">>),
        partner(a, n(2), FALSE, n(1), 2, <<"1", "/", "2", "/">>),
        partner(ab, Null, TRUE, n(2), 2, <<"1", "/", "2", "/", "3", "/">>),
        partner(Null, n(1), TRUE, Null, 4, <<"4", "/">>)>>,
     tag |-> <<[name |-> a, rank |-> n(1), active |-> Bool(TRUE)],
               [name |-> b, rank |-> n(2), active |-> Bool(TRUE)],
               [name |-> Null, rank |-> n(1), active |-> Bool(FALSE)]>>,
     line |-> <<[label |-> a, amount |-> n(1), task |-> n(1)],
                [label |-> b, amount |-> n(2), task |-> n(2)],
                [label |-> Null, amount |-> Null, task |-> n(4)],
                [label |-> ab, amount |-> n(1), task |-> Null]>>,
     user |-> <<[area |-> n(1), partner |-> n(1)], [area |-> Null, partner |-> n(3)],
                [area |-> Null, partner |-> Null]>>,
     company |-> <<[name |-> a], [name |-> b]>>] @@
    (Followers :> <<follows("task", 1, 1), follows("task", 3, 2), follows("partner", 2, 1)>>)

-----------------------------------------------------------------------------
(* The policy and the readers.                                             *)

row(m, group) == [model |-> m, group |-> group, guard |-> FALSE, members |-> FALSE, domain |-> Null,
                  reach |-> "", anchor |-> "", exempt |-> {}]
guarding(m) == [row(m, 1) EXCEPT !.guard = TRUE]
theRows ==
    <<[row("task", 1) EXCEPT !.domain =
          List(<<Op("|"), Term(<<"partner", "rank">>, "<=", n(1)), Term(<<"partner">>, "=", Bool(FALSE))>>)],
      [row("task", 2) EXCEPT !.reach = "own"],
      [row("task", 3) EXCEPT !.reach = "partner"],
      [guarding("task") EXCEPT !.reach = "company"],
      [row("partner", 1) EXCEPT !.domain = OneTerm(<<"id">>, "child_of", Name(<<"user", "area", "id">>, FALSE))],
      [row("partner", 2) EXCEPT !.domain = OneTerm(<<"tasks">>, "any", OneTerm(<<"qty">>, ">", n(0)))],
      [guarding("partner") EXCEPT !.domain = OneTerm(<<"rank">>, "!=", n(2)), !.exempt = {2}],
      [row("tag", 1) EXCEPT !.domain = OneTerm(<<"rank">>, "=", n(1))],
      row("tag", 2), row("line", 1), row("user", 1),
      [row("company", 1) EXCEPT !.domain =
          OneTerm(<<"id">>, "in", Sum(Name(<<"company_ids">>, FALSE), l(<<Ref(2)>>)))]>>
none(value) == [m \in DOMAIN theModels |-> value]
theBound == none(<<>>)
theParents == none({})
theAnchors == [task |-> "company"]
theInherits == [none(<<>>) EXCEPT !["line"] = <<[parent |-> "task", via |-> "task"]>>]

user(uid, company, companies, groups, scopes) ==
    [uid |-> uid, company |-> company, companies |-> companies, groups |-> groups, scopes |-> scopes,
     partner |-> Null]
u1 == user(1, 1, {1}, {1}, <<>>)
u2 == user(2, 2, {1, 2}, {1, 2, 3}, (2 :> {2}))
u3 == user(3, 1, {1}, {}, <<>>)
u4 == user(3, 1, {1}, {1}, <<>>)    \* has no area: sees no partner
heldBy == (1 :> [given |-> {1}, all |-> {1}]) @@ (2 :> [given |-> {2, 3}, all |-> {1, 2, 3}])
          @@ (3 :> [given |-> {}, all |-> {}])

-----------------------------------------------------------------------------
(* The requests.                                                           *)

where(m, who, tokens) ==
    [method |-> "compile_where", model |-> m, user |-> who, su |-> FALSE, trusted |-> FALSE,
     domain |-> List(tokens), fields |-> <<>>, order |-> Null, offset |-> 0, limit |-> Null,
     groupby |-> <<>>, labels |-> TRUE, hiddenEmpty |-> TRUE, raw |-> {}, unredacted |-> {},
     active |-> TRUE, activeTest |-> TRUE, x2manyActive |-> TRUE, lang |-> 1,
     midnight |-> [d \in 0..LastDay |-> Stamp(2 * d)], resolved |-> <<>>, fragments |-> <<>>]
read(m, who, tokens, names) == [where(m, who, tokens) EXCEPT !.method = "search_read", !.fields = names]

t(f, op, v)    == <<Term(<<f>>, op, v)>>
p(path, op, v) == <<Term(path, op, v)>>
no(tokens) == <<Op("!")>> \o tokens
either(x, y) == <<Op("|")>> \o x \o y

textDomains == {
    t("name", "ilike", ab), t("name", "not like", ab), t("name", "in", l(<<ab, Bool(FALSE)>>)),
    t("name", "=", Str(<<"A", "b">>)), t("name", "like", Str(<<"a", "_">>)),
    t("note", "=", Bool(FALSE)), t("note", "!=", Str(<<>>)), t("note", "not in", l(<<a, Bool(FALSE)>>)),
    t("note", "=like", Str(<<"a", "%">>)), t("note", ">=", a), no(t("note", "ilike", a)),
    t("note", "=", n(1)), t("note", "ilike", Str(<<>>)), t("note", "<", Bool(FALSE)),
    t("display_name", "ilike", a), t("display_name", "not in", l(<<ab, Bool(FALSE)>>))}
numberDomains == {
    t("qty", ">=", n(0)), t("qty", "<", n(1)), no(t("qty", ">", n(0))), t("qty", "=", n(0)),
    t("qty", "!=", n(1)), t("qty", "in", l(<<Str(<<"1">>), a>>)), t("qty", ">", Bool(FALSE)),
    t("qty", "not in", l(<<Bool(FALSE), n(2)>>)), t("qty", "=?", n(0)),
    t("done", "=", Bool(TRUE)), t("done", "!=", Bool(TRUE)), no(t("done", "in", l(<<Bool(FALSE)>>))),
    t("cost", "=", n(3)), t("cost", ">", n(0)), t("cost", "!=", n(3)), t("cost", "=", n(1)),
    t("secret", "=", n(1))}
dateDomains == {
    t("due", ">", Day(1)), no(t("due", ">", Day(1))), t("due", "=", Bool(FALSE)),
    t("start", "=", Day(1)), t("start", "not in", l(<<Day(1), Stamp(4)>>)), t("start", "<=", Day(2)),
    t("start", ">", Day(3)), t("start", "<", Day(2)), no(t("start", "<=", Day(2)))}
linkDomains == {
    t("partner", "=", n(1)), t("partner", "!=", n(1)), t("partner", "in", l(<<n(1), Bool(FALSE)>>)),
    t("partner", "=", ab), t("partner", "not in", l(<<a, n(1)>>)), t("partner", "ilike", a),
    t("partner", "not ilike", b), t("partner", "any", OneTerm(<<"rank">>, "=", n(1))),
    t("partner", "not any", OneTerm(<<"rank">>, "=", n(1))), p(<<"partner", "rank">>, "!=", n(1)),
    no(p(<<"partner", "rank">>, "=", n(1))), t("partner", "=", n(0)), t("company", "any", l(<<>>)),
    t("partner_rank", ">=", n(1)), t("partner_rank", "!=", n(1)), no(t("partner_rank", "<", n(1))),
    t("partner", "any", l(either(t("rank", "=", n(1)), t("tasks", "any", l(<<>>)))))}
manyDomains == {
    t("tags", "=", n(1)), t("tags", "in", l(<<n(1), Bool(FALSE)>>)), t("tags", "not in", l(<<n(2)>>)),
    t("tags", "any", OneTerm(<<"rank">>, "=", n(1))), t("tags", "not any", OneTerm(<<"rank">>, "=", n(1))),
    t("tags", "any", OneTerm(<<"active">>, "=", Bool(FALSE))), t("tags", "=", a),
    t("tags", "=", Bool(FALSE)), no(t("tags", "=", n(1))), t("own_tags", "in", l(<<n(2), n(3)>>)),
    t("own_tags", "any", l(<<>>)), t("tag_rank", "=", n(1)), t("tag_rank", "!=", n(1)),
    no(t("tag_rank", ">", n(1))), no(t("tag_rank", "=", n(1))),
    no(t("partner_qty", ">", n(1))), no(t("partner_qty", "=", n(1))), t("partner_qty", "!=", n(0)),
    t("lines", "any", OneTerm(<<"amount">>, ">", n(0))), t("lines", "not any", l(<<>>)),
    t("lines", "=", Bool(FALSE)), p(<<"lines", "amount">>, "=", n(1))}
treeDomains == {
    t("id", "child_of", n(2)), t("parent", "child_of", n(1)), t("partner", "child_of", n(1)),
    t("id", "parent_of", l(<<n(4)>>)), t("id", "parent_of", ab), t("partner", "child_of", b), t("partner", "parent_of", n(3)),
    t("active", "=", Bool(FALSE)), t("id", "in", l(<<>>)), t("partner", "any!", OneTerm(<<"rank">>, "=", n(1))),
    <<Op("!"), Op("&")>> \o t("qty", ">", n(0)) \o t("note", "!=", a),
    <<ConstTerm(n(1), "=", n(1))>> \o either(t("done", "=", Bool(TRUE)), no(t("tags", "=", Bool(FALSE)))) }
domains == textDomains \cup numberDomains \cup dateDomains \cup linkDomains \cup manyDomains \cup treeDomains

abroad(r) == [r EXCEPT !.lang = 2, !.midnight = [d \in 0..LastDay |-> Stamp(2 * d + 1)]]
root(r)   == [r EXCEPT !.su = TRUE, !.trusted = TRUE]
ordered(r, terms) == [r EXCEPT !.order = l(terms)]
paged(r, offset, limit) == [r EXCEPT !.offset = offset, !.limit = n(limit)]
grouped(r, path) == [r EXCEPT !.method = "read_group", !.groupby = path]
counted(r) == [r EXCEPT !.method = "search_count"]

\* What only a trusted caller, a superuser or Python may ask.
privileged == {
    root(where("task", u1, t("followers", "in", l(<<n(1)>>)))),
    root(where("task", u1, t("followers", "not in", l(<<n(2)>>)))),
    root(where("task", u1, t("secret", ">=", n(0)))),
    root(where("task", u1, t("tags", "any", l(<<>>)))),
    [where("task", u1, t("partner", "any!", OneTerm(<<"rank">>, "!=", n(2)))) EXCEPT !.trusted = TRUE],
    where("task", u1, t("partner", "any", [k |-> "sql", genuine |-> TRUE, ids |-> {1, 2}])),
    where("task", u1, t("partner", "not in", [k |-> "sql", genuine |-> FALSE, ids |-> {1}])),
    [where("task", u1, t("partner", "any", l(<<>>))) EXCEPT
        !.resolved = [partner |-> t("rank", "!=", n(1))], !.active = FALSE],
    [where("task", u2, t("tags", "any", l(<<>>))) EXCEPT !.activeTest = FALSE]}
shown == <<"id", "display_name", "partner", "tags", "lines">>
reads == {
    read("task", u1, <<>>, shown),
    read("task", u2, t("active", "in", l(<<Bool(TRUE), Bool(FALSE)>>)), shown),
    root(read("task", u1, <<>>, shown)),
    [paged(ordered(read("task", u1, <<>>, <<"parent", "name", "partner_rank">>),
                   <<by("parent", TRUE, "first"), by("qty", FALSE, "last")>>), 1, 2) EXCEPT !.unredacted = {"parent"}],
    root(ordered(read("task", u2, <<>>, <<"parent", "own_tags">>), <<by("parent", FALSE, "first")>>)),
    root(ordered(read("task", u2, <<>>, <<"qty">>), <<by("partner", TRUE, "default"), by("done", TRUE, "default")>>)),
    root(paged(ordered(read("task", u2, <<>>, <<"user">>), <<by("name", FALSE, "first")>>), 2, 3)),
    ordered(read("partner", u1, <<>>, <<"parent", "tasks", "rank">>), <<by("parent", FALSE, "last"), by("id", TRUE, "default")>>),
    read("partner", u2, <<>>, <<"name", "parent">>),
    read("line", u1, <<>>, <<"task", "label">>), read("line", u2, <<>>, <<"task">>),
    read("tag", u3, <<>>, <<"name">>), read("task", u1, <<>>, <<"secret">>)}
\* For this reader partner 2, of task 2 and the parent of task 4's, is hidden.
everyTask(tokens) == [where("task", u2, tokens) EXCEPT !.active = FALSE]
groups == {
    grouped(where("task", u1, <<>>), <<"partner">>), grouped(where("task", u2, <<>>), <<"tags">>),
    grouped(where("task", u1, p(<<"partner", "rank">>, "=", n(1))), <<"partner", "rank">>),
    grouped(everyTask(t("partner", "!=", n(4))), <<"partner", "rank">>),
    grouped(everyTask(t("partner", "!=", n(4))), <<"partner", "parent">>),
    root(grouped(everyTask(<<>>), <<"partner", "parent", "name">>)),
    grouped(where("line", u2, p(<<"task", "partner">>, "!=", n(4))), <<"task", "partner", "name">>),
    grouped(everyTask(<<>>), <<"note">>),
    grouped(where("task", u2, <<>>), <<"done">>), grouped(where("task", u1, <<>>), <<"watchers">>),
    counted(where("tag", u1, <<>>)), counted(where("line", u2, t("amount", "=", n(1))))}
foreign == {abroad(where("task", u1, d)) : d \in textDomains \cup dateDomains}
groupedRequests == {grouped(where("task", u4, t("watchers", "in", l(<<n(1)>>))), <<"watchers">>)}
theRequests == {where("task", who, d) : who \in {u1, u2}, d \in domains}
               \cup foreign \cup privileged \cup reads \cup groups

\* What is compiled of each model for each request, worked out once.
compiled == [r \in Requests |-> [m \in registered |-> CompiledRules(r, m)]]
compiledRules(r, m) == LET own == compiled[r] IN own[m]

=============================================================================
