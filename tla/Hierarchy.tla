------------------------------ MODULE Hierarchy ------------------------------
(***************************************************************************)
(* What the kernel does to a domain's child_of and parent_of terms before  *)
(* it compiles it: the roots are found, the hierarchy walked row by row or *)
(* read out of parent_path, and the terms replaced by what selects the     *)
(* records found (src/kernel/src/orm.rs).  A compiler record (SqlGen) says *)
(* on whose behalf: rules resolve their own hierarchies as the superuser.  *)
(***************************************************************************)
EXTENDS SqlGen

HierarchyOperators == {"child_of", "parent_of"}

\* A domain under resolution: its terms so far, or the reason it is refused,
\* and the columns the walks reported and read.
Resolved(tokens, touched, reads) ==
    [err |-> "ok", tokens |-> tokens, touched |-> touched, reads |-> reads]
Unresolved(why) == [Resolved(<<>>, {}, {}) EXCEPT !.err = why]
Then(a, b) ==
    IF a.err # "ok" THEN a ELSE IF b.err # "ok" THEN b
    ELSE Resolved(a.tokens \o b.tokens, a.touched \cup b.touched, a.reads \cup b.reads)

-----------------------------------------------------------------------------
(* Roots.                                                                  *)

\* The roots a term names by id and by name.
SeedIds(items)   == {items[i].n : i \in {j \in DOMAIN items : IsNumber(items[j])}}
SeedNames(items) == SelectSeq(items, IsString)
ValidRoots(items) ==
    \A i \in DOMAIN items : items[i] = Bool(FALSE) \/ IsNumber(items[i]) \/ IsString(items[i])

SortedIds(ids)   == SetToSortSeq(ids, LAMBDA a, b : a < b)
Ids(ids)         == List([i \in DOMAIN SortedIds(ids) |-> Num(SortedIds(ids)[i])])

\* The roots found by a search: their names, and the ids given beside them.  Its
\* own active test is not reported.
SeedsByName(c, target, names, ids, activeOnly) ==
    LET root   == [c EXCEPT !.m = target, !.stack = <<>>]
        byName == [i \in DOMAIN names |-> FieldLeaf("display_name", "ilike", names[i])]
        terms  == IF ids = {} THEN byName ELSE Append(byName, FieldLeaf("id", "in", Ids(ids)))
        active == Models[target].active
        shown  == [Sql([id \in Rows(root) |-> Member(c.env.db[target][id][active], {Bool(TRUE)})], {})
                      EXCEPT !.reads = {<<target, active, "roots">>}]
        found  == Compile(root, IF Len(terms) = 1 THEN terms[1] ELSE Or(terms))
        ruled  == IF c.su \/ ~Restricted(c.env.rules, target) THEN AllRows(root) ELSE CompileRules(root)
    IN  IF ~c.su /\ c.checked /\ c.env.access[target] # "ok" THEN Fails(c.env.access[target])
        ELSE IF ~c.su /\ ~Evaluated(c.env.rules, target) THEN Refuse
        ELSE Conj(IF activeOnly /\ active # NoName THEN Conj(found, shown) ELSE found, ruled)

-----------------------------------------------------------------------------
(* Walks.                                                                  *)

\* The declared parent field, where it is a stored link to the model itself.
ParentName(m) ==
    LET p == Models[m].parent
    IN  IF /\ p # NoName /\ Has(m, p)
           /\ Field(m, p).column /\ Field(m, p).type = "many2one" /\ Field(m, p).relation = m
        THEN p ELSE NoName

CanUseParentPath(m, link) ==
    /\ Models[m].parentStore
    /\ Has(m, "parent_path") /\ Field(m, "parent_path").column
    /\ ParentName(m) = link

Linked(c, m, link, ids) == {id \in DOMAIN c.env.db[m] : c.env.db[m][id][link] \in {Num(i) : i \in ids}}
LinksOf(c, m, link, ids) ==
    {c.env.db[m][id][link].n : id \in {i \in ids \cap DOMAIN c.env.db[m] : c.env.db[m][i][link] # Null}}

\* One level at a time, each record visited once: a cycle ends the walk.
RECURSIVE Descendants(_, _, _, _, _)
Descendants(c, m, link, all, frontier) ==
    IF frontier = {} THEN all
    ELSE LET fresh == Linked(c, m, link, frontier) \ all
         IN  Descendants(c, m, link, all \cup fresh, fresh)

RECURSIVE Ancestors(_, _, _, _, _)
Ancestors(c, m, link, all, frontier) ==
    IF frontier = {} THEN all
    ELSE LET fresh == LinksOf(c, m, link, frontier) \ all
         IN  Ancestors(c, m, link, all \cup fresh, fresh)

\* The parent_path of the roots that have one, the roots in the order of ids.
Paths(c, m, seeds) ==
    LET kept == SelectSeq(SortedIds(seeds), LAMBDA id :
                    id \in DOMAIN c.env.db[m] /\ c.env.db[m][id]["parent_path"] # Null)
    IN  [i \in DOMAIN kept |-> c.env.db[m][kept[i]]["parent_path"].s]
PathIds(path) == {n \in 0..9 : \E i \in DOMAIN path : path[i] = Digit[n]}

OrLeaves(leaves) ==
    IF leaves = <<>> THEN <<ConstTerm(Num(0), "=", Num(1))>>
    ELSE [i \in 1..(Len(leaves) - 1) |-> Op("|")] \o leaves

\* What replaces a term: a walk depends on its target, its link, its direction
\* and its roots alone, which is what the memo of a request is keyed by.
Walk(c, m, link, down, seeds, key) ==
    LET paths    == Paths(c, m, seeds)
        prefixes == OrLeaves([i \in DOMAIN paths |->
                        Term(<<"parent_path">>, "=like", Str(Append(paths[i], "%")))])
        byPath   == CanUseParentPath(m, link)
        ids      == IF seeds = {} THEN {}
                    ELSE IF down THEN Descendants(c, m, link, seeds, seeds)
                    ELSE IF byPath THEN UNION {PathIds(paths[i]) : i \in DOMAIN paths}
                    ELSE Ancestors(c, m, link, seeds, seeds)
    IN  IF ~(down /\ byPath) THEN <<Term(key, "in", Ids(ids))>>
        ELSE IF key = <<"id">> THEN prefixes
        ELSE <<Term(key, "any!", List(prefixes))>>

\* Mutant of WalkTouches: the link is walked with writes to it still pending.
LinkUnreported(m, link) == {}
\* A walk reports its link, whichever way it is made.
WalkTouches(m, link) == {<<m, link>>}

\* The columns a walk's own statements read: the paths of the roots, which are
\* not reported, or the link from row to row, which is.
WalkReads(m, link, seeds) ==
    IF seeds = {} THEN {}
    ELSE IF CanUseParentPath(m, link) THEN {<<m, "parent_path", "walk">>} ELSE {<<m, link>>}

-----------------------------------------------------------------------------
(* Terms.                                                                  *)

\* What a hierarchy term walks: the model, its parent link, and the path that
\* selects by the records found.
Target(c, m, fname) ==
    LET norm   == NormalizePath(m, <<fname>>)
        holder == Holder(m, norm)
        f      == Field(holder, Last(norm))
        none   == [m |-> NoName]
        tested == IF f.activeTest = Null THEN c.activeTest ELSE f.activeTest = Bool(TRUE)
        active == f.type # "many2one" /\ tested
    IN  IF fname = "id"
        THEN [m |-> m, link |-> ParentName(m), key |-> <<"id">>, active |-> c.activeTest, search |-> FALSE]
        ELSE IF norm = Unfollowable THEN none
        ELSE IF \/ f.relation = NoName
                \/ f.type # "many2one" /\ f.activeTest = [k |-> "unmodelled"]
                \/ f.relation = holder /\ f.type # "many2one"
        THEN none
        ELSE IF f.relation = holder /\ Len(norm) = 1
        THEN [m |-> holder, link |-> norm[1], key |-> <<"id">>, active |-> active, search |-> FALSE]
        ELSE [m |-> f.relation, link |-> ParentName(f.relation), key |-> norm, active |-> active,
              search |-> f.type = "many2many"]

ResolveHierarchyTerm(c, m, fname, op, v) ==
    LET on     == Target(c, m, fname)
        items  == IF v = Bool(FALSE) THEN <<>> ELSE Items(v)
        ids    == SeedIds(items)
        names  == SeedNames(items)
        sought == names # <<>> \/ (on.search /\ ids # {})
        found  == SeedsByName(c, on.m, names, IF on.search THEN ids ELSE {}, on.active)
        seeds  == IF ~sought THEN ids
                  ELSE IF on.search THEN Selected(found) ELSE ids \cup Selected(found)
        walked == Resolved(Walk(c, on.m, on.link, op = "child_of", seeds, on.key),
                           WalkTouches(on.m, on.link), WalkReads(on.m, on.link, seeds))
    IN  IF on.m = NoName \/ ~ValidRoots(items) \/ v.k \notin {"list", "num", "str", "bool"}
        THEN Unresolved("refused")
        ELSE IF sought /\ found.err # "ok" THEN Unresolved(found.err)
        ELSE IF on.link = NoName THEN Unresolved("refused")
        ELSE IF sought THEN [walked EXCEPT !.touched = @ \cup found.touched, !.reads = @ \cup found.reads]
        ELSE walked

RECURSIVE Resolve(_, _, _)

\* A subdomain is resolved on the model its path leads to; a subselect Python
\* wrote is taken as it is.
ResolveAny(c, m, t) ==
    LET norm  == NormalizePath(m, t.left.p)
        co    == Field(Holder(m, norm), Last(norm)).relation
        inner == Resolve(c, co, t.v.l)
        kept  == Resolved(<<t>>, {}, {})
    IN  IF t.v.k = "sql" THEN kept
        ELSE IF norm = Unfollowable THEN Unresolved("refused")
        ELSE IF co = NoName THEN Unresolved("refused")
        ELSE IF ~IsList(t.v) THEN kept
        ELSE [inner EXCEPT !.tokens = <<Term(t.left.p, t.op, List(@))>>]

ResolveTerm(c, m, t) ==
    LET path == t.left.p
        hop  == <<Term(<<path[1]>>, "any", OneTerm(Tail(path), t.op, t.v))>>
        kept == Resolved(<<t>>, {}, {})
    IN  IF t.k # "term" THEN kept
        ELSE IF t.left.k # "path" THEN kept
        ELSE IF t.op \in AnyOperators THEN ResolveAny(c, m, t)
        ELSE IF t.op \notin HierarchyOperators THEN kept
        ELSE IF Len(path) > 1 THEN Resolve(c, m, hop)
        ELSE ResolveHierarchyTerm(c, m, path[1], t.op, t.v)

Resolve(c, m, tokens) ==
    FoldLeft(LAMBDA done, t : Then(done, ResolveTerm(c, m, t)), Resolved(<<>>, {}, {}), tokens)

=============================================================================
