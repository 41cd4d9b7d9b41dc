----------------------------- MODULE KernelSearch -----------------------------
(***************************************************************************)
(* A kernel that answers searches (src/kernel/src/orm.rs): a request is    *)
(* admitted, the record rules of every model it can reach are compiled     *)
(* model by model, or taken from the identity's cached rules and extended, *)
(* and its answer is read with them.                                       *)
(*                                                                         *)
(* What each step computes is a parameter: the operators of Answers, which *)
(* are the code's.  What the answers should be is another: the operators   *)
(* of SearchReference, which know nothing of the code's.                   *)
(***************************************************************************)
EXTENDS Naturals, Sequences, FiniteSets, RuleSet

CONSTANTS
    Requests,              \* the requests the kernel may receive
    Registered,            \* the registry's models
    RuledModels,           \* the models the access rows are about
    Admit(_),              \* "ok", or why a request is turned away
    Seeds(_),              \* the models whose rules a request names
    RulesFor(_, _),        \* one model's rules, compiled for a request
    Reach(_, _),           \* the models a model's rules need the rules of
    Reply(_, _)            \* the answer to a request under compiled rules

CONSTANTS
    Picks(_),              \* the records a request selects
    Visible(_),            \* the records of its model its reader may see
    Renders(_, _, _, _),   \* whether a value is how a field of a record shows
    Comes(_, _, _),        \* whether a record comes before another
    KeysOf(_, _),          \* the groups a record belongs to, as its reader sees them
    MayGroup(_, _),        \* whether a key may be shown to the reader
    Silent                 \* what single statements read without reporting it

\* What a compilation makes of a model's rules is one of three things, and only
\* models the registry has are looked at.
ASSUME CompilationAssumption ==
    \A r \in Requests :
        /\ r.su \in BOOLEAN
        /\ Seeds(r) \subseteq Registered
        /\ \A m \in Registered :
              LET own == RulesFor(r, m)
              IN  /\ \/ own \in {Unrestricted, Unevaluated}
                     \/ own = Restriction(own.domain, own.reads)
                  /\ Reach(m, own) \subseteq Registered

VARIABLES
    cache,      \* the identities' compiled rules, kept between requests
    pc,         \* "idle", or what the request under way is at
    call,       \* the request under way, or NoCall
    rules,      \* the rules compiled for it so far
    pending,    \* the models whose rules are still to be compiled
    answer      \* what it is answered, or NoAnswer
vars == <<cache, pc, call, rules, pending, answer>>

NoCall   == [k |-> "nocall"]
NoAnswer == [k |-> "noanswer"]
TurnedAway(why) == [err |-> why, found |-> <<>>, ids |-> {}, touched |-> {}, reads |-> {}]

-----------------------------------------------------------------------------
(* Actions.                                                                *)

Cached(user) == user \in DOMAIN cache

\* Mutant of Wanting: whatever an identity has cached is taken to be all of it.
WantingUncached(r, base) == IF Cached(r.user) THEN {} ELSE Seeds(r)

\* The models a request names that rules lack.
Wanting(r, base) == Seeds(r) \ base.compiled

\* A request is denied or refused before any rule is looked at, or starts from
\* the rules its identity has, short of those it names and they lack.
Receive(r) ==
    LET base == IF Cached(r.user) THEN cache[r.user] ELSE WithRuled(RuledModels)
        need == Wanting(r, base)
    IN  /\ pc = "idle"
        /\ call' = r
        /\ IF Admit(r) # "ok"
           THEN /\ pc' = "answered"
                /\ answer' = TurnedAway(Admit(r))
                /\ UNCHANGED <<rules, pending>>
           ELSE /\ pc' = IF r.su \/ need = {} THEN "search" ELSE "walk"
                /\ rules' = IF r.su THEN EmptyRules ELSE base
                /\ pending' = IF r.su THEN {} ELSE need
                /\ UNCHANGED answer
        /\ UNCHANGED cache

\* Mutant of LeftPending: only the models a request names are compiled.
LeftPendingNamed(m, own) == pending \ {m}

\* Mutant of LeftPending: models already compiled are compiled again.
LeftPendingAgain(m, own) == (pending \ {m}) \cup Reach(m, own)

LeftPending(m, own) == (pending \ {m}) \cup (Reach(m, own) \ (rules.compiled \cup {m}))

\* One model's rules; those it reaches are compiled after it, unless they are or
\* are about to be.  The models are taken in no particular order, which the
\* result does not depend on.
CompileModel ==
    LET m   == CHOOSE m \in pending : TRUE
        own == RulesFor(call, m)
    IN  /\ pc = "walk" /\ pending # {}
        /\ rules' = Added(rules, m, own)
        /\ pending' = LeftPending(m, own)
        /\ UNCHANGED <<cache, pc, call, answer>>

\* A statement the rules are read with fails: nothing is kept of them.
StatementFails ==
    /\ pc = "walk" /\ pending # {}
    /\ pc' = "answered"
    /\ answer' = TurnedAway("failed")
    /\ pending' = {}
    /\ UNCHANGED <<cache, call, rules>>

\* The identity's later requests start from these rules.
Publish ==
    /\ pc = "walk" /\ pending = {}
    /\ cache' = Put(cache, call.user, rules)
    /\ pc' = "search"
    /\ UNCHANGED <<call, rules, pending, answer>>

Search ==
    /\ pc = "search"
    /\ answer' = Reply(call, rules)
    /\ pc' = "answered"
    /\ UNCHANGED <<cache, call, rules, pending>>

Return ==
    /\ pc = "answered"
    /\ pc' = "idle"
    /\ call' = NoCall
    /\ rules' = EmptyRules
    /\ answer' = NoAnswer
    /\ UNCHANGED <<cache, pending>>

Init ==
    /\ cache = [user \in {} |-> EmptyRules]
    /\ pc = "idle"
    /\ call = NoCall
    /\ rules = EmptyRules
    /\ pending = {}
    /\ answer = NoAnswer

Next ==
    \/ \E r \in Requests : Receive(r)
    \/ CompileModel
    \/ StatementFails
    \/ Publish
    \/ Search
    \/ Return

Spec == Init /\ [][Next]_vars

\* The kernel goes on with a request it has: nothing in its steps waits.  This is
\* WF_vars(Next /\ pc # "idle"), with what enables the step written out.
Fairness == []<>(pc = "idle") \/ []<><<pc # "idle">>_vars
FairSpec == Spec /\ Fairness

-----------------------------------------------------------------------------
(* Properties.                                                             *)

AnyAnswer == pc = "answered" /\ answer.err = "ok"
Answered(method) == AnyAnswer /\ call.method = method

\* An answered search selects exactly the records that satisfy the domain as it
\* is read, that are active where the request says so, and that the access rows
\* let the reader see; a reader turned away from a model could see none of its
\* records.  Rewriting, complements, three-valued conditions, subqueries, cached
\* rules and resolved hierarchies change nothing of it (sqlgen.rs:620).
SelectsReference ==
    /\ AnyAnswer => answer.ids = Picks(call)
    /\ pc = "answered" /\ Admit(call) = "denied" => Visible(call) = {}

\* A search_read shows the links the reader may see, all of them and no other: a
\* many2one as a name, a hidden one as no link unless the request keeps bare
\* ids, a to-many field as its readable records (scan.rs:461, scan.rs:583).
ShowsReadableLinks ==
    Answered("search_read") =>
        \A i \in DOMAIN answer.found : \A j \in DOMAIN call.fields :
            Renders(call, call.fields[j], answer.found[i].id, answer.found[i].cells[j])

\* The rows of a page are those that have as many selected records before them
\* in the order asked for: the order is total, follows links by their models'
\* own orders, turns them round with their nulls, and pages neither overlap nor
\* leave a record out (sqlgen.rs:2640).
OrderedThroughLinks ==
    Answered("search_read") =>
        LET before(id) == Cardinality({b \in answer.ids \ {id} : Comes(call, b, id)})
            total      == Cardinality(answer.ids)
            last       == IF call.limit.k = "null" \/ call.offset + call.limit.n > total THEN total
                          ELSE call.offset + call.limit.n
        IN  /\ Len(answer.found) = IF call.offset >= last THEN 0 ELSE last - call.offset
            /\ \A i \in DOMAIN answer.found : before(answer.found[i].id) = call.offset + i - 1

\* The groups are those of the rows selected, each counted where the reader may
\* know it to belong: under its value, under each of its readable links, or at
\* the end of a path of links; a record of the path hidden by its model's rules
\* empties the key and does not lose the row (sqlgen.rs:1676).
GroupsKeepRows ==
    Answered("read_group") =>
        LET keysOf     == [id \in answer.ids |-> KeysOf(call, id)]
            under(key) == {id \in answer.ids : key \in keysOf[id]}
            keys       == UNION {keysOf[id] : id \in answer.ids}
        IN  answer.found = {[key |-> key, count |-> Cardinality(under(key))] : key \in keys}

\* A group of a many2many is of a link to a record the reader may see: grouping
\* is by the relation table "narrowed by `column2 IN` the comodel's ids under the
\* field domain, the active test and the comodel's rules" (README.md:3824).
GroupedRowsObeyRules ==
    Answered("read_group") => \A group \in answer.found : MayGroup(call, group.key)

\* What the fragment of a compiled condition and the walks before it read has been
\* reported to its caller, who flushes it first: the columns of subqueries, of
\* rules, of their active tests, of index guards and of the links walked row by
\* row among them (sqlgen.rs:2118).  The three reads that the code never reports
\* are left out one by one, and no other read of the same columns is.
FlushCoversReads ==
    Answered("compile_where") =>
        \A column \in answer.reads \ Silent : column[2] # "id" => column \in answer.touched

\* The kernel behind its cache is one that keeps nothing between requests: each
\* is answered under a whole rule set of its reader's own, with every model it
\* reaches in it and nothing of another identity, or is turned away (orm.rs:678).
Uncached == INSTANCE UncachedSearch WITH
                pc    <- IF pc = "walk" THEN "idle" ELSE pc,
                call  <- IF pc = "walk" THEN NoCall ELSE call,
                rules <- IF pc = "search" THEN rules ELSE EmptyRules

ImplementsUncached == Uncached!Spec

\* Whenever a search starts, cached rules are those a compilation from nothing
\* would give their identity, whichever of its requests they were compiled for
\* and extended by, and every model they reach has its own among them, so that
\* no later request finds them wanting (orm.rs:678).
CachedRulesFresh ==
    pc = "search" => \A user \in DOMAIN cache : Uncached!OwnedBy(user, cache[user], {})

\* A request is answered: the walk over the models it reaches ends, though
\* their rules reach one another in circles (orm.rs:740).
RequestsEnd == pc # "idle" ~> pc = "idle"

=============================================================================
