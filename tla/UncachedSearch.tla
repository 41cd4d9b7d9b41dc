---------------------------- MODULE UncachedSearch ----------------------------
(***************************************************************************)
(* What a kernel that answers searches promises of record rules, with no   *)
(* cache and no walk: a request is answered under a rule set in which      *)
(* every model the request or another model's rules reach has its own      *)
(* rules, each compiled for the identity that asks, or it is turned away.  *)
(* Nothing is kept from one request to the next.                           *)
(***************************************************************************)
EXTENDS RuleSet

CONSTANTS
    Requests,           \* the requests the kernel may receive
    Registered,         \* the registry's models
    RuledModels,        \* the models the access rows are about
    Admit(_),           \* "ok", or why a request is turned away
    Seeds(_),           \* the models whose rules a request names
    RulesFor(_, _),     \* one model's rules, compiled for a request
    Reach(_, _),        \* the models a model's rules need the rules of
    Reply(_, _),        \* the answer to a request under compiled rules
    NoCall, NoAnswer,   \* of a kernel that is idle
    TurnedAway(_)       \* the answer to a request it turns away

VARIABLES pc, call, rules, answer
vars == <<pc, call, rules, answer>>

-----------------------------------------------------------------------------
(* Rule sets.                                                              *)

\* The rule set that holds these rules and nothing else.
Book(own) ==
    [domains |-> [m \in {m \in DOMAIN own : own[m].k = "restricted"} |-> own[m].domain],
     reads |-> [m \in {m \in DOMAIN own : own[m].k = "restricted" /\ own[m].reads # {}} |-> own[m].reads],
     unevaluated |-> {m \in DOMAIN own : own[m] = Unevaluated},
     ruled |-> RuledModels,
     compiled |-> DOMAIN own]

\* A rule set of an identity's own: all it says of a model is what a compilation
\* for that identity makes of the model's rules, nothing else is in it, and
\* what those rules need is there, but for models still to be compiled.
OwnedBy(user, book, open) ==
    /\ book.compiled \subseteq Registered
    /\ book = Book([m \in book.compiled |-> EntryOf(book, m)])
    /\ \A m \in book.compiled :
          /\ \E r \in Requests : r.user = user /\ EntryOf(book, m) = RulesFor(r, m)
          /\ Reach(m, EntryOf(book, m)) \subseteq book.compiled \cup open

Serves(r, book) ==
    IF r.su THEN book = EmptyRules
    ELSE OwnedBy(r.user, book, {}) /\ Seeds(r) \subseteq book.compiled

-----------------------------------------------------------------------------
(* Actions.                                                                *)

\* An idle kernel receives a request.
Receive == pc = "idle" /\ call' \in Requests

TurnAway ==
    /\ Receive /\ Admit(call') # "ok"
    /\ pc' = "answered"
    /\ answer' = TurnedAway(Admit(call'))
    /\ UNCHANGED rules

\* Compiling the rules of a reader who is bound by them may fail.
Fail ==
    /\ Receive /\ Admit(call') = "ok" /\ ~call'.su
    /\ pc' = "answered"
    /\ answer' = TurnedAway("failed")
    /\ UNCHANGED rules

Take ==
    /\ Receive /\ Admit(call') = "ok"
    /\ pc' = "search"
    /\ Serves(call', rules')
    /\ UNCHANGED answer

Search ==
    /\ pc = "search"
    /\ pc' = "answered"
    /\ answer' = Reply(call, rules)
    /\ rules' = EmptyRules
    /\ UNCHANGED call

Return ==
    /\ pc = "answered"
    /\ pc' = "idle"
    /\ call' = NoCall
    /\ answer' = NoAnswer
    /\ UNCHANGED rules

Init ==
    /\ pc = "idle"
    /\ call = NoCall
    /\ rules = EmptyRules
    /\ answer = NoAnswer

Next ==
    \/ TurnAway
    \/ Fail
    \/ Take
    \/ Search
    \/ Return

Spec == Init /\ [][Next]_vars

=============================================================================
