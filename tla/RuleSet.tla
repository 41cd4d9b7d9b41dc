------------------------------- MODULE RuleSet -------------------------------
(***************************************************************************)
(* The record rules compiled for one identity (src/kernel/src/security.rs  *)
(* `RuleSet`): the domains of the restricted models, the columns read to   *)
(* resolve them, the models whose rules no domain expresses, the models    *)
(* that have rules at all and the models compiled so far.                  *)
(*                                                                         *)
(* What is compiled of one model is its rules: that it is unrestricted,    *)
(* that its rules are not evaluated, or a restriction.                     *)
(***************************************************************************)

Unrestricted == [k |-> "unrestricted"]
Unevaluated  == [k |-> "unevaluated"]
Restriction(domain, reads) == [k |-> "restricted", domain |-> domain, reads |-> reads]

\* No model's rules; and those an identity without any starts from, with the
\* models the access rows are about.
EmptyRules ==
    [domains |-> [m \in {} |-> {}], reads |-> [m \in {} |-> {}],
     unevaluated |-> {}, ruled |-> {}, compiled |-> {}]
WithRuled(ruled) == [EmptyRules EXCEPT !.ruled = ruled]

\* A map with one more entry, or a new one for a key it has.
Put(map, key, value) ==
    [x \in DOMAIN map \cup {key} |-> IF x = key THEN value ELSE map[x]]

\* One more model's rules.
Insert(rules, m, domain) ==
    [rules EXCEPT !.domains = Put(@, m, domain), !.compiled = @ \cup {m}]
NoteReads(rules, m, reads) ==
    IF reads = {} THEN rules ELSE [rules EXCEPT !.reads = Put(@, m, reads)]
MarkUnrestricted(rules, m) == [rules EXCEPT !.compiled = @ \cup {m}]
MarkUnevaluated(rules, m) ==
    [rules EXCEPT !.compiled = @ \cup {m}, !.unevaluated = @ \cup {m}]

Added(rules, m, own) ==
    IF own = Unrestricted THEN MarkUnrestricted(rules, m)
    ELSE IF own = Unevaluated THEN MarkUnevaluated(rules, m)
    ELSE Insert(NoteReads(rules, m, own.reads), m, own.domain)

\* Whether a model is read under a domain of its own, and what a search is
\* refused without: rules that were evaluated, and compiled where there are any.
Restricted(rules, m) == m \in DOMAIN rules.domains
Evaluated(rules, m) ==
    m \notin rules.unevaluated /\ (m \in rules.ruled => m \in rules.compiled)

\* The columns read to resolve a model's rules.
ReadsOf(rules, m) == IF m \in DOMAIN rules.reads THEN rules.reads[m] ELSE {}

\* What a rule set says of one of its models, as it was compiled.
EntryOf(rules, m) ==
    IF Restricted(rules, m) THEN Restriction(rules.domains[m], ReadsOf(rules, m))
    ELSE IF m \in rules.unevaluated THEN Unevaluated
    ELSE Unrestricted

=============================================================================
