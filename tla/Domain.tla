------------------------------- MODULE Domain -------------------------------
(***************************************************************************)
(* Search domains as the kernel reads them: the prefix list a request      *)
(* carries becomes a tree of conjunctions, disjunctions, complements and   *)
(* leaves (src/kernel/src/domain.rs).                                      *)
(*                                                                         *)
(* A JSON value is a record tagged with its kind, so that values of        *)
(* different kinds are comparable: a text is a sequence of characters, and *)
(* a list that holds terms is a domain in the place of a value.            *)
(***************************************************************************)
EXTENDS Naturals, Sequences, SequencesExt

CONSTANT MaxNesting    \* how deep a tree may be before it is refused

ASSUME MaxNestingAssumption == MaxNesting \in Nat \ {0}

-----------------------------------------------------------------------------
(* JSON values and the tokens of a prefix list.                            *)

Null    == [k |-> "null"]
Bool(b) == [k |-> "bool", b |-> b]
Num(n)  == [k |-> "num", n |-> n]
Str(s)  == [k |-> "str", s |-> s]
List(l) == [k |-> "list", l |-> l]

\* A three-item array: its left side is a path of field names, or a value for
\* the constant leaves (1, '=', 1) and (0, '=', 1).
Term(f, op, v)     == [k |-> "term", left |-> [k |-> "path", p |-> f], op |-> op, v |-> v]
ConstTerm(l, op, v) == [k |-> "term", left |-> l, op |-> op, v |-> v]
Op(o)              == [k |-> "op", op |-> o]

IsText(v) == v.k = "str"
IsList(v) == v.k = "list"
IsNumber(v) == v.k = "num"

-----------------------------------------------------------------------------
(* Trees.                                                                  *)

True       == [k |-> "true"]
False      == [k |-> "false"]
And(c)     == [k |-> "and", c |-> c]
Or(c)      == [k |-> "or", c |-> c]
Not(n)     == [k |-> "not", n |-> n]
Leaf(f, op, v) == [k |-> "leaf", f |-> f, op |-> op, v |-> v]

Junctions == {"and", "or"}
Refused   == [k |-> "refused"]

-----------------------------------------------------------------------------
(* Parsing.                                                                *)

\* A tree on the parser's stack, with the depth the parser accounts to it.
Item(t, d) == [tree |-> t, depth |-> d]

\* Operands of one junction: an operand that is the same junction gives its
\* children, at its own depth; any other is a child one level down.
Nary(kind, items) ==
    LET merges(it) == it.tree.k = kind
        children   == FlattenSeq([i \in DOMAIN items |->
                          IF merges(items[i]) THEN items[i].tree.c ELSE <<items[i].tree>>])
        depths     == {IF merges(items[i]) THEN items[i].depth ELSE items[i].depth + 1 :
                          i \in DOMAIN items}
    IN  Item([k |-> kind, c |-> children], Max(depths \cup {1}))

Complement(it) ==
    IF it.tree.k = "not" THEN Item(it.tree.n, it.depth - 1)
                         ELSE Item(Not(it.tree), it.depth + 1)

\* The number a constant leaf stands for: a boolean is the number it equals.
SentinelNumber(v) ==
    CASE v.k = "num"  -> v.n
      [] v.k = "bool" -> IF v.b THEN 1 ELSE 0
      [] OTHER        -> -1

ParseLeaf(t) ==
    IF t.left.k = "path"
    THEN Leaf(t.left.p, t.op, t.v)
    ELSE IF t.op # "=" \/ SentinelNumber(t.v) # 1 \/ SentinelNumber(t.left) \notin {0, 1}
    THEN Refused
    ELSE IF SentinelNumber(t.left) = 1 THEN True ELSE False

\* One token, read from the right end of the list: a connective takes its
\* operands from the stack, whose first element is the top.
Shift(token, stack) ==
    LET arity  == IF token.op = "!" THEN 1 ELSE 2
        kind   == IF token.op = "&" THEN "and" ELSE "or"
        pushed == IF token.k = "term" THEN Item(ParseLeaf(token), 1)
                  ELSE IF token.op = "!" THEN Complement(stack[1])
                  ELSE Nary(kind, SubSeq(stack, 1, 2))
        rest   == IF token.k = "term" THEN stack ELSE SubSeq(stack, arity + 1, Len(stack))
    IN  IF \/ stack = <<Refused>>
           \/ token.k \notin {"op", "term"}
           \/ token.k = "op" /\ Len(stack) < arity
           \/ pushed.tree = Refused
           \/ pushed.depth > MaxNesting
        THEN <<Refused>>
        ELSE <<pushed>> \o rest

\* The tree of a list, with its accounted depth: the empty list selects
\* everything, and terms left over are conjoined.
ParseItem(tokens) ==
    LET stack == FoldRight(Shift, tokens, <<>>)
        all   == IF Len(stack) = 1 THEN stack[1] ELSE Nary("and", stack)
    IN  IF stack = <<>> THEN Item(True, 1)
        ELSE IF stack = <<Refused>> \/ all.depth > MaxNesting THEN Item(Refused, 0)
        ELSE all

Parse(tokens) == ParseItem(tokens).tree

\* A value in the place of a domain.
ParseValue(v) == IF IsList(v) THEN Parse(v.l) ELSE Refused

\* A value that reads as a domain, refused where it does not.
LooksLikeDomain(v) == IsList(v) /\ \A i \in DOMAIN v.l : v.l[i].k \in {"term", "op"}
ParseNested(v) == IF LooksLikeDomain(v) THEN Parse(v.l) ELSE Refused

-----------------------------------------------------------------------------
(* What is asked of a tree.                                                *)

\* Constants folded away: a junction of one child is that child.
RECURSIVE FoldConstants(_)
FoldConstants(t) ==
    LET junction(absorbing, neutral) ==
            LET folded == [i \in DOMAIN t.c |-> FoldConstants(t.c[i])]
                kept   == SelectSeq(folded, LAMBDA c : c # neutral)
            IN  CASE Contains(folded, absorbing) -> absorbing
                  [] Len(kept) = 0 -> neutral
                  [] Len(kept) = 1 -> kept[1]
                  [] OTHER -> [t EXCEPT !.c = kept]
        complement ==
            LET folded == FoldConstants(t.n)
            IN  CASE folded = True -> False
                  [] folded = False -> True
                  [] OTHER -> Not(folded)
    IN  CASE t.k = "and" -> junction(False, True)
          [] t.k = "or"  -> junction(True, False)
          [] t.k = "not" -> complement
          [] OTHER -> t

\* The first names of the fields the leaves are about.
RECURSIVE ReferencedFields(_)
ReferencedFields(t) ==
    CASE t.k \in Junctions -> UNION {ReferencedFields(t.c[i]) : i \in DOMAIN t.c}
      [] t.k = "not"       -> ReferencedFields(t.n)
      [] t.k = "leaf"      -> {t.f[1]}
      [] OTHER             -> {}

\* Selects no row whatever the rows hold: such a search is answered without a
\* statement.
RECURSIVE IsFalse(_)
IsFalse(t) ==
    CASE t.k = "false" -> TRUE
      [] t.k = "leaf"  -> t.op = "in" /\ t.v = List(<<>>)
      [] t.k = "and"   -> \E i \in DOMAIN t.c : IsFalse(t.c[i])
      [] t.k = "or"    -> t.c # <<>> /\ \A i \in DOMAIN t.c : IsFalse(t.c[i])
      [] OTHER         -> FALSE

\* The operators that skip record rules never come from a caller, at any depth.
RECURSIVE AcceptedFromCaller(_)
AcceptedFromCaller(t) ==
    CASE t.k \in Junctions -> \A i \in DOMAIN t.c : AcceptedFromCaller(t.c[i])
      [] t.k = "not"       -> AcceptedFromCaller(t.n)
      [] t.k = "leaf"      ->
            /\ t.op \notin {"any!", "not any!"}
            /\ \/ t.op \notin {"any", "not any"}
               \/ ParseNested(t.v) = Refused
               \/ AcceptedFromCaller(ParseNested(t.v))
      [] OTHER -> TRUE
=============================================================================
