------------------------------ MODULE SqlValues ------------------------------
(***************************************************************************)
(* What the kernel's statements compute with: three-valued truth, column   *)
(* cells, pattern matching, and the conversions between the JSON values of *)
(* a domain and the values bound to a statement (the first part of         *)
(* src/kernel/src/sqlgen.rs, and src/kernel/src/trigram.rs).               *)
(*                                                                         *)
(* A date is a day number and a datetime a number of half days, so that a  *)
(* request's timezone may shift midnight by one; both are texts in JSON.   *)
(***************************************************************************)
EXTENDS Domain, Integers, FiniteSets

CONSTANTS
    MinRun,    \* the shortest literal run a trigram index can be asked about
    LastDay    \* the last day Python's calendar has

ASSUME SqlValuesAssumption == MinRun \in Nat \ {0} /\ LastDay \in Nat

-----------------------------------------------------------------------------
(* Three-valued truth: "T", "F", or "N" where SQL does not know.           *)

Holds(b) == IF b THEN "T" ELSE "F"
Both(a, b) == IF "F" \in {a, b} THEN "F" ELSE IF "N" \in {a, b} THEN "N" ELSE "T"
Either(a, b) == IF "T" \in {a, b} THEN "T" ELSE IF "N" \in {a, b} THEN "N" ELSE "F"
Negated(a) == CASE a = "T" -> "F" [] a = "F" -> "T" [] a = "N" -> "N"

\* `x IN (...)`: unknown for an absent x, false on an empty list.
Member(x, set) == IF set = {} THEN "F" ELSE IF x = Null THEN "N" ELSE Holds(x \in set)

-----------------------------------------------------------------------------
(* JSON values as dates, and the numbers and texts Python makes of them.   *)

Day(d)   == [k |-> "day", d |-> d]
Stamp(t) == [k |-> "stamp", t |-> t]

IsString(v) == v.k \in {"str", "day", "stamp"}
Digit == [n \in 0..9 |-> <<"0", "1", "2", "3", "4", "5", "6", "7", "8", "9">>[n + 1]]
NumberText(n) == Str(<<Digit[n]>>)

IsNullLike(v) == v = Null \/ v = Bool(FALSE)
IsPyFalsy(v) == IsNullLike(v) \/ v \in {Num(0), Str(<<>>), List(<<>>)}
PyTruth(v) == IF v.k = "str" THEN v.s \in {<<"1">>, <<"t">>} ELSE ~IsPyFalsy(v)

\* A numeric text becomes its number; any other text is no number at all.
NoNumber == [k |-> "nonumber"]
CoerceNumeric(v) ==
    IF ~IsString(v) THEN v
    ELSE IF v.k = "str" /\ \E n \in 0..9 : v = NumberText(n)
    THEN Num(CHOOSE n \in 0..9 : v = NumberText(n))
    ELSE NoNumber

\* Python's == between comparands, where a boolean is the number it equals.
PyEq(a, b) == \/ a = b
              \/ SentinelNumber(a) # -1 /\ SentinelNumber(a) = SentinelNumber(b)

-----------------------------------------------------------------------------
(* Ordering.                                                               *)

Letters == <<"%", "0", "1", "2", "3", "4", "5", "6", "7", "8", "9", "A", "_", "a", "b">>
Rank(ch) == CHOOSE i \in DOMAIN Letters : Letters[i] = ch

RECURSIVE TextLess(_, _)
TextLess(s, t) ==
    /\ t # <<>>
    /\ \/ s = <<>>
       \/ Rank(s[1]) < Rank(t[1])
       \/ s[1] = t[1] /\ TextLess(Tail(s), Tail(t))

Less(a, b) ==
    CASE a.k = "num"   -> a.n < b.n
      [] a.k = "day"   -> a.d < b.d
      [] a.k = "stamp" -> a.t < b.t
      [] a.k = "str"   -> TextLess(a.s, b.s)
      [] a.k = "bool"  -> ~a.b /\ b.b

Inequalities == {"<", ">", "<=", ">="}
Compares(a, op, b) ==
    CASE op = "<"  -> Less(a, b)
      [] op = ">"  -> Less(b, a)
      [] op = "<=" -> ~Less(b, a)
      [] op = ">=" -> ~Less(a, b)

\* The kernel compares two JSON values itself only where both are numbers or
\* both are texts: "unknown" elsewhere.
JsonCompares(a, op, b) ==
    IF \/ a.k = "num" /\ b.k = "num"
       \/ a.k = b.k /\ IsString(a)
    THEN IF Compares(a, op, b) THEN "yes" ELSE "no"
    ELSE "unknown"

-----------------------------------------------------------------------------
(* Patterns.                                                               *)

RECURSIVE Like(_, _)
Like(s, p) ==
    IF p = <<>> THEN s = <<>>
    ELSE IF p[1] = "%" THEN Like(s, Tail(p)) \/ (s # <<>> /\ Like(Tail(s), p))
    ELSE IF s = <<>> THEN FALSE
    ELSE IF p[1] = "_" THEN Like(Tail(s), Tail(p))
    ELSE IF p[1] = "\\" /\ Len(p) > 1 THEN s[1] = p[2] /\ Like(Tail(s), Tail(Tail(p)))
    ELSE s[1] = p[1] /\ Like(Tail(s), Tail(p))

Lower(s) == [i \in DOMAIN s |-> IF s[i] = "A" THEN "a" ELSE s[i]]
Matches(s, p, insensitive) == IF insensitive THEN Like(Lower(s), Lower(p)) ELSE Like(s, p)
Wrapped(s) == <<"%">> \o s \o <<"%">>

LikeOperators == {"like", "not like", "ilike", "not ilike",
                  "=like", "not =like", "=ilike", "not =ilike"}
Insensitive == {"ilike", "not ilike", "=ilike", "not =ilike"}
WholeValue  == {"=like", "not =like", "=ilike", "not =ilike"}
Negative    == {"not like", "not ilike", "not =like", "not =ilike"}

\* The literal runs of a pattern, each long enough for the index, rejoined by
\* wildcards; a value searched as a whole is one run with its wildcards escaped.
Escaped(s) == FlattenSeq([i \in DOMAIN s |->
                  IF s[i] \in {"_", "%", "\\"} THEN <<"\\", s[i]>> ELSE <<s[i]>>])
LiteralRuns(p) ==
    LET cuts == {0, Len(p) + 1} \cup {i \in DOMAIN p : p[i] \in {"_", "%"}}
        ends == SetToSortSeq(cuts, LAMBDA i, j : i < j)
    IN  [i \in 1..(Len(ends) - 1) |-> SubSeq(p, ends[i] + 1, ends[i + 1] - 1)]
PatternToPattern(p) ==
    LET kept == SelectSeq(LiteralRuns(p), LAMBDA run : Len(run) >= MinRun)
    IN  IF kept = <<>> THEN <<"%">>
        ELSE <<"%">> \o FlattenSeq([i \in DOMAIN kept |-> Escaped(kept[i]) \o <<"%">>])
ValueToPattern(s) == IF Len(s) < MinRun THEN <<"%">> ELSE Wrapped(Escaped(s))

\* A term unaccent or JSON could rewrite gets no accelerator.
IsExactOn(s) == \A i \in DOMAIN s : s[i] \notin {"\\", "quote"}

\* The text the trigram index is built on: every translation, quoted.
IndexedText(cell) ==
    FlattenSeq([i \in DOMAIN cell.v |->
        IF cell.v[i] = Null THEN <<>> ELSE <<"quote">> \o cell.v[i].s \o <<"quote">>])
=============================================================================
