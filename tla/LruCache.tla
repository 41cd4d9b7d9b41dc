------------------------------- MODULE LruCache -------------------------------
(***************************************************************************)
(* What a bounded statement cache promises: the least recently used entry  *)
(* is the one that goes.  There is no clock here, only the order in which  *)
(* the cached keys were last touched.                                      *)
(***************************************************************************)
EXTENDS Integers, FiniteSets

CONSTANTS Keys, Values, Nothing, Capacity

VARIABLES
    cached,     \* the keys present
    value,      \* their values
    older,      \* <<a, b>>: a was touched before b
    answer      \* what the last operation returned

vars == <<cached, value, older, answer>>

Init ==
    /\ cached = {}
    /\ value = [k \in {} |-> Nothing]
    /\ older = {}
    /\ answer = Nothing

\* k becomes the most recently used of the keys in S.
Touch(k, S) ==
    {p \in older : p[1] \in S /\ p[2] \in S /\ p[1] # k /\ p[2] # k} \cup ((S \ {k}) \X {k})

Among(order, S) == {p \in order : p[1] \in S /\ p[2] \in S}

Get(k) ==
    /\ \/ /\ k \in cached
          /\ answer' = value[k]
          /\ older' = Touch(k, cached)
       \/ /\ k \notin cached
          /\ answer' = Nothing
          /\ UNCHANGED older
    /\ UNCHANGED <<cached, value>>

Insert(k, v) ==
    LET all == cached \cup {k}
        entry == [j \in all |-> IF j = k THEN v ELSE value[j]]
        order == Touch(k, all)
    IN  \/ /\ Cardinality(all) <= Capacity
           /\ cached' = all
           /\ value' = entry
           /\ older' = order
           /\ answer' = Nothing
        \/ /\ Cardinality(all) > Capacity
           /\ \E oldest \in all :
                /\ \A j \in all \ {oldest} : <<oldest, j>> \in order
                /\ cached' = all \ {oldest}
                /\ value' = [j \in all \ {oldest} |-> entry[j]]
                /\ older' = Among(order, all \ {oldest})
                /\ answer' = oldest

Remove(k) ==
    /\ cached' = cached \ {k}
    /\ value' = [j \in cached \ {k} |-> value[j]]
    /\ older' = Among(older, cached \ {k})
    /\ answer' = Nothing

Clear ==
    /\ cached' = {}
    /\ value' = [k \in {} |-> Nothing]
    /\ older' = {}
    /\ answer' = Nothing

Next ==
    \/ \E k \in Keys : Get(k) \/ Remove(k) \/ (\E v \in Values : Insert(k, v))
    \/ Clear

Spec == Init /\ [][Next]_vars
=============================================================================
