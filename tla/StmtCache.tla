------------------------------ MODULE StmtCache ------------------------------
(***************************************************************************)
(* The prepared-statement cache of one connection (kernel/src/db.rs        *)
(* `RecencyMap` behind `StmtCache`): a map whose entries carry the tick of *)
(* their last use, and a clock of fixed width that is rebased when it      *)
(* reaches its maximum.  One mutex makes every operation a step.           *)
(***************************************************************************)
EXTENDS Integers, FiniteSets

CONSTANTS
    Keys,       \* SQL texts
    Values,     \* prepared statements
    Nothing,    \* None
    Capacity,   \* MAX_PREPARED
    MaxClock    \* u64::MAX

ASSUME CapacityAssumption == Capacity \in Nat \ {0}
ASSUME ClockAssumption == MaxClock \in Nat /\ Capacity + 1 < MaxClock
ASSUME NothingAssumption == Nothing \notin Keys \cup Values

VARIABLES
    cached,     \* the map's keys
    value,      \* CacheEntry.value
    used,       \* CacheEntry.used
    clock,
    returned    \* what the last operation returned: a value or an evicted key

mapVars == <<cached, value, used, clock, returned>>

MapInit ==
    /\ cached = {}
    /\ value = [k \in {} |-> Nothing]
    /\ used = [k \in {} |-> 0]
    /\ clock = 0
    /\ returned = Nothing

-----------------------------------------------------------------------------
(* next_tick: at the top of the clock's range the ages are renumbered from 0. *)

Rank(k) == Cardinality({j \in cached : used[j] < used[k]})

\* Mutant of Aged: the ages are not renumbered with the clock.
AgedNever == used

Aged == IF clock = MaxClock THEN [k \in cached |-> Rank(k)] ELSE used

next_tick == (IF clock = MaxClock THEN Cardinality(cached) ELSE clock) + 1

-----------------------------------------------------------------------------
\* Mutant of get: a hit does not renew the entry.
GetWithoutTouch(k) ==
    /\ clock' = next_tick
    /\ used' = Aged
    /\ returned' = IF k \in cached THEN value[k] ELSE Nothing
    /\ UNCHANGED <<cached, value>>

\* A lookup ticks the clock whether or not it hits.
get(k) ==
    /\ clock' = next_tick
    /\ \/ /\ k \in cached
          /\ used' = [Aged EXCEPT ![k] = next_tick]
          /\ returned' = value[k]
       \/ /\ k \notin cached
          /\ used' = Aged
          /\ returned' = Nothing
    /\ UNCHANGED <<cached, value>>

\* Mutant of insert: nothing is evicted.
InsertWithoutEviction(k, v) ==
    LET all == cached \cup {k}
    IN  /\ clock' = next_tick
        /\ cached' = all
        /\ value' = [j \in all |-> IF j = k THEN v ELSE value[j]]
        /\ used' = [j \in all |-> IF j = k THEN next_tick ELSE Aged[j]]
        /\ returned' = Nothing

\* The entry goes in first; if that is one too many, the oldest goes out.
insert(k, v) ==
    LET all == cached \cup {k}
        entry == [j \in all |-> IF j = k THEN v ELSE value[j]]
        ages == [j \in all |-> IF j = k THEN next_tick ELSE Aged[j]]
    IN  /\ clock' = next_tick
        /\ \/ /\ Cardinality(all) <= Capacity
              /\ cached' = all
              /\ value' = entry
              /\ used' = ages
              /\ returned' = Nothing
           \/ /\ Cardinality(all) > Capacity
              /\ \E oldest \in all :
                   /\ \A j \in all : ages[oldest] <= ages[j]
                   /\ cached' = all \ {oldest}
                   /\ value' = [j \in all \ {oldest} |-> entry[j]]
                   /\ used' = [j \in all \ {oldest} |-> ages[j]]
                   /\ returned' = oldest

\* A stale plan is dropped alone.
remove(k) ==
    /\ cached' = cached \ {k}
    /\ value' = [j \in cached \ {k} |-> value[j]]
    /\ used' = [j \in cached \ {k} |-> used[j]]
    /\ returned' = Nothing
    /\ UNCHANGED clock

\* Every plan is dropped, and the clock restarts.
clear ==
    /\ cached' = {}
    /\ value' = [k \in {} |-> Nothing]
    /\ used' = [k \in {} |-> 0]
    /\ clock' = 0
    /\ returned' = Nothing

MapNext ==
    \/ \E k \in Keys : get(k) \/ remove(k) \/ (\E v \in Values : insert(k, v))
    \/ clear

MapSpec == MapInit /\ [][MapNext]_mapVars

-----------------------------------------------------------------------------
(* Properties. *)

\* Every variable has the shape its code counterpart has, the clock within its
\* width and the map within its capacity.
MapTypeOK ==
    /\ cached \subseteq Keys
    /\ value \in [cached -> Values]
    /\ used \in [cached -> 0..MaxClock]
    /\ clock \in 0..MaxClock
    /\ returned \in Keys \cup Values \cup {Nothing}
    /\ IsFiniteSet(cached) /\ Cardinality(cached) <= Capacity

\* Ages are distinct and none is in the future, so "the oldest" is one entry and
\* the next tick is newer than all of them, across a rebase too (next_tick).
AgesOrdered ==
    /\ \A j, k \in cached : used[j] = used[k] => j = k
    /\ \A k \in cached : used[k] <= clock

\* The clock-driven cache is an LRU cache: the same hits, the same evictions, in
\* the order of use, whatever the clock does (RecencyMap; the reference queue of
\* db.rs cache_tests).
Lru == INSTANCE LruCache WITH
           older <- {p \in cached \X cached : used[p[1]] < used[p[2]]},
           answer <- returned

ImplementsLru == Lru!Spec

\* What the refinement rests on: the map within its capacity, the clock within its
\* width, and ages that order the entries by their last use (insert, next_tick).
StmtCacheInv == MapTypeOK /\ AgesOrdered
=============================================================================
