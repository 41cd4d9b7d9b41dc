------------------------- MODULE KernelCaches_proofs -------------------------
(***************************************************************************)
(* The kernel's two caches do what a kernel without them would: the        *)
(* prepared statements of a connection (StmtCache) are an LRU cache, and   *)
(* the compiled record rules of identities (KernelSearch) are never told   *)
(* from rules compiled for the request.                                    *)
(*                                                                         *)
(* The heart of the first is AgedFacts: renumbering the ages at the top of *)
(* the clock's range keeps their order and leaves room for the next tick.  *)
(* That of the second is WalkInv: what a walk has compiled is whole but    *)
(* for the models it still has to compile, from whichever rules it began.  *)
(***************************************************************************)
EXTENDS StmtCache, KernelSearch, FiniteSetTheorems, TLAPS

-----------------------------------------------------------------------------
(* The statement cache: ages.                                              *)

\* Ranks are below the number of entries and order the keys as their ages do.
LEMMA RankOrder ==
    ASSUME IsFiniteSet(cached), used \in [cached -> Nat]
    PROVE  /\ \A k \in cached : Rank(k) \in 0..(Cardinality(cached) - 1)
           /\ \A j, k \in cached : used[j] < used[k] <=> Rank(j) < Rank(k)
<1> DEFINE Below(k) == {j \in cached : used[j] < used[k]}
<1>0. \A k \in cached : Rank(k) = Cardinality(Below(k))
  BY DEF Rank
<1>1. ASSUME NEW k \in cached
      PROVE  IsFiniteSet(Below(k)) /\ Cardinality(Below(k)) \in Nat
  BY FS_Subset, FS_CardinalityType
<1>2. ASSUME NEW k \in cached
      PROVE  Rank(k) \in 0..(Cardinality(cached) - 1)
  <2>1. Below(k) \subseteq cached /\ k \notin Below(k)
    BY used[k] \in Nat
  <2>2. Cardinality(Below(k)) <= Cardinality(cached) /\ Cardinality(Below(k)) # Cardinality(cached)
    BY <2>1, FS_Subset
  <2>3. Cardinality(cached) \in Nat
    BY FS_CardinalityType
  <2> HIDE DEF Below
  <2> QED BY <1>0, <1>1, <2>2, <2>3
<1>3. ASSUME NEW j \in cached, NEW k \in cached, used[j] < used[k]
      PROVE  Rank(j) < Rank(k)
  <2>1. used[j] \in Nat /\ used[k] \in Nat
    OBVIOUS
  <2>2. Below(j) \subseteq Below(k)
    BY <1>3, <2>1
  <2>3. j \in Below(k) /\ j \notin Below(j)
    BY <1>3, <2>1
  <2>4. Cardinality(Below(j)) <= Cardinality(Below(k)) /\ Cardinality(Below(j)) # Cardinality(Below(k))
    BY <1>1, <2>2, <2>3, FS_Subset
  <2>5. Cardinality(Below(j)) \in Nat /\ Cardinality(Below(k)) \in Nat
    BY <1>1
  <2> HIDE DEF Below
  <2> QED BY <1>0, <2>4, <2>5
<1>4. ASSUME NEW j \in cached, NEW k \in cached, used[j] = used[k]
      PROVE  Rank(j) = Rank(k)
  BY <1>4 DEF Rank
<1>5. \A j, k \in cached : used[j] < used[k] <=> Rank(j) < Rank(k)
  <2> TAKE j, k \in cached
  <2>1. used[j] \in Nat /\ used[k] \in Nat /\ Rank(j) \in Int /\ Rank(k) \in Int
    BY <1>2, FS_CardinalityType
  <2>2. CASE used[j] < used[k]
    BY <1>3, <2>2
  <2>3. CASE used[j] = used[k]
    BY <1>4, <2>1, <2>3
  <2>4. CASE used[k] < used[j]
    <3>1. Rank(k) < Rank(j)
      BY <1>3, <2>4
    <3> QED BY <2>1, <2>4, <3>1
  <2> QED BY <2>1, <2>2, <2>3, <2>4
<1> QED BY <1>2, <1>5

\* What every operation relies on: the aged entries are ordered as before, all
\* older than the next tick, which is within the clock's width.
LEMMA AgedFacts ==
    ASSUME StmtCacheInv
    PROVE  /\ Aged \in [cached -> 0..MaxClock]
           /\ next_tick \in 0..MaxClock
           /\ \A k \in cached : Aged[k] < next_tick
           /\ \A j, k \in cached : used[j] < used[k] <=> Aged[j] < Aged[k]
           /\ \A j, k \in cached : Aged[j] = Aged[k] => j = k
<1> USE CapacityAssumption, ClockAssumption
<1>1. /\ IsFiniteSet(cached) /\ Cardinality(cached) \in Nat /\ Cardinality(cached) <= Capacity
      /\ used \in [cached -> Nat] /\ used \in [cached -> 0..MaxClock]
      /\ clock \in Nat /\ clock <= MaxClock
      /\ \A k \in cached : used[k] <= clock
      /\ \A j, k \in cached : used[j] = used[k] => j = k
  BY FS_CardinalityType DEF StmtCacheInv, MapTypeOK, AgesOrdered
<1>2. CASE clock = MaxClock
  <2>1. Aged = [k \in cached |-> Rank(k)] /\ next_tick = Cardinality(cached) + 1
    BY <1>2 DEF Aged, next_tick
  <2>2. \A k \in cached : Rank(k) \in 0..(Cardinality(cached) - 1)
    BY <1>1, RankOrder
  <2>3. \A j, k \in cached : used[j] < used[k] <=> Rank(j) < Rank(k)
    BY <1>1, RankOrder
  <2>4. \A k \in cached : Rank(k) \in 0..MaxClock /\ Rank(k) < Cardinality(cached) + 1
    BY <1>1, <2>2
  <2>5. ASSUME NEW j \in cached, NEW k \in cached, Rank(j) = Rank(k)
        PROVE  j = k
    <3>1. used[j] \in Nat /\ used[k] \in Nat /\ Rank(j) \in Int /\ Rank(k) \in Int
      BY <1>1, <2>4
    <3>2. ~(used[j] < used[k]) /\ ~(used[k] < used[j])
      BY <2>3, <2>5, <3>1
    <3> QED BY <1>1, <3>1, <3>2
  <2> QED BY <1>1, <2>1, <2>3, <2>4, <2>5
<1>3. CASE clock # MaxClock
  <2>1. Aged = used /\ next_tick = clock + 1
    BY <1>3 DEF Aged, next_tick
  <2> QED BY <1>1, <1>3, <2>1
<1> QED BY <1>2, <1>3

-----------------------------------------------------------------------------
(* The statement cache: the invariant.                                     *)

\* The empty cache satisfies the invariant.
LEMMA MapInitInv == MapInit => StmtCacheInv
  BY FS_EmptySet, CapacityAssumption, ClockAssumption DEF MapInit, StmtCacheInv, MapTypeOK, AgesOrdered

\* Every operation keeps the ages distinct, within the clock, and the map within
\* its capacity.
LEMMA MapNextInv == StmtCacheInv /\ [MapNext]_mapVars => StmtCacheInv'
<1> SUFFICES ASSUME StmtCacheInv, [MapNext]_mapVars
             PROVE  StmtCacheInv'
  OBVIOUS
<1> USE CapacityAssumption, ClockAssumption, NothingAssumption
<1>0. /\ cached \subseteq Keys /\ value \in [cached -> Values] /\ used \in [cached -> 0..MaxClock]
      /\ clock \in 0..MaxClock /\ IsFiniteSet(cached) /\ Cardinality(cached) <= Capacity
      /\ Cardinality(cached) \in Nat
      /\ returned \in Keys \cup Values \cup {Nothing}
  BY FS_CardinalityType DEF StmtCacheInv, MapTypeOK
<1>1. /\ Aged \in [cached -> 0..MaxClock] /\ next_tick \in 0..MaxClock
      /\ \A k \in cached : Aged[k] < next_tick
      /\ \A j, k \in cached : Aged[j] = Aged[k] => j = k
  BY AgedFacts
<1>2. ASSUME NEW k \in Keys, get(k)
      PROVE  StmtCacheInv'
  <2>1. CASE k \in cached
    <3>1. used' = [Aged EXCEPT ![k] = next_tick] /\ returned' = value[k]
          /\ clock' = next_tick /\ cached' = cached /\ value' = value
      BY <1>2, <2>1 DEF get
    <3>2. used' \in [cached -> 0..MaxClock] /\ value[k] \in Values
      BY <1>0, <1>1, <2>1, <3>1
    <3>3. \A j \in cached : used'[j] = IF j = k THEN next_tick ELSE Aged[j]
      BY <1>1, <3>1
    <3>4. \A j \in cached : used'[j] <= clock'
      BY <1>1, <3>1, <3>3
    <3>5. \A i, j \in cached : used'[i] = used'[j] => i = j
      BY <1>1, <3>3
    <3> QED BY <1>0, <1>1, <3>1, <3>2, <3>4, <3>5 DEF StmtCacheInv, MapTypeOK, AgesOrdered
  <2>2. CASE k \notin cached
    <3>1. used' = Aged /\ returned' = Nothing
          /\ clock' = next_tick /\ cached' = cached /\ value' = value
      BY <1>2, <2>2 DEF get
    <3>2. \A j \in cached : used'[j] <= clock'
      BY <1>1, <3>1
    <3> QED BY <1>0, <1>1, <3>1, <3>2 DEF StmtCacheInv, MapTypeOK, AgesOrdered
  <2> QED BY <2>1, <2>2
<1>3. ASSUME NEW k \in Keys, NEW v \in Values, insert(k, v)
      PROVE  StmtCacheInv'
  <2> DEFINE all == cached \cup {k}
             entry == [j \in all |-> IF j = k THEN v ELSE value[j]]
             ages == [j \in all |-> IF j = k THEN next_tick ELSE Aged[j]]
  <2>1. all \subseteq Keys /\ IsFiniteSet(all) /\ Cardinality(all) \in Nat
        /\ Cardinality(all) <= Cardinality(cached) + 1
    <3>1. IsFiniteSet(all)
      BY <1>0, FS_AddElement
    <3>2. Cardinality(all) = Cardinality(cached) \/ Cardinality(all) = Cardinality(cached) + 1
      BY <1>0, FS_AddElement
    <3> QED BY <1>0, <3>1, <3>2
  <2>2. entry \in [all -> Values] /\ ages \in [all -> 0..MaxClock]
    BY <1>0, <1>1
  <2>3. \A j \in all : ages[j] <= next_tick
    BY <1>1
  <2>4. \A i, j \in all : ages[i] = ages[j] => i = j
    BY <1>1
  <2>5. CASE Cardinality(all) <= Capacity
    <3>1. cached' = all /\ value' = entry /\ used' = ages /\ returned' = Nothing /\ clock' = next_tick
      BY <1>3, <2>1, <2>5 DEF insert
    <3> QED BY <1>1, <2>1, <2>2, <2>3, <2>4, <2>5, <3>1 DEF StmtCacheInv, MapTypeOK, AgesOrdered
  <2>6. CASE Cardinality(all) > Capacity
    <3>0. ~(Cardinality(all) <= Capacity)
      BY <2>1, <2>6
    <3>1. PICK oldest \in all :
             /\ \A j \in all : ages[oldest] <= ages[j]
             /\ cached' = all \ {oldest}
             /\ value' = [j \in all \ {oldest} |-> entry[j]]
             /\ used' = [j \in all \ {oldest} |-> ages[j]]
             /\ returned' = oldest
      BY <1>3, <3>0, Zenon DEF insert
    <3>2. clock' = next_tick
      BY <1>3 DEF insert
    <3>3. IsFiniteSet(all \ {oldest}) /\ Cardinality(all \ {oldest}) = Cardinality(all) - 1
      BY <2>1, <3>1, FS_RemoveElement
    <3>4. Cardinality(cached') <= Capacity
      BY <1>0, <2>1, <3>1, <3>3
    <3>5. \A j \in cached' : used'[j] = ages[j]
      BY <3>1
    <3>6. AgesOrdered'
      BY <2>3, <2>4, <3>1, <3>2, <3>5 DEF AgesOrdered
    <3>7. value' \in [cached' -> Values] /\ used' \in [cached' -> 0..MaxClock]
      BY <2>2, <3>1
    <3> QED BY <1>1, <2>1, <3>1, <3>2, <3>3, <3>4, <3>6, <3>7 DEF StmtCacheInv, MapTypeOK
  <2> QED BY <1>0, <2>1, <2>5, <2>6
<1>4. ASSUME NEW k \in Keys, remove(k)
      PROVE  StmtCacheInv'
  <2>1. IsFiniteSet(cached \ {k}) /\ Cardinality(cached \ {k}) <= Cardinality(cached)
        /\ Cardinality(cached \ {k}) \in Nat
    BY <1>0, FS_Subset, FS_CardinalityType
  <2>2. /\ cached' = cached \ {k} /\ value' \in [cached' -> Values]
        /\ used' \in [cached' -> 0..MaxClock] /\ clock' = clock /\ returned' = Nothing
        /\ \A j \in cached' : used'[j] = used[j]
    BY <1>0, <1>4 DEF remove
  <2>3. AgesOrdered'
    BY <2>2 DEF StmtCacheInv, AgesOrdered
  <2>4. Cardinality(cached') <= Capacity
    BY <1>0, <2>1, <2>2
  <2> QED BY <1>0, <2>1, <2>2, <2>3, <2>4 DEF StmtCacheInv, MapTypeOK
<1>5. CASE clear
  BY <1>5, FS_EmptySet DEF clear, StmtCacheInv, MapTypeOK, AgesOrdered
<1>6. CASE UNCHANGED mapVars
  BY <1>6 DEF mapVars, StmtCacheInv, MapTypeOK, AgesOrdered
<1> QED BY <1>2, <1>3, <1>4, <1>5, <1>6 DEF MapNext

\* The invariant holds throughout.
THEOREM CacheInvariant == MapSpec => []StmtCacheInv
  BY MapInitInv, MapNextInv, PTL DEF MapSpec

\* The cache never holds more than its capacity and its clock never leaves its
\* width, for any capacity and any width above it (RecencyMap::insert, next_tick).
THEOREM CacheStaysBounded == MapSpec => []MapTypeOK
<1>1. StmtCacheInv => MapTypeOK
  BY DEF StmtCacheInv
<1> QED BY <1>1, CacheInvariant, PTL

\* Distinct ages, none in the future: the eviction of RecencyMap::insert is
\* never ambiguous and never hits the entry just used.
THEOREM AgesAreOrdered == MapSpec => []AgesOrdered
<1>1. StmtCacheInv => AgesOrdered
  BY DEF StmtCacheInv
<1> QED BY <1>1, CacheInvariant, PTL

-----------------------------------------------------------------------------
(* The statement cache: the refinement.                                    *)

\* The instance's Cardinality is the one used here.
LEMMA SameCardinality == \A S : Lru!Cardinality(S) = Cardinality(S)
  BY DEF Cardinality, Lru!Cardinality

\* An empty cache is an empty LRU cache.
LEMMA MapInitRefines == MapInit => Lru!Init
  BY DEF MapInit, Lru!Init

\* Every operation of the clocked cache is the same operation of the LRU cache.
LEMMA MapNextRefines == StmtCacheInv /\ [MapNext]_mapVars => [Lru!Next]_(Lru!vars)
<1> SUFFICES ASSUME StmtCacheInv, [MapNext]_mapVars
             PROVE  [Lru!Next]_(Lru!vars)
  OBVIOUS
<1> USE CapacityAssumption, ClockAssumption, NothingAssumption
<1>0. /\ cached \subseteq Keys /\ used \in [cached -> 0..MaxClock]
      /\ IsFiniteSet(cached) /\ Cardinality(cached) \in Nat
  BY FS_CardinalityType DEF StmtCacheInv, MapTypeOK
<1>1. /\ Aged \in [cached -> 0..MaxClock] /\ next_tick \in 0..MaxClock
      /\ \A k \in cached : Aged[k] < next_tick
      /\ \A j, k \in cached : used[j] < used[k] <=> Aged[j] < Aged[k]
      /\ \A j, k \in cached : Aged[j] = Aged[k] => j = k
  BY AgedFacts
<1>2. ASSUME NEW k \in Keys, get(k)
      PROVE  Lru!Get(k)
  <2>1. CASE k \in cached
    <3>1. used' = [Aged EXCEPT ![k] = next_tick] /\ returned' = value[k]
          /\ cached' = cached /\ value' = value
      BY <1>2, <2>1 DEF get
    <3>2. \A j \in cached : used'[j] = IF j = k THEN next_tick ELSE Aged[j]
      BY <1>1, <3>1
    <3>3. \A i, j \in cached :
             used'[i] < used'[j] <=> (j = k /\ i # k) \/ (i # k /\ j # k /\ used[i] < used[j])
      BY <1>1, <3>2
    <3>4. {p \in cached \X cached : used'[p[1]] < used'[p[2]]} = Lru!Touch(k, cached)
      BY <2>1, <3>3 DEF Lru!Touch
    <3> QED BY <2>1, <3>1, <3>4 DEF Lru!Get
  <2>2. CASE k \notin cached
    <3>1. used' = Aged /\ returned' = Nothing /\ cached' = cached /\ value' = value
      BY <1>2, <2>2 DEF get
    <3>2. \A i, j \in cached : used'[i] < used'[j] <=> used[i] < used[j]
      BY <1>1, <3>1
    <3>3. {p \in cached \X cached : used'[p[1]] < used'[p[2]]}
            = {p \in cached \X cached : used[p[1]] < used[p[2]]}
      BY <3>2
    <3> QED BY <2>2, <3>1, <3>3 DEF Lru!Get
  <2> QED BY <2>1, <2>2
<1>3. ASSUME NEW k \in Keys, NEW v \in Values, insert(k, v)
      PROVE  Lru!Insert(k, v)
  <2> DEFINE all == cached \cup {k}
             entry == [j \in all |-> IF j = k THEN v ELSE value[j]]
             ages == [j \in all |-> IF j = k THEN next_tick ELSE Aged[j]]
  <2>1. Cardinality(all) \in Nat
    BY <1>0, FS_AddElement, FS_CardinalityType
  <2>2. \A i, j \in all :
           ages[i] < ages[j] <=> (j = k /\ i # k) \/ (i # k /\ j # k /\ used[i] < used[j])
    BY <1>1
  <2>3. {p \in all \X all : ages[p[1]] < ages[p[2]]} = Lru!Touch(k, all)
    BY <2>2 DEF Lru!Touch
  <2>4. \A i, j \in all : ages[i] = ages[j] => i = j
    BY <1>1
  <2>5. \A j \in all : ages[j] \in Nat
    BY <1>1
  <2>6. CASE Cardinality(all) <= Capacity
    <3>1. cached' = all /\ value' = entry /\ used' = ages /\ returned' = Nothing
      BY <1>3, <2>1, <2>6 DEF insert
    <3>2. {p \in cached' \X cached' : used'[p[1]] < used'[p[2]]} = Lru!Touch(k, all)
      BY <2>3, <3>1
    <3>3. Lru!Cardinality(all) <= Capacity
      BY <2>6, SameCardinality
    <3> QED BY <3>1, <3>2, <3>3, Zenon DEF Lru!Insert
  <2>7. CASE Cardinality(all) > Capacity
    <3>0. ~(Cardinality(all) <= Capacity)
      BY <2>1, <2>7
    <3>1. PICK oldest \in all :
             /\ \A j \in all : ages[oldest] <= ages[j]
             /\ cached' = all \ {oldest}
             /\ value' = [j \in all \ {oldest} |-> entry[j]]
             /\ used' = [j \in all \ {oldest} |-> ages[j]]
             /\ returned' = oldest
      BY <1>3, <3>0, Zenon DEF insert
    <3>2. \A j \in all \ {oldest} : <<oldest, j>> \in Lru!Touch(k, all)
      <4> TAKE j \in all \ {oldest}
      <4>1. oldest \in all /\ j \in all /\ oldest # j
        BY <3>1
      <4>2. ages[oldest] <= ages[j]
        BY <3>1, <4>1
      <4> HIDE DEF all, ages
      <4>3. ages[oldest] # ages[j] /\ ages[oldest] \in Nat /\ ages[j] \in Nat
        BY <2>4, <2>5, <4>1
      <4>4. ages[oldest] < ages[j]
        BY <4>2, <4>3
      <4>5. <<oldest, j>> \in {p \in all \X all : ages[p[1]] < ages[p[2]]}
        BY <4>1, <4>4
      <4> QED BY <2>3, <4>5
    <3>3. {p \in cached' \X cached' : used'[p[1]] < used'[p[2]]}
            = {p \in {q \in all \X all : ages[q[1]] < ages[q[2]]} :
                 p[1] \in all \ {oldest} /\ p[2] \in all \ {oldest}}
      BY <3>1
    <3>4. {p \in cached' \X cached' : used'[p[1]] < used'[p[2]]}
            = Lru!Among(Lru!Touch(k, all), all \ {oldest})
      BY <2>3, <3>3 DEF Lru!Among
    <3>5. Lru!Cardinality(all) > Capacity
      BY <2>7, SameCardinality
    <3> QED BY <3>1, <3>2, <3>4, <3>5, Zenon DEF Lru!Insert
  <2> QED BY <1>0, <2>1, <2>6, <2>7
<1>4. ASSUME NEW k \in Keys, remove(k)
      PROVE  Lru!Remove(k)
  <2>1. {p \in cached' \X cached' : used'[p[1]] < used'[p[2]]}
          = Lru!Among({p \in cached \X cached : used[p[1]] < used[p[2]]}, cached \ {k})
    BY <1>4 DEF remove, Lru!Among
  <2> QED BY <1>4, <2>1 DEF remove, Lru!Remove
<1>5. CASE clear
  BY <1>5 DEF clear, Lru!Next, Lru!Clear
<1>6. CASE UNCHANGED mapVars
  BY <1>6 DEF mapVars, Lru!vars
<1> QED BY <1>2, <1>3, <1>4, <1>5, <1>6 DEF MapNext, Lru!Next

\* RecencyMap is a least-recently-used cache: same hits, same misses, same
\* evictions, for every capacity and clock width.
THEOREM RefinesLru == MapSpec => ImplementsLru
<1>1. MapSpec => Lru!Init /\ [][Lru!Next]_(Lru!vars)
  BY MapInitRefines, MapNextRefines, CacheInvariant, PTL DEF MapSpec
<1> QED BY <1>1 DEF ImplementsLru, Lru!Spec

-----------------------------------------------------------------------------
(* Rule sets and their entries.                                            *)

\* One model's rules are one of the three things a compilation makes of them.
IsOwn(own) ==
    \/ own \in {Unrestricted, Unevaluated}
    \/ own = Restriction(own.domain, own.reads)

\* What a rule set says of each of its models.
Entries(book) == [m \in book.compiled |-> EntryOf(book, m)]

\* The instance's operators on rule sets are the ones used here.
LEMMA SameRules ==
    /\ Uncached!EmptyRules = EmptyRules
    /\ Uncached!Unevaluated = Unevaluated
    /\ \A book, m : Uncached!EntryOf(book, m) = EntryOf(book, m)
  BY DEF EmptyRules, Uncached!EmptyRules, Unevaluated, Uncached!Unevaluated, EntryOf, Uncached!EntryOf,
         Restricted, Uncached!Restricted, Restriction, Uncached!Restriction, ReadsOf, Uncached!ReadsOf,
         Unrestricted, Uncached!Unrestricted

\* What an entry is, by where a rule set holds it.
LEMMA EntryKinds ==
    ASSUME NEW book, NEW m
    PROVE  /\ m \in DOMAIN book.domains =>
                  /\ EntryOf(book, m).k = "restricted"
                  /\ EntryOf(book, m).domain = book.domains[m]
                  /\ EntryOf(book, m).reads = ReadsOf(book, m)
                  /\ EntryOf(book, m) # Unevaluated
           /\ m \notin DOMAIN book.domains =>
                  /\ EntryOf(book, m).k # "restricted"
                  /\ EntryOf(book, m) = Unevaluated <=> m \in book.unevaluated
                  /\ EntryOf(book, m) = Unrestricted <=> m \notin book.unevaluated
<1>1. CASE m \in DOMAIN book.domains
  <2>1. EntryOf(book, m) = Restriction(book.domains[m], ReadsOf(book, m))
    BY <1>1 DEF EntryOf, Restricted
  <2> QED BY <1>1, <2>1 DEF Restriction, Unevaluated
<1>2. CASE m \notin DOMAIN book.domains
  <2>1. EntryOf(book, m) = IF m \in book.unevaluated THEN Unevaluated ELSE Unrestricted
    BY <1>2 DEF EntryOf, Restricted
  <2> QED BY <1>2, <2>1 DEF Unrestricted, Unevaluated
<1> QED BY <1>1, <1>2

\* The parts of a rule set that is made of its entries.
LEMMA BookParts ==
    ASSUME NEW book, book = Uncached!Book(Entries(book))
    PROVE  /\ book = [domains |-> book.domains, reads |-> book.reads, unevaluated |-> book.unevaluated,
                      ruled |-> book.ruled, compiled |-> book.compiled]
           /\ book.ruled = RuledModels
           /\ book.domains = [m \in DOMAIN book.domains |-> book.domains[m]]
           /\ book.reads = [m \in DOMAIN book.reads |-> book.reads[m]]
           /\ DOMAIN book.domains \subseteq book.compiled
           /\ DOMAIN book.reads = {m \in DOMAIN book.domains : ReadsOf(book, m) # {}}
           /\ book.unevaluated \subseteq book.compiled
           /\ book.unevaluated \cap DOMAIN book.domains = {}
<1> DEFINE own == Entries(book)
<1>1. \A m \in book.compiled : own[m] = EntryOf(book, m)
  BY DEF Entries
<1>2. DOMAIN own = book.compiled
  BY DEF Entries
<1> HIDE DEF own
<1>3. book = Uncached!Book(own)
  BY DEF own
<1>4. book = [domains |-> [m \in {m \in DOMAIN own : own[m].k = "restricted"} |-> own[m].domain],
              reads |-> [m \in {m \in DOMAIN own : own[m].k = "restricted" /\ own[m].reads # {}} |-> own[m].reads],
              unevaluated |-> {m \in DOMAIN own : own[m] = Unevaluated},
              ruled |-> RuledModels,
              compiled |-> DOMAIN own]
  BY <1>3, SameRules DEF Uncached!Book
<1>5. /\ book.domains = [m \in {m \in DOMAIN own : own[m].k = "restricted"} |-> own[m].domain]
      /\ book.reads = [m \in {m \in DOMAIN own : own[m].k = "restricted" /\ own[m].reads # {}} |-> own[m].reads]
      /\ book.unevaluated = {m \in DOMAIN own : own[m] = Unevaluated}
      /\ book.ruled = RuledModels
  BY <1>4
<1>6. DOMAIN book.domains = {m \in book.compiled : own[m].k = "restricted"}
      /\ DOMAIN book.reads = {m \in book.compiled : own[m].k = "restricted" /\ own[m].reads # {}}
  BY <1>2, <1>5
<1>7. \A m \in DOMAIN book.domains : own[m].reads = ReadsOf(book, m)
  BY <1>1, <1>6, EntryKinds
<1>8. book.unevaluated \cap DOMAIN book.domains = {}
  BY <1>2, <1>5, <1>6 DEF Unevaluated
<1>9. book = [domains |-> book.domains, reads |-> book.reads, unevaluated |-> book.unevaluated,
              ruled |-> book.ruled, compiled |-> book.compiled]
  BY <1>4
<1>10. DOMAIN book.reads = {m \in DOMAIN book.domains : ReadsOf(book, m) # {}}
  BY <1>6, <1>7
<1>11. DOMAIN book.domains \subseteq book.compiled /\ book.unevaluated \subseteq book.compiled
  BY <1>2, <1>5, <1>6
<1>12. book.domains = [m \in DOMAIN book.domains |-> book.domains[m]] /\ book.reads = [m \in DOMAIN book.reads |-> book.reads[m]]
  BY <1>5
<1> QED BY <1>5, <1>8, <1>9, <1>10, <1>11, <1>12

\* A rule set with such parts is made of its entries.
LEMMA PartsMakeBook ==
    ASSUME NEW book,
           book = [domains |-> book.domains, reads |-> book.reads, unevaluated |-> book.unevaluated,
                   ruled |-> book.ruled, compiled |-> book.compiled],
           book.ruled = RuledModels,
           book.domains = [m \in DOMAIN book.domains |-> book.domains[m]],
           book.reads = [m \in DOMAIN book.reads |-> book.reads[m]],
           DOMAIN book.domains \subseteq book.compiled,
           DOMAIN book.reads = {m \in DOMAIN book.domains : ReadsOf(book, m) # {}},
           book.unevaluated \subseteq book.compiled,
           book.unevaluated \cap DOMAIN book.domains = {}
    PROVE  book = Uncached!Book(Entries(book))
<1> DEFINE own == Entries(book)
<1>1. \A m \in book.compiled : own[m] = EntryOf(book, m)
  BY DEF Entries
<1>2. DOMAIN own = book.compiled
  BY DEF Entries
<1> HIDE DEF own
<1>3. \A m \in book.compiled : own[m].k = "restricted" <=> m \in DOMAIN book.domains
  BY <1>1, EntryKinds
<1>4. \A m \in DOMAIN book.domains : own[m].domain = book.domains[m] /\ own[m].reads = ReadsOf(book, m)
  BY <1>1, EntryKinds
<1>5. \A m \in book.compiled : own[m] = Unevaluated <=> m \in book.unevaluated
  BY <1>1, EntryKinds
<1>6. book.domains = [m \in {m \in DOMAIN own : own[m].k = "restricted"} |-> own[m].domain]
  <2>1. {m \in DOMAIN own : own[m].k = "restricted"} = DOMAIN book.domains
    BY <1>2, <1>3
  <2> QED BY <1>4, <2>1
<1>7. book.reads = [m \in {m \in DOMAIN own : own[m].k = "restricted" /\ own[m].reads # {}} |-> own[m].reads]
  <2>1. {m \in DOMAIN own : own[m].k = "restricted" /\ own[m].reads # {}} = DOMAIN book.reads
    BY <1>2, <1>3, <1>4
  <2>2. \A m \in DOMAIN book.reads : own[m].reads = book.reads[m]
    BY <1>4 DEF ReadsOf
  <2> QED BY <2>1, <2>2
<1>8. book.unevaluated = {m \in DOMAIN own : own[m] = Unevaluated}
  BY <1>2, <1>5
<1>9. book = Uncached!Book(own)
  BY <1>2, <1>6, <1>7, <1>8, SameRules DEF Uncached!Book
<1> QED BY <1>9 DEF own

\* Adding a model's rules adds their entry, changes no other and leaves a rule set
\* that is made of its entries.
LEMMA AddedEntry ==
    ASSUME NEW book, book = Uncached!Book(Entries(book)),
           NEW m, m \notin book.compiled,
           NEW own, IsOwn(own)
    PROVE  LET more == Added(book, m, own)
           IN  /\ more.compiled = book.compiled \cup {m}
               /\ EntryOf(more, m) = own
               /\ \A x \in book.compiled : EntryOf(more, x) = EntryOf(book, x)
               /\ more = Uncached!Book(Entries(more))
<1> DEFINE more == Added(book, m, own)
           Parts(b) ==
               /\ b = [domains |-> b.domains, reads |-> b.reads, unevaluated |-> b.unevaluated,
                       ruled |-> b.ruled, compiled |-> b.compiled]
               /\ b.ruled = RuledModels
               /\ b.domains = [x \in DOMAIN b.domains |-> b.domains[x]]
               /\ b.reads = [x \in DOMAIN b.reads |-> b.reads[x]]
               /\ DOMAIN b.domains \subseteq b.compiled
               /\ DOMAIN b.reads = {x \in DOMAIN b.domains : ReadsOf(b, x) # {}}
               /\ b.unevaluated \subseteq b.compiled
               /\ b.unevaluated \cap DOMAIN b.domains = {}
           Extends ==
               /\ more.compiled = book.compiled \cup {m}
               /\ EntryOf(more, m) = own
               /\ \A x \in book.compiled : EntryOf(more, x) = EntryOf(book, x)
<1>1. Parts(book)
  BY BookParts
<1>2. ASSUME own = Unrestricted
      PROVE  Parts(more) /\ Extends
  <2>1. more = [book EXCEPT !.compiled = @ \cup {m}]
    BY <1>2 DEF Added, MarkUnrestricted
  <2>2. /\ more.domains = book.domains /\ more.reads = book.reads
        /\ more.unevaluated = book.unevaluated /\ more.ruled = book.ruled
        /\ more.compiled = book.compiled \cup {m}
        /\ more = [domains |-> more.domains, reads |-> more.reads, unevaluated |-> more.unevaluated,
                   ruled |-> more.ruled, compiled |-> more.compiled]
    BY <1>1, <2>1
  <2> HIDE DEF more
  <2>3. \A x : EntryOf(more, x) = EntryOf(book, x) /\ ReadsOf(more, x) = ReadsOf(book, x)
    BY <2>2 DEF EntryOf, Restricted, ReadsOf
  <2>4. EntryOf(book, m) = Unrestricted
    BY <1>1, EntryKinds
  <2>5. Parts(more)
    BY <1>1, <2>2, <2>3
  <2>6. Extends
    BY <1>2, <2>2, <2>3, <2>4
  <2> QED BY <2>5, <2>6
<1>3. ASSUME own = Unevaluated
      PROVE  Parts(more) /\ Extends
  <2>1. more = [book EXCEPT !.compiled = @ \cup {m}, !.unevaluated = @ \cup {m}]
    <3>1. own # Unrestricted
      BY <1>3 DEF Unrestricted, Unevaluated
    <3> QED BY <1>3, <3>1 DEF Added, MarkUnevaluated
  <2>2. /\ more.domains = book.domains /\ more.reads = book.reads
        /\ more.unevaluated = book.unevaluated \cup {m} /\ more.ruled = book.ruled
        /\ more.compiled = book.compiled \cup {m}
        /\ more = [domains |-> more.domains, reads |-> more.reads, unevaluated |-> more.unevaluated,
                   ruled |-> more.ruled, compiled |-> more.compiled]
    BY <1>1, <2>1
  <2> HIDE DEF more
  <2>3. \A x : ReadsOf(more, x) = ReadsOf(book, x)
    BY <2>2 DEF ReadsOf
  <2>4. \A x \in book.compiled : EntryOf(more, x) = EntryOf(book, x)
    BY <2>2, <2>3 DEF EntryOf, Restricted
  <2>5. EntryOf(more, m) = Unevaluated
    BY <1>1, <2>2, EntryKinds
  <2>6. Parts(more)
    BY <1>1, <2>2, <2>3
  <2>7. Extends
    BY <1>3, <2>2, <2>4, <2>5
  <2> QED BY <2>6, <2>7
<1>4. ASSUME own # Unrestricted /\ own # Unevaluated
      PROVE  Parts(more) /\ Extends
  <2>0. own = Restriction(own.domain, own.reads)
    BY <1>4 DEF IsOwn
  <2> DEFINE noted == NoteReads(book, m, own.reads)
  <2>1. more = [noted EXCEPT !.domains = Put(@, m, own.domain), !.compiled = @ \cup {m}]
    BY <1>4 DEF Added, Insert
  <2>2. /\ noted.domains = book.domains /\ noted.unevaluated = book.unevaluated
        /\ noted.ruled = book.ruled /\ noted.compiled = book.compiled
        /\ noted.reads = IF own.reads = {} THEN book.reads ELSE Put(book.reads, m, own.reads)
        /\ noted = [domains |-> noted.domains, reads |-> noted.reads, unevaluated |-> noted.unevaluated,
                    ruled |-> noted.ruled, compiled |-> noted.compiled]
    BY <1>1 DEF NoteReads
  <2> HIDE DEF noted
  <2>3. /\ more.domains = Put(book.domains, m, own.domain) /\ more.reads = noted.reads
        /\ more.unevaluated = book.unevaluated /\ more.ruled = book.ruled
        /\ more.compiled = book.compiled \cup {m}
        /\ more = [domains |-> more.domains, reads |-> more.reads, unevaluated |-> more.unevaluated,
                   ruled |-> more.ruled, compiled |-> more.compiled]
    BY <2>1, <2>2
  <2> HIDE DEF more
  <2>4. /\ DOMAIN more.domains = DOMAIN book.domains \cup {m}
        /\ more.domains[m] = own.domain
        /\ \A x \in book.compiled : x \in DOMAIN book.domains => more.domains[x] = book.domains[x]
        /\ more.domains = [x \in DOMAIN more.domains |-> more.domains[x]]
    BY <2>3 DEF Put
  <2>5. m \notin DOMAIN book.reads
    BY <1>1
  <2>6. /\ ReadsOf(more, m) = own.reads
        /\ \A x \in book.compiled : ReadsOf(more, x) = ReadsOf(book, x)
        /\ more.reads = [x \in DOMAIN more.reads |-> more.reads[x]]
        /\ DOMAIN more.reads = IF own.reads = {} THEN DOMAIN book.reads ELSE DOMAIN book.reads \cup {m}
    <3>1. CASE own.reads = {}
      BY <1>1, <2>2, <2>3, <2>5, <3>1 DEF ReadsOf
    <3>2. CASE own.reads # {}
      <4>1. more.reads = Put(book.reads, m, own.reads)
        BY <2>2, <2>3, <3>2
      <4> QED BY <3>2, <4>1 DEF ReadsOf, Put
    <3> QED BY <3>1, <3>2
  <2>7. \A x \in book.compiled : EntryOf(more, x) = EntryOf(book, x)
    BY <2>3, <2>4, <2>6 DEF EntryOf, Restricted
  <2>8. EntryOf(more, m) = own
    BY <2>0, <2>4, <2>6 DEF EntryOf, Restricted
  <2>9. DOMAIN more.reads = {x \in DOMAIN more.domains : ReadsOf(more, x) # {}}
    BY <1>1, <2>4, <2>6
  <2>10. Parts(more)
    BY <1>1, <2>3, <2>4, <2>6, <2>9
  <2>11. Extends
    BY <2>3, <2>7, <2>8
  <2> QED BY <2>10, <2>11
<1>5. Parts(more) /\ Extends
  BY <1>2, <1>3, <1>4
<1> HIDE DEF more
<1>6. more = Uncached!Book(Entries(more))
  BY <1>5, PartsMakeBook
<1>7. Extends
  BY <1>5
<1> QED BY <1>6, <1>7 DEF more

-----------------------------------------------------------------------------
(* Rule sets of an identity's own.                                         *)

\* What it is for a rule set to be an identity's own, in the terms used here.
LEMMA OwnedMeans ==
    \A user, book, open :
        Uncached!OwnedBy(user, book, open) <=>
            /\ book.compiled \subseteq Registered
            /\ book = Uncached!Book(Entries(book))
            /\ \A m \in book.compiled :
                  /\ \E r \in Requests : r.user = user /\ EntryOf(book, m) = RulesFor(r, m)
                  /\ Reach(m, EntryOf(book, m)) \subseteq book.compiled \cup open
<1> TAKE user, book, open
<1>1. [m \in book.compiled |-> Uncached!EntryOf(book, m)] = Entries(book)
  BY SameRules DEF Entries
<1>2. \A m : Uncached!EntryOf(book, m) = EntryOf(book, m)
  BY SameRules
<1> QED BY <1>1, <1>2 DEF Uncached!OwnedBy

\* The rules of no model are any identity's own.
LEMMA FreshOwned ==
    ASSUME NEW user, NEW open
    PROVE  /\ WithRuled(RuledModels).compiled = {}
           /\ Uncached!OwnedBy(user, WithRuled(RuledModels), open)
<1> DEFINE fresh == WithRuled(RuledModels)
<1>1. /\ fresh = [domains |-> fresh.domains, reads |-> fresh.reads, unevaluated |-> fresh.unevaluated,
                  ruled |-> fresh.ruled, compiled |-> fresh.compiled]
      /\ fresh.ruled = RuledModels /\ fresh.compiled = {} /\ fresh.unevaluated = {}
      /\ DOMAIN fresh.domains = {} /\ DOMAIN fresh.reads = {}
      /\ fresh.domains = [m \in DOMAIN fresh.domains |-> fresh.domains[m]]
      /\ fresh.reads = [m \in DOMAIN fresh.reads |-> fresh.reads[m]]
  <2> DEFINE none == [m \in {} |-> {}]
  <2>1. EmptyRules = [domains |-> none, reads |-> none, unevaluated |-> {}, ruled |-> {}, compiled |-> {}]
    BY DEF EmptyRules
  <2>2. fresh = [EmptyRules EXCEPT !.ruled = RuledModels]
    BY DEF WithRuled
  <2>3. DOMAIN none = {} /\ none = [m \in DOMAIN none |-> none[m]]
    OBVIOUS
  <2> HIDE DEF fresh, none
  <2>4. fresh = [domains |-> none, reads |-> none, unevaluated |-> {}, ruled |-> RuledModels, compiled |-> {}]
    BY <2>1, <2>2
  <2> QED BY <2>3, <2>4
<1> HIDE DEF fresh
<1>2. fresh = Uncached!Book(Entries(fresh))
  BY <1>1, PartsMakeBook
<1>3. Uncached!OwnedBy(user, fresh, open)
  BY <1>1, <1>2, OwnedMeans
<1> QED BY <1>1, <1>3 DEF fresh

\* What is still to be compiled may be more.
LEMMA OwnedMore ==
    ASSUME NEW user, NEW book, NEW open, NEW more, open \subseteq more,
           Uncached!OwnedBy(user, book, open)
    PROVE  Uncached!OwnedBy(user, book, more)
  BY OwnedMeans

\* One more model's rules, compiled for a request of the identity, leave a rule
\* set that is the identity's own; what they reach is still to be compiled.
LEMMA AddedOwned ==
    ASSUME NEW r \in Requests, NEW book, NEW open,
           Uncached!OwnedBy(r.user, book, open),
           NEW m \in Registered, m \notin book.compiled
    PROVE  LET own  == RulesFor(r, m)
               more == Added(book, m, own)
           IN  /\ more.compiled = book.compiled \cup {m}
               /\ Uncached!OwnedBy(r.user, more,
                      (open \ {m}) \cup (Reach(m, own) \ (book.compiled \cup {m})))
<1> DEFINE own  == RulesFor(r, m)
           more == Added(book, m, own)
           left == (open \ {m}) \cup (Reach(m, own) \ (book.compiled \cup {m}))
<1>1. IsOwn(own)
  BY CompilationAssumption DEF IsOwn
<1>2. /\ book.compiled \subseteq Registered
      /\ book = Uncached!Book(Entries(book))
      /\ \A x \in book.compiled :
            /\ \E s \in Requests : s.user = r.user /\ EntryOf(book, x) = RulesFor(s, x)
            /\ Reach(x, EntryOf(book, x)) \subseteq book.compiled \cup open
  BY OwnedMeans
<1>3. /\ more.compiled = book.compiled \cup {m}
      /\ EntryOf(more, m) = own
      /\ \A x \in book.compiled : EntryOf(more, x) = EntryOf(book, x)
      /\ more = Uncached!Book(Entries(more))
  <2> HIDE DEF own
  <2> QED BY <1>1, <1>2, AddedEntry
<1> HIDE DEF more
<1>4. ASSUME NEW x \in more.compiled
      PROVE  /\ \E s \in Requests : s.user = r.user /\ EntryOf(more, x) = RulesFor(s, x)
             /\ Reach(x, EntryOf(more, x)) \subseteq more.compiled \cup left
  <2>1. CASE x = m
    BY <1>3, <2>1
  <2>2. CASE x # m
    <3>1. x \in book.compiled /\ EntryOf(more, x) = EntryOf(book, x)
      BY <1>3, <1>4, <2>2
    <3>2. Reach(x, EntryOf(more, x)) \subseteq book.compiled \cup open
      BY <1>2, <3>1
    <3> QED BY <1>2, <1>3, <3>1, <3>2
  <2> QED BY <2>1, <2>2
<1>5. Uncached!OwnedBy(r.user, more, left)
  <2>1. more.compiled \subseteq Registered
    BY <1>2, <1>3
  <2> QED BY <1>3, <1>4, <2>1, OwnedMeans
<1> QED BY <1>3, <1>5 DEF more

-----------------------------------------------------------------------------
(* Searches: the walk and the rule cache.                                  *)

\* The walk under way: what it has compiled is its reader's own but for the models
\* still to be compiled, and with these it has all the request names.
WalkInv ==
    pc = "walk" =>
        /\ ~call.su
        /\ pending \subseteq Registered
        /\ pending \cap rules.compiled = {}
        /\ Seeds(call) \subseteq rules.compiled \cup pending
        /\ Uncached!OwnedBy(call.user, rules, pending)

\* What is kept of an identity is its own and whole.
CacheInv == \A user \in DOMAIN cache : Uncached!OwnedBy(user, cache[user], {})

\* What the refinement rests on: where the kernel is, what it serves, and that what
\* it has compiled and kept is whole.
SearchInv ==
    /\ pc \in {"idle", "walk", "search", "answered"}
    /\ pc = "idle" => call = NoCall /\ answer = NoAnswer
    /\ pc # "idle" => call \in Requests
    /\ pc \in {"walk", "search"} => Admit(call) = "ok" /\ answer = NoAnswer
    /\ pc = "search" => Uncached!Serves(call, rules)
    /\ WalkInv
    /\ CacheInv

\* A kernel starts idle, with nothing cached.
LEMMA SearchInitInv == Init => SearchInv
  BY DEF Init, SearchInv, WalkInv, CacheInv

\* What it is for rules to serve a request, in the terms used here.
LEMMA ServesMeans ==
    \A r, book : Uncached!Serves(r, book) <=>
        IF r.su THEN book = EmptyRules
        ELSE Uncached!OwnedBy(r.user, book, {}) /\ Seeds(r) \subseteq book.compiled
  BY SameRules DEF Uncached!Serves

\* Every step keeps the walk's rules whole but for what is pending, and the cached
\* ones whole: a walk starts from whole rules or none, compiling a model adds what
\* its rules reach to what is pending, and only a walk that ended is published.
LEMMA SearchNextInv == SearchInv /\ [Next]_vars => SearchInv'
<1> SUFFICES ASSUME SearchInv, [Next]_vars
             PROVE  SearchInv'
  OBVIOUS
<1>1. ASSUME NEW r \in Requests, Receive(r)
      PROVE  SearchInv'
  <2> DEFINE base == IF Cached(r.user) THEN cache[r.user] ELSE WithRuled(RuledModels)
             need == Wanting(r, base)
  <2>1. pc = "idle" /\ call' = r /\ UNCHANGED cache /\ answer = NoAnswer
    BY <1>1 DEF Receive, SearchInv
  <2>2. CacheInv'
    BY <2>1 DEF SearchInv, CacheInv
  <2>3. Uncached!OwnedBy(r.user, base, {})
    BY FreshOwned DEF Cached, SearchInv, CacheInv
  <2>4. Seeds(r) \subseteq Registered /\ need = Seeds(r) \ base.compiled
    BY CompilationAssumption DEF Wanting
  <2>5. CASE Admit(r) # "ok"
    <3>1. pc' = "answered"
      BY <1>1, <2>5 DEF Receive
    <3> QED BY <2>1, <2>2, <3>1 DEF SearchInv, WalkInv
  <2>6. CASE Admit(r) = "ok"
    <3>1. /\ pc' = IF r.su \/ need = {} THEN "search" ELSE "walk"
          /\ rules' = IF r.su THEN EmptyRules ELSE base
          /\ pending' = IF r.su THEN {} ELSE need
          /\ answer' = answer
      BY <1>1, <2>6 DEF Receive
    <3> HIDE DEF base, need
    <3>2. CASE r.su
      <4>1. pc' = "search" /\ rules' = EmptyRules
        BY <3>1, <3>2
      <4>2. Uncached!Serves(call', rules')
        BY <2>1, <3>2, <4>1, ServesMeans
      <4> QED BY <2>1, <2>2, <2>6, <3>1, <4>1, <4>2 DEF SearchInv, WalkInv
    <3>3. CASE ~r.su /\ need = {}
      <4>1. pc' = "search" /\ rules' = base
        BY <3>1, <3>3
      <4>2. Uncached!Serves(call', rules')
        BY <2>1, <2>3, <2>4, <3>3, <4>1, ServesMeans
      <4> QED BY <2>1, <2>2, <2>6, <3>1, <4>1, <4>2 DEF SearchInv, WalkInv
    <3>4. CASE ~r.su /\ need # {}
      <4>1. pc' = "walk" /\ rules' = base /\ pending' = need
        BY <3>1, <3>4
      <4>2. Uncached!OwnedBy(r.user, base, need)
        BY <2>3, OwnedMore
      <4>3. WalkInv'
        BY <2>1, <2>4, <3>4, <4>1, <4>2 DEF WalkInv
      <4> QED BY <2>1, <2>2, <2>6, <3>1, <4>1, <4>3 DEF SearchInv
    <3> QED BY <3>2, <3>3, <3>4
  <2> QED BY <2>5, <2>6
<1>2. CASE CompileModel
  <2> DEFINE m   == CHOOSE m \in pending : TRUE
             own == RulesFor(call, m)
  <2>1. /\ pc = "walk" /\ pending # {}
        /\ rules' = Added(rules, m, own)
        /\ pending' = (pending \ {m}) \cup (Reach(m, own) \ (rules.compiled \cup {m}))
        /\ UNCHANGED <<cache, pc, call, answer>>
    BY <1>2 DEF CompileModel, LeftPending
  <2>2. m \in pending
    BY <2>1
  <2> HIDE DEF m
  <2>3. /\ call \in Requests /\ ~call.su /\ m \in Registered /\ m \notin rules.compiled
        /\ Seeds(call) \subseteq rules.compiled \cup pending
        /\ Uncached!OwnedBy(call.user, rules, pending)
        /\ pending \subseteq Registered /\ pending \cap rules.compiled = {}
    BY <2>1, <2>2 DEF SearchInv, WalkInv
  <2>4. /\ rules'.compiled = rules.compiled \cup {m}
        /\ Uncached!OwnedBy(call.user, rules', pending')
    <3>1. /\ Added(rules, m, own).compiled = rules.compiled \cup {m}
          /\ Uncached!OwnedBy(call.user, Added(rules, m, own),
                (pending \ {m}) \cup (Reach(m, own) \ (rules.compiled \cup {m})))
      BY <2>3, AddedOwned
    <3> QED BY <2>1, <3>1
  <2>5. Reach(m, own) \subseteq Registered
    BY <2>3, CompilationAssumption
  <2>6. WalkInv'
    <3>1. pending' \subseteq Registered /\ pending' \cap rules'.compiled = {}
      BY <2>1, <2>3, <2>4, <2>5
    <3>2. Seeds(call') \subseteq rules'.compiled \cup pending'
      BY <2>1, <2>2, <2>3, <2>4
    <3> QED BY <2>1, <2>3, <2>4, <3>1, <3>2 DEF WalkInv
  <2>7. CacheInv'
    BY <2>1 DEF SearchInv, CacheInv
  <2> QED BY <2>1, <2>6, <2>7 DEF SearchInv
<1>3. CASE StatementFails
  <2>1. pc = "walk" /\ pc' = "answered" /\ UNCHANGED <<cache, call>>
    BY <1>3 DEF StatementFails
  <2>2. CacheInv'
    BY <2>1 DEF SearchInv, CacheInv
  <2> QED BY <2>1, <2>2 DEF SearchInv, WalkInv
<1>4. CASE Publish
  <2>1. /\ pc = "walk" /\ pending = {} /\ pc' = "search"
        /\ cache' = Put(cache, call.user, rules)
        /\ UNCHANGED <<call, rules, pending, answer>>
    BY <1>4 DEF Publish
  <2>2. /\ call \in Requests /\ ~call.su /\ Admit(call) = "ok" /\ answer = NoAnswer
        /\ Uncached!OwnedBy(call.user, rules, {}) /\ Seeds(call) \subseteq rules.compiled
    BY <2>1 DEF SearchInv, WalkInv
  <2>3. Uncached!Serves(call', rules')
    BY <2>1, <2>2, ServesMeans
  <2>4. /\ DOMAIN cache' = DOMAIN cache \cup {call.user}
        /\ \A user \in DOMAIN cache' : cache'[user] = IF user = call.user THEN rules ELSE cache[user]
    BY <2>1 DEF Put
  <2>5. CacheInv'
    BY <2>2, <2>4 DEF SearchInv, CacheInv
  <2> QED BY <2>1, <2>2, <2>3, <2>5 DEF SearchInv, WalkInv
<1>5. CASE Search
  <2>1. pc = "search" /\ pc' = "answered" /\ UNCHANGED <<cache, call>>
    BY <1>5 DEF Search
  <2>2. CacheInv'
    BY <2>1 DEF SearchInv, CacheInv
  <2> QED BY <2>1, <2>2 DEF SearchInv, WalkInv
<1>6. CASE Return
  <2>1. pc' = "idle" /\ call' = NoCall /\ answer' = NoAnswer /\ UNCHANGED cache
    BY <1>6 DEF Return
  <2>2. CacheInv'
    BY <2>1 DEF SearchInv, CacheInv
  <2> QED BY <2>1, <2>2 DEF SearchInv, WalkInv
<1>7. CASE UNCHANGED vars
  <2>1. UNCHANGED <<cache, pc, call, rules, pending, answer>>
    BY <1>7 DEF vars
  <2>2. CacheInv' /\ WalkInv'
    BY <2>1 DEF SearchInv, CacheInv, WalkInv
  <2> QED BY <2>1, <2>2 DEF SearchInv
<1> QED BY <1>1, <1>2, <1>3, <1>4, <1>5, <1>6, <1>7 DEF Next

\* The invariant holds throughout.
LEMMA SearchInvariant == Spec => []SearchInv
  BY SearchInitInv, SearchNextInv, PTL DEF Spec

\* What is cached for an identity is that identity's own and wants nothing it
\* reaches, whichever requests compiled it and in whatever order, for every
\* registry and every policy (Orm::identity_rules).
THEOREM CacheIsWhole == Spec => []CachedRulesFresh
<1>1. SearchInv => CachedRulesFresh
  BY DEF SearchInv, CacheInv, CachedRulesFresh
<1> QED BY <1>1, SearchInvariant, PTL

-----------------------------------------------------------------------------
(* Searches: the refinement.                                               *)

\* A kernel that starts with nothing cached starts as one without a cache.
LEMMA SearchInitRefines == Init => Uncached!Init
  BY SameRules DEF Init, Uncached!Init

\* A step of the kernel is a step of one without a cache: the walk is no step of
\* its, and what ends the walk receives the request.
LEMMA SearchNextRefines == SearchInv /\ SearchInv' /\ [Next]_vars => [Uncached!Next]_(Uncached!vars)
<1> SUFFICES ASSUME SearchInv, SearchInv', [Next]_vars
             PROVE  [Uncached!Next]_(Uncached!vars)
  OBVIOUS
<1>1. ASSUME NEW r \in Requests, Receive(r)
      PROVE  [Uncached!Next]_(Uncached!vars)
  <2>1. pc = "idle" /\ call = NoCall /\ call' = r
    BY <1>1 DEF Receive, SearchInv
  <2>2. CASE Admit(r) # "ok"
    <3>1. pc' = "answered" /\ answer' = TurnedAway(Admit(r)) /\ UNCHANGED rules
      BY <1>1, <2>2 DEF Receive
    <3>2. Uncached!TurnAway
      BY <2>1, <2>2, <3>1 DEF Uncached!TurnAway, Uncached!Receive
    <3> QED BY <3>2 DEF Uncached!Next
  <2>3. CASE Admit(r) = "ok"
    <3>1. pc' \in {"search", "walk"} /\ UNCHANGED answer
      BY <1>1, <2>3 DEF Receive
    <3>2. CASE pc' = "search"
      <4>1. Uncached!Serves(call', rules')
        BY <3>2 DEF SearchInv
      <4>2. Uncached!Take
        BY <2>1, <2>3, <3>1, <3>2, <4>1 DEF Uncached!Take, Uncached!Receive
      <4> QED BY <4>2 DEF Uncached!Next
    <3>3. CASE pc' = "walk"
      BY <2>1, <3>1, <3>3 DEF Uncached!vars
    <3> QED BY <3>1, <3>2, <3>3
  <2> QED BY <2>2, <2>3
<1>2. CASE CompileModel
  <2>1. pc = "walk" /\ UNCHANGED <<pc, call, answer>>
    BY <1>2 DEF CompileModel
  <2> QED BY <2>1 DEF Uncached!vars
<1>3. CASE StatementFails
  <2>1. /\ pc = "walk" /\ pc' = "answered" /\ answer' = TurnedAway("failed")
        /\ UNCHANGED <<call, rules>>
    BY <1>3 DEF StatementFails
  <2>2. call \in Requests /\ Admit(call) = "ok" /\ ~call.su
    BY <2>1 DEF SearchInv, WalkInv
  <2>3. Uncached!Fail
    BY <2>1, <2>2 DEF Uncached!Fail, Uncached!Receive
  <2> QED BY <2>3 DEF Uncached!Next
<1>4. CASE Publish
  <2>1. pc = "walk" /\ pc' = "search" /\ UNCHANGED <<call, rules, answer>>
    BY <1>4 DEF Publish
  <2>2. call \in Requests /\ Admit(call) = "ok"
    BY <2>1 DEF SearchInv
  <2>3. Uncached!Serves(call', rules')
    BY <2>1 DEF SearchInv
  <2>4. Uncached!Take
    BY <2>1, <2>2, <2>3 DEF Uncached!Take, Uncached!Receive
  <2> QED BY <2>4 DEF Uncached!Next
<1>5. CASE Search
  <2>1. /\ pc = "search" /\ pc' = "answered" /\ answer' = Reply(call, rules)
        /\ UNCHANGED <<call, rules>>
    BY <1>5 DEF Search
  <2>2. Uncached!Search
    BY <2>1, SameRules DEF Uncached!Search
  <2> QED BY <2>2 DEF Uncached!Next
<1>6. CASE Return
  <2>1. pc = "answered" /\ pc' = "idle" /\ call' = NoCall /\ answer' = NoAnswer
    BY <1>6 DEF Return
  <2>2. Uncached!Return
    BY <2>1 DEF Uncached!Return
  <2> QED BY <2>2 DEF Uncached!Next
<1>7. CASE UNCHANGED vars
  BY <1>7 DEF vars, Uncached!vars
<1> QED BY <1>1, <1>2, <1>3, <1>4, <1>5, <1>6, <1>7 DEF Next

\* The kernel behind its cache is one that keeps nothing between requests, for
\* every registry, every policy and every sequence of requests
\* (Orm::identity_rules, Orm::uid_rules).
THEOREM RefinesUncached == Spec => ImplementsUncached
<1>1. Spec => Uncached!Init /\ [][Uncached!Next]_(Uncached!vars)
  BY SearchInitRefines, SearchNextRefines, SearchInvariant, PTL DEF Spec
<1> QED BY <1>1 DEF ImplementsUncached, Uncached!Spec

=============================================================================
