---------------------------- MODULE HttpPool_proofs ----------------------------
(***************************************************************************)
(* The pool's slots are conserved, for any finite set of tasks and any     *)
(* size: free list, semaphore and leases agree wherever a task is dropped, *)
(* and the pop after an acquire always finds a connection.                 *)
(*                                                                         *)
(* Why it holds: what a task owns is said by where it stands.  It owns a   *)
(* permit from the acquire until it is added back, and a connection from   *)
(* the pop until the push, which lies within.                              *)
(***************************************************************************)
EXTENDS HttpPool, SequenceTheorems, FiniteSetTheorems, TLAPS

-----------------------------------------------------------------------------
(* Sequences.                                                              *)

\* What SubSeqProperties says of a slice that lies within its sequence.
LEMMA SliceSeq ==
    ASSUME NEW S, NEW s \in Seq(S), NEW a \in Nat \ {0}, NEW b \in Nat, a <= b + 1, b <= Len(s)
    PROVE  /\ SubSeq(s, a, b) \in Seq(S) /\ Len(SubSeq(s, a, b)) = b + 1 - a
           /\ \A i \in 1..(b + 1 - a) : SubSeq(s, a, b)[i] = s[a - 1 + i]
<1>1. Len(s) \in Nat /\ DOMAIN s = 1..Len(s)
    BY LenProperties
<1>2. \A i \in a..b : s[i] \in S
    BY <1>1, ElementOfSeq
<1>3. /\ SubSeq(s, a, b) \in Seq(S)
      /\ Len(SubSeq(s, a, b)) = IF a <= b THEN b - a + 1 ELSE 0
      /\ \A i \in 1..(b - a + 1) : SubSeq(s, a, b)[i] = s[a + i - 1]
    BY <1>2, SubSeqProperties
<1>4. b - a + 1 = b + 1 - a /\ \A i \in Int : a + i - 1 = a - 1 + i
    OBVIOUS
<1>5. (IF a <= b THEN b - a + 1 ELSE 0) = b + 1 - a
    OBVIOUS
<1>6. Len(SubSeq(s, a, b)) = b + 1 - a
  <2> DEFINE size == IF a <= b THEN b - a + 1 ELSE 0
  <2>1. Len(SubSeq(s, a, b)) = size
      BY <1>3
  <2>2. size = b + 1 - a
      BY <1>5
  <2> HIDE DEF size
  <2> QED BY <2>1, <2>2
<1>7. ASSUME NEW i \in 1..(b + 1 - a) PROVE SubSeq(s, a, b)[i] = s[a - 1 + i]
  <2>1. i \in 1..(b - a + 1) /\ a + i - 1 = a - 1 + i
      BY <1>4
  <2> QED BY <1>3, <2>1
<1> QED BY <1>3, <1>6, <1>7

\* The first elements of a sequence.
LEMMA PrefixSeq ==
    ASSUME NEW S, NEW s \in Seq(S), NEW n \in Nat, n <= Len(s)
    PROVE  /\ SubSeq(s, 1, n) \in Seq(S) /\ Len(SubSeq(s, 1, n)) = n
           /\ \A i \in 1..n : SubSeq(s, 1, n)[i] = s[i]
<1> DEFINE first == SubSeq(s, 1, n)
<1>1. 1 \in Nat \ {0} /\ 1 <= n + 1 /\ n + 1 - 1 = n
    OBVIOUS
<1>2. /\ first \in Seq(S) /\ Len(first) = n + 1 - 1
      /\ \A i \in 1..(n + 1 - 1) : first[i] = s[1 - 1 + i]
    BY <1>1, SliceSeq
<1>3. \A i \in 1..n : 1 - 1 + i = i
    OBVIOUS
<1> HIDE DEF first
<1>4. first \in Seq(S) /\ Len(first) = n /\ \A i \in 1..n : first[i] = s[i]
    BY <1>1, <1>2, <1>3
<1> QED BY <1>4 DEF first

\* Taking one element out shifts those behind it.
LEMMA RemoveAtSeq ==
    ASSUME NEW S, NEW s \in Seq(S), NEW k \in 1..Len(s)
    PROVE  /\ RemoveAt(s, k) \in Seq(S) /\ Len(RemoveAt(s, k)) = Len(s) - 1
           /\ DOMAIN RemoveAt(s, k) = 1..(Len(s) - 1)
           /\ \A i \in 1..(Len(s) - 1) : RemoveAt(s, k)[i] = IF i < k THEN s[i] ELSE s[i + 1]
<1> DEFINE n == Len(s)
<1>1. n \in Nat /\ DOMAIN s = 1..n
    BY LenProperties
<1>2. RemoveAt(s, k) = SubSeq(s, 1, k - 1) \o SubSeq(s, k + 1, n)
    BY DEF RemoveAt
<1> DEFINE before == SubSeq(s, 1, k - 1)
           after  == SubSeq(s, k + 1, n)
<1>3. \A i \in 1..n : s[i] \in S
    BY ElementOfSeq
<1> HIDE DEF n
<1>4. /\ before \in Seq(S) /\ Len(before) = k - 1
      /\ \A i \in 1..(k - 1) : before[i] = s[i]
  <2>1. k - 1 \in Nat /\ k - 1 <= Len(s)
      BY <1>1 DEF n
  <2> QED BY <2>1, PrefixSeq
<1>5. /\ after \in Seq(S) /\ Len(after) = n - k
      /\ \A i \in 1..(n - k) : after[i] = s[k + i]
  <2>1. /\ k + 1 \in Nat \ {0} /\ n \in Nat /\ k + 1 <= n + 1
        /\ n + 1 - (k + 1) = n - k
      BY <1>1
  <2>4. n <= Len(s)
      BY <1>1 DEF n
  <2>2. /\ after \in Seq(S) /\ Len(after) = n + 1 - (k + 1)
        /\ \A i \in 1..(n + 1 - (k + 1)) : after[i] = s[k + 1 - 1 + i]
      BY <2>1, <2>4, SliceSeq
  <2>3. \A i \in 1..(n - k) : k + 1 - 1 + i = k + i
      BY <1>1
  <2> HIDE DEF after
  <2> QED BY <2>1, <2>2, <2>3
<1>6. /\ RemoveAt(s, k) \in Seq(S) /\ Len(RemoveAt(s, k)) = n - 1
      /\ \A i \in 1..(n - 1) : RemoveAt(s, k)[i] = IF i < k THEN s[i] ELSE s[i + 1]
  <2>1. /\ RemoveAt(s, k) \in Seq(S) /\ Len(RemoveAt(s, k)) = Len(before) + Len(after)
        /\ \A i \in 1..(Len(before) + Len(after)) :
               RemoveAt(s, k)[i] = IF i <= Len(before) THEN before[i] ELSE after[i - Len(before)]
      BY <1>2, <1>4, <1>5, ConcatProperties
  <2> HIDE DEF before, after
  <2>2. Len(before) + Len(after) = n - 1
      BY <1>1, <1>4, <1>5
  <2>3. ASSUME NEW i \in 1..(n - 1)
        PROVE  RemoveAt(s, k)[i] = IF i < k THEN s[i] ELSE s[i + 1]
    <3>1. RemoveAt(s, k)[i] = IF i <= Len(before) THEN before[i] ELSE after[i - Len(before)]
        BY <2>1, <2>2
    <3>2. CASE i < k
      <4>1. i <= Len(before) /\ i \in 1..(k - 1)
          BY <1>1, <1>4, <3>2
      <4> QED BY <1>4, <3>1, <3>2, <4>1
    <3>3. CASE ~(i < k)
      <4>1. ~(i <= Len(before)) /\ i - Len(before) \in 1..(n - k) /\ k + (i - Len(before)) = i + 1
          BY <1>1, <1>4, <3>3
      <4> QED BY <1>5, <3>1, <3>3, <4>1
    <3> QED BY <3>2, <3>3
  <2> QED BY <2>1, <2>2, <2>3
<1>7. DOMAIN RemoveAt(s, k) = 1..(n - 1)
    BY <1>6, LenProperties
<1> QED BY <1>6, <1>7 DEF n

-----------------------------------------------------------------------------

Leasing == {"connect", "leased", "run", "failed", "release"}
Holding == {"pop", "connect", "leased", "run", "failed", "release", "add_permit"}

Waiting(q) == \E i \in DOMAIN waiters : waiters[i] = q

\* The reasons: a lease belongs to the places between pop and push, and whoever
\* waits is in the queue.
PlacesInv ==
    /\ \A r \in Requests : lease[r] # NoConn <=> pc[r] \in Leasing
    /\ \A r \in Requests : pc[r] = "wait" => Waiting(r)

PoolInv == TypeOK /\ PlacesInv /\ NoSlotLost /\ OneOwner

-----------------------------------------------------------------------------
(* Counting.                                                               *)

LEMMA AtFinite == \A labels : IsFiniteSet(At(labels)) /\ Cardinality(At(labels)) \in Nat
<1> TAKE labels
<1>1. At(labels) \in SUBSET Requests
    BY DEF At
<1> QED BY <1>1, RequestsAssumption, FS_Subset, FS_CardinalityType

LEMMA LeasedFinite == IsFiniteSet(Leased) /\ Cardinality(Leased) \in Nat
<1>1. Leased \in SUBSET Requests
    BY DEF Leased
<1> QED BY <1>1, RequestsAssumption, FS_Subset, FS_CardinalityType

\* A step of one task changes a count of places by what it leaves and enters.
LEMMA AtStep ==
    ASSUME NEW labels, NEW r \in Requests, NEW label,
           pc \in [Requests -> Labels], Goto(r, label)
    PROVE  Cardinality(At(labels)') = Cardinality(At(labels))
               + (IF label \in labels THEN 1 ELSE 0) - (IF pc[r] \in labels THEN 1 ELSE 0)
<1> DEFINE others == At(labels) \ {r}
<1>1. IsFiniteSet(At(labels)) /\ Cardinality(At(labels)) \in Nat
    BY AtFinite
<1>2. /\ IsFiniteSet(others)
      /\ Cardinality(others) = IF r \in At(labels) THEN Cardinality(At(labels)) - 1
                               ELSE Cardinality(At(labels))
    BY <1>1, FS_RemoveElement
<1>3. r \in At(labels) <=> pc[r] \in labels
    BY DEF At
<1>4. At(labels)' = IF label \in labels THEN others \cup {r} ELSE others
    BY DEF At, Goto
<1>5. r \notin others
    OBVIOUS
<1>6. Cardinality(others \cup {r}) = Cardinality(others) + 1
    BY <1>2, <1>5, FS_AddElement
<1>7. Cardinality(others) \in Nat
    BY <1>2, FS_CardinalityType
<1> HIDE DEF others
<1> QED BY <1>1, <1>2, <1>3, <1>4, <1>6, <1>7

\* Taking a lease adds one, giving it back removes one.
LEMMA LeasedStep ==
    ASSUME NEW r \in Requests, NEW c, lease \in [Requests -> Conns \cup {NoConn}],
           lease' = [lease EXCEPT ![r] = c]
    PROVE  Cardinality(Leased') = Cardinality(Leased)
               + (IF c # NoConn THEN 1 ELSE 0) - (IF lease[r] # NoConn THEN 1 ELSE 0)
<1> DEFINE others == Leased \ {r}
<1>1. IsFiniteSet(Leased) /\ Cardinality(Leased) \in Nat
    BY LeasedFinite
<1>2. /\ IsFiniteSet(others)
      /\ Cardinality(others) = IF r \in Leased THEN Cardinality(Leased) - 1
                               ELSE Cardinality(Leased)
    BY <1>1, FS_RemoveElement
<1>3. r \in Leased <=> lease[r] # NoConn
    BY DEF Leased
<1>4. Leased' = IF c # NoConn THEN others \cup {r} ELSE others
    BY DEF Leased
<1>5. r \notin others
    OBVIOUS
<1>6. Cardinality(others \cup {r}) = Cardinality(others) + 1
    BY <1>2, <1>5, FS_AddElement
<1>7. Cardinality(others) \in Nat
    BY <1>2, FS_CardinalityType
<1> HIDE DEF others
<1> QED BY <1>1, <1>2, <1>3, <1>4, <1>6, <1>7

\* The permits out are those of tasks at the pop, with a lease, and about to be
\* added back; so those at the pop find their connections in the free list.
LEMMA PermitsSuffice == PoolInv => PermitGuaranteesConnection
<1> SUFFICES ASSUME PoolInv PROVE PermitGuaranteesConnection
    OBVIOUS
<1>1. Leased = At(Leasing)
    BY DEF PoolInv, PlacesInv, Leased, At
<1>2. At(Leasing) \cap At({"pop"}) = {}
    BY DEF At, Leasing
<1>3. Cardinality(At(Leasing) \cup At({"pop"})) = Cardinality(At(Leasing)) + Cardinality(At({"pop"}))
  <2>1. Cardinality({}) = 0
      BY FS_EmptySet
  <2>2. IsFiniteSet(At(Leasing)) /\ Cardinality(At(Leasing)) \in Nat
      BY AtFinite
  <2>3. IsFiniteSet(At({"pop"})) /\ Cardinality(At({"pop"})) \in Nat
      BY AtFinite
  <2>4. Cardinality(At(Leasing) \cup At({"pop"})) =
            Cardinality(At(Leasing)) + Cardinality(At({"pop"})) - Cardinality(At(Leasing) \cap At({"pop"}))
      BY <2>2, <2>3, FS_Union
  <2>5. Cardinality(At(Leasing) \cap At({"pop"})) = 0
      BY <1>2, <2>1, Zenon
  <2> QED BY <2>2, <2>3, <2>4, <2>5
<1>4. At(Leasing) \cup At({"pop"}) \in SUBSET At(Holding)
    BY DEF At, Leasing, Holding
<1>5. Cardinality(At(Leasing) \cup At({"pop"})) <= Cardinality(At(Holding))
    BY <1>4, AtFinite, FS_Subset
<1>6. /\ Len(free) + Cardinality(At(Leasing)) = Size
      /\ permits + Cardinality(At(Holding)) = Size
    BY <1>1 DEF PoolInv, NoSlotLost, Holding
<1>7. /\ Cardinality(At(Leasing)) \in Nat /\ Cardinality(At({"pop"})) \in Nat
      /\ Cardinality(At(Holding)) \in Nat /\ Len(free) \in Nat /\ permits \in Nat
    BY AtFinite, LenProperties DEF PoolInv, TypeOK
<1> QED BY <1>3, <1>5, <1>6, <1>7, SizeAssumption DEF PermitGuaranteesConnection

-----------------------------------------------------------------------------
(* The free list.                                                          *)

\* Popping an injective sequence leaves one without the popped element.
LEMMA PopSeq ==
    ASSUME NEW S, NEW s \in Seq(S), s # <<>>, IsInjective(s)
    PROVE  /\ Front(s) \in Seq(S) /\ Len(Front(s)) = Len(s) - 1
           /\ IsInjective(Front(s))
           /\ Last(s) \in S
           /\ ToSet(Front(s)) \subseteq ToSet(s)
           /\ Last(s) \in ToSet(s) /\ Last(s) \notin ToSet(Front(s))
<1> DEFINE n == Len(s)
<1>1. n \in Nat \ {0} /\ DOMAIN s = 1..n
    BY EmptySeq, LenProperties
<1>2. \A i \in 1..n : s[i] \in S
    BY ElementOfSeq
<1> HIDE DEF n
<1>3. /\ Front(s) \in Seq(S) /\ Len(Front(s)) = n - 1
      /\ \A i \in 1..(n - 1) : Front(s)[i] = s[i]
  <2>1. n - 1 \in Nat /\ n - 1 <= Len(s) /\ Front(s) = SubSeq(s, 1, n - 1)
      BY <1>1 DEF Front, n
  <2> QED BY <2>1, PrefixSeq
<1>4. Len(Front(s)) = n - 1
    BY <1>3
<1>5. DOMAIN Front(s) = 1..(n - 1)
    BY <1>3, LenProperties
<1>6. \A i \in 1..(n - 1) : Front(s)[i] = s[i]
    BY <1>3
<1>7. IsInjective(Front(s))
    BY <1>1, <1>5, <1>6 DEF IsInjective
<1>8. ToSet(Front(s)) \subseteq ToSet(s)
    BY <1>1, <1>5, <1>6 DEF ToSet
<1>9. Last(s) \in S /\ Last(s) \in ToSet(s)
    BY <1>1, <1>2 DEF Last, ToSet, n
<1>10. Last(s) \notin ToSet(Front(s))
    BY <1>1, <1>5, <1>6 DEF Last, ToSet, IsInjective, n
<1> QED BY <1>3, <1>7, <1>8, <1>9, <1>10 DEF n

\* Pushing what is not there keeps the sequence injective.
LEMMA PushSeq ==
    ASSUME NEW S, NEW s \in Seq(S), NEW e \in S, IsInjective(s), e \notin ToSet(s)
    PROVE  /\ Append(s, e) \in Seq(S) /\ Len(Append(s, e)) = Len(s) + 1
           /\ IsInjective(Append(s, e))
           /\ ToSet(Append(s, e)) \subseteq ToSet(s) \cup {e}
<1>1. Len(s) \in Nat /\ DOMAIN s = 1..Len(s)
    BY LenProperties
<1>2. /\ Append(s, e) \in Seq(S) /\ Len(Append(s, e)) = Len(s) + 1
      /\ \A i \in 1..Len(s) : Append(s, e)[i] = s[i]
      /\ Append(s, e)[Len(s) + 1] = e
    BY AppendProperties
<1>3. DOMAIN Append(s, e) = 1..(Len(s) + 1)
    BY <1>2, LenProperties
<1>4. \A i \in 1..(Len(s) + 1) : i \in 1..Len(s) \/ i = Len(s) + 1
    BY <1>1
<1>5. IsInjective(Append(s, e))
    BY <1>1, <1>2, <1>3, <1>4 DEF IsInjective, ToSet
<1>6. ToSet(Append(s, e)) \subseteq ToSet(s) \cup {e}
    BY <1>1, <1>2, <1>3, <1>4 DEF ToSet
<1> QED BY <1>2, <1>5, <1>6

-----------------------------------------------------------------------------
(* The queue.                                                              *)

\* Joining the queue forgets nobody.
LEMMA JoinQueue ==
    ASSUME waiters \in Seq(Requests), NEW r \in Requests, waiters' = Append(waiters, r)
    PROVE  /\ waiters' \in Seq(Requests) /\ Waiting(r)'
           /\ \A q \in Requests : Waiting(q) => Waiting(q)'
<1>1. Len(waiters) \in Nat /\ DOMAIN waiters = 1..Len(waiters)
    BY LenProperties
<1>2. /\ waiters' \in Seq(Requests) /\ Len(waiters') = Len(waiters) + 1
      /\ \A i \in 1..Len(waiters) : waiters'[i] = waiters[i]
      /\ waiters'[Len(waiters) + 1] = r
    BY AppendProperties
<1>3. DOMAIN waiters' = 1..(Len(waiters) + 1)
    BY <1>2, LenProperties
<1> QED BY <1>1, <1>2, <1>3 DEF Waiting

\* The head of the queue leaves it alone.
LEMMA ServeQueue ==
    ASSUME waiters \in Seq(Requests), waiters # <<>>, waiters' = Tail(waiters)
    PROVE  /\ waiters' \in Seq(Requests)
           /\ \A q \in Requests : Waiting(q) /\ q # Head(waiters) => Waiting(q)'
<1>1. Len(waiters) \in Nat \ {0} /\ DOMAIN waiters = 1..Len(waiters)
    BY EmptySeq, LenProperties
<1>2. /\ waiters' \in Seq(Requests) /\ Len(waiters') = Len(waiters) - 1
      /\ \A i \in 1..Len(waiters') : waiters'[i] = waiters[i + 1]
    BY HeadTailProperties
<1>3. DOMAIN waiters' = 1..Len(waiters')
    BY <1>2, LenProperties
<1>4. Head(waiters) = waiters[1]
    BY <1>1
<1>5. ASSUME NEW q \in Requests, Waiting(q), q # Head(waiters) PROVE Waiting(q)'
  <2>1. PICK i \in 1..Len(waiters) : waiters[i] = q
      BY <1>1, <1>5 DEF Waiting
  <2>2. i # 1
      BY <1>4, <1>5, <2>1
  <2>3. i - 1 \in DOMAIN waiters' /\ waiters'[i - 1] = q
      BY <1>1, <1>2, <1>3, <2>1, <2>2
  <2> QED BY <2>3 DEF Waiting
<1> QED BY <1>2, <1>5

\* So does a task that is dropped from the middle of it.
LEMMA LeaveQueue ==
    ASSUME waiters \in Seq(Requests), NEW r \in Requests, Leave(r)
    PROVE  /\ waiters' \in Seq(Requests)
           /\ \A q \in Requests : Waiting(q) /\ q # r => Waiting(q)'
<1> DEFINE n == Len(waiters)
<1>1. n \in Nat /\ DOMAIN waiters = 1..n
    BY LenProperties
<1>2. PICK k \in 1..n : waiters[k] = r /\ waiters' = RemoveAt(waiters, k)
    BY <1>1 DEF Leave
<1>3. /\ waiters' \in Seq(Requests)
      /\ \A i \in 1..(n - 1) : waiters'[i] = IF i < k THEN waiters[i] ELSE waiters[i + 1]
      /\ DOMAIN waiters' = 1..(n - 1)
    BY <1>2, RemoveAtSeq
<1> HIDE DEF n
<1>4. DOMAIN waiters' = 1..(n - 1)
    BY <1>3
<1>5. ASSUME NEW q \in Requests, Waiting(q), q # r PROVE Waiting(q)'
  <2>1. PICK i \in 1..n : waiters[i] = q
      BY <1>1, <1>5 DEF Waiting
  <2>2. i # k
      BY <1>2, <1>5, <2>1
  <2>3. CASE i < k
    <3>1. i \in 1..(n - 1) /\ waiters'[i] = q
        BY <1>1, <1>3, <2>1, <2>3
    <3> QED BY <1>4, <3>1 DEF Waiting
  <2>4. CASE i > k
    <3>1. i - 1 \in 1..(n - 1) /\ ~(i - 1 < k) /\ i - 1 + 1 = i
        BY <1>1, <2>1, <2>4
    <3>2. waiters'[i - 1] = q
        BY <1>3, <2>1, <3>1
    <3> QED BY <1>4, <3>1, <3>2 DEF Waiting
  <2> QED BY <1>1, <2>1, <2>2, <2>3, <2>4
<1> QED BY <1>3, <1>5
-----------------------------------------------------------------------------
(* The initial state and the steps.                                        *)

LEMMA InitInv == Init => PoolInv
<1> SUFFICES ASSUME Init PROVE PoolInv
    OBVIOUS
<1>1. free \in Seq(Conns) /\ Len(free) = Size /\ DOMAIN free = 1..Size
  <2>1. \A i \in 1..Size : i \in Conns
      BY DEF Conns
  <2>2. free \in Seq(Conns)
      BY <2>1, SizeAssumption, IsASeq DEF Init
  <2>3. DOMAIN free = 1..Size
      BY DEF Init
  <2> QED BY <2>2, <2>3, SizeAssumption, LenProperties
<1>2. waiters \in Seq(Requests)
    BY EmptySeq DEF Init
<1>3. TypeOK
    BY <1>1, <1>2, SizeAssumption DEF Init, TypeOK, Labels
<1>4. Leased = {} /\ At(Holding) = {}
    BY DEF Init, Leased, At, Holding
<1>5. PlacesInv
    BY DEF Init, PlacesInv, Leasing
<1>6. NoSlotLost
  <2>1. Cardinality(Leased) = 0 /\ Cardinality(At(Holding)) = 0
      BY <1>4, FS_EmptySet
  <2> QED BY <1>1, <2>1, SizeAssumption DEF Init, NoSlotLost, Holding
<1>7. OneOwner
  <2>1. \A i \in DOMAIN free : free[i] = i
      BY <1>1 DEF Init
  <2>2. IsInjective(free)
      BY <2>1 DEF IsInjective
  <2> QED BY <1>4, <2>2 DEF OneOwner
<1> QED BY <1>3, <1>5, <1>6, <1>7 DEF PoolInv

\* A task that holds a connection and goes on holding it, whatever it does on it.
LEMMA HoldOn ==
    ASSUME PoolInv, NEW r \in Requests, NEW label \in Leasing, pc[r] \in Leasing, Goto(r, label),
           UNCHANGED <<free, permits, waiters, lease, kind>>,
           poisoned' \subseteq Conns, dead' \subseteq Conns, inTx' \subseteq Conns, ran' \subseteq Conns
    PROVE  PoolInv'
<1>1. label \in Labels /\ label \in Holding /\ pc[r] \in Holding /\ label # "wait"
    BY DEF Leasing, Labels, Holding
<1>2. TypeOK'
    BY <1>1 DEF PoolInv, TypeOK, Goto
<1>3. PlacesInv'
  <2>1. \A q \in Requests : pc'[q] = IF q = r THEN label ELSE pc[q]
      BY DEF PoolInv, TypeOK, Goto
  <2>2. \A q \in Requests : Waiting(q)' <=> Waiting(q)
      BY DEF Waiting
  <2> QED BY <1>1, <2>1, <2>2 DEF PoolInv, PlacesInv
<1>4. NoSlotLost'
  <2>1. Cardinality(At(Holding)') = Cardinality(At(Holding)) + 1 - 1
      BY <1>1, AtStep DEF PoolInv, TypeOK
  <2>2. Cardinality(At(Holding)) \in Nat
      BY AtFinite
  <2>3. Leased' = Leased
      BY DEF Leased
  <2> QED BY <2>1, <2>2, <2>3 DEF PoolInv, NoSlotLost, Holding
<1>5. OneOwner'
    BY DEF PoolInv, OneOwner, Leased
<1> QED BY <1>2, <1>3, <1>4, <1>5 DEF PoolInv

\* A lease names a connection of the pool.
LEMMA LeaseIsConn ==
    ASSUME PoolInv, NEW r \in Requests, pc[r] \in Leasing
    PROVE  lease[r] \in Conns
BY DEF PoolInv, TypeOK, PlacesInv

LEMMA ArriveInv ==
    ASSUME PoolInv, NEW r \in Requests, NEW k \in {"call", "plain"}, Arrive(r, k)
    PROVE  PoolInv'
<1>1. /\ waiters' \in Seq(Requests) /\ Waiting(r)'
      /\ \A q \in Requests : Waiting(q) => Waiting(q)'
    BY JoinQueue DEF PoolInv, TypeOK, Arrive
<1>2. TypeOK'
    BY <1>1 DEF PoolInv, TypeOK, Arrive, Goto, Labels, connVars
<1>3. PlacesInv'
  <2>1. \A q \in Requests : pc'[q] = IF q = r THEN "wait" ELSE pc[q]
      BY DEF PoolInv, TypeOK, Arrive, Goto
  <2> QED BY <1>1, <2>1 DEF PoolInv, PlacesInv, Arrive, Leasing
<1>4. NoSlotLost'
  <2>1. Cardinality(At(Holding)') = Cardinality(At(Holding)) + 0 - 0
      BY AtStep DEF PoolInv, TypeOK, Arrive, Holding
  <2>2. Cardinality(At(Holding)) \in Nat
      BY AtFinite
  <2>3. Leased' = Leased
      BY DEF Leased, Arrive
  <2> QED BY <2>1, <2>2, <2>3 DEF PoolInv, NoSlotLost, Arrive, Holding
<1>5. OneOwner'
    BY DEF PoolInv, OneOwner, Leased, Arrive
<1> QED BY <1>2, <1>3, <1>4, <1>5 DEF PoolInv

LEMMA ShedInv ==
    ASSUME PoolInv, NEW r \in Requests, Shed(r)
    PROVE  PoolInv'
<1>1. /\ waiters' \in Seq(Requests)
      /\ \A q \in Requests : Waiting(q) /\ q # r => Waiting(q)'
    BY LeaveQueue DEF PoolInv, TypeOK, Shed
<1>2. TypeOK'
    BY <1>1 DEF PoolInv, TypeOK, Shed, Goto, Labels, connVars
<1>3. PlacesInv'
  <2>1. \A q \in Requests : pc'[q] = IF q = r THEN "idle" ELSE pc[q]
      BY DEF PoolInv, TypeOK, Shed, Goto
  <2> QED BY <1>1, <2>1 DEF PoolInv, PlacesInv, Shed, Leasing
<1>4. NoSlotLost'
  <2>1. Cardinality(At(Holding)') = Cardinality(At(Holding)) + 0 - 0
      BY AtStep DEF PoolInv, TypeOK, Shed, Holding
  <2>2. Cardinality(At(Holding)) \in Nat
      BY AtFinite
  <2>3. Leased' = Leased
      BY DEF Leased, Shed
  <2> QED BY <2>1, <2>2, <2>3 DEF PoolInv, NoSlotLost, Shed, Holding
<1>5. OneOwner'
    BY DEF PoolInv, OneOwner, Leased, Shed
<1> QED BY <1>2, <1>3, <1>4, <1>5 DEF PoolInv

LEMMA AcquirePermitInv ==
    ASSUME PoolInv, NEW r \in Requests, AcquirePermit(r)
    PROVE  PoolInv'
<1>1. waiters # <<>>
    BY DEF PoolInv, PlacesInv, AcquirePermit, Waiting
<1>2. /\ waiters' \in Seq(Requests)
      /\ \A q \in Requests : Waiting(q) /\ q # r => Waiting(q)'
    BY <1>1, ServeQueue DEF PoolInv, TypeOK, AcquirePermit
<1>3. permits \in Nat /\ permits' = permits - 1 /\ permits' \in Nat
    BY DEF PoolInv, TypeOK, AcquirePermit
<1>4. TypeOK'
    BY <1>2, <1>3 DEF PoolInv, TypeOK, AcquirePermit, Goto, Labels, connVars
<1>5. PlacesInv'
  <2>1. \A q \in Requests : pc'[q] = IF q = r THEN "pop" ELSE pc[q]
      BY DEF PoolInv, TypeOK, AcquirePermit, Goto
  <2> QED BY <1>2, <2>1 DEF PoolInv, PlacesInv, AcquirePermit, Leasing
<1>6. NoSlotLost'
  <2>0. "pop" \in Holding /\ pc[r] \notin Holding /\ Goto(r, "pop")
      BY DEF AcquirePermit, Holding
  <2>1. Cardinality(At(Holding)') = Cardinality(At(Holding)) + 1 - 0
      BY <2>0, AtStep DEF PoolInv, TypeOK
  <2>2. Cardinality(At(Holding)) \in Nat
      BY AtFinite
  <2>3. Leased' = Leased
      BY DEF Leased, AcquirePermit
  <2> QED BY <1>3, <2>1, <2>2, <2>3 DEF PoolInv, NoSlotLost, AcquirePermit, Holding
<1>7. OneOwner'
    BY DEF PoolInv, OneOwner, Leased, AcquirePermit
<1> QED BY <1>4, <1>5, <1>6, <1>7 DEF PoolInv

LEMMA PopInv ==
    ASSUME PoolInv, NEW r \in Requests, Pop(r)
    PROVE  PoolInv'
<1> DEFINE c == Last(free)
           label == IF is_unusable(c) THEN "connect" ELSE "leased"
<1>1. /\ free \in Seq(Conns) /\ free # <<>> /\ IsInjective(free)
      /\ free' = Front(free) /\ lease' = [lease EXCEPT ![r] = c] /\ Goto(r, label)
    BY DEF PoolInv, TypeOK, OneOwner, Pop
<1>2. /\ free' \in Seq(Conns) /\ Len(free') = Len(free) - 1
      /\ IsInjective(free')
      /\ c \in Conns
      /\ ToSet(free') \subseteq ToSet(free)
      /\ c \in ToSet(free) /\ c \notin ToSet(free')
    BY <1>1, PopSeq
<1>3. label \in {"connect", "leased"} /\ c # NoConn
    BY <1>2, NoConnAssumption DEF Conns
<1>4. lease[r] = NoConn
    BY DEF PoolInv, PlacesInv, Pop, Leasing
<1> HIDE DEF c, label
<1>5. TypeOK'
    BY <1>1, <1>2, <1>3 DEF PoolInv, TypeOK, Pop, Goto, Labels, connVars
<1>6. \A q \in Requests : lease'[q] = IF q = r THEN c ELSE lease[q]
    BY <1>1 DEF PoolInv, TypeOK
<1>7. PlacesInv'
  <2>1. \A q \in Requests : pc'[q] = IF q = r THEN label ELSE pc[q]
      BY <1>1 DEF PoolInv, TypeOK, Goto
  <2>2. \A q \in Requests : Waiting(q)' <=> Waiting(q)
      BY DEF Waiting, Pop
  <2> QED BY <1>3, <1>6, <2>1, <2>2 DEF PoolInv, PlacesInv, Leasing
<1>8. NoSlotLost'
  <2>0. label \in Holding /\ pc[r] \in Holding /\ Goto(r, label)
      BY <1>1, <1>3 DEF Pop, Holding
  <2>1. Cardinality(At(Holding)') = Cardinality(At(Holding)) + 1 - 1
      BY <2>0, AtStep DEF PoolInv, TypeOK
  <2>2. Cardinality(At(Holding)) \in Nat
      BY AtFinite
  <2>3. Cardinality(Leased') = Cardinality(Leased) + 1 - 0
      BY <1>1, <1>3, <1>4, LeasedStep DEF PoolInv, TypeOK
  <2>4. Cardinality(Leased) \in Nat /\ Len(free) \in Nat
      BY <1>1, LeasedFinite, LenProperties
  <2> QED BY <1>2, <2>1, <2>2, <2>3, <2>4 DEF PoolInv, NoSlotLost, Pop, Holding
<1>9. OneOwner'
  <2>1. \A q \in Requests : q # r /\ lease[q] # NoConn => lease[q] \notin ToSet(free)
      BY DEF PoolInv, OneOwner, Leased
  <2>2. \A q \in Leased' : lease'[q] \notin ToSet(free')
      BY <1>2, <1>6, <2>1 DEF Leased
  <2>3. \A p, q \in Leased' : lease'[p] = lease'[q] => p = q
      BY <1>2, <1>6, <2>1 DEF PoolInv, OneOwner, Leased
  <2> QED BY <1>2, <2>2, <2>3 DEF OneOwner
<1> QED BY <1>5, <1>7, <1>8, <1>9 DEF PoolInv

LEMMA PushInv ==
    ASSUME PoolInv, NEW r \in Requests, Push(r)
    PROVE  PoolInv'
<1> DEFINE c == lease[r]
<1>1. /\ free \in Seq(Conns) /\ IsInjective(free) /\ Goto(r, "add_permit")
      /\ free' = Append(free, c) /\ lease' = [lease EXCEPT ![r] = NoConn]
    BY DEF PoolInv, TypeOK, OneOwner, Push
<1>2. c \in Conns /\ c # NoConn /\ c \notin ToSet(free)
    BY LeaseIsConn DEF PoolInv, PlacesInv, OneOwner, Leased, Push, Leasing
<1>3. /\ free' \in Seq(Conns) /\ Len(free') = Len(free) + 1
      /\ IsInjective(free')
      /\ ToSet(free') \subseteq ToSet(free) \cup {c}
    BY <1>1, <1>2, PushSeq
<1>4. \A q \in Requests : lease'[q] = IF q = r THEN NoConn ELSE lease[q]
    BY <1>1 DEF PoolInv, TypeOK
<1>5. TypeOK'
    BY <1>1, <1>3 DEF PoolInv, TypeOK, Push, Goto, Labels, connVars
<1>6. PlacesInv'
  <2>1. \A q \in Requests : pc'[q] = IF q = r THEN "add_permit" ELSE pc[q]
      BY <1>1 DEF PoolInv, TypeOK, Goto
  <2>2. \A q \in Requests : Waiting(q)' <=> Waiting(q)
      BY DEF Waiting, Push
  <2> QED BY <1>4, <2>1, <2>2 DEF PoolInv, PlacesInv, Leasing
<1>7. NoSlotLost'
  <2>0. "add_permit" \in Holding /\ pc[r] \in Holding /\ Goto(r, "add_permit")
      BY DEF Push, Holding
  <2>1. Cardinality(At(Holding)') = Cardinality(At(Holding)) + 1 - 1
      BY <2>0, AtStep DEF PoolInv, TypeOK
  <2>2. Cardinality(At(Holding)) \in Nat
      BY AtFinite
  <2>3. Cardinality(Leased') = Cardinality(Leased) + 0 - 1
      BY <1>1, <1>2, LeasedStep DEF PoolInv, TypeOK
  <2>4. Cardinality(Leased) \in Nat /\ Len(free) \in Nat
      BY <1>1, LeasedFinite, LenProperties
  <2> QED BY <1>3, <2>1, <2>2, <2>3, <2>4 DEF PoolInv, NoSlotLost, Push, Holding
<1>8. OneOwner'
  <2>1. \A q \in Requests : q # r /\ lease[q] # NoConn => lease[q] \notin ToSet(free) /\ lease[q] # c
      BY <1>2 DEF PoolInv, OneOwner, Leased
  <2>2. \A q \in Leased' : lease'[q] \notin ToSet(free')
      BY <1>3, <1>4, <2>1 DEF Leased
  <2>3. \A p, q \in Leased' : lease'[p] = lease'[q] => p = q
      BY <1>4 DEF PoolInv, OneOwner, Leased
  <2> QED BY <1>3, <2>2, <2>3 DEF OneOwner
<1> QED BY <1>5, <1>6, <1>7, <1>8 DEF PoolInv

LEMMA AddPermitInv ==
    ASSUME PoolInv, NEW r \in Requests, AddPermit(r)
    PROVE  PoolInv'
<1>1. permits \in Nat /\ permits' = permits + 1 /\ permits' \in Nat
    BY DEF PoolInv, TypeOK, AddPermit
<1>2. TypeOK'
    BY <1>1 DEF PoolInv, TypeOK, AddPermit, Goto, Labels, connVars
<1>3. PlacesInv'
  <2>1. \A q \in Requests : pc'[q] = IF q = r THEN "idle" ELSE pc[q]
      BY DEF PoolInv, TypeOK, AddPermit, Goto
  <2>2. \A q \in Requests : Waiting(q)' <=> Waiting(q)
      BY DEF Waiting, AddPermit
  <2> QED BY <2>1, <2>2 DEF PoolInv, PlacesInv, AddPermit, Leasing
<1>4. NoSlotLost'
  <2>0. "idle" \notin Holding /\ pc[r] \in Holding /\ Goto(r, "idle")
      BY DEF AddPermit, Holding
  <2>1. Cardinality(At(Holding)') = Cardinality(At(Holding)) + 0 - 1
      BY <2>0, AtStep DEF PoolInv, TypeOK
  <2>2. Cardinality(At(Holding)) \in Nat
      BY AtFinite
  <2>3. Leased' = Leased
      BY DEF Leased, AddPermit
  <2> QED BY <1>1, <2>1, <2>2, <2>3 DEF PoolInv, NoSlotLost, AddPermit, Holding
<1>5. OneOwner'
    BY DEF PoolInv, OneOwner, Leased, AddPermit
<1> QED BY <1>2, <1>3, <1>4, <1>5 DEF PoolInv

\* What a task does with its connection leaves the pool alone.
LEMMA UseInv ==
    ASSUME PoolInv, NEW r \in Requests,
           \/ Reconnect(r) \/ ReconnectFails(r) \/ PlainQuery(r) \/ Begin(r) \/ BeginFails(r)
           \/ EndTransaction(r) \/ TxEndFailed(r) \/ RollBackAfterError(r) \/ Unwind(r)
    PROVE  PoolInv'
<1>1. pc[r] \in Leasing
    BY DEF Reconnect, ReconnectFails, PlainQuery, Begin, BeginFails, EndTransaction, TxEndFailed,
           RollBackAfterError, Unwind, Leasing
<1>2. lease[r] \in Conns
    BY <1>1, LeaseIsConn
<1>3. \E label \in {"leased", "run", "failed", "release"} : Goto(r, label)
    BY DEF Reconnect, ReconnectFails, PlainQuery, Begin, BeginFails, EndTransaction, TxEndFailed,
           RollBackAfterError, Unwind
<1>4. UNCHANGED <<free, permits, waiters, lease, kind>>
    BY DEF Reconnect, ReconnectFails, PlainQuery, Begin, BeginFails, EndTransaction, TxEndFailed,
           RollBackAfterError, Unwind, poolVars
<1>5. poisoned' \subseteq Conns /\ dead' \subseteq Conns /\ inTx' \subseteq Conns
    BY <1>2 DEF PoolInv, TypeOK, Reconnect, ReconnectFails, PlainQuery, Begin, BeginFails,
           EndTransaction, TxEndFailed, RollBackAfterError, Unwind, poison, Conn, connVars
<1>6. ran' \subseteq Conns
    BY <1>2 DEF PoolInv, TypeOK, Reconnect, ReconnectFails, PlainQuery, Begin, BeginFails,
           EndTransaction, TxEndFailed, RollBackAfterError, Unwind, Query, Conn
<1>7. PICK label \in Leasing : Goto(r, label)
    BY <1>3 DEF Leasing
<1> QED BY <1>1, <1>4, <1>5, <1>6, <1>7, HoldOn

\* A session the server closes, and a step that changes nothing.
LEMMA OutsideInv ==
    ASSUME PoolInv, \/ \E c \in Conns : BackendDies(c)
                    \/ UNCHANGED vars
    PROVE  PoolInv'
<1>1. /\ UNCHANGED <<free, permits, waiters, lease, kind, pc, ran>>
      /\ poisoned' \subseteq Conns /\ dead' \subseteq Conns /\ inTx' \subseteq Conns
    BY DEF PoolInv, TypeOK, BackendDies, vars, poolVars, connVars
<1>2. TypeOK'
    BY <1>1 DEF PoolInv, TypeOK
<1>3. PlacesInv'
    BY <1>1 DEF PoolInv, PlacesInv, Waiting
<1>4. NoSlotLost'
    BY <1>1 DEF PoolInv, NoSlotLost, Leased, At
<1>5. OneOwner'
    BY <1>1 DEF PoolInv, OneOwner, Leased
<1> QED BY <1>2, <1>3, <1>4, <1>5 DEF PoolInv

LEMMA NextInv == PoolInv /\ [Next]_vars => PoolInv'
<1> SUFFICES ASSUME PoolInv, [Next]_vars PROVE PoolInv'
    OBVIOUS
<1>1. ASSUME NEW r \in Requests, NEW k \in {"call", "plain"}, Arrive(r, k) PROVE PoolInv'
    BY <1>1, ArriveInv
<1>2. ASSUME NEW r \in Requests, Shed(r) PROVE PoolInv'
    BY <1>2, ShedInv
<1>3. ASSUME NEW r \in Requests, Step(r) PROVE PoolInv'
    BY <1>3, AcquirePermitInv, PopInv, PushInv, AddPermitInv, UseInv DEF Step
<1>4. CASE \/ \E c \in Conns : BackendDies(c)
           \/ UNCHANGED vars
    BY <1>4, OutsideInv
<1> QED BY <1>1, <1>2, <1>3, <1>4 DEF Next

-----------------------------------------------------------------------------
(* The theorems.                                                           *)

\* In every reachable state what the pool counts agrees with where its tasks
\* stand, whatever drops them (Pool::acquire, Pool::release, Lease::drop).
THEOREM PoolInvariant == Spec => []PoolInv
BY InitInv, NextInv, PTL DEF Spec

\* No slot of the pool is lost or handed out twice, and the pop behind a permit
\* finds a connection (Pool::acquire's expect).
THEOREM SlotsAreConserved == Spec => []SlotsConserved
<1>1. PoolInv => SlotsConserved
    BY PermitsSuffice DEF PoolInv, SlotsConserved
<1> QED BY <1>1, PoolInvariant, PTL
-----------------------------------------------------------------------------
(* Sessions.  A connection left inside a transaction is poisoned before it *)
(* can be popped again, so the next task replaces it; one that a task runs *)
(* its queries on never is.                                                *)

Running == {"leased", "run", "failed"}

\* What is true of every session, by where its connection is.
SessionInv ==
    /\ ran = {}
    /\ \A c \in ToSet(free) : c \in inTx => c \in poisoned
    /\ \A r \in Requests : pc[r] \in Running => lease[r] \notin poisoned
    /\ \A r \in Requests : pc[r] = "leased" => lease[r] \notin inTx
    /\ \A r \in Requests : pc[r] \in {"connect", "release"} /\ lease[r] \in inTx => lease[r] \in poisoned

\* A task touches the session of its own lease and no other.
LEMMA UseSession ==
    ASSUME PoolInv, SessionInv, NEW r \in Requests, NEW label \in Leasing, pc[r] \in Leasing,
           Goto(r, label), UNCHANGED <<free, lease>>, ran' = {},
           \A c \in Conns \ {lease[r]} : /\ c \in inTx' <=> c \in inTx
                                         /\ c \in poisoned' <=> c \in poisoned,
           label \in Running => lease[r] \notin poisoned',
           label = "leased" => lease[r] \notin inTx',
           label \in {"connect", "release"} /\ lease[r] \in inTx' => lease[r] \in poisoned'
    PROVE  SessionInv'
<1>1. \A q \in Requests : pc'[q] = IF q = r THEN label ELSE pc[q]
    BY DEF PoolInv, TypeOK, Goto
<1>2. ASSUME NEW c \in ToSet(free) PROVE c \in inTx' => c \in poisoned'
  <2>1. c \in Conns
      BY ElementOfSeq, LenProperties DEF ToSet, PoolInv, TypeOK
  <2>2. c # lease[r]
      BY DEF PoolInv, PlacesInv, OneOwner, Leased
  <2> QED BY <2>1, <2>2 DEF SessionInv
<1>3. ASSUME NEW q \in Requests, q # r, pc[q] \in Leasing
      PROVE  /\ lease[q] \in inTx' <=> lease[q] \in inTx
             /\ lease[q] \in poisoned' <=> lease[q] \in poisoned
  <2>1. lease[q] \in Conns
      BY <1>3, LeaseIsConn
  <2>2. lease[q] # lease[r]
      BY <1>3 DEF PoolInv, PlacesInv, OneOwner, Leased
  <2> QED BY <2>1, <2>2
<1>4. {"connect", "release"} \subseteq Leasing /\ Running \subseteq Leasing
    BY DEF Leasing, Running
<1>5. ASSUME NEW q \in Requests, pc'[q] \in Running PROVE lease'[q] \notin poisoned'
    BY <1>1, <1>3, <1>4, <1>5 DEF SessionInv
<1>6. ASSUME NEW q \in Requests, pc'[q] = "leased" PROVE lease'[q] \notin inTx'
    BY <1>1, <1>3, <1>6 DEF SessionInv, Leasing
<1>7. ASSUME NEW q \in Requests, pc'[q] \in {"connect", "release"}, lease'[q] \in inTx'
      PROVE  lease'[q] \in poisoned'
    BY <1>1, <1>3, <1>4, <1>7 DEF SessionInv
<1> QED BY <1>2, <1>5, <1>6, <1>7 DEF SessionInv

LEMMA UsesKeepSessions ==
    ASSUME PoolInv, SessionInv, NEW r \in Requests,
           \/ Reconnect(r) \/ ReconnectFails(r) \/ PlainQuery(r) \/ Begin(r) \/ BeginFails(r)
           \/ EndTransaction(r) \/ TxEndFailed(r) \/ RollBackAfterError(r) \/ Unwind(r)
    PROVE  SessionInv'
<1>1. pc[r] \in Leasing
    BY DEF Reconnect, ReconnectFails, PlainQuery, Begin, BeginFails, EndTransaction, TxEndFailed,
           RollBackAfterError, Unwind, Leasing
<1>2. UNCHANGED <<free, lease>>
    BY DEF Reconnect, ReconnectFails, PlainQuery, Begin, BeginFails, EndTransaction, TxEndFailed,
           RollBackAfterError, Unwind, poolVars
<1>3. \A c \in Conns \ {lease[r]} : /\ c \in inTx' <=> c \in inTx
                                    /\ c \in poisoned' <=> c \in poisoned
    BY DEF Reconnect, ReconnectFails, PlainQuery, Begin, BeginFails, EndTransaction, TxEndFailed,
           RollBackAfterError, Unwind, poison, Conn, connVars
<1>4. "release" \in Leasing /\ "leased" \in Leasing /\ "run" \in Leasing /\ "failed" \in Leasing
    BY DEF Leasing
<1>5. Query(r) /\ pc[r] \in Running => ran' = {}
    BY DEF SessionInv, Query, Conn
<1>6. CASE Reconnect(r)
  <2>1. /\ Goto(r, "leased") /\ ran' = {}
        /\ lease[r] \notin poisoned' /\ lease[r] \notin inTx'
      BY <1>6 DEF Reconnect, SessionInv
  <2> QED BY <1>1, <1>2, <1>3, <1>4, <2>1, UseSession
<1>7. CASE ReconnectFails(r)
  <2>1. /\ Goto(r, "release") /\ ran' = {}
        /\ lease[r] \in inTx' => lease[r] \in poisoned'
      BY <1>7 DEF ReconnectFails, SessionInv, connVars
  <2>2. "release" \notin Running
      BY DEF Running
  <2> QED BY <1>1, <1>2, <1>3, <1>4, <2>1, <2>2, UseSession
<1>8. CASE PlainQuery(r)
  <2>1. /\ Goto(r, "release") /\ ran' = {}
        /\ lease[r] \in inTx' => lease[r] \in poisoned'
      BY <1>5, <1>8 DEF PlainQuery, SessionInv, connVars, Running
  <2>2. "release" \notin Running
      BY DEF Running
  <2> QED BY <1>1, <1>2, <1>3, <1>4, <2>1, <2>2, UseSession
<1>9. CASE Begin(r) \/ BeginFails(r)
  <2>1. pc[r] = "leased" /\ Query(r) /\ UNCHANGED poisoned
      BY <1>9 DEF Begin, BeginFails, connVars
  <2>2. ran' = {} /\ lease[r] \notin poisoned'
      BY <1>5, <2>1 DEF SessionInv, Running
  <2>3. PICK label \in {"run", "failed"} : Goto(r, label)
      BY <1>9 DEF Begin, BeginFails
  <2>4. label \in Leasing /\ label \notin {"leased", "connect", "release"}
      BY <2>3 DEF Leasing
  <2> QED BY <1>1, <1>2, <1>3, <2>2, <2>3, <2>4, UseSession
<1>10. CASE EndTransaction(r)
  <2>1. pc[r] = "run" /\ Query(r) /\ UNCHANGED poisoned /\ lease[r] \notin inTx'
      BY <1>10 DEF EndTransaction, Conn
  <2>2. ran' = {} /\ lease[r] \notin poisoned'
      BY <1>5, <2>1 DEF SessionInv, Running
  <2>3. PICK label \in {"release", "failed"} : Goto(r, label)
      BY <1>10 DEF EndTransaction
  <2>4. label \in Leasing
      BY <2>3 DEF Leasing
  <2> QED BY <1>1, <1>2, <1>3, <2>1, <2>2, <2>3, <2>4, UseSession
<1>11. CASE TxEndFailed(r)
  <2>1. pc[r] = "run" /\ Query(r) /\ Goto(r, "release") /\ lease[r] \in poisoned'
      BY <1>11 DEF TxEndFailed, poison, Conn
  <2>2. ran' = {}
      BY <1>5, <2>1 DEF Running
  <2>3. "release" \notin Running
      BY DEF Running
  <2> QED BY <1>1, <1>2, <1>3, <1>4, <2>1, <2>2, <2>3, UseSession
<1>12. CASE RollBackAfterError(r)
  <2>1. /\ pc[r] = "failed" /\ Query(r) /\ Goto(r, "release")
        /\ lease[r] \in inTx' => lease[r] \in poisoned'
      BY <1>12 DEF RollBackAfterError, poison, Conn
  <2>2. ran' = {}
      BY <1>5, <2>1 DEF Running
  <2>3. "release" \notin Running
      BY DEF Running
  <2> QED BY <1>1, <1>2, <1>3, <1>4, <2>1, <2>2, <2>3, UseSession
<1>13. CASE Unwind(r)
  <2>1. Goto(r, "release") /\ lease[r] \in poisoned' /\ ran' = {}
      BY <1>13 DEF Unwind, poison, Conn, SessionInv
  <2>2. "release" \notin Running
      BY DEF Running
  <2> QED BY <1>1, <1>2, <1>3, <1>4, <2>1, <2>2, UseSession
<1> QED BY <1>6, <1>7, <1>8, <1>9, <1>10, <1>11, <1>12, <1>13

\* A connection popped is replaced if it may be inside a transaction, and one
\* pushed is what its task left it.
LEMMA MovesKeepSessions ==
    ASSUME PoolInv, SessionInv, NEW r \in Requests, Pop(r) \/ Push(r)
    PROVE  SessionInv'
<1>1. UNCHANGED <<inTx, poisoned, dead, ran>>
    BY DEF Pop, Push, connVars
<1>2. CASE Pop(r)
  <2> DEFINE c == Last(free)
             label == IF is_unusable(c) THEN "connect" ELSE "leased"
  <2>1. free \in Seq(Conns) /\ free # <<>> /\ IsInjective(free)
      BY <1>2 DEF PoolInv, TypeOK, OneOwner, Pop
  <2>2. ToSet(free') \subseteq ToSet(free) /\ c \in ToSet(free)
      BY <1>2, <2>1, PopSeq DEF Pop
  <2>3. /\ \A q \in Requests : pc'[q] = IF q = r THEN label ELSE pc[q]
        /\ \A q \in Requests : lease'[q] = IF q = r THEN c ELSE lease[q]
      BY <1>2 DEF PoolInv, TypeOK, Pop, Goto
  <2>4. label \in {"connect", "leased"} /\ (label = "leased" => c \notin poisoned)
      BY DEF is_unusable
  <2>5. c \in inTx => c \in poisoned
      BY <2>2 DEF SessionInv
  <2> HIDE DEF c, label
  <2> QED BY <1>1, <2>2, <2>3, <2>4, <2>5 DEF SessionInv, Running
<1>3. CASE Push(r)
  <2> DEFINE c == lease[r]
  <2>1. free \in Seq(Conns) /\ IsInjective(free) /\ c \in Conns /\ c \notin ToSet(free)
      BY <1>3, LeaseIsConn DEF PoolInv, TypeOK, PlacesInv, OneOwner, Leased, Push, Leasing
  <2>2. ToSet(free') \subseteq ToSet(free) \cup {c}
      BY <1>3, <2>1, PushSeq DEF Push
  <2>3. /\ \A q \in Requests : pc'[q] = IF q = r THEN "add_permit" ELSE pc[q]
        /\ \A q \in Requests : q # r => lease'[q] = lease[q]
      BY <1>3 DEF PoolInv, TypeOK, Push, Goto
  <2>4. c \in inTx => c \in poisoned
      BY <1>3 DEF SessionInv, Push
  <2> QED BY <1>1, <2>2, <2>3, <2>4 DEF SessionInv, Running
<1> QED BY <1>2, <1>3

\* What a task without a connection does, and what the server does, changes
\* nothing of it; a session that dies is in no transaction.
LEMMA OthersKeepSessions ==
    ASSUME PoolInv, SessionInv,
           \/ \E r \in Requests : \/ \E k \in {"call", "plain"} : Arrive(r, k)
                                  \/ Shed(r) \/ AcquirePermit(r) \/ AddPermit(r)
           \/ \E c \in Conns : BackendDies(c)
           \/ UNCHANGED vars
    PROVE  SessionInv'
<1>1. UNCHANGED <<free, lease, poisoned, ran>> /\ inTx' \subseteq inTx
    BY DEF Arrive, Shed, AcquirePermit, AddPermit, BackendDies, vars, poolVars, connVars
<1>2. \A q \in Requests : pc'[q] = pc[q] \/ pc'[q] \in {"wait", "idle", "pop"}
    BY DEF PoolInv, TypeOK, Arrive, Shed, AcquirePermit, AddPermit, BackendDies, vars, Goto
<1> QED BY <1>1, <1>2 DEF SessionInv, Running

\* Over every step, with the pool's own invariant.
LEMMA SessionInvariant == Spec => []SessionInv
<1>1. Init => SessionInv
    BY DEF Init, SessionInv, Running
<1>2. PoolInv /\ SessionInv /\ [Next]_vars => SessionInv'
    BY UsesKeepSessions, MovesKeepSessions, OthersKeepSessions DEF Next, Step
<1> QED BY <1>1, <1>2, PoolInvariant, PTL DEF Spec

\* No task begins on a session that an earlier request left inside a transaction
\* (dispatch_once, TxGuard::drop, Pool::acquire's look at is_unusable).
THEOREM TasksStartOutside == Spec => []StartsOutsideTransaction
<1>1. SessionInv => StartsOutsideTransaction
    BY DEF SessionInv, StartsOutsideTransaction
<1> QED BY <1>1, SessionInvariant, PTL

\* No query runs on a poisoned session: the cancel poison() spawns finds the
\* query it was meant for, or none (PooledConn::poison).
THEOREM CancelsHitTheirOwn == Spec => []CancelHitsNobodyElse
<1>1. SessionInv => CancelHitsNobodyElse
    BY DEF SessionInv, CancelHitsNobodyElse
<1> QED BY <1>1, SessionInvariant, PTL
=============================================================================
