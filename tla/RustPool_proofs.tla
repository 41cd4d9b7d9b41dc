---------------------------- MODULE RustPool_proofs ----------------------------
(***************************************************************************)
(* The pool behind Odoo's cursors, for any finite set of threads, any      *)
(* sizes it is given and any number of drains: its slots are conserved,    *)
(* drains retire connections, and no wakeup is lost.                       *)
(*                                                                         *)
(* Why it holds: a slot is out exactly while a thread stands between the   *)
(* two ends of a checkout, and a process that does not own the pool yet    *)
(* has no such thread, so its count is zero before it is reset.            *)
(***************************************************************************)
EXTENDS RustPool, SequenceTheorems, FiniteSetTheorems, TLAPS

-----------------------------------------------------------------------------
(* Sequences and sizes.                                                    *)

\* What SubSeqProperties says of a slice that lies within its sequence.
LEMMA SliceSeq ==
    ASSUME NEW S, NEW s \in Seq(S), NEW a \in Nat \ {0}, NEW b \in Nat, a <= b + 1, b <= Len(s)
    PROVE  /\ SubSeq(s, a, b) \in Seq(S) /\ Len(SubSeq(s, a, b)) = b + 1 - a
           /\ \A i \in 1..(b + 1 - a) : SubSeq(s, a, b)[i] = s[a - 1 + i]
<1>1. Len(s) \in Nat /\ DOMAIN s = 1..Len(s)
    BY LenProperties
<1>2. \A i \in a..b : s[i] \in S
    BY <1>1, ElementOfSeq
<1>3. /\ SubSeq(s, a, b) \in Seq(S)
      /\ Len(SubSeq(s, a, b)) = IF a <= b THEN b - a + 1 ELSE 0
      /\ \A i \in 1..(b - a + 1) : SubSeq(s, a, b)[i] = s[a + i - 1]
    BY <1>2, SubSeqProperties
<1>4. b - a + 1 = b + 1 - a /\ \A i \in Int : a + i - 1 = a - 1 + i
    OBVIOUS
<1>5. (IF a <= b THEN b - a + 1 ELSE 0) = b + 1 - a
    OBVIOUS
<1>6. Len(SubSeq(s, a, b)) = b + 1 - a
  <2> DEFINE size == IF a <= b THEN b - a + 1 ELSE 0
  <2>1. Len(SubSeq(s, a, b)) = size
      BY <1>3
  <2>2. size = b + 1 - a
      BY <1>5
  <2> HIDE DEF size
  <2> QED BY <2>1, <2>2
<1>7. ASSUME NEW i \in 1..(b + 1 - a) PROVE SubSeq(s, a, b)[i] = s[a - 1 + i]
  <2>1. i \in 1..(b - a + 1) /\ a + i - 1 = a - 1 + i
      BY <1>4
  <2> QED BY <1>3, <2>1
<1> QED BY <1>3, <1>6, <1>7

\* The first elements of a sequence.
LEMMA PrefixSeq ==
    ASSUME NEW S, NEW s \in Seq(S), NEW n \in Nat, n <= Len(s)
    PROVE  /\ SubSeq(s, 1, n) \in Seq(S) /\ Len(SubSeq(s, 1, n)) = n
           /\ \A i \in 1..n : SubSeq(s, 1, n)[i] = s[i]
<1> DEFINE first == SubSeq(s, 1, n)
<1>1. 1 \in Nat \ {0} /\ 1 <= n + 1 /\ n + 1 - 1 = n
    OBVIOUS
<1>2. /\ first \in Seq(S) /\ Len(first) = n + 1 - 1
      /\ \A i \in 1..(n + 1 - 1) : first[i] = s[1 - 1 + i]
    BY <1>1, SliceSeq
<1>3. \A i \in 1..n : 1 - 1 + i = i
    OBVIOUS
<1> HIDE DEF first
<1>4. first \in Seq(S) /\ Len(first) = n /\ \A i \in 1..n : first[i] = s[i]
    BY <1>1, <1>2, <1>3
<1> QED BY <1>4 DEF first

\* Taking one element out shifts those behind it.
LEMMA RemoveAtSeq ==
    ASSUME NEW S, NEW s \in Seq(S), NEW k \in 1..Len(s)
    PROVE  /\ RemoveAt(s, k) \in Seq(S) /\ Len(RemoveAt(s, k)) = Len(s) - 1
           /\ DOMAIN RemoveAt(s, k) = 1..(Len(s) - 1)
           /\ \A i \in 1..(Len(s) - 1) : RemoveAt(s, k)[i] = IF i < k THEN s[i] ELSE s[i + 1]
<1> DEFINE n == Len(s)
<1>1. n \in Nat /\ DOMAIN s = 1..n
    BY LenProperties
<1>2. RemoveAt(s, k) = SubSeq(s, 1, k - 1) \o SubSeq(s, k + 1, n)
    BY DEF RemoveAt
<1> DEFINE before == SubSeq(s, 1, k - 1)
           after  == SubSeq(s, k + 1, n)
<1>3. \A i \in 1..n : s[i] \in S
    BY ElementOfSeq
<1> HIDE DEF n
<1>4. /\ before \in Seq(S) /\ Len(before) = k - 1
      /\ \A i \in 1..(k - 1) : before[i] = s[i]
  <2>1. k - 1 \in Nat /\ k - 1 <= Len(s)
      BY <1>1 DEF n
  <2> QED BY <2>1, PrefixSeq
<1>5. /\ after \in Seq(S) /\ Len(after) = n - k
      /\ \A i \in 1..(n - k) : after[i] = s[k + i]
  <2>1. /\ k + 1 \in Nat \ {0} /\ n \in Nat /\ k + 1 <= n + 1
        /\ n + 1 - (k + 1) = n - k
      BY <1>1
  <2>4. n <= Len(s)
      BY <1>1 DEF n
  <2>2. /\ after \in Seq(S) /\ Len(after) = n + 1 - (k + 1)
        /\ \A i \in 1..(n + 1 - (k + 1)) : after[i] = s[k + 1 - 1 + i]
      BY <2>1, <2>4, SliceSeq
  <2>3. \A i \in 1..(n - k) : k + 1 - 1 + i = k + i
      BY <1>1
  <2> HIDE DEF after
  <2> QED BY <2>1, <2>2, <2>3
<1>6. /\ RemoveAt(s, k) \in Seq(S) /\ Len(RemoveAt(s, k)) = n - 1
      /\ \A i \in 1..(n - 1) : RemoveAt(s, k)[i] = IF i < k THEN s[i] ELSE s[i + 1]
  <2>1. /\ RemoveAt(s, k) \in Seq(S) /\ Len(RemoveAt(s, k)) = Len(before) + Len(after)
        /\ \A i \in 1..(Len(before) + Len(after)) :
               RemoveAt(s, k)[i] = IF i <= Len(before) THEN before[i] ELSE after[i - Len(before)]
      BY <1>2, <1>4, <1>5, ConcatProperties
  <2> HIDE DEF before, after
  <2>2. Len(before) + Len(after) = n - 1
      BY <1>1, <1>4, <1>5
  <2>3. ASSUME NEW i \in 1..(n - 1)
        PROVE  RemoveAt(s, k)[i] = IF i < k THEN s[i] ELSE s[i + 1]
    <3>1. RemoveAt(s, k)[i] = IF i <= Len(before) THEN before[i] ELSE after[i - Len(before)]
        BY <2>1, <2>2
    <3>2. CASE i < k
      <4>1. i <= Len(before) /\ i \in 1..(k - 1)
          BY <1>1, <1>4, <3>2
      <4> QED BY <1>4, <3>1, <3>2, <4>1
    <3>3. CASE ~(i < k)
      <4>1. ~(i <= Len(before)) /\ i - Len(before) \in 1..(n - k) /\ k + (i - Len(before)) = i + 1
          BY <1>1, <1>4, <3>3
      <4> QED BY <1>5, <3>1, <3>3, <4>1
    <3> QED BY <3>2, <3>3
  <2> QED BY <2>1, <2>2, <2>3
<1>7. DOMAIN RemoveAt(s, k) = 1..(n - 1)
    BY <1>6, LenProperties
<1> QED BY <1>6, <1>7 DEF n

\* Two subsets that differ at most in one element differ in size by that element.
LEMMA OneApart ==
    ASSUME NEW S, IsFiniteSet(S), NEW A \in SUBSET S, NEW B \in SUBSET S, NEW e \in S,
           \A x \in S \ {e} : x \in A <=> x \in B
    PROVE  /\ Cardinality(A) \in Nat /\ Cardinality(B) \in Nat
           /\ Cardinality(B) = Cardinality(A) + (IF e \in B THEN 1 ELSE 0)
                                              - (IF e \in A THEN 1 ELSE 0)
<1> DEFINE rest == A \ {e}
<1>1. IsFiniteSet(A) /\ IsFiniteSet(rest) /\ Cardinality(A) \in Nat /\ Cardinality(rest) \in Nat
    BY FS_Subset, FS_CardinalityType
<1>2. Cardinality(rest) = IF e \in A THEN Cardinality(A) - 1 ELSE Cardinality(A)
    BY <1>1, FS_RemoveElement
<1>3. e \notin rest
    OBVIOUS
<1>4. B = IF e \in B THEN rest \cup {e} ELSE rest
    OBVIOUS
<1> HIDE DEF rest
<1>5. Cardinality(rest \cup {e}) = Cardinality(rest) + 1
    BY <1>1, <1>3, FS_AddElement
<1>6. Cardinality(B) = IF e \in B THEN Cardinality(rest) + 1 ELSE Cardinality(rest)
    BY <1>4, <1>5
<1> QED BY <1>1, <1>2, <1>6

-----------------------------------------------------------------------------

Entry == [conn : Conns, gen : 0..MaxDrains]
Places == {"away", "sleeping", "draining", "closing"} \cup Awake \cup Slotted
Holding == {"checking", "using", "resetting"}

InCheckout == {t \in Threads : pc[t] \in Slotted}

\* A stack of idle connections, each on it once.
Stack(s) == s \in Seq(Entry) /\ \A i, j \in DOMAIN s : s[i].conn = s[j].conn => i = j
On(s) == {s[i].conn : i \in DOMAIN s}

\* The reasons: threads hold connections where they stand, the count is right in a
\* process that has not looked at the pool yet, and only such a process finds its
\* parent's connections idle.
Reasons ==
    /\ \A t \in Threads : conn[t] # None <=> pc[t] \in Holding
    /\ out = Cardinality(InCheckout)
    /\ own => IdleConns \cap inherited = {}
    /\ ~own => \A t \in Threads : pc[t] \notin Slotted

PoolInv == TypeOK /\ Reasons /\ OneOwner /\ WithinMax

-----------------------------------------------------------------------------
(* The stack and the list of waiters.                                      *)

LEMMA EmptyStack == Stack(<<>>) /\ On(<<>>) = {} /\ Len(<<>>) = 0
<1>1. <<>> \in Seq(Entry) /\ Len(<<>>) = 0 /\ DOMAIN <<>> = {}
    BY EmptySeq
<1> QED BY <1>1 DEF Stack, On

\* Popping down to an entry leaves those below it.
LEMMA CutStack ==
    ASSUME NEW s, NEW k, Stack(s), k \in DOMAIN s
    PROVE  /\ Stack(SubSeq(s, 1, k - 1))
           /\ Len(SubSeq(s, 1, k - 1)) = k - 1
           /\ k \in 1..Len(s) /\ Len(s) \in Nat
           /\ DOMAIN SubSeq(s, 1, k - 1) \subseteq DOMAIN s
           /\ \A i \in DOMAIN SubSeq(s, 1, k - 1) : SubSeq(s, 1, k - 1)[i] = s[i]
           /\ On(SubSeq(s, 1, k - 1)) \subseteq On(s)
           /\ s[k] \in Entry /\ s[k].conn \in On(s)
           /\ s[k].conn \notin On(SubSeq(s, 1, k - 1))
<1> DEFINE cut == SubSeq(s, 1, k - 1)
<1>1. s \in Seq(Entry) /\ Len(s) \in Nat /\ DOMAIN s = 1..Len(s)
    BY LenProperties DEF Stack
<1>2. /\ k \in 1..Len(s) /\ k - 1 \in Nat /\ k - 1 <= Len(s) /\ s[k] \in Entry
    BY <1>1, ElementOfSeq
<1>4. /\ cut \in Seq(Entry) /\ Len(cut) = k - 1
      /\ \A i \in 1..(k - 1) : cut[i] = s[i]
    BY <1>1, <1>2, PrefixSeq
<1>5. DOMAIN cut = 1..(k - 1)
    BY <1>4, LenProperties
<1> HIDE DEF cut
<1>7. DOMAIN cut \subseteq DOMAIN s /\ k \notin DOMAIN cut
    BY <1>1, <1>2, <1>5
<1>8. \A i \in DOMAIN cut : cut[i] = s[i]
    BY <1>4, <1>5
<1>9. Stack(cut)
  <2>1. ASSUME NEW i \in DOMAIN cut, NEW j \in DOMAIN cut, cut[i].conn = cut[j].conn PROVE i = j
    <3>1. i \in DOMAIN s /\ j \in DOMAIN s /\ s[i].conn = s[j].conn
        BY <1>7, <1>8, <2>1
    <3> QED BY <3>1 DEF Stack
  <2> QED BY <1>4, <2>1 DEF Stack
<1>10. On(cut) \subseteq On(s) /\ s[k].conn \in On(s) /\ s[k].conn \notin On(cut)
    BY <1>7, <1>8 DEF On, Stack
<1>11. Len(cut) = k - 1 /\ k \in 1..Len(s) /\ Len(s) \in Nat
    BY <1>1, <1>2, <1>4
<1> QED BY <1>2, <1>7, <1>8, <1>9, <1>10, <1>11 DEF cut

LEMMA PushStack ==
    ASSUME NEW s, NEW e \in Entry, Stack(s), e.conn \notin On(s)
    PROVE  /\ Stack(Append(s, e))
           /\ Len(Append(s, e)) = Len(s) + 1 /\ Len(s) \in Nat
           /\ On(Append(s, e)) = On(s) \cup {e.conn}
           /\ \A i \in DOMAIN Append(s, e) :
                 Append(s, e)[i] = e \/ \E j \in DOMAIN s : Append(s, e)[i] = s[j]
<1> DEFINE more == Append(s, e)
<1>1. s \in Seq(Entry) /\ Len(s) \in Nat /\ DOMAIN s = 1..Len(s)
    BY LenProperties DEF Stack
<1>2. /\ more \in Seq(Entry) /\ Len(more) = Len(s) + 1
      /\ \A i \in 1..Len(s) : more[i] = s[i]
      /\ more[Len(s) + 1] = e
    BY <1>1, AppendProperties
<1>3. DOMAIN more = 1..(Len(s) + 1)
    BY <1>2, LenProperties
<1> HIDE DEF more
<1>4. \A i \in DOMAIN more : i \in DOMAIN s \/ i = Len(s) + 1
    BY <1>1, <1>3
<1>5. DOMAIN s \subseteq DOMAIN more /\ Len(s) + 1 \in DOMAIN more /\ Len(s) + 1 \notin DOMAIN s
    BY <1>1, <1>3
<1>6. \A i \in DOMAIN s : more[i] = s[i]
    BY <1>1, <1>2
<1>7. Stack(more)
    BY <1>2, <1>4, <1>5, <1>6 DEF Stack, On
<1>8. On(more) = On(s) \cup {e.conn}
    BY <1>2, <1>4, <1>5, <1>6 DEF On
<1>9. Len(more) = Len(s) + 1 /\ \A i \in DOMAIN more : more[i] = e \/ \E j \in DOMAIN s : more[i] = s[j]
    BY <1>2, <1>4, <1>6
<1> QED BY <1>1, <1>7, <1>8, <1>9 DEF more

Members(q) == {q[i] : i \in DOMAIN q}
Distinct(q) == \A i, j \in DOMAIN q : q[i] = q[j] => i = j
Queued == Members(waiters)

\* Leaving takes a thread off the list and no other.
LEMMA LeftQueue ==
    ASSUME waiters \in Seq(Threads), NEW t \in Threads, NEW q, q = Left(t)
    PROVE  /\ q \in Seq(Threads)
           /\ Distinct(waiters) => Distinct(q) /\ Members(q) = Members(waiters) \ {t}
<1> DEFINE n == Len(waiters)
           at == {i \in DOMAIN waiters : waiters[i] = t}
<1>1. n \in Nat /\ DOMAIN waiters = 1..n
    BY LenProperties
<1>2. CASE at = {}
  <2>1. q = waiters
      BY <1>2 DEF Left
  <2>2. t \notin Members(waiters)
      BY <1>2 DEF Members
  <2> QED BY <2>1, <2>2
<1>3. CASE at # {}
  <2>1. PICK k \in 1..n : waiters[k] = t /\ q = RemoveAt(waiters, k)
    <3>1. (CHOOSE i \in at : TRUE) \in at
        BY <1>3
    <3> QED BY <1>1, <1>3, <3>1 DEF Left
  <2>2. /\ q \in Seq(Threads)
        /\ DOMAIN q = 1..(n - 1)
        /\ \A i \in 1..(n - 1) : q[i] = IF i < k THEN waiters[i] ELSE waiters[i + 1]
      BY <2>1, RemoveAtSeq
  <2> HIDE DEF n, at
  <2>3. ASSUME Distinct(waiters) PROVE Distinct(q)
    <3> SUFFICES ASSUME NEW i \in 1..(n - 1), NEW j \in 1..(n - 1), q[i] = q[j]
                 PROVE  i = j
        BY <2>2 DEF Distinct
    <3> DEFINE I == IF i < k THEN i ELSE i + 1
               J == IF j < k THEN j ELSE j + 1
    <3>1. I \in DOMAIN waiters /\ J \in DOMAIN waiters /\ waiters[I] = waiters[J]
        BY <1>1, <2>2
    <3>2. I = J
        BY <2>3, <3>1 DEF Distinct
    <3> QED BY <1>1, <3>2
  <2>4. ASSUME Distinct(waiters) PROVE Members(q) = Members(waiters) \ {t}
    <3>1. ASSUME NEW i \in 1..(n - 1) PROVE q[i] \in Members(waiters) \ {t}
      <4> DEFINE I == IF i < k THEN i ELSE i + 1
      <4>1. I \in DOMAIN waiters /\ q[i] = waiters[I] /\ I # k /\ k \in DOMAIN waiters
          BY <1>1, <2>2
      <4> HIDE DEF I
      <4> QED BY <2>1, <2>4, <4>1 DEF Distinct, Members
    <3>2. ASSUME NEW u \in Members(waiters) \ {t} PROVE u \in Members(q)
      <4>1. PICK i \in 1..n : waiters[i] = u
          BY <1>1 DEF Members
      <4>2. i # k
          BY <2>1, <4>1
      <4> DEFINE I == IF i < k THEN i ELSE i - 1
      <4>3. I \in 1..(n - 1) /\ q[I] = u
          BY <1>1, <2>2, <4>1, <4>2
      <4> HIDE DEF I
      <4> QED BY <2>2, <4>3 DEF Members
    <3> QED BY <2>2, <3>1, <3>2 DEF Members
  <2> QED BY <2>2, <2>3, <2>4
<1> QED BY <1>2, <1>3

\* Joining puts one more thread on the list.
LEMMA JoinedQueue ==
    ASSUME NEW q \in Seq(Threads), NEW t \in Threads, NEW more, more = Append(q, t)
    PROVE  /\ more \in Seq(Threads)
           /\ Members(more) = Members(q) \cup {t}
           /\ Distinct(q) /\ t \notin Members(q) => Distinct(more)
<1>1. Len(q) \in Nat /\ DOMAIN q = 1..Len(q)
    BY LenProperties
<1>2. /\ more \in Seq(Threads) /\ Len(more) = Len(q) + 1
      /\ \A i \in 1..Len(q) : more[i] = q[i]
      /\ more[Len(q) + 1] = t
    BY AppendProperties
<1>3. DOMAIN more = 1..(Len(q) + 1)
    BY <1>2, LenProperties
<1>4. \A i \in DOMAIN more : i \in DOMAIN q \/ i = Len(q) + 1
    BY <1>1, <1>3
<1>5. DOMAIN q \subseteq DOMAIN more /\ Len(q) + 1 \in DOMAIN more /\ Len(q) + 1 \notin DOMAIN q
    BY <1>1, <1>3
<1>6. \A i \in DOMAIN q : more[i] = q[i]
    BY <1>1, <1>2
<1>7. Members(more) = Members(q) \cup {t}
    BY <1>2, <1>4, <1>5, <1>6 DEF Members
<1>8. Distinct(q) /\ t \notin Members(q) => Distinct(more)
    BY <1>2, <1>4, <1>5, <1>6 DEF Distinct, Members
<1> QED BY <1>2, <1>7, <1>8

\* A notify takes the head off the list and wakes it if it sleeps.
LEMMA Notified ==
    ASSUME waiters \in Seq(Threads), NEW status \in [Threads -> Places], Notify(status)
    PROVE  /\ waiters' \in Seq(Threads)
           /\ pc' \in [Threads -> Places]
           /\ \A u \in Threads : pc'[u] = status[u] \/ (status[u] = "sleeping" /\ pc'[u] = "get")
           /\ \/ Queued = {} /\ pc' = status /\ waiters' = waiters
              \/ \E h \in Queued :
                    /\ Distinct(waiters) => Distinct(waiters') /\ Queued' = Queued \ {h}
                    /\ pc'[h] # "sleeping"
                    /\ \A u \in Threads \ {h} : pc'[u] = status[u]
<1>1. CASE waiters = <<>>
  <2>1. Queued = {} /\ pc' = status /\ waiters' = waiters
      BY <1>1, EmptySeq DEF Notify, Queued, Members
  <2> QED BY <2>1
<1>2. CASE waiters # <<>>
  <2> DEFINE h == Head(waiters)
             n == Len(waiters)
  <2>1. n \in Nat \ {0} /\ DOMAIN waiters = 1..n
      BY <1>2, EmptySeq, LenProperties
  <2>2. /\ h \in Threads /\ waiters' \in Seq(Threads) /\ Len(waiters') = n - 1
        /\ \A i \in 1..Len(waiters') : waiters'[i] = waiters[i + 1]
      BY <1>2, HeadTailProperties DEF Notify
  <2>3. DOMAIN waiters' = 1..(n - 1)
      BY <2>2, LenProperties
  <2>4. h = waiters[1]
      BY <2>1
  <2>5. pc' = [status EXCEPT ![h] = IF @ = "sleeping" THEN "get" ELSE @]
      BY <1>2 DEF Notify
  <2> HIDE DEF h, n
  <2>6. h \in Queued
      BY <2>1, <2>4 DEF Queued, Members
  <2>7. ASSUME Distinct(waiters) PROVE Distinct(waiters') /\ Queued' = Queued \ {h}
    <3>1. Distinct(waiters')
      <4> SUFFICES ASSUME NEW i \in 1..(n - 1), NEW j \in 1..(n - 1), waiters'[i] = waiters'[j]
                   PROVE  i = j
          BY <2>3 DEF Distinct
      <4>1. i + 1 \in DOMAIN waiters /\ j + 1 \in DOMAIN waiters /\ waiters[i + 1] = waiters[j + 1]
          BY <2>1, <2>2
      <4>2. i + 1 = j + 1
          BY <2>7, <4>1 DEF Distinct
      <4> QED BY <4>2
    <3>2. ASSUME NEW i \in 1..(n - 1) PROVE waiters'[i] \in Queued \ {h}
      <4>1. i + 1 \in DOMAIN waiters /\ 1 \in DOMAIN waiters /\ i + 1 # 1 /\ waiters'[i] = waiters[i + 1]
          BY <2>1, <2>2
      <4> QED BY <2>4, <2>7, <4>1 DEF Distinct, Queued, Members
    <3>3. ASSUME NEW u \in Queued \ {h} PROVE u \in Queued'
      <4>1. PICK i \in 1..n : waiters[i] = u
          BY <2>1 DEF Queued, Members
      <4>2. i # 1
          BY <2>4, <4>1
      <4>3. i - 1 \in DOMAIN waiters' /\ waiters'[i - 1] = u
          BY <2>1, <2>2, <2>3, <4>1, <4>2
      <4> QED BY <4>3 DEF Queued, Members
    <3> QED BY <2>3, <3>1, <3>2, <3>3 DEF Queued, Members
  <2>8. pc' \in [Threads -> Places]
      BY <2>2, <2>5 DEF Places, Awake
  <2>9. /\ \A u \in Threads : pc'[u] = status[u] \/ (status[u] = "sleeping" /\ pc'[u] = "get")
        /\ pc'[h] # "sleeping"
        /\ \A u \in Threads \ {h} : pc'[u] = status[u]
      BY <2>2, <2>5
  <2> QED BY <2>2, <2>6, <2>7, <2>8, <2>9
<1> QED BY <1>1, <1>2

-----------------------------------------------------------------------------
(* Slots.                                                                  *)

\* A step of one thread changes the number of checkouts by where it stands.
LEMMA SlotStep ==
    ASSUME NEW t \in Threads,
           \A u \in Threads \ {t} : pc'[u] \in Slotted <=> pc[u] \in Slotted
    PROVE  /\ Cardinality(InCheckout) \in Nat
           /\ Cardinality(InCheckout') = Cardinality(InCheckout)
                  + (IF pc'[t] \in Slotted THEN 1 ELSE 0) - (IF pc[t] \in Slotted THEN 1 ELSE 0)
<1> DEFINE A == InCheckout
           B == InCheckout'
<1>1. A \in SUBSET Threads /\ B \in SUBSET Threads
    BY DEF InCheckout
<1>2. \A x \in Threads \ {t} : x \in A <=> x \in B
    BY DEF InCheckout
<1>3. (t \in A <=> pc[t] \in Slotted) /\ (t \in B <=> pc'[t] \in Slotted)
    BY DEF InCheckout
<1> HIDE DEF A, B
<1>4. /\ Cardinality(A) \in Nat
      /\ Cardinality(B) = Cardinality(A) + (IF t \in B THEN 1 ELSE 0) - (IF t \in A THEN 1 ELSE 0)
    BY <1>1, <1>2, RustPoolAssumption, OneApart
<1>5. (IF t \in B THEN 1 ELSE 0) = (IF pc'[t] \in Slotted THEN 1 ELSE 0)
      /\ (IF t \in A THEN 1 ELSE 0) = (IF pc[t] \in Slotted THEN 1 ELSE 0)
    BY <1>3
<1>6. /\ Cardinality(A) \in Nat
      /\ Cardinality(B) = Cardinality(A) + (IF pc'[t] \in Slotted THEN 1 ELSE 0)
                                        - (IF pc[t] \in Slotted THEN 1 ELSE 0)
    BY <1>4, <1>5
<1> QED BY <1>6 DEF A, B

\* A thread inside a checkout has its slot, in a process that owns the pool.
LEMMA SlotHeld ==
    ASSUME PoolInv, NEW t \in Threads, pc[t] \in Slotted
    PROVE  out \in Nat \ {0} /\ own /\ OwnIdle = idle /\ OwnOut = out /\ GivenBack = out - 1
<1>1. IsFiniteSet(InCheckout) /\ t \in InCheckout
    BY RustPoolAssumption, FS_Subset DEF InCheckout
<1>2. Cardinality(InCheckout) # 0
    BY <1>1, FS_EmptySet
<1>3. out \in Nat /\ out = Cardinality(InCheckout) /\ own
    BY DEF PoolInv, TypeOK, Reasons
<1> QED BY <1>2, <1>3 DEF OwnIdle, OwnOut, GivenBack

\* What a process finds when it looks at the pool.
LEMMA OwnView ==
    ASSUME PoolInv
    PROVE  /\ OwnOut = out
           /\ Stack(OwnIdle) /\ Len(OwnIdle) \in Nat
           /\ On(OwnIdle) \cap inherited = {} /\ On(OwnIdle) \cap HeldConns = {}
           /\ \E n \in Sizes : Len(OwnIdle) + out <= n
<1>1. OwnOut = out
  <2>1. CASE own
      BY <2>1 DEF OwnOut
  <2>2. CASE ~own
    <3>1. InCheckout = {}
        BY <2>2 DEF PoolInv, Reasons, InCheckout
    <3>2. out = 0
        BY <3>1, FS_EmptySet DEF PoolInv, Reasons
    <3> QED BY <2>2, <3>2 DEF OwnOut
  <2> QED BY <2>1, <2>2
<1>2. Stack(idle)
    BY DEF PoolInv, TypeOK, OneOwner, Stack, Entry
<1>3. On(idle) = IdleConns
    BY DEF On, IdleConns
<1>4. CASE own
  <2>1. OwnIdle = idle
      BY <1>4 DEF OwnIdle
  <2>2. Len(OwnIdle) \in Nat
      BY <1>2, <2>1, LenProperties DEF Stack
  <2>3. \E n \in Sizes : Len(OwnIdle) + out <= n
      BY <1>1 DEF PoolInv, WithinMax
  <2> QED BY <1>1, <1>2, <1>3, <1>4, <2>1, <2>2, <2>3 DEF PoolInv, Reasons, OneOwner
<1>5. CASE ~own
  <2>1. OwnIdle = <<>>
      BY <1>5 DEF OwnIdle
  <2>2. \E n \in Sizes : Len(OwnIdle) + out <= n
      BY <1>1 DEF PoolInv, WithinMax
  <2> QED BY <1>1, <2>1, <2>2, EmptyStack
<1> QED BY <1>4, <1>5

LEMMA CloseType ==
    ASSUME TypeOK, NEW conns, Close(conns)
    PROVE  /\ dead' \subseteq Conns /\ trampled' \in BOOLEAN
           /\ born' = born /\ inherited' = inherited
BY DEF TypeOK, Close

\* Steps that move no connection and no slot.
LEMMA QuietStep ==
    ASSUME PoolInv, TypeOK', UNCHANGED <<idle, out, own, conn, inherited>>,
           \A u \in Threads : pc'[u] \in Slotted <=> pc[u] \in Slotted,
           \A u \in Threads : pc'[u] \in Holding <=> pc[u] \in Holding
    PROVE  PoolInv'
<1>1. InCheckout' = InCheckout
    BY DEF InCheckout
<1>2. IdleConns' = IdleConns /\ HeldConns' = HeldConns /\ OwnIdle' = OwnIdle /\ OwnOut' = OwnOut
    BY DEF IdleConns, HeldConns, OwnIdle, OwnOut
<1>3. Reasons'
    BY <1>1, <1>2 DEF PoolInv, Reasons
<1>4. OneOwner'
    BY <1>2 DEF PoolInv, OneOwner
<1>5. WithinMax'
    BY <1>2 DEF PoolInv, WithinMax
<1> QED BY <1>3, <1>4, <1>5 DEF PoolInv

\* Steps after which the process owns the pool, from what they leave in it.
LEMMA OwnedStep ==
    ASSUME TypeOK', own', Stack(idle'),
           \A u \in Threads : conn'[u] # None <=> pc'[u] \in Holding,
           out' = Cardinality(InCheckout'),
           On(idle') \cap inherited' = {}, On(idle') \cap HeldConns' = {},
           HeldConns' \cap inherited' = {},
           \A u, v \in Threads : conn'[u] = conn'[v] /\ conn'[u] # None => u = v,
           \E n \in Sizes : Len(idle') + out' <= n
    PROVE  PoolInv'
<1>1. IdleConns' = On(idle') /\ OwnIdle' = idle' /\ OwnOut' = out'
    BY DEF IdleConns, On, OwnIdle, OwnOut
<1>2. Reasons'
    BY <1>1 DEF Reasons
<1>3. OneOwner'
    BY <1>1 DEF OneOwner, Stack
<1>4. WithinMax'
    BY <1>1 DEF WithinMax
<1> QED BY <1>2, <1>3, <1>4 DEF PoolInv

-----------------------------------------------------------------------------
(* The steps.                                                              *)

LEMMA InitPool == Init => PoolInv
<1> SUFFICES ASSUME Init PROVE PoolInv
    OBVIOUS
<1>1. TypeOK
  <2>1. idle \in Seq([conn : Conns, gen : 0..MaxDrains]) /\ waiters \in Seq(Threads)
      BY EmptySeq DEF Init
  <2>2. 0 \in 0..MaxDrains /\ 0 \in Nat
      BY RustPoolAssumption
  <2> QED BY <2>1, <2>2 DEF Init, TypeOK
<1>2. InCheckout = {} /\ IdleConns = {} /\ HeldConns = {} /\ DOMAIN idle = {}
    BY DEF Init, InCheckout, Slotted, IdleConns, HeldConns
<1>3. Reasons
    BY <1>2, FS_EmptySet DEF Init, Reasons, Holding
<1>4. OneOwner
    BY <1>2 DEF Init, OneOwner
<1>5. OwnIdle = <<>> /\ OwnOut = 0
    BY DEF Init, OwnIdle, OwnOut
<1>6. WithinMax
  <2>1. max_size \in Sizes /\ max_size \in Nat /\ Len(OwnIdle) = 0
      BY <1>5, RustPoolAssumption, EmptyStack DEF Init
  <2> QED BY <1>5, <2>1 DEF WithinMax
<1> QED BY <1>1, <1>3, <1>4, <1>6 DEF PoolInv

\* The steps that move neither a connection nor a slot.
Quiet(t) ==
    \/ getconn(t) \/ Expire(t) \/ CheckOk(t) \/ putconn(t) \/ drain(t) \/ close(t)

LEMMA QuietSteps ==
    ASSUME PoolInv, NEW t \in Threads, Quiet(t)
    PROVE  PoolInv'
<1>1. pc \in [Threads -> Places]
    BY DEF PoolInv, TypeOK, Places
<1>2. CASE getconn(t)
  <2>1. UNCHANGED <<idle, out, own, conn, inherited>>
      BY <1>2 DEF getconn, poolVars, connVars
  <2>2. TypeOK'
      BY <1>2, RustPoolAssumption DEF PoolInv, TypeOK, getconn, poolVars, sizeVars, connVars, Awake, Slotted
  <2>3. \A u \in Threads : pc'[u] \in Slotted <=> pc[u] \in Slotted
      BY <1>1, <1>2 DEF getconn, Slotted
  <2>4. \A u \in Threads : pc'[u] \in Holding <=> pc[u] \in Holding
      BY <1>1, <1>2 DEF getconn, Holding
  <2> QED BY <2>1, <2>2, <2>3, <2>4, QuietStep
<1>3. CASE Expire(t)
  <2>1. UNCHANGED <<idle, out, own, conn, inherited>>
      BY <1>3 DEF Expire, poolVars, connVars
  <2>2. TypeOK'
      BY <1>3, RustPoolAssumption DEF PoolInv, TypeOK, Expire, poolVars, sizeVars, connVars, Awake, Slotted
  <2>3. \A u \in Threads : pc'[u] \in Slotted <=> pc[u] \in Slotted
      BY <1>1, <1>3 DEF Expire, Slotted
  <2>4. \A u \in Threads : pc'[u] \in Holding <=> pc[u] \in Holding
      BY <1>1, <1>3 DEF Expire, Holding
  <2> QED BY <2>1, <2>2, <2>3, <2>4, QuietStep
<1>4. CASE CheckOk(t)
  <2>1. UNCHANGED <<idle, out, own, conn, inherited>>
      BY <1>4 DEF CheckOk, poolVars, connVars
  <2>2. TypeOK'
      BY <1>4, RustPoolAssumption DEF PoolInv, TypeOK, CheckOk, poolVars, sizeVars, connVars, Awake, Slotted
  <2>3. \A u \in Threads : pc'[u] \in Slotted <=> pc[u] \in Slotted
      BY <1>1, <1>4 DEF CheckOk, Slotted
  <2>4. \A u \in Threads : pc'[u] \in Holding <=> pc[u] \in Holding
      BY <1>1, <1>4 DEF CheckOk, Holding
  <2> QED BY <2>1, <2>2, <2>3, <2>4, QuietStep
<1>5. CASE putconn(t)
  <2>1. UNCHANGED <<idle, out, own, conn, inherited>>
      BY <1>5 DEF putconn, poolVars, connVars
  <2>2. TypeOK'
      BY <1>5, RustPoolAssumption DEF PoolInv, TypeOK, putconn, poolVars, sizeVars, connVars, Awake, Slotted
  <2>3. \A u \in Threads : pc'[u] \in Slotted <=> pc[u] \in Slotted
      BY <1>1, <1>5 DEF putconn, Slotted
  <2>4. \A u \in Threads : pc'[u] \in Holding <=> pc[u] \in Holding
      BY <1>1, <1>5 DEF putconn, Holding
  <2> QED BY <2>1, <2>2, <2>3, <2>4, QuietStep
<1>6. CASE drain(t)
  <2>1. UNCHANGED <<idle, out, own, conn, inherited>>
      BY <1>6 DEF drain, poolVars, connVars
  <2>2. TypeOK'
      BY <1>6, RustPoolAssumption DEF PoolInv, TypeOK, drain, poolVars, sizeVars, connVars, Awake, Slotted
  <2>3. \A u \in Threads : pc'[u] \in Slotted <=> pc[u] \in Slotted
      BY <1>1, <1>6 DEF drain, Slotted
  <2>4. \A u \in Threads : pc'[u] \in Holding <=> pc[u] \in Holding
      BY <1>1, <1>6 DEF drain, Holding
  <2> QED BY <2>1, <2>2, <2>3, <2>4, QuietStep
<1>7. CASE close(t)
  <2>1. UNCHANGED <<idle, out, own, conn, inherited>>
      BY <1>7 DEF close, poolVars, connVars
  <2>2. TypeOK'
      BY <1>7, RustPoolAssumption DEF PoolInv, TypeOK, close, poolVars, sizeVars, connVars, Awake, Slotted
  <2>3. \A u \in Threads : pc'[u] \in Slotted <=> pc[u] \in Slotted
      BY <1>1, <1>7 DEF close, Slotted
  <2>4. \A u \in Threads : pc'[u] \in Holding <=> pc[u] \in Holding
      BY <1>1, <1>7 DEF close, Holding
  <2> QED BY <2>1, <2>2, <2>3, <2>4, QuietStep
<1> QED BY <1>2, <1>3, <1>4, <1>5, <1>6, <1>7 DEF Quiet

LEMMA OperatorSteps ==
    ASSUME PoolInv, open \/ (\E n \in Sizes : resize(n)) \/ (\E c \in Conns : BackendDies(c))
    PROVE  PoolInv'
<1>1. UNCHANGED <<idle, out, own, conn, inherited, pc>>
  <2>1. CASE open
      BY <2>1 DEF open, connVars
  <2>2. ASSUME NEW n \in Sizes, resize(n) PROVE UNCHANGED <<idle, out, own, conn, inherited, pc>>
      BY <2>2 DEF resize, connVars
  <2>3. ASSUME NEW c \in Conns, BackendDies(c) PROVE UNCHANGED <<idle, out, own, conn, inherited, pc>>
      BY <2>3 DEF BackendDies, poolVars
  <2> QED BY <2>1, <2>2, <2>3
<1>2. TypeOK'
  <2>1. CASE open
      BY <2>1 DEF PoolInv, TypeOK, open, sizeVars, connVars
  <2>2. ASSUME NEW n \in Sizes, resize(n) PROVE TypeOK'
    <3>1. floor' \in Sizes
      <4>1. floor \in Sizes /\ floor \in Nat /\ n \in Nat
          BY RustPoolAssumption DEF PoolInv, TypeOK
      <4>2. \E x \in {floor, n} : \A y \in {floor, n} : x <= y
          BY <4>1
      <4>3. Min({floor, n}) \in {floor, n}
          BY <4>2 DEF Min
      <4> QED BY <2>2, <4>1, <4>3 DEF resize
    <3> QED BY <2>2, <3>1 DEF PoolInv, TypeOK, resize, connVars
  <2>3. ASSUME NEW c \in Conns, BackendDies(c) PROVE TypeOK'
      BY <2>3 DEF PoolInv, TypeOK, BackendDies, poolVars, sizeVars
  <2> QED BY <2>1, <2>2, <2>3
<1> QED BY <1>1, <1>2, QuietStep

LEMMA StutterStep ==
    ASSUME PoolInv, UNCHANGED vars
    PROVE  PoolInv'
<1>1. UNCHANGED <<idle, out, own, conn, inherited, pc>> /\ TypeOK'
    BY DEF PoolInv, TypeOK, vars, poolVars, sizeVars, connVars
<1> QED BY <1>1, QuietStep

LEMMA ForkStep ==
    ASSUME PoolInv, Fork
    PROVE  PoolInv'
<1>1. TypeOK'
  <2>1. IdleConns \subseteq Conns
    <3>1. idle \in Seq(Entry)
        BY DEF PoolInv, TypeOK, Entry
    <3>2. \A i \in DOMAIN idle : idle[i] \in Entry
        BY <3>1, LenProperties, ElementOfSeq
    <3> QED BY <3>2 DEF IdleConns, Entry
  <2> QED BY <2>1 DEF PoolInv, TypeOK, Fork, sizeVars
<1>2. InCheckout' = InCheckout /\ IdleConns' = IdleConns /\ HeldConns' = HeldConns
    BY DEF Fork, InCheckout, IdleConns, HeldConns
<1>3. Reasons'
    BY <1>2 DEF PoolInv, Reasons, Fork, Slotted
<1>4. OneOwner'
    BY <1>2 DEF PoolInv, OneOwner, Fork
<1>5. OwnIdle' = <<>> /\ OwnOut' = 0
    BY DEF Fork, OwnIdle, OwnOut
<1>6. WithinMax'
  <2>1. max_size' \in Sizes /\ max_size' \in Nat /\ Len(OwnIdle') = 0
      BY <1>1, <1>5, RustPoolAssumption, EmptyStack DEF TypeOK
  <2> QED BY <1>5, <2>1 DEF WithinMax
<1> QED BY <1>1, <1>3, <1>4, <1>6 DEF PoolInv

\* What leaving the list and a notify keep of the shapes.
LEMMA QueueType ==
    ASSUME TypeOK, NEW t \in Threads
    PROVE  /\ Left(t) \in Seq(Threads) /\ Append(Left(t), t) \in Seq(Threads)
           /\ pc \in [Threads -> Places]
           /\ \A status \in [Threads -> Places] : Notify(status) =>
                 /\ waiters' \in Seq(Threads) /\ pc' \in [Threads -> Places]
                 /\ \A u \in Threads : pc'[u] \in Slotted <=> status[u] \in Slotted
                 /\ \A u \in Threads : pc'[u] \in Holding <=> status[u] \in Holding
<1>1. waiters \in Seq(Threads) /\ pc \in [Threads -> Places]
    BY DEF TypeOK, Places
<1>2. Left(t) \in Seq(Threads)
    BY <1>1, LeftQueue
<1>3. Append(Left(t), t) \in Seq(Threads)
    BY <1>2, AppendProperties
<1>4. ASSUME NEW status \in [Threads -> Places], Notify(status)
      PROVE  /\ waiters' \in Seq(Threads) /\ pc' \in [Threads -> Places]
             /\ \A u \in Threads : (pc'[u] \in Slotted <=> status[u] \in Slotted)
             /\ \A u \in Threads : (pc'[u] \in Holding <=> status[u] \in Holding)
  <2>1. /\ waiters' \in Seq(Threads) /\ pc' \in [Threads -> Places]
        /\ \A u \in Threads : pc'[u] = status[u] \/ (status[u] = "sleeping" /\ pc'[u] = "get")
      BY <1>1, <1>4, Notified
  <2> QED BY <2>1 DEF Slotted, Holding
<1> QED BY <1>1, <1>2, <1>3, <1>4

\* Giving up: the pool is closed or nothing came.
GivesUp(t) == RaiseClosed(t) \/ Sleep(t) \/ RaiseTimeout(t)

LEMMA GiveUpStep ==
    ASSUME PoolInv, NEW t \in Threads, GivesUp(t)
    PROVE  PoolInv'
<1>1. TypeOK /\ Reasons /\ OneOwner /\ pc \in [Threads -> Places]
    BY QueueType DEF PoolInv
<1>2. /\ out' = out /\ own' /\ conn' = conn /\ inherited' = inherited
      /\ idle' = OwnIdle \/ idle' = <<>>
      /\ pc[t] \in Awake
      /\ pc' = [pc EXCEPT ![t] = "away"] \/ pc' = [pc EXCEPT ![t] = "sleeping"]
  <2>1. CASE RaiseClosed(t)
      BY <2>1, OwnView DEF RaiseClosed, connVars
  <2>2. CASE Sleep(t)
      BY <2>2, OwnView DEF Sleep, EmptyIdle, Close, Awake
  <2>3. CASE RaiseTimeout(t)
      BY <2>3, OwnView DEF RaiseTimeout, EmptyIdle, Close
  <2> QED BY <2>1, <2>2, <2>3 DEF GivesUp
<1>3. Stack(idle') /\ On(idle') \subseteq On(OwnIdle) /\ Len(idle') <= Len(OwnIdle) /\ Len(idle') \in Nat
    BY <1>2, OwnView, EmptyStack
<1>4. TypeOK'
  <2>1. waiters' \in Seq(Threads)
      BY <1>1, QueueType DEF GivesUp, RaiseClosed, Sleep, RaiseTimeout
  <2>2. dead' \subseteq Conns /\ trampled' \in BOOLEAN /\ born' = born
    <3>1. CASE RaiseClosed(t)
        BY <1>1, <3>1 DEF RaiseClosed, connVars, TypeOK
    <3>2. CASE Sleep(t)
        BY <1>1, <3>2, CloseType DEF Sleep, EmptyIdle
    <3>3. CASE RaiseTimeout(t)
        BY <1>1, <3>3, CloseType DEF RaiseTimeout, EmptyIdle
    <3> QED BY <3>1, <3>2, <3>3 DEF GivesUp
  <2>3. UNCHANGED <<generation, closed, max_size, floor, gen, drained, since>>
    <3>1. CASE RaiseClosed(t)
        BY <3>1 DEF RaiseClosed, sizeVars
    <3>2. CASE Sleep(t)
        BY <3>2 DEF Sleep, sizeVars
    <3>3. CASE RaiseTimeout(t)
        BY <3>3 DEF RaiseTimeout, sizeVars
    <3> QED BY <3>1, <3>2, <3>3 DEF GivesUp
  <2>4. idle' \in Seq([conn : Conns, gen : 0..MaxDrains])
      BY <1>3 DEF Stack, Entry
  <2>5. pc' \in [Threads -> Places]
      BY <1>1, <1>2 DEF Places
  <2> QED BY <1>1, <1>2, <2>1, <2>2, <2>3, <2>4, <2>5 DEF TypeOK, Places
<1>5. /\ \A u \in Threads : pc'[u] \in Slotted <=> pc[u] \in Slotted
      /\ \A u \in Threads : pc'[u] \in Holding <=> pc[u] \in Holding
    BY <1>1, <1>2 DEF Slotted, Holding, Awake
<1>6. InCheckout' = InCheckout /\ HeldConns' = HeldConns
    BY <1>2, <1>5 DEF InCheckout, HeldConns
<1>7. \E n \in Sizes : Len(idle') + out' <= n
  <2>1. PICK n \in Sizes : Len(OwnIdle) + out <= n
      BY OwnView
  <2>2. Len(OwnIdle) \in Nat /\ out \in Nat /\ n \in Nat
      BY <1>1, OwnView, RustPoolAssumption DEF TypeOK
  <2> QED BY <1>2, <1>3, <2>1, <2>2
<1>8. On(idle') \cap inherited' = {} /\ On(idle') \cap HeldConns' = {}
    BY <1>2, <1>3, <1>6, OwnView
<1>9. /\ \A u \in Threads : conn'[u] # None <=> pc'[u] \in Holding
      /\ out' = Cardinality(InCheckout')
    BY <1>1, <1>2, <1>5, <1>6 DEF Reasons
<1>10. /\ HeldConns' \cap inherited' = {}
       /\ \A u, v \in Threads : conn'[u] = conn'[v] /\ conn'[u] # None => u = v
    BY <1>1, <1>2, <1>6 DEF OneOwner
<1> QED BY <1>2, <1>3, <1>4, <1>7, <1>8, <1>9, <1>10, OwnedStep

LEMMA PopStep ==
    ASSUME PoolInv, NEW t \in Threads, PopIdle(t)
    PROVE  PoolInv'
<1>1. TypeOK /\ Reasons /\ OneOwner /\ pc \in [Threads -> Places]
    BY QueueType DEF PoolInv
<1>2. PICK k \in DOMAIN OwnIdle :
         /\ conn' = [conn EXCEPT ![t] = OwnIdle[k].conn]
         /\ idle' = SubSeq(OwnIdle, 1, k - 1)
         /\ Close({OwnIdle[j].conn : j \in (k + 1)..Len(OwnIdle)})
    BY DEF PopIdle
<1> DEFINE c == OwnIdle[k].conn
<1>3. /\ Stack(idle') /\ Len(idle') = k - 1 /\ k \in 1..Len(OwnIdle)
      /\ On(idle') \subseteq On(OwnIdle)
      /\ OwnIdle[k] \in Entry /\ c \in On(OwnIdle) /\ c \notin On(idle')
  <2>1. Stack(OwnIdle) /\ k \in DOMAIN OwnIdle /\ idle' = SubSeq(OwnIdle, 1, k - 1)
      BY <1>2, OwnView
  <2> QED BY <2>1, CutStack
<1>4. /\ c \in Conns /\ c # None /\ c \notin inherited /\ c \notin HeldConns
      /\ conn' = [conn EXCEPT ![t] = c]
    BY <1>2, <1>3, OwnView, RustPoolAssumption DEF Entry
<1> HIDE DEF c
<1>5. /\ out' = out + 1 /\ own' /\ inherited' = inherited
      /\ pc[t] \in Awake /\ pc' = [pc EXCEPT ![t] = "checking"]
    BY <1>2, OwnView DEF PopIdle, Close
<1>6. conn[t] = None
    BY <1>1, <1>5 DEF Reasons, Holding, Awake
<1>7. TypeOK'
  <2>1. waiters' \in Seq(Threads)
      BY <1>1, QueueType DEF PopIdle
  <2>2. dead' \subseteq Conns /\ trampled' \in BOOLEAN /\ born' = born
      BY <1>1, <1>2, CloseType
  <2>3. UNCHANGED <<generation, closed, max_size, floor, drained, since>>
      BY DEF PopIdle, sizeVars
  <2>4. idle' \in Seq([conn : Conns, gen : 0..MaxDrains])
      BY <1>3 DEF Stack, Entry
  <2>5. pc' \in [Threads -> Places]
      BY <1>1, <1>5 DEF Places, Slotted
  <2>6. gen' \in [Threads -> 0..MaxDrains]
      BY <1>1 DEF PopIdle, TypeOK
  <2>7. conn' \in [Threads -> Conns \cup {None}] /\ out' \in Nat
      BY <1>1, <1>4, <1>5 DEF TypeOK
  <2> QED BY <1>1, <1>5, <2>1, <2>2, <2>3, <2>4, <2>5, <2>6, <2>7 DEF TypeOK, Places
<1>8. out' = Cardinality(InCheckout')
  <2>1. /\ \A u \in Threads \ {t} : pc'[u] \in Slotted <=> pc[u] \in Slotted
        /\ pc'[t] \in Slotted /\ pc[t] \notin Slotted
      BY <1>1, <1>5 DEF Slotted, Awake
  <2> QED BY <1>1, <1>5, <2>1, SlotStep DEF Reasons
<1>9. \A u \in Threads : conn'[u] # None <=> pc'[u] \in Holding
  <2>1. conn'[t] = c /\ pc'[t] = "checking"
      BY <1>1, <1>4, <1>5 DEF TypeOK
  <2>2. \A u \in Threads \ {t} : conn'[u] = conn[u] /\ pc'[u] = pc[u]
      BY <1>1, <1>4, <1>5 DEF TypeOK
  <2> QED BY <1>1, <1>4, <2>1, <2>2 DEF Reasons, Holding
<1>10. HeldConns' = HeldConns \cup {c}
    BY <1>1, <1>4, <1>6 DEF HeldConns, TypeOK
<1>11. On(idle') \cap inherited' = {} /\ On(idle') \cap HeldConns' = {}
    BY <1>3, <1>5, <1>10, OwnView
<1>12. HeldConns' \cap inherited' = {}
    BY <1>1, <1>4, <1>5, <1>10 DEF OneOwner
<1>13. \A u, v \in Threads : conn'[u] = conn'[v] /\ conn'[u] # None => u = v
    BY <1>1, <1>4 DEF OneOwner, HeldConns, TypeOK
<1>14. \E n \in Sizes : Len(idle') + out' <= n
  <2>1. PICK n \in Sizes : Len(OwnIdle) + out <= n
      BY OwnView
  <2>2. Len(OwnIdle) \in Nat /\ out \in Nat /\ n \in Nat
      BY <1>1, OwnView, RustPoolAssumption DEF TypeOK
  <2> QED BY <1>3, <1>5, <2>1, <2>2
<1> QED BY <1>3, <1>5, <1>7, <1>8, <1>9, <1>11, <1>12, <1>13, <1>14, OwnedStep

LEMMA TakeStep ==
    ASSUME PoolInv, NEW t \in Threads, TakeSlot(t)
    PROVE  PoolInv'
<1>1. TypeOK /\ Reasons /\ OneOwner /\ pc \in [Threads -> Places]
    BY QueueType DEF PoolInv
<1>2. /\ out' = out + 1 /\ own' /\ inherited' = inherited /\ idle' = <<>> /\ conn' = conn
      /\ pc[t] \in Awake /\ pc' = [pc EXCEPT ![t] = "opening"] /\ out < max_size
    <2>1. out \in Nat /\ max_size \in Nat /\ OwnOut = out
        BY <1>1, OwnView, RustPoolAssumption DEF TypeOK
    <2> QED BY <2>1 DEF TakeSlot, EmptyIdle, Close, Full
<1>3. TypeOK'
  <2>1. waiters' \in Seq(Threads)
      BY <1>1, QueueType DEF TakeSlot
  <2>2. dead' \subseteq Conns /\ trampled' \in BOOLEAN /\ born' = born
      BY <1>1, CloseType DEF TakeSlot, EmptyIdle
  <2>3. UNCHANGED <<generation, closed, max_size, floor, drained, since>>
      BY DEF TakeSlot, sizeVars
  <2>4. idle' \in Seq([conn : Conns, gen : 0..MaxDrains])
      BY <1>2, EmptySeq
  <2>5. pc' \in [Threads -> Places]
      BY <1>1, <1>2 DEF Places, Slotted
  <2>6. gen' \in [Threads -> 0..MaxDrains] /\ out' \in Nat
      BY <1>1, <1>2 DEF TakeSlot, TypeOK
  <2> QED BY <1>1, <1>2, <2>1, <2>2, <2>3, <2>4, <2>5, <2>6 DEF TypeOK, Places
<1>4. out' = Cardinality(InCheckout')
  <2>1. /\ \A u \in Threads \ {t} : pc'[u] \in Slotted <=> pc[u] \in Slotted
        /\ pc'[t] \in Slotted /\ pc[t] \notin Slotted
      BY <1>1, <1>2 DEF Slotted, Awake
  <2> QED BY <1>1, <1>2, <2>1, SlotStep DEF Reasons
<1>5. \A u \in Threads : conn'[u] # None <=> pc'[u] \in Holding
    BY <1>1, <1>2 DEF Reasons, Holding, Awake
<1>6. HeldConns' = HeldConns
    BY <1>2 DEF HeldConns
<1>7. /\ HeldConns' \cap inherited' = {}
      /\ \A u, v \in Threads : conn'[u] = conn'[v] /\ conn'[u] # None => u = v
    BY <1>1, <1>2, <1>6 DEF OneOwner
<1>8. \E n \in Sizes : Len(idle') + out' <= n
  <2>1. max_size \in Sizes /\ max_size \in Nat /\ out \in Nat
      BY <1>1, RustPoolAssumption DEF TypeOK
  <2> QED BY <1>2, <2>1, EmptyStack
<1> QED BY <1>2, <1>3, <1>4, <1>5, <1>7, <1>8, EmptyStack, OwnedStep

LEMMA OpenStep ==
    ASSUME PoolInv, NEW t \in Threads, OpenOk(t)
    PROVE  PoolInv'
<1>1. TypeOK /\ Reasons /\ OneOwner /\ pc \in [Threads -> Places]
    BY QueueType DEF PoolInv
<1> DEFINE c == CHOOSE c \in FreeConns : TRUE
<1>2. c \in FreeConns
    BY DEF OpenOk
<1>3. conn' = [conn EXCEPT ![t] = c] /\ born' = [born EXCEPT ![c] = generation]
    BY DEF OpenOk
<1> HIDE DEF c
<1>4. c \in Conns /\ c # None /\ c \notin IdleConns /\ c \notin HeldConns /\ c \notin inherited
    BY <1>2, RustPoolAssumption DEF FreeConns
<1>5. /\ UNCHANGED <<idle, out, own, inherited>>
      /\ pc[t] = "opening" /\ pc' = [pc EXCEPT ![t] = "using"]
    BY DEF OpenOk, poolVars
<1>6. own /\ OwnIdle = idle /\ conn[t] = None
    BY <1>1, <1>5, SlotHeld DEF Slotted, Holding, Reasons
<1>7. TypeOK'
  <2>1. conn' \in [Threads -> Conns \cup {None}] /\ born' \in [Conns -> 0..MaxDrains]
      BY <1>1, <1>3, <1>4 DEF TypeOK
  <2>2. pc' \in [Threads -> Places]
      BY <1>1, <1>5 DEF Places, Slotted
  <2> QED BY <1>1, <2>1, <2>2 DEF OpenOk, poolVars, sizeVars, TypeOK, Places
<1>8. out' = Cardinality(InCheckout')
  <2>1. /\ \A u \in Threads \ {t} : pc'[u] \in Slotted <=> pc[u] \in Slotted
        /\ pc'[t] \in Slotted /\ pc[t] \in Slotted
      BY <1>1, <1>5 DEF Slotted
  <2> QED BY <1>1, <1>5, <2>1, SlotStep DEF Reasons
<1>9. \A u \in Threads : conn'[u] # None <=> pc'[u] \in Holding
  <2>1. conn'[t] = c /\ pc'[t] = "using"
      BY <1>1, <1>3, <1>5 DEF TypeOK
  <2>2. \A u \in Threads \ {t} : conn'[u] = conn[u] /\ pc'[u] = pc[u]
      BY <1>1, <1>3, <1>5 DEF TypeOK
  <2> QED BY <1>1, <1>4, <2>1, <2>2 DEF Reasons, Holding
<1>10. HeldConns' = HeldConns \cup {c}
    BY <1>1, <1>3, <1>4, <1>6 DEF HeldConns, TypeOK
<1>11. On(idle') = IdleConns
    BY <1>5 DEF On, IdleConns
<1>12. On(idle') \cap inherited' = {} /\ On(idle') \cap HeldConns' = {}
    BY <1>1, <1>4, <1>5, <1>6, <1>10, <1>11 DEF Reasons, OneOwner
<1>13. HeldConns' \cap inherited' = {}
    BY <1>1, <1>4, <1>5, <1>10 DEF OneOwner
<1>14. \A u, v \in Threads : conn'[u] = conn'[v] /\ conn'[u] # None => u = v
    BY <1>1, <1>3, <1>4 DEF OneOwner, HeldConns, TypeOK
<1>15. Stack(idle') /\ \E n \in Sizes : Len(idle') + out' <= n
    BY <1>5, <1>6, OwnView
<1> QED BY <1>5, <1>6, <1>7, <1>8, <1>9, <1>12, <1>13, <1>14, <1>15, OwnedStep

\* The ways a checkout ends with its connection closed, or with none.
GivesBack(t) == OpenFails(t) \/ CheckFails(t) \/ PutClosed(t)

LEMMA GiveBackStep ==
    ASSUME PoolInv, NEW t \in Threads, GivesBack(t)
    PROVE  PoolInv'
<1>1. TypeOK /\ Reasons /\ OneOwner /\ pc \in [Threads -> Places]
    BY QueueType DEF PoolInv
<1>2. pc[t] \in Slotted
    BY DEF GivesBack, OpenFails, CheckFails, PutClosed, Slotted
<1>3. out \in Nat \ {0} /\ own /\ OwnIdle = idle /\ GivenBack = out - 1
    BY <1>2, SlotHeld
<1>4. /\ idle' = idle /\ out' = out - 1 /\ own'
      /\ UNCHANGED <<generation, closed, max_size, floor, gen, drained, since>>
    BY <1>3 DEF GivesBack, OpenFails, CheckFails, PutClosed, sizeVars
<1>5. conn' = [conn EXCEPT ![t] = None]
  <2>1. CASE OpenFails(t)
    <3>1. conn[t] = None
        BY <1>1, <2>1 DEF OpenFails, Reasons, Holding
    <3> QED BY <1>1, <2>1, <3>1 DEF OpenFails, TypeOK
  <2> QED BY <2>1 DEF GivesBack, CheckFails, PutClosed
<1>6. dead' \subseteq Conns /\ trampled' \in BOOLEAN /\ born' = born /\ inherited' = inherited
  <2>1. CASE OpenFails(t)
      BY <1>1, <2>1 DEF OpenFails, connVars, TypeOK
  <2> QED BY <1>1, <2>1, CloseType DEF GivesBack, CheckFails, PutClosed
<1>7. \E status \in [Threads -> Places] :
         /\ status = [pc EXCEPT ![t] = "away"] \/ status = [pc EXCEPT ![t] = "get"]
         /\ Notify(status)
    BY <1>1 DEF GivesBack, OpenFails, CheckFails, PutClosed, Places, Awake
<1>8. PICK status \in [Threads -> Places] :
         /\ status = [pc EXCEPT ![t] = "away"] \/ status = [pc EXCEPT ![t] = "get"]
         /\ Notify(status)
    BY <1>7
<1>9. /\ waiters' \in Seq(Threads) /\ pc' \in [Threads -> Places]
      /\ \A u \in Threads : pc'[u] \in Slotted <=> status[u] \in Slotted
      /\ \A u \in Threads : pc'[u] \in Holding <=> status[u] \in Holding
    BY <1>1, <1>8, QueueType
<1>10. TypeOK'
  <2>1. conn' \in [Threads -> Conns \cup {None}] /\ out' \in Nat
      BY <1>1, <1>3, <1>4, <1>5 DEF TypeOK
  <2> QED BY <1>1, <1>4, <1>6, <1>9, <2>1 DEF TypeOK, Places
<1>11. out' = Cardinality(InCheckout')
  <2>1. /\ \A u \in Threads \ {t} : pc'[u] \in Slotted <=> pc[u] \in Slotted
        /\ pc'[t] \notin Slotted
      BY <1>1, <1>8, <1>9 DEF Slotted
  <2> QED BY <1>1, <1>2, <1>4, <2>1, SlotStep DEF Reasons
<1>12. \A u \in Threads : conn'[u] # None <=> pc'[u] \in Holding
  <2>1. conn'[t] = None /\ pc'[t] \notin Holding
      BY <1>1, <1>5, <1>8, <1>9 DEF TypeOK, Holding
  <2>2. \A u \in Threads \ {t} : conn'[u] = conn[u] /\ (pc'[u] \in Holding <=> pc[u] \in Holding)
      BY <1>1, <1>5, <1>8, <1>9 DEF TypeOK
  <2> QED BY <1>1, <2>1, <2>2 DEF Reasons
<1>13. HeldConns' \subseteq HeldConns
    BY <1>1, <1>5 DEF HeldConns, TypeOK
<1>14. On(idle') = IdleConns
    BY <1>4 DEF On, IdleConns
<1>15. /\ On(idle') \cap inherited' = {} /\ On(idle') \cap HeldConns' = {}
       /\ HeldConns' \cap inherited' = {}
    BY <1>1, <1>3, <1>6, <1>13, <1>14 DEF Reasons, OneOwner
<1>16. \A u, v \in Threads : conn'[u] = conn'[v] /\ conn'[u] # None => u = v
    BY <1>1, <1>5 DEF OneOwner, TypeOK
<1>17. Stack(idle') /\ \E n \in Sizes : Len(idle') + out' <= n
  <2>1. PICK n \in Sizes : Len(idle) + out <= n
      BY <1>3, OwnView
  <2>2. Len(idle) \in Nat /\ n \in Nat /\ Stack(idle)
      BY <1>3, OwnView, RustPoolAssumption
  <2> QED BY <1>3, <1>4, <2>1, <2>2
<1> QED BY <1>4, <1>10, <1>11, <1>12, <1>15, <1>16, <1>17, OwnedStep

LEMMA PutIdleStep ==
    ASSUME PoolInv, NEW t \in Threads, PutIdle(t)
    PROVE  PoolInv'
<1>1. TypeOK /\ Reasons /\ OneOwner /\ pc \in [Threads -> Places]
    BY QueueType DEF PoolInv
<1>2. pc[t] = "resetting" /\ pc[t] \in Slotted
    BY DEF PutIdle, Slotted
<1>3. out \in Nat \ {0} /\ own /\ OwnIdle = idle /\ GivenBack = out - 1
    BY <1>2, SlotHeld
<1> DEFINE e == [conn |-> conn[t], gen |-> generation]
<1>4. /\ conn[t] # None /\ conn[t] \in HeldConns /\ e \in Entry
    BY <1>1, <1>2 DEF Reasons, Holding, HeldConns, TypeOK, Entry
<1>5. /\ idle' = Append(idle, e) /\ out' = out - 1 /\ own'
      /\ conn' = [conn EXCEPT ![t] = None] /\ inherited' = inherited
      /\ UNCHANGED <<generation, closed, max_size, floor, gen, drained, since, dead, born, trampled>>
    BY <1>3 DEF PutIdle, sizeVars, connVars
<1>6. e.conn = conn[t]
    OBVIOUS
<1> HIDE DEF e
<1>7. Stack(idle) /\ e.conn \notin On(idle) /\ On(idle) = IdleConns
  <2>1. On(idle) = IdleConns
      BY DEF On, IdleConns
  <2>2. Stack(idle) /\ On(idle) \cap HeldConns = {}
      BY <1>3, OwnView
  <2> QED BY <1>4, <1>6, <2>1, <2>2
<1>8. /\ Stack(idle') /\ Len(idle') = Len(idle) + 1 /\ Len(idle) \in Nat
      /\ On(idle') = IdleConns \cup {conn[t]}
    BY <1>4, <1>5, <1>6, <1>7, PushStack
<1> DEFINE status == [pc EXCEPT ![t] = "away"]
<1>9. status \in [Threads -> Places] /\ Notify(status)
    BY <1>1 DEF PutIdle, Places
<1>10. /\ waiters' \in Seq(Threads) /\ pc' \in [Threads -> Places]
       /\ \A u \in Threads : pc'[u] \in Slotted <=> status[u] \in Slotted
       /\ \A u \in Threads : pc'[u] \in Holding <=> status[u] \in Holding
    BY <1>1, <1>9, QueueType
<1>11. /\ \A u \in Threads \ {t} : pc'[u] \in Slotted <=> pc[u] \in Slotted
       /\ \A u \in Threads \ {t} : pc'[u] \in Holding <=> pc[u] \in Holding
       /\ pc'[t] \notin Slotted /\ pc'[t] \notin Holding
    BY <1>1, <1>10 DEF Slotted, Holding
<1>12. TypeOK'
  <2>1. conn' \in [Threads -> Conns \cup {None}] /\ out' \in Nat
      BY <1>1, <1>3, <1>5 DEF TypeOK
  <2>2. idle' \in Seq([conn : Conns, gen : 0..MaxDrains])
      BY <1>8 DEF Stack, Entry
  <2> QED BY <1>1, <1>5, <1>10, <2>1, <2>2 DEF TypeOK, Places
<1>13. out' = Cardinality(InCheckout')
    BY <1>1, <1>2, <1>5, <1>11, SlotStep DEF Reasons
<1>14. \A u \in Threads : conn'[u] # None <=> pc'[u] \in Holding
  <2>1. conn'[t] = None
      BY <1>1, <1>5 DEF TypeOK
  <2>2. \A u \in Threads \ {t} : conn'[u] = conn[u]
      BY <1>1, <1>5 DEF TypeOK
  <2> QED BY <1>1, <1>11, <2>1, <2>2 DEF Reasons
<1>15. HeldConns' = HeldConns \ {conn[t]}
    BY <1>1, <1>4, <1>5 DEF HeldConns, TypeOK, OneOwner
<1>16. /\ On(idle') \cap inherited' = {} /\ On(idle') \cap HeldConns' = {}
       /\ HeldConns' \cap inherited' = {}
    BY <1>1, <1>3, <1>4, <1>5, <1>8, <1>15 DEF Reasons, OneOwner
<1>17. \A u, v \in Threads : conn'[u] = conn'[v] /\ conn'[u] # None => u = v
    BY <1>1, <1>5 DEF OneOwner, TypeOK
<1>18. \E n \in Sizes : Len(idle') + out' <= n
  <2>1. PICK n \in Sizes : Len(idle) + out <= n
      BY <1>3, OwnView
  <2>2. n \in Nat
      BY RustPoolAssumption
  <2> QED BY <1>3, <1>5, <1>8, <2>1, <2>2
<1> QED BY <1>5, <1>8, <1>12, <1>13, <1>14, <1>16, <1>17, <1>18, OwnedStep

LEMMA EvictStep ==
    ASSUME PoolInv, NEW t \in Threads, Evict(t)
    PROVE  PoolInv'
<1>1. TypeOK /\ Reasons /\ OneOwner /\ pc \in [Threads -> Places]
    BY QueueType DEF PoolInv
<1>2. /\ idle' = <<>> /\ waiters' = <<>>
      /\ UNCHANGED <<out, generation, closed, max_size, floor, own, conn, gen, since>>
    BY DEF Evict, NotifyAll, sizeVars
<1>3. dead' \subseteq Conns /\ trampled' \in BOOLEAN /\ born' = born /\ inherited' = inherited
    BY <1>1, CloseType DEF Evict
<1>4. /\ pc' \in [Threads -> Places]
      /\ \A u \in Threads : pc'[u] \in Slotted <=> pc[u] \in Slotted
      /\ \A u \in Threads : pc'[u] \in Holding <=> pc[u] \in Holding
  <2> DEFINE status == [pc EXCEPT ![t] = "away"]
  <2>1. /\ status \in [Threads -> Places] /\ pc[t] \in {"draining", "closing"}
        /\ pc' = [u \in Threads |-> IF status[u] = "sleeping" THEN "get" ELSE status[u]]
      BY <1>1 DEF Evict, NotifyAll, Places
  <2>2. pc' \in [Threads -> Places]
      BY <2>1 DEF Places, Awake
  <2>3. \A u \in Threads : status[u] = IF u = t THEN "away" ELSE pc[u]
      BY <1>1
  <2> QED BY <1>1, <2>1, <2>2, <2>3 DEF Slotted, Holding
<1>5. TypeOK'
  <2>1. idle' \in Seq([conn : Conns, gen : 0..MaxDrains]) /\ waiters' \in Seq(Threads)
      BY <1>2, EmptySeq
  <2>2. drained' \in 0..MaxDrains
      BY <1>1 DEF Evict, TypeOK
  <2> QED BY <1>1, <1>2, <1>3, <1>4, <2>1, <2>2 DEF TypeOK, Places
<1>6. InCheckout' = InCheckout /\ HeldConns' = HeldConns /\ IdleConns' = {} /\ DOMAIN idle' = {}
    BY <1>2, <1>4 DEF InCheckout, HeldConns, IdleConns
<1>7. Reasons'
    BY <1>1, <1>2, <1>4, <1>6 DEF Reasons
<1>8. OneOwner'
    BY <1>1, <1>2, <1>3, <1>6 DEF OneOwner
<1>9. OwnIdle' = <<>> /\ OwnOut' = OwnOut
    BY <1>2 DEF OwnIdle, OwnOut
<1>10. WithinMax'
  <2>1. PICK n \in Sizes : Len(OwnIdle) + out <= n
      BY OwnView
  <2>2. n \in Nat /\ Len(OwnIdle) \in Nat /\ out \in Nat /\ OwnOut = out /\ Len(OwnIdle') = 0
      BY <1>1, <1>9, OwnView, EmptyStack, RustPoolAssumption DEF TypeOK
  <2> QED BY <1>9, <2>1, <2>2 DEF WithinMax
<1> QED BY <1>5, <1>7, <1>8, <1>10 DEF PoolInv

LEMMA NextPool == PoolInv /\ [Next]_vars => PoolInv'
<1> SUFFICES ASSUME PoolInv, [Next]_vars PROVE PoolInv'
    OBVIOUS
<1>1. ASSUME NEW t \in Threads, Getting(t) PROVE PoolInv'
  <2>1. CASE getconn(t) \/ Expire(t) \/ CheckOk(t)
      BY <2>1, QuietSteps DEF Quiet
  <2>2. CASE RaiseClosed(t) \/ Sleep(t) \/ RaiseTimeout(t)
      BY <2>2, GiveUpStep DEF GivesUp
  <2>3. CASE PopIdle(t)
      BY <2>3, PopStep
  <2>4. CASE TakeSlot(t)
      BY <2>4, TakeStep
  <2>5. CASE OpenOk(t)
      BY <2>5, OpenStep
  <2>6. CASE OpenFails(t) \/ CheckFails(t)
      BY <2>6, GiveBackStep DEF GivesBack
  <2> QED BY <1>1, <2>1, <2>2, <2>3, <2>4, <2>5, <2>6 DEF Getting
<1>2. ASSUME NEW t \in Threads,
             putconn(t) \/ PutIdle(t) \/ PutClosed(t) \/ drain(t) \/ close(t) \/ Evict(t)
      PROVE  PoolInv'
  <2>1. CASE putconn(t) \/ drain(t) \/ close(t)
      BY <2>1, QuietSteps DEF Quiet
  <2>2. CASE PutIdle(t)
      BY <2>2, PutIdleStep
  <2>3. CASE PutClosed(t)
      BY <2>3, GiveBackStep DEF GivesBack
  <2>4. CASE Evict(t)
      BY <2>4, EvictStep
  <2> QED BY <1>2, <2>1, <2>2, <2>3, <2>4
<1>3. CASE open \/ (\E n \in Sizes : resize(n)) \/ (\E c \in Conns : BackendDies(c))
    BY <1>3, OperatorSteps
<1>4. CASE Fork
    BY <1>4, ForkStep
<1>5. CASE UNCHANGED vars
    BY <1>5, StutterStep
<1> QED BY <1>1, <1>2, <1>3, <1>4, <1>5 DEF Next

LEMMA PoolInvariant == Spec => []PoolInv
BY InitPool, NextPool, PTL DEF Spec

\* No slot is lost or given back twice, no connection has two owners and the pool
\* stays within its sizes, for any threads, sizes and number of drains, across
\* failed connects, timeouts, drains, closes and a fork (getconn, putconn).
THEOREM SlotsAreConserved == Spec => []SlotsConserved
<1>1. PoolInv => SlotsConserved
    BY DEF PoolInv, Reasons, SlotsConserved, SlotsAccounted, InCheckout
<1> QED BY <1>1, PoolInvariant, PTL

-----------------------------------------------------------------------------
(* Drains.  The generation a checkout starts in is no older than the drains *)
(* that had returned when its thread called getconn, and the connection it  *)
(* gets is no older than that generation.                                   *)

GenInv ==
    /\ drained <= generation
    /\ \A t \in Threads : since[t] <= drained /\ gen[t] <= generation
    /\ \A i \in DOMAIN idle : idle[i].gen <= born[idle[i].conn]
    /\ \A t \in Threads : pc[t] \in Slotted => since[t] <= gen[t]
    /\ \A t \in Threads : conn[t] # None => gen[t] <= born[conn[t]]

LEMMA InitGen == Init => GenInv
BY EmptySeq DEF Init, GenInv, Slotted

\* Steps that start no checkout and touch no generation.
LEMMA FadingStep ==
    ASSUME GenInv, UNCHANGED <<generation, drained, since, gen, born>>,
           \A i \in DOMAIN idle' : \E j \in DOMAIN idle : idle'[i] = idle[j],
           \A u \in Threads : pc'[u] \in Slotted => pc[u] \in Slotted,
           \A u \in Threads : conn'[u] = conn[u] \/ conn'[u] = None
    PROVE  GenInv'
BY DEF GenInv

\* What a process looks at is idle.
LEMMA OwnIsIdle == \A i \in DOMAIN OwnIdle : \E j \in DOMAIN idle : OwnIdle[i] = idle[j]
<1>1. DOMAIN <<>> = {}
    OBVIOUS
<1> QED BY <1>1 DEF OwnIdle

LEMMA FadingSteps ==
    ASSUME PoolInv, GenInv, NEW t \in Threads,
           \/ Expire(t) \/ GivesUp(t) \/ CheckOk(t) \/ putconn(t) \/ close(t) \/ GivesBack(t)
    PROVE  GenInv'
<1>1. /\ TypeOK /\ pc \in [Threads -> Places] /\ conn \in [Threads -> Conns \cup {None}]
    BY QueueType DEF PoolInv, TypeOK
<1>2. DOMAIN <<>> = {}
    OBVIOUS
<1>3. CASE Expire(t) \/ CheckOk(t) \/ putconn(t) \/ close(t)
  <2>1. UNCHANGED <<idle, generation, drained, since, gen, born, conn>>
    <3>1. CASE Expire(t)
        BY <3>1 DEF Expire, poolVars, connVars
    <3>2. CASE CheckOk(t)
        BY <3>2 DEF CheckOk, poolVars, connVars
    <3>3. CASE putconn(t)
        BY <3>3 DEF putconn, poolVars, connVars
    <3>4. CASE close(t)
        BY <3>4 DEF close, connVars
    <3> QED BY <1>3, <3>1, <3>2, <3>3, <3>4
  <2>2. \A u \in Threads : pc'[u] \in Slotted => pc[u] \in Slotted
      BY <1>1, <1>3 DEF Expire, CheckOk, putconn, close, Slotted
  <2> QED BY <2>1, <2>2, FadingStep
<1>4. CASE GivesUp(t)
  <2>1. UNCHANGED <<generation, drained, since, gen, born, conn>>
    <3>1. CASE RaiseClosed(t)
        BY <3>1 DEF RaiseClosed, connVars
    <3>2. CASE Sleep(t)
        BY <3>2 DEF Sleep, EmptyIdle, Close
    <3>3. CASE RaiseTimeout(t)
        BY <3>3 DEF RaiseTimeout, EmptyIdle, Close
    <3> QED BY <1>4, <3>1, <3>2, <3>3 DEF GivesUp
  <2>2. \A u \in Threads : pc'[u] \in Slotted => pc[u] \in Slotted
      BY <1>1, <1>4 DEF GivesUp, RaiseClosed, Sleep, RaiseTimeout, Slotted
  <2>3. idle' = OwnIdle \/ idle' = <<>>
      BY <1>4 DEF GivesUp, RaiseClosed, Sleep, RaiseTimeout, EmptyIdle
  <2>4. \A i \in DOMAIN idle' : \E j \in DOMAIN idle : idle'[i] = idle[j]
      BY <1>2, <2>3, OwnIsIdle
  <2> QED BY <2>1, <2>2, <2>4, FadingStep
<1>5. CASE GivesBack(t)
  <2>1. UNCHANGED <<generation, drained, since, gen, born>>
    <3>1. CASE OpenFails(t)
        BY <3>1 DEF OpenFails, connVars
    <3>2. CASE CheckFails(t)
        BY <3>2 DEF CheckFails, Close
    <3>3. CASE PutClosed(t)
        BY <3>3 DEF PutClosed, Close
    <3> QED BY <1>5, <3>1, <3>2, <3>3 DEF GivesBack
  <2>2. \A u \in Threads : conn'[u] = conn[u] \/ conn'[u] = None
      BY <1>1, <1>5 DEF GivesBack, OpenFails, CheckFails, PutClosed
  <2>3. PICK status \in [Threads -> Places] :
           /\ status = [pc EXCEPT ![t] = "away"] \/ status = [pc EXCEPT ![t] = "get"]
           /\ Notify(status)
      BY <1>1, <1>5 DEF GivesBack, OpenFails, CheckFails, PutClosed, Places, Awake
  <2>4. \A u \in Threads : pc'[u] \in Slotted <=> status[u] \in Slotted
      BY <1>1, <2>3, QueueType
  <2>5. \A u \in Threads : pc'[u] \in Slotted => pc[u] \in Slotted
      BY <1>1, <2>3, <2>4 DEF Slotted
  <2>6. idle' = OwnIdle \/ idle' = idle
      BY <1>5 DEF GivesBack, OpenFails, CheckFails, PutClosed
  <2>7. \A i \in DOMAIN idle' : \E j \in DOMAIN idle : idle'[i] = idle[j]
      BY <2>6, OwnIsIdle
  <2> QED BY <2>1, <2>2, <2>5, <2>7, FadingStep
<1> QED BY <1>3, <1>4, <1>5

LEMMA FadingEnvironment ==
    ASSUME GenInv,
           \/ open \/ (\E n \in Sizes : resize(n)) \/ (\E c \in Conns : BackendDies(c))
           \/ Fork \/ UNCHANGED vars
    PROVE  GenInv'
<1>1. UNCHANGED <<idle, generation, drained, since, gen, born, conn, pc>>
  <2>1. CASE open
      BY <2>1 DEF open, connVars
  <2>2. ASSUME NEW n \in Sizes, resize(n)
        PROVE  UNCHANGED <<idle, generation, drained, since, gen, born, conn, pc>>
      BY <2>2 DEF resize, connVars
  <2>3. ASSUME NEW c \in Conns, BackendDies(c)
        PROVE  UNCHANGED <<idle, generation, drained, since, gen, born, conn, pc>>
      BY <2>3 DEF BackendDies, poolVars
  <2>4. CASE Fork
      BY <2>4 DEF Fork
  <2>5. CASE UNCHANGED vars
      BY <2>5 DEF vars, poolVars, connVars
  <2> QED BY <2>1, <2>2, <2>3, <2>4, <2>5
<1> QED BY <1>1, FadingStep

\* A checkout starts in the newest generation, with a connection no older or none yet.
LEMMA StartingSteps ==
    ASSUME PoolInv, GenInv, NEW t \in Threads, PopIdle(t) \/ TakeSlot(t)
    PROVE  GenInv'
<1>1. TypeOK /\ Reasons /\ pc \in [Threads -> Places]
    BY QueueType DEF PoolInv
<1>2. /\ UNCHANGED <<generation, drained, since, born>>
      /\ gen' = [gen EXCEPT ![t] = generation]
      /\ \A u \in Threads \ {t} : pc'[u] = pc[u]
    BY <1>1 DEF PopIdle, TakeSlot, EmptyIdle, Close
<1>3. /\ \A i \in DOMAIN idle' : \E j \in DOMAIN idle : idle'[i] = idle[j]
      /\ \A u \in Threads \ {t} : conn'[u] = conn[u]
      /\ conn'[t] # None => generation <= born[conn'[t]]
  <2>1. CASE PopIdle(t)
    <3>1. PICK k \in DOMAIN OwnIdle :
             /\ OwnIdle[k].gen = generation
             /\ conn' = [conn EXCEPT ![t] = OwnIdle[k].conn]
             /\ idle' = SubSeq(OwnIdle, 1, k - 1)
        BY <2>1 DEF PopIdle, Usable
    <3>2. Stack(OwnIdle) /\ k \in DOMAIN OwnIdle
        BY OwnView
    <3>3. \A i \in DOMAIN idle' : i \in DOMAIN OwnIdle /\ idle'[i] = OwnIdle[i]
        BY <3>1, <3>2, CutStack
    <3>4. \A i \in DOMAIN idle' : \E j \in DOMAIN idle : idle'[i] = idle[j]
        BY <3>3, OwnIsIdle
    <3>5. PICK j \in DOMAIN idle : OwnIdle[k] = idle[j]
        BY OwnIsIdle
    <3>6. generation <= born[OwnIdle[k].conn]
        BY <3>1, <3>5 DEF GenInv
    <3>7. conn'[t] = OwnIdle[k].conn /\ \A u \in Threads \ {t} : conn'[u] = conn[u]
        BY <1>1, <3>1 DEF TypeOK
    <3> QED BY <3>4, <3>6, <3>7
  <2>2. CASE TakeSlot(t)
    <3>1. idle' = <<>> /\ DOMAIN idle' = {} /\ conn' = conn
        BY <2>2 DEF TakeSlot, EmptyIdle
    <3>2. conn[t] = None
        BY <1>1, <2>2 DEF TakeSlot, Awake, Reasons, Holding
    <3> QED BY <3>1, <3>2
  <2> QED BY <2>1, <2>2
<1>4. /\ generation \in Nat /\ drained \in Nat /\ since[t] \in Nat
      /\ gen'[t] = generation /\ \A u \in Threads \ {t} : gen'[u] = gen[u]
    BY <1>1, <1>2 DEF TypeOK
<1>5. \A u \in Threads : since'[u] <= drained' /\ gen'[u] <= generation'
    BY <1>2, <1>4 DEF GenInv
<1>6. \A u \in Threads : pc'[u] \in Slotted => since'[u] <= gen'[u]
    BY <1>2, <1>4 DEF GenInv
<1>7. \A u \in Threads : conn'[u] # None => gen'[u] <= born'[conn'[u]]
    BY <1>2, <1>3, <1>4 DEF GenInv
<1> QED BY <1>2, <1>3, <1>5, <1>6, <1>7 DEF GenInv

LEMMA OpeningStep ==
    ASSUME PoolInv, GenInv, NEW t \in Threads, OpenOk(t)
    PROVE  GenInv'
<1>1. TypeOK /\ Reasons
    BY DEF PoolInv
<1> DEFINE c == CHOOSE c \in FreeConns : TRUE
<1>2. /\ c \in FreeConns
      /\ conn' = [conn EXCEPT ![t] = c] /\ born' = [born EXCEPT ![c] = generation]
    BY DEF OpenOk
<1> HIDE DEF c
<1>3. c \in Conns /\ c \notin IdleConns /\ c \notin HeldConns
    BY <1>2 DEF FreeConns
<1>4. UNCHANGED <<idle, generation, drained, since, gen>> /\ pc[t] \in Slotted
    BY DEF OpenOk, poolVars, Slotted
<1>5. \A i \in DOMAIN idle' : idle'[i].gen <= born'[idle'[i].conn]
  <2> SUFFICES ASSUME NEW i \in DOMAIN idle PROVE idle[i].gen <= born'[idle[i].conn]
      BY <1>4
  <2>1. idle[i].conn # c
      BY <1>3 DEF IdleConns
  <2>2. idle[i].conn \in Conns
    <3>1. idle \in Seq(Entry)
        BY <1>1 DEF TypeOK, Entry
    <3>2. idle[i] \in Entry
        BY <3>1, LenProperties, ElementOfSeq
    <3> QED BY <3>2 DEF Entry
  <2>3. born'[idle[i].conn] = born[idle[i].conn]
      BY <1>1, <1>2, <2>1, <2>2 DEF TypeOK
  <2> QED BY <2>3 DEF GenInv
<1>6. \A u \in Threads : pc'[u] \in Slotted => since'[u] <= gen'[u]
  <2>1. \A u \in Threads : pc'[u] \in Slotted => pc[u] \in Slotted
      BY <1>1, <1>4 DEF OpenOk, TypeOK
  <2> QED BY <1>4, <2>1 DEF GenInv
<1>7. ASSUME NEW u \in Threads, conn'[u] # None PROVE gen'[u] <= born'[conn'[u]]
  <2>1. CASE u = t
    <3>1. conn'[u] = c /\ born'[c] = generation
        BY <1>1, <1>2, <1>3, <2>1 DEF TypeOK
    <3> QED BY <1>4, <3>1 DEF GenInv
  <2>2. CASE u # t
    <3>1. conn'[u] = conn[u]
        BY <1>1, <1>2, <2>2 DEF TypeOK
    <3>2. conn[u] # c
        BY <1>3, <1>7, <3>1 DEF HeldConns
    <3>3. conn[u] \in Conns
        BY <1>1, <1>7, <3>1 DEF TypeOK
    <3>4. born'[conn[u]] = born[conn[u]]
        BY <1>1, <1>2, <3>2, <3>3 DEF TypeOK
    <3> QED BY <1>4, <1>7, <3>1, <3>4 DEF GenInv
  <2> QED BY <2>1, <2>2
<1> QED BY <1>4, <1>5, <1>6, <1>7 DEF GenInv

\* A kept connection is of the newest generation, and was opened in it.
LEMMA KeepingStep ==
    ASSUME PoolInv, GenInv, NEW t \in Threads, PutIdle(t)
    PROVE  GenInv'
<1>1. TypeOK /\ Reasons /\ pc \in [Threads -> Places]
    BY QueueType DEF PoolInv
<1>2. pc[t] = "resetting" /\ pc[t] \in Slotted
    BY DEF PutIdle, Slotted
<1> DEFINE e == [conn |-> conn[t], gen |-> generation]
<1>3. own /\ OwnIdle = idle /\ idle' = Append(idle, e)
    BY <1>2, SlotHeld DEF PutIdle
<1>4. /\ UNCHANGED <<generation, drained, since, gen, born>>
      /\ conn' = [conn EXCEPT ![t] = None] /\ gen[t] = generation
    BY DEF PutIdle, connVars, Keeps
<1>5. conn[t] # None /\ e \in Entry /\ e.gen = generation /\ e.conn = conn[t]
    BY <1>1, <1>2 DEF Reasons, Holding, TypeOK, Entry
<1>6. generation <= born[conn[t]]
    BY <1>4, <1>5 DEF GenInv
<1> HIDE DEF e
<1>7. \A i \in DOMAIN idle' : idle'[i] = e \/ \E j \in DOMAIN idle : idle'[i] = idle[j]
  <2>1. IdleConns = On(idle)
      BY DEF IdleConns, On
  <2>2. Stack(idle) /\ On(idle) \cap HeldConns = {}
      BY <1>3, OwnView
  <2>3. conn[t] \in HeldConns
      BY <1>5 DEF HeldConns
  <2>4. Stack(idle) /\ e.conn \notin On(idle)
      BY <1>5, <2>2, <2>3
  <2> QED BY <1>3, <1>5, <2>4, PushStack
<1>8. \A i \in DOMAIN idle' : idle'[i].gen <= born'[idle'[i].conn]
    BY <1>4, <1>5, <1>6, <1>7 DEF GenInv
<1>9. \A u \in Threads : pc'[u] \in Slotted => since'[u] <= gen'[u]
  <2> DEFINE status == [pc EXCEPT ![t] = "away"]
  <2>1. status \in [Threads -> Places] /\ Notify(status)
      BY <1>1 DEF PutIdle, Places
  <2>2. \A u \in Threads : pc'[u] \in Slotted <=> status[u] \in Slotted
      BY <1>1, <2>1, QueueType
  <2>3. \A u \in Threads : status[u] \in Slotted => pc[u] \in Slotted
      BY <1>1 DEF Slotted
  <2> QED BY <1>4, <2>2, <2>3 DEF GenInv
<1>10. \A u \in Threads : conn'[u] # None => gen'[u] <= born'[conn'[u]]
    BY <1>1, <1>4 DEF GenInv, TypeOK
<1> QED BY <1>4, <1>8, <1>9, <1>10 DEF GenInv

LEMMA DrainSteps ==
    ASSUME PoolInv, GenInv, NEW t \in Threads, getconn(t) \/ drain(t) \/ Evict(t)
    PROVE  GenInv'
<1>1. /\ TypeOK /\ Reasons /\ pc \in [Threads -> Places] /\ gen \in [Threads -> 0..MaxDrains]
      /\ generation \in Nat /\ drained \in Nat /\ gen \in [Threads -> Nat]
      /\ since \in [Threads -> 0..MaxDrains] /\ since \in [Threads -> Nat]
    BY QueueType DEF PoolInv, TypeOK
<1>2. CASE getconn(t)
  <2>1. /\ UNCHANGED <<idle, generation, drained, gen, born, conn>>
        /\ since' = [since EXCEPT ![t] = drained] /\ pc' = [pc EXCEPT ![t] = "get"]
      BY <1>2 DEF getconn, poolVars, connVars
  <2>2. \A u \in Threads : since'[u] <= drained'
      BY <1>1, <2>1 DEF GenInv
  <2>3. \A u \in Threads : pc'[u] \in Slotted => since'[u] <= gen'[u]
      BY <1>1, <2>1 DEF GenInv, Slotted
  <2> QED BY <2>1, <2>2, <2>3 DEF GenInv
<1>3. CASE drain(t)
  <2>1. /\ UNCHANGED <<idle, drained, since, born, conn>> /\ generation' = generation + 1
        /\ gen' = [gen EXCEPT ![t] = generation + 1] /\ pc' = [pc EXCEPT ![t] = "draining"]
        /\ conn[t] = None
      BY <1>1, <1>3 DEF drain, connVars, Reasons, Holding
  <2>2. \A u \in Threads : since'[u] <= drained' /\ gen'[u] <= generation'
      BY <1>1, <2>1 DEF GenInv
  <2>3. \A u \in Threads : pc'[u] \in Slotted => since'[u] <= gen'[u]
      BY <1>1, <2>1 DEF GenInv, Slotted
  <2>4. \A u \in Threads : conn'[u] # None => gen'[u] <= born'[conn'[u]]
      BY <1>1, <2>1 DEF GenInv
  <2> QED BY <1>1, <2>1, <2>2, <2>3, <2>4 DEF GenInv
<1>4. CASE Evict(t)
  <2>1. /\ UNCHANGED <<generation, since, gen, born, conn>> /\ DOMAIN idle' = {}
        /\ drained' = drained \/ drained' = gen[t]
        /\ drained <= drained'
      BY <1>1, <1>4 DEF Evict, Close
  <2>2. \A u \in Threads : since'[u] <= drained' /\ drained' <= generation'
      BY <1>1, <2>1 DEF GenInv
  <2>3. \A u \in Threads : pc'[u] \in Slotted => pc[u] \in Slotted
      BY <1>1, <1>4 DEF Evict, NotifyAll, Slotted
  <2>4. drained' <= generation'
      BY <1>1, <2>1 DEF GenInv
  <2> QED BY <2>1, <2>2, <2>3, <2>4 DEF GenInv
<1> QED BY <1>2, <1>3, <1>4

LEMMA NextGen == PoolInv /\ GenInv /\ [Next]_vars => GenInv'
<1> SUFFICES ASSUME PoolInv, GenInv, [Next]_vars PROVE GenInv'
    OBVIOUS
<1>1. ASSUME NEW t \in Threads, Getting(t) PROVE GenInv'
  <2>1. CASE getconn(t)
      BY <2>1, DrainSteps
  <2>2. CASE PopIdle(t) \/ TakeSlot(t)
      BY <2>2, StartingSteps
  <2>3. CASE OpenOk(t)
      BY <2>3, OpeningStep
  <2>4. CASE Expire(t) \/ RaiseClosed(t) \/ Sleep(t) \/ RaiseTimeout(t) \/ OpenFails(t)
             \/ CheckOk(t) \/ CheckFails(t)
      BY <2>4, FadingSteps DEF GivesUp, GivesBack
  <2> QED BY <1>1, <2>1, <2>2, <2>3, <2>4 DEF Getting
<1>2. ASSUME NEW t \in Threads,
             putconn(t) \/ PutIdle(t) \/ PutClosed(t) \/ drain(t) \/ close(t) \/ Evict(t)
      PROVE  GenInv'
  <2>1. CASE putconn(t) \/ PutClosed(t) \/ close(t)
      BY <2>1, FadingSteps DEF GivesBack
  <2>2. CASE PutIdle(t)
      BY <2>2, KeepingStep
  <2>3. CASE drain(t) \/ Evict(t)
      BY <2>3, DrainSteps
  <2> QED BY <1>2, <2>1, <2>2, <2>3
<1>3. CASE \/ open \/ (\E n \in Sizes : resize(n)) \/ (\E c \in Conns : BackendDies(c))
           \/ Fork \/ UNCHANGED vars
    BY <1>3, FadingEnvironment
<1> QED BY <1>1, <1>2, <1>3 DEF Next

\* A drain retires every connection opened before it for whoever asks after it has
\* returned, for any number of overlapping drains (drain, getconn, putconn).
THEOREM DrainsRetire == Spec => []DrainRetires
<1>1. PoolInv /\ GenInv => DrainRetires
  <2> SUFFICES ASSUME PoolInv, GenInv, NEW t \in Threads, pc[t] = "using"
               PROVE  born[conn[t]] >= since[t]
      BY DEF DrainRetires
  <2>1. conn[t] # None /\ pc[t] \in Slotted
      BY DEF PoolInv, Reasons, Holding, Slotted
  <2>2. gen[t] <= born[conn[t]] /\ since[t] <= gen[t]
      BY <2>1 DEF GenInv
  <2>3. born[conn[t]] \in Nat /\ gen[t] \in Nat /\ since[t] \in Nat
      BY <2>1 DEF PoolInv, TypeOK
  <2> QED BY <2>2, <2>3
<1> QED BY <1>1, InitGen, NextGen, PoolInvariant, PTL DEF Spec

-----------------------------------------------------------------------------
(* Forks.  Whoever closes a connection owns it, and what a process owns is  *)
(* not its parent's; only _evict_idle takes what it finds.                  *)

LEMMA OwnedCloses ==
    ASSUME PoolInv, NEW conns, Close(conns), conns \subseteq On(OwnIdle) \cup HeldConns
    PROVE  trampled' = trampled
<1>1. conns \cap inherited = {} /\ trampled \in BOOLEAN
    BY OwnView DEF PoolInv, OneOwner, TypeOK
<1> QED BY <1>1 DEF Close

LEMMA TramplingStep ==
    ASSUME PoolInv, [Next]_vars, trampled' # trampled
    PROVE  ~own /\ \E t \in Threads : Evict(t)
<1>1. ASSUME NEW t \in Threads, Getting(t) PROVE trampled' = trampled
  <2>1. CASE getconn(t) \/ Expire(t) \/ RaiseClosed(t) \/ CheckOk(t) \/ OpenOk(t) \/ OpenFails(t)
    <3>1. CASE getconn(t)
        BY <3>1 DEF getconn, connVars
    <3>2. CASE Expire(t)
        BY <3>2 DEF Expire, connVars
    <3>3. CASE RaiseClosed(t)
        BY <3>3 DEF RaiseClosed, connVars
    <3>4. CASE CheckOk(t)
        BY <3>4 DEF CheckOk, connVars
    <3>5. CASE OpenOk(t)
        BY <3>5 DEF OpenOk
    <3>6. CASE OpenFails(t)
        BY <3>6 DEF OpenFails, connVars
    <3> QED BY <2>1, <3>1, <3>2, <3>3, <3>4, <3>5, <3>6
  <2>2. CASE PopIdle(t)
    <3>1. PICK k \in DOMAIN OwnIdle : Close({OwnIdle[j].conn : j \in (k + 1)..Len(OwnIdle)})
        BY <2>2 DEF PopIdle
    <3>2. k \in Nat \ {0} /\ Len(OwnIdle) \in Nat /\ DOMAIN OwnIdle = 1..Len(OwnIdle)
      <4>1. Len(OwnIdle) \in Nat /\ DOMAIN OwnIdle = 1..Len(OwnIdle)
          BY OwnView, LenProperties DEF Stack
      <4> QED BY <4>1
    <3>3. \A j \in (k + 1)..Len(OwnIdle) : j \in DOMAIN OwnIdle
        BY <3>2
    <3>4. {OwnIdle[j].conn : j \in (k + 1)..Len(OwnIdle)} \subseteq On(OwnIdle)
        BY <3>3 DEF On
    <3> QED BY <3>1, <3>4, OwnedCloses
  <2>3. CASE TakeSlot(t) \/ Sleep(t) \/ RaiseTimeout(t)
    <3>1. Close(On(OwnIdle))
        BY <2>3 DEF TakeSlot, Sleep, RaiseTimeout, EmptyIdle, On
    <3> QED BY <3>1, OwnedCloses
  <2>4. CASE CheckFails(t)
    <3>1. Close({conn[t]}) /\ conn[t] \in HeldConns
        BY <2>4 DEF CheckFails, PoolInv, Reasons, Holding, HeldConns
    <3> QED BY <3>1, OwnedCloses
  <2> QED BY <1>1, <2>1, <2>2, <2>3, <2>4 DEF Getting
<1>2. ASSUME NEW t \in Threads, putconn(t) \/ PutIdle(t) \/ drain(t) \/ close(t)
      PROVE  trampled' = trampled
  <2>1. CASE putconn(t)
      BY <2>1 DEF putconn, connVars
  <2>2. CASE PutIdle(t)
      BY <2>2 DEF PutIdle, connVars
  <2>3. CASE drain(t)
      BY <2>3 DEF drain, connVars
  <2>4. CASE close(t)
      BY <2>4 DEF close, connVars
  <2> QED BY <1>2, <2>1, <2>2, <2>3, <2>4
<1>3. ASSUME NEW t \in Threads, PutClosed(t) PROVE trampled' = trampled
  <2>1. Close({conn[t]}) /\ conn[t] \in HeldConns
      BY <1>3 DEF PutClosed, PoolInv, Reasons, Holding, HeldConns
  <2> QED BY <2>1, OwnedCloses
<1>4. ASSUME NEW t \in Threads, Evict(t) PROVE ~own
  <2> SUFFICES ASSUME own PROVE FALSE
      OBVIOUS
  <2>1. IdleConns \cap inherited = {} /\ trampled \in BOOLEAN
      BY DEF PoolInv, Reasons, TypeOK
  <2> QED BY <1>4, <2>1 DEF Evict, Close
<1>5. CASE \/ open \/ (\E n \in Sizes : resize(n)) \/ (\E c \in Conns : BackendDies(c))
           \/ Fork \/ UNCHANGED vars
  <2>1. CASE open
      BY <2>1 DEF open, connVars
  <2>2. ASSUME NEW n \in Sizes, resize(n) PROVE FALSE
      BY <2>2 DEF resize, connVars
  <2>3. ASSUME NEW c \in Conns, BackendDies(c) PROVE FALSE
      BY <2>3 DEF BackendDies
  <2>4. CASE Fork
      BY <2>4 DEF Fork
  <2>5. CASE UNCHANGED vars
      BY <2>5 DEF vars, connVars
  <2> QED BY <1>5, <2>1, <2>2, <2>3, <2>4, <2>5
<1> QED BY <1>1, <1>2, <1>3, <1>4, <1>5 DEF Next

\* A child leaves the sockets of its parent alone, whatever it does first, unless a
\* drain or a close comes before its first checkout (_forget_inherited_after_fork).
THEOREM ParentKeepsSockets == Spec => ParentSocketsKept
<1>1. PoolInv /\ [Next]_vars
      => [trampled' # trampled => ~own /\ \E t \in Threads : Evict(t)]_vars
    BY TramplingStep
<1> QED BY <1>1, PoolInvariant, PTL DEF Spec, ParentSocketsKept

-----------------------------------------------------------------------------
(* Wakeups.  A thread that has timed out and is still on the list may have a *)
(* notify spent on it, so it does not count yet: those who are awake and off *)
(* the list are at least as many as the free slots, while anyone is on it.   *)

Ready == {t \in Threads : pc[t] \in Awake /\ t \notin Queued}
Closing == \E t \in Threads : pc[t] = "closing"

QueueInv ==
    /\ Distinct(waiters)
    /\ \A t \in Threads : pc[t] = "sleeping" => t \in Queued
    /\ \A t \in Queued : pc[t] \in {"sleeping", "expired"}

Shut == closed /\ ~Closing => Queued = {}

Balance == closed \/ Closing \/ Queued = {} \/ Cardinality(Ready) >= floor - out

WakeInv == QueueInv /\ floor <= max_size /\ Shut /\ Balance

LEMMA QueuedThreads == TypeOK => Queued \subseteq Threads
<1> SUFFICES ASSUME TypeOK PROVE Queued \subseteq Threads
    OBVIOUS
<1>1. waiters \in Seq(Threads) /\ DOMAIN waiters = 1..Len(waiters)
    BY LenProperties DEF TypeOK
<1> QED BY <1>1, ElementOfSeq DEF Queued, Members

LEMMA ReadyCount == Cardinality(Ready) \in Nat /\ IsFiniteSet(Ready)
<1>1. Ready \in SUBSET Threads
    BY DEF Ready
<1> QED BY <1>1, RustPoolAssumption, FS_Subset, FS_CardinalityType

LEMMA MoreReady ==
    ASSUME NEW R, R \subseteq Ready', IsFiniteSet(R)
    PROVE  Cardinality(R) <= Cardinality(Ready')
<1>1. Ready' \in SUBSET Threads
    BY DEF Ready
<1>2. IsFiniteSet(Ready')
    BY <1>1, RustPoolAssumption, FS_Subset
<1> QED BY <1>2, FS_Subset

LEMMA InitWake == Init => WakeInv
<1> SUFFICES ASSUME Init PROVE WakeInv
    OBVIOUS
<1>1. waiters = <<>> /\ DOMAIN waiters = {}
    BY DEF Init
<1>2. Queued = {} /\ Distinct(waiters)
    BY <1>1 DEF Queued, Members, Distinct
<1>3. floor <= max_size
    BY RustPoolAssumption DEF Init
<1> QED BY <1>2, <1>3 DEF Init, WakeInv, QueueInv, Shut, Balance

\* Steps of threads that neither sleep, nor wake, nor close.
LEMMA StillStep ==
    ASSUME WakeInv, UNCHANGED <<waiters, out, floor, max_size, closed>>,
           \A u \in Threads : \/ pc'[u] = pc[u]
                             \/ /\ pc[u] \notin Awake \cup {"sleeping", "closing"}
                                /\ pc'[u] \notin Awake \cup {"sleeping", "closing"},
           TypeOK
    PROVE  WakeInv'
<1>1. Queued' = Queued /\ Distinct(waiters')
    BY DEF Queued, WakeInv, QueueInv
<1>2. Ready' = Ready
    BY <1>1 DEF Ready
<1>3. Closing' = Closing
    BY DEF Closing
<1>4. \A u \in Queued : pc'[u] \in {"sleeping", "expired"}
    BY QueuedThreads DEF WakeInv, QueueInv, Awake
<1>5. \A u \in Threads : pc'[u] = "sleeping" => u \in Queued
    BY DEF WakeInv, QueueInv
<1> QED BY <1>1, <1>2, <1>3, <1>4, <1>5 DEF WakeInv, QueueInv, Shut, Balance

Still(t) == OpenOk(t) \/ CheckOk(t) \/ putconn(t) \/ drain(t)

LEMMA StillSteps ==
    ASSUME PoolInv, WakeInv,
           \/ \E t \in Threads : Still(t)
           \/ (\E c \in Conns : BackendDies(c)) \/ Fork \/ UNCHANGED vars
    PROVE  WakeInv'
<1>1. TypeOK /\ pc \in [Threads -> Places]
    BY DEF PoolInv, TypeOK, Places
<1>2. ASSUME NEW t \in Threads, Still(t) PROVE WakeInv'
  <2>1. UNCHANGED <<waiters, out, floor, max_size, closed>>
    <3>1. CASE OpenOk(t)
        BY <3>1 DEF OpenOk, poolVars, sizeVars
    <3>2. CASE CheckOk(t)
        BY <3>2 DEF CheckOk, poolVars, sizeVars
    <3>3. CASE putconn(t)
        BY <3>3 DEF putconn, poolVars, sizeVars
    <3>4. CASE drain(t)
        BY <3>4 DEF drain, sizeVars
    <3> QED BY <1>2, <3>1, <3>2, <3>3, <3>4 DEF Still
  <2>2. /\ \A u \in Threads \ {t} : pc'[u] = pc[u]
        /\ pc[t] \notin Awake \cup {"sleeping", "closing"}
        /\ pc'[t] \notin Awake \cup {"sleeping", "closing"}
      BY <1>1, <1>2 DEF Still, OpenOk, CheckOk, putconn, drain, Awake
  <2> QED BY <1>1, <2>1, <2>2, StillStep
<1>3. CASE (\E c \in Conns : BackendDies(c)) \/ Fork \/ UNCHANGED vars
  <2>1. UNCHANGED <<waiters, out, floor, max_size, closed, pc>>
    <3>1. ASSUME NEW c \in Conns, BackendDies(c)
          PROVE  UNCHANGED <<waiters, out, floor, max_size, closed, pc>>
        BY <3>1 DEF BackendDies, poolVars, sizeVars
    <3>2. CASE Fork
        BY <3>2 DEF Fork, sizeVars
    <3>3. CASE UNCHANGED vars
        BY <3>3 DEF vars, poolVars, sizeVars
    <3> QED BY <1>3, <3>1, <3>2, <3>3
  <2> QED BY <1>1, <2>1, StillStep
<1> QED BY <1>2, <1>3

LEMMA ArrivalSteps ==
    ASSUME PoolInv, WakeInv, NEW t \in Threads, getconn(t) \/ Expire(t) \/ close(t)
    PROVE  WakeInv'
<1>1. TypeOK /\ pc \in [Threads -> Places]
    BY DEF PoolInv, TypeOK, Places
<1>2. UNCHANGED <<waiters, out, floor, max_size>> /\ Queued' = Queued
  <2>1. CASE getconn(t)
      BY <2>1 DEF getconn, poolVars, sizeVars, Queued
  <2>2. CASE Expire(t)
      BY <2>2 DEF Expire, poolVars, sizeVars, Queued
  <2>3. CASE close(t)
      BY <2>3 DEF close, sizeVars, Queued
  <2> QED BY <2>1, <2>2, <2>3
<1>3. CASE getconn(t)
  <2>1. /\ pc[t] = "away" /\ pc' = [pc EXCEPT ![t] = "get"] /\ closed' = closed
        /\ t \notin Queued
      BY <1>1, <1>3 DEF getconn, poolVars, WakeInv, QueueInv
  <2>2. Ready \subseteq Ready' /\ Closing' = Closing
      BY <1>1, <1>2, <2>1 DEF Ready, Closing, Awake
  <2>3. Cardinality(Ready) <= Cardinality(Ready')
      BY <2>2, ReadyCount, MoreReady
  <2>4. Cardinality(Ready') \in Nat /\ Cardinality(Ready) \in Nat
    <3>1. Ready' \in SUBSET Threads
        BY DEF Ready
    <3> QED BY <3>1, ReadyCount, RustPoolAssumption, FS_Subset, FS_CardinalityType
  <2>5. Balance'
    <3>1. floor \in Nat /\ out \in Nat
        BY <1>1, RustPoolAssumption DEF TypeOK
    <3> QED BY <1>2, <2>1, <2>2, <2>3, <2>4, <3>1 DEF WakeInv, Balance
  <2>6. QueueInv'
      BY <1>1, <1>2, <2>1, QueuedThreads DEF WakeInv, QueueInv
  <2> QED BY <1>2, <2>1, <2>2, <2>5, <2>6 DEF WakeInv, Shut
<1>4. CASE Expire(t)
  <2>1. /\ pc[t] = "sleeping" /\ pc' = [pc EXCEPT ![t] = "expired"] /\ closed' = closed
        /\ t \in Queued
      BY <1>1, <1>4 DEF Expire, poolVars, WakeInv, QueueInv
  <2>2. Ready' = Ready /\ Closing' = Closing
      BY <1>1, <1>2, <2>1 DEF Ready, Closing, Awake
  <2>3. QueueInv'
      BY <1>1, <1>2, <2>1, QueuedThreads DEF WakeInv, QueueInv
  <2> QED BY <1>2, <2>1, <2>2, <2>3 DEF WakeInv, Shut, Balance
<1>5. CASE close(t)
  <2>1. pc[t] = "away" /\ pc' = [pc EXCEPT ![t] = "closing"] /\ closed'
      BY <1>5 DEF close
  <2>2. Closing'
      BY <1>1, <2>1 DEF Closing
  <2>3. QueueInv'
      BY <1>1, <1>2, <2>1, QueuedThreads DEF WakeInv, QueueInv
  <2> QED BY <1>2, <2>1, <2>2, <2>3 DEF WakeInv, Shut, Balance
<1> QED BY <1>3, <1>4, <1>5

\* Who stops waiting takes a slot, or there is none, or the pool is closed.
LEMMA LeavingSteps ==
    ASSUME PoolInv, WakeInv, NEW t \in Threads,
           RaiseClosed(t) \/ PopIdle(t) \/ TakeSlot(t) \/ RaiseTimeout(t)
    PROVE  WakeInv'
<1>1. /\ TypeOK /\ pc \in [Threads -> Places] /\ OwnOut = out
      /\ out \in Nat /\ floor \in Nat /\ max_size \in Nat
    BY OwnView, RustPoolAssumption DEF PoolInv, TypeOK, Places
<1>2. /\ pc[t] \in Awake /\ waiters' = Left(t)
      /\ UNCHANGED <<floor, max_size, closed>>
      /\ \A u \in Threads \ {t} : pc'[u] = pc[u]
      /\ pc'[t] \notin Awake \cup {"sleeping", "closing"}
      /\ closed \/ out' = out + 1 \/ (out' = out /\ out >= max_size)
  <2>1. CASE RaiseClosed(t)
      BY <1>1, <2>1 DEF RaiseClosed, sizeVars, Awake
  <2>2. CASE PopIdle(t)
      BY <1>1, <2>2 DEF PopIdle, sizeVars, Awake
  <2>3. CASE TakeSlot(t)
      BY <1>1, <2>3 DEF TakeSlot, sizeVars, Awake
  <2>4. CASE RaiseTimeout(t)
      BY <1>1, <2>4 DEF RaiseTimeout, Full, sizeVars, Awake
  <2> QED BY <2>1, <2>2, <2>3, <2>4
<1>3. Distinct(waiters') /\ Queued' = Queued \ {t}
  <2>1. waiters \in Seq(Threads) /\ Distinct(waiters)
      BY <1>1 DEF TypeOK, WakeInv, QueueInv
  <2> QED BY <1>2, <2>1, LeftQueue DEF Queued
<1>4. Closing' = Closing
    BY <1>2 DEF Closing, Awake
<1>5. QueueInv'
  <2>1. \A u \in Threads : pc'[u] = "sleeping" => u \in Queued'
      BY <1>2, <1>3 DEF WakeInv, QueueInv
  <2>2. \A u \in Queued' : pc'[u] \in {"sleeping", "expired"}
      BY <1>1, <1>2, <1>3, QueuedThreads DEF WakeInv, QueueInv
  <2> QED BY <1>3, <2>1, <2>2 DEF QueueInv
<1>6. Shut'
    BY <1>2, <1>3, <1>4 DEF WakeInv, Shut
<1>7. Balance'
  <2>1. Cardinality(Ready') \in Nat /\ Cardinality(Ready) \in Nat /\ IsFiniteSet(Ready)
    <3>1. Ready' \in SUBSET Threads
        BY DEF Ready
    <3> QED BY <3>1, ReadyCount, RustPoolAssumption, FS_Subset, FS_CardinalityType
  <2>2. CASE out' = out /\ out >= max_size
    <3>1. floor' - out' <= 0
        BY <1>1, <1>2, <2>2 DEF WakeInv
    <3>2. floor' - out' \in Int
        BY <1>1, <1>2, <2>2
    <3> QED BY <2>1, <3>1, <3>2 DEF Balance
  <2>3. CASE closed
      BY <1>2, <2>3 DEF Balance
  <2>4. CASE out' = out + 1
    <3>1. Cardinality(Ready') >= Cardinality(Ready) - 1
      <4>1. Ready \ {t} \subseteq Ready' /\ IsFiniteSet(Ready \ {t})
          BY <1>2, <1>3, <2>1, FS_Subset DEF Ready
      <4>2. Cardinality(Ready \ {t}) <= Cardinality(Ready')
          BY <4>1, MoreReady
      <4>3. Cardinality(Ready \ {t}) = IF t \in Ready THEN Cardinality(Ready) - 1 ELSE Cardinality(Ready)
          BY <2>1, FS_RemoveElement
      <4> QED BY <2>1, <4>2, <4>3
    <3>2. floor' - out' = floor - out - 1
        BY <1>1, <1>2, <2>4
    <3>3. closed \/ Closing \/ Queued = {} \/ Cardinality(Ready) >= floor - out
        BY DEF WakeInv, Balance
    <3>4. Cardinality(Ready) >= floor - out => Cardinality(Ready') >= floor' - out'
        BY <1>1, <2>1, <3>1, <3>2
    <3> QED BY <1>2, <1>3, <1>4, <3>3, <3>4 DEF Balance
  <2> QED BY <1>2, <2>2, <2>3, <2>4
<1> QED BY <1>2, <1>5, <1>6, <1>7 DEF WakeInv

\* Who goes to sleep has found every slot out.
LEMMA SleepStep ==
    ASSUME PoolInv, WakeInv, NEW t \in Threads, Sleep(t)
    PROVE  WakeInv'
<1>1. /\ TypeOK /\ pc \in [Threads -> Places] /\ OwnOut = out
      /\ out \in Nat /\ floor \in Nat /\ max_size \in Nat
    BY OwnView, RustPoolAssumption DEF PoolInv, TypeOK, Places
<1>2. /\ pc[t] = "get" /\ waiters' = Append(Left(t), t) /\ pc' = [pc EXCEPT ![t] = "sleeping"]
      /\ UNCHANGED <<floor, max_size, closed>> /\ ~closed
      /\ out' = out /\ out >= max_size
    BY <1>1 DEF Sleep, Full, sizeVars
<1>3. Distinct(waiters') /\ Queued' = Queued \cup {t}
  <2> DEFINE q == Left(t)
  <2>1. waiters \in Seq(Threads) /\ Distinct(waiters)
      BY <1>1 DEF TypeOK, WakeInv, QueueInv
  <2>2. q \in Seq(Threads) /\ Distinct(q) /\ Members(q) = Members(waiters) \ {t}
      BY <2>1, LeftQueue
  <2> HIDE DEF q
  <2>3. waiters' = Append(q, t) /\ t \notin Members(q)
      BY <1>2, <2>2 DEF q
  <2>4. Distinct(waiters') /\ Members(waiters') = Members(q) \cup {t}
      BY <2>2, <2>3, JoinedQueue
  <2> QED BY <2>2, <2>4 DEF Queued
<1>4. QueueInv'
  <2>1. \A u \in Threads : pc'[u] = "sleeping" => u \in Queued'
      BY <1>1, <1>2, <1>3 DEF WakeInv, QueueInv
  <2>2. \A u \in Queued' : pc'[u] \in {"sleeping", "expired"}
      BY <1>1, <1>2, <1>3, QueuedThreads DEF WakeInv, QueueInv
  <2> QED BY <1>3, <2>1, <2>2 DEF QueueInv
<1>5. Balance'
  <2>1. Cardinality(Ready') \in Nat
    <3>1. Ready' \in SUBSET Threads
        BY DEF Ready
    <3> QED BY <3>1, RustPoolAssumption, FS_Subset, FS_CardinalityType
  <2>2. floor' - out' <= 0 /\ floor' - out' \in Int
      BY <1>1, <1>2 DEF WakeInv
  <2> QED BY <2>1, <2>2 DEF Balance
<1> QED BY <1>2, <1>4, <1>5 DEF WakeInv, Shut

\* Who gives a slot back puts the head of the list among those who may take it.
LEMMA ReturnSteps ==
    ASSUME PoolInv, WakeInv, NEW t \in Threads, GivesBack(t) \/ PutIdle(t)
    PROVE  WakeInv'
<1>1. /\ TypeOK /\ pc \in [Threads -> Places]
      /\ out \in Nat /\ floor \in Nat
    BY RustPoolAssumption DEF PoolInv, TypeOK, Places
<1>2. pc[t] \in Slotted
    BY DEF GivesBack, OpenFails, CheckFails, PutClosed, PutIdle, Slotted
<1>3. GivenBack = out - 1
    BY <1>2, SlotHeld
<1>4. UNCHANGED <<floor, max_size, closed>> /\ out' = out - 1
    BY <1>3 DEF GivesBack, OpenFails, CheckFails, PutClosed, PutIdle, sizeVars
<1>5. PICK status \in [Threads -> Places] :
         /\ status = [pc EXCEPT ![t] = "away"] \/ status = [pc EXCEPT ![t] = "get"]
         /\ Notify(status)
    BY <1>1 DEF GivesBack, OpenFails, CheckFails, PutClosed, PutIdle, Places, Awake
<1>6. waiters \in Seq(Threads) /\ Distinct(waiters) /\ Queued \subseteq Threads
    BY <1>1, QueuedThreads DEF TypeOK, WakeInv, QueueInv
<1>7. /\ \A u \in Threads : pc'[u] = status[u] \/ (status[u] = "sleeping" /\ pc'[u] = "get")
      /\ \/ Queued = {} /\ pc' = status /\ waiters' = waiters
         \/ \E h \in Queued :
               /\ Distinct(waiters') /\ Queued' = Queued \ {h}
               /\ pc'[h] # "sleeping"
               /\ \A u \in Threads \ {h} : pc'[u] = status[u]
    BY <1>5, <1>6, Notified
<1>8. t \notin Queued /\ t \notin Ready /\ (pc'[t] = "away" \/ pc'[t] = "get")
  <2>1. status[t] = "away" \/ status[t] = "get"
      BY <1>1, <1>5
  <2> QED BY <1>2, <1>7, <2>1 DEF WakeInv, QueueInv, Slotted, Ready, Awake
<1>9. \A u \in Threads \ {t} : status[u] = pc[u]
    BY <1>1, <1>5
<1>10. Closing' = Closing
  <2>1. \A u \in Threads : pc'[u] = "closing" <=> pc[u] = "closing"
      BY <1>2, <1>7, <1>8, <1>9 DEF Slotted
  <2> QED BY <2>1 DEF Closing
<1>11. CASE Queued = {} /\ pc' = status /\ waiters' = waiters
  <2>1. Queued' = {} /\ Distinct(waiters')
      BY <1>6, <1>11 DEF Queued
  <2>2. \A u \in Threads : pc'[u] # "sleeping"
      BY <1>8, <1>9, <1>11 DEF WakeInv, QueueInv
  <2> QED BY <1>4, <2>1, <2>2 DEF WakeInv, QueueInv, Shut, Balance
<1>12. CASE \E h \in Queued :
               /\ Distinct(waiters') /\ Queued' = Queued \ {h}
               /\ pc'[h] # "sleeping"
               /\ \A u \in Threads \ {h} : pc'[u] = status[u]
  <2>1. PICK h \in Queued :
               /\ Distinct(waiters') /\ Queued' = Queued \ {h}
               /\ pc'[h] # "sleeping"
               /\ \A u \in Threads \ {h} : pc'[u] = status[u]
      BY <1>12
  <2>2. h \in Threads /\ h # t /\ pc[h] \in {"sleeping", "expired"} /\ h \notin Ready
      BY <1>6, <1>8 DEF WakeInv, QueueInv, Ready
  <2>3. pc'[h] \in Awake
      BY <1>7, <1>9, <2>1, <2>2 DEF Awake
  <2>4. \A u \in Threads \ {h, t} : pc'[u] = pc[u]
      BY <1>9, <2>1
  <2>5. QueueInv'
    <3>1. \A u \in Threads : pc'[u] = "sleeping" => u \in Queued'
        BY <1>8, <2>1, <2>4 DEF WakeInv, QueueInv
    <3>2. \A u \in Queued' : pc'[u] \in {"sleeping", "expired"}
        BY <1>6, <1>8, <2>1, <2>4 DEF WakeInv, QueueInv
    <3> QED BY <2>1, <3>1, <3>2 DEF QueueInv
  <2>6. Ready \cup {h} \subseteq Ready'
      BY <1>8, <2>1, <2>2, <2>3, <2>4 DEF Ready
  <2>7. Cardinality(Ready \cup {h}) = Cardinality(Ready) + 1 /\ IsFiniteSet(Ready \cup {h})
      BY <2>2, ReadyCount, FS_AddElement
  <2>8. Cardinality(Ready) + 1 <= Cardinality(Ready')
      BY <2>6, <2>7, MoreReady
  <2>9. Cardinality(Ready) \in Nat /\ Cardinality(Ready') \in Nat
    <3>1. Ready' \in SUBSET Threads
        BY DEF Ready
    <3> QED BY <3>1, ReadyCount, RustPoolAssumption, FS_Subset, FS_CardinalityType
  <2>10. Cardinality(Ready) >= floor - out => Cardinality(Ready') >= floor' - out'
      BY <1>1, <1>4, <2>8, <2>9
  <2>11. Balance'
      BY <1>4, <1>10, <2>1, <2>2, <2>10 DEF WakeInv, Balance
  <2>12. Shut'
      BY <1>4, <1>10, <2>1 DEF WakeInv, Shut
  <2> QED BY <1>4, <2>5, <2>11, <2>12 DEF WakeInv
<1> QED BY <1>7, <1>11, <1>12

LEMMA EvictWakes ==
    ASSUME PoolInv, WakeInv, NEW t \in Threads, Evict(t)
    PROVE  WakeInv'
<1>1. pc \in [Threads -> Places]
    BY DEF PoolInv, TypeOK, Places
<1>2. /\ waiters' = <<>> /\ DOMAIN waiters' = {} /\ UNCHANGED <<floor, max_size>>
      /\ \A u \in Threads : pc'[u] # "sleeping"
    BY <1>1 DEF Evict, NotifyAll, sizeVars
<1>3. Queued' = {} /\ Distinct(waiters')
    BY <1>2 DEF Queued, Members, Distinct
<1> QED BY <1>2, <1>3 DEF WakeInv, QueueInv, Shut, Balance

LEMMA OperatorWakes ==
    ASSUME PoolInv, WakeInv, open \/ \E n \in Sizes : resize(n)
    PROVE  WakeInv'
<1>1. CASE open
  <2>1. /\ closed /\ ~closed' /\ UNCHANGED <<floor, max_size, waiters, pc, out>>
        /\ Queued' = Queued /\ Closing' = Closing
      BY <1>1 DEF open, sizeVars, Queued, Closing
  <2> QED BY <2>1 DEF WakeInv, QueueInv, Shut, Balance
<1>2. ASSUME NEW n \in Sizes, resize(n) PROVE WakeInv'
  <2>1. /\ UNCHANGED <<closed, waiters, pc, out>> /\ max_size' = n
        /\ Queued' = Queued /\ Closing' = Closing /\ Ready' = Ready
      BY <1>2 DEF resize, Queued, Closing, Ready
  <2>2. floor \in Nat /\ n \in Nat /\ out \in Nat
      BY RustPoolAssumption DEF PoolInv, TypeOK
  <2>3. floor' <= floor /\ floor' <= n /\ floor' \in Nat
    <3>1. \E x \in {floor, n} : \A y \in {floor, n} : x <= y
        BY <2>2
    <3>2. Min({floor, n}) \in {floor, n} /\ \A y \in {floor, n} : Min({floor, n}) <= y
        BY <3>1 DEF Min
    <3> QED BY <1>2, <2>2, <3>2 DEF resize
  <2>4. Cardinality(Ready) >= floor - out => Cardinality(Ready') >= floor' - out'
      BY <2>1, <2>2, <2>3, ReadyCount
  <2> QED BY <2>1, <2>3, <2>4 DEF WakeInv, QueueInv, Shut, Balance
<1> QED BY <1>1, <1>2

LEMMA NextWake == PoolInv /\ WakeInv /\ [Next]_vars => WakeInv'
<1> SUFFICES ASSUME PoolInv, WakeInv, [Next]_vars PROVE WakeInv'
    OBVIOUS
<1>1. ASSUME NEW t \in Threads, Getting(t) PROVE WakeInv'
  <2>1. CASE getconn(t) \/ Expire(t)
      BY <2>1, ArrivalSteps
  <2>2. CASE RaiseClosed(t) \/ PopIdle(t) \/ TakeSlot(t) \/ RaiseTimeout(t)
      BY <2>2, LeavingSteps
  <2>3. CASE Sleep(t)
      BY <2>3, SleepStep
  <2>4. CASE OpenOk(t) \/ CheckOk(t)
      BY <2>4, StillSteps DEF Still
  <2>5. CASE OpenFails(t) \/ CheckFails(t)
      BY <2>5, ReturnSteps DEF GivesBack
  <2> QED BY <1>1, <2>1, <2>2, <2>3, <2>4, <2>5 DEF Getting
<1>2. ASSUME NEW t \in Threads,
             putconn(t) \/ PutIdle(t) \/ PutClosed(t) \/ drain(t) \/ close(t) \/ Evict(t)
      PROVE  WakeInv'
  <2>1. CASE putconn(t) \/ drain(t)
      BY <2>1, StillSteps DEF Still
  <2>2. CASE PutIdle(t) \/ PutClosed(t)
      BY <2>2, ReturnSteps DEF GivesBack
  <2>3. CASE close(t)
      BY <2>3, ArrivalSteps
  <2>4. CASE Evict(t)
      BY <2>4, EvictWakes
  <2> QED BY <1>2, <2>1, <2>2, <2>3, <2>4
<1>3. CASE open \/ \E n \in Sizes : resize(n)
    BY <1>3, OperatorWakes
<1>4. CASE (\E c \in Conns : BackendDies(c)) \/ Fork \/ UNCHANGED vars
    BY <1>4, StillSteps
<1> QED BY <1>1, <1>2, <1>3, <1>4 DEF Next

\* Nobody sleeps beside a free slot or in a closed pool, for any number of threads:
\* no notify is lost on a waiter that has timed out (getconn, putconn, drain, close).
THEOREM NobodySleepsOn == Spec => []NoSleeperForgotten
<1>1. PoolInv /\ WakeInv => NoSleeperForgotten
  <2> SUFFICES ASSUME PoolInv, WakeInv PROVE NoSleeperForgotten
      OBVIOUS
  <2>1. CloseWakesAll
      BY DEF WakeInv, QueueInv, Shut, Closing, CloseWakesAll
  <2>2. NoLostWakeup
    <3> DEFINE woken == {t \in Threads : pc[t] \in Awake}
    <3>1. Ready \in SUBSET woken /\ woken \in SUBSET Threads
        BY DEF Ready
    <3>2. IsFiniteSet(woken) /\ Cardinality(Ready) <= Cardinality(woken)
        BY <3>1, RustPoolAssumption, FS_Subset
    <3>3. Cardinality(woken) \in Nat /\ Cardinality(Ready) \in Nat
        BY <3>2, ReadyCount, FS_CardinalityType
    <3>4. floor \in Nat /\ out \in Nat
        BY RustPoolAssumption DEF PoolInv, TypeOK
    <3> HIDE DEF woken
    <3>5. Cardinality(Ready) >= floor - out => Cardinality(woken) >= floor - out
        BY <3>2, <3>3, <3>4
    <3>6. Queued = {} => \A t \in Threads : pc[t] # "sleeping"
        BY DEF WakeInv, QueueInv
    <3> QED BY <3>5, <3>6 DEF woken, WakeInv, Balance, Closing, NoLostWakeup
  <2> QED BY <2>1, <2>2 DEF NoSleeperForgotten
<1> QED BY <1>1, InitWake, NextWake, PoolInvariant, PTL DEF Spec
=============================================================================
