---------------------------- MODULE Routing_proofs ----------------------------
(***************************************************************************)
(* Baselines and calls nest, a model found to diverge stays out, Python    *)
(* takes over an aborted transaction only when nothing marked it, and the  *)
(* breaker trips; for any number of threads and models and any depth of    *)
(* nested calls.                                                           *)
(*                                                                         *)
(* Why it holds: only the top of a stack is at work.  A call below a       *)
(* baseline is kept from the kernel by the depth of its thread, so it can  *)
(* never become a baseline itself, and the depth is one or zero.  And each *)
(* error that was lost was lost to a write, which its place had owed.      *)
(***************************************************************************)
EXTENDS Routing, FiniteSetTheorems, SequenceTheorems, TLAPS

Frames == [model : Models, pc : Places, same : BOOLEAN, seen : Nat, inner : 0..MaxInner]

\* A baseline is in progress somewhere on the stack; nothing above it is routed.
Under(s) == \E i \in DOMAIN s : s[i].pc = "baseline"
Clean(s) == \A i, j \in DOMAIN s :
    i < j /\ s[i].pc = "baseline" => s[j].pc \notin Routed \cup {"baseline"}

StackInv == \A t \in Threads : stack[t] \in Seq(Frames) /\ Len(stack[t]) <= MaxDepth
DepthInv == \A t \in Threads : depth[t] = IF Under(stack[t]) THEN 1 ELSE 0
NestInv == \A t \in Threads : Clean(stack[t])

ShapeInv ==
    /\ DOMAIN stack = Threads /\ StackInv
    /\ mode \in Modes /\ active \in BOOLEAN
    /\ cursor \in [Threads -> {"none", "rust", "psycopg"}]
    /\ tx \in [Threads -> {"sound", "aborted"}]
    /\ depth \in [Threads -> Nat]
    /\ errors \in [Models -> Nat]
    /\ quarantined \in [Models -> Nat]
    /\ faults \in [Models -> Nat] /\ found \subseteq Models

RoutingInv == ShapeInv /\ DepthInv /\ NestInv

-----------------------------------------------------------------------------
(* Stacks: the top is replaced, taken off, or covered.                     *)

\* A stack, its top and what lies below it.
LEMMA FrontSeq ==
    ASSUME NEW S, NEW s \in Seq(S), s # <<>>
    PROVE  /\ Len(s) \in Nat \ {0} /\ Last(s) \in S
           /\ Front(s) \in Seq(S) /\ Len(Front(s)) = Len(s) - 1
           /\ \A i \in 1..(Len(s) - 1) : Front(s)[i] = s[i]
<1>1. Len(s) \in Nat \ {0}
    BY EmptySeq
<1>2. \A i \in 1..Len(s) : s[i] \in S
    BY ElementOfSeq
<1> DEFINE n == Len(s) - 1
<1>3. n \in Nat /\ Len(s) = n + 1
    BY <1>1
<1>4. Front(s) = SubSeq(s, 1, n)
    BY DEF Front
<1> HIDE DEF n
<1>5. \A i \in 1..n : s[i] \in S
    BY <1>2, <1>3
<1>6. /\ SubSeq(s, 1, n) \in Seq(S)
      /\ Len(SubSeq(s, 1, n)) = IF 1 <= n THEN n - 1 + 1 ELSE 0
      /\ \A i \in 1..(n - 1 + 1) : SubSeq(s, 1, n)[i] = s[1 + i - 1]
    BY <1>3, <1>5, SubSeqProperties
<1>7. n - 1 + 1 = n /\ (1 <= n \/ n = 0) /\ \A i \in 1..n : 1 + i - 1 = i
    BY <1>3
<1>8. /\ Front(s) \in Seq(S) /\ Len(Front(s)) = n /\ \A i \in 1..n : Front(s)[i] = s[i]
    BY <1>4, <1>6, <1>7
<1> QED BY <1>1, <1>2, <1>8 DEF Last, n

LEMMA TopFacts ==
    ASSUME StackInv, NEW t \in Threads, Place(t) # "idle"
    PROVE  /\ stack[t] \in Seq(Frames) /\ stack[t] # <<>> /\ Len(stack[t]) \in Nat \ {0}
           /\ DOMAIN stack[t] = 1..Len(stack[t])
           /\ Top(t) = stack[t][Len(stack[t])] /\ Top(t) \in Frames /\ Place(t) = Top(t).pc
<1>1. stack[t] \in Seq(Frames) /\ stack[t] # <<>>
    BY DEF StackInv, Place
<1>2. Len(stack[t]) \in Nat \ {0} /\ Last(stack[t]) \in Frames
    BY <1>1, FrontSeq
<1>3. DOMAIN stack[t] = 1..Len(stack[t])
    BY <1>1, LenProperties
<1> QED BY <1>1, <1>2, <1>3 DEF Place, Top, Last

LEMMA IdleFacts ==
    ASSUME StackInv, NEW t \in Threads, Place(t) = "idle"
    PROVE  stack[t] = <<>> /\ ~Under(stack[t])
<1>1. stack[t] = <<>>
  <2> SUFFICES ASSUME stack[t] # <<>> PROVE FALSE
      OBVIOUS
  <2>1. stack[t] \in Seq(Frames)
      BY DEF StackInv
  <2>2. Last(stack[t]) \in Frames
      BY <2>1, FrontSeq
  <2>3. Last(stack[t]).pc = "idle"
      BY DEF Place, Top
  <2> QED BY <2>2, <2>3 DEF Frames, Places, PythonCode, Routed
<1> QED BY <1>1 DEF Under

\* The top's place changes, and the thread's state with it.
LEMMA SetTopFacts ==
    ASSUME ShapeInv, NEW t \in Threads, Place(t) # "idle", NEW f \in Frames, SetTop(t, f)
    PROVE  /\ DOMAIN stack' = Threads /\ StackInv'
           /\ Len(stack'[t]) = Len(stack[t]) /\ Place(t)' = f.pc
           /\ stack'[t][Len(stack[t])] = f
           /\ \A i \in 1..Len(stack[t]) : i # Len(stack[t]) => stack'[t][i] = stack[t][i]
           /\ \A u \in Threads \ {t} : stack'[u] = stack[u]
           /\ /\ f.pc \notin Routed \/ Top(t).pc \in Routed \/ ~Under(stack[t])
              /\ f.pc # "baseline" /\ Top(t).pc # "baseline" /\ Clean(stack[t])
              => Clean(stack'[t]) /\ (Under(stack'[t]) <=> Under(stack[t]))
           /\ ~Under(stack[t]) /\ f.pc = "baseline" => Clean(stack'[t]) /\ Under(stack'[t])
           /\ Top(t).pc = "baseline" /\ Clean(stack[t]) /\ f.pc # "baseline" =>
                 Clean(stack'[t]) /\ ~Under(stack'[t])
<1> DEFINE s == stack[t]
           n == Len(s)
           r == [s EXCEPT ![n] = f]
<1>1. /\ s \in Seq(Frames) /\ n \in Nat \ {0} /\ DOMAIN s = 1..n /\ Top(t) = s[n]
      /\ n <= MaxDepth
    BY TopFacts DEF ShapeInv, StackInv
<1>2. stack' = [stack EXCEPT ![t] = r]
    BY DEF SetTop
<1>3. DOMAIN stack' = Threads /\ stack'[t] = r /\ \A u \in Threads \ {t} : stack'[u] = stack[u]
    BY <1>2 DEF ShapeInv
<1>4. r \in Seq(Frames) /\ Len(r) = n
    BY <1>1, ExceptSeq
<1>5. DOMAIN r = 1..n /\ r[n] = f /\ \A i \in 1..n : i # n => r[i] = s[i]
    BY <1>1
<1> HIDE DEF s, n, r
<1>6. StackInv'
    BY <1>1, <1>3, <1>4 DEF ShapeInv, StackInv, s
<1>7. Place(t)' = f.pc
  <2>1. r # <<>>
      BY <1>1, <1>4, EmptySeq
  <2> QED BY <1>3, <1>4, <1>5, <2>1 DEF Place, Top, Last
<1>8. ASSUME f.pc \notin Routed \/ s[n].pc \in Routed \/ ~Under(s),
             f.pc # "baseline", s[n].pc # "baseline", Clean(s)
      PROVE  Clean(r) /\ (Under(r) <=> Under(s))
  <2>1. Under(r) <=> Under(s)
      BY <1>1, <1>5, <1>8 DEF Under
  <2>2. ASSUME NEW i \in 1..n, NEW j \in 1..n, i < j, r[i].pc = "baseline"
        PROVE  r[j].pc \notin Routed \cup {"baseline"}
    <3>1. i # n /\ s[i].pc = "baseline" /\ s[j].pc \notin Routed \cup {"baseline"}
        BY <1>1, <1>5, <1>8, <2>2 DEF Clean
    <3>2. Under(s)
        BY <1>1, <3>1 DEF Under
    <3> QED BY <1>1, <1>5, <1>8, <2>2, <3>1, <3>2
  <2> QED BY <1>5, <2>1, <2>2 DEF Clean
<1>9. ASSUME ~Under(s), f.pc = "baseline" PROVE Clean(r) /\ Under(r)
  <2>1. Under(r)
      BY <1>1, <1>5, <1>9 DEF Under
  <2>2. \A i \in 1..n : i # n => r[i].pc # "baseline"
      BY <1>1, <1>5, <1>9 DEF Under
  <2>3. \A i, j \in 1..n : i < j => i # n
      BY <1>1
  <2> QED BY <1>5, <2>1, <2>2, <2>3 DEF Clean
<1>10. ASSUME s[n].pc = "baseline", Clean(s), f.pc # "baseline" PROVE Clean(r) /\ ~Under(r)
  <2>1. \A i \in 1..n : i # n => s[i].pc # "baseline"
    <3>1. \A i \in 1..n : i # n => i < n
        BY <1>1
    <3> QED BY <1>1, <1>10, <3>1 DEF Clean
  <2>2. \A i \in 1..n : r[i].pc # "baseline"
      BY <1>5, <1>10, <2>1
  <2> QED BY <1>5, <2>2 DEF Clean, Under
<1> QED BY <1>1, <1>3, <1>4, <1>5, <1>6, <1>7, <1>8, <1>9, <1>10 DEF s, n

LEMMA LeaveFacts ==
    ASSUME ShapeInv, NEW t \in Threads, Place(t) # "idle", Leave(t)
    PROVE  /\ DOMAIN stack' = Threads /\ StackInv'
           /\ Len(stack'[t]) = Len(stack[t]) - 1 /\ Len(stack[t]) \in Nat \ {0}
           /\ \A i \in 1..(Len(stack[t]) - 1) : stack'[t][i] = stack[t][i]
           /\ \A u \in Threads \ {t} : stack'[u] = stack[u]
           /\ Clean(stack[t]) => Clean(stack'[t])
           /\ Top(t).pc # "baseline" => (Under(stack'[t]) <=> Under(stack[t]))
           /\ Top(t).pc = "baseline" /\ Clean(stack[t]) => ~Under(stack'[t])
<1> DEFINE s == stack[t]
           n == Len(s)
           r == Front(s)
<1>1. /\ s \in Seq(Frames) /\ s # <<>> /\ n \in Nat \ {0} /\ DOMAIN s = 1..n /\ Top(t) = s[n]
      /\ n <= MaxDepth
    BY TopFacts DEF ShapeInv, StackInv
<1>2. DOMAIN stack' = Threads /\ stack'[t] = r /\ \A u \in Threads \ {t} : stack'[u] = stack[u]
    BY DEF Leave, ShapeInv
<1>3. r \in Seq(Frames) /\ Len(r) = n - 1 /\ \A i \in 1..(n - 1) : r[i] = s[i]
    BY <1>1, FrontSeq
<1>4. DOMAIN r = 1..(n - 1)
    BY <1>3, LenProperties
<1> HIDE DEF s, n, r
<1>5. n - 1 \in Nat /\ n - 1 <= MaxDepth
    BY <1>1, RoutingAssumption
<1>6. StackInv'
    BY <1>2, <1>3, <1>5 DEF ShapeInv, StackInv
<1>7. \A i \in 1..(n - 1) : i \in 1..n /\ i # n /\ i < n
    BY <1>1
<1>8. \A i \in 1..n : i # n => i \in 1..(n - 1)
    BY <1>1
<1>9. Clean(s) => Clean(r)
    BY <1>1, <1>3, <1>4, <1>7 DEF Clean
<1>10. s[n].pc # "baseline" => (Under(r) <=> Under(s))
    BY <1>1, <1>3, <1>4, <1>7, <1>8 DEF Under
<1>11. s[n].pc = "baseline" /\ Clean(s) => ~Under(r)
    BY <1>1, <1>3, <1>4, <1>7 DEF Under, Clean
<1> QED BY <1>1, <1>2, <1>3, <1>6, <1>9, <1>10, <1>11 DEF s, n

\* A frame that differs at most in the calls counted below it.
SameCall(f, g) == f.model = g.model /\ f.pc = g.pc /\ f.same = g.same /\ f.seen = g.seen

\* A call is put on top, and the frame below it counts it.
LEMMA CallFacts ==
    ASSUME ShapeInv, NestInv, NEW t \in Threads, NEW m \in Models, NEW pc \in {"gate", "armed"},
           Call(t, m, pc)
    PROVE  /\ DOMAIN stack' = Threads /\ StackInv'
           /\ Len(stack'[t]) = Len(stack[t]) + 1 /\ Len(stack[t]) \in Nat
           /\ (Len(stack[t]) = 0 <=> Place(t) = "idle") /\ Place(t) \in PythonCode \cup {"idle"}
           /\ stack'[t][Len(stack[t]) + 1].pc = pc
           /\ \A i \in 1..Len(stack[t]) : SameCall(stack'[t][i], stack[t][i])
           /\ \A u \in Threads \ {t} : stack'[u] = stack[u]
           /\ Clean(stack'[t]) /\ (Under(stack'[t]) <=> Under(stack[t]))
<1> DEFINE f == Frame(t, m, pc)
<1>1. f \in Frames /\ f.pc = pc /\ pc \notin Routed \cup {"baseline"}
    BY RoutingAssumption DEF Frame, Frames, Places, PythonCode, Routed
<1> HIDE DEF f
<1>2. CASE Place(t) = "idle" /\ stack' = [stack EXCEPT ![t] = <<f>>]
  <2> DEFINE one == <<f>>
  <2>1. stack[t] = <<>> /\ Len(stack[t]) = 0 /\ ~Under(stack[t])
      BY <1>2, IdleFacts, EmptySeq DEF ShapeInv
  <2>2. stack' = [stack EXCEPT ![t] = one]
      BY <1>2
  <2>3. one \in Seq(Frames) /\ Len(one) = 1 /\ DOMAIN one = 1..1 /\ one[1] = f
      BY <1>1
  <2> HIDE DEF one
  <2>4. /\ DOMAIN stack' = Threads /\ stack'[t] = one
        /\ \A u \in Threads \ {t} : stack'[u] = stack[u]
      BY <2>2 DEF ShapeInv
  <2>5. StackInv'
    <3>1. 1 <= MaxDepth
        BY RoutingAssumption
    <3> QED BY <2>3, <2>4, <3>1 DEF ShapeInv, StackInv
  <2>6. Clean(one) /\ ~Under(one)
      BY <1>1, <2>3 DEF Clean, Under
  <2>7. one[Len(stack[t]) + 1].pc = pc /\ \A i \in 1..Len(stack[t]) : SameCall(one[i], stack[t][i])
      BY <1>1, <2>1, <2>3
  <2> QED BY <1>2, <2>1, <2>3, <2>4, <2>5, <2>6, <2>7
<1>3. CASE /\ Place(t) \in PythonCode /\ Top(t).inner < MaxInner /\ Len(stack[t]) < MaxDepth
           /\ stack' = [stack EXCEPT ![t] = Append(Front(stack[t]), [Top(t) EXCEPT !.inner = @ + 1]) \o <<f>>]
  <2> DEFINE s == stack[t]
             n == Len(s)
             g == [Top(t) EXCEPT !.inner = @ + 1]
             q == Append(Front(s), g)
             r == q \o <<f>>
  <2>0. stack' = [stack EXCEPT ![t] = r]
      BY <1>3
  <2>1. Place(t) # "idle"
      BY <1>3 DEF PythonCode
  <2>2. /\ s \in Seq(Frames) /\ s # <<>> /\ n \in Nat \ {0} /\ DOMAIN s = 1..n
        /\ Top(t) = s[n] /\ s[n] \in Frames
      BY <2>1, TopFacts DEF ShapeInv
  <2>3. g \in Frames /\ SameCall(g, s[n])
    <3>1. s[n].inner \in 0..MaxInner /\ s[n].inner < MaxInner /\ MaxInner \in Nat
        BY <1>3, <2>2, RoutingAssumption DEF Frames
    <3>2. s[n].inner + 1 \in 0..MaxInner
        BY <3>1
    <3> QED BY <2>2, <3>2 DEF Frames, SameCall
  <2>4. /\ Front(s) \in Seq(Frames) /\ Len(Front(s)) = n - 1
        /\ \A i \in 1..(n - 1) : Front(s)[i] = s[i]
      BY <2>2, FrontSeq
  <2> HIDE DEF g
  <2>5. /\ q \in Seq(Frames) /\ Len(q) = n /\ q[n] = g
        /\ \A i \in 1..(n - 1) : q[i] = s[i]
    <3>1. /\ q \in Seq(Frames) /\ Len(q) = Len(Front(s)) + 1
          /\ \A i \in 1..Len(Front(s)) : q[i] = Front(s)[i]
          /\ q[Len(Front(s)) + 1] = g
        BY <2>3, <2>4, AppendProperties
    <3>2. n - 1 + 1 = n
        BY <2>2
    <3> QED BY <2>4, <3>1, <3>2
  <2>6. <<f>> \in Seq(Frames) /\ Len(<<f>>) = 1 /\ <<f>>[1] = f
      BY <1>1
  <2> HIDE DEF q
  <2>7. /\ r \in Seq(Frames) /\ Len(r) = n + 1 /\ r[n + 1] = f
        /\ \A i \in 1..n : r[i] = q[i]
    <3>1. /\ r \in Seq(Frames) /\ Len(r) = Len(q) + Len(<<f>>)
          /\ \A i \in 1..Len(q) : r[i] = q[i]
          /\ \A i \in 1..Len(<<f>>) : r[Len(q) + i] = <<f>>[i]
        BY <2>5, <2>6, ConcatProperties
    <3> QED BY <2>5, <2>6, <3>1
  <2>8. DOMAIN r = 1..(n + 1)
      BY <2>7, LenProperties
  <2>9. /\ DOMAIN stack' = Threads /\ stack'[t] = r
        /\ \A u \in Threads \ {t} : stack'[u] = stack[u]
    <3> HIDE DEF r
    <3> QED BY <2>0 DEF ShapeInv
  <2>10. n < MaxDepth
      BY <1>3
  <2> HIDE DEF r, n
  <2>11. StackInv'
    <3>1. n + 1 <= MaxDepth
        BY <2>2, <2>10, RoutingAssumption
    <3> QED BY <2>7, <2>9, <3>1 DEF ShapeInv, StackInv
  <2>12. \A i \in 1..n : SameCall(r[i], s[i])
    <3>1. \A i \in 1..n : i = n \/ i \in 1..(n - 1)
        BY <2>2
    <3> QED BY <2>3, <2>5, <2>7, <3>1 DEF SameCall
  <2>13. /\ \A i \in 1..(n + 1) : i = n + 1 \/ i \in 1..n
         /\ \A i \in 1..n : i \in 1..(n + 1)
         /\ \A i, j \in 1..(n + 1) : i < j => i \in 1..n
      BY <2>2
  <2>14. r[n + 1].pc \notin Routed \cup {"baseline"} /\ n + 1 \in 1..(n + 1)
      BY <1>1, <2>2, <2>7
  <2>15. Under(r) <=> Under(s)
      BY <2>2, <2>8, <2>12, <2>13, <2>14 DEF Under, SameCall
  <2>16. Clean(r)
    <3>1. Clean(s)
        BY DEF NestInv
    <3> QED BY <2>2, <2>8, <2>12, <2>13, <2>14, <3>1 DEF Clean, SameCall
  <2>17. r[n + 1].pc = pc
      BY <1>1, <2>7
  <2> QED BY <1>3, <2>1, <2>2, <2>7, <2>9, <2>11, <2>12, <2>15, <2>16, <2>17 DEF n
<1> QED BY <1>2, <1>3 DEF Call, f

-----------------------------------------------------------------------------
(* Nesting.                                                                *)

Nested == DOMAIN stack = Threads /\ StackInv /\ DepthInv /\ NestInv

\* The place of a call changes, or the call is over, outside a baseline.
LEMMA MoveKeeps ==
    ASSUME RoutingInv, NEW t \in Threads, Place(t) \notin {"idle", "baseline"}, UNCHANGED depth,
           \/ Leave(t)
           \/ \E f \in Frames : /\ SetTop(t, f) /\ f.pc # "baseline"
                                /\ f.pc \notin Routed \/ Place(t) \in Routed \/ depth[t] = 0
    PROVE  Nested'
<1>1. Top(t).pc = Place(t) /\ Clean(stack[t]) /\ (depth[t] = 0 <=> ~Under(stack[t]))
    BY TopFacts DEF RoutingInv, ShapeInv, DepthInv, NestInv
<1>2. /\ DOMAIN stack' = Threads /\ StackInv' /\ \A u \in Threads \ {t} : stack'[u] = stack[u]
      /\ Clean(stack'[t]) /\ (Under(stack'[t]) <=> Under(stack[t]))
  <2>1. CASE Leave(t)
      BY <1>1, <2>1, LeaveFacts DEF RoutingInv
  <2>2. CASE \E f \in Frames : /\ SetTop(t, f) /\ f.pc # "baseline"
                               /\ f.pc \notin Routed \/ Place(t) \in Routed \/ depth[t] = 0
    <3>1. PICK f \in Frames : /\ SetTop(t, f) /\ f.pc # "baseline"
                              /\ f.pc \notin Routed \/ Place(t) \in Routed \/ depth[t] = 0
        BY <2>2
    <3>2. f.pc \notin Routed \/ Top(t).pc \in Routed \/ ~Under(stack[t])
        BY <1>1, <3>1
    <3>3. ShapeInv /\ Place(t) # "idle" /\ Top(t).pc # "baseline"
        BY <1>1 DEF RoutingInv
    <3>4. SetTop(t, f) /\ f.pc # "baseline" /\ Clean(stack[t])
        BY <1>1, <3>1
    <3> QED BY <3>2, <3>3, <3>4, SetTopFacts
  <2> QED BY <2>1, <2>2
<1> QED BY <1>2 DEF Nested, RoutingInv, DepthInv, NestInv

\* The top is given another place.
LEMMA GotoMoves ==
    ASSUME RoutingInv, NEW t \in Threads, Place(t) # "idle", NEW pc \in Places, Goto(t, pc)
    PROVE  \E f \in Frames : SetTop(t, f) /\ f.pc = pc
<1>1. Top(t) \in Frames
    BY TopFacts DEF RoutingInv, ShapeInv
<1>2. [Top(t) EXCEPT !.pc = pc] \in Frames /\ [Top(t) EXCEPT !.pc = pc].pc = pc
    BY <1>1 DEF Frames
<1> QED BY <1>2 DEF Goto

Errors == {"refused", "user", "db", "internal"}

\* An error raises, or falls back, or is counted first; none of it is routed.
LEMMA RecordMoves ==
    ASSUME RoutingInv, NEW t \in Threads, Place(t) # "idle", NEW e \in Errors, RecordError(t, e)
    PROVE  /\ \/ Leave(t) /\ CannotAnswer(t, e)
              \/ ~CannotAnswer(t, e) /\ \E f \in Frames : SetTop(t, f) /\ f.pc \in {"original", "countWrite"}
           /\ faults' \in [Models -> Nat]
<1>0. Top(t) \in Frames
    BY TopFacts DEF RoutingInv, ShapeInv
<1>1. Top(t).model \in Models /\ errors[Top(t).model] \in Nat
    BY <1>0 DEF Frames, RoutingInv, ShapeInv
<1>2. {"original", "countWrite"} \subseteq Places
    BY DEF Places, PythonCode
<1>3. faults' \in [Models -> Nat]
  <2>1. faults' = faults \/ faults' = [faults EXCEPT ![Top(t).model] = @ + 1]
      BY DEF RecordError
  <2> QED BY <1>1, <2>1 DEF RoutingInv, ShapeInv
<1>4. CASE CannotAnswer(t, e)
  <2>1. e \in {"user", "db"}
      BY <1>4 DEF CannotAnswer
  <2>2. Leave(t)
      BY <1>4, <2>1 DEF RecordError
  <2> QED BY <1>3, <1>4, <2>2
<1>5. CASE ~CannotAnswer(t, e) /\ e = "refused"
  <2>1. Goto(t, "original")
      BY <1>5 DEF RecordError
  <2> QED BY <1>2, <1>3, <1>5, <2>1, GotoMoves
<1>6. CASE ~CannotAnswer(t, e) /\ e \in {"db", "internal"}
  <2>1. SetTop(t, [Top(t) EXCEPT !.pc = "countWrite", !.same = TRUE, !.seen = errors[Top(t).model]])
      BY <1>6 DEF RecordError
  <2>2. /\ [Top(t) EXCEPT !.pc = "countWrite", !.same = TRUE, !.seen = errors[Top(t).model]] \in Frames
        /\ [Top(t) EXCEPT !.pc = "countWrite", !.same = TRUE, !.seen = errors[Top(t).model]].pc = "countWrite"
      BY <1>0, <1>1, <1>2 DEF Frames
  <2> QED BY <1>3, <1>6, <2>1, <2>2
<1> QED BY <1>4, <1>5, <1>6 DEF Errors, CannotAnswer

LEMMA TxType ==
    ASSUME ShapeInv, NEW t \in Threads, NEW e, Outcome(t, e)
    PROVE  /\ tx' \in [Threads -> {"sound", "aborted"}]
           /\ \A u \in Threads \ {t} : tx'[u] = tx[u]
           /\ e # "db" => tx[t] = "sound" /\ tx' = tx
BY DEF Outcome, ServerError, ClientError, ShapeInv, MustRaise

LEMMA InitRouting == Init => RoutingInv
<1> SUFFICES ASSUME Init PROVE RoutingInv
    OBVIOUS
<1>1. <<>> \in Seq(Frames) /\ Len(<<>>) = 0 /\ DOMAIN <<>> = {}
    BY EmptySeq
<1>2. 0 <= MaxDepth
    BY RoutingAssumption
<1>3. \A t \in Threads : stack[t] = <<>> /\ depth[t] = 0
    BY DEF Init
<1>4. StackInv /\ DepthInv /\ NestInv
    BY <1>1, <1>2, <1>3 DEF StackInv, DepthInv, NestInv, Under, Clean
<1>5. 0 \in Nat
    OBVIOUS
<1>6. ShapeInv
    BY <1>4, <1>5 DEF Init, ShapeInv
<1> QED BY <1>4, <1>6 DEF RoutingInv

\* Where a call that is routed stands.
LEMMA PlaceSets ==
    /\ Routed = {"deps", "prepare", "dispatch", "post", "decide", "native"}
    /\ PythonCode = {"deps", "prepare", "post", "baseline", "original"}
    /\ Places = {"deps", "prepare", "post", "baseline", "original", "dispatch", "decide", "native",
                 "gate", "quarantine", "append", "countWrite", "countFirst", "armed",
                 "keyError", "attributeError"}
BY DEF Routed, PythonCode, Places

LEMMA NextRouting == RoutingInv /\ [Next]_vars => RoutingInv'
<1> SUFFICES ASSUME RoutingInv, [Next]_vars PROVE RoutingInv'
    OBVIOUS
<1> USE PlaceSets
<1>0. ShapeInv /\ DepthInv /\ NestInv
    BY DEF RoutingInv
<1>1. ASSUME Nested', UNCHANGED <<switch, cursor, depth, errors, quarantined, found>>,
             tx' \in [Threads -> {"sound", "aborted"}], faults' \in [Models -> Nat]
      PROVE  RoutingInv'
    BY <1>0, <1>1 DEF Nested, RoutingInv, ShapeInv, switch
<1>2. ASSUME UNCHANGED <<stack, depth>> PROVE Nested'
    BY <1>0, <1>2 DEF Nested, ShapeInv, StackInv, DepthInv, NestInv
<1>3. ASSUME NEW t \in Threads, Gate(t) PROVE RoutingInv'
  <2>1. Place(t) = "gate" /\ UNCHANGED <<switch, cursor, tx, depth, stats>>
      BY <1>3 DEF Gate
  <2>2. PICK pc \in {"deps", "prepare", "original"} : (pc # "original" => Allows(t)) /\ Goto(t, pc)
      BY <1>3 DEF Gate
  <2>3. pc \in Routed => depth[t] = 0
      BY <2>2 DEF Allows
  <2>4. Nested'
      BY <2>1, <2>2, <2>3, GotoMoves, MoveKeeps
  <2> QED BY <1>0, <1>1, <2>1, <2>4 DEF ShapeInv, stats
<1>4. ASSUME NEW t \in Threads, Place(t) \in Routed, NEW e \in Errors, RecordError(t, e),
             UNCHANGED <<switch, cursor, depth, errors, quarantined, found>>,
             tx' \in [Threads -> {"sound", "aborted"}]
      PROVE  RoutingInv'
  <2>1. Nested'
      BY <1>4, RecordMoves, MoveKeeps
  <2> QED BY <1>1, <1>4, <2>1, RecordMoves
<1>5. ASSUME NEW t \in Threads, Place(t) \in Routed, NEW f \in Frames, SetTop(t, f), f.pc # "baseline",
             UNCHANGED <<switch, cursor, depth, stats>>, tx' \in [Threads -> {"sound", "aborted"}]
      PROVE  RoutingInv'
  <2>1. Nested'
      BY <1>5, MoveKeeps
  <2> QED BY <1>0, <1>1, <1>5, <2>1 DEF ShapeInv, stats
<1>6. ASSUME NEW t \in Threads, Place(t) \notin {"idle", "baseline"}, Leave(t),
             UNCHANGED <<switch, cursor, depth, stats>>, tx' \in [Threads -> {"sound", "aborted"}]
      PROVE  RoutingInv'
  <2>1. Nested'
      BY <1>6, MoveKeeps
  <2> QED BY <1>0, <1>1, <1>6, <2>1 DEF ShapeInv, stats
<1>7. ASSUME NEW t \in Threads, Deps(t) PROVE RoutingInv'
  <2>1. Place(t) = "deps" /\ UNCHANGED <<switch, cursor, depth, errors, quarantined, found>>
      BY <1>7 DEF Deps
  <2>2. PICK e \in {"none", "user", "db", "internal"} :
           /\ Outcome(t, e)
           /\ IF e = "none" THEN Goto(t, "prepare") /\ UNCHANGED faults ELSE RecordError(t, "refused")
      BY <1>7 DEF Deps
  <2>3. tx' \in [Threads -> {"sound", "aborted"}]
      BY <1>0, <2>2, TxType
  <2>4. CASE e = "none"
      BY <1>5, <2>1, <2>2, <2>3, <2>4, GotoMoves DEF stats
  <2>5. CASE e # "none"
      BY <1>4, <2>1, <2>2, <2>3, <2>5 DEF Errors
  <2> QED BY <2>4, <2>5
<1>8. ASSUME NEW t \in Threads, Prepare(t) PROVE RoutingInv'
  <2>1. Place(t) = "prepare" /\ UNCHANGED <<switch, cursor, depth, errors, quarantined, found>>
      BY <1>8 DEF Prepare
  <2>2. PICK e \in {"none", "user", "db", "internal"} :
           /\ Outcome(t, e)
           /\ IF e = "none" THEN Goto(t, "dispatch") /\ UNCHANGED faults
              ELSE \E k \in Classify(e) : RecordError(t, k)
      BY <1>8 DEF Prepare
  <2>3. tx' \in [Threads -> {"sound", "aborted"}]
      BY <1>0, <2>2, TxType
  <2>4. CASE e = "none"
      BY <1>5, <2>1, <2>2, <2>3, <2>4, GotoMoves DEF stats
  <2>5. CASE e # "none"
      BY <1>4, <2>1, <2>2, <2>3, <2>5 DEF Errors, Classify
  <2> QED BY <2>4, <2>5
<1>9. ASSUME NEW t \in Threads, Dispatch(t) PROVE RoutingInv'
  <2>1. /\ Place(t) = "dispatch" /\ UNCHANGED <<switch, cursor, depth, errors, quarantined, found>>
        /\ tx' \in [Threads -> {"sound", "aborted"}]
      BY <1>0, <1>9 DEF Dispatch, ShapeInv
  <2>2. CASE RecordError(t, "internal") \/ RecordError(t, "refused")
      BY <1>4, <2>1, <2>2 DEF Errors
  <2>3. ASSUME NEW same \in BOOLEAN, SetTop(t, [Top(t) EXCEPT !.pc = "post", !.same = same]), UNCHANGED faults
        PROVE  RoutingInv'
    <3>1. Top(t) \in Frames /\ "post" \in Places /\ 0 \in Nat
        BY <1>0, <2>1, TopFacts DEF ShapeInv
    <3>2. /\ [Top(t) EXCEPT !.pc = "post", !.same = same] \in Frames
          /\ [Top(t) EXCEPT !.pc = "post", !.same = same].pc = "post"
        BY <3>1 DEF Frames
    <3> QED BY <1>5, <2>1, <2>3, <3>2 DEF stats
  <2> QED BY <1>9, <2>2, <2>3 DEF Dispatch
<1>10. ASSUME NEW t \in Threads, Post(t) PROVE RoutingInv'
  <2>1. Place(t) = "post" /\ UNCHANGED <<switch, cursor, depth, errors, quarantined, found>>
      BY <1>10 DEF Post
  <2>2. PICK e \in {"none", "refused", "user", "db", "internal"} :
           /\ Outcome(t, e)
           /\ IF e = "none" THEN Goto(t, "decide") /\ UNCHANGED faults ELSE RecordError(t, e)
      BY <1>10 DEF Post
  <2>3. tx' \in [Threads -> {"sound", "aborted"}]
      BY <1>0, <2>2, TxType
  <2>4. CASE e = "none"
      BY <1>5, <2>1, <2>2, <2>3, <2>4, GotoMoves DEF stats
  <2>5. CASE e # "none"
      BY <1>4, <2>1, <2>2, <2>3, <2>5 DEF Errors
  <2> QED BY <2>4, <2>5
<1>11. ASSUME NEW t \in Threads, EnterBaseline(t) PROVE RoutingInv'
  <2>1. /\ Place(t) = "decide" /\ Goto(t, "baseline") /\ depth' = [depth EXCEPT ![t] = @ + 1]
        /\ UNCHANGED <<switch, cursor, tx, stats>>
      BY <1>11 DEF EnterBaseline
  <2>2. ~Under(stack[t])
    <3>1. /\ DOMAIN stack[t] = 1..Len(stack[t]) /\ Len(stack[t]) \in Nat \ {0}
          /\ stack[t][Len(stack[t])].pc = "decide"
        BY <1>0, <2>1, TopFacts DEF ShapeInv
    <3>2. \A i \in 1..Len(stack[t]) : i = Len(stack[t]) \/ i < Len(stack[t])
        BY <3>1
    <3> QED BY <1>0, <3>1, <3>2 DEF Under, NestInv, Clean
  <2>3. PICK f \in Frames : SetTop(t, f) /\ f.pc = "baseline"
      BY <2>1, GotoMoves
  <2>4. /\ DOMAIN stack' = Threads /\ StackInv' /\ \A u \in Threads \ {t} : stack'[u] = stack[u]
        /\ Clean(stack'[t]) /\ Under(stack'[t])
      BY <1>0, <2>1, <2>2, <2>3, SetTopFacts
  <2>5. /\ depth'[t] = 1 /\ depth' \in [Threads -> Nat]
        /\ \A u \in Threads \ {t} : depth'[u] = depth[u]
      BY <1>0, <2>1, <2>2 DEF DepthInv, ShapeInv
  <2>6. DepthInv' /\ NestInv'
      BY <1>0, <2>4, <2>5 DEF DepthInv, NestInv
  <2> QED BY <1>0, <2>1, <2>4, <2>5, <2>6 DEF RoutingInv, ShapeInv, switch, stats
<1>12. ASSUME NEW t \in Threads, LeaveBaseline(t) PROVE RoutingInv'
  <2>1. Place(t) = "baseline" /\ UNCHANGED <<switch, cursor, stats>>
      BY <1>12 DEF LeaveBaseline
  <2>2. PICK e \in {"none", "user", "db", "internal"} :
           /\ Outcome(t, e)
           /\ depth' = [depth EXCEPT ![t] = BaselineDepth(t, e)]
           /\ IF e = "none" /\ Top(t).same THEN Leave(t)
              ELSE SetTop(t, [Top(t) EXCEPT !.pc = "quarantine", !.same = TRUE])
      BY <1>12 DEF LeaveBaseline
  <2>3. /\ tx' \in [Threads -> {"sound", "aborted"}] /\ Clean(stack[t])
        /\ Top(t).pc = "baseline" /\ Top(t) \in Frames /\ Under(stack[t])
    <3>1. /\ DOMAIN stack[t] = 1..Len(stack[t]) /\ Len(stack[t]) \in Nat \ {0}
          /\ stack[t][Len(stack[t])].pc = "baseline" /\ Top(t).pc = "baseline" /\ Top(t) \in Frames
        BY <1>0, <2>1, TopFacts DEF ShapeInv
    <3>2. Len(stack[t]) \in 1..Len(stack[t])
        BY <3>1
    <3> QED BY <1>0, <2>2, <3>1, <3>2, TxType DEF NestInv, Under
  <2>4. /\ DOMAIN stack' = Threads /\ StackInv' /\ \A u \in Threads \ {t} : stack'[u] = stack[u]
        /\ Clean(stack'[t]) /\ ~Under(stack'[t])
    <3>1. CASE Leave(t)
        BY <1>0, <2>1, <2>3, <3>1, LeaveFacts
    <3>2. CASE SetTop(t, [Top(t) EXCEPT !.pc = "quarantine", !.same = TRUE])
      <4>1. "quarantine" \in Places /\ 0 \in Nat
          OBVIOUS
      <4>2. PICK f \in Frames : SetTop(t, f) /\ f.pc = "quarantine"
        <5>1. /\ [Top(t) EXCEPT !.pc = "quarantine", !.same = TRUE] \in Frames
              /\ [Top(t) EXCEPT !.pc = "quarantine", !.same = TRUE].pc = "quarantine"
            BY <2>3, <4>1 DEF Frames
        <5> QED BY <3>2, <5>1
      <4> QED BY <1>0, <2>1, <2>3, <4>2, SetTopFacts
    <3> QED BY <2>2, <3>1, <3>2
  <2>5. /\ depth'[t] = 0 /\ depth' \in [Threads -> Nat]
        /\ \A u \in Threads \ {t} : depth'[u] = depth[u]
    <3>1. depth[t] = 1
        BY <1>0, <2>3 DEF DepthInv
    <3> QED BY <1>0, <2>2, <3>1 DEF BaselineDepth, ShapeInv
  <2>6. DepthInv' /\ NestInv'
      BY <1>0, <2>4, <2>5 DEF DepthInv, NestInv
  <2> QED BY <1>0, <2>1, <2>3, <2>4, <2>5, <2>6 DEF RoutingInv, ShapeInv, switch, stats
<1>13. ASSUME NEW t \in Threads, ReturnKernel(t) \/ Original(t) \/ Unwind(t) PROVE RoutingInv'
  <2>1. Place(t) \notin {"idle", "baseline"} /\ Leave(t) /\ UNCHANGED <<switch, cursor, depth, stats>>
      BY <1>13 DEF ReturnKernel, Original, Unwind
  <2>2. tx' \in [Threads -> {"sound", "aborted"}]
      BY <1>0, <1>13, TxType DEF ReturnKernel, Original, Unwind, ShapeInv
  <2> QED BY <1>6, <2>1, <2>2
<1>14. ASSUME NEW t \in Threads, NEW pc \in Places \ (Routed \cup {"baseline"}),
             Place(t) \notin {"idle", "baseline"}, Goto(t, pc),
             UNCHANGED <<switch, cursor, depth, stats, tx>>
      PROVE  RoutingInv'
  <2>1. Nested'
      BY <1>14, GotoMoves, MoveKeeps
  <2> QED BY <1>0, <1>1, <1>14, <2>1 DEF ShapeInv, stats
<1>15. ASSUME NEW t \in Threads, Quarantine(t) PROVE RoutingInv'
  <2>1. /\ Place(t) = "quarantine"
        /\ UNCHANGED <<switch, cursor, tx, depth, errors, quarantined, faults>>
        /\ Leave(t) \/ (Goto(t, "append") /\ UNCHANGED found)
        /\ found' \subseteq found \cup {Top(t).model}
      BY <1>15 DEF Quarantine
  <2>2. Top(t).model \in Models
      BY <1>0, <2>1, TopFacts DEF ShapeInv, Frames
  <2>3. CASE Leave(t)
    <3>1. Nested'
        BY <2>1, <2>3, MoveKeeps
    <3> QED BY <1>0, <2>1, <2>2, <3>1 DEF Nested, RoutingInv, ShapeInv, switch
  <2>4. CASE Goto(t, "append") /\ UNCHANGED found
      BY <1>14, <2>1, <2>4 DEF stats
  <2> QED BY <2>1, <2>3, <2>4
<1>16. ASSUME NEW t \in Threads, AppendQuarantine(t) PROVE RoutingInv'
  <2>1. Place(t) = "append" /\ Leave(t)
      BY <1>16 DEF AppendQuarantine
  <2>2. Top(t).model \in Models
      BY <1>0, <2>1, TopFacts DEF ShapeInv, Frames
  <2>3. Nested'
      BY <1>16, <2>1, MoveKeeps DEF AppendQuarantine
  <2>4. quarantined' \in [Models -> Nat] /\ found' \subseteq Models
      BY <1>0, <1>16, <2>2 DEF AppendQuarantine, ShapeInv
  <2> QED BY <1>0, <1>16, <2>3, <2>4 DEF AppendQuarantine, Nested, RoutingInv, ShapeInv, switch
<1>17. ASSUME NEW t \in Threads, CountWrite(t) PROVE RoutingInv'
  <2>1. Place(t) = "countWrite" /\ SetTop(t, [Top(t) EXCEPT !.pc = "countFirst", !.seen = 0])
      BY <1>17 DEF CountWrite
  <2>2. Top(t) \in Frames
      BY <1>0, <2>1, TopFacts DEF ShapeInv
  <2>3. "countFirst" \in Places /\ TRUE \in BOOLEAN /\ 0 \in Nat
      OBVIOUS
  <2>4. PICK f \in Frames : SetTop(t, f) /\ f.pc = "countFirst"
    <3>1. /\ [Top(t) EXCEPT !.pc = "countFirst", !.seen = 0] \in Frames
          /\ [Top(t) EXCEPT !.pc = "countFirst", !.seen = 0].pc = "countFirst"
        BY <2>2, <2>3 DEF Frames
    <3> QED BY <2>1, <3>1
  <2>5. Nested'
      BY <1>17, <2>1, <2>4, MoveKeeps DEF CountWrite
  <2>6. errors' \in [Models -> Nat]
      BY <1>0, <1>17, <2>2 DEF CountWrite, ShapeInv, Frames
  <2> QED BY <1>0, <1>17, <2>5, <2>6 DEF CountWrite, Nested, RoutingInv, ShapeInv, switch
<1>18. ASSUME NEW t \in Threads, CountFirst(t) PROVE RoutingInv'
    BY <1>14, <1>18 DEF CountFirst
<1>19. ASSUME NEW t \in Threads, PortArmed(t) PROVE RoutingInv'
  <2>1. Place(t) = "armed" /\ UNCHANGED <<switch, cursor, tx, depth, stats>>
      BY <1>19 DEF PortArmed
  <2>2. CASE Leave(t)
      BY <1>0, <1>6, <2>1, <2>2 DEF ShapeInv
  <2>3. CASE Armed(t) /\ Goto(t, "native")
    <3>1. depth[t] = 0
        BY <2>3 DEF Armed, Allows
    <3>2. Nested'
        BY <2>1, <2>3, <3>1, GotoMoves, MoveKeeps
    <3> QED BY <1>0, <1>1, <2>1, <3>2 DEF ShapeInv, stats
  <2> QED BY <1>19, <2>2, <2>3 DEF PortArmed
<1>20. ASSUME NEW t \in Threads, PortNative(t) PROVE RoutingInv'
  <2>1. /\ Place(t) = "native" /\ UNCHANGED <<switch, cursor, tx, depth, stats>>
        /\ Leave(t) \/ Goto(t, "attributeError")
      BY <1>20 DEF PortNative, SearchNative
  <2> QED BY <1>0, <1>6, <1>14, <2>1 DEF ShapeInv
<1>21. ASSUME NEW t \in Threads, NEW m \in Models, NEW pc \in {"gate", "armed"}, Call(t, m, pc)
       PROVE  RoutingInv'
  <2>1. UNCHANGED <<switch, cursor, tx, depth, stats>>
      BY <1>21 DEF Call
  <2>2. Nested'
      BY <1>0, <1>21, <2>1, CallFacts DEF Nested, DepthInv, NestInv
  <2> QED BY <1>0, <1>1, <2>1, <2>2 DEF ShapeInv, stats
<1>22. ASSUME NEW t \in Threads, Begin(t) \/ End(t) PROVE RoutingInv'
  <2>1. UNCHANGED <<switch, stack, depth, stats>>
      BY <1>22 DEF Begin, End
  <2>2. /\ cursor' \in [Threads -> {"none", "rust", "psycopg"}]
        /\ tx' \in [Threads -> {"sound", "aborted"}]
      BY <1>0, <1>22 DEF Begin, End, ShapeInv
  <2> QED BY <1>0, <1>2, <2>1, <2>2 DEF Nested, RoutingInv, ShapeInv, switch, stats
<1>23. ASSUME NEW m \in Models, ResetBreaker(m) PROVE RoutingInv'
  <2>1. /\ errors' \in [Models -> Nat] /\ quarantined' \in [Models -> Nat]
        /\ faults' \in [Models -> Nat] /\ found' \subseteq Models
      BY <1>0, <1>23 DEF ResetBreaker, Removed, ShapeInv
  <2> QED BY <1>0, <1>2, <1>23, <2>1 DEF ResetBreaker, Nested, RoutingInv, ShapeInv, switch
<1>24. ASSUME ResetAll PROVE RoutingInv'
  <2>1. /\ errors' \in [Models -> Nat] /\ quarantined' \in [Models -> Nat]
        /\ faults' \in [Models -> Nat] /\ found' \subseteq Models
      BY <1>24 DEF ResetAll
  <2> QED BY <1>0, <1>2, <1>24, <2>1 DEF ResetAll, Nested, RoutingInv, ShapeInv, switch
<1>25. ASSUME TickActive \/ \E new \in Modes : TickMode(new) PROVE RoutingInv'
  <2>1. mode' \in Modes /\ active' \in BOOLEAN /\ UNCHANGED <<cursor, tx, stack, depth, stats>>
      BY <1>0, <1>25 DEF TickActive, TickMode, ShapeInv
  <2> QED BY <1>0, <1>2, <2>1 DEF Nested, RoutingInv, ShapeInv, stats
<1>26. CASE UNCHANGED vars
    BY <1>0, <1>2, <1>26 DEF Nested, RoutingInv, ShapeInv, vars
<1> QED
    BY <1>3, <1>7, <1>8, <1>9, <1>10, <1>11, <1>12, <1>13, <1>15, <1>16, <1>17, <1>18, <1>19, <1>20,
       <1>21, <1>22, <1>23, <1>24, <1>25, <1>26
    DEF Next, Step

LEMMA RoutingInvariant == Spec => []RoutingInv
BY InitRouting, NextRouting, PTL DEF Spec

MarkType == marked \in [Threads -> BOOLEAN]

\* The mark of a thread's connection is set or it is not.
LEMMA NextMark == MarkType /\ [Next]_vars => MarkType'
<1> SUFFICES ASSUME MarkType, [Next]_vars PROVE MarkType'
    OBVIOUS
<1>1. ASSUME NEW t \in Threads, NEW e, Outcome(t, e) PROVE MarkType'
    BY <1>1 DEF Outcome, ServerError, ClientError, MarkType
<1>2. ASSUME NEW t \in Threads, Step(t) PROVE MarkType'
  <2>1. UNCHANGED marked \/ \E e : Outcome(t, e)
      BY <1>2 DEF Step, Gate, Deps, Prepare, Dispatch, Post, ReturnKernel, EnterBaseline,
             LeaveBaseline, Quarantine, AppendQuarantine, CountWrite, CountFirst, Original, Unwind,
             PortArmed, PortNative
  <2> QED BY <1>1, <2>1 DEF MarkType
<1>3. ASSUME NEW t \in Threads, Begin(t) \/ End(t) PROVE MarkType'
    BY <1>3 DEF Begin, End, MarkType
<1>4. CASE \E t \in Threads, m \in Models : Call(t, m, "gate") \/ Call(t, m, "armed")
    BY <1>4 DEF Call, MarkType
<1>5. CASE (\E m \in Models : ResetBreaker(m)) \/ ResetAll
    BY <1>5 DEF ResetBreaker, ResetAll, MarkType
<1>6. CASE (\E new \in Modes : TickMode(new)) \/ TickActive
    BY <1>6 DEF TickMode, TickActive, MarkType
<1>7. CASE UNCHANGED vars
    BY <1>7 DEF vars, MarkType
<1> QED BY <1>2, <1>3, <1>4, <1>5, <1>6, <1>7 DEF Next

\* What a baseline is compared with never comes from the kernel, and every baseline
\* gives its thread back to routing (_baseline, _verified_baseline).
THEOREM BaselinesAreNested == Spec => []BaselinesNest
<1>1. RoutingInv /\ MarkType => BaselinesNest
  <2> SUFFICES ASSUME RoutingInv, MarkType PROVE BaselinesNest
      OBVIOUS
  <2>1. TypeOK
    <3>1. ASSUME NEW t \in Threads
          PROVE  Len(stack[t]) <= MaxDepth /\ \A i \in DOMAIN stack[t] : stack[t][i] \in Frames
        BY LenProperties, ElementOfSeq DEF RoutingInv, ShapeInv, StackInv
    <3> QED BY <3>1 DEF TypeOK, RoutingInv, ShapeInv, Frames, MarkType
  <2>2. BaselineIsPython
      BY DEF BaselineIsPython, RoutingInv, NestInv, Clean
  <2>3. BaselineEnds
      BY IdleFacts DEF BaselineEnds, RoutingInv, ShapeInv, DepthInv
  <2> QED BY <2>1, <2>2, <2>3 DEF BaselinesNest
<1>2. Init => MarkType
    BY DEF Init, MarkType
<1> QED BY <1>1, <1>2, NextMark, RoutingInvariant, PTL DEF Spec

-----------------------------------------------------------------------------
(* What one step does to a thread.                                         *)

Calls(t) == \E m \in Models, pc \in {"gate", "armed"} : Call(t, m, pc)

\* A thread's calls and its transaction are its own.
LEMMA OthersKeep ==
    ASSUME ShapeInv, NEW u \in Threads, NEW t \in Threads \ {u}, Step(u) \/ Calls(u)
    PROVE  stack'[t] = stack[t] /\ tx'[t] = tx[t]
<1>1. ASSUME NEW f, SetTop(u, f) PROVE stack'[t] = stack[t]
    BY <1>1 DEF SetTop, ShapeInv
<1>2. ASSUME NEW pc, Goto(u, pc) PROVE stack'[t] = stack[t]
    BY <1>1, <1>2 DEF Goto
<1>3. ASSUME Leave(u) PROVE stack'[t] = stack[t]
    BY <1>3 DEF Leave, ShapeInv
<1>4. ASSUME NEW e, RecordError(u, e), e \in Errors PROVE stack'[t] = stack[t]
    BY <1>1, <1>2, <1>3, <1>4 DEF RecordError, Errors, CannotAnswer
<1>5. ASSUME NEW e, Outcome(u, e) PROVE tx'[t] = tx[t]
    BY <1>5 DEF Outcome, ServerError, ClientError, ShapeInv
<1>6. CASE Gate(u) \/ CountFirst(u) \/ EnterBaseline(u)
    BY <1>2, <1>6 DEF Gate, CountFirst, EnterBaseline
<1>7. CASE Deps(u)
    BY <1>2, <1>4, <1>5, <1>7 DEF Deps, Errors
<1>8. CASE Prepare(u)
    BY <1>2, <1>4, <1>5, <1>8 DEF Prepare, Classify, Errors
<1>9. CASE Dispatch(u)
    BY <1>1, <1>4, <1>9 DEF Dispatch, Errors
<1>10. CASE Post(u)
    BY <1>2, <1>4, <1>5, <1>10 DEF Post, Errors
<1>11. CASE LeaveBaseline(u)
    BY <1>1, <1>3, <1>5, <1>11 DEF LeaveBaseline
<1>12. CASE Quarantine(u) \/ AppendQuarantine(u)
    BY <1>2, <1>3, <1>12 DEF Quarantine, AppendQuarantine
<1>13. CASE CountWrite(u)
    BY <1>1, <1>13 DEF CountWrite
<1>14. CASE ReturnKernel(u) \/ Original(u) \/ Unwind(u)
    BY <1>3, <1>5, <1>14 DEF ReturnKernel, Original, Unwind
<1>15. CASE PortArmed(u) \/ PortNative(u)
    BY <1>2, <1>3, <1>15 DEF PortArmed, PortNative, SearchNative
<1>16. CASE Calls(u)
  <2>1. \E x : stack' = [stack EXCEPT ![u] = x]
      BY <1>16 DEF Calls, Call
  <2> QED BY <1>16, <2>1 DEF Calls, Call, ShapeInv
<1> QED BY <1>6, <1>7, <1>8, <1>9, <1>10, <1>11, <1>12, <1>13, <1>14, <1>15, <1>16 DEF Step

\* So a thread changes by its own step, by a new call, or between two calls.
LEMMA OwnMoves ==
    ASSUME ShapeInv, [Next]_vars, NEW t \in Threads
    PROVE  \/ Step(t) \/ Calls(t)
           \/ stack'[t] = stack[t] /\ (tx'[t] = tx[t] \/ Place(t) = "idle")
<1>1. ASSUME NEW u \in Threads, Begin(u) \/ End(u)
      PROVE  stack'[t] = stack[t] /\ (tx'[t] = tx[t] \/ Place(t) = "idle")
  <2>1. (stack' = stack /\ tx' = tx) \/ (stack' = stack /\ Place(u) = "idle" /\ tx' = [tx EXCEPT ![u] = "sound"])
      BY <1>1 DEF Begin, End
  <2>2. tx'[t] = tx[t] \/ (u = t /\ Place(u) = "idle")
      BY <2>1 DEF ShapeInv
  <2> QED BY <2>1, <2>2
<1>2. CASE UNCHANGED <<stack, tx>>
    BY <1>2
<1>3. CASE UNCHANGED vars
    BY <1>2, <1>3 DEF vars
<1>4. CASE (\E m \in Models : ResetBreaker(m)) \/ ResetAll
    BY <1>2, <1>4 DEF ResetBreaker, ResetAll
<1>5. CASE (\E new \in Modes : TickMode(new)) \/ TickActive
    BY <1>2, <1>5 DEF TickMode, TickActive
<1>6. CASE \E u \in Threads : Step(u) \/ Calls(u)
  <2>1. PICK u \in Threads : Step(u) \/ Calls(u)
      BY <1>6
  <2> QED BY <2>1, OthersKeep
<1> QED BY <1>1, <1>3, <1>4, <1>5, <1>6 DEF Next, Calls

\* Every step of a call moves its top or takes it off.
LEMMA StepMoves ==
    ASSUME RoutingInv, NEW t \in Threads, Step(t)
    PROVE  Place(t) # "idle" /\ (Leave(t) \/ \E f \in Frames : SetTop(t, f))
<1> USE PlaceSets
<1>1. Place(t) # "idle"
    BY DEF Step, Gate, Deps, Prepare, Dispatch, Post, ReturnKernel, EnterBaseline, LeaveBaseline,
           Quarantine, AppendQuarantine, CountWrite, CountFirst, Original, Unwind, PortArmed, PortNative
<1>2. Top(t) \in Frames
    BY <1>1, TopFacts DEF RoutingInv, ShapeInv
<1>3. ASSUME NEW pc \in Places, Goto(t, pc) PROVE \E f \in Frames : SetTop(t, f)
    BY <1>1, <1>3, GotoMoves
<1>4. ASSUME NEW e \in Errors, RecordError(t, e)
      PROVE  Leave(t) \/ \E f \in Frames : SetTop(t, f)
    BY <1>1, <1>4, RecordMoves
<1>5. CASE Gate(t) \/ CountFirst(t) \/ EnterBaseline(t)
    BY <1>3, <1>5 DEF Gate, CountFirst, EnterBaseline
<1>6. CASE Deps(t)
    BY <1>3, <1>4, <1>6 DEF Deps, Errors
<1>7. CASE Prepare(t)
    BY <1>3, <1>4, <1>7 DEF Prepare, Classify, Errors
<1>8. CASE Dispatch(t)
  <2>1. ASSUME NEW same \in BOOLEAN
        PROVE  [Top(t) EXCEPT !.pc = "post", !.same = same] \in Frames
      BY <1>2 DEF Frames
  <2> QED BY <1>4, <1>8, <2>1 DEF Dispatch, Errors
<1>9. CASE Post(t)
    BY <1>3, <1>4, <1>9 DEF Post, Errors
<1>10. CASE LeaveBaseline(t)
  <2>1. [Top(t) EXCEPT !.pc = "quarantine", !.same = TRUE] \in Frames
      BY <1>2 DEF Frames
  <2> QED BY <1>10, <2>1 DEF LeaveBaseline
<1>11. CASE CountWrite(t)
  <2>1. [Top(t) EXCEPT !.pc = "countFirst", !.seen = 0] \in Frames
      BY <1>2 DEF Frames
  <2> QED BY <1>11, <2>1 DEF CountWrite
<1>12. CASE Quarantine(t) \/ AppendQuarantine(t)
    BY <1>3, <1>12 DEF Quarantine, AppendQuarantine
<1>13. CASE ReturnKernel(t) \/ Original(t) \/ Unwind(t)
    BY <1>13 DEF ReturnKernel, Original, Unwind
<1>14. CASE PortArmed(t) \/ PortNative(t)
    BY <1>3, <1>14 DEF PortArmed, PortNative, SearchNative
<1> QED BY <1>1, <1>5, <1>6, <1>7, <1>8, <1>9, <1>10, <1>11, <1>12, <1>13, <1>14 DEF Step

LEMMA PlaceAfter ==
    ASSUME ShapeInv, NestInv, NEW t \in Threads
    PROVE  /\ stack'[t] = stack[t] => Place(t)' = Place(t)
           /\ Calls(t) => /\ Len(stack'[t]) # Len(stack[t])
                          /\ Place(t) \in PythonCode \cup {"idle"} /\ Place(t)' \in {"gate", "armed"}
           /\ Leave(t) /\ Place(t) # "idle" => Len(stack'[t]) # Len(stack[t])
<1>1. stack'[t] = stack[t] => Place(t)' = Place(t)
    BY DEF Place, Top
<1>2. ASSUME Calls(t)
      PROVE  /\ Len(stack'[t]) # Len(stack[t])
             /\ Place(t) \in PythonCode \cup {"idle"} /\ Place(t)' \in {"gate", "armed"}
  <2>1. PICK m \in Models, pc \in {"gate", "armed"} : Call(t, m, pc)
      BY <1>2 DEF Calls
  <2>2. /\ Len(stack'[t]) = Len(stack[t]) + 1 /\ Len(stack[t]) \in Nat
        /\ stack'[t][Len(stack[t]) + 1].pc = pc /\ Place(t) \in PythonCode \cup {"idle"}
      BY <2>1, CallFacts
  <2>3. stack'[t] # <<>> /\ Len(stack'[t]) # Len(stack[t])
      BY <2>2, EmptySeq
  <2> QED BY <2>2, <2>3 DEF Place, Top, Last
<1>3. ASSUME Leave(t), Place(t) # "idle" PROVE Len(stack'[t]) # Len(stack[t])
  <2>1. Len(stack'[t]) = Len(stack[t]) - 1 /\ Len(stack[t]) \in Nat \ {0}
      BY <1>3, LeaveFacts
  <2> QED BY <2>1
<1> QED BY <1>1, <1>2, <1>3

-----------------------------------------------------------------------------
(* A divergence found stays known until it is reset.                       *)

FoundInv == \A m \in found : quarantined[m] > 0

LEMMA NextFound == RoutingInv /\ FoundInv /\ [Next]_vars => FoundInv'
<1> SUFFICES ASSUME RoutingInv, FoundInv, [Next]_vars PROVE FoundInv'
    OBVIOUS
<1>0. ShapeInv /\ quarantined \in [Models -> Nat] /\ found \subseteq Models
    BY DEF RoutingInv, ShapeInv
<1>1. CASE UNCHANGED <<quarantined, found>>
    BY <1>1 DEF FoundInv
<1>2. ASSUME NEW t \in Threads, Quarantine(t) PROVE FoundInv'
    BY <1>2 DEF Quarantine, FoundInv
<1>3. ASSUME NEW t \in Threads, AppendQuarantine(t) PROVE FoundInv'
  <2>1. Top(t).model \in Models
    <3>1. Place(t) # "idle"
        BY <1>3 DEF AppendQuarantine
    <3> QED BY <1>0, <3>1, TopFacts DEF ShapeInv, Frames
  <2>2. /\ quarantined' = [quarantined EXCEPT ![Top(t).model] = quarantined[Top(t).model] + 1]
        /\ found' = found \cup {Top(t).model}
      BY <1>3 DEF AppendQuarantine
  <2> HIDE DEF Top
  <2>3. \A m \in found' : quarantined'[m] > 0
      BY <1>0, <2>1, <2>2 DEF FoundInv
  <2> QED BY <2>3 DEF FoundInv
<1>4. ASSUME NEW m \in Models, ResetBreaker(m) PROVE FoundInv'
  <2>1. \A n \in found' : n \in found /\ quarantined'[n] > 0
      BY <1>0, <1>4 DEF ResetBreaker, Removed, FoundInv
  <2> QED BY <2>1 DEF FoundInv
<1>5. CASE ResetAll
    BY <1>5 DEF ResetAll, FoundInv
<1>6. ASSUME NEW t \in Threads, Step(t), ~Quarantine(t), ~AppendQuarantine(t)
      PROVE  UNCHANGED <<quarantined, found>>
    BY <1>6 DEF Step, Gate, Deps, Prepare, Dispatch, Post, ReturnKernel, EnterBaseline, LeaveBaseline,
                CountWrite, CountFirst, Original, Unwind, PortArmed, PortNative, stats
<1>7. ASSUME NEW t \in Threads, Begin(t) \/ End(t) \/ Calls(t) PROVE UNCHANGED <<quarantined, found>>
    BY <1>7 DEF Begin, End, Calls, Call, stats
<1>8. CASE (\E new \in Modes : TickMode(new)) \/ TickActive
    BY <1>1, <1>8 DEF TickMode, TickActive, stats
<1>9. CASE UNCHANGED vars
    BY <1>1, <1>9 DEF vars
<1> QED BY <1>1, <1>2, <1>3, <1>4, <1>5, <1>6, <1>7, <1>8, <1>9 DEF Next, Calls

\* Where a step that does not return leaves the call.
LEMMA PlaceReached ==
    ASSUME RoutingInv, NEW t \in Threads, Place(t) # "idle"
    PROVE  /\ \A pc \in Places : Goto(t, pc) => Place(t)' = pc
           /\ \A e \in Errors : RecordError(t, e) =>
                 (Leave(t) /\ CannotAnswer(t, e))
                 \/ (~CannotAnswer(t, e) /\ Place(t)' \in {"original", "countWrite"})
<1>0. ShapeInv
    BY DEF RoutingInv
<1>1. ASSUME NEW f \in Frames, SetTop(t, f) PROVE Place(t)' = f.pc
    BY <1>0, <1>1, SetTopFacts
<1>2. ASSUME NEW pc \in Places, Goto(t, pc) PROVE Place(t)' = pc
    BY <1>1, <1>2, GotoMoves
<1>3. ASSUME NEW e \in Errors, RecordError(t, e)
      PROVE  (Leave(t) /\ CannotAnswer(t, e))
             \/ (~CannotAnswer(t, e) /\ Place(t)' \in {"original", "countWrite"})
    BY <1>1, <1>3, RecordMoves
<1> QED BY <1>2, <1>3

LEMMA DivergenceKnown ==
    RoutingInv /\ FoundInv /\ [Next]_vars =>
       \A t \in Threads :
          (Place(t) \in {"gate", "armed"} /\ Place(t)' \in Routed /\ Len(stack'[t]) = Len(stack[t]))
          => Top(t).model \notin found
<1> SUFFICES ASSUME RoutingInv, FoundInv, [Next]_vars, NEW t \in Threads, Place(t) \in {"gate", "armed"},
                    Place(t)' \in Routed, Len(stack'[t]) = Len(stack[t])
             PROVE  Top(t).model \notin found
    OBVIOUS
<1> USE PlaceSets
<1>0. ShapeInv /\ NestInv
    BY DEF RoutingInv
<1>1. stack'[t] # stack[t] /\ ~Calls(t) /\ ~Leave(t) /\ Place(t) # "idle"
    BY <1>0, PlaceAfter
<1>2. Step(t)
    BY <1>0, <1>1, OwnMoves
<1>3. Gate(t) \/ PortArmed(t)
    BY <1>2 DEF Step, Gate, Deps, Prepare, Dispatch, Post, ReturnKernel, EnterBaseline, LeaveBaseline,
                Quarantine, AppendQuarantine, CountWrite, CountFirst, Original, Unwind, PortArmed, PortNative
<1>4. ASSUME Gate(t) PROVE Allows(t)
  <2>1. PICK pc \in {"deps", "prepare", "original"} : (pc # "original" => Allows(t)) /\ Goto(t, pc)
      BY <1>4 DEF Gate
  <2> QED BY <1>1, <2>1, PlaceReached
<1>5. ASSUME PortArmed(t) PROVE Allows(t)
    BY <1>1, <1>5 DEF PortArmed, Armed
<1>6. quarantined[Top(t).model] = 0
    BY <1>3, <1>4, <1>5 DEF Allows
<1> QED BY <1>6 DEF FoundInv

\* After a comparison found a model to diverge, and until it is reset, no call that
\* begins on it is let through to the kernel (_quarantine, _policy_allows).
THEOREM DivergenceIsRemembered == Spec => NoAnswerAfterDivergence
<1>1. Init => FoundInv
    BY DEF Init, FoundInv
<1>2. RoutingInv /\ FoundInv /\ [Next]_vars =>
         [\A t \in Threads :
             (Place(t) \in {"gate", "armed"} /\ Place(t)' \in Routed
              /\ Len(stack'[t]) = Len(stack[t]))
             => Top(t).model \notin found]_vars
    BY DivergenceKnown
<1> QED BY <1>1, <1>2, NextFound, RoutingInvariant, PTL DEF Spec, NoAnswerAfterDivergence

-----------------------------------------------------------------------------
(* Python takes over from the kernel on no transaction marked as aborted.  *)

\* Calls nest under Python code, so the kernel's dispatch is never below a call,
LowerInv == \A t \in Threads : \A i \in 1..Len(stack[t]) :
    i < Len(stack[t]) => stack[t][i].pc \in PythonCode

\* and it begins and ends on a transaction that is not aborted.
DispatchInv == \A t \in Threads : Place(t) = "dispatch" => tx[t] = "sound"

LEMMA NextLower == RoutingInv /\ LowerInv /\ [Next]_vars => LowerInv'
<1> SUFFICES ASSUME RoutingInv, LowerInv, [Next]_vars, NEW t \in Threads,
                    NEW i \in 1..Len(stack'[t]), i < Len(stack'[t])
             PROVE  stack'[t][i].pc \in PythonCode
    BY DEF LowerInv
<1>0. ShapeInv /\ NestInv
    BY DEF RoutingInv
<1>1. CASE stack'[t] = stack[t]
    BY <1>1 DEF LowerInv
<1>2. CASE Leave(t) /\ Place(t) # "idle"
  <2>1. /\ Len(stack'[t]) = Len(stack[t]) - 1 /\ Len(stack[t]) \in Nat \ {0}
        /\ \A j \in 1..(Len(stack[t]) - 1) : stack'[t][j] = stack[t][j]
      BY <1>0, <1>2, LeaveFacts
  <2>2. i \in 1..(Len(stack[t]) - 1) /\ i \in 1..Len(stack[t]) /\ i < Len(stack[t])
      BY <2>1
  <2> QED BY <2>1, <2>2 DEF LowerInv
<1>3. CASE Place(t) # "idle" /\ \E f \in Frames : SetTop(t, f)
  <2>1. /\ Len(stack'[t]) = Len(stack[t])
        /\ \A j \in 1..Len(stack[t]) : j # Len(stack[t]) => stack'[t][j] = stack[t][j]
      BY <1>0, <1>3, SetTopFacts
  <2>2. i \in 1..Len(stack[t]) /\ i < Len(stack[t]) /\ i # Len(stack[t])
      BY <2>1
  <2> QED BY <2>1, <2>2 DEF LowerInv
<1>4. CASE Calls(t)
  <2>1. PICK m \in Models, pc \in {"gate", "armed"} : Call(t, m, pc)
      BY <1>4 DEF Calls
  <2>2. /\ Len(stack'[t]) = Len(stack[t]) + 1 /\ Len(stack[t]) \in Nat
        /\ (Len(stack[t]) = 0 <=> Place(t) = "idle") /\ Place(t) \in PythonCode \cup {"idle"}
        /\ \A j \in 1..Len(stack[t]) : stack'[t][j].pc = stack[t][j].pc
      BY <1>0, <2>1, CallFacts DEF SameCall
  <2>3. i \in 1..Len(stack[t]) /\ Len(stack[t]) # 0 /\ (i = Len(stack[t]) \/ i < Len(stack[t]))
      BY <2>2
  <2>4. CASE i = Len(stack[t])
    <3>1. stack[t][i].pc = Place(t)
        BY <1>0, <2>2, <2>3, <2>4, TopFacts DEF ShapeInv
    <3> QED BY <2>2, <2>3, <3>1
  <2>5. CASE i < Len(stack[t])
      BY <2>2, <2>3, <2>5 DEF LowerInv
  <2> QED BY <2>3, <2>4, <2>5
<1> QED BY <1>0, <1>1, <1>2, <1>3, <1>4, OwnMoves, StepMoves

\* A call that returns gives the thread back to Python code.
LEMMA PlaceBelow ==
    ASSUME RoutingInv, LowerInv, NEW t \in Threads, Place(t) # "idle", Leave(t)
    PROVE  Place(t)' \in PythonCode \cup {"idle"}
<1>1. /\ Len(stack'[t]) = Len(stack[t]) - 1 /\ Len(stack[t]) \in Nat \ {0}
      /\ \A j \in 1..(Len(stack[t]) - 1) : stack'[t][j] = stack[t][j]
    BY LeaveFacts DEF RoutingInv
<1>2. CASE stack'[t] = <<>>
    BY <1>2 DEF Place
<1>3. CASE stack'[t] # <<>>
  <2>1. Place(t)' = stack'[t][Len(stack'[t])].pc
      BY <1>3 DEF Place, Top, Last
  <2>2. Len(stack[t]) - 1 # 0
    <3>1. stack'[t] \in Seq(Frames)
        BY LeaveFacts DEF RoutingInv, StackInv
    <3> QED BY <1>1, <1>3, <3>1, EmptySeq
  <2>3. Len(stack[t]) - 1 \in 1..(Len(stack[t]) - 1) /\ Len(stack[t]) - 1 \in 1..Len(stack[t])
        /\ Len(stack[t]) - 1 < Len(stack[t])
    <3> DEFINE n == Len(stack[t])
    <3>1. n \in Nat \ {0} /\ n - 1 # 0
        BY <1>1, <2>2
    <3> HIDE DEF n
    <3>2. n - 1 \in 1..(n - 1) /\ n - 1 \in 1..n /\ n - 1 < n
        BY <3>1
    <3> QED BY <3>2 DEF n
  <2> QED BY <1>1, <2>1, <2>3 DEF LowerInv
<1> QED BY <1>2, <1>3

LEMMA NextDispatch == RoutingInv /\ LowerInv /\ DispatchInv /\ [Next]_vars => DispatchInv'
<1> SUFFICES ASSUME RoutingInv, LowerInv, DispatchInv, [Next]_vars, NEW t \in Threads,
                    Place(t)' = "dispatch"
             PROVE  tx'[t] = "sound"
    BY DEF DispatchInv
<1> USE PlaceSets
<1>0. ShapeInv /\ NestInv /\ tx[t] \in {"sound", "aborted"}
    BY DEF RoutingInv, ShapeInv
<1>1. CASE stack'[t] = stack[t] /\ (tx'[t] = tx[t] \/ Place(t) = "idle")
    BY <1>0, <1>1, PlaceAfter DEF DispatchInv
<1>2. ~Calls(t)
    BY <1>0, PlaceAfter
<1>3. CASE Step(t)
  <2>1. Place(t) # "idle"
      BY <1>3, StepMoves
  <2>2. ~Leave(t)
      BY <2>1, PlaceBelow
  <2>3. \A e \in Errors : ~RecordError(t, e)
      BY <2>1, <2>2, PlaceReached
  <2>4. \A p \in Places \ {"dispatch"} : ~Goto(t, p)
      BY <2>1, PlaceReached
  <2>5. Top(t) \in Frames
      BY <1>0, <2>1, TopFacts DEF ShapeInv
  <2>6. \A f \in Frames : SetTop(t, f) => f.pc = "dispatch"
      BY <1>0, <2>1, SetTopFacts
  <2>7. ~Dispatch(t)
    <3>1. ASSUME NEW same \in BOOLEAN, SetTop(t, [Top(t) EXCEPT !.pc = "post", !.same = same])
          PROVE  FALSE
      <4>1. /\ [Top(t) EXCEPT !.pc = "post", !.same = same] \in Frames
            /\ [Top(t) EXCEPT !.pc = "post", !.same = same].pc = "post"
          BY <2>5 DEF Frames
      <4> QED BY <2>6, <3>1, <4>1
    <3> QED BY <2>3, <3>1 DEF Dispatch, Errors
  <2>8. ~LeaveBaseline(t)
    <3>1. /\ [Top(t) EXCEPT !.pc = "quarantine", !.same = TRUE] \in Frames
          /\ [Top(t) EXCEPT !.pc = "quarantine", !.same = TRUE].pc = "quarantine"
        BY <2>5 DEF Frames
    <3> QED BY <2>2, <2>6, <3>1 DEF LeaveBaseline
  <2>9. ~CountWrite(t)
    <3>1. /\ [Top(t) EXCEPT !.pc = "countFirst", !.seen = 0] \in Frames
          /\ [Top(t) EXCEPT !.pc = "countFirst", !.seen = 0].pc = "countFirst"
        BY <2>5 DEF Frames
    <3> QED BY <2>6, <3>1 DEF CountWrite
  <2>10. ~Gate(t) /\ ~CountFirst(t) /\ ~EnterBaseline(t)
      BY <2>4 DEF Gate, CountFirst, EnterBaseline
  <2>11. ~Deps(t) /\ ~Post(t)
      BY <2>3, <2>4 DEF Deps, Post, Errors
  <2>12. ~ReturnKernel(t) /\ ~Original(t) /\ ~Unwind(t) /\ ~AppendQuarantine(t)
      BY <2>2 DEF ReturnKernel, Original, Unwind, AppendQuarantine
  <2>13. ~Quarantine(t) /\ ~PortArmed(t) /\ ~PortNative(t)
      BY <2>2, <2>4 DEF Quarantine, PortArmed, PortNative, SearchNative
  <2>14. Prepare(t)
      BY <1>3, <2>7, <2>8, <2>9, <2>10, <2>11, <2>12, <2>13 DEF Step
  <2>15. Outcome(t, "none")
      BY <2>3, <2>14 DEF Prepare, Classify, Errors
  <2> QED BY <1>0, <2>15 DEF Outcome, MustRaise
<1> QED BY <1>0, <1>1, <1>2, <1>3, OwnMoves

LEMMA SoundFallback ==
    RoutingInv /\ RoutingInv' /\ DispatchInv /\ [Next]_vars =>
       \A t \in Threads :
          (/\ Place(t) \in Routed \ {"deps"} /\ Len(stack'[t]) = Len(stack[t])
           /\ Place(t)' \in {"original", "countWrite"})
          => ~FallbackOnMarkedAbort(t)
<1> SUFFICES ASSUME RoutingInv, RoutingInv', DispatchInv, [Next]_vars, NEW t \in Threads,
                    Place(t) \in Routed \ {"deps"}, Len(stack'[t]) = Len(stack[t]),
                    Place(t)' \in {"original", "countWrite"}
             PROVE  ~FallbackOnMarkedAbort(t)
    OBVIOUS
<1> USE PlaceSets
<1>0. ShapeInv /\ NestInv /\ tx[t] \in {"sound", "aborted"} /\ tx'[t] \in {"sound", "aborted"}
    BY DEF RoutingInv, ShapeInv
<1>1. stack'[t] # stack[t] /\ ~Calls(t) /\ ~Leave(t) /\ Place(t) # "idle"
    BY <1>0, PlaceAfter
<1>2. Step(t)
    BY <1>0, <1>1, OwnMoves
<1>3. Prepare(t) \/ Dispatch(t) \/ Post(t) \/ ReturnKernel(t) \/ EnterBaseline(t) \/ PortNative(t)
    BY <1>2 DEF Step, Gate, Deps, LeaveBaseline, Quarantine, AppendQuarantine, CountWrite, CountFirst,
                Original, Unwind, PortArmed
<1>4. \A p \in Places : Goto(t, p) => p \in {"original", "countWrite"}
    BY <1>1, PlaceReached
<1>5. ASSUME RecordError(t, "db") PROVE ~FallbackOnMarkedAbort(t)
  <2>1. ~CannotAnswer(t, "db")
      BY <1>1, <1>5, RecordMoves DEF RecordError
  <2>2. cursor[t] = "rust" /\ ~marked'[t]
      BY <2>1 DEF CannotAnswer
  <2>3. Place(t)' = "countWrite"
    <3> DEFINE f == [Top(t) EXCEPT !.pc = "countWrite", !.same = TRUE, !.seen = errors[Top(t).model]]
    <3>1. SetTop(t, f)
        BY <1>5, <2>1 DEF RecordError
    <3>2. Top(t) \in Frames
        BY <1>0, <1>1, TopFacts DEF ShapeInv
    <3>3. f \in Frames /\ f.pc = "countWrite"
        BY <1>0, <3>2 DEF Frames, ShapeInv
    <3> HIDE DEF f
    <3> QED BY <1>0, <1>1, <3>1, <3>3, SetTopFacts
  <2> QED BY <2>2, <2>3 DEF FallbackOnMarkedAbort
<1>6. ASSUME RecordError(t, "user") PROVE FALSE
    BY <1>1, <1>6, RecordMoves DEF RecordError, CannotAnswer
<1>7. ASSUME tx'[t] = "sound" PROVE ~FallbackOnMarkedAbort(t)
    BY <1>7 DEF FallbackOnMarkedAbort
<1>8. ASSUME NEW e, e # "db", Outcome(t, e) PROVE ~FallbackOnMarkedAbort(t)
    BY <1>0, <1>7, <1>8 DEF Outcome, MustRaise
<1>9. CASE Prepare(t)
  <2>1. PICK e \in {"none", "user", "db", "internal"} :
           /\ Outcome(t, e)
           /\ IF e = "none" THEN Goto(t, "dispatch") /\ UNCHANGED faults
              ELSE \E k \in Classify(e) : RecordError(t, k)
      BY <1>9 DEF Prepare
  <2>2. CASE e = "db"
      BY <1>5, <2>1, <2>2 DEF Classify
  <2>3. CASE e # "db"
      BY <1>8, <2>1, <2>3
  <2> QED BY <2>2, <2>3
<1>10. CASE Dispatch(t)
    BY <1>7, <1>10 DEF Dispatch, DispatchInv
<1>11. CASE Post(t)
  <2>1. PICK e \in {"none", "refused", "user", "db", "internal"} :
           /\ Outcome(t, e)
           /\ IF e = "none" THEN Goto(t, "decide") /\ UNCHANGED faults ELSE RecordError(t, e)
      BY <1>11 DEF Post
  <2>2. CASE e = "db"
      BY <1>5, <2>1, <2>2
  <2>3. CASE e # "db"
      BY <1>8, <2>1, <2>3
  <2> QED BY <2>2, <2>3
<1>12. ~ReturnKernel(t) /\ ~EnterBaseline(t) /\ ~PortNative(t)
    BY <1>1, <1>4 DEF ReturnKernel, EnterBaseline, PortNative, SearchNative
<1> QED BY <1>3, <1>9, <1>10, <1>11, <1>12

\* Python is given a call the kernel failed on an aborted transaction only by a
\* database error that no mark shows (_record_error, _python_cannot_answer).
THEOREM FallbackIsSound == Spec => NoFallbackOnMarkedAbort
<1>1. Init => LowerInv /\ DispatchInv
  <2> SUFFICES ASSUME Init PROVE LowerInv /\ DispatchInv
      OBVIOUS
  <2>1. \A t \in Threads : stack[t] = <<>> /\ Place(t) = "idle"
      BY DEF Init, Place
  <2>2. Len(<<>>) = 0
      BY EmptySeq
  <2> QED BY <2>1, <2>2 DEF LowerInv, DispatchInv
<1>2. RoutingInv /\ RoutingInv' /\ DispatchInv /\ [Next]_vars =>
         [\A t \in Threads :
             (/\ Place(t) \in Routed \ {"deps"} /\ Len(stack'[t]) = Len(stack[t])
              /\ Place(t)' \in {"original", "countWrite"})
             => ~FallbackOnMarkedAbort(t)]_vars
    BY SoundFallback
<1> QED BY <1>1, <1>2, NextLower, NextDispatch, RoutingInvariant, PTL DEF Spec, NoFallbackOnMarkedAbort
-----------------------------------------------------------------------------
(* The breaker.  A lost update takes the count of a model back, so how far  *)
(* the count has come says little.  What bounds the errors is what the      *)
(* places where a call can be, one for each level of each thread's stack,   *)
(* may still record: a call that has counted and not yet written will set   *)
(* the count to what it read and one more, and that opens the gate to all   *)
(* of them again, for the errors they can record from there.                *)

\* What each of S owes, w, one element for each unit; at most n each.
Owed(S, n, w) == {x \in S \X (1..n) : x[2] <= w[x[1]]}

LEMMA OwedFinite ==
    ASSUME NEW S, IsFiniteSet(S), NEW n \in Nat, NEW w
    PROVE  /\ IsFiniteSet(Owed(S, n, w)) /\ Cardinality(Owed(S, n, w)) \in Nat
           /\ Cardinality(S) * n \in Nat
           /\ Cardinality(Owed(S, n, w)) <= Cardinality(S) * n
<1>1. IsFiniteSet(1..n) /\ Cardinality(1..n) = n
    BY FS_Interval
<1>2. IsFiniteSet(S \X (1..n)) /\ Cardinality(S \X (1..n)) = Cardinality(S) * n
    BY <1>1, FS_Product
<1>3. Owed(S, n, w) \in SUBSET (S \X (1..n))
    BY DEF Owed
<1> QED BY <1>2, <1>3, FS_Subset, FS_CardinalityType

LEMMA OwedLess ==
    ASSUME NEW S, IsFiniteSet(S), NEW n \in Nat, NEW w \in [S -> 0..n], NEW v \in [S -> 0..n],
           \A s \in S : v[s] <= w[s]
    PROVE  Cardinality(Owed(S, n, v)) <= Cardinality(Owed(S, n, w))
<1>1. ASSUME NEW x \in Owed(S, n, v) PROVE x \in Owed(S, n, w)
  <2>1. x \in S \X (1..n) /\ x[1] \in S /\ x[2] \in 1..n /\ x[2] <= v[x[1]]
      BY DEF Owed
  <2>2. v[x[1]] \in 0..n /\ w[x[1]] \in 0..n /\ v[x[1]] <= w[x[1]]
      BY <2>1
  <2>3. x[2] <= w[x[1]]
      BY <2>1, <2>2
  <2> QED BY <2>1, <2>3 DEF Owed
<1>2. Owed(S, n, v) \in SUBSET Owed(S, n, w)
    BY <1>1
<1> QED BY <1>2, OwedFinite, FS_Subset

LEMMA OwedPaid ==
    ASSUME NEW S, IsFiniteSet(S), NEW n \in Nat, NEW w \in [S -> 0..n], NEW v \in [S -> 0..n],
           \A s \in S : v[s] <= w[s], NEW a \in S, v[a] < w[a]
    PROVE  Cardinality(Owed(S, n, v)) + 1 <= Cardinality(Owed(S, n, w))
<1> DEFINE unit == <<a, w[a]>>
<1>0. w[a] \in 0..n /\ v[a] \in 0..n
    OBVIOUS
<1>1. unit \in Owed(S, n, w)
  <2>1. w[a] \in 1..n /\ w[a] <= w[a]
      BY <1>0
  <2> QED BY <2>1 DEF Owed
<1>2. ASSUME NEW x \in Owed(S, n, v) PROVE x \in Owed(S, n, w) \ {unit}
  <2>1. x \in S \X (1..n) /\ x[1] \in S /\ x[2] \in 1..n /\ x[2] <= v[x[1]]
      BY DEF Owed
  <2>2. v[x[1]] \in 0..n /\ w[x[1]] \in 0..n /\ v[x[1]] <= w[x[1]]
      BY <2>1
  <2>3. x[2] <= w[x[1]]
      BY <2>1, <2>2
  <2>4. x # unit
    <3>1. ASSUME x = unit PROVE FALSE
      <4>1. x[1] = a /\ x[2] = w[a]
          BY <3>1
      <4> QED BY <1>0, <2>1, <4>1
    <3> QED BY <3>1
  <2> QED BY <2>1, <2>3, <2>4 DEF Owed
<1> HIDE DEF unit
<1>3. Owed(S, n, v) \in SUBSET (Owed(S, n, w) \ {unit})
    BY <1>2
<1>4. /\ IsFiniteSet(Owed(S, n, w) \ {unit})
      /\ Cardinality(Owed(S, n, w) \ {unit}) = Cardinality(Owed(S, n, w)) - 1
    BY <1>1, OwedFinite, FS_RemoveElement
<1>5. Cardinality(Owed(S, n, v)) <= Cardinality(Owed(S, n, w)) - 1
    BY <1>3, <1>4, FS_Subset
<1> QED BY <1>5, OwedFinite

\* One of them pays all it owes, and the others may each come to owe c instead.
LEMMA OwedShared ==
    ASSUME NEW S, IsFiniteSet(S), NEW n \in Nat, NEW w \in [S -> 0..n], NEW v \in [S -> 0..n],
           NEW c \in Nat, NEW a \in S, v[a] <= c, w[a] >= Cardinality(S) * c,
           \A s \in S \ {a} : v[s] <= w[s] \/ v[s] <= c
    PROVE  Cardinality(Owed(S, n, v)) <= Cardinality(Owed(S, n, w))
<1> DEFINE D == Owed(S, n, w)
           R == {a} \X (1..w[a])
           N == S \X (1..c)
<1>0. w[a] \in Nat /\ w[a] <= n
  <2>1. w[a] \in 0..n
      OBVIOUS
  <2> QED BY <2>1
<1>1. IsFiniteSet(R) /\ Cardinality(R) = w[a]
  <2>1. IsFiniteSet(1..w[a]) /\ Cardinality(1..w[a]) = w[a]
      BY <1>0, FS_Interval
  <2>2. IsFiniteSet({a}) /\ Cardinality({a}) = 1
      BY FS_Singleton
  <2>3. IsFiniteSet(R) /\ Cardinality(R) = Cardinality({a}) * Cardinality(1..w[a])
      BY <2>1, <2>2, FS_Product
  <2>4. Cardinality({a}) * Cardinality(1..w[a]) = w[a]
    <3> DEFINE k == Cardinality({a})
               l == Cardinality(1..w[a])
    <3>1. k = 1 /\ l = w[a]
        BY <2>1, <2>2
    <3> HIDE DEF k, l
    <3>2. k * l = w[a]
        BY <1>0, <3>1
    <3> QED BY <3>2 DEF k, l
  <2> QED BY <2>3, <2>4
<1>2. IsFiniteSet(N) /\ Cardinality(N) = Cardinality(S) * c
  <2>1. IsFiniteSet(1..c) /\ Cardinality(1..c) = c
      BY FS_Interval
  <2> QED BY <2>1, FS_Product
<1>3. R \subseteq D
  <2>1. ASSUME NEW x \in R PROVE x \in D
    <3>1. x = <<a, x[2]>> /\ x[1] = a /\ x[2] \in 1..w[a]
        OBVIOUS
    <3>2. x[2] \in 1..n /\ x[2] <= w[x[1]]
        BY <1>0, <3>1
    <3>3. x \in S \X (1..n)
        BY <3>1, <3>2
    <3> QED BY <3>2, <3>3 DEF Owed
  <2> QED BY <2>1
<1>4. ASSUME NEW x \in Owed(S, n, v) PROVE x \in (D \ R) \cup N
  <2>1. x \in S \X (1..n) /\ x[1] \in S /\ x[2] \in 1..n /\ x[2] <= v[x[1]] /\ x = <<x[1], x[2]>>
      BY DEF Owed
  <2>2. v[x[1]] \in 0..n /\ w[x[1]] \in 0..n
      BY <2>1
  <2>3. CASE v[x[1]] <= c
    <3>1. x[2] \in 1..c
        BY <2>1, <2>2, <2>3
    <3> QED BY <2>1, <3>1
  <2>4. CASE x[1] # a /\ v[x[1]] <= w[x[1]]
    <3>1. x[2] <= w[x[1]]
        BY <2>1, <2>2, <2>4
    <3>2. x \in D
        BY <2>1, <3>1 DEF Owed
    <3>3. x \notin R
        BY <2>4
    <3> QED BY <3>2, <3>3
  <2> QED BY <2>1, <2>3, <2>4
<1>5. IsFiniteSet(D) /\ Cardinality(D) \in Nat /\ Cardinality(Owed(S, n, v)) \in Nat
    BY OwedFinite
<1>6. D \cap R = R
    BY <1>3
<1> HIDE DEF D, R, N
<1>7. IsFiniteSet(D \ R) /\ Cardinality(D \ R) = Cardinality(D) - w[a]
  <2>1. IsFiniteSet(D \ R) /\ Cardinality(D \ R) = Cardinality(D) - Cardinality(D \cap R)
      BY <1>5, FS_Difference
  <2> QED BY <1>1, <1>6, <2>1
<1>8. /\ IsFiniteSet((D \ R) \cup N)
      /\ Cardinality((D \ R) \cup N) = Cardinality(D \ R) + Cardinality(N) - Cardinality((D \ R) \cap N)
    BY <1>2, <1>7, FS_Union
<1>9. Cardinality((D \ R) \cap N) \in Nat
    BY <1>7, FS_Intersection, FS_CardinalityType
<1>10. Owed(S, n, v) \in SUBSET ((D \ R) \cup N)
    BY <1>4
<1>11. Cardinality(Owed(S, n, v)) <= Cardinality((D \ R) \cup N)
    BY <1>8, <1>10, FS_Subset
<1>12. Cardinality(N) \in Nat /\ Cardinality(N) <= w[a]
    BY <1>2, FS_CardinalityType
<1> QED BY <1>0, <1>5, <1>7, <1>8, <1>9, <1>11, <1>12 DEF D

Slots == {s \in Threads \X (1..MaxDepth) : s[2] = 1 \/ s[1] \in Nesting}

\* V bounds what may be recorded once a write has set the count to p: each place
\* one error, and the write that follows it.  From Breaker on the gate is closed.
Ladder(V) ==
    /\ V \in [Nat -> Nat]
    /\ \A p \in Nat : Breaker <= p => V[p] = 0
    /\ \A p \in Nat : p < Breaker => V[p] >= Cardinality(Slots) * (1 + V[p + 1])
    /\ \A p, q \in Nat : p <= q => V[q] <= V[p]

\* The calls of model m in stacks st.
Filled(st, m, s) == s[2] <= Len(st[s[1]]) /\ st[s[1]][s[2]].model = m
Counting(st, m, s) == Filled(st, m, s) /\ st[s[1]][s[2]].pc = "countWrite"
Owing(st, m, s) == Filled(st, m, s) /\ st[s[1]][s[2]].pc \in Routed

\* What a place may still add to the errors of m while the count of m is e.
Debt(V, st, e, m, s) ==
    IF Counting(st, m, s) THEN V[st[s[1]][s[2]].seen + 1]
    ELSE IF e < Breaker \/ Owing(st, m, s) THEN 1 + V[e + 1] ELSE 0

Debts(V, st, e, m) == [s \in Slots |-> Debt(V, st, e, m, s)]
Outstanding(V, st, e, m) == Cardinality(Owed(Slots, 1 + V[1], Debts(V, st, e, m)))

DebtInv(V) == \A m \in Models : faults[m] + Outstanding(V, stack, errors[m], m) <= V[0]

Stacks(st) == \A t \in Threads : st[t] \in Seq(Frames)

LEMMA SlotFacts ==
    ASSUME IsFiniteSet(Threads)
    PROVE  IsFiniteSet(Slots) /\ Cardinality(Slots) \in Nat
<1>1. IsFiniteSet(1..MaxDepth)
    BY RoutingAssumption, FS_Interval
<1>2. IsFiniteSet(Threads \X (1..MaxDepth))
    BY <1>1, FS_Product
<1>3. Slots \in SUBSET (Threads \X (1..MaxDepth))
    BY DEF Slots
<1> QED BY <1>2, <1>3, FS_Subset, FS_CardinalityType

LEMMA LadderFacts ==
    ASSUME NEW V, Ladder(V), NEW p \in Nat
    PROVE  V[p] \in Nat /\ V[p + 1] \in Nat /\ V[1] \in Nat /\ V[p + 1] <= V[1]
<1>1. p + 1 \in Nat /\ 1 \in Nat /\ 1 <= p + 1
    OBVIOUS
<1> QED BY <1>1 DEF Ladder

LEMMA CountingSeen ==
    ASSUME NEW st, Stacks(st), NEW m, NEW s \in Slots, Counting(st, m, s)
    PROVE  st[s[1]][s[2]] \in Frames /\ st[s[1]][s[2]].seen \in Nat
<1>1. s[1] \in Threads /\ s[2] \in 1..MaxDepth
    BY DEF Slots
<1>2. st[s[1]] \in Seq(Frames) /\ s[2] <= Len(st[s[1]])
    BY <1>1 DEF Stacks, Counting, Filled
<1>3. s[2] \in 1..Len(st[s[1]])
    BY <1>1, <1>2, LenProperties
<1>4. st[s[1]][s[2]] \in Frames
    BY <1>2, <1>3, ElementOfSeq
<1> QED BY <1>4 DEF Frames

LEMMA DebtType ==
    ASSUME NEW V, Ladder(V), NEW st, Stacks(st), NEW e \in Nat, NEW m
    PROVE  /\ 1 + V[1] \in Nat
           /\ \A s \in Slots : Debt(V, st, e, m, s) \in 0..(1 + V[1])
           /\ Debts(V, st, e, m) \in [Slots -> 0..(1 + V[1])]
<1>1. 1 + V[1] \in Nat
    BY LadderFacts
<1>2. ASSUME NEW s \in Slots PROVE Debt(V, st, e, m, s) \in 0..(1 + V[1])
  <2>1. CASE Counting(st, m, s)
    <3> DEFINE q == st[s[1]][s[2]].seen
    <3>1. q \in Nat
        BY <2>1, CountingSeen
    <3> HIDE DEF q
    <3>2. V[q + 1] \in Nat /\ V[1] \in Nat /\ V[q + 1] <= V[1]
        BY <3>1, LadderFacts
    <3>3. V[q + 1] \in 0..(1 + V[1])
        BY <3>2
    <3> QED BY <2>1, <3>3 DEF Debt, q
  <2>2. CASE ~Counting(st, m, s)
    <3>1. V[e + 1] \in Nat /\ V[1] \in Nat /\ V[e + 1] <= V[1]
        BY LadderFacts
    <3>2. 1 + V[e + 1] \in 0..(1 + V[1]) /\ 0 \in 0..(1 + V[1])
        BY <3>1
    <3> QED BY <2>2, <3>2 DEF Debt
  <2> QED BY <2>1, <2>2
<1> QED BY <1>1, <1>2 DEF Debts

\* A place whose call counts on, or does not, and is not let through anew.
Kept(st, new, e, m, s) ==
    /\ Counting(new, m, s) <=> Counting(st, m, s)
    /\ Counting(st, m, s) => new[s[1]][s[2]].seen = st[s[1]][s[2]].seen
    /\ Owing(new, m, s) => Owing(st, m, s) \/ e < Breaker

LEMMA DebtKept ==
    ASSUME NEW V, Ladder(V), NEW st, Stacks(st), NEW new, NEW e \in Nat, NEW m, NEW s \in Slots,
           Kept(st, new, e, m, s)
    PROVE  Debt(V, new, e, m, s) <= Debt(V, st, e, m, s)
<1>1. CASE Counting(st, m, s)
  <2>1. Debt(V, new, e, m, s) = Debt(V, st, e, m, s)
      BY <1>1 DEF Kept, Debt
  <2>2. Debt(V, st, e, m, s) \in 0..(1 + V[1]) /\ 1 + V[1] \in Nat
      BY DebtType
  <2> QED BY <2>1, <2>2
<1>2. CASE ~Counting(st, m, s)
  <2>1. V[e + 1] \in Nat
      BY LadderFacts
  <2>2. \/ Debt(V, new, e, m, s) = 0 /\ Debt(V, st, e, m, s) \in {0, 1 + V[e + 1]}
        \/ Debt(V, new, e, m, s) = 1 + V[e + 1] /\ Debt(V, st, e, m, s) = 1 + V[e + 1]
      BY <1>2 DEF Kept, Debt
  <2> QED BY <2>1, <2>2
<1> QED BY <1>1, <1>2

LEMMA OutstandingFacts ==
    ASSUME IsFiniteSet(Threads), NEW V, Ladder(V), NEW st, Stacks(st), NEW e \in Nat, NEW m
    PROVE  Outstanding(V, st, e, m) \in Nat /\ Outstanding(V, st, e, m) <= V[0] /\ V[0] \in Nat
<1>1. /\ 0 < Breaker /\ 0 \in Nat /\ 0 + 1 = 1
    BY RoutingAssumption
<1>2. V[0] >= Cardinality(Slots) * (1 + V[1]) /\ V[0] \in Nat /\ 1 + V[1] \in Nat
    BY <1>1, DebtType DEF Ladder
<1>3. /\ Outstanding(V, st, e, m) \in Nat
      /\ Outstanding(V, st, e, m) <= Cardinality(Slots) * (1 + V[1])
      /\ Cardinality(Slots) * (1 + V[1]) \in Nat
    BY <1>2, SlotFacts, OwedFinite DEF Outstanding
<1> DEFINE all == Cardinality(Slots) * (1 + V[1])
           x == Outstanding(V, st, e, m)
<1>4. V[0] >= all /\ x <= all /\ x \in Nat /\ all \in Nat /\ V[0] \in Nat
    BY <1>2, <1>3
<1> HIDE DEF all, x
<1>5. x <= V[0]
    BY <1>4
<1> QED BY <1>2, <1>4, <1>5 DEF x

LEMMA KeptDebts ==
    ASSUME IsFiniteSet(Threads), NEW V, Ladder(V), NEW st, Stacks(st), NEW new, Stacks(new),
           NEW e \in Nat, NEW m, \A s \in Slots : Kept(st, new, e, m, s)
    PROVE  Outstanding(V, new, e, m) <= Outstanding(V, st, e, m)
<1> DEFINE w == Debts(V, st, e, m)
           v == Debts(V, new, e, m)
           n == 1 + V[1]
<1>1. n \in Nat /\ w \in [Slots -> 0..n] /\ v \in [Slots -> 0..n] /\ IsFiniteSet(Slots)
    BY DebtType, SlotFacts
<1>2. \A s \in Slots : v[s] <= w[s]
    BY DebtKept DEF Debts
<1> HIDE DEF n, w, v
<1>3. Cardinality(Owed(Slots, n, v)) <= Cardinality(Owed(Slots, n, w))
    BY <1>1, <1>2, OwedLess
<1> QED BY <1>3 DEF Outstanding, n, w, v

\* An error is being recorded: its place owes one less, the write.
LEMMA RecordedDebts ==
    ASSUME IsFiniteSet(Threads), NEW V, Ladder(V), NEW st, Stacks(st), NEW new, Stacks(new),
           NEW e \in Nat, NEW m, NEW a \in Slots,
           Owing(st, m, a), ~Counting(st, m, a), Counting(new, m, a), new[a[1]][a[2]].seen = e,
           \A s \in Slots \ {a} : Kept(st, new, e, m, s)
    PROVE  Outstanding(V, new, e, m) + 1 <= Outstanding(V, st, e, m)
<1> DEFINE w == Debts(V, st, e, m)
           v == Debts(V, new, e, m)
           n == 1 + V[1]
<1>1. n \in Nat /\ w \in [Slots -> 0..n] /\ v \in [Slots -> 0..n] /\ IsFiniteSet(Slots)
    BY DebtType, SlotFacts
<1>2. v[a] = V[e + 1] /\ w[a] = 1 + V[e + 1] /\ V[e + 1] \in Nat
    BY LadderFacts DEF Debts, Debt
<1>3. \A s \in Slots \ {a} : v[s] <= w[s]
    BY DebtKept DEF Debts
<1> HIDE DEF n, w, v
<1>4. v[a] < w[a] /\ v[a] <= w[a]
    BY <1>2
<1>5. \A s \in Slots : v[s] <= w[s]
    BY <1>3, <1>4
<1>6. Cardinality(Owed(Slots, n, v)) + 1 <= Cardinality(Owed(Slots, n, w))
    BY <1>1, <1>4, <1>5, OwedPaid
<1> QED BY <1>6 DEF Outstanding, n, w, v

\* A write sets the count, to a lower one perhaps; what its place owed for it pays
\* for what every place may record from there.
LEMMA WrittenDebts ==
    ASSUME IsFiniteSet(Threads), NEW V, Ladder(V), NEW st, Stacks(st), NEW new, Stacks(new),
           NEW e \in Nat, NEW m, NEW a \in Slots, NEW p \in Nat,
           Counting(st, m, a), p = st[a[1]][a[2]].seen + 1,
           ~Counting(new, m, a), ~Owing(new, m, a),
           \A s \in Slots \ {a} :
              /\ Counting(new, m, s) <=> Counting(st, m, s)
              /\ Counting(st, m, s) => new[s[1]][s[2]].seen = st[s[1]][s[2]].seen
              /\ Owing(new, m, s) => Owing(st, m, s)
    PROVE  Outstanding(V, new, p, m) <= Outstanding(V, st, e, m)
<1> DEFINE w == Debts(V, st, e, m)
           v == Debts(V, new, p, m)
           n == 1 + V[1]
           c == 1 + V[p + 1]
<1>1. n \in Nat /\ w \in [Slots -> 0..n] /\ v \in [Slots -> 0..n] /\ IsFiniteSet(Slots)
    BY DebtType, SlotFacts
<1>2. V[p] \in Nat /\ V[p + 1] \in Nat /\ V[e + 1] \in Nat /\ c \in Nat
    BY LadderFacts
<1>3. w[a] = V[p] /\ v[a] = IF p < Breaker THEN c ELSE 0
    BY DEF Debts, Debt
<1>4. \A s \in Slots : w[s] \in 0..n /\ v[s] \in 0..n
    BY <1>1
<1>5. \A s \in Slots \ {a} :
         \/ v[s] = w[s]
         \/ /\ v[s] = IF p < Breaker \/ Owing(new, m, s) THEN c ELSE 0
            /\ Owing(new, m, s) => w[s] = 1 + V[e + 1]
    BY DEF Debts, Debt
<1>6. CASE p < Breaker
  <2>1. v[a] <= c /\ w[a] >= Cardinality(Slots) * c
      BY <1>2, <1>3, <1>6 DEF Ladder
  <2> HIDE DEF n, w, v, c
  <2>2. \A s \in Slots \ {a} : v[s] <= w[s] \/ v[s] <= c
      BY <1>2, <1>4, <1>5, <1>6
  <2>3. Cardinality(Owed(Slots, n, v)) <= Cardinality(Owed(Slots, n, w))
      BY <1>1, <1>2, <2>1, <2>2, OwedShared
  <2> QED BY <2>3 DEF Outstanding, n, w, v
<1>7. CASE ~(p < Breaker)
  <2>1. Breaker <= p /\ Breaker <= p + 1 /\ p + 1 \in Nat
      BY <1>7, RoutingAssumption
  <2>2. V[p + 1] = 0
      BY <2>1 DEF Ladder
  <2>3. c = 1
      BY <2>2
  <2> HIDE DEF n, w, v, c
  <2>4. v[a] <= w[a]
      BY <1>3, <1>4, <1>7
  <2>5. \A s \in Slots \ {a} : v[s] <= w[s]
      BY <1>2, <1>4, <1>5, <1>7, <2>3
  <2>6. Cardinality(Owed(Slots, n, v)) <= Cardinality(Owed(Slots, n, w))
      BY <1>1, <2>4, <2>5, OwedLess
  <2> QED BY <2>6 DEF Outstanding, n, w, v
<1> QED BY <1>6, <1>7

\* What a step does to the calls of its thread: one that is not counting returns or
\* goes on, let through anew only if the breaker is not tripped; ...
Goes(t) ==
    /\ Place(t) # "countWrite" /\ UNCHANGED <<errors, faults>>
    /\ \/ Leave(t)
       \/ \E f \in Frames :
             /\ SetTop(t, f) /\ f.model = Top(t).model /\ f.pc # "countWrite"
             /\ f.pc \in Routed => Place(t) \in Routed \/ errors[Top(t).model] < Breaker

\* ... a routed one begins to count an error; ...
Records(t) ==
    /\ Place(t) \in Routed /\ UNCHANGED errors
    /\ faults' = [faults EXCEPT ![Top(t).model] = faults[Top(t).model] + 1]
    /\ \E f \in Frames : /\ SetTop(t, f) /\ f.model = Top(t).model /\ f.pc = "countWrite"
                         /\ f.seen = errors[Top(t).model]

\* ... or one that counts writes.
Writes(t) ==
    /\ Place(t) = "countWrite" /\ UNCHANGED faults
    /\ errors' = [errors EXCEPT ![Top(t).model] = Top(t).seen + 1]
    /\ \E f \in Frames : SetTop(t, f) /\ f.model = Top(t).model /\ f.pc = "countFirst"

LEMMA StepCounts ==
    ASSUME RoutingInv, NEW t \in Threads, Step(t)
    PROVE  Goes(t) \/ Records(t) \/ Writes(t)
<1> USE PlaceSets
<1>1. Place(t) # "idle"
    BY StepMoves
<1>2. Top(t) \in Frames /\ Top(t).model \in Models /\ errors[Top(t).model] \in Nat
    BY <1>1, TopFacts DEF RoutingInv, ShapeInv, Frames
<1>3. ASSUME NEW pc \in Places \ {"countWrite"}, Goto(t, pc), Place(t) # "countWrite",
             pc \in Routed => Place(t) \in Routed \/ errors[Top(t).model] < Breaker,
             UNCHANGED <<errors, faults>>
      PROVE  Goes(t)
  <2> DEFINE f == [Top(t) EXCEPT !.pc = pc]
  <2>1. f \in Frames /\ f.model = Top(t).model /\ f.pc = pc /\ SetTop(t, f)
      BY <1>2, <1>3 DEF Frames, Goto
  <2> HIDE DEF f
  <2> QED BY <1>3, <2>1 DEF Goes
<1>4. ASSUME NEW e \in Errors, RecordError(t, e), Place(t) \in Routed, UNCHANGED errors
      PROVE  Goes(t) \/ Records(t)
  <2>1. CASE CannotAnswer(t, e)
    <3>0. e # "refused"
        BY <2>1 DEF CannotAnswer
    <3>1. Leave(t) /\ UNCHANGED faults
        BY <1>4, <2>1, <3>0 DEF RecordError
    <3>2. Place(t) # "countWrite"
        BY <1>4 DEF Routed
    <3> QED BY <1>4, <3>1, <3>2 DEF Goes
  <2>2. CASE ~CannotAnswer(t, e) /\ e = "refused"
    <3>1. Goto(t, "original") /\ UNCHANGED faults
        BY <2>2, <1>4 DEF RecordError
    <3> QED BY <1>3, <1>4, <3>1
  <2>3. CASE ~CannotAnswer(t, e) /\ e \in {"db", "internal"}
    <3> DEFINE f == [Top(t) EXCEPT !.pc = "countWrite", !.same = TRUE, !.seen = errors[Top(t).model]]
    <3>1. SetTop(t, f) /\ faults' = [faults EXCEPT ![Top(t).model] = faults[Top(t).model] + 1]
        BY <1>4, <2>3 DEF RecordError
    <3>2. /\ f \in Frames /\ f.model = Top(t).model /\ f.pc = "countWrite"
          /\ f.seen = errors[Top(t).model]
        BY <1>2 DEF Frames
    <3> HIDE DEF f
    <3> QED BY <1>4, <3>1, <3>2 DEF Records
  <2> QED BY <1>4, <2>1, <2>2, <2>3 DEF Errors, CannotAnswer
<1>5. CASE Gate(t)
    BY <1>3, <1>5 DEF Gate, Allows, stats
<1>6. CASE CountFirst(t) \/ EnterBaseline(t)
    BY <1>3, <1>6 DEF CountFirst, EnterBaseline, stats
<1>7. CASE Deps(t)
    BY <1>3, <1>4, <1>7 DEF Deps, Errors
<1>8. CASE Prepare(t)
    BY <1>3, <1>4, <1>8 DEF Prepare, Classify, Errors
<1>9. CASE Dispatch(t)
  <2>1. ASSUME NEW same \in BOOLEAN, SetTop(t, [Top(t) EXCEPT !.pc = "post", !.same = same]),
               UNCHANGED <<errors, faults>>, Place(t) = "dispatch"
        PROVE  Goes(t)
    <3> DEFINE f == [Top(t) EXCEPT !.pc = "post", !.same = same]
    <3>1. f \in Frames /\ f.model = Top(t).model /\ f.pc = "post" /\ SetTop(t, f)
        BY <1>2, <2>1 DEF Frames
    <3> HIDE DEF f
    <3> QED BY <2>1, <3>1 DEF Goes
  <2> QED BY <1>4, <1>9, <2>1 DEF Dispatch, Errors
<1>10. CASE Post(t)
    BY <1>3, <1>4, <1>10 DEF Post, Errors
<1>11. CASE LeaveBaseline(t)
  <2> DEFINE f == [Top(t) EXCEPT !.pc = "quarantine", !.same = TRUE]
  <2>1. f \in Frames /\ f.model = Top(t).model /\ f.pc = "quarantine"
      BY <1>2 DEF Frames
  <2>2. Leave(t) \/ SetTop(t, f)
      BY <1>11 DEF LeaveBaseline
  <2>3. Place(t) = "baseline" /\ UNCHANGED <<errors, faults>>
      BY <1>11 DEF LeaveBaseline, stats
  <2> HIDE DEF f
  <2> QED BY <2>1, <2>2, <2>3 DEF Goes
<1>12. CASE CountWrite(t)
  <2> DEFINE f == [Top(t) EXCEPT !.pc = "countFirst", !.seen = 0]
  <2>1. f \in Frames /\ f.model = Top(t).model /\ f.pc = "countFirst"
      BY <1>2 DEF Frames
  <2>2. SetTop(t, f)
      BY <1>12 DEF CountWrite
  <2> HIDE DEF f
  <2> QED BY <1>12, <2>1, <2>2 DEF CountWrite, Writes
<1>13. CASE Quarantine(t) \/ AppendQuarantine(t)
  <2>1. CASE Leave(t)
      BY <1>13, <2>1 DEF Quarantine, AppendQuarantine, Goes
  <2>2. CASE ~Leave(t)
      BY <1>3, <1>13, <2>2 DEF Quarantine, AppendQuarantine
  <2> QED BY <2>1, <2>2
<1>14. CASE ReturnKernel(t) \/ Original(t) \/ Unwind(t)
    BY <1>14 DEF ReturnKernel, Original, Unwind, stats, Goes
<1>15. CASE PortArmed(t) \/ PortNative(t)
  <2>1. Place(t) \in {"armed", "native"} /\ UNCHANGED <<errors, faults>>
      BY <1>15 DEF PortArmed, PortNative, stats
  <2>2. CASE Leave(t)
      BY <2>1, <2>2 DEF Goes
  <2>3. CASE ~Leave(t)
      BY <1>3, <1>15, <2>1, <2>3 DEF PortArmed, PortNative, SearchNative, Armed, Allows
  <2> QED BY <2>2, <2>3
<1> QED BY <1>5, <1>6, <1>7, <1>8, <1>9, <1>10, <1>11, <1>12, <1>13, <1>14, <1>15 DEF Step

\* Only threads of Nesting have calls below calls: a place is one of Slots.
NestingInv == \A t \in Threads \ Nesting : Len(stack[t]) <= 1

LEMMA NextNesting == RoutingInv /\ NestingInv /\ [Next]_vars => NestingInv'
<1> SUFFICES ASSUME RoutingInv, NestingInv, [Next]_vars, NEW t \in Threads \ Nesting
             PROVE  Len(stack'[t]) <= 1
    BY DEF NestingInv
<1>1. ShapeInv /\ NestInv /\ Len(stack[t]) <= 1 /\ t \in Threads
    BY DEF RoutingInv, NestingInv
<1>2. CASE Step(t)
  <2>1. Place(t) # "idle" /\ (Leave(t) \/ \E f \in Frames : SetTop(t, f))
      BY <1>1, <1>2, StepMoves
  <2>2. \/ Len(stack'[t]) = Len(stack[t])
        \/ Len(stack'[t]) = Len(stack[t]) - 1 /\ Len(stack[t]) \in Nat
      BY <1>1, <2>1, LeaveFacts, SetTopFacts
  <2> QED BY <1>1, <2>2
<1>3. CASE Calls(t)
  <2>1. PICK m \in Models, pc \in {"gate", "armed"} : Call(t, m, pc)
      BY <1>3 DEF Calls
  <2>2. Place(t) = "idle"
      BY <2>1 DEF Call
  <2>3. Len(stack'[t]) = Len(stack[t]) + 1 /\ (Len(stack[t]) = 0 <=> Place(t) = "idle")
      BY <1>1, <2>1, CallFacts
  <2> QED BY <2>2, <2>3
<1>4. CASE stack'[t] = stack[t]
    BY <1>1, <1>4
<1> QED BY <1>1, <1>2, <1>3, <1>4, OwnMoves

LEMMA TopSlot ==
    ASSUME RoutingInv, NestingInv, NEW t \in Threads, Place(t) # "idle"
    PROVE  /\ <<t, Len(stack[t])>> \in Slots
           /\ Filled(stack, Top(t).model, <<t, Len(stack[t])>>)
           /\ stack[t][Len(stack[t])] = Top(t) /\ Place(t) = Top(t).pc
           /\ Top(t).model \in Models /\ Top(t).seen \in Nat
<1> DEFINE n == Len(stack[t])
<1>1. n \in Nat \ {0} /\ Top(t) = stack[t][n] /\ Top(t) \in Frames /\ Place(t) = Top(t).pc
    BY TopFacts DEF RoutingInv, ShapeInv
<1>2. n <= MaxDepth /\ MaxDepth \in Nat
    BY RoutingAssumption DEF RoutingInv, ShapeInv, StackInv
<1>3. t \in Nesting \/ n <= 1
    BY DEF NestingInv
<1> HIDE DEF n
<1>4. n \in 1..MaxDepth /\ (t \in Nesting \/ n = 1)
    BY <1>1, <1>2, <1>3
<1>5. <<t, n>> \in Slots
    BY <1>4 DEF Slots
<1>6. Filled(stack, Top(t).model, <<t, n>>)
    BY <1>1 DEF Filled, n
<1> QED BY <1>1, <1>5, <1>6 DEF n, Frames

\* A place whose call stays as it is.
Same(st, new, m, s) ==
    /\ Filled(new, m, s) <=> Filled(st, m, s)
    /\ Filled(st, m, s) => SameCall(new[s[1]][s[2]], st[s[1]][s[2]])

LEMMA SameKept ==
    ASSUME NEW st, NEW new, NEW e, NEW m, NEW s, Same(st, new, m, s)
    PROVE  /\ Kept(st, new, e, m, s)
           /\ Counting(new, m, s) <=> Counting(st, m, s)
           /\ Counting(st, m, s) => new[s[1]][s[2]].seen = st[s[1]][s[2]].seen
           /\ Owing(new, m, s) => Owing(st, m, s)
BY DEF Same, SameCall, Kept, Counting, Owing

LEMMA EqualSame ==
    ASSUME NEW st, NEW new, NEW m, NEW s, new[s[1]] = st[s[1]]
    PROVE  Same(st, new, m, s)
BY DEF Same, SameCall, Filled

LEMMA SlotType ==
    ASSUME NEW s \in Slots
    PROVE  s[1] \in Threads /\ s[2] \in 1..MaxDepth /\ s = <<s[1], s[2]>>
BY DEF Slots

\* What is below the top, or in another thread, stays when the top moves.
LEMMA MovedSame ==
    ASSUME ShapeInv, NEW t \in Threads, Place(t) # "idle", NEW f \in Frames, SetTop(t, f),
           NEW m, NEW s \in Slots, s # <<t, Len(stack[t])>>
    PROVE  Same(stack, stack', m, s)
<1> DEFINE n == Len(stack[t])
<1>1. /\ Len(stack'[t]) = n /\ \A i \in 1..n : i # n => stack'[t][i] = stack[t][i]
      /\ \A u \in Threads \ {t} : stack'[u] = stack[u]
    BY SetTopFacts
<1>2. s[1] \in Threads /\ s[2] \in 1..MaxDepth /\ s = <<s[1], s[2]>> /\ n \in Nat
    BY SlotType, TopFacts DEF ShapeInv
<1> HIDE DEF n
<1>3. CASE s[1] = t
  <2>1. s[2] # n
      BY <1>2, <1>3 DEF n
  <2>2. s[2] <= n => s[2] \in 1..n
      BY <1>2
  <2>3. s[2] <= n => stack'[t][s[2]] = stack[t][s[2]]
      BY <1>1, <2>1, <2>2
  <2> QED BY <1>1, <1>3, <2>3 DEF Same, SameCall, Filled, n
<1>4. CASE s[1] # t
    BY <1>1, <1>2, <1>4, EqualSame
<1> QED BY <1>3, <1>4

\* A call that returns gives its place up.
LEMMA LeftKept ==
    ASSUME ShapeInv, NEW t \in Threads, Place(t) \notin {"idle", "countWrite"}, Leave(t),
           NEW e, NEW m, NEW s \in Slots
    PROVE  Kept(stack, stack', e, m, s)
<1> DEFINE n == Len(stack[t])
<1>1. /\ Len(stack'[t]) = n - 1 /\ n \in Nat \ {0}
      /\ \A i \in 1..(n - 1) : stack'[t][i] = stack[t][i]
      /\ \A u \in Threads \ {t} : stack'[u] = stack[u]
    BY LeaveFacts
<1>2. s[1] \in Threads /\ s[2] \in 1..MaxDepth /\ s = <<s[1], s[2]>>
    BY SlotType
<1>3. stack[t][n].pc # "countWrite"
    BY TopFacts DEF ShapeInv
<1> HIDE DEF n
<1>4. CASE s[1] = t /\ s[2] = n
  <2>1. ~(n <= n - 1)
      BY <1>1
  <2>2. ~Filled(stack', m, s)
      BY <1>1, <1>4, <2>1 DEF Filled
  <2> QED BY <1>3, <1>4, <2>2 DEF Kept, Counting, Owing
<1>5. CASE s[1] = t /\ s[2] # n
  <2>1. s[2] <= n => s[2] \in 1..(n - 1) /\ s[2] <= n - 1
      BY <1>1, <1>2, <1>5
  <2>2. s[2] <= n - 1 => s[2] <= n
      BY <1>1, <1>2
  <2>3. Same(stack, stack', m, s)
      BY <1>1, <1>5, <2>1, <2>2 DEF Same, SameCall, Filled, n
  <2> QED BY <2>3, SameKept
<1>6. CASE s[1] # t
  <2>1. Same(stack, stack', m, s)
      BY <1>1, <1>2, <1>6, EqualSame
  <2> QED BY <2>1, SameKept
<1> QED BY <1>4, <1>5, <1>6

\* A call begins at its gate, where it owes what any place does.
LEMMA CalledKept ==
    ASSUME ShapeInv, NestInv, NEW t \in Threads, Calls(t), NEW e, NEW m, NEW s \in Slots
    PROVE  Kept(stack, stack', e, m, s)
<1> DEFINE n == Len(stack[t])
<1>0. PICK k \in Models, pc \in {"gate", "armed"} : Call(t, k, pc)
    BY DEF Calls
<1>1. /\ Len(stack'[t]) = n + 1 /\ n \in Nat /\ stack'[t][n + 1].pc \in {"gate", "armed"}
      /\ \A i \in 1..n : SameCall(stack'[t][i], stack[t][i])
      /\ \A u \in Threads \ {t} : stack'[u] = stack[u]
    BY <1>0, CallFacts
<1>2. s[1] \in Threads /\ s[2] \in 1..MaxDepth /\ s = <<s[1], s[2]>>
    BY SlotType
<1> HIDE DEF n
<1>3. CASE s[1] = t /\ s[2] = n + 1
  <2>1. ~(n + 1 <= n)
      BY <1>1
  <2>2. ~Filled(stack, m, s)
      BY <1>3, <2>1 DEF Filled, n
  <2>3. ~Counting(stack', m, s) /\ ~Owing(stack', m, s)
      BY <1>1, <1>3, PlaceSets DEF Counting, Owing
  <2> QED BY <2>2, <2>3 DEF Kept, Counting, Owing
<1>4. CASE s[1] = t /\ s[2] # n + 1
  <2>1. (s[2] <= n + 1 <=> s[2] <= n) /\ (s[2] <= n => s[2] \in 1..n)
      BY <1>1, <1>2, <1>4
  <2>2. Same(stack, stack', m, s)
      BY <1>1, <1>4, <2>1 DEF Same, SameCall, Filled, n
  <2> QED BY <2>2, SameKept
<1>5. CASE s[1] # t
  <2>1. Same(stack, stack', m, s)
      BY <1>1, <1>2, <1>5, EqualSame
  <2> QED BY <2>1, SameKept
<1> QED BY <1>3, <1>4, <1>5

\* The top of a thread moves, but its call is of another model.
LEMMA OtherModelKept ==
    ASSUME RoutingInv, NestingInv, NEW t \in Threads, Place(t) # "idle", NEW f \in Frames,
           SetTop(t, f), f.model = Top(t).model, NEW e, NEW m, m # Top(t).model, NEW s \in Slots
    PROVE  Kept(stack, stack', e, m, s)
<1> DEFINE a == <<t, Len(stack[t])>>
<1>1. ShapeInv
    BY DEF RoutingInv
<1>2. CASE s = a
  <2>1. stack[t][Len(stack[t])] = Top(t) /\ stack'[t][Len(stack[t])] = f
      BY <1>1, TopSlot, SetTopFacts
  <2>2. ~Filled(stack, m, s) /\ ~Filled(stack', m, s)
      BY <1>2, <2>1 DEF Filled
  <2> QED BY <2>2 DEF Kept, Counting, Owing
<1>3. CASE s # a
  <2>1. Same(stack, stack', m, s)
      BY <1>1, <1>3, MovedSame
  <2> QED BY <2>1, SameKept
<1> QED BY <1>2, <1>3

\* The top itself, before and after.
LEMMA TopMoved ==
    ASSUME RoutingInv, NestingInv, NEW t \in Threads, Place(t) # "idle", NEW f \in Frames,
           SetTop(t, f), f.model = Top(t).model, NEW m, m = Top(t).model,
           NEW a, a = <<t, Len(stack[t])>>
    PROVE  /\ a \in Slots /\ stack[a[1]][a[2]] = Top(t) /\ stack'[a[1]][a[2]] = f
           /\ Counting(stack, m, a) <=> Place(t) = "countWrite"
           /\ Owing(stack, m, a) <=> Place(t) \in Routed
           /\ Counting(stack', m, a) <=> f.pc = "countWrite"
           /\ Owing(stack', m, a) <=> f.pc \in Routed
<1>1. /\ a \in Slots /\ a[1] = t /\ a[2] = Len(stack[t]) /\ stack[t][Len(stack[t])] = Top(t)
      /\ Filled(stack, m, a) /\ Place(t) = Top(t).pc
    BY TopSlot
<1>2. stack'[t][Len(stack[t])] = f /\ Len(stack'[t]) = Len(stack[t])
    BY SetTopFacts DEF RoutingInv
<1>3. Filled(stack', m, a)
    BY <1>1, <1>2 DEF Filled
<1> QED BY <1>1, <1>2, <1>3 DEF Counting, Owing

LEMMA GoesKept ==
    ASSUME RoutingInv, NestingInv, NEW t \in Threads, Place(t) # "idle", Goes(t),
           NEW m \in Models, NEW s \in Slots
    PROVE  Kept(stack, stack', errors[m], m, s)
<1>1. CASE Leave(t)
    BY <1>1, LeftKept DEF RoutingInv, Goes
<1>2. ASSUME NEW f \in Frames, SetTop(t, f), f.model = Top(t).model, f.pc # "countWrite",
             f.pc \in Routed => Place(t) \in Routed \/ errors[Top(t).model] < Breaker
      PROVE  Kept(stack, stack', errors[m], m, s)
  <2>1. CASE m # Top(t).model
      BY <1>2, <2>1, OtherModelKept
  <2>2. CASE m = Top(t).model /\ s = <<t, Len(stack[t])>>
    <3>1. /\ ~Counting(stack, m, s) /\ ~Counting(stack', m, s)
          /\ Owing(stack', m, s) => Owing(stack, m, s) \/ errors[m] < Breaker
        BY <1>2, <2>2, TopMoved DEF Goes
    <3> QED BY <3>1 DEF Kept
  <2>3. CASE s # <<t, Len(stack[t])>>
    <3>1. Same(stack, stack', m, s)
        BY <1>2, <2>3, MovedSame DEF RoutingInv
    <3> QED BY <3>1, SameKept
  <2> QED BY <2>1, <2>2, <2>3
<1> QED BY <1>1, <1>2 DEF Goes

LEMMA NextDebt ==
    ASSUME IsFiniteSet(Threads), NEW V, Ladder(V), RoutingInv, NestingInv, DebtInv(V), [Next]_vars
    PROVE  DebtInv(V)'
<1> SUFFICES ASSUME NEW m \in Models
             PROVE  faults'[m] + Outstanding(V, stack', errors'[m], m) <= V[0]
    BY DEF DebtInv
<1> DEFINE old == Outstanding(V, stack, errors[m], m)
           new == Outstanding(V, stack', errors'[m], m)
<1>1. RoutingInv' /\ ShapeInv
    BY NextRouting DEF RoutingInv
<1>2. Stacks(stack) /\ Stacks(stack')
    BY <1>1 DEF RoutingInv, ShapeInv, StackInv, Stacks
<1>3. /\ errors[m] \in Nat /\ errors'[m] \in Nat /\ faults[m] \in Nat /\ faults'[m] \in Nat
      /\ errors \in [Models -> Nat] /\ faults \in [Models -> Nat]
    BY <1>1 DEF RoutingInv, ShapeInv
<1>4. /\ old \in Nat /\ new \in Nat /\ V[0] \in Nat /\ new <= V[0]
      /\ faults[m] + old <= V[0]
    BY <1>2, <1>3, OutstandingFacts DEF DebtInv
<1>5. ASSUME \A s \in Slots : Kept(stack, stack', errors[m], m, s),
             errors'[m] = errors[m], faults'[m] = faults[m]
      PROVE  faults'[m] + new <= V[0]
  <2>1. new <= old
      BY <1>2, <1>3, <1>5, KeptDebts
  <2> HIDE DEF old, new
  <2> QED BY <1>3, <1>4, <1>5, <2>1
<1>6. ASSUME NEW t \in Threads, Step(t) PROVE faults'[m] + new <= V[0]
  <2> DEFINE a == <<t, Len(stack[t])>>
  <2>1. Place(t) # "idle" /\ (Goes(t) \/ Records(t) \/ Writes(t))
      BY <1>6, StepMoves, StepCounts
  <2>2. CASE Goes(t)
    <3>1. errors'[m] = errors[m] /\ faults'[m] = faults[m]
        BY <2>2 DEF Goes
    <3>2. \A s \in Slots : Kept(stack, stack', errors[m], m, s)
        BY <2>1, <2>2, GoesKept
    <3> QED BY <1>5, <3>1, <3>2
  <2>3. CASE Records(t)
    <3>1. PICK f \in Frames : /\ SetTop(t, f) /\ f.model = Top(t).model /\ f.pc = "countWrite"
                              /\ f.seen = errors[Top(t).model]
        BY <2>3 DEF Records
    <3>2. /\ Place(t) \in Routed /\ errors' = errors
          /\ faults' = [faults EXCEPT ![Top(t).model] = faults[Top(t).model] + 1]
        BY <2>3 DEF Records
    <3>3. CASE m # Top(t).model
      <4>1. \A s \in Slots : Kept(stack, stack', errors[m], m, s)
          BY <2>1, <3>1, <3>3, OtherModelKept
      <4>2. errors'[m] = errors[m] /\ faults'[m] = faults[m]
          BY <1>3, <3>2, <3>3
      <4> QED BY <1>5, <4>1, <4>2
    <3>4. CASE m = Top(t).model
      <4>1. /\ a \in Slots /\ Owing(stack, m, a) /\ ~Counting(stack, m, a)
            /\ Counting(stack', m, a) /\ stack'[a[1]][a[2]].seen = errors[m]
          BY <2>1, <3>1, <3>2, <3>4, TopMoved, PlaceSets
      <4>2. \A s \in Slots \ {a} : Kept(stack, stack', errors[m], m, s)
          BY <1>1, <2>1, <3>1, MovedSame, SameKept
      <4> HIDE DEF a
      <4>3. Outstanding(V, stack', errors[m], m) + 1 <= old
          BY <1>2, <1>3, <4>1, <4>2, RecordedDebts
      <4>4. new + 1 <= old
          BY <3>2, <4>3
      <4>5. faults'[m] = faults[m] + 1
          BY <1>3, <3>2, <3>4
      <4> HIDE DEF old, new
      <4> QED BY <1>3, <1>4, <4>4, <4>5
    <3> QED BY <3>3, <3>4
  <2>4. CASE Writes(t)
    <3>1. PICK f \in Frames : SetTop(t, f) /\ f.model = Top(t).model /\ f.pc = "countFirst"
        BY <2>4 DEF Writes
    <3>2. /\ Place(t) = "countWrite" /\ faults' = faults
          /\ errors' = [errors EXCEPT ![Top(t).model] = Top(t).seen + 1]
        BY <2>4 DEF Writes
    <3>3. CASE m # Top(t).model
      <4>1. \A s \in Slots : Kept(stack, stack', errors[m], m, s)
          BY <2>1, <3>1, <3>3, OtherModelKept
      <4>2. errors'[m] = errors[m] /\ faults'[m] = faults[m]
          BY <1>3, <3>2, <3>3
      <4> QED BY <1>5, <4>1, <4>2
    <3>4. CASE m = Top(t).model
      <4>1. /\ a \in Slots /\ stack[a[1]][a[2]] = Top(t) /\ Counting(stack, m, a)
            /\ ~Counting(stack', m, a) /\ ~Owing(stack', m, a)
          BY <2>1, <3>1, <3>2, <3>4, TopMoved, PlaceSets
      <4>2. errors'[m] = stack[a[1]][a[2]].seen + 1
          BY <1>3, <3>2, <3>4, <4>1
      <4>3. \A s \in Slots \ {a} :
               /\ Counting(stack', m, s) <=> Counting(stack, m, s)
               /\ Counting(stack, m, s) => stack'[s[1]][s[2]].seen = stack[s[1]][s[2]].seen
               /\ Owing(stack', m, s) => Owing(stack, m, s)
          BY <1>1, <2>1, <3>1, MovedSame, SameKept
      <4> HIDE DEF a
      <4>4. new <= old
          BY <1>2, <1>3, <4>1, <4>2, <4>3, WrittenDebts
      <4>5. faults'[m] = faults[m]
          BY <3>2
      <4> HIDE DEF old, new
      <4> QED BY <1>3, <1>4, <4>4, <4>5
    <3> QED BY <3>3, <3>4
  <2> QED BY <2>1, <2>2, <2>3, <2>4
<1>7. ASSUME NEW t \in Threads, Calls(t) PROVE faults'[m] + new <= V[0]
  <2>1. errors'[m] = errors[m] /\ faults'[m] = faults[m]
      BY <1>7 DEF Calls, Call, stats
  <2>2. \A s \in Slots : Kept(stack, stack', errors[m], m, s)
      BY <1>1, <1>7, CalledKept DEF RoutingInv
  <2> QED BY <1>5, <2>1, <2>2
<1>8. ASSUME UNCHANGED <<stack, errors, faults>> PROVE faults'[m] + new <= V[0]
    BY <1>4, <1>8
<1>9. ASSUME UNCHANGED stack, (errors'[m] = errors[m] /\ faults'[m] = faults[m]) \/ faults'[m] = 0
      PROVE  faults'[m] + new <= V[0]
  <2>1. CASE faults'[m] = 0
    <3> HIDE DEF new
    <3> QED BY <1>4, <2>1
  <2>2. CASE errors'[m] = errors[m] /\ faults'[m] = faults[m]
      BY <1>4, <1>9, <2>2
  <2> QED BY <1>9, <2>1, <2>2
<1>10. CASE (\E k \in Models : ResetBreaker(k)) \/ ResetAll
  <2>1. UNCHANGED stack
      BY <1>10 DEF ResetBreaker, ResetAll
  <2>2. (errors'[m] = errors[m] /\ faults'[m] = faults[m]) \/ faults'[m] = 0
      BY <1>3, <1>10 DEF ResetBreaker, ResetAll
  <2> QED BY <1>9, <2>1, <2>2
<1>11. CASE \E t \in Threads : Begin(t) \/ End(t)
    BY <1>8, <1>11 DEF Begin, End, stats
<1>12. CASE (\E k \in Modes : TickMode(k)) \/ TickActive
    BY <1>8, <1>12 DEF TickMode, TickActive, stats
<1>13. CASE UNCHANGED vars
    BY <1>8, <1>13 DEF vars
<1> QED BY <1>6, <1>7, <1>10, <1>11, <1>12, <1>13 DEF Next, Calls

\* Updates of errors_by_model lost between threads only delay the breaker: with
\* calls on finitely many threads, no model records more errors since its last reset
\* than a ladder over their places allows (_record_error).
THEOREM BreakerTrips ==
    ASSUME IsFiniteSet(Threads), NEW V, Ladder(V), V[0] <= MaxFaults
    PROVE  Spec => []BreakerTripsInTheEnd
<1>1. Init => NestingInv /\ DebtInv(V)
  <2> SUFFICES ASSUME Init PROVE NestingInv /\ DebtInv(V)
      OBVIOUS
  <2>1. NestingInv
      BY EmptySeq DEF Init, NestingInv
  <2>2. RoutingInv
      BY InitRouting
  <2>3. Stacks(stack) /\ errors \in [Models -> Nat]
      BY <2>2 DEF RoutingInv, ShapeInv, StackInv, Stacks
  <2>4. ASSUME NEW m \in Models PROVE faults[m] + Outstanding(V, stack, errors[m], m) <= V[0]
    <3> DEFINE x == Outstanding(V, stack, errors[m], m)
    <3>1. x \in Nat /\ x <= V[0] /\ V[0] \in Nat
        BY <2>3, OutstandingFacts
    <3>2. faults[m] = 0
        BY DEF Init
    <3> HIDE DEF x
    <3> QED BY <3>1, <3>2 DEF x
  <2> QED BY <2>1, <2>4 DEF DebtInv
<1>2. RoutingInv /\ NestingInv /\ DebtInv(V) /\ [Next]_vars => NestingInv' /\ DebtInv(V)'
    BY NextNesting, NextDebt
<1>3. RoutingInv /\ DebtInv(V) => BreakerTripsInTheEnd
  <2> SUFFICES ASSUME RoutingInv, DebtInv(V), NEW m \in Models PROVE faults[m] <= MaxFaults
      BY DEF BreakerTripsInTheEnd
  <2> DEFINE x == Outstanding(V, stack, errors[m], m)
  <2>1. Stacks(stack) /\ errors \in [Models -> Nat] /\ faults[m] \in Nat
      BY DEF RoutingInv, ShapeInv, StackInv, Stacks
  <2>2. x \in Nat /\ V[0] \in Nat
      BY <2>1, OutstandingFacts
  <2>3. faults[m] + x <= V[0] /\ MaxFaults \in Nat
      BY RoutingAssumption DEF DebtInv
  <2> HIDE DEF x
  <2> QED BY <2>1, <2>2, <2>3
<1> QED BY <1>1, <1>2, <1>3, RoutingInvariant, PTL DEF Spec

\* The ladder of the default breaker, three errors (DEFAULT_BREAKER of the addon).
AfterTwo == Cardinality(Slots)
AfterOne == AfterTwo * (1 + AfterTwo)
AfterReset == AfterTwo * (1 + AfterOne)
DefaultLadder ==
    [p \in Nat |-> IF p = 0 THEN AfterReset ELSE IF p = 1 THEN AfterOne
                 ELSE IF p = 2 THEN AfterTwo ELSE 0]

LEMMA DefaultLadderFacts ==
    ASSUME IsFiniteSet(Threads), Breaker = 3
    PROVE  Ladder(DefaultLadder) /\ DefaultLadder[0] = AfterReset
<1> DEFINE k == Cardinality(Slots)
           two == k * (1 + k)
           one == k * (1 + two)
<1>1. k \in Nat
    BY SlotFacts
<1>2. two \in Nat /\ k <= two
  <2> HIDE DEF k
  <2>1. k * k \in Nat /\ two = k + k * k
      BY <1>1
  <2> QED BY <1>1, <2>1
<1>3. one \in Nat /\ two <= one
  <2>1. k * two \in Nat /\ one = k + k * two
    <3> HIDE DEF k, two
    <3> QED BY <1>1, <1>2
  <2>2. k * k <= k * two
    <3> HIDE DEF k, two
    <3> QED BY <1>1, <1>2
  <2>3. two = k + k * k /\ k * k \in Nat
    <3> HIDE DEF k
    <3> QED BY <1>1
  <2> HIDE DEF k, two, one
  <2> QED BY <1>1, <1>2, <2>1, <2>2, <2>3
<1>4. k * (1 + 0) = k
  <2> HIDE DEF k
  <2> QED BY <1>1
<1>5. AfterTwo = k /\ AfterOne = two /\ AfterReset = one
    BY DEF AfterTwo, AfterOne, AfterReset
<1> DEFINE V == DefaultLadder
<1>6. \A p \in Nat : V[p] = IF p = 0 THEN one ELSE IF p = 1 THEN two ELSE IF p = 2 THEN k ELSE 0
    BY <1>5 DEF DefaultLadder
<1>7. V \in [Nat -> Nat]
    BY <1>1, <1>2, <1>3, <1>5 DEF DefaultLadder
<1>8. two = k * (1 + k) /\ one = k * (1 + two)
    OBVIOUS
<1> HIDE DEF k, two, one, V
<1>9. \A p \in Nat : Breaker <= p => V[p] = 0
    BY <1>6
<1>10. ASSUME NEW p \in Nat, p < Breaker PROVE V[p] >= k * (1 + V[p + 1])
  <2>1. CASE p = 0
    <3>1. V[p] = one /\ V[p + 1] = two
        BY <1>6, <2>1
    <3> QED BY <1>3, <1>8, <3>1
  <2>2. CASE p = 1
    <3>1. V[p] = two /\ V[p + 1] = k
        BY <1>6, <2>2
    <3> QED BY <1>2, <1>8, <3>1
  <2>3. CASE p = 2
    <3>1. V[p] = k /\ V[p + 1] = 0
        BY <1>6, <2>3
    <3> QED BY <1>1, <1>4, <3>1
  <2> QED BY <1>10, <2>1, <2>2, <2>3
<1>11. \A p, q \in Nat : p <= q => V[q] <= V[p]
    BY <1>1, <1>2, <1>3, <1>6
<1>12. V[0] = one
    BY <1>6
<1> QED BY <1>5, <1>7, <1>9, <1>10, <1>11, <1>12 DEF Ladder, V, k

\* With the default breaker of three errors and K places for a call to be in, a
\* model trips for good within K + K^2 + K^3 errors, however many counts are lost.
THEOREM DefaultBreakerTrips ==
    ASSUME IsFiniteSet(Threads), Breaker = 3, AfterReset <= MaxFaults
    PROVE  Spec => []BreakerTripsInTheEnd
<1>1. Ladder(DefaultLadder) /\ DefaultLadder[0] <= MaxFaults
    BY DefaultLadderFacts
<1> QED BY <1>1, BreakerTrips
=============================================================================
