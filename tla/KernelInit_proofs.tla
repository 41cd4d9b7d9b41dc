--------------------------- MODULE KernelInit_proofs ---------------------------
(***************************************************************************)
(* Who builds the kernel: while no build of the hook has met another build *)
(* the mark names the builder, no build waits for itself, and the kernel   *)
(* never goes back to an older registry; for any number of threads,        *)
(* registries and reads.                                                   *)
(*                                                                         *)
(* Why it holds: as long as two builds have not met, a thread is in the    *)
(* middle of at most one thing.  The reads of a build find its own mark    *)
(* and go to Python, so nothing is ever stacked on a build.                *)
(***************************************************************************)
EXTENDS KernelInit, SequenceTheorems, FiniteSetTheorems, TLAPS

\* A stack, its top and what lies below it.
LEMMA FrontSeq ==
    ASSUME NEW S, NEW s \in Seq(S), s # <<>>
    PROVE  /\ Len(s) \in Nat \ {0} /\ Last(s) \in S
           /\ Front(s) \in Seq(S) /\ Len(Front(s)) = Len(s) - 1
           /\ \A i \in 1..(Len(s) - 1) : Front(s)[i] = s[i]
<1>1. Len(s) \in Nat \ {0}
    BY EmptySeq
<1>2. \A i \in 1..Len(s) : s[i] \in S
    BY ElementOfSeq
<1> DEFINE n == Len(s) - 1
<1>3. n \in Nat /\ Len(s) = n + 1
    BY <1>1
<1>4. Front(s) = SubSeq(s, 1, n)
    BY DEF Front
<1> HIDE DEF n
<1>5. \A i \in 1..n : s[i] \in S
    BY <1>2, <1>3
<1>6. /\ SubSeq(s, 1, n) \in Seq(S)
      /\ Len(SubSeq(s, 1, n)) = IF 1 <= n THEN n - 1 + 1 ELSE 0
      /\ \A i \in 1..(n - 1 + 1) : SubSeq(s, 1, n)[i] = s[1 + i - 1]
    BY <1>3, <1>5, SubSeqProperties
<1>7. n - 1 + 1 = n /\ (1 <= n \/ n = 0) /\ \A i \in 1..n : 1 + i - 1 = i
    BY <1>3
<1>8. /\ Front(s) \in Seq(S) /\ Len(Front(s)) = n /\ \A i \in 1..n : Front(s)[i] = s[i]
    BY <1>4, <1>6, <1>7
<1> QED BY <1>1, <1>2, <1>8 DEF Last, n

\* What a thread may be in the middle of, when r registries have been made.
Frames(r) == [at : Builds \cup {"asking"}, registry : 1..r,
              prev : Threads \cup {NoThread}, reads : 0..MaxReads]

\* The shape of the state, overlapped or not: a build is of a registry that has
\* been made, and only the first may not be loaded.
ShapeInv ==
    /\ registry \in 1..MaxRegistry /\ loaded \in BOOLEAN
    /\ KERNEL \in 0..registry /\ tried \in BOOLEAN
    /\ incomplete \in {NoLoad, <<1, FALSE>>}
    /\ lock \in Threads \cup {NoThread} /\ mark \in Threads \cup {NoThread}
    /\ overlapped \in BOOLEAN
    /\ stack \in [Threads -> Seq(Frames(registry))]
    /\ loaded \/ registry = 1

\* What two builds that meet would break.
AloneAt(t) ==
    /\ stack[t] = <<>> \/ \E f \in Frames(registry) : stack[t] = <<f>>
    /\ lock = t <=> At(t) = "locked"
    /\ mark = t <=> At(t) \in Builds
    /\ At(t) \in Builds => Top(t).prev = NoThread
    /\ At(t) = "locked" => KERNEL = 0
    /\ At(t) = "hook" => Top(t).registry = registry

AloneInv == \A t \in Threads : AloneAt(t)

KernelInv == ShapeInv /\ (overlapped \/ AloneInv)

-----------------------------------------------------------------------------
(* Stacks.                                                                 *)

\* A frame alone on its stack: taken off, and replaced.
LEMMA OneFrame ==
    ASSUME NEW f
    PROVE  /\ Last(<<f>>) = f /\ Front(<<f>>) = <<>> /\ <<f>> # <<>>
           /\ Append(<<>>, f) = <<f>>
<1>1. <<f>> \in Seq({f}) /\ Len(<<f>>) = 1 /\ <<f>>[1] = f
    OBVIOUS
<1>2. Last(<<f>>) = f
    BY <1>1 DEF Last
<1>3. Front(<<f>>) = <<>>
  <2>1. SubSeq(<<f>>, 1, 0) \in Seq({f}) /\ Len(SubSeq(<<f>>, 1, 0)) = 0
      BY <1>1, SubSeqProperties
  <2>2. SubSeq(<<f>>, 1, 0) = <<>>
      BY <2>1, EmptySeq
  <2> QED BY <1>1, <2>2 DEF Front
<1>4. Append(<<>>, f) = <<f>>
  <2>1. <<>> \in Seq({f}) /\ Len(<<>>) = 0
      BY EmptySeq
  <2>2. /\ Append(<<>>, f) \in Seq({f}) /\ Len(Append(<<>>, f)) = 1
        /\ Append(<<>>, f)[1] = f
      BY <2>1, AppendProperties
  <2> QED BY <1>1, <2>2, SeqEqual
<1> QED BY <1>1, <1>2, <1>3, <1>4

\* A stack replaced by one frame, and by none.
LEMMA SetFrame ==
    ASSUME NEW t \in Threads, NEW f, DOMAIN stack = Threads, stack' = [stack EXCEPT ![t] = <<f>>]
    PROVE  /\ stack'[t] = <<f>> /\ At(t)' = f.at /\ Top(t)' = f
           /\ \A u \in Threads \ {t} : stack'[u] = stack[u] /\ At(u)' = At(u) /\ Top(u)' = Top(u)
<1>1. stack'[t] = <<f>> /\ \A u \in Threads \ {t} : stack'[u] = stack[u]
    OBVIOUS
<1>2. Top(t)' = f /\ At(t)' = f.at
    BY <1>1, OneFrame DEF Top, At
<1> QED BY <1>1, <1>2 DEF Top, At

LEMMA ClearFrame ==
    ASSUME NEW t \in Threads, DOMAIN stack = Threads, stack' = [stack EXCEPT ![t] = <<>>]
    PROVE  /\ stack'[t] = <<>> /\ At(t)' = "idle"
           /\ \A u \in Threads \ {t} : stack'[u] = stack[u] /\ At(u)' = At(u) /\ Top(u)' = Top(u)
BY DEF Top, At

\* Where a thread is in the middle of one thing, it is building that.
LEMMA BuildingIsAt ==
    ASSUME NEW t \in Threads, NEW how \in Builds,
           stack[t] = <<>> \/ \E f \in Frames(registry) : stack[t] = <<f>>
    PROVE  Building(t, how) <=> At(t) = how
<1>1. CASE stack[t] = <<>>
    BY <1>1 DEF Building, At, Builds
<1>2. CASE \E f \in Frames(registry) : stack[t] = <<f>>
  <2>1. PICK f : stack[t] = <<f>>
      BY <1>2
  <2>2. Top(t) = f /\ At(t) = f.at
      BY <2>1, OneFrame DEF Top, At
  <2>3. DOMAIN <<f>> = {1} /\ <<f>>[1] = f
      OBVIOUS
  <2> QED BY <2>1, <2>2, <2>3 DEF Building
<1> QED BY <1>1, <1>2

\* The top of a stack that is not empty.
LEMMA TopIsFrame ==
    ASSUME ShapeInv, NEW t \in Threads, At(t) # "idle"
    PROVE  stack[t] # <<>> /\ Top(t) \in Frames(registry) /\ At(t) = Top(t).at
           /\ Front(stack[t]) \in Seq(Frames(registry))
BY FrontSeq DEF ShapeInv, At, Top

\* A thread in the middle of one thing.
LEMMA SoleFrame ==
    ASSUME ShapeInv, AloneInv, NEW t \in Threads, At(t) # "idle"
    PROVE  Front(stack[t]) = <<>>
<1>1. PICK f : stack[t] = <<f>>
    BY DEF AloneInv, AloneAt, At
<1> QED BY <1>1, OneFrame

LEMMA FrameType ==
    ASSUME NEW r \in Nat, NEW at \in Builds \cup {"asking"}, NEW n \in 1..r,
           NEW prev \in Threads \cup {NoThread}
    PROVE  Frame(at, n, prev) \in Frames(r)
BY KernelInitAssumption DEF Frame, Frames

LEMMA FramesGrow ==
    ASSUME NEW r \in Nat, NEW s \in Seq(Frames(r))
    PROVE  s \in Seq(Frames(r + 1))
<1>1. Frames(r) \subseteq Frames(r + 1)
    BY DEF Frames
<1> QED BY <1>1, SeqMonotonic

\* A thread whose stack nobody touches.
LEMMA AloneElsewhere ==
    ASSUME NEW u \in Threads, AloneAt(u),
           stack'[u] = stack[u], At(u)' = At(u), Top(u)' = Top(u),
           lock' = u <=> lock = u, mark' = u <=> mark = u,
           Frames(registry) \subseteq Frames(registry'),
           At(u) = "locked" => KERNEL' = 0,
           At(u) = "hook" => registry' = registry
    PROVE  AloneAt(u)'
<1>1. stack'[u] = <<>> \/ \E f \in Frames(registry') : stack'[u] = <<f>>
    BY DEF AloneAt
<1>2. lock' = u <=> At(u)' = "locked"
    BY DEF AloneAt
<1>3. mark' = u <=> At(u)' \in Builds
    BY DEF AloneAt
<1>4. At(u)' \in Builds => Top(u)'.prev = NoThread
    BY DEF AloneAt
<1>5. At(u)' = "hook" => Top(u)'.registry = registry'
    BY DEF AloneAt
<1> QED BY <1>1, <1>2, <1>3, <1>4, <1>5 DEF AloneAt

LEMMA ShapeFacts ==
    ASSUME ShapeInv
    PROVE  /\ registry \in Nat \ {0} /\ DOMAIN stack = Threads
           /\ MaxRegistry \in Nat /\ MaxReads \in Nat
BY KernelInitAssumption DEF ShapeInv

-----------------------------------------------------------------------------
(* The initial state and the steps.                                        *)

LEMMA InitInv == Init => KernelInv
<1> SUFFICES ASSUME Init PROVE KernelInv
    OBVIOUS
<1>1. ShapeInv
  <2>1. <<>> \in Seq(Frames(1))
      BY EmptySeq
  <2>2. stack \in [Threads -> Seq(Frames(registry))]
      BY <2>1 DEF Init
  <2>3. 1 \in 1..MaxRegistry /\ 0 \in 0..1
      BY KernelInitAssumption
  <2> QED BY <2>2, <2>3 DEF Init, ShapeInv
<1>2. \A t \in Threads : stack[t] = <<>> /\ At(t) = "idle"
    BY DEF Init, At
<1>3. AloneInv
    BY <1>2, KernelInitAssumption DEF Init, AloneInv, AloneAt, Builds
<1> QED BY <1>1, <1>3 DEF KernelInv

LEMMA IdleIsEmpty ==
    ASSUME ShapeInv, NEW t \in Threads, At(t) = "idle"
    PROVE  stack[t] = <<>>
<1> SUFFICES ASSUME stack[t] # <<>> PROVE FALSE
    OBVIOUS
<1>1. Top(t) \in Frames(registry) /\ At(t) = Top(t).at
    BY FrontSeq DEF ShapeInv, At, Top
<1> QED BY <1>1 DEF Frames, Builds

\* Every lemma below is about one action.
LEMMA AskInv ==
    ASSUME KernelInv, NEW t \in Threads, Ask(t)
    PROVE  KernelInv'
<1>1. ShapeInv /\ registry \in Nat /\ DOMAIN stack = Threads
    BY ShapeFacts DEF KernelInv
<1> DEFINE read  == IF At(t) = "idle" THEN stack[t]
                    ELSE Append(Front(stack[t]), [Top(t) EXCEPT !.reads = @ + 1])
           asked == KERNEL = 0 /\ ~PythonAnswers(t)
           ask   == Frame("asking", registry, NoThread)
<1>2. stack' = [stack EXCEPT ![t] = IF asked THEN Append(read, ask) ELSE read]
    BY DEF Ask
<1>3. At(t) # "idle" => [Top(t) EXCEPT !.reads = @ + 1] \in Frames(registry)
  <2> SUFFICES ASSUME At(t) # "idle" PROVE [Top(t) EXCEPT !.reads = @ + 1] \in Frames(registry)
      OBVIOUS
  <2>1. Top(t) \in Frames(registry) /\ Top(t).reads < MaxReads
      BY <1>1, TopIsFrame DEF Ask
  <2>2. MaxReads \in Nat
      BY KernelInitAssumption
  <2>3. Top(t).reads \in 0..MaxReads /\ Top(t).reads + 1 \in 0..MaxReads
      BY <2>1, <2>2 DEF Frames
  <2> QED BY <2>1, <2>3 DEF Frames
<1>4. read \in Seq(Frames(registry))
  <2>1. CASE At(t) = "idle"
      BY <1>1, <2>1 DEF ShapeInv
  <2>2. CASE At(t) # "idle"
      BY <1>1, <1>3, <2>2, TopIsFrame, AppendProperties
  <2> QED BY <2>1, <2>2
<1>5. ask \in Frames(registry)
  <2>1. registry \in 1..registry
      BY <1>1, ShapeFacts
  <2> QED BY <1>1, <2>1, FrameType
<1>6. ShapeInv'
  <2>1. Append(read, ask) \in Seq(Frames(registry))
      BY <1>4, <1>5, AppendProperties
  <2> HIDE DEF read, ask, asked
  <2> QED BY <1>1, <1>2, <1>4, <2>1 DEF ShapeInv, Ask
<1>7. /\ UNCHANGED <<KERNEL, lock, mark, registry>>
      /\ Frames(registry) \subseteq Frames(registry')
    BY DEF Ask
<1>8. ASSUME AloneInv PROVE AloneInv'
  <2>1. CASE At(t) = "idle" /\ asked
    <3>1. stack[t] = <<>>
        BY <1>1, <2>1, IdleIsEmpty
    <3>2. stack' = [stack EXCEPT ![t] = <<ask>>]
        BY <1>2, <2>1, <3>1, OneFrame
    <3>3. ask.at = "asking"
        BY DEF Frame
    <3> HIDE DEF ask
    <3>4. AloneAt(t)'
      <4>1. stack'[t] = <<ask>> /\ At(t)' = "asking" /\ lock # t /\ mark # t
          BY <1>1, <1>8, <2>1, <3>2, <3>3, SetFrame DEF AloneInv, AloneAt, Builds
      <4>2. "asking" \notin Builds
          BY DEF Builds
      <4> QED BY <1>5, <1>7, <4>1, <4>2 DEF AloneAt
    <3>5. ASSUME NEW u \in Threads \ {t} PROVE AloneAt(u)'
      <4>1. AloneAt(u) /\ (At(u) = "locked" => KERNEL = 0)
          BY <1>8, <3>5 DEF AloneInv, AloneAt
      <4> QED BY <1>1, <1>7, <3>2, <3>5, <4>1, SetFrame, AloneElsewhere
    <3> QED BY <3>4, <3>5 DEF AloneInv
  <2>2. CASE At(t) = "idle" /\ ~asked
    <3>1. stack[t] = <<>> /\ stack' = [stack EXCEPT ![t] = <<>>]
        BY <1>1, <1>2, <2>2, IdleIsEmpty
    <3>2. AloneAt(t)'
        BY <1>1, <1>8, <1>7, <2>2, <3>1, ClearFrame DEF AloneInv, AloneAt, Builds
    <3>3. ASSUME NEW u \in Threads \ {t} PROVE AloneAt(u)'
        BY <1>1, <1>8, <1>7, <3>1, <3>3, ClearFrame, AloneElsewhere DEF AloneInv, AloneAt
    <3> QED BY <3>2, <3>3 DEF AloneInv
  <2>3. CASE At(t) # "idle"
    <3> DEFINE f == [Top(t) EXCEPT !.reads = @ + 1]
    <3>1. mark = t
        BY <1>8, <2>3 DEF AloneInv, AloneAt, Ask
    <3>2. ~asked
        BY <3>1 DEF PythonAnswers, BuildingHere
    <3>3. Front(stack[t]) = <<>>
        BY <1>1, <1>8, <2>3, SoleFrame
    <3>4. stack' = [stack EXCEPT ![t] = <<f>>]
        BY <1>2, <2>3, <3>2, <3>3, OneFrame
    <3>5. Top(t) \in Frames(registry) /\ At(t) = Top(t).at
        BY <1>1, <2>3, TopIsFrame
    <3>6. f.at = At(t) /\ f.prev = Top(t).prev /\ f.registry = Top(t).registry
        BY <3>5 DEF Frames
    <3>7. f \in Frames(registry)
        BY <1>3, <2>3
    <3> HIDE DEF f
    <3>8. AloneAt(t)'
      <4>1. stack'[t] = <<f>> /\ At(t)' = At(t) /\ Top(t)' = f
          BY <1>1, <3>4, <3>6, SetFrame
      <4> QED BY <1>8, <1>7, <3>6, <3>7, <4>1 DEF AloneInv, AloneAt
    <3>9. ASSUME NEW u \in Threads \ {t} PROVE AloneAt(u)'
      <4>1. AloneAt(u) /\ (At(u) = "locked" => KERNEL = 0)
          BY <1>8, <3>9 DEF AloneInv, AloneAt
      <4> QED BY <1>1, <1>7, <3>4, <3>9, <4>1, SetFrame, AloneElsewhere
    <3> QED BY <3>8, <3>9 DEF AloneInv
  <2> QED BY <2>1, <2>2, <2>3
<1> QED BY <1>6, <1>8 DEF KernelInv, Ask

LEMMA AcquireInv ==
    ASSUME KernelInv, NEW t \in Threads, Acquire(t)
    PROVE  KernelInv'
<1>1. ShapeInv /\ registry \in Nat /\ DOMAIN stack = Threads /\ At(t) # "idle"
    BY ShapeFacts DEF KernelInv, Acquire
<1>2. /\ Front(stack[t]) \in Seq(Frames(registry)) /\ stack[t] # <<>>
      /\ Top(t) \in Frames(registry)
    BY <1>1, TopIsFrame
<1>3. CASE NothingToBuild
  <2>1. stack' = [stack EXCEPT ![t] = Front(stack[t])]
      BY <1>3 DEF Acquire, Pop
  <2>2. ShapeInv'
      BY <1>1, <1>2, <1>3, <2>1 DEF ShapeInv, Acquire
  <2>3. ASSUME AloneInv PROVE AloneInv'
    <3>1. stack' = [stack EXCEPT ![t] = <<>>]
        BY <1>1, <2>1, <2>3, SoleFrame
    <3>2. lock # t /\ mark # t
        BY <2>3, KernelInitAssumption DEF AloneInv, AloneAt, Acquire, Builds
    <3>3. UNCHANGED <<KERNEL, registry, lock, mark>>
        BY <1>3 DEF Acquire
    <3>4. AloneAt(t)'
        BY <1>1, <3>1, <3>2, <3>3, ClearFrame DEF AloneAt, Builds
    <3>5. ASSUME NEW u \in Threads \ {t} PROVE AloneAt(u)'
        BY <1>1, <2>3, <3>1, <3>3, <3>5, ClearFrame, AloneElsewhere DEF AloneInv, AloneAt
    <3> QED BY <3>4, <3>5 DEF AloneInv
  <2> QED BY <1>3, <2>2, <2>3 DEF KernelInv, Acquire
<1>4. CASE ~NothingToBuild
  <2> DEFINE f == Frame("locked", Top(t).registry, mark)
  <2>1. stack' = [stack EXCEPT ![t] = Append(Front(stack[t]), f)]
      BY <1>4 DEF Acquire
  <2>2. Top(t).registry \in 1..registry /\ mark \in Threads \cup {NoThread}
      BY <1>1, <1>2 DEF Frames, ShapeInv
  <2>3. f \in Frames(registry)
      BY <1>1, <2>2, FrameType DEF Builds
  <2>4. f.at = "locked" /\ f.prev = mark
      BY DEF Frame
  <2> HIDE DEF f
  <2>5. Append(Front(stack[t]), f) \in Seq(Frames(registry))
      BY <1>2, <2>3, AppendProperties
  <2>6. ShapeInv'
      BY <1>1, <1>4, <2>1, <2>5 DEF ShapeInv, Acquire
  <2>7. ASSUME AloneInv, ~overlapped' PROVE AloneInv'
    <3>1. stack' = [stack EXCEPT ![t] = <<f>>]
        BY <1>1, <2>1, <2>7, SoleFrame, OneFrame
    <3>2. \A u \in Threads : ~Building(u, "hook")
        BY <1>4, <2>7 DEF Acquire, ShapeInv
    <3>3. \A u \in Threads : At(u) # "hook"
        BY <2>7, <3>2, BuildingIsAt DEF AloneInv, AloneAt, Builds
    <3>4. \A u \in Threads : At(u) # "locked"
        BY <2>7, KernelInitAssumption DEF AloneInv, AloneAt, Acquire
    <3>5. \A u \in Threads : At(u) \notin Builds
        BY <3>3, <3>4 DEF Builds
    <3>6. mark = NoThread
        BY <1>1, <2>7, <3>5 DEF AloneInv, AloneAt, ShapeInv
    <3>7. KERNEL' = 0 /\ lock' = t /\ mark' = t /\ registry' = registry
        BY <1>4 DEF Acquire, NothingToBuild
    <3>8. "locked" \in Builds
        BY DEF Builds
    <3>9. AloneAt(t)'
      <4>1. stack'[t] = <<f>> /\ At(t)' = "locked" /\ Top(t)' = f
          BY <1>1, <2>4, <3>1, SetFrame
      <4>2. stack'[t] = <<>> \/ \E g \in Frames(registry') : stack'[t] = <<g>>
          BY <2>3, <3>7, <4>1
      <4>3. /\ lock' = t <=> At(t)' = "locked"
            /\ mark' = t <=> At(t)' \in Builds
            /\ At(t)' \in Builds => Top(t)'.prev = NoThread
            /\ At(t)' = "locked" => KERNEL' = 0
            /\ At(t)' = "hook" => Top(t)'.registry = registry'
          BY <2>4, <3>6, <3>7, <3>8, <4>1
      <4> QED BY <4>2, <4>3 DEF AloneAt
    <3>10. ASSUME NEW u \in Threads \ {t} PROVE AloneAt(u)'
      <4>1. lock # u /\ mark # u /\ lock' # u /\ mark' # u
          BY <2>7, <3>4, <3>5, <3>7, <3>10 DEF AloneInv, AloneAt
      <4> QED BY <1>1, <2>7, <3>1, <3>3, <3>4, <3>7, <3>10, <4>1, SetFrame, AloneElsewhere
              DEF AloneInv
    <3> QED BY <3>9, <3>10 DEF AloneInv
  <2>8. ~overlapped' => ~overlapped
      BY <1>1, <1>4 DEF Acquire, ShapeInv
  <2> QED BY <2>6, <2>7, <2>8 DEF KernelInv
<1> QED BY <1>3, <1>4

\* A build under the lock ends one way or another.
LEMMA UnlockInv ==
    ASSUME KernelInv, NEW t \in Threads, Built(t) \/ Incomplete(t) \/ BuildFails(t)
    PROVE  KernelInv'
<1>1. ShapeInv /\ registry \in Nat /\ DOMAIN stack = Threads /\ At(t) = "locked"
    BY ShapeFacts DEF KernelInv, Built, Incomplete, BuildFails
<1>2. /\ Front(stack[t]) \in Seq(Frames(registry)) /\ stack[t] # <<>>
      /\ Top(t) \in Frames(registry)
    BY <1>1, TopIsFrame
<1>3. /\ lock' = NoThread /\ mark' = Top(t).prev /\ stack' = [stack EXCEPT ![t] = Front(stack[t])]
      /\ UNCHANGED <<registry, loaded, overlapped>>
    BY DEF Built, Incomplete, BuildFails, Unlock, Pop
<1>4. Top(t).prev \in Threads \cup {NoThread} /\ Top(t).registry \in 1..registry
    BY <1>2 DEF Frames
<1>5. tried' \in BOOLEAN /\ KERNEL' \in 0..registry
  <2>1. Top(t).registry \in 0..registry
      BY <1>1, <1>4
  <2> QED BY <1>1, <2>1 DEF Built, Incomplete, BuildFails, ShapeInv
<1>6. incomplete' \in {NoLoad, <<1, FALSE>>}
  <2>1. CASE Incomplete(t)
    <3>1. registry = 1
        BY <1>1, <2>1 DEF Incomplete, Complete, ShapeInv
    <3>2. Top(t).registry = 1
        BY <1>4, <3>1
    <3> QED BY <2>1, <3>2 DEF Incomplete
  <2>2. CASE Built(t) \/ BuildFails(t)
      BY <1>1, <2>2 DEF Built, BuildFails, ShapeInv
  <2> QED BY <2>1, <2>2
<1>7. ShapeInv'
    BY <1>1, <1>2, <1>3, <1>4, <1>5, <1>6 DEF ShapeInv
<1>8. ASSUME AloneInv PROVE AloneInv'
  <2>1. stack' = [stack EXCEPT ![t] = <<>>]
      BY <1>1, <1>3, <1>8, SoleFrame
  <2>2. mark = t /\ lock = t /\ "locked" \in Builds
      BY <1>1, <1>8 DEF AloneInv, AloneAt, Builds
  <2>3. mark' = NoThread
      BY <1>1, <1>3, <1>8, <2>2 DEF AloneInv, AloneAt
  <2>4. \A u \in Threads \ {t} : At(u) \notin Builds /\ At(u) # "locked"
      BY <1>8, <2>2 DEF AloneInv, AloneAt
  <2>5. "hook" \in Builds /\ "idle" \notin Builds
      BY DEF Builds
  <2>6. AloneAt(t)'
      BY <1>1, <1>3, <2>1, <2>3, <2>5, ClearFrame, KernelInitAssumption DEF AloneAt
  <2>7. ASSUME NEW u \in Threads \ {t} PROVE AloneAt(u)'
    <3>1. lock' # u /\ mark' # u /\ lock # u /\ mark # u
        BY <1>3, <2>2, <2>3, <2>7, KernelInitAssumption
    <3> QED BY <1>1, <1>3, <1>8, <2>1, <2>4, <2>7, <3>1, ClearFrame, AloneElsewhere DEF AloneInv
  <2> QED BY <2>6, <2>7 DEF AloneInv
<1> QED BY <1>3, <1>7, <1>8 DEF KernelInv

LEMMA NewRegistryInv ==
    ASSUME KernelInv, NEW t \in Threads, NewRegistry(t)
    PROVE  KernelInv'
<1> DEFINE f == Frame("hook", registry + 1, mark)
<1>1. /\ ShapeInv /\ registry \in Nat /\ DOMAIN stack = Threads /\ At(t) = "idle"
      /\ registry' = registry + 1 /\ registry' \in 1..MaxRegistry /\ registry' \in Nat
  <2>1. ShapeInv /\ registry \in Nat \ {0} /\ MaxRegistry \in Nat /\ DOMAIN stack = Threads
      BY ShapeFacts DEF KernelInv
  <2> QED BY <2>1 DEF NewRegistry
<1>2. stack[t] = <<>>
    BY <1>1, IdleIsEmpty
<1>3. stack' = [stack EXCEPT ![t] = <<f>>]
    BY <1>1, <1>2, OneFrame DEF NewRegistry, Push
<1>4. f \in Frames(registry')
    BY <1>1, FrameType DEF ShapeInv, Builds
<1>5. f.at = "hook" /\ f.prev = mark /\ f.registry = registry'
    BY <1>1 DEF Frame
<1> HIDE DEF f
<1>6. <<f>> \in Seq(Frames(registry'))
    BY <1>4
<1>7. \A u \in Threads : stack[u] \in Seq(Frames(registry'))
    BY <1>1, FramesGrow DEF ShapeInv
<1>8. ShapeInv'
  <2>1. stack' \in [Threads -> Seq(Frames(registry'))]
      BY <1>1, <1>3, <1>6, <1>7
  <2>2. overlapped' \in BOOLEAN /\ mark' = t /\ KERNEL' \in 0..registry'
      BY <1>1 DEF ShapeInv, NewRegistry
  <2> QED BY <1>1, <2>1, <2>2 DEF ShapeInv, NewRegistry
<1>9. ASSUME AloneInv, ~overlapped' PROVE AloneInv'
  <2>1. \A u \in Threads, how \in Builds : ~Building(u, how)
      BY <1>9 DEF NewRegistry
  <2>2. \A u \in Threads : At(u) \notin Builds
      BY <1>9, <2>1, BuildingIsAt DEF AloneInv, AloneAt
  <2>3. mark = NoThread
      BY <1>1, <1>9, <2>2 DEF AloneInv, AloneAt, ShapeInv
  <2>4. Frames(registry) \subseteq Frames(registry')
      BY <1>1 DEF Frames
  <2>5. "hook" \in Builds /\ "locked" \in Builds
      BY DEF Builds
  <2>6. lock' = lock /\ mark' = t /\ KERNEL' = KERNEL
      BY DEF NewRegistry
  <2>7. lock # t
      BY <1>1, <1>9 DEF AloneInv, AloneAt
  <2>8. AloneAt(t)'
    <3>1. stack'[t] = <<f>> /\ At(t)' = "hook" /\ Top(t)' = f /\ f.prev = NoThread
        BY <1>1, <1>3, <1>5, <2>3, SetFrame
    <3>2. lock' # t
        BY <2>6, <2>7
    <3> QED BY <1>4, <1>5, <2>5, <2>6, <3>1, <3>2 DEF AloneAt
  <2>9. ASSUME NEW u \in Threads \ {t} PROVE AloneAt(u)'
    <3>1. mark' # u /\ mark # u
        BY <2>3, <2>6, <2>9, KernelInitAssumption
    <3> QED BY <1>1, <1>3, <1>9, <2>2, <2>4, <2>5, <2>6, <2>9, <3>1, SetFrame, AloneElsewhere
            DEF AloneInv
  <2> QED BY <2>8, <2>9 DEF AloneInv
<1>10. ~overlapped' => ~overlapped
    BY <1>1 DEF NewRegistry, ShapeInv
<1> QED BY <1>8, <1>9, <1>10 DEF KernelInv

\* A build of the hook ends one way or another.
LEMMA HookInv ==
    ASSUME KernelInv, NEW t \in Threads, HookBuilt(t) \/ HookFails(t)
    PROVE  KernelInv'
<1>1. ShapeInv /\ registry \in Nat /\ DOMAIN stack = Threads /\ At(t) = "hook"
    BY ShapeFacts DEF KernelInv, HookBuilt, HookFails
<1>2. /\ Front(stack[t]) \in Seq(Frames(registry)) /\ stack[t] # <<>>
      /\ Top(t) \in Frames(registry)
    BY <1>1, TopIsFrame
<1>3. /\ mark' = Top(t).prev /\ stack' = [stack EXCEPT ![t] = Front(stack[t])]
      /\ UNCHANGED <<tried, incomplete, lock, registry, loaded, overlapped>>
    BY DEF HookBuilt, HookFails, Pop
<1>4. Top(t).prev \in Threads \cup {NoThread} /\ Top(t).registry \in 1..registry
    BY <1>2 DEF Frames
<1>5. KERNEL' \in 0..registry
  <2>1. Top(t).registry \in 0..registry /\ 0 \in 0..registry
      BY <1>1, <1>4
  <2> QED BY <2>1 DEF HookBuilt, HookFails
<1>6. ShapeInv'
    BY <1>1, <1>2, <1>3, <1>4, <1>5 DEF ShapeInv
<1>7. ASSUME AloneInv PROVE AloneInv'
  <2>1. stack' = [stack EXCEPT ![t] = <<>>]
      BY <1>1, <1>3, <1>7, SoleFrame
  <2>2. mark = t /\ "hook" \in Builds /\ "locked" \in Builds /\ "idle" \notin Builds
      BY <1>1, <1>7 DEF AloneInv, AloneAt, Builds
  <2>3. mark' = NoThread
      BY <1>1, <1>3, <1>7, <2>2 DEF AloneInv, AloneAt
  <2>4. \A u \in Threads \ {t} : At(u) \notin Builds
      BY <1>7, <2>2 DEF AloneInv, AloneAt
  <2>5. lock # t
      BY <1>1, <1>7 DEF AloneInv, AloneAt
  <2>6. AloneAt(t)'
      BY <1>1, <1>3, <2>1, <2>2, <2>3, <2>5, ClearFrame, KernelInitAssumption DEF AloneAt
  <2>7. ASSUME NEW u \in Threads \ {t} PROVE AloneAt(u)'
    <3>1. mark' # u /\ mark # u
        BY <2>2, <2>3, <2>7, KernelInitAssumption
    <3> QED BY <1>1, <1>3, <1>7, <2>1, <2>2, <2>4, <2>7, <3>1, ClearFrame, AloneElsewhere DEF AloneInv
  <2> QED BY <2>6, <2>7 DEF AloneInv
<1> QED BY <1>3, <1>6, <1>7 DEF KernelInv

LEMMA FinishLoadingInv ==
    ASSUME KernelInv, FinishLoading \/ UNCHANGED vars
    PROVE  KernelInv'
<1>1. /\ UNCHANGED <<KERNEL, tried, incomplete, lock, mark, registry, stack, overlapped>>
      /\ loaded' = loaded \/ loaded' = TRUE
    BY DEF FinishLoading, vars
<1>2. ShapeInv'
    BY <1>1 DEF KernelInv, ShapeInv
<1>3. AloneInv => AloneInv'
    BY <1>1 DEF AloneInv, AloneAt, At, Top
<1> QED BY <1>1, <1>2, <1>3 DEF KernelInv

LEMMA NextInv == KernelInv /\ [Next]_vars => KernelInv'
<1> SUFFICES ASSUME KernelInv, [Next]_vars PROVE KernelInv'
    OBVIOUS
<1>1. ASSUME NEW t \in Threads, Ask(t) PROVE KernelInv'
    BY <1>1, AskInv
<1>2. ASSUME NEW t \in Threads, NewRegistry(t) PROVE KernelInv'
    BY <1>2, NewRegistryInv
<1>3. ASSUME NEW t \in Threads, Step(t) PROVE KernelInv'
    BY <1>3, AcquireInv, UnlockInv, HookInv DEF Step
<1>4. CASE FinishLoading \/ UNCHANGED vars
    BY <1>4, FinishLoadingInv
<1> QED BY <1>1, <1>2, <1>3, <1>4 DEF Next

-----------------------------------------------------------------------------
(* The theorems.                                                           *)

\* In every reachable state the frames, the lock and the mark agree, unless two
\* builds have met (building, _initialize_kernel_if_ready).
THEOREM BuildInvariant == Spec => []KernelInv
BY InitInv, NextInv, PTL DEF Spec

\* Unless a build of the hook has met another build, the mark names the thread
\* that builds, and nobody when none does (building).
THEOREM MarksMatch == Spec => []MarkMatchesBuilds
<1>1. KernelInv => TypeOK
  <2> SUFFICES ASSUME KernelInv PROVE TypeOK
      OBVIOUS
  <2>1. /\ ShapeInv /\ registry \in 1..MaxRegistry /\ MaxRegistry \in Nat
        /\ KERNEL \in 0..registry
      BY KernelInitAssumption DEF KernelInv, ShapeInv
  <2>2. ASSUME NEW t \in Threads, NEW i \in DOMAIN stack[t]
        PROVE  stack[t][i] \in [at : Builds \cup {"asking"}, registry : 1..MaxRegistry,
                                prev : Threads \cup {NoThread}, reads : 0..MaxReads]
    <3>1. stack[t][i] \in Frames(registry)
        BY <2>1, <2>2, ElementOfSeq, LenProperties DEF ShapeInv
    <3> QED BY <2>1, <3>1 DEF Frames
  <2>3. KERNEL \in 0..MaxRegistry
      BY <2>1
  <2> QED BY <2>1, <2>2, <2>3 DEF ShapeInv, TypeOK
<1>2. KernelInv => MarkNamesBuilder
  <2> SUFFICES ASSUME AloneInv, NEW t \in Threads
               PROVE  mark = t <=> \E how \in Builds : Building(t, how)
      BY DEF KernelInv, MarkNamesBuilder
  <2>1. \A how \in Builds : Building(t, how) <=> At(t) = how
      BY BuildingIsAt DEF AloneInv, AloneAt
  <2> QED BY <2>1 DEF AloneInv, AloneAt
<1> QED BY <1>1, <1>2, BuildInvariant, PTL DEF MarkMatchesBuilds

\* A build waits for a lock it holds only after a build of the hook has met
\* another build (building_here, _initialize_kernel_if_ready).
THEOREM NoSelfWait == Spec => []BuildNeverWaitsForItself
<1>1. KernelInv => BuildNeverWaitsForItself
    BY DEF KernelInv, AloneInv, AloneAt, BuildNeverWaitsForItself, WaitsForItself
<1> QED BY <1>1, BuildInvariant, PTL

\* Unless two builds have met, a kernel is not replaced by that of an older
\* registry (_initialize_kernel_if_ready, _arm_registry_hook).
THEOREM KernelNeverRegresses == Spec => KernelKeepsUp
<1>1. KernelInv /\ [Next]_vars => [KERNEL' = 0 \/ KERNEL' >= KERNEL \/ overlapped]_vars
  <2> SUFFICES ASSUME KernelInv, Next, ~overlapped
               PROVE  KERNEL' = 0 \/ KERNEL' >= KERNEL
      OBVIOUS
  <2>1. AloneInv /\ ShapeInv /\ registry \in Nat /\ KERNEL \in 0..registry
      BY ShapeFacts DEF KernelInv, ShapeInv
  <2>2. ASSUME NEW t \in Threads, Built(t) PROVE KERNEL' >= KERNEL
    <3>1. KERNEL = 0 /\ Top(t).registry \in 1..registry
        BY <2>1, <2>2, TopIsFrame DEF AloneInv, AloneAt, Built, Frames
    <3> QED BY <2>1, <2>2, <3>1 DEF Built
  <2>3. ASSUME NEW t \in Threads, HookBuilt(t) PROVE KERNEL' >= KERNEL
      BY <2>1, <2>3 DEF AloneInv, AloneAt, HookBuilt
  <2>4. KERNEL' = KERNEL => KERNEL' >= KERNEL
      BY <2>1
  <2> QED BY <2>2, <2>3, <2>4 DEF Next, Step, Ask, NewRegistry, Acquire, Incomplete, BuildFails,
          HookFails, FinishLoading
<1> QED BY <1>1, BuildInvariant, PTL DEF Spec, KernelKeepsUp
=============================================================================
