---------------------------- MODULE QueueProofs ----------------------------
(***************************************************************************)
(* Facts about queues and loops that the proofs of several components      *)
(* need: what pushing, popping and cutting do to the elements of a queue,  *)
(* and induction over the natural numbers in a form that takes a set,      *)
(* which shows what the loops of Queues return.                            *)
(***************************************************************************)
EXTENDS Queues, Integers, TLAPS, WellFoundedInduction, SequenceTheorems, FiniteSetTheorems

-----------------------------------------------------------------------------
(* Pushing, popping and appending queues.                                  *)

(* Pushing an element that is not in a queue keeps the queue free of       *)
(* duplicates (queue::push in push_and_signal, lock, wait and join).       *)
LEMMA AppendLemma ==
    ASSUME NEW S, NEW s \in Seq(S), NEW e \in S
    PROVE  /\ Append(s, e) \in Seq(S)
           /\ ToSet(Append(s, e)) = ToSet(s) \cup {e}
           /\ IsInjective(s) /\ e \notin ToSet(s) => IsInjective(Append(s, e))
<1> DEFINE a == Append(s, e)
<1>1. a \in Seq(S) /\ Len(a) = Len(s) + 1 /\ a[Len(s) + 1] = e
      /\ \A i \in 1 .. Len(s) : a[i] = s[i]
  OBVIOUS
<1>2. ToSet(a) = ToSet(s) \cup {e}
  BY <1>1 DEF ToSet
<1>3. IsInjective(s) /\ e \notin ToSet(s) => IsInjective(a)
  BY <1>1 DEF ToSet, IsInjective
<1> QED
  BY <1>1, <1>2, <1>3

(* Popping the front of a queue (front and pop) removes that element and   *)
(* no other.                                                               *)
LEMMA HeadTailLemma ==
    ASSUME NEW S, NEW s \in Seq(S), s # <<>>
    PROVE  /\ Head(s) \in S
           /\ Tail(s) \in Seq(S)
           /\ ToSet(s) = {Head(s)} \cup ToSet(Tail(s))
           /\ IsInjective(s) => Head(s) \notin ToSet(Tail(s)) /\ IsInjective(Tail(s))
<1> DEFINE u == Tail(s)
<1>1. /\ u \in Seq(S) /\ Len(u) = Len(s) - 1 /\ Len(s) > 0 /\ Len(s) \in Nat
      /\ Head(s) = s[1] /\ Head(s) \in S
      /\ \A i \in 1 .. Len(u) : u[i] = s[i + 1]
  OBVIOUS
<1>2. ToSet(s) = {Head(s)} \cup ToSet(u)
  <2>1. ASSUME NEW i \in DOMAIN s PROVE s[i] \in {Head(s)} \cup ToSet(u)
    <3>1. CASE i = 1
      BY <1>1, <3>1
    <3>2. CASE i # 1
      <4>1. i - 1 \in 1 .. Len(u) /\ u[i - 1] = s[i]
        BY <1>1, <3>2
      <4>2. i - 1 \in DOMAIN u
        BY <4>1, <1>1
      <4> QED
        BY <4>1, <4>2 DEF ToSet
    <3> QED
      BY <3>1, <3>2
  <2>2. ASSUME NEW i \in DOMAIN u PROVE u[i] \in ToSet(s)
    BY <1>1 DEF ToSet
  <2>3. Head(s) \in ToSet(s)
    BY <1>1 DEF ToSet
  <2> QED
    BY <2>1, <2>2, <2>3 DEF ToSet
<1>3. IsInjective(s) => Head(s) \notin ToSet(u) /\ IsInjective(u)
  BY <1>1 DEF ToSet, IsInjective
<1> QED
  BY <1>1, <1>2, <1>3

(* Draining one queue into another (the loops of broadcast and of          *)
(* func_with_swap).                                                        *)
LEMMA ConcatLemma ==
    ASSUME NEW S, NEW s \in Seq(S), NEW u \in Seq(S)
    PROVE  /\ s \o u \in Seq(S)
           /\ ToSet(s \o u) = ToSet(s) \cup ToSet(u)
           /\ IsInjective(s) /\ IsInjective(u) /\ ToSet(s) \cap ToSet(u) = {}
                => IsInjective(s \o u)
<1> DEFINE a == s \o u
<1>1. /\ a \in Seq(S) /\ Len(a) = Len(s) + Len(u) /\ Len(s) \in Nat /\ Len(u) \in Nat
      /\ \A i \in 1 .. Len(s) : a[i] = s[i]
      /\ \A i \in 1 .. Len(u) : a[Len(s) + i] = u[i]
  OBVIOUS
<1>2. \A i \in DOMAIN a : \/ i \in DOMAIN s /\ a[i] = s[i]
                          \/ i - Len(s) \in DOMAIN u /\ a[i] = u[i - Len(s)]
  <2> SUFFICES ASSUME NEW i \in DOMAIN a, ~(i \in DOMAIN s /\ a[i] = s[i])
               PROVE  i - Len(s) \in DOMAIN u /\ a[i] = u[i - Len(s)]
    OBVIOUS
  <2>1. i \in 1 .. Len(a) /\ i > Len(s)
    BY <1>1
  <2>2. i - Len(s) \in 1 .. Len(u)
    BY <1>1, <2>1
  <2>3. a[Len(s) + (i - Len(s))] = u[i - Len(s)]
    BY <1>1, <2>2
  <2> QED
    BY <1>1, <2>1, <2>2, <2>3
<1>3. ToSet(a) \subseteq ToSet(s) \cup ToSet(u)
  BY <1>2 DEF ToSet
<1>4. ToSet(s) \subseteq ToSet(a)
  BY <1>1 DEF ToSet
<1>5. ToSet(u) \subseteq ToSet(a)
  <2>1. \A i \in DOMAIN u : Len(s) + i \in DOMAIN a /\ a[Len(s) + i] = u[i]
    BY <1>1
  <2> QED
    BY <2>1 DEF ToSet
<1>6. ASSUME IsInjective(s), IsInjective(u), ToSet(s) \cap ToSet(u) = {}
      PROVE  IsInjective(a)
  <2> SUFFICES ASSUME NEW i \in DOMAIN a, NEW j \in DOMAIN a, a[i] = a[j]
               PROVE  i = j
    BY DEF IsInjective
  <2>1. CASE i \in DOMAIN s /\ a[i] = s[i] /\ j \in DOMAIN s /\ a[j] = s[j]
    BY <1>6, <2>1 DEF IsInjective
  <2>2. CASE i - Len(s) \in DOMAIN u /\ a[i] = u[i - Len(s)]
             /\ j - Len(s) \in DOMAIN u /\ a[j] = u[j - Len(s)]
    <3>1. i - Len(s) = j - Len(s)
      BY <1>6, <2>2 DEF IsInjective
    <3> QED
      BY <3>1, <1>1
  <2>3. CASE i \in DOMAIN s /\ a[i] = s[i]
             /\ j - Len(s) \in DOMAIN u /\ a[j] = u[j - Len(s)]
    BY <1>6, <2>3 DEF ToSet
  <2>4. CASE j \in DOMAIN s /\ a[j] = s[j]
             /\ i - Len(s) \in DOMAIN u /\ a[i] = u[i - Len(s)]
    BY <1>6, <2>4 DEF ToSet
  <2> QED
    BY <1>2, <2>1, <2>2, <2>3, <2>4
<1> QED
  BY <1>1, <1>3, <1>4, <1>5, <1>6

(* The empty queue. *)
LEMMA EmptyLemma ==
    ASSUME NEW S
    PROVE  <<>> \in Seq(S) /\ ToSet(<<>>) = {} /\ IsInjective(<<>>)
BY DEF ToSet, IsInjective

(* The elements of a queue *)
LEMMA ToSetType ==
    ASSUME NEW S, NEW s \in Seq(S)
    PROVE  ToSet(s) \subseteq S
BY DEF ToSet

-----------------------------------------------------------------------------
(* Cutting a queue in two: what is taken off its front, without            *)
(* duplicates, is as many as it should be.                                 *)
CutAt(S, s, n, front, rest) ==
    /\ rest \in Seq(S) /\ Len(rest) = Len(s) - n /\ IsInjective(rest)
    /\ ToSet(s) = front \cup ToSet(rest) /\ front \cap ToSet(rest) = {}
    /\ IsFiniteSet(front) /\ Cardinality(front) = n

LEMMA CutLemma ==
    ASSUME NEW S, NEW s \in Seq(S), IsInjective(s), NEW n \in 0 .. Len(s)
    PROVE  CutAt(S, s, n, {s[i] : i \in 1 .. n}, SubSeq(s, n + 1, Len(s)))
<1> DEFINE front == {s[i] : i \in 1 .. n}
           rest == SubSeq(s, n + 1, Len(s))
<1>1. Len(s) \in Nat /\ DOMAIN s = 1 .. Len(s)  OBVIOUS
<1>2. /\ rest \in Seq(S) /\ Len(rest) = Len(s) - n
      /\ \A i \in 1 .. Len(rest) : rest[i] = s[i + n]
  <2>1. n + 1 \in Int /\ Len(s) \in Int /\ \A i \in n + 1 .. Len(s) : s[i] \in S  BY <1>1
  <2>2. /\ rest \in Seq(S)
        /\ Len(rest) = IF n + 1 <= Len(s) THEN Len(s) - (n + 1) + 1 ELSE 0
        /\ \A i \in 1 .. Len(s) - (n + 1) + 1 : rest[i] = s[(n + 1) + i - 1]
    BY <2>1, SubSeqProperties
  <2> HIDE DEF rest
  <2>3. Len(rest) = Len(s) - n  BY <1>1, <2>2
  <2>4. ASSUME NEW i \in 1 .. Len(rest) PROVE rest[i] = s[i + n]
    <3>1. i \in 1 .. Len(s) - (n + 1) + 1 /\ (n + 1) + i - 1 = i + n  BY <1>1, <2>3
    <3>2. QED  BY <2>2, <3>1
  <2>5. QED  BY <2>2, <2>3, <2>4
<1>3. DOMAIN rest = 1 .. Len(rest)  BY <1>2
<1> HIDE DEF rest
<1>4. IsInjective(rest)
  <2>1. SUFFICES ASSUME NEW i \in 1 .. Len(rest), NEW j \in 1 .. Len(rest), rest[i] = rest[j]
                 PROVE  i = j
    BY <1>3 DEF IsInjective
  <2>2. i + n \in DOMAIN s /\ j + n \in DOMAIN s  BY <1>1, <1>2
  <2>3. s[i + n] = s[j + n]  BY <1>2, <2>1
  <2>4. i + n = j + n  BY <2>2, <2>3 DEF IsInjective
  <2>5. QED  BY <1>1, <1>2, <2>4
<1>5. ToSet(s) = front \cup ToSet(rest)
  <2>1. ASSUME NEW i \in 1 .. Len(s) PROVE s[i] \in front \cup ToSet(rest)
    <3>1. CASE i <= n  BY <3>1
    <3>2. CASE i > n
      <4>1. i - n \in 1 .. Len(rest) /\ rest[i - n] = s[i]  BY <1>1, <1>2, <3>2
      <4>2. QED  BY <1>3, <4>1 DEF ToSet
    <3>3. QED  BY <1>1, <3>1, <3>2
  <2>2. front \subseteq ToSet(s)  BY <1>1 DEF ToSet
  <2>3. ToSet(rest) \subseteq ToSet(s)
    BY <1>1, <1>2, <1>3 DEF ToSet
  <2>4. QED  BY <1>1, <2>1, <2>2, <2>3 DEF ToSet
<1>6. front \cap ToSet(rest) = {}
  <2>1. ASSUME NEW i \in 1 .. n, NEW j \in 1 .. Len(rest) PROVE s[i] # rest[j]
    <3>1. rest[j] = s[j + n] /\ i \in DOMAIN s /\ j + n \in DOMAIN s /\ i # j + n
      BY <1>1, <1>2
    <3>2. QED  BY <3>1 DEF IsInjective
  <2>2. QED  BY <1>3, <2>1 DEF ToSet
<1>7. IsFiniteSet(front) /\ Cardinality(front) = n
  <2> DEFINE f == [i \in 1 .. n |-> s[i]]
  <2>1. f \in Injection(1 .. n, front)
    BY <1>1 DEF Injection, IsInjective, IsInjective
  <2>2. f \in Surjection(1 .. n, front)
    BY DEF Surjection
  <2>3. IsFiniteSet(1 .. n) /\ Cardinality(1 .. n) = n  BY <1>1, FS_Interval
  <2>4. ExistsBijection(1 .. n, front)
    BY <2>1, <2>2 DEF ExistsBijection, Bijection
  <2>5. QED  BY <2>3, <2>4, FS_Bijection
<1>8. QED  BY <1>2, <1>4, <1>5, <1>6, <1>7 DEF rest, CutAt

-----------------------------------------------------------------------------
(* Induction.                                                              *)

LEMMA LessWellFounded == IsWellFoundedOn({mn \in Nat \X Nat : mn[1] < mn[2]}, Nat)
BY NatLessThanWellFounded DEF OpToRel

LEMMA NatSetInduction ==
    ASSUME NEW S, 0 \in S, \A n \in Nat : n \in S => n + 1 \in S
    PROVE  Nat \subseteq S
<1> DEFINE R == {mn \in Nat \X Nat : mn[1] < mn[2]}
           T == Nat \ S
<1> SUFFICES ASSUME T # {} PROVE FALSE  OBVIOUS
<1>1. \E x \in T : \A y \in T : <<y, x>> \notin R
  <2>1. IsWellFoundedOn(R, Nat) /\ T \subseteq Nat  BY LessWellFounded
  <2> HIDE DEF T, R
  <2>2. QED  BY <2>1, WFMin
<1>2. PICK x \in T : \A y \in T : <<y, x>> \notin R  BY <1>1
<1>3. x # 0 /\ x \in Nat /\ x - 1 \in Nat /\ x - 1 < x /\ (x - 1) + 1 = x  OBVIOUS
<1>4. x - 1 \notin T  BY <1>2, <1>3
<1>5. QED  BY <1>3, <1>4

(* The same up to a bound *)
LEMMA UpToInduction ==
    ASSUME NEW N \in Nat, NEW S, 0 \in S, \A n \in 0 .. N - 1 : n \in S => n + 1 \in S
    PROVE  0 .. N \subseteq S
<1> DEFINE T == {n \in Nat : n <= N => n \in S}
<1>1. 0 \in T  OBVIOUS
<1>2. \A n \in Nat : n \in T => n + 1 \in T  OBVIOUS
<1> HIDE DEF T
<1>3. Nat \subseteq T  BY <1>1, <1>2, NatSetInduction
<1>4. QED  BY <1>3 DEF T

-----------------------------------------------------------------------------
(* The recursive function of Kept exists. *)
KeptStep(s, keep, before, i) == IF s[i] \in keep THEN Append(before, s[i]) ELSE before

LEMMA KeptExists ==
    ASSUME NEW s, Len(s) \in Nat, NEW keep
    PROVE  \E f : f = [i \in 0 .. Len(s) |-> IF i = 0 THEN <<>> ELSE KeptStep(s, keep, f[i - 1], i)]
<1> DEFINE D(f, n) == f = [i \in 0 .. n |-> IF i = 0 THEN <<>> ELSE KeptStep(s, keep, f[i - 1], i)]
           T == {n \in 0 .. Len(s) : \E f : D(f, n)}
<1>1. 0 \in T
  <2>1. D([i \in 0 .. 0 |-> <<>>], 0)  OBVIOUS
  <2> HIDE DEF D
  <2>2. QED  BY <2>1
<1>2. ASSUME NEW n \in 0 .. Len(s) - 1, n \in T PROVE n + 1 \in T
  <2>1. PICK f : D(f, n)  BY <1>2
  <2> DEFINE g == [i \in 0 .. n + 1 |-> IF i = 0 THEN <<>>
                                        ELSE IF i <= n THEN f[i] ELSE KeptStep(s, keep, f[n], n + 1)]
  <2>2. \A i \in 0 .. n : g[i] = f[i]  BY <2>1
  <2>3. D(g, n + 1)
    <3>1. ASSUME NEW i \in 0 .. n + 1
          PROVE  g[i] = IF i = 0 THEN <<>> ELSE KeptStep(s, keep, g[i - 1], i)
      <4>1. CASE i = 0  BY <4>1
      <4>2. CASE i \in 1 .. n
        <5>1. i - 1 \in 0 .. n /\ i \in 0 .. n /\ i # 0  BY <4>2
        <5>2. f[i] = KeptStep(s, keep, f[i - 1], i)  BY <2>1, <5>1
        <5>3. QED  BY <2>2, <5>1, <5>2
      <4>3. CASE i = n + 1
        <5>1. g[i] = KeptStep(s, keep, f[n], n + 1) /\ i - 1 = n /\ i # 0  BY <4>3
        <5>2. g[n] = f[n]  BY <2>2
        <5> HIDE DEF g
        <5>3. QED  BY <4>3, <5>1, <5>2
      <4>4. QED  BY <4>1, <4>2, <4>3
    <3> HIDE DEF g
    <3>2. g = [i \in 0 .. n + 1 |-> g[i]]  BY DEF g
    <3>3. QED  BY <3>1, <3>2
  <2> HIDE DEF D, g
  <2>4. QED  BY <2>3
<1> HIDE DEF D, T
<1>3. 0 .. Len(s) \subseteq T  BY <1>1, <1>2, UpToInduction
<1>4. QED  BY <1>3 DEF T, D

(* Kept as its definition reads *)
LEMMA KeptDef ==
    ASSUME NEW s, Len(s) \in Nat, NEW keep
    PROVE  /\ Kept(s, keep)[0] = <<>>
           /\ \A i \in 1 .. Len(s) : Kept(s, keep)[i] = KeptStep(s, keep, Kept(s, keep)[i - 1], i)
<1> DEFINE f == Kept(s, keep)
           R(g) == [i \in 0 .. Len(s) |-> IF i = 0 THEN <<>>
                                          ELSE IF s[i] \in keep THEN Append(g[i - 1], s[i]) ELSE g[i - 1]]
<1>1. \E g : g = R(g)  BY KeptExists DEF KeptStep
<1>2. f = CHOOSE g : g = R(g)  BY DEF Kept
<1>3. f = R(f)
  <2> HIDE DEF f, R
  <2>1. QED  BY <1>1, <1>2
<1>4. f = [i \in 0 .. Len(s) |-> IF i = 0 THEN <<>> ELSE KeptStep(s, keep, f[i - 1], i)]
  <2> HIDE DEF f
  <2>1. QED  BY <1>3 DEF KeptStep
<1> HIDE DEF f
<1>5. f[0] = <<>>  BY <1>4
<1>6. ASSUME NEW i \in 1 .. Len(s) PROVE f[i] = KeptStep(s, keep, f[i - 1], i)
  <2>1. i \in 0 .. Len(s) /\ i # 0  OBVIOUS
  <2>2. QED  BY <1>4, <2>1
<1>7. QED  BY <1>5, <1>6 DEF f

(* What Filter returns *)
LEMMA FilterLemma ==
    ASSUME NEW S, NEW s \in Seq(S), NEW keep
    PROVE  /\ Filter(s, keep) \in Seq(S)
           /\ ToSet(Filter(s, keep)) = ToSet(s) \cap keep
           /\ IsInjective(s) => IsInjective(Filter(s, keep))
<1> DEFINE f == Kept(s, keep)
           front(i) == {s[j] : j \in 1 .. i}
           Good(i) == /\ f[i] \in Seq(S)
                      /\ ToSet(f[i]) = front(i) \cap keep
                      /\ IsInjective(s) => IsInjective(f[i])
           T == {i \in 0 .. Len(s) : Good(i)}
<1>0. Len(s) \in Nat /\ DOMAIN s = 1 .. Len(s)  OBVIOUS
<1>1. /\ f[0] = <<>>
      /\ \A i \in 1 .. Len(s) : f[i] = KeptStep(s, keep, f[i - 1], i)
  BY <1>0, KeptDef
<1> HIDE DEF f
<1>2. 0 \in T
  <2>1. f[0] = <<>>  BY <1>1
  <2>2. front(0) = {}  OBVIOUS
  <2>3. Good(0)  BY <2>1, <2>2 DEF ToSet, IsInjective
  <2>4. QED  BY <1>0, <2>3
<1>3. ASSUME NEW i \in 0 .. Len(s) - 1, i \in T PROVE i + 1 \in T
  <2>1. /\ f[i] \in Seq(S) /\ i + 1 \in 1 .. Len(s) /\ (i + 1) - 1 = i
        /\ s[i + 1] \in S
    BY <1>0, <1>3
  <2>2. f[i + 1] = KeptStep(s, keep, f[i], i + 1)  BY <1>1, <2>1
  <2>3. front(i + 1) = front(i) \cup {s[i + 1]}  BY <1>0, <2>1
  <2>4. CASE s[i + 1] \notin keep
    <3>1. f[i + 1] = f[i]  BY <2>2, <2>4 DEF KeptStep
    <3>2. Good(i + 1)  BY <1>3, <2>3, <2>4, <3>1
    <3>3. QED  BY <2>1, <3>2
  <2>5. CASE s[i + 1] \in keep
    <3>1. f[i + 1] = Append(f[i], s[i + 1])  BY <2>2, <2>5 DEF KeptStep
    <3>2. /\ f[i + 1] \in Seq(S) /\ ToSet(f[i + 1]) = ToSet(f[i]) \cup {s[i + 1]}
          /\ IsInjective(f[i]) /\ s[i + 1] \notin ToSet(f[i]) => IsInjective(f[i + 1])
      BY <2>1, <3>1, AppendLemma
    <3>3. ASSUME IsInjective(s) PROVE IsInjective(f[i + 1])
      <4>1. s[i + 1] \notin front(i)  BY <1>0, <2>1, <3>3 DEF IsInjective
      <4>2. s[i + 1] \notin ToSet(f[i])  BY <1>3, <4>1
      <4>3. IsInjective(f[i])  BY <1>3, <3>3
      <4>4. QED  BY <3>2, <4>2, <4>3
    <3>4. Good(i + 1)  BY <1>3, <2>3, <2>5, <3>2, <3>3
    <3>5. QED  BY <2>1, <3>4
  <2>6. QED  BY <2>4, <2>5
<1>4. 0 .. Len(s) \subseteq T
  <2> HIDE DEF T
  <2>1. QED  BY <1>0, <1>2, <1>3, UpToInduction
<1>5. Good(Len(s))
  <2>1. Len(s) \in T
    <3> HIDE DEF T
    <3>1. Len(s) \in 0 .. Len(s)  BY <1>0
    <3>2. QED  BY <1>4, <3>1
  <2>2. QED  BY <2>1
<1>6. front(Len(s)) = ToSet(s)  BY <1>0 DEF ToSet
<1>7. QED  BY <1>5, <1>6 DEF Filter, f

(* A part of a queue *)
LEMMA SubSeqLemma ==
    ASSUME NEW S, NEW s \in Seq(S), NEW m \in 1 .. Len(s) + 1, NEW n \in 0 .. Len(s)
    PROVE  /\ SubSeq(s, m, n) \in Seq(S)
           /\ ToSet(SubSeq(s, m, n)) = {s[i] : i \in m .. n}
           /\ Len(SubSeq(s, m, n)) = IF m <= n THEN n - m + 1 ELSE 0
           /\ IsInjective(s) => IsInjective(SubSeq(s, m, n))
<1> DEFINE u == SubSeq(s, m, n)
<1>0. Len(s) \in Nat /\ DOMAIN s = 1 .. Len(s) /\ m \in Int /\ n \in Int  OBVIOUS
<1>1. /\ u \in Seq(S) /\ Len(u) = IF m <= n THEN n - m + 1 ELSE 0
      /\ \A i \in 1 .. n - m + 1 : u[i] = s[m + i - 1]
  <2>1. \A i \in m .. n : s[i] \in S  BY <1>0
  <2>2. QED  BY <1>0, <2>1, SubSeqProperties
<1>2. DOMAIN u = 1 .. Len(u)  BY <1>1
<1> HIDE DEF u
<1>3. \A i \in DOMAIN u : m + i - 1 \in m .. n /\ u[i] = s[m + i - 1]
  BY <1>0, <1>1, <1>2
<1>4. ToSet(u) \subseteq {s[i] : i \in m .. n}  BY <1>3 DEF ToSet
<1>5. ASSUME NEW i \in m .. n PROVE s[i] \in ToSet(u)
  <2>1. i - m + 1 \in 1 .. n - m + 1 /\ m + (i - m + 1) - 1 = i /\ m <= n  BY <1>0
  <2>2. i - m + 1 \in DOMAIN u /\ u[i - m + 1] = s[i]  BY <1>1, <1>2, <2>1
  <2>3. QED  BY <2>2 DEF ToSet
<1>6. ASSUME IsInjective(s) PROVE IsInjective(u)
  <2>1. \A i \in DOMAIN u : m + i - 1 \in DOMAIN s  BY <1>0, <1>3
  <2>2. \A i, j \in DOMAIN u : u[i] = u[j] => m + i - 1 = m + j - 1
    BY <1>3, <1>6, <2>1 DEF IsInjective
  <2>3. QED  BY <1>0, <1>2, <2>2 DEF IsInjective
<1>7. QED  BY <1>1, <1>4, <1>5, <1>6 DEF u

(* Turning a queue round *)
LEMMA RotateLemma ==
    ASSUME NEW S, NEW s \in Seq(S), NEW i \in 1 .. Len(s)
    PROVE  /\ Rotated(s, i) \in Seq(S) /\ ToSet(Rotated(s, i)) = ToSet(s)
           /\ Rotated(s, i) # <<>>
           /\ IsInjective(s) => IsInjective(Rotated(s, i))
<1> DEFINE a == SubSeq(s, i, Len(s))
           b == SubSeq(s, 1, i - 1)
<1>0. Len(s) \in Nat /\ DOMAIN s = 1 .. Len(s)  OBVIOUS
<1>1. /\ i \in 1 .. Len(s) + 1 /\ Len(s) \in 0 .. Len(s)
      /\ 1 \in 1 .. Len(s) + 1 /\ i - 1 \in 0 .. Len(s)
  BY <1>0
<1>2. /\ a \in Seq(S) /\ ToSet(a) = {s[j] : j \in i .. Len(s)} /\ Len(a) = Len(s) - i + 1
      /\ IsInjective(s) => IsInjective(a)
  BY <1>0, <1>1, SubSeqLemma
<1>3. /\ b \in Seq(S) /\ ToSet(b) = {s[j] : j \in 1 .. i - 1}
      /\ IsInjective(s) => IsInjective(b)
  BY <1>0, <1>1, SubSeqLemma
<1> HIDE DEF a, b
<1>4. /\ a \o b \in Seq(S) /\ ToSet(a \o b) = ToSet(a) \cup ToSet(b)
      /\ IsInjective(a) /\ IsInjective(b) /\ ToSet(a) \cap ToSet(b) = {} => IsInjective(a \o b)
  BY <1>2, <1>3, ConcatLemma, ZenonT(40)
<1>5. ToSet(a) \cup ToSet(b) = ToSet(s)
  <2>1. PICK n \in Nat : n = Len(s)  BY <1>0
  <2>2. \A j \in 1 .. n : j \in i .. n \/ j \in 1 .. i - 1  BY <2>1
  <2>3. /\ \A j \in i .. n : j \in 1 .. n
        /\ \A j \in 1 .. i - 1 : j \in 1 .. n
    BY <2>1
  <2>4. ToSet(s) = {s[j] : j \in 1 .. n}  BY <1>0, <2>1 DEF ToSet
  <2>5. QED  BY <1>2, <1>3, <2>1, <2>2, <2>3, <2>4
<1>6. IsInjective(s) => ToSet(a) \cap ToSet(b) = {}
  <2>1. \A j \in i .. Len(s), k \in 1 .. i - 1 : j \in DOMAIN s /\ k \in DOMAIN s /\ j # k
    BY <1>0
  <2>2. IsInjective(s) => \A j \in i .. Len(s), k \in 1 .. i - 1 : s[j] # s[k]
    BY <2>1 DEF IsInjective
  <2>3. QED  BY <1>2, <1>3, <2>2
<1>7. a \o b # <<>>
  <2>1. Len(a \o b) = Len(a) + Len(b) /\ Len(b) \in Nat /\ Len(a) > 0  BY <1>0, <1>2, <1>3
  <2>2. QED  BY <1>0, <1>2, <1>3, <2>1
<1>8. QED  BY <1>2, <1>3, <1>4, <1>5, <1>6, <1>7 DEF a, b, Rotated

(* What is taken off the end of a queue *)
LEMMA FrontLastLemma ==
    ASSUME NEW S, NEW s \in Seq(S), s # <<>>
    PROVE  /\ Last(s) \in S /\ Front(s) \in Seq(S) /\ Len(Front(s)) = Len(s) - 1
           /\ ToSet(s) = ToSet(Front(s)) \cup {Last(s)}
<1>0. Len(s) \in Nat /\ DOMAIN s = 1 .. Len(s) /\ Len(s) > 0  OBVIOUS
<1>1. 1 \in 1 .. Len(s) + 1 /\ Len(s) - 1 \in 0 .. Len(s)  BY <1>0
<1>2. /\ Front(s) \in Seq(S) /\ ToSet(Front(s)) = {s[i] : i \in 1 .. Len(s) - 1}
      /\ Len(Front(s)) = IF 1 <= Len(s) - 1 THEN Len(s) - 1 - 1 + 1 ELSE 0
  BY <1>0, <1>1, SubSeqLemma DEF Front
<1>3. Last(s) = s[Len(s)] /\ Last(s) \in S  BY <1>0 DEF Last
<1>4. ToSet(s) = ToSet(Front(s)) \cup {Last(s)}
  <2>1. ToSet(s) = {s[i] : i \in 1 .. Len(s)}  BY <1>0 DEF ToSet
  <2>2. PICK n \in Nat : n = Len(s) /\ n > 0  BY <1>0
  <2>3. \A i \in 1 .. n : i \in 1 .. n - 1 \/ i = n  BY <2>2
  <2>4. n \in 1 .. n /\ \A i \in 1 .. n - 1 : i \in 1 .. n  BY <2>2
  <2>5. QED  BY <1>2, <1>3, <2>1, <2>2, <2>3, <2>4
<1>5. Len(Front(s)) = Len(s) - 1
  <2>1. PICK n \in Nat : n = Len(s) /\ n > 0  BY <1>0
  <2>2. (IF 1 <= n - 1 THEN n - 1 - 1 + 1 ELSE 0) = n - 1  BY <2>1
  <2>3. QED  BY <1>2, <2>1, <2>2
<1>6. QED  BY <1>2, <1>3, <1>4, <1>5

(* A queue without duplicates has as many members as places. *)
LEMMA InjectiveCardinality ==
    ASSUME NEW S, NEW s \in Seq(S), IsInjective(s)
    PROVE  IsFiniteSet(ToSet(s)) /\ Cardinality(ToSet(s)) = Len(s)
<1>0. Len(s) \in Nat /\ DOMAIN s = 1 .. Len(s) /\ Len(s) \in 0 .. Len(s)  OBVIOUS
<1>1. CutAt(S, s, Len(s), {s[i] : i \in 1 .. Len(s)}, SubSeq(s, Len(s) + 1, Len(s)))
  BY <1>0, CutLemma
<1>2. {s[i] : i \in 1 .. Len(s)} = ToSet(s)  BY <1>0 DEF ToSet
<1>3. QED  BY <1>1, <1>2 DEF CutAt

(* A set of numbers has a least one. *)
LEMMA LeastOf ==
    ASSUME NEW T, T \subseteq Nat, T # {}
    PROVE  \E i \in T : \A j \in T : i <= j
<1> DEFINE R == {mn \in Nat \X Nat : mn[1] < mn[2]}
<1>1. \E x \in T : \A y \in T : <<y, x>> \notin R
  <2>1. IsWellFoundedOn(R, Nat)  BY LessWellFounded
  <2> HIDE DEF R
  <2>2. QED  BY <2>1, WFMin
<1>2. PICK x \in T : \A y \in T : <<y, x>> \notin R  BY <1>1
<1>3. \A y \in T : x <= y
  <2>1. ASSUME NEW y \in T PROVE x <= y
    <3>1. x \in Nat /\ y \in Nat /\ <<y, x>> \notin R  BY <1>2
    <3>2. QED  BY <3>1
  <2>2. QED  BY <2>1
<1>4. QED  BY <1>3
=============================================================================
