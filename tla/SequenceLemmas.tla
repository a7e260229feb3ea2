--------------------------- MODULE SequenceLemmas ---------------------------
(***************************************************************************)
(* Numbers and sequences as the other proofs need them.  A proof by        *)
(* induction on k names the set of the k for which its claim holds: the    *)
(* library's induction theorems take the claim as an operator, which the   *)
(* provers cannot instantiate.                                             *)
(***************************************************************************)
EXTENDS SequencesExt, Integers, FiniteSetTheorems, WellFoundedInduction, TLAPS

LEMMA LeastNumber ==
  ASSUME NEW T \in SUBSET Nat, T # {}
  PROVE  \E x \in T : \A y \in T : x <= y
<1>1. PICK x \in T : \A y \in T : <<y, x>> \notin OpToRel(<, Nat)
  BY WFMin, NatLessThanWellFounded
<1>2. \A y \in T : ~(y < x)
  BY <1>1 DEF OpToRel
<1>3. QED
  BY <1>2

\* Induction up to n.
LEMMA UpTo ==
  ASSUME NEW n \in Nat, NEW T, 0 \in T,
         \A k \in 0..(n - 1) : k \in T => k + 1 \in T
  PROVE  0..n \subseteq T
<1>. DEFINE F == (0..n) \ T
<1>1. SUFFICES ASSUME F # {} PROVE FALSE
  OBVIOUS
<1>2. PICK x \in F : \A y \in F : x <= y
  <2>1. F \in SUBSET Nat
    OBVIOUS
  <2>. HIDE DEF F
  <2>2. QED
    BY <1>1, <2>1, LeastNumber
<1>3. x # 0 /\ x - 1 \in 0..(n - 1) /\ x - 1 + 1 = x
  BY <1>2
<1>4. x - 1 \notin F
  BY <1>2, <1>3
<1>5. x - 1 \in T
  BY <1>3, <1>4
<1>6. QED
  BY <1>2, <1>3, <1>5

-----------------------------------------------------------------------------
(* Sequences, without naming the set of their elements *)

IsSeq(s) == s \in Seq(Range(s))

LEMMA SeqFacts ==
  ASSUME NEW s, IsSeq(s)
  PROVE  /\ Len(s) \in Nat /\ DOMAIN s = 1..Len(s)
         /\ Range(s) = {s[k] : k \in 1..Len(s)}
         /\ \A k \in 1..Len(s) : s[k] \in Range(s)
         /\ s = [k \in 1..Len(s) |-> s[k]]
         /\ s # <<>> <=> Len(s) > 0
<1>1. s \in Seq(Range(s))
  BY DEF IsSeq
<1>2. Len(s) \in Nat /\ DOMAIN s = 1..Len(s) /\ (s # <<>> <=> Len(s) > 0)
  BY <1>1
<1>3. s = [k \in 1..Len(s) |-> s[k]]
  BY <1>1, <1>2
<1>4. QED
  BY <1>2, <1>3 DEF Range

LEMMA FunctionIsSeq ==
  ASSUME NEW n \in Nat, NEW s, DOMAIN s = 1..n, s = [k \in 1..n |-> s[k]]
  PROVE  IsSeq(s) /\ Len(s) = n
<1>1. s \in [1..n -> Range(s)]
  BY DEF Range
<1>2. s \in Seq(Range(s))
  BY <1>1
<1>3. QED
  BY <1>1, <1>2 DEF IsSeq

LEMMA SequenceOver ==
  ASSUME NEW T, NEW s \in Seq(T)
  PROVE  IsSeq(s) /\ Range(s) \subseteq T
<1>1. Len(s) \in Nat /\ DOMAIN s = 1..Len(s) /\ s = [k \in 1..Len(s) |-> s[k]]
  OBVIOUS
<1>2. \A k \in 1..Len(s) : s[k] \in T
  OBVIOUS
<1>3. QED
  BY <1>1, <1>2, FunctionIsSeq DEF Range

LEMMA InSeq ==
  ASSUME NEW s, IsSeq(s), NEW T, Range(s) \subseteq T
  PROVE  s \in Seq(T)
<1>1. s \in [1..Len(s) -> T] /\ Len(s) \in Nat
  BY SeqFacts
<1>2. QED
  BY <1>1

LEMMA NoElement == IsSeq(<<>>) /\ Range(<<>>) = {}
BY DEF IsSeq, Range

LEMMA OneElement ==
  ASSUME NEW x
  PROVE  IsSeq(<<x>>) /\ Range(<<x>>) = {x} /\ Len(<<x>>) = 1
<1>1. <<x>> \in Seq({x}) /\ Len(<<x>>) = 1 /\ <<x>>[1] = x
  OBVIOUS
<1>2. IsSeq(<<x>>) /\ Range(<<x>>) \subseteq {x}
  BY <1>1, SequenceOver
<1>3. x \in Range(<<x>>)
  BY <1>1, <1>2, SeqFacts
<1>4. QED
  BY <1>1, <1>2, <1>3

LEMMA Concatenation ==
  ASSUME NEW s, IsSeq(s), NEW t, IsSeq(t)
  PROVE  /\ IsSeq(s \o t) /\ Len(s \o t) = Len(s) + Len(t)
         /\ Range(s \o t) = Range(s) \union Range(t)
         /\ \A k \in 1..Len(s) : (s \o t)[k] = s[k]
         /\ \A k \in 1..Len(t) : (s \o t)[Len(s) + k] = t[k]
         /\ \A k \in 1..Len(s \o t) : k > Len(s) =>
              k - Len(s) \in 1..Len(t) /\ (s \o t)[k] = t[k - Len(s)]
<1>. DEFINE A == Range(s) \union Range(t)
            u == s \o t
            p == Len(s)
            q == Len(t)
<1>1. s \in Seq(A) /\ t \in Seq(A) /\ p \in Nat /\ q \in Nat /\ Len(s) = p /\ Len(t) = q
  BY InSeq, SeqFacts
<1>. HIDE DEF A, p, q
<1>2. u \in Seq(A) /\ Len(u) = p + q
  BY <1>1
<1>3. \A k \in 1..p : u[k] = s[k]
  BY <1>1
<1>4. \A k \in 1..(p + q) : k > p => k - p \in 1..q /\ u[k] = t[k - p]
  <2>1. ASSUME NEW k \in 1..(p + q), k > p PROVE k - p \in 1..q /\ u[k] = t[k - p]
    BY <1>1, <2>1
  <2>2. QED
    BY <2>1
<1>5. \A k \in 1..q : u[p + k] = t[k]
  <2>1. ASSUME NEW k \in 1..q PROVE u[p + k] = t[k]
    <3>1. PICK l \in 1..(p + q) : l > p /\ l = p + k /\ l - p = k
      BY <1>1
    <3>2. QED
      BY <1>4, <3>1
  <2>2. QED
    BY <2>1
<1>6. IsSeq(u)
  BY <1>2, SequenceOver
<1>. HIDE DEF u
<1>7. Range(u) = Range(s) \union Range(t)
  <2>1. Range(u) \subseteq A
    BY <1>2, SequenceOver
  <2>2. ASSUME NEW k \in 1..p PROVE s[k] \in Range(u)
    <3>1. k \in 1..Len(u)
      BY <1>1, <1>2
    <3>2. QED
      BY <1>3, <1>6, <3>1, SeqFacts
  <2>3. ASSUME NEW k \in 1..q PROVE t[k] \in Range(u)
    <3>1. p + k \in 1..Len(u)
      BY <1>1, <1>2
    <3>2. u[p + k] \in Range(u)
      BY <1>6, <3>1, SeqFacts
    <3>3. QED
      BY <1>5, <3>2
  <2>4. Range(s) \subseteq Range(u)
    BY <1>1, <2>2, SeqFacts
  <2>5. Range(t) \subseteq Range(u)
    BY <1>1, <2>3, SeqFacts
  <2>6. QED
    BY <2>1, <2>4, <2>5 DEF A
<1>8. QED
  BY <1>1, <1>2, <1>3, <1>4, <1>5, <1>6, <1>7 DEF u, p, q

LEMMA Appended ==
  ASSUME NEW s, IsSeq(s), NEW x
  PROVE  /\ IsSeq(Append(s, x)) /\ Append(s, x) # <<>>
         /\ Len(Append(s, x)) = Len(s) + 1
         /\ Range(Append(s, x)) = Range(s) \union {x}
         /\ Front(Append(s, x)) = s /\ Last(Append(s, x)) = x
         /\ \A k \in 1..Len(s) : Append(s, x)[k] = s[k]
         /\ Append(s, x)[Len(s) + 1] = x
<1>. DEFINE A == Range(s) \union {x}
            t == Append(s, x)
<1>1. s \in Seq(A) /\ x \in A /\ Len(s) \in Nat
  BY InSeq, SeqFacts
<1>. HIDE DEF A
<1>2. /\ t \in Seq(A) /\ Len(t) = Len(s) + 1 /\ t # <<>>
      /\ \A k \in 1..Len(s) : t[k] = s[k]
      /\ t[Len(s) + 1] = x
  BY <1>1
<1>3. Front(t) = s
  BY <1>1 DEF Front
<1>4. IsSeq(t)
  BY <1>2, SequenceOver
<1>5. Last(t) = x
  BY <1>2 DEF Last
<1>. HIDE DEF t
<1>6. Range(t) = Range(s) \union {x}
  <2>1. Range(t) \subseteq A
    BY <1>2, SequenceOver
  <2>2. 1..Len(s) \subseteq 1..Len(t) /\ Len(s) + 1 \in 1..Len(t)
    BY <1>1, <1>2
  <2>3. Range(s) \subseteq Range(t) /\ x \in Range(t)
    BY <1>2, <1>4, <2>2, SeqFacts
  <2>4. QED
    BY <2>1, <2>3 DEF A
<1>7. QED
  BY <1>2, <1>3, <1>4, <1>5, <1>6 DEF t

\* A sequence that is not empty is its front with its last element.
LEMMA FrontAndLast ==
  ASSUME NEW s, IsSeq(s), s # <<>>
  PROVE  /\ IsSeq(Front(s)) /\ Len(Front(s)) = Len(s) - 1
         /\ s = Append(Front(s), Last(s))
         /\ Last(s) = s[Len(s)] /\ Last(s) \in Range(s)
<1>1. s \in Seq(Range(s)) /\ Len(s) \in Nat \ {0}
  BY SeqFacts DEF IsSeq
<1>2. Front(s) \in Seq(Range(s)) /\ Len(Front(s)) = Len(s) - 1
  <2>. DEFINE A == Range(s)
              n == Len(s) - 1
  <2>1. s \in Seq(A) /\ n \in Nat /\ \A k \in 1..n : k \in 1..Len(s)
    BY <1>1
  <2>2. Front(s) = SubSeq(s, 1, n)
    BY DEF Front
  <2>. HIDE DEF A, n
  <2>3. SubSeq(s, 1, n) \in Seq(A) /\ Len(SubSeq(s, 1, n)) = n
    BY <2>1
  <2>4. QED
    BY <2>2, <2>3 DEF A, n
<1>3. s = Append(Front(s), Last(s))
  BY <1>1 DEF Front, Last
<1>4. Last(s) \in Range(s)
  BY <1>1 DEF Last
<1>5. QED
  BY <1>1, <1>2, <1>3, <1>4, SequenceOver DEF Last

LEMMA HeadAndTail ==
  ASSUME NEW s, IsSeq(s), s # <<>>
  PROVE  /\ IsSeq(Tail(s)) /\ Head(s) \in Range(s)
         /\ Range(s) = {Head(s)} \union Range(Tail(s))
<1>. DEFINE t == Tail(s)
            n == Len(s)
<1>1. s \in Seq(Range(s)) /\ n \in Nat \ {0} /\ Range(s) = {s[k] : k \in 1..n}
  BY SeqFacts DEF IsSeq
<1>2. t \in Seq(Range(s)) /\ Len(t) = n - 1 /\ Head(s) = s[1]
  BY <1>1
<1>3. \A k \in 1..(n - 1) : t[k] = s[k + 1]
  BY <1>1
<1>4. IsSeq(t) /\ Range(t) = {t[k] : k \in 1..(n - 1)}
  BY <1>2, SequenceOver, SeqFacts
<1>. HIDE DEF t, n
<1>5. \A k \in 1..n : k = 1 \/ (k - 1 \in 1..(n - 1) /\ t[k - 1] = s[k])
  BY <1>1, <1>3
<1>6. Range(s) \subseteq {Head(s)} \union Range(t)
  <2>1. ASSUME NEW k \in 1..n PROVE s[k] = Head(s) \/ s[k] \in Range(t)
    <3>1. CASE k = 1
      BY <1>2, <3>1
    <3>2. CASE k # 1
      BY <1>4, <1>5, <3>2
    <3>3. QED
      BY <3>1, <3>2
  <2>2. QED
    BY <1>1, <2>1
<1>7. Head(s) \in Range(s) /\ Range(t) \subseteq Range(s)
  <2>1. 1 \in 1..n /\ \A k \in 1..(n - 1) : k + 1 \in 1..n
    BY <1>1
  <2>2. QED
    BY <1>1, <1>2, <1>3, <1>4, <2>1
<1>8. QED
  BY <1>4, <1>6, <1>7 DEF t

\* The first i elements.
LEMMA Prefix ==
  ASSUME NEW s, IsSeq(s), NEW i \in 1..Len(s)
  PROVE  /\ IsSeq(SubSeq(s, 1, i)) /\ SubSeq(s, 1, i) # <<>>
         /\ Len(SubSeq(s, 1, i)) = i
         /\ \A k \in 1..i : SubSeq(s, 1, i)[k] = s[k]
         /\ Last(SubSeq(s, 1, i)) = s[i]
         /\ Front(SubSeq(s, 1, i)) = SubSeq(s, 1, i - 1)
         /\ i = Len(s) => SubSeq(s, 1, i) = s
<1>. DEFINE t == SubSeq(s, 1, i)
<1>1. s \in Seq(Range(s)) /\ Len(s) \in Nat
  BY SeqFacts DEF IsSeq
<1>2. /\ t \in Seq(Range(s)) /\ Len(t) = i /\ t # <<>>
      /\ \A k \in 1..i : t[k] = s[k]
  BY <1>1
<1>3. Front(t) = SubSeq(s, 1, i - 1)
  BY <1>1 DEF Front
<1>4. i = Len(s) => t = s
  BY <1>1
<1>5. Last(t) = s[i]
  BY <1>2 DEF Last
<1>6. QED
  BY <1>2, <1>3, <1>4, <1>5, SequenceOver

-----------------------------------------------------------------------------
(* Recursive functions: FlattenSeq, and the loops that are written as such *)

\* The recursive function that FlattenSeq is.
LEMMA FlattenSteps ==
  ASSUME NEW ss, IsSeq(ss), ss # <<>>, \A k \in DOMAIN ss : IsSeq(ss[k])
  PROVE  \E f : /\ FlattenSeq(ss) = f[Len(ss)]
                /\ f[1] = ss[1]
                /\ \A k \in 2..Len(ss) : f[k] = f[k - 1] \o ss[k]
<1>. DEFINE n == Len(ss)
            Is(f) == f = [k \in 1..n |-> IF k = 1 THEN ss[k] ELSE f[k - 1] \o ss[k]]
            IsUpTo(f, m) == /\ f = [k \in 1..m |-> f[k]] /\ f[1] = ss[1]
                            /\ \A k \in 2..m : f[k] = f[k - 1] \o ss[k]
            T == {m \in 0..n : m = 0 \/ \E f : IsUpTo(f, m)}
<1>1. n \in Nat \ {0} /\ DOMAIN ss = 1..n
  BY SeqFacts
<1>2. FlattenSeq(ss) = (CHOOSE f : Is(f))[n]
  BY <1>1 DEF FlattenSeq
<1>. HIDE DEF n
<1>3. 0 \in T
  BY <1>1
<1>4. ASSUME NEW m \in 0..(n - 1), m \in T PROVE m + 1 \in T
  <2>1. m + 1 \in 1..n /\ m + 1 \in 0..n /\ m \in Nat
    BY <1>1
  <2>2. CASE m = 0
    <3>. DEFINE g == [k \in 1..1 |-> ss[1]]
    <3>1. IsUpTo(g, 1)
      OBVIOUS
    <3>2. \E f : IsUpTo(f, 1)
      BY <3>1
    <3>. HIDE DEF IsUpTo
    <3>3. QED
      BY <2>1, <2>2, <3>2
  <2>3. CASE m # 0
    <3>1. PICK f : IsUpTo(f, m)
      BY <1>4, <2>3
    <3>. DEFINE g == [k \in 1..(m + 1) |-> IF k = m + 1 THEN f[m] \o ss[m + 1] ELSE f[k]]
    <3>2. g = [k \in 1..(m + 1) |-> g[k]]
      OBVIOUS
    <3>3. g[1] = ss[1]
      BY <2>1, <2>3, <3>1
    <3>4. ASSUME NEW k \in 2..(m + 1) PROVE g[k] = g[k - 1] \o ss[k]
      <4>1. k \in 1..(m + 1) /\ k - 1 \in 1..(m + 1) /\ k - 1 # m + 1
        BY <2>1
      <4>2. g[k - 1] = f[k - 1]
        BY <4>1
      <4>3. CASE k = m + 1
        <5>1. k - 1 = m
          BY <2>1, <4>3
        <5>2. g[k] = f[m] \o ss[k]
          BY <4>1, <4>3
        <5>. HIDE DEF g
        <5>3. QED
          BY <4>2, <5>1, <5>2
      <4>4. CASE k # m + 1
        <5>1. k \in 2..m
          BY <2>1, <4>4
        <5>2. g[k] = f[k]
          BY <4>1, <4>4
        <5>3. f[k] = f[k - 1] \o ss[k]
          BY <3>1, <5>1
        <5>. HIDE DEF g
        <5>4. QED
          BY <4>2, <5>2, <5>3
      <4>5. QED
        BY <4>3, <4>4
    <3>. HIDE DEF g
    <3>5. IsUpTo(g, m + 1)
      BY <3>2, <3>3, <3>4
    <3>6. \E h : IsUpTo(h, m + 1)
      BY <3>5
    <3>. HIDE DEF IsUpTo
    <3>7. QED
      BY <2>1, <3>6
  <2>4. QED
    BY <2>2, <2>3
<1>5. n \in T
  <2>. HIDE DEF T
  <2>1. 0..n \subseteq T
    BY <1>1, <1>3, <1>4, UpTo
  <2>2. QED
    BY <1>1, <2>1
<1>6. PICK f : IsUpTo(f, n)
  BY <1>1, <1>5
<1>7. Is(f)
  <2>1. ASSUME NEW k \in 1..n PROVE f[k] = IF k = 1 THEN ss[k] ELSE f[k - 1] \o ss[k]
    <3>1. k = 1 \/ k \in 2..n
      BY <1>1
    <3>2. QED
      BY <1>6, <3>1
  <2>2. f = [k \in 1..n |-> f[k]]
    BY <1>6
  <2>3. [k \in 1..n |-> f[k]]
          = [k \in 1..n |-> IF k = 1 THEN ss[k] ELSE f[k - 1] \o ss[k]]
    BY <2>1
  <2>4. QED
    BY <2>2, <2>3
<1>8. PICK h : Is(h) /\ FlattenSeq(ss) = h[n]
  <2>. HIDE DEF Is
  <2>1. Is(CHOOSE g : Is(g))
    BY <1>7
  <2>2. QED
    BY <1>2, <2>1
<1>9. h[1] = ss[1] /\ \A k \in 2..n : h[k] = h[k - 1] \o ss[k]
  <2>1. h = [k \in 1..n |-> IF k = 1 THEN ss[k] ELSE h[k - 1] \o ss[k]]
    BY <1>8
  <2>2. 1 \in 1..n /\ \A k \in 2..n : k \in 1..n /\ k # 1
    BY <1>1
  <2>3. \A k \in 1..n : h[k] = IF k = 1 THEN ss[k] ELSE h[k - 1] \o ss[k]
    BY <2>1
  <2>4. QED
    BY <2>2, <2>3
<1>10. QED
  BY <1>8, <1>9 DEF n

\* FlattenSeq has the elements of all sequences.
LEMMA Flattened ==
  ASSUME NEW ss, IsSeq(ss), \A k \in DOMAIN ss : IsSeq(ss[k])
  PROVE  /\ IsSeq(FlattenSeq(ss))
         /\ Range(FlattenSeq(ss)) = UNION {Range(ss[k]) : k \in DOMAIN ss}
<1>. DEFINE n == Len(ss)
<1>1. n \in Nat /\ DOMAIN ss = 1..n /\ (ss # <<>> <=> n > 0)
  BY SeqFacts
<1>2. CASE ss = <<>>
  <2>1. FlattenSeq(ss) = <<>>
    BY <1>2 DEF FlattenSeq
  <2>2. QED
    BY <1>1, <1>2, <2>1, NoElement
<1>3. CASE ss # <<>>
  <2>1. PICK f : /\ FlattenSeq(ss) = f[n]
                 /\ f[1] = ss[1]
                 /\ \A k \in 2..n : f[k] = f[k - 1] \o ss[k]
    BY <1>3, FlattenSteps
  <2>. HIDE DEF n
  <2>. DEFINE T == {m \in 0..n : m = 0 \/
                     (IsSeq(f[m]) /\ Range(f[m]) = UNION {Range(ss[k]) : k \in 1..m})}
  <2>2. 0 \in T
    BY <1>1
  <2>3. ASSUME NEW m \in 0..(n - 1), m \in T PROVE m + 1 \in T
    <3>0. m \in Nat /\ m + 1 \in 1..n /\ IsSeq(ss[m + 1])
      BY <1>1
    <3>1. CASE m = 0
      <4>1. 1..(m + 1) = {1} /\ f[m + 1] = ss[1]
        BY <2>1, <3>1
      <4>2. UNION {Range(ss[k]) : k \in 1..(m + 1)} = Range(ss[1])
        BY <4>1
      <4>3. QED
        BY <3>0, <3>1, <4>1, <4>2
    <3>2. CASE m # 0
      <4>1. /\ IsSeq(f[m]) /\ Range(f[m]) = UNION {Range(ss[k]) : k \in 1..m}
        BY <2>3, <3>2
      <4>2. PICK l \in 2..n : l = m + 1 /\ l - 1 = m
        BY <1>1, <3>0, <3>2
      <4>3. f[m + 1] = f[m] \o ss[m + 1]
        BY <2>1, <4>2
      <4>4. IsSeq(f[m + 1]) /\ Range(f[m + 1]) = Range(f[m]) \union Range(ss[m + 1])
        BY <3>0, <4>1, <4>3, Concatenation
      <4>5. 1..(m + 1) = (1..m) \union {m + 1}
        BY <3>0
      <4>6. UNION {Range(ss[k]) : k \in 1..(m + 1)}
              = (UNION {Range(ss[k]) : k \in 1..m}) \union Range(ss[m + 1])
        BY <4>5
      <4>7. QED
        BY <3>0, <4>1, <4>4, <4>6
    <3>3. QED
      BY <3>1, <3>2
  <2>4. n \in T
    <3>. HIDE DEF T
    <3>1. 0..n \subseteq T
      BY <1>1, <2>2, <2>3, UpTo
    <3>2. QED
      BY <1>1, <3>1
  <2>5. QED
    BY <1>1, <1>3, <2>1, <2>4
<1>4. QED
  BY <1>2, <1>3

-----------------------------------------------------------------------------
(* Sequences without repetitions have as many elements as their range. *)

LEMMA DistinctLength ==
  ASSUME NEW n \in Nat, NEW f, DOMAIN f = 1..n, f = [k \in 1..n |-> f[k]], IsInjective(f)
  PROVE  Cardinality(Range(f)) = n
<1>1. IsFiniteSet(1..n) /\ Cardinality(1..n) = n
  <2>1. n \in Int /\ 1 \in Int /\ (1 > n => n = 0)
    OBVIOUS
  <2>2. IsFiniteSet(1..n) /\ Cardinality(1..n) = IF 1 > n THEN 0 ELSE n - 1 + 1
    BY <2>1, FS_Interval
  <2>3. QED
    BY <2>1, <2>2
<1>2. Range(f) = {f[k] : k \in 1..n}
  BY DEF Range
<1>3. f \in [1..n -> Range(f)]
  BY <1>2
<1>4. f \in Surjection(1..n, Range(f)) /\ f \in Injection(1..n, Range(f))
  BY <1>2, <1>3 DEF Surjection, Injection
<1>5. QED
  BY <1>1, <1>4, FS_Surjection

-----------------------------------------------------------------------------
(* Selecting from a sequence *)

\* e has the n numbers of C in increasing order.
Enumerates(e, n, C) ==
  /\ e = [i \in 1..n |-> e[i]]
  /\ \A i \in 1..n : e[i] \in C
  /\ \A c \in C : \E i \in 1..n : e[i] = c
  /\ \A i, j \in 1..n : i < j => e[i] < e[j]

\* As far as one enumeration goes, another one goes with it.
LEMMA CommonEnumeration ==
  ASSUME NEW C \in SUBSET Nat, NEW n \in Nat, NEW e, Enumerates(e, n, C),
         NEW l \in Nat, NEW f, Enumerates(f, l, C)
  PROVE  n <= l /\ \A i \in 1..n : e[i] = f[i]
<1>. DEFINE T == {k \in 0..n : k <= l /\ \A i \in 1..k : e[i] = f[i]}
<1>1. /\ \A i \in 1..n : e[i] \in C /\ e[i] \in Nat
      /\ \A i \in 1..l : f[i] \in C /\ f[i] \in Nat
      /\ \A i, j \in 1..n : i < j => e[i] < e[j]
      /\ \A i, j \in 1..l : i < j => f[i] < f[j]
  BY DEF Enumerates
<1>2. /\ \A c \in C : \E i \in 1..n : e[i] = c
      /\ \A c \in C : \E i \in 1..l : f[i] = c
  BY DEF Enumerates
<1>3. 0 \in T
  OBVIOUS
<1>4. ASSUME NEW k \in 0..(n - 1), k \in T PROVE k + 1 \in T
  <2>1. k \in Nat /\ k + 1 \in 1..n /\ k + 1 \in 0..n /\ k <= l /\ \A i \in 1..k : e[i] = f[i]
    BY <1>4
  <2>2. PICK x \in 1..l : f[x] = e[k + 1]
    BY <1>1, <1>2, <2>1
  <2>3. x > k
    <3>1. ASSUME x <= k PROVE FALSE
      <4>1. x \in 1..k /\ x \in 1..n /\ x < k + 1
        BY <2>1, <3>1
      <4>2. e[x] < e[k + 1] /\ e[x] = f[x] /\ e[x] \in Nat /\ e[k + 1] \in Nat
        BY <1>1, <2>1, <4>1
      <4>3. QED
        BY <2>2, <4>2
    <3>2. QED
      BY <2>1, <3>1
  <2>4. k + 1 \in 1..l
    BY <2>1, <2>3
  <2>5. PICK y \in 1..n : e[y] = f[k + 1]
    BY <1>1, <1>2, <2>4
  <2>6. y > k
    <3>1. ASSUME y <= k PROVE FALSE
      <4>1. y \in 1..k /\ y \in 1..l /\ y < k + 1
        BY <2>1, <3>1
      <4>2. f[y] < f[k + 1] /\ e[y] = f[y] /\ f[y] \in Nat /\ f[k + 1] \in Nat
        BY <1>1, <2>1, <2>4, <4>1
      <4>3. QED
        BY <2>5, <4>2
    <3>2. QED
      BY <2>1, <3>1
  <2>7. x = k + 1 \/ x > k + 1
    BY <2>1, <2>3
  <2>8. y = k + 1 \/ y > k + 1
    BY <2>1, <2>6
  <2>9. e[k + 1] = f[k + 1]
    <3>1. f[k + 1] <= f[x] /\ f[k + 1] \in Nat
      BY <1>1, <2>4, <2>7
    <3>2. e[k + 1] <= e[y] /\ e[k + 1] \in Nat
      BY <1>1, <2>1, <2>8
    <3>3. QED
      BY <2>2, <2>5, <3>1, <3>2
  <2>10. 1..(k + 1) = (1..k) \union {k + 1}
    BY <2>1
  <2>11. \A i \in 1..(k + 1) : e[i] = f[i]
    BY <2>1, <2>9, <2>10
  <2>12. k + 1 <= l
    BY <2>4
  <2>13. QED
    BY <2>1, <2>11, <2>12
<1>5. n \in T
  <2>. HIDE DEF T
  <2>1. 0..n \subseteq T
    BY <1>3, <1>4, UpTo
  <2>2. QED
    BY <2>1
<1>6. QED
  BY <1>5

\* A set of numbers has one enumeration.
LEMMA OneEnumeration ==
  ASSUME NEW C \in SUBSET Nat, NEW n \in Nat, NEW e, Enumerates(e, n, C),
         NEW l \in Nat, NEW f, Enumerates(f, l, C)
  PROVE  n = l /\ e = f
<1>1. n <= l /\ \A i \in 1..n : e[i] = f[i]
  BY CommonEnumeration
<1>2. l <= n
  BY CommonEnumeration
<1>3. n = l
  BY <1>1, <1>2
<1>4. e = [i \in 1..n |-> e[i]] /\ f = [i \in 1..n |-> f[i]]
  BY <1>3 DEF Enumerates
<1>5. [i \in 1..n |-> e[i]] = [i \in 1..n |-> f[i]]
  BY <1>1
<1>6. QED
  BY <1>3, <1>4, <1>5

LEMMA WholeEnumeration ==
  ASSUME NEW n \in Nat
  PROVE  Enumerates([i \in 1..n |-> i], n, 1..n)
BY DEF Enumerates

\* What FlattenSeq has put together after the first m of the N parts is g[m].
Parts(g, ss, N) ==
  /\ g[0] = <<>> /\ FlattenSeq(ss) = g[N]
  /\ \A m \in 0..(N - 1) : IsSeq(g[m]) => g[m + 1] = g[m] \o ss[m + 1]

LEMMA FlattenParts ==
  ASSUME NEW N \in Nat, NEW ss, DOMAIN ss = 1..N, ss = [k \in 1..N |-> ss[k]],
         \A k \in 1..N : IsSeq(ss[k])
  PROVE  \E g : Parts(g, ss, N)
<1>. USE DEF Parts
<1>1. IsSeq(ss) /\ Len(ss) = N
  BY FunctionIsSeq
<1>2. CASE N = 0
  <2>. DEFINE g == [m \in 0..0 |-> <<>>]
  <2>1. ss = <<>>
    BY <1>1, <1>2, SeqFacts
  <2>2. FlattenSeq(ss) = <<>>
    BY <2>1 DEF FlattenSeq
  <2>3. g[0] = <<>> /\ g[N] = <<>>
    BY <1>2
  <2>. HIDE DEF g
  <2>4. 0..(N - 1) = {}
    BY <1>2
  <2>5. QED
    BY <2>2, <2>3, <2>4
<1>3. CASE N # 0
  <2>1. ss # <<>>
    BY <1>1, <1>3, SeqFacts
  <2>2. PICK f : /\ FlattenSeq(ss) = f[N] /\ f[1] = ss[1]
                 /\ \A k \in 2..N : f[k] = f[k - 1] \o ss[k]
    <3>1. \A k \in DOMAIN ss : IsSeq(ss[k])
      OBVIOUS
    <3>2. PICK f : /\ FlattenSeq(ss) = f[Len(ss)] /\ f[1] = ss[1]
                   /\ \A k \in 2..Len(ss) : f[k] = f[k - 1] \o ss[k]
      <4>1. IsSeq(ss)
        BY <1>1
      <4>2. \E h : /\ FlattenSeq(ss) = h[Len(ss)] /\ h[1] = ss[1]
                   /\ \A k \in 2..Len(ss) : h[k] = h[k - 1] \o ss[k]
        BY <2>1, <3>1, <4>1, FlattenSteps
      <4>3. QED
        BY <4>2
    <3>3. QED
      BY <1>1, <3>2
  <2>. DEFINE g == [m \in 0..N |-> IF m = 0 THEN <<>> ELSE f[m]]
  <2>3. g[0] = <<>> /\ g[N] = f[N] /\ \A m \in 1..N : g[m] = f[m]
    BY <1>3
  <2>. HIDE DEF g
  <2>4. ASSUME NEW m \in 0..(N - 1) PROVE g[m + 1] = g[m] \o ss[m + 1]
    <3>1. m + 1 \in 1..N
      BY <2>4
    <3>2. CASE m = 0
      <4>1. g[m + 1] = ss[1] /\ m + 1 = 1
        BY <2>2, <2>3, <3>1, <3>2
      <4>2. ss[1] \in Seq(Range(ss[1]))
        BY <3>1, <4>1 DEF IsSeq
      <4>3. <<>> \o ss[1] = ss[1]
        BY <4>2
      <4>4. QED
        BY <2>3, <3>2, <4>1, <4>3
    <3>3. CASE m # 0
      <4>1. PICK k \in 2..N : k = m + 1 /\ k - 1 = m
        BY <2>4, <3>3
      <4>2. m \in 1..N
        BY <2>4, <3>3
      <4>3. f[m + 1] = f[m] \o ss[m + 1]
        BY <2>2, <4>1
      <4>4. QED
        BY <2>3, <3>1, <4>2, <4>3
    <3>4. QED
      BY <3>2, <3>3
  <2>5. QED
    BY <2>2, <2>3, <2>4
<1>4. QED
  BY <1>2, <1>3

\* The elements of x that e has the numbers of.
Picked(x, e, n) == [i \in 1..n |-> x[e[i]]]

\* Of x, the elements with the numbers in C, each a sequence by itself.
Selects(ss, N, C, x) ==
  /\ DOMAIN ss = 1..N /\ ss = [k \in 1..N |-> ss[k]]
  /\ \A k \in 1..N : ss[k] = IF k \in C THEN <<x[k]>> ELSE <<>>

\* Flattening the elements that a condition selects gives them in their order.
LEMMA Selected ==
  ASSUME NEW N \in Nat, NEW C \in SUBSET (1..N), NEW x,
         NEW ss, Selects(ss, N, C, x)
  PROVE  \E n, e : /\ n \in Nat
                   /\ Enumerates(e, n, C)
                   /\ FlattenSeq(ss) = Picked(x, e, n)
<1>0. /\ DOMAIN ss = 1..N /\ ss = [k \in 1..N |-> ss[k]]
      /\ \A k \in 1..N : ss[k] = IF k \in C THEN <<x[k]>> ELSE <<>>
  BY DEF Selects
<1>1. \A k \in 1..N : IsSeq(ss[k])
  BY <1>0, NoElement, OneElement
<1>2. PICK g : /\ g[0] = <<>> /\ FlattenSeq(ss) = g[N]
               /\ \A m \in 0..(N - 1) : IsSeq(g[m]) => g[m + 1] = g[m] \o ss[m + 1]
  <2>1. \E f : Parts(f, ss, N)
    BY <1>0, <1>1, FlattenParts
  <2>2. QED
    BY <2>1 DEF Parts
<1>. DEFINE Chosen(m) == {c \in C : c <= m}
            Is(m, n, e) == Enumerates(e, n, Chosen(m)) /\ g[m] = Picked(x, e, n)
            T == {m \in 0..N : \E n, e : n \in Nat /\ Is(m, n, e)}
<1>11. \A c \in C : c \in Nat /\ c > 0 /\ c <= N
  OBVIOUS
<1>3. 0 \in T
  <2>. DEFINE e == [i \in 1..0 |-> i]
  <2>1. Chosen(0) = {}
    <3>1. \A c \in C : ~(c <= 0)
      BY <1>11
    <3>2. QED
      BY <3>1
  <2>2. Enumerates(e, 0, {})
    BY DEF Enumerates
  <2>3. [i \in 1..0 |-> x[e[i]]] = <<>>
    OBVIOUS
  <2>. HIDE DEF e
  <2>4. Is(0, 0, e)
    BY <1>2, <2>1, <2>2, <2>3 DEF Picked
  <2>5. 0 \in Nat /\ 0 \in 0..N
    OBVIOUS
  <2>. HIDE DEF Is
  <2>6. QED
    BY <2>4, <2>5
<1>4. ASSUME NEW m \in 0..(N - 1), m \in T PROVE m + 1 \in T
  <2>1. m \in Nat /\ m + 1 \in 1..N /\ m + 1 \in 0..N
    BY <1>4
  <2>2. PICK n, e : n \in Nat /\ Is(m, n, e)
    BY <1>4
  <2>. DEFINE y == [i \in 1..n |-> x[e[i]]]
  <2>3. n \in Nat /\ IsSeq(y) /\ Len(y) = n
    BY <2>2, FunctionIsSeq
  <2>4. g[m + 1] = y \o ss[m + 1]
    BY <1>2, <2>2, <2>3 DEF Picked
  <2>5. CASE m + 1 \notin C
    <3>1. Chosen(m + 1) = Chosen(m)
      <4>1. ASSUME NEW c \in C PROVE c <= m + 1 <=> c <= m
        <5>1. c \in Nat /\ c # m + 1
          BY <1>11, <2>5
        <5>2. QED
          BY <2>1, <5>1
      <4>2. QED
        BY <4>1
    <3>2. ss[m + 1] = <<>>
      BY <1>0, <2>1, <2>5
    <3>3. y \o <<>> = y
      <4>1. y \in Seq(Range(y))
        BY <2>3 DEF IsSeq
      <4>. HIDE DEF y
      <4>2. QED
        BY <4>1
    <3>4. Is(m + 1, n, e)
      BY <2>2, <2>4, <3>1, <3>2, <3>3 DEF Picked
    <3>. HIDE DEF Is
    <3>5. QED
      BY <2>1, <2>3, <3>4
  <2>6. CASE m + 1 \in C
    <3>. DEFINE f == [i \in 1..(n + 1) |-> IF i = n + 1 THEN m + 1 ELSE e[i]]
                z == [i \in 1..(n + 1) |-> x[f[i]]]
                one == <<x[m + 1]>>
    <3>1. Chosen(m + 1) = Chosen(m) \union {m + 1}
      <4>1. ASSUME NEW c \in C PROVE c <= m + 1 <=> c <= m \/ c = m + 1
        <5>1. c \in Nat
          BY <1>11
        <5>2. QED
          BY <2>1, <5>1
      <4>2. QED
        BY <2>6, <4>1
    <3>2. /\ e = [i \in 1..n |-> e[i]]
          /\ \A i \in 1..n : e[i] \in Chosen(m)
          /\ \A c \in Chosen(m) : \E i \in 1..n : e[i] = c
          /\ \A i, j \in 1..n : i < j => e[i] < e[j]
      BY <2>2 DEF Enumerates
    <3>3. 1..(n + 1) = (1..n) \union {n + 1} /\ n + 1 \notin 1..n /\ n + 1 \in Nat
      BY <2>3
    <3>4. f[n + 1] = m + 1 /\ \A i \in 1..n : f[i] = e[i]
      BY <3>3
    <3>5. f = [i \in 1..(n + 1) |-> f[i]]
      OBVIOUS
    <3>. HIDE DEF f
    <3>6. \A i \in 1..(n + 1) : f[i] \in Chosen(m + 1)
      BY <3>1, <3>2, <3>3, <3>4
    <3>7. \A c \in Chosen(m + 1) : \E i \in 1..(n + 1) : f[i] = c
      BY <3>1, <3>2, <3>3, <3>4
    <3>8. ASSUME NEW i \in 1..(n + 1), NEW j \in 1..(n + 1), i < j PROVE f[i] < f[j]
      <4>1. i \in 1..n
        BY <2>3, <3>8
      <4>2. f[i] = e[i] /\ e[i] <= m /\ e[i] \in Nat
        BY <3>2, <3>4, <4>1
      <4>3. CASE j = n + 1
        BY <2>1, <3>4, <4>2, <4>3
      <4>4. CASE j # n + 1
        BY <3>2, <3>3, <3>4, <3>8, <4>1, <4>4
      <4>5. QED
        BY <4>3, <4>4
    <3>9. Enumerates(f, n + 1, Chosen(m + 1))
      BY <3>5, <3>6, <3>7, <3>8 DEF Enumerates
    <3>10. y \o one = z
      <4>1. IsSeq(one) /\ Len(one) = 1 /\ one[1] = x[m + 1]
        BY OneElement
      <4>2. IsSeq(z) /\ Len(z) = n + 1
        BY <3>3, FunctionIsSeq
      <4>3. /\ IsSeq(y \o one) /\ Len(y \o one) = n + 1
            /\ \A k \in 1..n : (y \o one)[k] = y[k]
            /\ (y \o one)[n + 1] = one[1]
        <5>. HIDE DEF y, one
        <5>1. 1 \in 1..Len(one)
          BY <4>1
        <5>2. IsSeq(y) /\ IsSeq(one)
          BY <2>3, <4>1
        <5>3. /\ IsSeq(y \o one) /\ Len(y \o one) = Len(y) + Len(one)
              /\ \A k \in 1..Len(y) : (y \o one)[k] = y[k]
              /\ \A k \in 1..Len(one) : (y \o one)[Len(y) + k] = one[k]
          BY <5>2, Concatenation
        <5>4. (y \o one)[n + 1] = one[1]
          BY <2>3, <5>1, <5>3
        <5>5. QED
          BY <2>3, <4>1, <5>3, <5>4
      <4>4. \A k \in 1..(n + 1) : (y \o one)[k] = z[k]
        <5>1. \A k \in 1..n : y[k] = z[k]
          BY <3>3, <3>4
        <5>2. z[n + 1] = x[m + 1]
          BY <3>3, <3>4
        <5>. HIDE DEF y, z, one
        <5>3. QED
          BY <3>3, <4>1, <4>3, <5>1, <5>2
      <4>5. z = [k \in 1..(n + 1) |-> z[k]]
        OBVIOUS
      <4>. HIDE DEF y, one, z
      <4>. DEFINE u == y \o one
      <4>6. u = [k \in 1..(n + 1) |-> u[k]]
        <5>1. IsSeq(u) /\ Len(u) = n + 1
          BY <4>3
        <5>. HIDE DEF u
        <5>2. QED
          BY <5>1, SeqFacts
      <4>7. [k \in 1..(n + 1) |-> (y \o one)[k]] = [k \in 1..(n + 1) |-> z[k]]
        BY <4>4
      <4>8. QED
        BY <4>5, <4>6, <4>7
    <3>11. ss[m + 1] = one
      BY <1>0, <2>1, <2>6
    <3>12. Is(m + 1, n + 1, f)
      BY <2>4, <3>9, <3>10, <3>11 DEF Picked
    <3>. HIDE DEF Is
    <3>13. QED
      BY <2>1, <3>3, <3>12
  <2>7. QED
    BY <2>5, <2>6
<1>5. N \in T
  <2>. HIDE DEF T
  <2>1. 0..N \subseteq T
    BY <1>3, <1>4, UpTo
  <2>2. QED
    BY <2>1
<1>6. PICK n, e : n \in Nat /\ Is(N, n, e)
  BY <1>5
<1>7. Chosen(N) = C
  BY <1>11
<1>8. Enumerates(e, n, C)
  BY <1>6, <1>7
<1>9. FlattenSeq(ss) = Picked(x, e, n)
  BY <1>2, <1>6
<1>. HIDE DEF Is, T, Chosen
<1>10. QED
  BY <1>6, <1>8, <1>9

\* The same with an enumeration that is known already.
LEMMA SelectedBy ==
  ASSUME NEW N \in Nat, NEW C \in SUBSET (1..N), NEW x,
         NEW ss, Selects(ss, N, C, x),
         NEW n \in Nat, NEW e, Enumerates(e, n, C)
  PROVE  FlattenSeq(ss) = Picked(x, e, n)
<1>1. PICK l, f : l \in Nat /\ Enumerates(f, l, C) /\ FlattenSeq(ss) = Picked(x, f, l)
  BY Selected
<1>2. C \in SUBSET Nat
  OBVIOUS
<1>3. n = l /\ e = f
  BY <1>1, <1>2, OneEnumeration
<1>4. QED
  BY <1>1, <1>3

-----------------------------------------------------------------------------
(* What comes first in a sequence *)

\* c comes before the first element of D, if there is any.
Leads(s, c, D) == \E j \in DOMAIN s : s[j] = c /\ \A i \in 1..j : s[i] \notin D

LEMMA LeadsAll ==
  ASSUME NEW s, IsSeq(s), NEW D, Range(s) \intersect D = {}, NEW c \in Range(s)
  PROVE  Leads(s, c, D)
<1>1. Len(s) \in Nat /\ DOMAIN s = 1..Len(s) /\ \A k \in 1..Len(s) : s[k] \in Range(s)
  BY SeqFacts
<1>2. PICK j \in 1..Len(s) : s[j] = c
  BY SeqFacts
<1>3. \A i \in 1..j : i \in 1..Len(s)
  BY <1>1
<1>4. QED
  BY <1>1, <1>2, <1>3 DEF Leads

LEMMA LeadsInFront ==
  ASSUME NEW s, IsSeq(s), NEW t, IsSeq(t), NEW D, NEW c, Leads(s, c, D)
  PROVE  Leads(s \o t, c, D)
<1>. DEFINE u == s \o t
<1>1. /\ Len(s) \in Nat /\ Len(t) \in Nat /\ IsSeq(u) /\ Len(u) = Len(s) + Len(t)
      /\ \A k \in 1..Len(s) : u[k] = s[k]
  BY SeqFacts, Concatenation
<1>2. DOMAIN s = 1..Len(s) /\ DOMAIN u = 1..Len(u)
  BY <1>1, SeqFacts
<1>. HIDE DEF u
<1>3. PICK j \in 1..Len(s) : s[j] = c /\ \A i \in 1..j : s[i] \notin D
  BY <1>2 DEF Leads
<1>4. j \in 1..Len(u) /\ \A i \in 1..j : i \in 1..Len(s)
  BY <1>1
<1>5. u[j] = c /\ \A i \in 1..j : u[i] \notin D
  BY <1>1, <1>3, <1>4
<1>6. Leads(u, c, D)
  BY <1>2, <1>4, <1>5 DEF Leads
<1>7. QED
  BY <1>6 DEF u

LEMMA LeadsBehind ==
  ASSUME NEW s, IsSeq(s), NEW t, IsSeq(t), NEW D, Range(s) \intersect D = {},
         NEW c, Leads(t, c, D)
  PROVE  Leads(s \o t, c, D)
<1>. DEFINE u == s \o t
            p == Len(s)
            q == Len(t)
<1>0. p \in Nat /\ q \in Nat
  BY SeqFacts
<1>1. /\ IsSeq(u) /\ Len(u) = p + q
      /\ \A k \in 1..p : u[k] = s[k]
      /\ \A k \in 1..q : u[p + k] = t[k]
      /\ \A k \in 1..Len(u) : k > p => k - p \in 1..q /\ u[k] = t[k - p]
  BY Concatenation
<1>2. DOMAIN t = 1..q /\ DOMAIN u = 1..Len(u) /\ \A k \in 1..p : s[k] \in Range(s)
  BY <1>0, <1>1, SeqFacts
<1>. HIDE DEF u, p, q
<1>3. PICK j \in 1..q : t[j] = c /\ \A i \in 1..j : t[i] \notin D
  BY <1>2 DEF Leads
<1>4. p + j \in 1..Len(u) /\ u[p + j] = c
  BY <1>0, <1>1, <1>3
<1>5. ASSUME NEW i \in 1..(p + j) PROVE u[i] \notin D
  <2>1. CASE i <= p
    <3>1. i \in 1..p
      BY <1>0, <1>1, <2>1
    <3>2. QED
      BY <1>0, <1>1, <1>2, <3>1
  <2>2. CASE i > p
    <3>1. i \in 1..Len(u) /\ i - p \in 1..j
      BY <1>0, <1>1, <2>2
    <3>2. QED
      BY <1>0, <1>1, <1>3, <2>2, <3>1
  <2>3. QED
    BY <1>0, <1>1, <2>1, <2>2
<1>6. Leads(u, c, D)
  BY <1>2, <1>4, <1>5 DEF Leads
<1>7. QED
  BY <1>6 DEF u

LEMMA LeadsFlat ==
  ASSUME NEW N \in Nat, NEW ss, DOMAIN ss = 1..N, ss = [k \in 1..N |-> ss[k]],
         \A k \in 1..N : IsSeq(ss[k]),
         NEW k \in 1..N, NEW D, \A j \in 1..(k - 1) : Range(ss[j]) \intersect D = {},
         NEW c, Leads(ss[k], c, D)
  PROVE  Leads(FlattenSeq(ss), c, D)
<1>1. PICK g : /\ g[0] = <<>> /\ FlattenSeq(ss) = g[N]
               /\ \A m \in 0..(N - 1) : IsSeq(g[m]) => g[m + 1] = g[m] \o ss[m + 1]
  <2>1. \E f : Parts(f, ss, N)
    BY FlattenParts
  <2>2. QED
    BY <2>1 DEF Parts
<1>. DEFINE T == {m \in 0..N : /\ IsSeq(g[m])
                               /\ m < k => Range(g[m]) \intersect D = {}
                               /\ m >= k => Leads(g[m], c, D)}
<1>2. 0 \in T
  BY <1>1, NoElement
<1>3. ASSUME NEW m \in 0..(N - 1), m \in T PROVE m + 1 \in T
  <2>1. m + 1 \in 1..N /\ m + 1 \in 0..N
    OBVIOUS
  <2>2. /\ g[m + 1] = g[m] \o ss[m + 1] /\ IsSeq(g[m]) /\ IsSeq(ss[m + 1])
        /\ m < k => Range(g[m]) \intersect D = {}
        /\ m >= k => Leads(g[m], c, D)
    BY <1>1, <1>3, <2>1
  <2>3. IsSeq(g[m + 1]) /\ Range(g[m + 1]) = Range(g[m]) \union Range(ss[m + 1])
    BY <2>2, Concatenation
  <2>4. m + 1 < k => Range(g[m + 1]) \intersect D = {}
    <3>1. m + 1 < k => m < k /\ m + 1 \in 1..(k - 1)
      BY <2>1
    <3>2. QED
      BY <2>2, <2>3, <3>1
  <2>5. m + 1 >= k => Leads(g[m + 1], c, D)
    <3>1. CASE m >= k
      BY <2>2, <3>1, LeadsInFront
    <3>2. CASE m + 1 = k
      <4>1. m < k
        BY <3>2
      <4>2. QED
        BY <2>2, <3>2, <4>1, LeadsBehind
    <3>3. QED
      BY <3>1, <3>2
  <2>6. QED
    BY <2>1, <2>3, <2>4, <2>5
<1>4. N \in T
  <2>. HIDE DEF T
  <2>1. 0..N \subseteq T
    BY <1>2, <1>3, UpTo
  <2>2. QED
    BY <2>1
<1>5. QED
  BY <1>1, <1>4

=============================================================================
