--------------------------- MODULE RequestPath_proofs ---------------------------
(* What TLAPS proves of RequestPath, for any number of requests and workers,  *)
(* any limit of the pool and any number of updates in a turn.                 *)
EXTENDS RequestPath, TLAPS, FiniteSetTheorems, SequenceTheorems

-------------------------------------------------------------------------------
(* Induction over the natural numbers, with a set in place of a predicate.   *)

\* If something were left out of S, n |-> n + 1 would map what S has below it
\* one to one to all of it but 0.
LEMMA Induction ==
  ASSUME NEW S \in SUBSET Nat, 0 \in S, \A n \in S : n + 1 \in S
  PROVE  S = Nat
  <1>1. SUFFICES ASSUME NEW c \in Nat, c \notin S PROVE FALSE
    OBVIOUS
  <1> DEFINE T == S \cap (0 .. c)
             g == [n \in T |-> n + 1]
  <1>2. IsFiniteSet(0 .. c)
    BY FS_Interval
  <1>3. IsFiniteSet(T) /\ 0 \in T
    BY <1>2, FS_Subset
  <1>4. g \in [T -> T \ {0}]
    BY <1>1
  <1>5. \A x, y \in T : x # y => g[x] # g[y]
    OBVIOUS
  <1>6. /\ Cardinality(T \ {0}) = Cardinality(T) - 1 /\ IsFiniteSet(T \ {0})
        /\ Cardinality(T) \in Nat
    BY <1>3, FS_RemoveElement, FS_CardinalityType
  <1> HIDE DEF T, g
  <1>7. Cardinality(T \ {0}) < Cardinality(T)
    BY <1>6
  <1>8. QED
    BY <1>3, <1>4, <1>5, <1>6, <1>7, FS_PigeonHole

-------------------------------------------------------------------------------
(* Kinds.                                                                    *)

\* What the first n of s leave, from what the first n - 1 leave.
Keep(s, K, f, n) == IF s[n][1] \in K THEN Append(f[n - 1], s[n]) ELSE f[n - 1]

\* f is the recursive function that defines Kinds(s, K).
Keeps(f, s, K, X) ==
  /\ f \in [0 .. Len(s) -> Seq({x \in X : x[1] \in K})]
  /\ f[0] = <<>> /\ \A n \in 1 .. Len(s) : f[n] = Keep(s, K, f, n)

LEMMA KindsIs ==
  ASSUME NEW X, NEW s \in Seq(X), NEW K
  PROVE  \E f : Keeps(f, s, K, X) /\ Kinds(s, K) = f[Len(s)]
  <1> DEFINE Y == {x \in X : x[1] \in K}
             Upto(n, f) == f[0] = <<>> /\ \A i \in 1 .. n : f[i] = Keep(s, K, f, i)
             S == {n \in Nat : n > Len(s) \/ \E f \in [0 .. n -> Seq(Y)] : Upto(n, f)}
  <1>1. Len(s) \in Nat /\ \A i \in 1 .. Len(s) : s[i] \in X
    BY LenProperties
  <1>2. <<>> \in Seq(Y)
    BY EmptySeq
  <1>3. 0 \in S
    <2> DEFINE f == [i \in 0 .. 0 |-> <<>>]
    <2>1. f \in [0 .. 0 -> Seq(Y)] /\ Upto(0, f)
      BY <1>2
    <2>2. QED
      BY <2>1
  <1>4. ASSUME NEW n \in S PROVE n + 1 \in S
    <2>1. CASE n + 1 > Len(s)
      BY <2>1
    <2>2. CASE n + 1 <= Len(s)
      <3>1. PICK f \in [0 .. n -> Seq(Y)] : Upto(n, f)
        BY <1>1, <2>2
      <3> DEFINE v == Keep(s, K, f, n + 1)
                 g == [i \in 0 .. (n + 1) |-> IF i = n + 1 THEN v ELSE f[i]]
      <3>2. s[n + 1] \in X /\ f[n] \in Seq(Y) /\ (n + 1) - 1 = n
        BY <1>1, <2>2
      <3>3. v \in Seq(Y)
        <4>1. s[n + 1][1] \in K => Append(f[n], s[n + 1]) \in Seq(Y)
          BY <3>2, AppendProperties
        <4>2. QED
          BY <3>2, <4>1 DEF Keep
      <3> HIDE DEF v
      <3>4. g \in [0 .. (n + 1) -> Seq(Y)]
        BY <3>3
      <3>5. \A i \in 0 .. n : g[i] = f[i]
        OBVIOUS
      <3>6. g[n + 1] = v /\ v = Keep(s, K, g, n + 1)
        BY <3>2, <3>5 DEF v, Keep
      <3> HIDE DEF g
      <3>7. \A i \in 1 .. (n + 1) : g[i] = Keep(s, K, g, i)
        <4>1. SUFFICES ASSUME NEW i \in 1 .. n PROVE g[i] = Keep(s, K, g, i)
          BY <3>6
        <4>2. g[i] = f[i] /\ g[i - 1] = f[i - 1]
          BY <3>5
        <4>3. QED
          BY <3>1, <4>2 DEF Keep
      <3>8. g[0] = <<>>
        BY <3>1, <3>5
      <3>9. g \in [0 .. (n + 1) -> Seq(Y)] /\ Upto(n + 1, g)
        BY <3>4, <3>7, <3>8
      <3> HIDE DEF Upto, Y
      <3>10. QED
        BY <3>9
    <2>3. QED
      BY <1>1, <2>1, <2>2
  <1>5. Len(s) \in S
    <2> HIDE DEF S
    <2>1. S = Nat
      <3>1. S \in SUBSET Nat
        BY DEF S
      <3>2. QED
        BY <1>3, <1>4, <3>1, Induction
    <2>2. QED
      BY <1>1, <2>1
  <1>6. PICK f \in [0 .. Len(s) -> Seq(Y)] : Upto(Len(s), f)
    BY <1>1, <1>5
  <1> DEFINE P(h) == h = [n \in 0 .. Len(s) |->
                            IF n = 0 THEN <<>>
                            ELSE IF s[n][1] \in K THEN Append(h[n - 1], s[n]) ELSE h[n - 1]]
             k == CHOOSE h : P(h)
  <1>7. P(f)
    <2>1. ASSUME NEW n \in 0 .. Len(s)
          PROVE  f[n] = IF n = 0 THEN <<>>
                        ELSE IF s[n][1] \in K THEN Append(f[n - 1], s[n]) ELSE f[n - 1]
      <3>1. n = 0 \/ n \in 1 .. Len(s)
        BY <1>1
      <3>2. QED
        BY <1>6, <3>1 DEF Keep
    <2>2. QED
      BY <1>6, <2>1
  <1>8. P(k)
    <2> HIDE DEF P
    <2>1. QED
      BY <1>7
  <1>9. Kinds(s, K) = k[Len(s)]
    BY DEF Kinds
  <1> HIDE DEF k
  <1> DEFINE Step(n) == IF s[n][1] \in K THEN Append(k[n - 1], s[n]) ELSE k[n - 1]
  <1>10. k[0] = <<>> /\ \A n \in 1 .. Len(s) : k[n] = Step(n)
    <2>1. \A n \in 0 .. Len(s) : k[n] = IF n = 0 THEN <<>> ELSE Step(n)
      BY <1>8
    <2>2. 0 \in 0 .. Len(s) /\ \A n \in 1 .. Len(s) : n \in 0 .. Len(s) /\ n # 0
      BY <1>1
    <2> HIDE DEF Step
    <2>3. QED
      BY <2>1, <2>2
  <1>11. \A n \in Nat : n <= Len(s) => k[n] = f[n]
    <2> DEFINE E == {n \in Nat : n <= Len(s) => k[n] = f[n]}
    <2>1. 0 \in E
      BY <1>1, <1>6, <1>10
    <2>2. ASSUME NEW n \in E PROVE n + 1 \in E
      <3>1. SUFFICES ASSUME n + 1 <= Len(s) PROVE k[n + 1] = f[n + 1]
        OBVIOUS
      <3>2. k[n] = f[n] /\ n + 1 \in 1 .. Len(s) /\ (n + 1) - 1 = n
        BY <1>1, <3>1
      <3>3. k[n + 1] = IF s[n + 1][1] \in K THEN Append(k[n], s[n + 1]) ELSE k[n]
        BY <1>10, <3>2
      <3>4. f[n + 1] = Keep(s, K, f, n + 1)
        BY <1>6, <3>2
      <3>5. QED
        BY <3>2, <3>3, <3>4 DEF Keep
    <2> HIDE DEF E
    <2>3. E = Nat
      <3>1. E \in SUBSET Nat
        BY DEF E
      <3>2. QED
        BY <2>1, <2>2, <3>1, Induction
    <2>4. QED
      BY <2>3 DEF E
  <1>12. Kinds(s, K) = f[Len(s)]
    BY <1>1, <1>9, <1>11
  <1>13. QED
    BY <1>6, <1>12 DEF Keeps

\* What Kinds leaves is of these kinds.
LEMMA KindsType ==
  ASSUME NEW X, NEW s \in Seq(X), NEW K
  PROVE  /\ Kinds(s, K) \in Seq({x \in X : x[1] \in K})
         /\ Kinds(s, K) \in Seq(X)
  <1> DEFINE Y == {x \in X : x[1] \in K}
  <1>1. PICK f : Keeps(f, s, K, X) /\ Kinds(s, K) = f[Len(s)]
    BY KindsIs
  <1>2. Kinds(s, K) \in Seq(Y)
    BY <1>1, LenProperties DEF Keeps
  <1>3. Seq(Y) \subseteq Seq(X)
    BY SeqMonotonic
  <1>4. QED
    BY <1>2, <1>3

\* Kinds of two lists, one after the other.
LEMMA KindsConcat ==
  ASSUME NEW X, NEW s \in Seq(X), NEW t \in Seq(X), NEW K
  PROVE  Kinds(s \o t, K) = Kinds(s, K) \o Kinds(t, K)
  <1> DEFINE st == s \o t
             Y == {x \in X : x[1] \in K}
  <1>1. /\ st \in Seq(X) /\ Len(st) = Len(s) + Len(t)
        /\ \A i \in 1 .. Len(st) : st[i] = IF i <= Len(s) THEN s[i] ELSE t[i - Len(s)]
    BY ConcatProperties
  <1>2. Len(s) \in Nat /\ Len(t) \in Nat
        /\ (\A i \in 1 .. Len(s) : s[i] \in X) /\ (\A i \in 1 .. Len(t) : t[i] \in X)
    BY LenProperties
  <1> HIDE DEF st
  <1>3. PICK f : Keeps(f, s, K, X) /\ Kinds(s, K) = f[Len(s)]
    BY KindsIs
  <1>4. PICK g : Keeps(g, t, K, X) /\ Kinds(t, K) = g[Len(t)]
    BY KindsIs
  <1>5. PICK h : Keeps(h, st, K, X) /\ Kinds(st, K) = h[Len(st)]
    BY <1>1, KindsIs
  <1>6. \A n \in Nat : n <= Len(s) => h[n] = f[n]
    <2> DEFINE E == {n \in Nat : n <= Len(s) => h[n] = f[n]}
    <2>1. 0 \in E
      BY <1>3, <1>5 DEF Keeps
    <2>2. ASSUME NEW n \in E PROVE n + 1 \in E
      <3>1. SUFFICES ASSUME n + 1 <= Len(s) PROVE h[n + 1] = f[n + 1]
        OBVIOUS
      <3>2. h[n] = f[n] /\ n + 1 \in 1 .. Len(s) /\ n + 1 \in 1 .. Len(st) /\ (n + 1) - 1 = n
        BY <1>1, <1>2, <3>1
      <3>3. st[n + 1] = s[n + 1]
        BY <1>1, <3>1, <3>2
      <3>4. h[n + 1] = Keep(st, K, h, n + 1) /\ f[n + 1] = Keep(s, K, f, n + 1)
        BY <1>3, <1>5, <3>2 DEF Keeps
      <3>5. QED
        BY <3>2, <3>3, <3>4 DEF Keep
    <2> HIDE DEF E
    <2>3. E = Nat
      <3>1. E \in SUBSET Nat
        BY DEF E
      <3>2. QED
        BY <2>1, <2>2, <3>1, Induction
    <2>4. QED
      BY <2>3 DEF E
  <1> DEFINE F == f[Len(s)]
  <1>7. F \in Seq(Y) /\ h[Len(s)] = F
    BY <1>2, <1>3, <1>6 DEF Keeps
  <1> HIDE DEF F
  <1>8. \A n \in Nat : n <= Len(t) => h[Len(s) + n] = F \o g[n]
    <2> DEFINE E == {n \in Nat : n <= Len(t) => h[Len(s) + n] = F \o g[n]}
    <2>1. 0 \in E
      <3>1. g[0] = <<>> /\ Len(s) + 0 = Len(s)
        BY <1>2, <1>4 DEF Keeps
      <3>2. F \o <<>> = F
        BY <1>7, ConcatEmptySeq
      <3>3. QED
        BY <1>7, <3>1, <3>2
    <2>2. ASSUME NEW n \in E PROVE n + 1 \in E
      <3>1. SUFFICES ASSUME n + 1 <= Len(t) PROVE h[Len(s) + (n + 1)] = F \o g[n + 1]
        OBVIOUS
      <3>2. /\ h[Len(s) + n] = F \o g[n]
            /\ n \in 0 .. Len(t) /\ n + 1 \in 1 .. Len(t) /\ Len(s) + (n + 1) \in 1 .. Len(st)
            /\ (n + 1) - 1 = n /\ (Len(s) + (n + 1)) - 1 = Len(s) + n
            /\ (Len(s) + (n + 1)) - Len(s) = n + 1 /\ ~(Len(s) + (n + 1) <= Len(s))
        BY <1>1, <1>2, <3>1
      <3>3. st[Len(s) + (n + 1)] = t[n + 1]
        BY <1>1, <3>2
      <3>4. /\ h[Len(s) + (n + 1)] = Keep(st, K, h, Len(s) + (n + 1))
            /\ g[n + 1] = Keep(t, K, g, n + 1)
        BY <1>4, <1>5, <3>2 DEF Keeps
      <3>5. CASE t[n + 1][1] \in K
        <4>1. g[n] \in Seq(Y) /\ t[n + 1] \in Y
          BY <1>2, <1>4, <3>2, <3>5 DEF Keeps
        <4>2. h[Len(s) + (n + 1)] = Append(F \o g[n], t[n + 1])
          BY <3>2, <3>3, <3>4, <3>5 DEF Keep
        <4>3. g[n + 1] = Append(g[n], t[n + 1])
          BY <3>2, <3>4, <3>5 DEF Keep
        <4> HIDE DEF Y
        <4>4. Append(F \o g[n], t[n + 1]) = F \o Append(g[n], t[n + 1])
          <5> DEFINE one == <<t[n + 1]>>
          <5>1. /\ F \o g[n] \in Seq(Y) /\ one \in Seq(Y)
            BY <1>7, <4>1, ConcatProperties
          <5>2. Append(F \o g[n], t[n + 1]) = (F \o g[n]) \o one
            BY <4>1, <5>1, AppendIsConcat
          <5>3. Append(g[n], t[n + 1]) = g[n] \o one
            BY <4>1, AppendIsConcat
          <5> HIDE DEF one
          <5>4. (F \o g[n]) \o one = F \o (g[n] \o one)
            <6> DEFINE gn == g[n]
            <6>1. F \in Seq(Y) /\ gn \in Seq(Y) /\ one \in Seq(Y)
              BY <1>7, <4>1, <5>1
            <6> HIDE DEF gn
            <6>2. (F \o gn) \o one = F \o (gn \o one)
              BY <6>1, ConcatAssociative
            <6>3. QED
              BY <6>2 DEF gn
          <5>5. QED
            BY <5>2, <5>3, <5>4
        <4>5. QED
          BY <4>2, <4>3, <4>4
      <3>6. CASE t[n + 1][1] \notin K
        BY <3>2, <3>3, <3>4, <3>6 DEF Keep
      <3>7. QED
        BY <3>5, <3>6
    <2> HIDE DEF E
    <2>3. E = Nat
      <3>1. E \in SUBSET Nat
        BY DEF E
      <3>2. QED
        BY <2>1, <2>2, <3>1, Induction
    <2>4. QED
      BY <2>3 DEF E
  <1>9. h[Len(st)] = F \o g[Len(t)]
    BY <1>1, <1>2, <1>8
  <1>10. QED
    BY <1>3, <1>4, <1>5, <1>9 DEF F, st

LEMMA KindsNil ==
  ASSUME NEW K
  PROVE  Kinds(<<>>, K) = <<>>
  <1>1. <<>> \in Seq({}) /\ Len(<<>>) = 0
    BY EmptySeq
  <1>2. PICK f : Keeps(f, <<>>, K, {}) /\ Kinds(<<>>, K) = f[Len(<<>>)]
    BY <1>1, KindsIs
  <1>3. QED
    BY <1>1, <1>2 DEF Keeps

\* Kinds of a single element.
LEMMA KindsOne ==
  ASSUME NEW e, NEW K
  PROVE  /\ e[1] \in K => Kinds(<<e>>, K) = <<e>>
         /\ e[1] \notin K => Kinds(<<e>>, K) = <<>>
  <1>1. <<e>> \in Seq({e}) /\ Len(<<e>>) = 1 /\ <<e>>[1] = e
    OBVIOUS
  <1>2. PICK f : Keeps(f, <<e>>, K, {e}) /\ Kinds(<<e>>, K) = f[Len(<<e>>)]
    BY <1>1, KindsIs
  <1>3. f[0] = <<>> /\ f[1] = Keep(<<e>>, K, f, 1) /\ 1 - 1 = 0
    BY <1>1, <1>2 DEF Keeps
  <1>4. Append(<<>>, e) = <<e>>
    OBVIOUS
  <1>5. QED
    BY <1>1, <1>2, <1>3, <1>4 DEF Keep

\* One more element.
LEMMA KindsAppend ==
  ASSUME NEW X, NEW s \in Seq(X), NEW e \in X, NEW K
  PROVE  /\ e[1] \in K => Kinds(Append(s, e), K) = Append(Kinds(s, K), e)
         /\ e[1] \notin K => Kinds(Append(s, e), K) = Kinds(s, K)
  <1> DEFINE one == <<e>>
  <1>1. Append(s, e) = s \o one /\ one \in Seq(X)
    BY AppendIsConcat
  <1>2. Kinds(Append(s, e), K) = Kinds(s, K) \o Kinds(one, K)
    <2> HIDE DEF one
    <2>1. QED
      BY <1>1, KindsConcat
  <1>3. Kinds(s, K) \in Seq(X)
    BY KindsType
  <1>4. CASE e[1] \in K
    BY <1>2, <1>3, <1>4, KindsOne, AppendIsConcat
  <1>5. CASE e[1] \notin K
    <2>1. Kinds(Append(s, e), K) = Kinds(s, K) \o <<>>
      BY <1>2, <1>5, KindsOne
    <2>2. QED
      BY <1>3, <1>5, <2>1, ConcatEmptySeq
  <1>6. QED
    BY <1>4, <1>5

\* The first element, then the others.
LEMMA KindsHead ==
  ASSUME NEW X, NEW s \in Seq(X), s # <<>>, NEW K
  PROVE  /\ Head(s)[1] \in K => Kinds(s, K) = <<Head(s)>> \o Kinds(Tail(s), K)
         /\ Head(s)[1] \notin K => Kinds(s, K) = Kinds(Tail(s), K)
  <1> DEFINE one == <<Head(s)>>
             others == Tail(s)
  <1>1. Head(s) \in X /\ others \in Seq(X) /\ one \in Seq(X)
    BY HeadTailProperties
  <1>2. s = one \o others
    OBVIOUS
  <1>3. Kinds(s, K) = Kinds(one, K) \o Kinds(others, K)
    <2> HIDE DEF one, others
    <2>1. QED
      BY <1>1, <1>2, KindsConcat
  <1>4. Kinds(Tail(s), K) \in Seq(X)
    BY <1>1, KindsType
  <1>5. QED
    BY <1>3, <1>4, KindsOne, ConcatEmptySeq

\* A list without these kinds, and one with nothing else.
LEMMA KindsNone ==
  ASSUME NEW X, NEW s \in Seq(X), NEW K, \A x \in X : x[1] \notin K
  PROVE  Kinds(s, K) = <<>>
  <1>1. Kinds(s, K) \in Seq({})
    <2>1. {x \in X : x[1] \in K} = {}
      OBVIOUS
    <2>2. QED
      BY <2>1, KindsType
  <1>2. ASSUME Kinds(s, K) # <<>> PROVE FALSE
    BY <1>1, <1>2, HeadTailProperties
  <1>3. QED
    BY <1>2

LEMMA KindsAll ==
  ASSUME NEW X, NEW s \in Seq(X), NEW K, \A x \in X : x[1] \in K
  PROVE  Kinds(s, K) = s
  <1>1. PICK f : Keeps(f, s, K, X) /\ Kinds(s, K) = f[Len(s)]
    BY KindsIs
  <1>2. Len(s) \in Nat /\ \A i \in 1 .. Len(s) : s[i] \in X
    BY LenProperties
  <1> DEFINE E == {n \in Nat : n <= Len(s) => f[n] = SubSeq(s, 1, n)}
  <1>3. 0 \in E
    <2>1. SubSeq(s, 1, 0) = <<>>
      BY SubSeqEmpty
    <2>2. QED
      BY <1>1, <2>1 DEF Keeps
  <1>4. ASSUME NEW n \in E PROVE n + 1 \in E
    <2>1. SUFFICES ASSUME n + 1 <= Len(s) PROVE f[n + 1] = SubSeq(s, 1, n + 1)
      OBVIOUS
    <2>2. f[n] = SubSeq(s, 1, n) /\ n + 1 \in 1 .. Len(s) /\ (n + 1) - 1 = n
      BY <1>2, <2>1
    <2>3. f[n + 1] = Append(f[n], s[n + 1])
      BY <1>1, <1>2, <2>2 DEF Keeps, Keep
    <2>4. SubSeq(s, 1, n + 1) = Append(SubSeq(s, 1, n), s[n + 1])
      BY <1>2, <2>2, SubSeqRecursiveSecond
    <2>5. QED
      BY <2>2, <2>3, <2>4
  <1> HIDE DEF E
  <1>5. E = Nat
    <2>1. E \in SUBSET Nat
      BY DEF E
    <2>2. QED
      BY <1>3, <1>4, <2>1, Induction
  <1>6. f[Len(s)] = SubSeq(s, 1, Len(s))
    BY <1>2, <1>5 DEF E
  <1>7. QED
    BY <1>1, <1>6, SubSeqFull

-------------------------------------------------------------------------------
(* What a step of a turn does.                                               *)

Updates == {"text", "aside"} \X Nat
Dones   == {"done"} \X Nat

\* What the queue gets at the end of a turn.
Ending(how) == IF how \in Failure THEN <<Error, End>> ELSE <<End>>

\* The turn of r goes on to y with the new events and the fate how, its answer to c.
Moved(r, y, how, new, c) ==
  /\ turn' = [turn EXCEPT ![r] = y] /\ fate' = [fate EXCEPT ![r] = how]
  /\ made' = [made EXCEPT ![r] = made[r] \o new]
  /\ queue' = [queue EXCEPT ![r] = (queue[r] \o new) \o (IF y = "over" THEN Ending(how) ELSE <<>>)]
  /\ cons' = [cons EXCEPT ![r] = c] /\ silent' \in SUBSET Request
  /\ UNCHANGED <<style, out, open, closed>>

\* Going on, an update, done, an error, the end after the worker was stopped, and
\* what a cancellation makes of it.
Walks(r, y, how, new) ==
  turn[r] \in {"ready", "lease", "call"} /\ y \in {"lease", "call", "prompt"}
  /\ how = fate[r] /\ new = <<>>
Updated(r, y, how, new) ==
  turn[r] = "prompt" /\ y = "prompt" /\ how = fate[r] /\ \E e \in Updates : new = <<e>>
Finished(r, y, how, new) ==
  turn[r] = "prompt" /\ y \in {"retire", "over"} /\ how = "ok" /\ \E d \in Dones : new = <<d>>
Failed(r, y, how, new) ==
  turn[r] \in {"ready", "lease", "call", "prompt"} /\ y \in {"retire", "over"}
  /\ how \in Failure /\ new = <<>>
Settles(r, y, how, new) ==
  turn[r] = "retire" /\ y = "over" /\ how = fate[r] /\ new = <<>>
Cancelled(r, y, how, new) ==
  new = <<>> /\ \/ turn[r] # "over" /\ y \in {"retire", "over"} /\ how = "cancelled"
                \/ turn[r] = "retire" /\ y = "retire" /\ how = fate[r]

TurnMove(r, y, how, new, c) ==
  /\ Moved(r, y, how, new, c)
  /\ \/ /\ c = cons[r] /\ cons[r] # "closing"
        /\ \/ Walks(r, y, how, new) \/ Updated(r, y, how, new) \/ Finished(r, y, how, new)
           \/ Failed(r, y, how, new) \/ Settles(r, y, how, new)
     \/ /\ cons[r] = "closing" /\ c = "joining" /\ turn[r] # "none"
        /\ Cancelled(r, y, how, new)

\* What it counts: a turn that passes the gate, and an error of one that has, but for an
\* exception that is no ApiError.
Counts(r, y, how) ==
  \/ /\ turn[r] = "ready" /\ y = "over" /\ how = "broken" /\ errors' = errors
     /\ requests' = requests + 1 \/ (style[r] = "whole" /\ requests' = requests)
  \/ /\ turn[r] = "ready" /\ y = "over" /\ how \in {"auth", "cancelled"}
     /\ requests' = requests /\ errors' = errors
  \/ turn[r] = "ready" /\ y = "lease" /\ requests' = requests + 1 /\ errors' = errors
  \/ /\ turn[r] = "ready" /\ y = "over" /\ how \in Category
     /\ requests' = requests + 1 /\ errors' = errors + 1
  \/ /\ turn[r] # "ready" /\ y = "over" /\ how \in Category
     /\ requests' = requests /\ errors' = errors + 1
  \/ /\ turn[r] # "ready" /\ ~(y = "over" /\ how \in Category)
     /\ requests' = requests /\ errors' = errors

\* What it does to the pool: no client's share of it changes but that of r, which has
\* none at the end of its turn.
Shares(r, y) ==
  /\ holders' \in SUBSET Request /\ lost' \in Nat
  /\ lent' \in [Request -> Worker \cup {NoWorker}]
  /\ \A q \in Request : q # r => lent'[q] = lent[q] /\ (q \in holders' <=> q \in holders)
  /\ y = "lease" => lent'[r] = NoWorker
  /\ y = "over" => r \notin holders' /\ lent'[r] = NoWorker

\* A turn that is not under way has no share in the pool.
Leased(r) ==
  /\ turn[r] \in {"none", "ready", "over"} => r \notin holders /\ lent[r] = NoWorker
  /\ turn[r] = "lease" => lent[r] = NoWorker

\* "made" and the queue get the same new events.
LEMMA PutFacts ==
  ASSUME PathTypeOK, NEW r \in Request, NEW new \in Seq(Event), NEW rest \in Seq(Item),
         made' = [made EXCEPT ![r] = made[r] \o new], Put(r, rest)
  PROVE  queue' = [queue EXCEPT ![r] = (queue[r] \o new) \o rest]
  <1> DEFINE m == made[r]
             mm == m \o new
  <1>1. m \in Seq(Event) /\ made'[r] = mm
    BY DEF PathTypeOK
  <1> HIDE DEF m
  <1>2. /\ mm \in Seq(Event) /\ Len(mm) = Len(m) + Len(new)
        /\ Len(m) \in Nat /\ Len(new) \in Nat /\ Len(mm) \in Nat
        /\ \A i \in 1 .. Len(mm) : mm[i] = IF i <= Len(m) THEN m[i] ELSE new[i - Len(m)]
    BY <1>1, ConcatProperties, LenProperties
  <1> HIDE DEF mm
  <1> DEFINE tail == SubSeq(mm, Len(m) + 1, Len(mm))
  <1>3. tail = new
    <2>1. \A i \in (Len(m) + 1) .. Len(mm) : mm[i] \in Event
      BY <1>2, LenProperties
    <2>2. /\ tail \in Seq(Event)
          /\ Len(tail) = IF Len(m) + 1 <= Len(mm) THEN Len(mm) - (Len(m) + 1) + 1 ELSE 0
          /\ \A i \in 1 .. (Len(mm) - (Len(m) + 1) + 1) : tail[i] = mm[(Len(m) + 1) + i - 1]
      BY <1>2, <2>1, SubSeqProperties, Z3
    <2>3. Len(tail) = Len(new)
      BY <1>2, <2>2
    <2>4. ASSUME NEW i \in 1 .. Len(new) PROVE tail[i] = new[i]
      <3>1. /\ i \in 1 .. (Len(mm) - (Len(m) + 1) + 1) /\ (Len(m) + 1) + i - 1 = Len(m) + i
            /\ Len(m) + i \in 1 .. Len(mm) /\ ~(Len(m) + i <= Len(m)) /\ (Len(m) + i) - Len(m) = i
        BY <1>2
      <3>2. QED
        BY <1>2, <2>2, <3>1
    <2> HIDE DEF tail
    <2>5. QED
      BY <2>2, <2>3, <2>4, SeqEqual
  <1>4. QED
    BY <1>1, <1>3 DEF Put, m

\* A step without an event of the worker.
LEMMA Quiet ==
  ASSUME PathTypeOK, NEW r \in Request
  PROVE  /\ <<>> \in Seq(Event) /\ <<>> \in Seq(Item)
         /\ made = [made EXCEPT ![r] = made[r] \o <<>>]
         /\ queue = [queue EXCEPT ![r] = (queue[r] \o <<>>) \o <<>>]
         /\ fate = [fate EXCEPT ![r] = fate[r]] /\ cons = [cons EXCEPT ![r] = cons[r]]
         /\ turn = [turn EXCEPT ![r] = turn[r]]
  <1>1. <<>> \in Seq(Event) /\ <<>> \in Seq(Item)
    BY EmptySeq
  <1>2. made[r] \in Seq(Event) /\ queue[r] \in Seq(Item)
    BY DEF PathTypeOK
  <1>3. made[r] \o <<>> = made[r] /\ (queue[r] \o <<>>) \o <<>> = queue[r]
    BY <1>2, ConcatEmptySeq
  <1>4. QED
    BY <1>1, <1>3 DEF PathTypeOK

LEMMA EndingType == \A how : Ending(how) \in Seq(Item)
  <1>1. Error \in Item /\ End \in Item
    BY DEF End, Error, Item
  <1>2. <<Error, End>> \in Seq(Item) /\ <<End>> \in Seq(Item)
    BY <1>1
  <1>3. QED
    BY <1>2 DEF Ending

LEMMA OverMoved ==
  ASSUME PathTypeOK, NEW r \in Request, NEW new \in Seq(Event), NEW how, NEW c,
         made' = [made EXCEPT ![r] = made[r] \o new], Over(r, how),
         cons' = [cons EXCEPT ![r] = c], silent' \in SUBSET Request,
         UNCHANGED <<style, out, open, closed>>
  PROVE  Moved(r, "over", how, new, c)
  <1>1. Put(r, Ending(how))
    BY DEF Over, Ending
  <1>2. queue' = [queue EXCEPT ![r] = (queue[r] \o new) \o Ending(how)]
    BY <1>1, EndingType, PutFacts
  <1>3. QED
    BY <1>2 DEF Over, Turn, Moved

LEMMA RetireMoved ==
  ASSUME PathTypeOK, NEW r \in Request, NEW new \in Seq(Event), NEW how, NEW c,
         made' = [made EXCEPT ![r] = made[r] \o new], RetireAs(r, how),
         cons' = [cons EXCEPT ![r] = c], silent' \in SUBSET Request,
         UNCHANGED <<style, out, open, closed>>
  PROVE  Moved(r, "retire", how, new, c)
  <1>1. Put(r, <<>>)
    BY DEF RetireAs
  <1>2. queue' = [queue EXCEPT ![r] = (queue[r] \o new) \o <<>>]
    BY <1>1, EmptySeq, PutFacts
  <1>3. QED
    BY <1>2 DEF RetireAs, Turn, Moved

\* The shares of the pool after each of its operations.
LEMMA PoolShares ==
  ASSUME PathTypeOK, NEW r \in Request
  PROVE  /\ Pool!Admit(r) =>
              \A y \in {"lease", "call"} :
                (y = "lease" <=> lent'[r] = NoWorker) => Shares(r, y)
         /\ (\E w \in Worker : Pool!Lend(r, w)) => Shares(r, "call")
         /\ Pool!TakeBack(r) => Shares(r, "retire")
         /\ Pool!Return(r) => Shares(r, "over")
         /\ Pool!Lose(r) => Shares(r, "over")
         /\ UNCHANGED pool /\ r \notin holders /\ lent[r] = NoWorker => Shares(r, "over")
         /\ UNCHANGED pool /\ lent[r] = NoWorker => Shares(r, "lease")
         /\ UNCHANGED pool => Shares(r, "prompt") /\ Shares(r, "retire")
  <1> USE DEF PathTypeOK, Shares
  <1>1. ASSUME Pool!Admit(r), NEW y \in {"lease", "call"}, y = "lease" <=> lent'[r] = NoWorker
        PROVE  Shares(r, y)
    <2>1. holders' = holders \cup {r} /\ lost' = lost /\ y # "over"
      BY <1>1 DEF Pool!Admit
    <2>2. CASE lent' = lent
      BY <1>1, <2>1, <2>2
    <2>3. CASE \E w \in Worker : lent' = [lent EXCEPT ![r] = w]
      BY <1>1, <2>1, <2>3
    <2>4. QED
      BY <1>1, <2>2, <2>3 DEF Pool!Admit
  <1>2. ASSUME NEW w \in Worker, Pool!Lend(r, w) PROVE Shares(r, "call")
    BY <1>2 DEF Pool!Lend
  <1>3. Pool!TakeBack(r) => Shares(r, "retire")
    BY DEF Pool!TakeBack
  <1>4. Pool!Return(r) => Shares(r, "over")
    BY DEF Pool!Return
  <1>5. Pool!Lose(r) => Shares(r, "over")
    BY DEF Pool!Lose
  <1>6. UNCHANGED pool => /\ r \notin holders /\ lent[r] = NoWorker => Shares(r, "over")
                          /\ lent[r] = NoWorker => Shares(r, "lease")
                          /\ Shares(r, "prompt") /\ Shares(r, "retire")
    BY DEF pool
  <1>7. QED
    BY <1>1, <1>2, <1>3, <1>4, <1>5, <1>6

\* An end of the turn that passed the gate.
LEMMA SettledCounts ==
  ASSUME PathTypeOK, NEW r \in Request, NEW how, turn[r] # "ready", Settled(r, how)
  PROVE  Counts(r, "over", how)
  <1>1. errors' = errors + (IF how \in Category THEN 1 ELSE 0) /\ requests' = requests
    BY DEF Settled
  <1>2. CASE how \in Category
    BY <1>1, <1>2 DEF Counts
  <1>3. CASE how \notin Category
    BY <1>1, <1>3 DEF Counts, PathTypeOK
  <1>4. QED
    BY <1>2, <1>3

\* An async with that ends, with the worker stopped first or not.
LEMMA LeaveMoved ==
  ASSUME PathTypeOK, NEW r \in Request, NEW new \in Seq(Event), NEW how, NEW c,
         turn[r] # "ready",
         made' = [made EXCEPT ![r] = made[r] \o new], LeaveAs(r, how),
         cons' = [cons EXCEPT ![r] = c], silent' \in SUBSET Request,
         UNCHANGED <<style, out, open, closed>>
  PROVE  \E y \in {"retire", "over"} :
           Moved(r, y, how, new, c) /\ Counts(r, y, how) /\ Shares(r, y)
  <1>1. CASE RetireAs(r, how)
    <2>1. Moved(r, "retire", how, new, c)
      BY <1>1, RetireMoved
    <2>2. Counts(r, "retire", how) /\ Shares(r, "retire")
      BY <1>1, PoolShares DEF RetireAs, Counts, counters
    <2>3. QED
      BY <2>1, <2>2
  <1>2. CASE Pool!Return(r) /\ Settled(r, how)
    <2>1. Moved(r, "over", how, new, c)
      BY <1>2, OverMoved DEF Settled
    <2>2. Shares(r, "over")
      BY <1>2, PoolShares
    <2>3. Counts(r, "over", how)
      BY <1>2, SettledCounts
    <2>4. QED
      BY <2>1, <2>2, <2>3
  <1>3. QED
    BY <1>1, <1>2 DEF LeaveAs

\* Each step of a turn is one of these moves.
TurnEffect(r) ==
  \E y \in TurnStates, how \in {"none", "ok", "cancelled"} \cup Failure,
     new \in Seq(Event), c \in AnswerStates :
    TurnMove(r, y, how, new, c) /\ Counts(r, y, how) /\ Shares(r, y)

LEMMA StatesAre ==
  /\ {"lease", "call", "prompt", "retire", "over"} \subseteq TurnStates
  /\ "joining" \in AnswerStates
  /\ FromMessage \subseteq Category /\ CallSays \subseteq Category
  /\ {"auth", "overloaded", "timeout", "upstream"} \subseteq Category
  /\ Category \subseteq Failure /\ Failure = Category \cup {"broken"} /\ "broken" \notin Category
  /\ "ok" \notin Failure /\ "cancelled" \notin Failure /\ "none" \notin Failure
  BY PathAssumption DEF TurnStates, AnswerStates, FromMessage, CallSays, Category, Failure

LEMMA BeginEffect ==
  ASSUME PathTypeOK, NEW r \in Request, Leased(r), Begin(r) PROVE TurnEffect(r)
  <1>1. /\ turn[r] = "ready" /\ cons[r] # "closing" /\ made' = made /\ cons' = cons
        /\ UNCHANGED <<style, out, open, closed, silent, pool>>
        /\ cons[r] \in AnswerStates /\ fate[r] \in {"none", "ok", "cancelled"} \cup Failure
    BY DEF Begin, answer, PathTypeOK
  <1>2. r \notin holders /\ lent[r] = NoWorker
    BY <1>1 DEF Leased
  <1>3. silent' \in SUBSET Request
    BY <1>1 DEF PathTypeOK
  <1>4. Shares(r, "over") /\ Shares(r, "lease")
    BY <1>1, <1>2, PoolShares
  <1>5. ASSUME NEW how \in Failure, Over(r, how), Counts(r, "over", how) PROVE TurnEffect(r)
    <2>1. Moved(r, "over", how, <<>>, cons[r])
      BY <1>1, <1>3, <1>5, Quiet, OverMoved
    <2>2. TurnMove(r, "over", how, <<>>, cons[r])
      BY <1>1, <2>1 DEF TurnMove, Failed
    <2>3. QED
      BY <1>1, <1>4, <1>5, <2>2, Quiet, StatesAre DEF TurnEffect
  <1>6. CASE Over(r, "auth") /\ UNCHANGED counters
    <2>1. Counts(r, "over", "auth")
      BY <1>1, <1>6 DEF Counts, counters
    <2>2. QED
      BY <1>5, <1>6, <2>1, StatesAre
  <1>7. CASE /\ requests' = requests + 1
             /\ Over(r, "overloaded") /\ errors' = errors + 1
    <2>1. Counts(r, "over", "overloaded")
      BY <1>1, <1>7, StatesAre DEF Counts
    <2>2. QED
      BY <1>5, <1>7, <2>1, StatesAre
  <1>8. CASE /\ requests' = requests + 1
             /\ Turn(r, "lease") /\ UNCHANGED <<fate, queue, errors>>
    <2>1. Moved(r, "lease", fate[r], <<>>, cons[r])
      BY <1>1, <1>3, <1>8, Quiet DEF Moved, Turn
    <2>2. TurnMove(r, "lease", fate[r], <<>>, cons[r])
      BY <1>1, <2>1 DEF TurnMove, Walks
    <2>3. Counts(r, "lease", fate[r])
      BY <1>1, <1>8 DEF Counts
    <2>4. QED
      BY <1>1, <1>4, <2>2, <2>3, Quiet, StatesAre DEF TurnEffect
  <1>9. CASE Over(r, "broken") /\ style[r] = "whole" /\ UNCHANGED counters
    <2>1. Counts(r, "over", "broken")
      BY <1>1, <1>9 DEF Counts, counters
    <2>2. QED
      BY <1>5, <1>9, <2>1, StatesAre
  <1>10. CASE requests' = requests + 1 /\ Over(r, "broken") /\ UNCHANGED errors
    <2>1. Counts(r, "over", "broken")
      BY <1>1, <1>10 DEF Counts
    <2>2. QED
      BY <1>5, <1>10, <2>1, StatesAre
  <1>11. QED
    BY <1>1, <1>6, <1>7, <1>8, <1>9, <1>10 DEF Begin

\* A permit, a worker, or the calls before the prompt: the turn goes on.
LEMMA WalkEffect ==
  ASSUME PathTypeOK, NEW r \in Request, Leased(r), Admitted(r) \/ Spawned(r) \/ Called(r)
  PROVE  TurnEffect(r)
  <1>1. /\ turn[r] \in {"lease", "call"} /\ cons[r] # "closing" /\ cons' = cons
        /\ UNCHANGED <<made, fate, silent, queue, closed, counters, style, out, open>>
        /\ cons[r] \in AnswerStates /\ fate[r] \in {"none", "ok", "cancelled"} \cup Failure
    BY DEF Admitted, Spawned, Called, In, answer, PathTypeOK
  <1>2. silent' \in SUBSET Request
    BY <1>1 DEF PathTypeOK
  <1>3. ASSUME NEW y \in {"lease", "call", "prompt"}, Turn(r, y), Shares(r, y)
        PROVE  TurnEffect(r)
    <2>1. Moved(r, y, fate[r], <<>>, cons[r])
      BY <1>1, <1>2, <1>3, Quiet DEF Moved, Turn
    <2>2. TurnMove(r, y, fate[r], <<>>, cons[r])
      BY <1>1, <2>1 DEF TurnMove, Walks
    <2>3. Counts(r, y, fate[r])
      BY <1>1, <1>3 DEF Counts, counters
    <2>4. y \in TurnStates
      BY <1>3, StatesAre
    <2>5. QED
      BY <1>1, <1>3, <2>2, <2>3, <2>4, Quiet DEF TurnEffect
  <1>4. CASE Admitted(r)
    <2> DEFINE y == IF lent'[r] = NoWorker THEN "lease" ELSE "call"
    <2>1. Pool!Admit(r) /\ Turn(r, y) /\ y \in {"lease", "call"}
          /\ (y = "lease" <=> lent'[r] = NoWorker)
      BY <1>4 DEF Admitted
    <2> HIDE DEF y
    <2>2. Shares(r, y)
      BY <2>1, PoolShares
    <2>3. QED
      BY <1>3, <2>1, <2>2
  <1>5. CASE Spawned(r)
    BY <1>3, <1>5, PoolShares DEF Spawned
  <1>6. CASE Called(r)
    BY <1>3, <1>6, PoolShares DEF Called
  <1>7. QED
    BY <1>4, <1>5, <1>6

\* No lease, a call that fails, and the errors of the prompt.
LEMMA FailEffect ==
  ASSUME PathTypeOK, NEW r \in Request, Leased(r), NoLease(r) \/ CallFailed(r) \/ ErrorEvent(r)
  PROVE  TurnEffect(r)
  <1>1. /\ turn[r] \in {"lease", "call", "prompt"} /\ cons[r] # "closing" /\ cons' = cons
        /\ UNCHANGED <<made, closed, style, out, open>>
        /\ cons[r] \in AnswerStates
    BY DEF NoLease, CallFailed, ErrorEvent, In, answer, PathTypeOK
  <1>2. silent' \in SUBSET Request
    BY DEF NoLease, CallFailed, ErrorEvent, PathTypeOK
  <1>3. /\ made' = [made EXCEPT ![r] = made[r] \o <<>>] /\ cons' = [cons EXCEPT ![r] = cons[r]]
        /\ turn[r] # "ready" /\ <<>> \in Seq(Event)
    BY <1>1, Quiet
  <1>4. ASSUME NEW y \in {"retire", "over"}, NEW how \in Category,
               Moved(r, y, how, <<>>, cons[r]), Counts(r, y, how), Shares(r, y)
        PROVE  TurnEffect(r)
    <2>1. TurnMove(r, y, how, <<>>, cons[r]) /\ how \in Failure
      BY <1>1, <1>4, StatesAre DEF TurnMove, Failed
    <2>2. y \in TurnStates
      BY StatesAre
    <2>3. QED
      BY <1>1, <1>3, <1>4, <2>1, <2>2 DEF TurnEffect
  <1>5. ASSUME NEW how \in Category, LeaveAs(r, how) PROVE TurnEffect(r)
    <2>1. \E y \in {"retire", "over"} :
            Moved(r, y, how, <<>>, cons[r]) /\ Counts(r, y, how) /\ Shares(r, y)
      BY <1>1, <1>2, <1>3, <1>5, LeaveMoved
    <2>2. QED
      BY <1>4, <2>1
  <1>6. CASE NoLease(r)
    <2>1. turn[r] = "lease" /\ lent[r] = NoWorker
      BY <1>6 DEF NoLease, In, Leased
    <2>2. PICK how \in Category : Settled(r, how)
      BY <1>6, StatesAre DEF NoLease
    <2>3. Shares(r, "over")
      BY <1>6, <2>1, PoolShares DEF NoLease
    <2>4. Moved(r, "over", how, <<>>, cons[r])
      BY <1>1, <1>2, <1>3, <2>2, OverMoved DEF Settled
    <2>5. Counts(r, "over", how)
      BY <1>3, <2>2, SettledCounts
    <2>6. QED
      BY <1>4, <2>3, <2>4, <2>5
  <1>7. CASE CallFailed(r)
    BY <1>5, <1>7, StatesAre DEF CallFailed
  <1>8. CASE ErrorEvent(r)
    <2>1. \E how \in Category : LeaveAs(r, how)
      BY <1>8, StatesAre DEF ErrorEvent, LeaveAs
    <2>2. QED
      BY <1>5, <2>1
  <1>9. QED
    BY <1>6, <1>7, <1>8

\* The worker's next event.
LEMMA SaysFacts ==
  ASSUME PathTypeOK, NEW r \in Request, NEW kind \in {"text", "aside", "done"}, Says(r, kind)
  PROVE  \E e \in {kind} \X Nat :
           <<e>> \in Seq(Event) /\ made' = [made EXCEPT ![r] = made[r] \o <<e>>]
  <1> DEFINE e == <<kind, Len(made[r]) + 1>>
  <1>1. made[r] \in Seq(Event) /\ Len(made[r]) \in Nat
    BY LenProperties DEF PathTypeOK
  <1>2. e \in {kind} \X Nat /\ e \in Event
    BY <1>1 DEF Event
  <1>3. made' = [made EXCEPT ![r] = Append(made[r], e)]
    BY DEF Says
  <1> HIDE DEF e
  <1>4. Append(made[r], e) = made[r] \o <<e>> /\ <<e>> \in Seq(Event)
    <2> DEFINE m == made[r]
    <2>1. m \in Seq(Event)
      BY <1>1
    <2> HIDE DEF m
    <2>2. Append(m, e) = m \o <<e>> /\ <<e>> \in Seq(Event)
      BY <1>2, <2>1, AppendIsConcat
    <2>3. QED
      BY <2>2 DEF m
  <1>5. QED
    BY <1>2, <1>3, <1>4

LEMMA EmitEffect ==
  ASSUME PathTypeOK, NEW r \in Request, Leased(r), Emit(r) PROVE TurnEffect(r)
  <1>1. /\ turn[r] = "prompt" /\ cons[r] # "closing" /\ cons' = cons /\ Put(r, <<>>)
        /\ UNCHANGED <<turn, fate, silent, pool, closed, counters, style, out, open>>
        /\ cons[r] \in AnswerStates /\ fate[r] \in {"none", "ok", "cancelled"} \cup Failure
    BY DEF Emit, In, answer, PathTypeOK
  <1>2. silent' \in SUBSET Request
    BY <1>1 DEF PathTypeOK
  <1>3. PICK kind \in {"text", "aside"} : Says(r, kind)
    BY DEF Emit
  <1>4. PICK e \in {kind} \X Nat :
          <<e>> \in Seq(Event) /\ made' = [made EXCEPT ![r] = made[r] \o <<e>>]
    <2>1. kind \in {"text", "aside", "done"}
      BY <1>3
    <2>2. QED
      BY <1>3, <2>1, SaysFacts
  <1> DEFINE new == <<e>>
  <1>5. e \in Updates /\ new \in Seq(Event) /\ made' = [made EXCEPT ![r] = made[r] \o new]
    BY <1>4 DEF Updates
  <1>6. new = <<e>>
    OBVIOUS
  <1> HIDE DEF new
  <1>7. queue' = [queue EXCEPT ![r] = (queue[r] \o new) \o <<>>]
    BY <1>1, <1>5, Quiet, PutFacts
  <1>8. Moved(r, "prompt", fate[r], new, cons[r])
    BY <1>1, <1>2, <1>5, <1>7, Quiet DEF Moved
  <1>9. TurnMove(r, "prompt", fate[r], new, cons[r])
    BY <1>1, <1>5, <1>6, <1>8 DEF TurnMove, Updated
  <1>10. Counts(r, "prompt", fate[r]) /\ Shares(r, "prompt")
    BY <1>1, PoolShares DEF Counts, counters
  <1>11. QED
    BY <1>1, <1>5, <1>9, <1>10, StatesAre DEF TurnEffect

LEMMA DoneEffect ==
  ASSUME PathTypeOK, NEW r \in Request, Leased(r), Done(r) PROVE TurnEffect(r)
  <1>1. /\ turn[r] = "prompt" /\ cons[r] # "closing" /\ cons' = cons
        /\ UNCHANGED <<silent, closed, style, out, open>>
        /\ cons[r] \in AnswerStates /\ LeaveAs(r, "ok") /\ Says(r, "done")
    BY DEF Done, In, answer, PathTypeOK
  <1>2. silent' \in SUBSET Request
    BY <1>1 DEF PathTypeOK
  <1>3. PICK e \in {"done"} \X Nat :
          <<e>> \in Seq(Event) /\ made' = [made EXCEPT ![r] = made[r] \o <<e>>]
    BY <1>1, SaysFacts
  <1> DEFINE new == <<e>>
  <1>4. e \in Dones /\ new \in Seq(Event) /\ made' = [made EXCEPT ![r] = made[r] \o new]
    BY <1>3 DEF Dones
  <1>5. new = <<e>>
    OBVIOUS
  <1> HIDE DEF new
  <1>6. PICK y \in {"retire", "over"} :
          Moved(r, y, "ok", new, cons[r]) /\ Counts(r, y, "ok") /\ Shares(r, y)
    BY <1>1, <1>2, <1>4, Quiet, LeaveMoved
  <1>7. TurnMove(r, y, "ok", new, cons[r])
    BY <1>1, <1>4, <1>5, <1>6 DEF TurnMove, Finished
  <1>8. y \in TurnStates
    BY StatesAre
  <1>9. QED
    BY <1>1, <1>4, <1>6, <1>7, <1>8 DEF TurnEffect

\* The worker has been stopped.
LEMMA RetiredEffect ==
  ASSUME PathTypeOK, NEW r \in Request, Leased(r), Retired(r) PROVE TurnEffect(r)
  <1>1. /\ turn[r] = "retire" /\ cons[r] # "closing" /\ cons' = cons /\ made' = made
        /\ UNCHANGED <<silent, closed, style, out, open>>
        /\ cons[r] \in AnswerStates /\ fate[r] \in {"none", "ok", "cancelled"} \cup Failure
        /\ Pool!Return(r) /\ Settled(r, fate[r])
    BY DEF Retired, answer, PathTypeOK
  <1>2. silent' \in SUBSET Request
    BY <1>1 DEF PathTypeOK
  <1>3. Moved(r, "over", fate[r], <<>>, cons[r])
    BY <1>1, <1>2, Quiet, OverMoved DEF Settled
  <1>4. TurnMove(r, "over", fate[r], <<>>, cons[r])
    BY <1>1, <1>3 DEF TurnMove, Settles
  <1>5. Counts(r, "over", fate[r]) /\ Shares(r, "over")
    BY <1>1, PoolShares, SettledCounts
  <1>6. QED
    BY <1>1, <1>4, <1>5, Quiet, StatesAre DEF TurnEffect

\* The cancellation reaches the turn.
LEMMA CancelEffect ==
  ASSUME PathTypeOK, NEW r \in Request, Leased(r), CancelTurn(r)
  PROVE  TurnEffect(r)
  <1>1. /\ cons[r] = "closing" /\ turn[r] \notin {"none", "over"} /\ made' = made
        /\ cons' = [cons EXCEPT ![r] = "joining"]
        /\ UNCHANGED <<style, out, open, silent, closed>>
        /\ fate[r] \in {"none", "ok", "cancelled"} \cup Failure
    BY DEF CancelTurn, Answers, PathTypeOK
  <1>2. silent' \in SUBSET Request
    BY <1>1 DEF PathTypeOK
  <1>3. ASSUME NEW y \in {"retire", "over"},
               Moved(r, y, "cancelled", <<>>, "joining"), Counts(r, y, "cancelled"), Shares(r, y)
        PROVE  TurnEffect(r)
    <2>1. TurnMove(r, y, "cancelled", <<>>, "joining")
      BY <1>1, <1>3 DEF TurnMove, Cancelled
    <2>2. y \in TurnStates
      BY StatesAre
    <2>3. QED
      BY <1>3, <2>1, <2>2, Quiet, StatesAre DEF TurnEffect
  <1>4. ASSUME Over(r, "cancelled") PROVE Moved(r, "over", "cancelled", <<>>, "joining")
    BY <1>1, <1>2, <1>4, Quiet, OverMoved
  <1>5. CASE turn[r] = "ready" /\ Over(r, "cancelled") /\ UNCHANGED <<pool, counters>>
    <2>1. Counts(r, "over", "cancelled")
      BY <1>5 DEF Counts, counters
    <2>2. Shares(r, "over")
      BY <1>5, PoolShares DEF Leased
    <2>3. QED
      BY <1>3, <1>4, <1>5, <2>1, <2>2
  <1>6. CASE /\ turn[r] = "lease" /\ Settled(r, "cancelled")
             /\ IF r \in holders THEN Pool!Lose(r) ELSE UNCHANGED pool
    <2>1. Counts(r, "over", "cancelled")
      BY <1>6, SettledCounts
    <2>2. Shares(r, "over")
      BY <1>6, PoolShares DEF Leased
    <2>3. QED
      BY <1>3, <1>4, <1>6, <2>1, <2>2 DEF Settled
  <1>7. CASE turn[r] \in {"call", "prompt"} /\ LeaveAs(r, "cancelled")
    <2>1. /\ made' = [made EXCEPT ![r] = made[r] \o <<>>] /\ turn[r] # "ready"
          /\ <<>> \in Seq(Event) /\ LeaveAs(r, "cancelled")
      BY <1>1, <1>7, Quiet
    <2>2. UNCHANGED <<style, out, open, closed>> /\ cons' = [cons EXCEPT ![r] = "joining"]
      BY <1>1
    <2>3. \E y \in {"retire", "over"} :
            /\ Moved(r, y, "cancelled", <<>>, "joining")
            /\ Counts(r, y, "cancelled") /\ Shares(r, y)
      BY <1>2, <2>1, <2>2, LeaveMoved
    <2>4. QED
      BY <1>3, <2>3
  <1>8. CASE turn[r] = "retire" /\ Pool!Lose(r) /\ Settled(r, "cancelled")
    <2>1. Counts(r, "over", "cancelled") /\ Shares(r, "over")
      BY <1>8, PoolShares, SettledCounts
    <2>2. QED
      BY <1>3, <1>4, <1>8, <2>1 DEF Settled
  <1>9. CASE turn[r] = "retire" /\ UNCHANGED <<turn, fate, queue, pool, counters>>
    <2>1. Moved(r, "retire", fate[r], <<>>, "joining")
      BY <1>1, <1>2, <1>9, Quiet DEF Moved
    <2>2. TurnMove(r, "retire", fate[r], <<>>, "joining")
      BY <1>1, <1>9, <2>1 DEF TurnMove, Cancelled
    <2>3. Counts(r, "retire", fate[r]) /\ Shares(r, "retire")
      BY <1>9, PoolShares DEF Counts, counters
    <2>4. QED
      BY <1>1, <2>2, <2>3, Quiet, StatesAre DEF TurnEffect
  <1>10. QED
    BY <1>1, <1>5, <1>6, <1>7, <1>8, <1>9 DEF CancelTurn

LEMMA TurnStepEffect ==
  ASSUME PathTypeOK, NEW r \in Request, Leased(r), TurnStep(r)
  PROVE  TurnEffect(r)
  BY BeginEffect, WalkEffect, FailEffect, EmitEffect, DoneEffect, RetiredEffect, CancelEffect
     DEF TurnStep

-------------------------------------------------------------------------------
(* Types, and what no step of another request changes.                       *)

\* Nothing of the request q changes.
Same(q) ==
  /\ style'[q] = style[q] /\ cons'[q] = cons[q] /\ out'[q] = out[q] /\ open'[q] = open[q]
  /\ turn'[q] = turn[q] /\ made'[q] = made[q] /\ fate'[q] = fate[q] /\ queue'[q] = queue[q]
  /\ lent'[q] = lent[q] /\ (q \in holders' <=> q \in holders)

LEMMA TurnTypes ==
  ASSUME PathTypeOK, NEW r \in Request, TurnEffect(r)
  PROVE  PathTypeOK' /\ \A q \in Request : q # r => Same(q)
  <1>1. PICK y \in TurnStates, how \in {"none", "ok", "cancelled"} \cup Failure,
             new \in Seq(Event), c \in AnswerStates :
          TurnMove(r, y, how, new, c) /\ Counts(r, y, how) /\ Shares(r, y)
    BY DEF TurnEffect
  <1> DEFINE rest == IF y = "over" THEN Ending(how) ELSE <<>>
             v == (queue[r] \o new) \o rest
             m == made[r] \o new
  <1>2. /\ turn' = [turn EXCEPT ![r] = y] /\ fate' = [fate EXCEPT ![r] = how]
        /\ made' = [made EXCEPT ![r] = m] /\ queue' = [queue EXCEPT ![r] = v]
        /\ cons' = [cons EXCEPT ![r] = c] /\ silent' \in SUBSET Request
        /\ UNCHANGED <<style, out, open, closed>>
    BY <1>1 DEF TurnMove, Moved
  <1>3. v \in Seq(Item) /\ m \in Seq(Event)
    <2>1. rest \in Seq(Item)
      BY EndingType, EmptySeq
    <2>2. new \in Seq(Item)
      BY SeqMonotonic DEF Item
    <2>3. queue[r] \in Seq(Item) /\ made[r] \in Seq(Event)
      BY DEF PathTypeOK
    <2> HIDE DEF rest
    <2>4. queue[r] \o new \in Seq(Item)
      BY <2>2, <2>3, ConcatProperties
    <2>5. QED
      BY <2>1, <2>3, <2>4, ConcatProperties
  <1> HIDE DEF v, m
  <1>4. requests' \in Nat /\ errors' \in Nat
    BY <1>1 DEF Counts, PathTypeOK
  <1>5. /\ holders' \in SUBSET Request /\ lost' \in Nat
        /\ lent' \in [Request -> Worker \cup {NoWorker}]
        /\ \A q \in Request : q # r => lent'[q] = lent[q] /\ (q \in holders' <=> q \in holders)
    BY <1>1 DEF Shares
  <1>6. PathTypeOK'
    BY <1>2, <1>3, <1>4, <1>5 DEF PathTypeOK
  <1>7. ASSUME NEW q \in Request, q # r PROVE Same(q)
    BY <1>2, <1>5, <1>7 DEF Same, PathTypeOK
  <1>8. QED
    BY <1>6, <1>7

\* The steps of an answer leave the turn and the pool alone, and start the turn at most.
AnswerMove(r, c, y, o, b, v) ==
  /\ cons' = [cons EXCEPT ![r] = c] /\ turn' = [turn EXCEPT ![r] = y]
  /\ out' = [out EXCEPT ![r] = o] /\ open' = [open EXCEPT ![r] = b]
  /\ queue' = [queue EXCEPT ![r] = v]
  /\ UNCHANGED <<style, made, fate, silent, pool, closed, counters>>

LEMMA AnswerTypes ==
  ASSUME PathTypeOK, NEW r \in Request, NEW c \in AnswerStates, NEW y \in TurnStates,
         NEW o \in Seq(Frame), NEW b \in BOOLEAN, NEW v \in Seq(Item),
         AnswerMove(r, c, y, o, b, v)
  PROVE  PathTypeOK' /\ \A q \in Request : q # r => Same(q)
  <1>1. PathTypeOK'
    BY DEF AnswerMove, PathTypeOK, pool, counters
  <1>2. ASSUME NEW q \in Request, q # r PROVE Same(q)
    BY <1>2 DEF AnswerMove, Same, PathTypeOK, pool
  <1>3. QED
    BY <1>1, <1>2

\* A variable that keeps its value at r.
LEMMA Kept ==
  ASSUME PathTypeOK, NEW r \in Request
  PROVE  /\ cons = [cons EXCEPT ![r] = cons[r]] /\ turn = [turn EXCEPT ![r] = turn[r]]
         /\ out = [out EXCEPT ![r] = out[r]] /\ open = [open EXCEPT ![r] = open[r]]
         /\ queue = [queue EXCEPT ![r] = queue[r]]
         /\ cons[r] \in AnswerStates /\ turn[r] \in TurnStates /\ out[r] \in Seq(Frame)
         /\ open[r] \in BOOLEAN /\ queue[r] \in Seq(Item) /\ made[r] \in Seq(Event)
         /\ fate[r] \in {"none", "ok", "cancelled"} \cup Failure
         /\ style[r] \in AllStyles
  BY DEF PathTypeOK

Starts == <<<<"head", 0>>>>

\* The request arrives, with a first frame or with its turn.
LEMMA ArriveMove ==
  ASSUME PathTypeOK, NEW r \in Request, Arrive(r)
  PROVE  /\ cons[r] = "off"
         /\ \/ /\ style[r] \in {"openai", "anthropic"}
               /\ AnswerMove(r, "send", turn[r], Starts, open[r], queue[r])
            \/ /\ style[r] \in {"whole", "acp"}
               /\ AnswerMove(r, "next", "ready", out[r], open[r], queue[r])
  <1>1. \A kind \in {"openai", "anthropic"} : Asks(r, kind, TRUE) =>
          /\ cons[r] = "off" /\ style[r] = kind
          /\ AnswerMove(r, "send", turn[r], Starts, open[r], queue[r])
    BY Kept DEF Asks, Answers, AnswerMove, Starts
  <1>2. \A kind \in {"whole", "acp"} : Asks(r, kind, FALSE) =>
          /\ cons[r] = "off" /\ style[r] = kind
          /\ AnswerMove(r, "next", "ready", out[r], open[r], queue[r])
    BY Kept DEF Asks, Answers, Turn, AnswerMove
  <1>3. \/ \E kind \in {"openai", "anthropic"} : Asks(r, kind, TRUE)
        \/ \E kind \in {"whole", "acp"} : Asks(r, kind, FALSE)
    BY DEF Arrive, ChatCompletions, Responses, Messages, AcpChat, AcpChatStream
  <1>4. QED
    BY <1>1, <1>2, <1>3

LEMMA SendDoneMove ==
  ASSUME PathTypeOK, NEW r \in Request, SendDone(r)
  PROVE  /\ cons[r] = "send"
         /\ \E y \in TurnStates :
              /\ AnswerMove(r, "next", y, out[r], open[r], queue[r])
              /\ y = turn[r] \/ (turn[r] = "none" /\ y = "ready")
  <1>1. "ready" \in TurnStates
    BY DEF TurnStates
  <1>2. QED
    BY <1>1, Kept DEF SendDone, Answers, Turn, AnswerMove

LEMMA PingMove ==
  ASSUME PathTypeOK, NEW r \in Request, Ping(r)
  PROVE  /\ cons[r] = "next" /\ style[r] # "whole" /\ queue[r] = <<>>
         /\ AnswerMove(r, "send", turn[r], out[r], open[r], queue[r])
  BY Kept DEF Ping, Answers, AnswerMove, turnVars

LEMMA LeaveMove ==
  ASSUME PathTypeOK, NEW r \in Request, Leave(r)
  PROVE  /\ cons[r] \in {"next", "send"}
         /\ \E c \in {"gone", "closing"} :
              /\ AnswerMove(r, c, turn[r], out[r], open[r], queue[r])
              /\ c = "gone" <=> turn[r] = "none"
  BY Kept DEF Leave, Answers, AnswerMove, turnVars

LEMMA JoinedMove ==
  ASSUME PathTypeOK, NEW r \in Request, Joined(r)
  PROVE  /\ cons[r] \in {"closing", "joining"} /\ turn[r] = "over"
         /\ AnswerMove(r, "gone", turn[r], out[r], open[r], queue[r])
  BY Kept DEF Joined, Answers, AnswerMove, turnVars

LEMMA CollectMove ==
  ASSUME PathTypeOK, NEW r \in Request, Collect(r)
  PROVE  /\ cons[r] = "next" /\ style[r] = "whole" /\ turn[r] = "over"
         /\ \E o \in Seq(Frame) :
              /\ AnswerMove(r, "done", turn[r], o, open[r], <<>>)
              /\ fate[r] = "broken" => o = <<>>
              /\ fate[r] \in Category => o = <<Error>>
              /\ fate[r] \notin Failure => o = Append(Kinds(made[r], {"text", "aside"}), Finish)
  <1> DEFINE o == IF fate[r] = "broken" THEN <<>>
                  ELSE IF fate[r] \in Category THEN <<Error>>
                  ELSE Append(Kinds(made[r], {"text", "aside"}), Finish)
  <1>1. Kinds(made[r], {"text", "aside"}) \in Seq(Frame)
    <2>1. Kinds(made[r], {"text", "aside"}) \in Seq({e \in Event : e[1] \in {"text", "aside"}})
      <3> DEFINE m == made[r]
                 K == {"text", "aside"}
      <3>1. m \in Seq(Event)
        BY Kept
      <3> HIDE DEF m, K
      <3>2. Kinds(m, K) \in Seq({e \in Event : e[1] \in K})
        BY <3>1, KindsType
      <3>3. QED
        BY <3>2 DEF m, K
    <2>2. {e \in Event : e[1] \in {"text", "aside"}} \subseteq Frame
      BY DEF Event, Frame
    <2>3. QED
      BY <2>1, <2>2, SeqMonotonic
  <1>2. Error \in Frame /\ Finish \in Frame
    BY DEF Error, Finish, Frame
  <1>3. o \in Seq(Frame)
    <2>1. <<Error>> \in Seq(Frame) /\ <<>> \in Seq(Frame)
      BY <1>2, EmptySeq
    <2>2. Append(Kinds(made[r], {"text", "aside"}), Finish) \in Seq(Frame)
      BY <1>1, <1>2, AppendProperties
    <2>3. QED
      BY <2>1, <2>2
  <1>4. AnswerMove(r, "done", turn[r], o, open[r], <<>>)
    BY Kept DEF Collect, Answers, AnswerMove, turnVars
  <1>5. QED
    BY <1>3, <1>4, StatesAre DEF Collect

\* What a stream makes of an item of its queue.
Frames(r, item) ==
  IF Raised(r, item) THEN <<>>
  ELSE IF style[r] = "anthropic" THEN Anthropic(item, open[r]) ELSE Plain(item)

LEMMA Unraised ==
  ASSUME NEW r, NEW item, item # Error
  PROVE  Frames(r, item) = IF style[r] = "anthropic" THEN Anthropic(item, open[r]) ELSE Plain(item)
  BY DEF Frames, Raised

LEMMA FramesType ==
  ASSUME PathTypeOK, NEW r \in Request, NEW item \in Item
  PROVE  Frames(r, item) \in Seq(Frame)
  <1> DEFINE start == <<<<"start", 0>>>>
             stop  == <<<<"stop", 0>>>>
             one   == <<item>>
             fin   == <<Finish>>
  <1>1. /\ start \in Seq(Frame) /\ stop \in Seq(Frame) /\ fin \in Seq(Frame)
        /\ <<>> \in Seq(Frame) /\ <<Error, End>> \in Seq(Frame) /\ <<Error>> \in Seq(Frame)
    <2>1. /\ <<"start", 0>> \in Frame /\ <<"stop", 0>> \in Frame /\ Finish \in Frame
          /\ Error \in Frame /\ End \in Frame
      BY DEF Frame, Finish, Error, End
    <2>2. QED
      BY <2>1, EmptySeq
  <1>2. item[1] \notin {"done", "error"} => one \in Seq(Frame)
    <2>1. SUFFICES ASSUME item[1] \notin {"done", "error"} PROVE <<item>> \in Seq(Frame)
      OBVIOUS
    <2>2. item \in Frame
      BY <2>1 DEF Item, Event, Frame
    <2>3. QED
      BY <2>2
  <1> HIDE DEF start, stop, one, fin
  <1>3. Plain(item) \in Seq(Frame)
    BY <1>1, <1>2 DEF Plain, fin, one
  <1>4. Anthropic(item, open[r]) \in Seq(Frame)
    <2>1. CASE item[1] = "text"
      <3>1. Anthropic(item, open[r]) = (IF open[r] THEN <<>> ELSE start) \o one
        BY <2>1 DEF Anthropic, start, one
      <3>2. QED
        BY <1>1, <1>2, <2>1, <3>1, ConcatProperties
    <2>2. CASE item[1] = "done"
      <3>1. Anthropic(item, open[r]) = (IF open[r] THEN stop ELSE <<>>) \o fin
        BY <2>2 DEF Anthropic, stop, fin
      <3>2. QED
        BY <1>1, <3>1, ConcatProperties
    <2>3. CASE item[1] \notin {"text", "done"}
      BY <1>1, <2>3 DEF Anthropic
    <2>4. QED
      BY <2>1, <2>2, <2>3
  <1>5. QED
    BY <1>1, <1>3, <1>4 DEF Frames

LEMMA TakeMove ==
  ASSUME PathTypeOK, NEW r \in Request, Take(r)
  PROVE  /\ cons[r] = "next" /\ style[r] # "whole" /\ queue[r] # <<>>
         /\ Head(queue[r]) \in Item /\ Tail(queue[r]) \in Seq(Item)
         /\ out[r] \o Frames(r, Head(queue[r])) \in Seq(Frame)
         /\ \E c \in {"done", "next", "send"}, b \in BOOLEAN :
              /\ AnswerMove(r, c, turn[r], out[r] \o Frames(r, Head(queue[r])), b, Tail(queue[r]))
              /\ c = "done" <=> Head(queue[r])[1] \in {"error", "end"}
              /\ b <=> open[r] \/ (style[r] = "anthropic" /\ Head(queue[r])[1] = "text")
  <1> DEFINE item   == Head(queue[r])
             frames == Frames(r, item)
             b      == open[r] \/ (style[r] = "anthropic" /\ item[1] = "text")
             c      == IF item[1] \in {"error", "end"} THEN "done"
                       ELSE IF frames = <<>> THEN "next" ELSE "send"
  <1>1. cons[r] = "next" /\ style[r] # "whole" /\ queue[r] # <<>>
    BY DEF Take
  <1>2. item \in Item /\ Tail(queue[r]) \in Seq(Item)
    BY <1>1, Kept, HeadTailProperties
  <1>3. frames \in Seq(Frame)
    BY <1>2, FramesType
  <1>4. out[r] \o frames \in Seq(Frame)
    <2> HIDE DEF frames
    <2>1. QED
      BY <1>3, Kept, ConcatProperties
  <1>5. AnswerMove(r, c, turn[r], out[r] \o frames, b, Tail(queue[r]))
    BY Kept DEF Take, Answers, AnswerMove, turnVars, Frames
  <1>6. (c = "done" <=> item[1] \in {"error", "end"}) /\ c \in {"done", "next", "send"}
    OBVIOUS
  <1>7. b \in BOOLEAN
    BY Kept
  <1>8. QED
    BY <1>1, <1>2, <1>4, <1>5, <1>6, <1>7

-------------------------------------------------------------------------------
(* Where a turn can be.                                                      *)

Early == {"none", "ready", "lease", "call", "prompt"}

\* The worker has said that it is done.
Served(r) == Kinds(made[r], {"done"}) # <<>>

\* The states of the answer and the turn that belong together, and the turn's fate.
Phase(r) ==
  /\ turn[r] = "none" => cons[r] \in {"off", "send", "gone"}
  /\ cons[r] = "off" => turn[r] = "none" /\ out[r] = <<>> /\ ~open[r]
  /\ cons[r] = "gone" => turn[r] \in {"none", "over"}
  /\ cons[r] = "done" => turn[r] = "over" /\ fate[r] \in Failure \cup {"ok"}
  /\ turn[r] \in Early <=> fate[r] = "none"
  /\ fate[r] = "cancelled" => cons[r] \in {"joining", "gone"}
  /\ fate[r] = "ok" => Served(r)
  /\ Served(r) => turn[r] \in {"retire", "over"} /\ fate[r] \in {"ok", "cancelled"}
  /\ Leased(r)

\* What new events do to Kinds of those before.
LEMMA NewKinds ==
  ASSUME PathTypeOK, NEW r \in Request, NEW y, NEW how, NEW new \in Seq(Event), NEW c,
         TurnMove(r, y, how, new, c), NEW K
  PROVE  /\ Kinds(made'[r], K) = Kinds(made[r], K) \o Kinds(new, K)
         /\ made'[r] = made[r] \o new
  <1>1. made'[r] = made[r] \o new
    BY DEF TurnMove, Moved, PathTypeOK
  <1> DEFINE m == made[r]
  <1>2. m \in Seq(Event)
    BY DEF PathTypeOK
  <1> HIDE DEF m
  <1>3. Kinds(m \o new, K) = Kinds(m, K) \o Kinds(new, K)
    BY <1>2, KindsConcat
  <1>4. QED
    BY <1>1, <1>3 DEF m

LEMMA NewServed ==
  ASSUME PathTypeOK, NEW r \in Request, NEW y, NEW how, NEW new \in Seq(Event), NEW c,
         TurnMove(r, y, how, new, c)
  PROVE  Served(r)' <=> Served(r) \/ Finished(r, y, how, new)
  <1> DEFINE D == {"done"}
             k == Kinds(made[r], D)
             n == Kinds(new, D)
  <1>1. Kinds(made'[r], D) = k \o n
    BY NewKinds
  <1>2. k \in Seq(Event) /\ n \in Seq(Event)
    BY KindsType DEF PathTypeOK
  <1>3. CASE Finished(r, y, how, new)
    <2>1. PICK d \in Dones : new = <<d>>
      BY <1>3 DEF Finished
    <2>2. d[1] \in D
      BY DEF Dones
    <2>3. n = <<d>>
      BY <2>1, <2>2, KindsOne
    <2>4. n # <<>>
      BY <2>3
    <2> HIDE DEF k, n
    <2>5. k \o n # <<>>
      BY <1>2, <2>4, ConcatProperties, LenProperties, EmptySeq
    <2>6. QED
      BY <1>1, <1>3, <2>5 DEF Served
  <1>4. CASE ~Finished(r, y, how, new)
    <2>1. n = <<>>
      <3>1. CASE new = <<>>
        BY <3>1, KindsNil
      <3>2. CASE \E e \in Updates : new = <<e>>
        <4>1. PICK e \in Updates : new = <<e>>
          BY <3>2
        <4>2. e[1] \notin D
          BY DEF Updates
        <4>3. QED
          BY <4>1, <4>2, KindsOne
      <3>3. QED
        BY <1>4, <3>1, <3>2 DEF TurnMove, Walks, Updated, Failed, Settles, Cancelled
    <2> HIDE DEF k, n
    <2>2. k \o n = k
      BY <1>2, <2>1, ConcatEmptySeq
    <2>3. QED
      BY <1>1, <1>4, <2>2 DEF Served, k
  <1>5. QED
    BY <1>3, <1>4

\* Nothing that Same covers changes a predicate of q alone.
LEMMA SamePhase == ASSUME NEW q \in Request, Phase(q), Same(q) PROVE Phase(q)'
  BY DEF Phase, Same, Leased, Served

LEMMA TurnPhase ==
  ASSUME PathTypeOK, NEW r \in Request, Phase(r), TurnEffect(r)
  PROVE  Phase(r)'
  <1>1. PICK y \in TurnStates, how \in {"none", "ok", "cancelled"} \cup Failure,
             new \in Seq(Event), c \in AnswerStates :
          TurnMove(r, y, how, new, c) /\ Counts(r, y, how) /\ Shares(r, y)
    BY DEF TurnEffect
  <1>2. /\ turn'[r] = y /\ fate'[r] = how /\ cons'[r] = c /\ out'[r] = out[r]
        /\ open'[r] = open[r]
    BY <1>1 DEF TurnMove, Moved, PathTypeOK
  <1>3. Served(r)' <=> Served(r) \/ Finished(r, y, how, new)
    BY <1>1, NewServed
  <1>4. Leased(r)'
    BY <1>1, <1>2 DEF Leased, Shares, TurnMove, Walks, Updated, Finished, Failed, Settles, Cancelled
  <1>5. fate[r] \in {"none", "ok", "cancelled"} \cup Failure
    BY DEF PathTypeOK
  <1>6. CASE c = cons[r] /\ cons[r] # "closing" /\ Walks(r, y, how, new)
    <2>1. ~Finished(r, y, how, new)
      BY <1>6 DEF Walks, Finished
    <2>2. QED
      BY <1>2, <1>3, <1>4, <1>6, <2>1 DEF Phase, Walks, Early
  <1>7. CASE c = cons[r] /\ cons[r] # "closing" /\ Updated(r, y, how, new)
    <2>1. ~Finished(r, y, how, new)
      BY <1>7 DEF Updated, Finished
    <2>2. QED
      BY <1>2, <1>3, <1>4, <1>7, <2>1 DEF Phase, Updated, Early
  <1>8. CASE c = cons[r] /\ cons[r] # "closing" /\ Finished(r, y, how, new)
    BY <1>2, <1>3, <1>4, <1>8, StatesAre DEF Phase, Finished, Early
  <1>9. CASE c = cons[r] /\ cons[r] # "closing" /\ Failed(r, y, how, new)
    <2>1. ~Finished(r, y, how, new) /\ how \notin {"none", "ok", "cancelled"}
      BY <1>9, StatesAre DEF Failed, Finished
    <2>2. QED
      BY <1>2, <1>3, <1>4, <1>9, <2>1 DEF Phase, Failed, Early
  <1>10. CASE c = cons[r] /\ cons[r] # "closing" /\ Settles(r, y, how, new)
    <2>1. ~Finished(r, y, how, new)
      BY <1>10 DEF Settles, Finished
    <2>2. QED
      BY <1>2, <1>3, <1>4, <1>10, <2>1 DEF Phase, Settles, Early
  <1>11. CASE /\ cons[r] = "closing" /\ c = "joining" /\ turn[r] # "none"
              /\ Cancelled(r, y, how, new)
    <2>1. ~Finished(r, y, how, new)
      BY <1>11 DEF Cancelled, Finished
    <2>2. QED
      BY <1>2, <1>3, <1>4, <1>11, <2>1 DEF Phase, Cancelled, Early
  <1>12. QED
    BY <1>1, <1>6, <1>7, <1>8, <1>9, <1>10, <1>11 DEF TurnMove

\* What a step of an answer keeps of its turn.
LEMMA AnswerKeeps ==
  ASSUME PathTypeOK, NEW r \in Request, NEW c, NEW y, NEW o, NEW b, NEW v,
         AnswerMove(r, c, y, o, b, v)
  PROVE  /\ cons'[r] = c /\ turn'[r] = y /\ out'[r] = o /\ open'[r] = b /\ queue'[r] = v
         /\ style'[r] = style[r] /\ made'[r] = made[r] /\ fate'[r] = fate[r]
         /\ (Served(r)' <=> Served(r))
         /\ lent'[r] = lent[r] /\ (r \in holders' <=> r \in holders)
  BY DEF AnswerMove, PathTypeOK, Served, pool

\* A step of an answer that keeps the turn, and does not end or leave out of order.
LEMMA AnswerPhase ==
  ASSUME PathTypeOK, NEW r \in Request, Phase(r), NEW c, NEW y, NEW o, NEW b, NEW v,
         AnswerMove(r, c, y, o, b, v), c # "off",
         y = turn[r] \/ (turn[r] = "none" /\ y = "ready"),
         y = "none" => c \in {"send", "gone"},
         c = "gone" => y \in {"none", "over"},
         c = "done" => y = "over" /\ cons[r] = "next",
         cons[r] \in {"joining", "gone"} => c = "gone"
  PROVE  Phase(r)'
  <1>1. /\ cons'[r] = c /\ turn'[r] = y /\ out'[r] = o
        /\ fate'[r] = fate[r] /\ (Served(r)' <=> Served(r))
        /\ lent'[r] = lent[r] /\ (r \in holders' <=> r \in holders)
    BY AnswerKeeps
  <1>2. fate[r] \in {"none", "ok", "cancelled"} \cup Failure
    BY DEF PathTypeOK
  <1>3. Leased(r)'
    BY <1>1 DEF Leased, Phase
  <1>4. y \in Early <=> turn[r] \in Early
    BY DEF Early
  <1>5. c = "done" => fate[r] \in Failure \cup {"ok"}
    BY <1>2 DEF Phase, Early
  <1>6. QED
    BY <1>1, <1>3, <1>4, <1>5 DEF Phase

-------------------------------------------------------------------------------
(* The queue and the end of a stream.                                        *)

LEMMA Pair ==
  ASSUME NEW d, NEW e
  PROVE  /\ <<d>> \o <<e>> = <<d, e>>
         /\ (<<d>> \o <<>>) \o <<e>> = <<d, e>>
         /\ (<<>> \o <<d>>) \o <<e>> = <<d, e>>
         /\ (<<>> \o <<d>>) \o <<>> = <<d>> /\ (<<d>> \o <<>>) \o <<>> = <<d>>
         /\ (<<>> \o <<>>) \o <<d, e>> = <<d, e>> /\ <<>> \o <<d>> = <<d>>
         /\ (<<>> \o <<>>) \o <<>> = <<>>
  <1> DEFINE X == {d, e}
             one == <<d>>
             two == <<e>>
             both == <<d, e>>
             nil == <<>>
  <1>1. one \in Seq(X) /\ two \in Seq(X) /\ both \in Seq(X) /\ nil \in Seq(X) /\ e \in X
    BY EmptySeq
  <1>2. Append(one, e) = both
    <2>1. Len(one) = 1 /\ Len(both) = 2 /\ one[1] = d /\ both[1] = d /\ both[2] = e
      OBVIOUS
    <2> HIDE DEF one, both, X
    <2> DEFINE w == Append(one, e)
    <2>2. /\ w \in Seq(X) /\ Len(w) = Len(one) + 1 /\ w[Len(one) + 1] = e
          /\ \A i \in 1 .. Len(one) : w[i] = one[i]
      BY <1>1, AppendProperties
    <2> HIDE DEF w
    <2>3. Len(w) = 2 /\ \A i \in 1 .. 2 : w[i] = both[i]
      BY <2>1, <2>2
    <2>4. w = both
      BY <1>1, <2>1, <2>2, <2>3, SeqEqual
    <2>5. QED
      BY <2>4 DEF w
  <1>3. Append(one, e) = one \o two
    <2> HIDE DEF one
    <2>1. QED
      BY <1>1, AppendIsConcat
  <1> HIDE DEF one, two, both
  <1>4. /\ one \o <<>> = one /\ <<>> \o one = one /\ <<>> \o <<>> = nil /\ nil \o both = both
        /\ both \o <<>> = both
    BY <1>1, ConcatEmptySeq
  <1>5. /\ one \o two = both /\ (one \o <<>>) \o two = both /\ (<<>> \o one) \o two = both
        /\ (<<>> \o one) \o <<>> = one /\ (one \o <<>>) \o <<>> = one
        /\ (<<>> \o <<>>) \o both = both /\ (<<>> \o <<>>) \o <<>> = <<>> /\ <<>> \o one = one
    BY <1>2, <1>3, <1>4
  <1>6. QED
    BY <1>5 DEF one, two, both

\* Lists of items and lists of frames, as formulas.
LEMMA Associates ==
  /\ \A s, t, u \in Seq(Item) : (s \o t) \o u = s \o (t \o u)
  /\ \A s, t, u \in Seq(Frame) : (s \o t) \o u = s \o (t \o u)
  <1>1. \A s, t, u \in Seq(Item) : (s \o t) \o u = s \o (t \o u)
    BY ConcatAssociative
  <1>2. \A s, t, u \in Seq(Frame) : (s \o t) \o u = s \o (t \o u)
    BY ConcatAssociative
  <1>3. QED
    BY <1>1, <1>2

\* The queue of r: updates, then q.
Fed(r, q) == \E us \in Seq(Updates) : queue[r] = us \o q

LEMMA UpdatesAreItems == Updates \subseteq Event /\ Dones \subseteq Event /\ Event \subseteq Item
  BY DEF Updates, Dones, Event, Item

\* A turn's new events and its end go behind what the queue has.
LEMMA FedMore ==
  ASSUME PathTypeOK, NEW r \in Request, NEW q \in Seq(Item), Fed(r, q),
         NEW new \in Seq(Event), NEW rest \in Seq(Item),
         queue'[r] = (queue[r] \o new) \o rest
  PROVE  Fed(r, (q \o new) \o rest)'
  <1>1. PICK us \in Seq(Updates) : queue[r] = us \o q
    BY DEF Fed
  <1>2. us \in Seq(Item) /\ new \in Seq(Item)
    BY UpdatesAreItems, SeqMonotonic
  <1> DEFINE qn == q \o new
  <1>3. (us \o q) \o new = us \o qn
    BY <1>2, Associates, Zenon
  <1>4. qn \in Seq(Item)
    BY <1>2, ConcatProperties
  <1> HIDE DEF qn
  <1>5. (us \o qn) \o rest = us \o (qn \o rest)
    BY <1>2, <1>4, Associates, Zenon
  <1> USE DEF qn
  <1>6. queue'[r] = us \o ((q \o new) \o rest)
    BY <1>1, <1>3, <1>5
  <1>7. QED
    BY <1>6 DEF Fed

\* One more update.
LEMMA FedUpdate ==
  ASSUME PathTypeOK, NEW r \in Request, NEW e \in Updates, Fed(r, <<>>), Fed(r, <<e>>)'
  PROVE  Fed(r, <<>>)'
  <1>1. PICK us \in Seq(Updates) : queue'[r] = us \o <<e>>
    BY DEF Fed
  <1> DEFINE more == us \o <<e>>
  <1>2. more \in Seq(Updates)
    <2> DEFINE one == <<e>>
    <2>1. one \in Seq(Updates)
      OBVIOUS
    <2> HIDE DEF one
    <2>2. us \o one \in Seq(Updates)
      BY <2>1, ConcatProperties
    <2>3. QED
      BY <2>2 DEF one
  <1>3. queue'[r] = more
    BY <1>1
  <1> HIDE DEF more
  <1>4. queue'[r] = more \o <<>>
    BY <1>2, <1>3, ConcatEmptySeq
  <1>5. QED
    BY <1>2, <1>4 DEF Fed

\* The next item: an update, or the first of q.
LEMMA FedHead ==
  ASSUME PathTypeOK, NEW r \in Request, NEW q \in Seq(Item), Fed(r, q), queue[r] # <<>>
  PROVE  \/ /\ Head(queue[r]) \in Updates
            /\ \E us \in Seq(Updates) : Tail(queue[r]) = us \o q
         \/ q # <<>> /\ Head(queue[r]) = Head(q) /\ Tail(queue[r]) = Tail(q)
  <1>1. PICK us \in Seq(Updates) : queue[r] = us \o q
    BY DEF Fed
  <1>2. us \in Seq(Item)
    BY UpdatesAreItems, SeqMonotonic
  <1>3. CASE us = <<>>
    <2>1. queue[r] = q
      BY <1>1, <1>3, ConcatEmptySeq
    <2>2. QED
      BY <2>1
  <1>4. CASE us # <<>>
    <2> DEFINE u  == Head(us)
               us1 == Tail(us)
               one == <<u>>
    <2>1. u \in Updates /\ us1 \in Seq(Updates)
      BY <1>4, HeadTailProperties
    <2>2. us = one \o us1
      BY <1>2, <1>4
    <2>3. one \in Seq(Item) /\ us1 \in Seq(Item) /\ u \in Item
      BY <2>1, UpdatesAreItems, SeqMonotonic
    <2>4. Head(one \o (us1 \o q)) = u /\ Tail(one \o (us1 \o q)) = us1 \o q
      <3> DEFINE t == us1 \o q
                 w == one \o t
      <3> HIDE DEF us1, u
      <3>1. t \in Seq(Item)
        BY <2>3, ConcatProperties
      <3> HIDE DEF t
      <3>2. /\ w \in Seq(Item) /\ Len(w) = Len(one) + Len(t) /\ Len(one) = 1 /\ one[1] = u
            /\ Len(t) \in Nat
            /\ \A i \in 1 .. (Len(one) + Len(t)) : w[i] = IF i <= Len(one) THEN one[i] ELSE t[i - Len(one)]
        BY <2>3, <3>1, ConcatProperties, LenProperties
      <3> HIDE DEF one, w
      <3>3. w # <<>> /\ w[1] = u /\ \A i \in 1 .. Len(t) : w[i + 1] = t[i]
        BY <3>2, EmptySeq
      <3>4. /\ Head(w) = w[1] /\ Tail(w) \in Seq(Item) /\ Len(Tail(w)) = Len(w) - 1
            /\ \A i \in 1 .. Len(Tail(w)) : Tail(w)[i] = w[i + 1]
        BY <3>2, <3>3, HeadTailProperties
      <3>5. Len(Tail(w)) = Len(t)
        BY <3>2, <3>4
      <3>6. Tail(w) = t
        BY <3>1, <3>3, <3>4, <3>5, SeqEqual
      <3>7. QED
        BY <3>3, <3>4, <3>6 DEF w, t
    <2> HIDE DEF u, us1, one
    <2>5. queue[r] = one \o (us1 \o q)
      BY <1>1, <2>2, <2>3, ConcatAssociative
    <2>6. QED
      BY <2>1, <2>4, <2>5
  <1>5. QED
    BY <1>3, <1>4

-------------------------------------------------------------------------------
(* How far a stream is.                                                      *)

Closers == {"finish", "error", "end"}
Body    == {f \in Frame : f[1] \notin Closers}

\* The frames that end the answer, of those sent.
Sent(r) == Kinds(out[r], Closers)

Live(r) == style[r] # "whole" /\ cons[r] \in {"off", "next", "send"}

\* While a stream goes on, its queue and what it has sent of its end are those of the
\* turn and its fate.
Stage(r) ==
  Live(r) =>
    \/ turn[r] \in Early /\ Sent(r) = <<>> /\ Fed(r, <<>>)
    \/ turn[r] = "retire" /\ fate[r] = "ok" /\ Sent(r) = <<>> /\ \E d \in Dones : Fed(r, <<d>>)
    \/ turn[r] = "retire" /\ fate[r] = "ok" /\ Sent(r) = <<Finish>> /\ queue[r] = <<>>
    \/ turn[r] = "retire" /\ fate[r] \in Failure /\ Sent(r) = <<>> /\ Fed(r, <<>>)
    \/ turn[r] = "over" /\ fate[r] = "ok" /\ Sent(r) = <<>> /\ \E d \in Dones : Fed(r, <<d, End>>)
    \/ turn[r] = "over" /\ fate[r] = "ok" /\ Sent(r) = <<Finish>> /\ queue[r] = <<End>>
    \/ turn[r] = "over" /\ fate[r] \in Failure /\ Sent(r) = <<>> /\ Fed(r, <<Error, End>>)

LEMMA SameStage ==
  ASSUME NEW q \in Request, Stage(q), Same(q)
  PROVE  Stage(q)'
  BY DEF Stage, Same, Live, Sent, Fed

LEMMA TurnStage ==
  ASSUME PathTypeOK, NEW r \in Request, Phase(r), Stage(r), TurnEffect(r)
  PROVE  Stage(r)'
  <1>1. PICK y \in TurnStates, how \in {"none", "ok", "cancelled"} \cup Failure,
             new \in Seq(Event), c \in AnswerStates : TurnMove(r, y, how, new, c)
    BY DEF TurnEffect
  <1> DEFINE rest == IF y = "over" THEN Ending(how) ELSE <<>>
  <1>2. /\ turn'[r] = y /\ fate'[r] = how /\ cons'[r] = c /\ style'[r] = style[r]
        /\ out'[r] = out[r] /\ queue'[r] = (queue[r] \o new) \o rest
    BY <1>1 DEF TurnMove, Moved, PathTypeOK
  <1>3. rest \in Seq(Item)
    BY EndingType, EmptySeq
  <1>4. Sent(r)' = Sent(r)
    BY <1>2 DEF Sent
  <1>5. /\ y # "over" => rest = <<>>
        /\ y = "over" /\ how \in Failure => rest = <<Error, End>>
        /\ y = "over" /\ how \notin Failure => rest = <<End>>
    BY DEF Ending
  <1> HIDE DEF rest
  <1>6. SUFFICES ASSUME Live(r)' PROVE Stage(r)'
    BY DEF Stage
  <1>7. c = cons[r] /\ Live(r) /\ cons[r] # "off"
    BY <1>1, <1>2, <1>6 DEF TurnMove, Live, Walks, Updated, Finished, Failed, Settles, Phase
  <1>8. \A q \in Seq(Item) : Fed(r, q) => Fed(r, (q \o new) \o rest)'
    BY <1>2, <1>3, FedMore
  <1>9. <<>> \in Seq(Item) /\ \A d \in Dones : <<d>> \in Seq(Item)
    BY EmptySeq, UpdatesAreItems
  <1>10. turn[r] \in Early => Sent(r) = <<>> /\ Fed(r, <<>>)
    BY <1>7 DEF Stage, Early
  <1>11. CASE Walks(r, y, how, new)
    <2>1. Fed(r, (<<>> \o new) \o rest)'
      BY <1>8, <1>9, <1>10, <1>11 DEF Walks, Early
    <2>2. (<<>> \o new) \o rest = <<>>
      BY <1>5, <1>11, Pair DEF Walks
    <2>3. Fed(r, <<>>)' /\ y \in Early /\ turn[r] \in Early
      BY <1>11, <2>1, <2>2 DEF Walks, Early
    <2>4. QED
      BY <1>2, <1>4, <1>10, <2>3 DEF Stage
  <1>12. CASE Updated(r, y, how, new)
    <2>1. PICK e \in Updates : new = <<e>>
      BY <1>12 DEF Updated
    <2>2. Fed(r, (<<>> \o new) \o rest)' /\ Fed(r, <<>>)
      BY <1>8, <1>9, <1>10, <1>12 DEF Updated, Early
    <2>3. (<<>> \o new) \o rest = <<e>>
      BY <1>5, <1>12, <2>1, Pair DEF Updated
    <2>4. Fed(r, <<>>)'
      BY <2>2, <2>3, FedUpdate
    <2>5. QED
      BY <1>2, <1>4, <1>10, <1>12, <2>4 DEF Stage, Updated, Early
  <1>13. CASE Finished(r, y, how, new)
    <2>1. PICK d \in Dones : new = <<d>>
      BY <1>13 DEF Finished
    <2>2. Fed(r, (<<>> \o new) \o rest)' /\ Sent(r)' = <<>>
      BY <1>4, <1>8, <1>9, <1>10, <1>13 DEF Finished, Early
    <2>3. CASE y = "retire"
      <3>1. (<<>> \o new) \o rest = <<d>>
        BY <1>5, <2>1, <2>3, Pair
      <3>2. QED
        BY <1>2, <1>13, <2>2, <2>3, <3>1 DEF Stage, Finished
    <2>4. CASE y = "over"
      <3>1. (<<>> \o new) \o rest = <<d, End>>
        BY <1>5, <1>13, <2>1, <2>4, Pair, StatesAre DEF Finished
      <3>2. QED
        BY <1>2, <1>13, <2>2, <2>4, <3>1 DEF Stage, Finished
    <2>5. QED
      BY <1>13, <2>3, <2>4 DEF Finished
  <1>14. CASE Failed(r, y, how, new)
    <2>1. Fed(r, (<<>> \o new) \o rest)' /\ Sent(r)' = <<>>
      BY <1>4, <1>8, <1>9, <1>10, <1>14 DEF Failed, Early
    <2>2. CASE y = "retire"
      <3>1. (<<>> \o new) \o rest = <<>>
        BY <1>5, <1>14, <2>2, Pair DEF Failed
      <3>2. QED
        BY <1>2, <1>14, <2>1, <2>2, <3>1 DEF Stage, Failed
    <2>3. CASE y = "over"
      <3>1. (<<>> \o new) \o rest = <<Error, End>>
        BY <1>5, <1>14, <2>3, Pair DEF Failed
      <3>2. QED
        BY <1>2, <1>14, <2>1, <2>3, <3>1 DEF Stage, Failed
    <2>4. QED
      BY <1>14, <2>2, <2>3 DEF Failed
  <1>15. CASE Settles(r, y, how, new)
    <2>1. new = <<>> /\ y = "over" /\ how = fate[r] /\ turn[r] = "retire"
      BY <1>15 DEF Settles
    <2>2. CASE fate[r] = "ok" /\ Sent(r) = <<>> /\ \E d \in Dones : Fed(r, <<d>>)
      <3>1. PICK d \in Dones : Fed(r, <<d>>)
        BY <2>2
      <3>2. Fed(r, (<<d>> \o new) \o rest)'
        BY <1>8, <1>9, <3>1
      <3>3. (<<d>> \o new) \o rest = <<d, End>>
        BY <1>5, <2>1, <2>2, Pair, StatesAre
      <3>4. QED
        BY <1>2, <1>4, <2>1, <2>2, <3>2, <3>3 DEF Stage
    <2>3. CASE fate[r] = "ok" /\ Sent(r) = <<Finish>> /\ queue[r] = <<>>
      <3>1. (<<>> \o new) \o rest = <<End>>
        BY <1>5, <2>1, <2>3, Pair, StatesAre
      <3>2. queue'[r] = <<End>>
        BY <1>2, <2>3, <3>1
      <3>3. QED
        BY <1>2, <1>4, <2>1, <2>3, <3>2 DEF Stage
    <2>4. CASE fate[r] \in Failure /\ Sent(r) = <<>> /\ Fed(r, <<>>)
      <3>1. Fed(r, (<<>> \o new) \o rest)'
        BY <1>8, <1>9, <2>4
      <3>2. (<<>> \o new) \o rest = <<Error, End>>
        BY <1>5, <2>1, <2>4, Pair
      <3>3. QED
        BY <1>2, <1>4, <2>1, <2>4, <3>1, <3>2 DEF Stage
    <2>5. QED
      BY <1>7, <2>1, <2>2, <2>3, <2>4 DEF Stage, Early
  <1>16. QED
    BY <1>1, <1>7, <1>11, <1>12, <1>13, <1>14, <1>15 DEF TurnMove, Live

\* The frames of an item: those of the body, then those that end the answer; and what
\* they show of the worker's events.
Ends(r, item, body, cl) ==
  /\ item \in Updates => cl = <<>>
  /\ item \in Dones => cl = <<Finish>>
  /\ item = Error => /\ body = <<>>
                     /\ cl = IF fate[r] = "broken" THEN <<>>
                             ELSE IF style[r] = "anthropic" THEN <<Error>> ELSE <<Error, End>>
  /\ item = End => body = <<>> /\ cl = IF style[r] = "anthropic" THEN <<>> ELSE <<End>>

LEMMA ItemCases == \A item \in Item : item \in Updates \/ item \in Dones \/ item = Error \/ item = End
  BY DEF Item, Event, Updates, Dones, Error, End

LEMMA FramesAre ==
  ASSUME PathTypeOK, NEW r \in Request, NEW item \in Item
  PROVE  \E body \in Seq(Body), cl \in Seq(Frame) :
           /\ Frames(r, item) = body \o cl /\ Ends(r, item, body, cl)
           /\ Kinds(cl, Closers) = cl /\ Kinds(cl, {"text", "aside"}) = <<>>
           /\ Kinds(body, {"text", "aside"}) =
                IF item \in Updates /\ item[1] \in Shown(r) THEN <<item>> ELSE <<>>
  <1> DEFINE start == <<"start", 0>>
             stop  == <<"stop", 0>>
             TA    == {"text", "aside"}
             Claim(body, cl) ==
               /\ Frames(r, item) = body \o cl /\ Ends(r, item, body, cl)
               /\ Kinds(cl, Closers) = cl /\ Kinds(cl, TA) = <<>>
               /\ Kinds(body, TA) = IF item \in Updates /\ item[1] \in Shown(r) THEN <<item>> ELSE <<>>
  <1>1. /\ start \in Body /\ stop \in Body /\ Finish \in Frame /\ Error \in Frame /\ End \in Frame
        /\ start[1] = "start" /\ stop[1] = "stop" /\ Finish[1] = "finish" /\ Error[1] = "error"
        /\ End[1] = "end"
    BY DEF Body, Frame, Closers, Finish, Error, End
  <1>2. /\ <<>> \in Seq(Body) /\ <<stop>> \in Seq(Body) /\ <<start>> \in Seq(Body)
        /\ <<>> \in Seq(Frame) /\ <<Finish>> \in Seq(Frame) /\ <<Error>> \in Seq(Frame)
        /\ <<End>> \in Seq(Frame) /\ <<Error, End>> \in Seq(Frame)
    BY <1>1, EmptySeq
  <1>3. /\ Kinds(<<>>, Closers) = <<>> /\ Kinds(<<>>, TA) = <<>>
        /\ Kinds(<<stop>>, TA) = <<>>
        /\ Kinds(<<Finish>>, Closers) = <<Finish>> /\ Kinds(<<Finish>>, TA) = <<>>
        /\ Kinds(<<Error>>, Closers) = <<Error>> /\ Kinds(<<Error>>, TA) = <<>>
        /\ Kinds(<<End>>, Closers) = <<End>> /\ Kinds(<<End>>, TA) = <<>>
    BY <1>1, KindsNil, KindsOne DEF Closers
  <1>4. Kinds(<<Error, End>>, Closers) = <<Error, End>> /\ Kinds(<<Error, End>>, TA) = <<>>
    <2>1. <<Error, End>> = <<Error>> \o <<End>>
      BY Pair
    <2>2. \A K : Kinds(<<Error, End>>, K) = Kinds(<<Error>>, K) \o Kinds(<<End>>, K)
      <3> DEFINE one == <<Error>>
                 two == <<End>>
      <3>1. one \in Seq(Frame) /\ two \in Seq(Frame)
        BY <1>2
      <3> HIDE DEF one, two
      <3>2. \A K : Kinds(one \o two, K) = Kinds(one, K) \o Kinds(two, K)
        BY <3>1, KindsConcat
      <3>3. QED
        BY <2>1, <3>2 DEF one, two
    <2>3. Kinds(<<Error, End>>, Closers) = <<Error>> \o <<End>>
      BY <1>3, <2>2
    <2>4. Kinds(<<Error, End>>, TA) = <<>> \o <<>>
      BY <1>3, <2>2
    <2>5. <<>> \o <<>> = <<>>
      BY EmptySeq, ConcatEmptySeq
    <2>6. QED
      BY <2>1, <2>3, <2>4, <2>5
  <1>5. /\ item \in Updates => item[1] \in TA /\ item \notin Dones /\ item # Error /\ item # End
        /\ item \in Dones => item[1] = "done" /\ item \notin Updates /\ item # Error /\ item # End
        /\ item = Error => item[1] = "error" /\ item \notin Updates /\ item \notin Dones /\ item # End
        /\ item = End => item[1] = "end" /\ item \notin Updates /\ item \notin Dones /\ item # Error
    BY DEF Updates, Dones, Error, End
  <1>6. \A s : (s \in Seq(Body) => s \o <<>> = s) /\ (s \in Seq(Frame) => <<>> \o s = s)
    BY ConcatEmptySeq
  <1>7. SUFFICES \E body \in Seq(Body), cl \in Seq(Frame) : Claim(body, cl)
    OBVIOUS
  <1>8. CASE item \in Updates
    <2>1. item[1] \in TA /\ item \in Body
      BY <1>8 DEF Updates, Body, Frame, Closers
    <2>2. <<item>> \in Seq(Body) /\ Kinds(<<item>>, TA) = <<item>>
      BY <2>1, KindsOne
    <2>3. CASE style[r] # "anthropic"
      <3>1. Frames(r, item) = <<item>> /\ item[1] \in Shown(r)
        BY <1>5, <1>8, <2>1, <2>3 DEF Frames, Raised, Plain, Shown
      <3>2. Claim(<<item>>, <<>>)
        BY <1>3, <1>5, <1>6, <1>8, <2>2, <3>1 DEF Ends
      <3>3. QED
        BY <1>2, <2>2, <3>2
    <2>4. CASE style[r] = "anthropic" /\ item[1] = "aside"
      <3>1. Frames(r, item) = <<>> /\ item[1] \notin Shown(r)
        BY <2>4 DEF Frames, Raised, Anthropic, Shown
      <3>2. Claim(<<>>, <<>>)
        BY <1>2, <1>3, <1>5, <1>6, <1>8, <3>1 DEF Ends
      <3>3. QED
        BY <1>2, <3>2
    <2>5. CASE style[r] = "anthropic" /\ item[1] = "text" /\ open[r]
      <3>1. Frames(r, item) = <<>> \o <<item>> /\ item[1] \in Shown(r)
        BY <1>5, <1>8, <2>5, Unraised DEF Anthropic, Shown
      <3>2. Frames(r, item) = <<item>>
        BY <3>1, Pair
      <3>3. Claim(<<item>>, <<>>)
        BY <1>3, <1>5, <1>6, <1>8, <2>2, <3>1, <3>2 DEF Ends
      <3>4. QED
        BY <1>2, <2>2, <3>3
    <2>6. CASE style[r] = "anthropic" /\ item[1] = "text" /\ ~open[r]
      <3> DEFINE body == <<start, item>>
      <3>1. Frames(r, item) = body /\ item[1] \in Shown(r)
        BY <1>5, <1>8, <2>6, Pair, Unraised DEF Anthropic, Shown
      <3>2. body \in Seq(Body)
        BY <1>1, <2>1
      <3>3. Kinds(body, TA) = <<item>>
        <4> DEFINE one == <<start>>
                   two == <<item>>
        <4>1. one \in Seq(Body) /\ two \in Seq(Body)
          BY <1>2, <2>2
        <4>2. Kinds(one, TA) = <<>> /\ Kinds(two, TA) = two
          BY <1>1, <2>2, KindsOne
        <4>3. body = one \o two
          BY Pair
        <4> HIDE DEF one, two, body
        <4>4. Kinds(one \o two, TA) = Kinds(one, TA) \o Kinds(two, TA)
          BY <4>1, KindsConcat
        <4>5. <<>> \o two = two
          BY <4>1, ConcatEmptySeq
        <4>6. QED
          BY <4>2, <4>3, <4>4, <4>5 DEF two
      <3> HIDE DEF body
      <3>4. Claim(body, <<>>)
        BY <1>3, <1>5, <1>6, <1>8, <3>1, <3>2, <3>3 DEF Ends
      <3>5. QED
        BY <1>2, <3>2, <3>4
    <2>7. QED
      BY <2>1, <2>3, <2>4, <2>5, <2>6, Kept
  <1>9. CASE item \in Dones
    <2>1. CASE style[r] # "anthropic"
      <3>1. Frames(r, item) = <<Finish>>
        BY <1>5, <1>9, <2>1 DEF Frames, Raised, Plain
      <3>2. Claim(<<>>, <<Finish>>)
        BY <1>2, <1>3, <1>5, <1>6, <1>9, <3>1 DEF Ends
      <3>3. QED
        BY <1>2, <3>2
    <2>2. CASE style[r] = "anthropic" /\ open[r]
      <3>1. Frames(r, item) = <<stop>> \o <<Finish>>
        BY <1>5, <1>9, <2>2 DEF Frames, Raised, Anthropic
      <3>2. Claim(<<stop>>, <<Finish>>)
        BY <1>3, <1>5, <1>9, <3>1 DEF Ends
      <3>3. QED
        BY <1>2, <3>2
    <2>3. CASE style[r] = "anthropic" /\ ~open[r]
      <3>1. Frames(r, item) = <<>> \o <<Finish>>
        BY <1>5, <1>9, <2>3 DEF Frames, Raised, Anthropic
      <3>2. Claim(<<>>, <<Finish>>)
        BY <1>3, <1>5, <1>9, <3>1 DEF Ends
      <3>3. QED
        BY <1>2, <3>2
    <2>4. QED
      BY <2>1, <2>2, <2>3, Kept
  <1>10. CASE item = Error
    <2>1. CASE fate[r] # "broken" /\ style[r] = "anthropic"
      <3>1. Frames(r, item) = <<Error>>
        BY <1>5, <1>10, <2>1 DEF Frames, Raised, Anthropic
      <3>2. Claim(<<>>, <<Error>>)
        BY <1>2, <1>3, <1>5, <1>6, <1>10, <2>1, <3>1 DEF Ends
      <3>3. QED
        BY <1>2, <3>2
    <2>2. CASE fate[r] # "broken" /\ style[r] # "anthropic"
      <3>1. Frames(r, item) = <<Error, End>>
        BY <1>5, <1>10, <2>2 DEF Frames, Raised, Plain
      <3>2. Claim(<<>>, <<Error, End>>)
        BY <1>2, <1>3, <1>4, <1>5, <1>6, <1>10, <2>2, <3>1 DEF Ends
      <3>3. QED
        BY <1>2, <3>2
    <2>3. CASE fate[r] = "broken"
      <3>1. Frames(r, item) = <<>>
        BY <1>10, <2>3 DEF Frames, Raised
      <3>2. Claim(<<>>, <<>>)
        BY <1>2, <1>3, <1>5, <1>6, <1>10, <2>3, <3>1 DEF Ends
      <3>3. QED
        BY <1>2, <3>2
    <2>4. QED
      BY <2>1, <2>2, <2>3
  <1>11. CASE item = End
    <2>1. CASE style[r] = "anthropic"
      <3>1. Frames(r, item) = <<>>
        BY <1>5, <1>11, <2>1 DEF Frames, Raised, Anthropic
      <3>2. Claim(<<>>, <<>>)
        BY <1>2, <1>3, <1>5, <1>6, <1>11, <2>1, <3>1 DEF Ends
      <3>3. QED
        BY <1>2, <3>2
    <2>2. CASE style[r] # "anthropic"
      <3>1. Frames(r, item) = <<End>>
        BY <1>5, <1>11, <2>2 DEF Frames, Raised, Plain
      <3>2. Claim(<<>>, <<End>>)
        BY <1>2, <1>3, <1>5, <1>6, <1>11, <2>2, <3>1 DEF Ends
      <3>3. QED
        BY <1>2, <3>2
    <2>3. QED
      BY <2>1, <2>2
  <1>12. QED
    BY <1>8, <1>9, <1>10, <1>11, ItemCases

-------------------------------------------------------------------------------
(* What an answer has sent.                                                  *)

\* A stream that is over has sent the end of its turn, unless it broke off.
Ended(r) ==
  style[r] # "whole" /\ cons[r] = "done" =>
    \/ /\ fate[r] = "ok"
       /\ Sent(r) = IF style[r] = "anthropic" THEN <<Finish>> ELSE <<Finish, End>>
    \/ /\ fate[r] \in Category
       /\ Sent(r) = IF style[r] = "anthropic" THEN <<Error>> ELSE <<Error, End>>
    \/ fate[r] = "broken" /\ Sent(r) = <<>>

\* One that the client left has sent no more than the finish.
Broken(r) ==
  style[r] # "whole" /\ cons[r] \in {"closing", "joining", "gone"} =>
    Sent(r) \in {<<>>, <<Finish>>}

\* An answer in one piece.
Whole(r) ==
  style[r] = "whole" =>
    /\ cons[r] # "done" => out[r] = <<>>
    /\ cons[r] = "done" =>
         \/ fate[r] = "ok" /\ out[r] = Append(Kinds(made[r], {"text", "aside"}), Finish)
         \/ fate[r] \in Category /\ out[r] = <<Error>>
         \/ fate[r] = "broken" /\ out[r] = <<>>

\* A stream has sent what the worker made and the queue does not hold.
Passed(r) ==
  style[r] # "whole" =>
    Kinds(out[r], {"text", "aside"}) \o Kinds(queue[r], Shown(r)) = Kinds(made[r], Shown(r))

\* A finish comes after all of it.
Complete(r) ==
  Sent(r) \in {<<Finish>>, <<Finish, End>>} =>
    Served(r) /\ Kinds(out[r], {"text", "aside"}) = Kinds(made[r], Shown(r))

\* An error comes from the turn.
Erring(r) ==
  Sent(r) \in {<<Error>>, <<Error, End>>} => turn[r] = "over" /\ fate[r] \in Category

\* The frames that end an answer come last.
Closed(r) == \E body \in Seq(Body) : out[r] = body \o Sent(r)

Output(r) ==
  Ended(r) /\ Broken(r) /\ Whole(r) /\ Passed(r) /\ Complete(r) /\ Erring(r) /\ Closed(r)

LEMMA SameOutput == ASSUME NEW q \in Request, Output(q), Same(q) PROVE Output(q)'
  <1>1. Ended(q)' /\ Broken(q)'
    BY DEF Output, Ended, Broken, Same, Sent
  <1>2. Whole(q)'
    BY DEF Output, Whole, Same
  <1>3. Passed(q)'
    BY DEF Output, Passed, Same, Shown
  <1>4. Complete(q)'
    BY DEF Output, Complete, Same, Sent, Shown, Served
  <1>5. Erring(q)' /\ Closed(q)'
    BY DEF Output, Erring, Closed, Same, Sent
  <1>6. QED
    BY <1>1, <1>2, <1>3, <1>4, <1>5 DEF Output

\* The lists of end frames are different.
LEMMA Lists ==
  /\ <<Finish>> # <<>> /\ <<Error>> # <<>> /\ <<Finish, End>> # <<>> /\ <<Error, End>> # <<>>
  /\ <<Finish>> # <<Error>> /\ <<Finish>> # <<Error, End>> /\ <<Finish>> # <<Finish, End>>
  /\ <<Finish, End>> # <<Error>> /\ <<Finish, End>> # <<Error, End>> /\ <<Error>> # <<Error, End>>
  <1>1. Finish # Error
    BY DEF Finish, Error
  <1>2. QED
    BY <1>1

\* The next item becomes frames.
LEMMA TakeFacts ==
  ASSUME PathTypeOK, NEW r \in Request, Take(r)
  PROVE  \E body \in Seq(Body), cl \in Seq(Frame) :
           /\ Ends(r, Head(queue[r]), body, cl)
           /\ out'[r] = out[r] \o (body \o cl) /\ Sent(r)' = Sent(r) \o cl
           /\ Kinds(out'[r], {"text", "aside"}) =
                Kinds(out[r], {"text", "aside"}) \o
                  (IF Head(queue[r]) \in Updates /\ Head(queue[r])[1] \in Shown(r)
                   THEN <<Head(queue[r])>> ELSE <<>>)
  <1> DEFINE item == Head(queue[r])
             TA   == {"text", "aside"}
             o    == out[r]
             shown == IF item \in Updates /\ item[1] \in Shown(r) THEN <<item>> ELSE <<>>
  <1>1. item \in Item /\ out'[r] = o \o Frames(r, item)
    <2> DEFINE g == o \o Frames(r, item)
    <2>1. PICK c, b : AnswerMove(r, c, turn[r], g, b, Tail(queue[r]))
      BY TakeMove
    <2> HIDE DEF g
    <2>2. out'[r] = g
      BY <2>1, AnswerKeeps
    <2>3. item \in Item
      BY TakeMove
    <2>4. QED
      BY <2>2, <2>3 DEF g
  <1>2. o \in Seq(Frame)
    BY Kept
  <1>3. PICK body \in Seq(Body), cl \in Seq(Frame) :
          /\ Frames(r, item) = body \o cl /\ Ends(r, item, body, cl)
          /\ Kinds(cl, Closers) = cl /\ Kinds(cl, TA) = <<>>
          /\ Kinds(body, TA) = shown
    BY <1>1, FramesAre
  <1> HIDE DEF item, o, shown, TA
  <1>4. body \in Seq(Frame) /\ body \o cl \in Seq(Frame) /\ Kinds(body, Closers) = <<>>
    <2>1. Body \subseteq Frame
      BY DEF Body
    <2>2. body \in Seq(Frame)
      BY <2>1, SeqMonotonic
    <2>3. \A f \in Body : f[1] \notin Closers
      BY DEF Body
    <2>4. Kinds(body, Closers) = <<>>
      BY <2>3, KindsNone
    <2>5. QED
      BY <2>2, <2>4, ConcatProperties
  <1>5. \A K : Kinds(o \o (body \o cl), K) = Kinds(o, K) \o (Kinds(body, K) \o Kinds(cl, K))
    <2>1. \A K : Kinds(body \o cl, K) = Kinds(body, K) \o Kinds(cl, K)
      BY <1>4, KindsConcat
    <2> DEFINE f == body \o cl
    <2>2. f \in Seq(Frame)
      BY <1>4
    <2> HIDE DEF f
    <2>3. \A K : Kinds(o \o f, K) = Kinds(o, K) \o Kinds(f, K)
      BY <1>2, <2>2, KindsConcat
    <2>4. QED
      BY <2>1, <2>3 DEF f
  <1>6. Kinds(out'[r], Closers) = Kinds(o, Closers) \o cl
    <2>1. <<>> \o cl = cl
      BY ConcatEmptySeq
    <2>2. QED
      BY <1>1, <1>3, <1>4, <1>5, <2>1
  <1>7. Kinds(out'[r], TA) = Kinds(o, TA) \o shown
    <2>1. Kinds(body, TA) \in Seq(Frame)
      BY <1>4, KindsType
    <2>2. shown \o <<>> = shown
      BY <1>3, <2>1, ConcatEmptySeq
    <2>3. QED
      BY <1>1, <1>3, <1>5, <2>2
  <1>8. out'[r] = o \o (body \o cl)
    BY <1>1, <1>3
  <1>9. QED
    BY <1>3, <1>6, <1>7, <1>8 DEF item, o, TA, shown, Sent

\* The new stage of a stream, or its end.
LEMMA TakeStage ==
  ASSUME PathTypeOK, NEW r \in Request, Phase(r), Stage(r), Take(r)
  PROVE  /\ Stage(r)' /\ Ended(r)'
         /\ cons'[r] = "done" => turn[r] = "over"
         /\ Sent(r)' # Sent(r) => \/ Sent(r)' = <<Finish>> /\ queue'[r] \in {<<>>, <<End>>} /\ Served(r)
                                  \/ Sent(r)' = <<Finish, End>> /\ Sent(r) = <<Finish>>
                                  \/ Sent(r)' \in {<<Error>>, <<Error, End>>} /\ turn[r] = "over" /\ fate[r] \in Category
  <1> DEFINE item == Head(queue[r])
             rest == Tail(queue[r])
  <1>1. /\ cons[r] = "next" /\ style[r] # "whole" /\ queue[r] # <<>> /\ item \in Item
        /\ turn'[r] = turn[r] /\ fate'[r] = fate[r] /\ style'[r] = style[r]
        /\ queue'[r] = rest /\ cons'[r] \in {"done", "next", "send"}
        /\ cons'[r] = "done" <=> item[1] \in {"error", "end"}
    BY TakeMove, AnswerKeeps
  <1>2. PICK body \in Seq(Body), cl \in Seq(Frame) :
          Ends(r, item, body, cl) /\ Sent(r)' = Sent(r) \o cl
    BY TakeFacts
  <1>3. Live(r) /\ Sent(r) \in Seq(Frame)
    BY <1>1, Kept, KindsType DEF Live, Sent
  <1> HIDE DEF item, rest
  <1>4. /\ item \in Updates => cons'[r] # "done" /\ cl = <<>>
        /\ item \in Dones => cons'[r] # "done" /\ cl = <<Finish>>
        /\ item = Error => cons'[r] = "done"
        /\ item = End => cons'[r] = "done"
    BY <1>1, <1>2 DEF Ends, Updates, Dones, Error, End
  <1>5. ASSUME NEW q \in Seq(Item), Fed(r, q)
        PROVE  \/ item \in Updates /\ Fed(r, q)'
               \/ q # <<>> /\ item = Head(q) /\ queue'[r] = Tail(q)
    BY <1>1, <1>5, FedHead DEF Fed, item, rest
  <1>6. /\ <<>> \in Seq(Item) /\ <<End>> \in Seq(Item) /\ <<Error, End>> \in Seq(Item)
        /\ \A d \in Dones : <<d>> \in Seq(Item) /\ <<d, End>> \in Seq(Item)
    <2>1. Error \in Item /\ End \in Item /\ \A d \in Dones : d \in Item
      BY UpdatesAreItems DEF Error, End, Item
    <2>2. QED
      BY <2>1, EmptySeq
  <1>7. CASE item \in Updates
    <2>1. Sent(r)' = Sent(r) /\ cons'[r] # "done"
      BY <1>2, <1>3, <1>4, <1>7, ConcatEmptySeq
    <2>2. item \notin Dones /\ item # Error /\ item # End
      BY <1>7 DEF Updates, Dones, Error, End
    <2>3. /\ Fed(r, <<>>) => Fed(r, <<>>)'
          /\ \A d \in Dones : Fed(r, <<d>>) => Fed(r, <<d>>)'
          /\ \A d \in Dones : Fed(r, <<d, End>>) => Fed(r, <<d, End>>)'
          /\ Fed(r, <<Error, End>>) => Fed(r, <<Error, End>>)'
          /\ queue[r] # <<End>>
      <3>1. \A d \in Dones : Head(<<d>>) = d /\ Head(<<d, End>>) = d
        OBVIOUS
      <3>2. Head(<<Error, End>>) = Error /\ Head(<<End>>) = End
        OBVIOUS
      <3>3. queue[r] # <<End>>
        BY <2>2, <3>2 DEF item
      <3>4. QED
        BY <1>5, <1>6, <2>2, <3>1, <3>2, <3>3
    <2>4. Stage(r)'
      BY <1>1, <1>3, <2>1, <2>3 DEF Stage
    <2>5. QED
      BY <2>1, <2>4 DEF Ended
  <1>8. CASE item \notin Updates
    <2>1. \A q \in Seq(Item) : Fed(r, q) => q # <<>> /\ item = Head(q) /\ queue'[r] = Tail(q)
      BY <1>5, <1>8
    <2>2. ~Fed(r, <<>>)
      BY <1>6, <2>1
    <2>3. CASE turn[r] = "retire" /\ fate[r] = "ok" /\ Sent(r) = <<>> /\ \E d \in Dones : Fed(r, <<d>>)
      <3>1. PICK d \in Dones : Fed(r, <<d>>)
        BY <2>3
      <3>2. item = d /\ queue'[r] = <<>>
        <4>1. Head(<<d>>) = d /\ Tail(<<d>>) = <<>> /\ <<d>> \in Seq(Item)
          BY <1>6
        <4>2. item = Head(<<d>>) /\ queue'[r] = Tail(<<d>>)
          BY <2>1, <3>1, <4>1
        <4>3. QED
          BY <4>1, <4>2
      <3>3. Sent(r)' = <<Finish>> /\ cons'[r] # "done"
        BY <1>2, <1>4, <2>3, <3>2, Pair
      <3>4. Served(r)
        BY <2>3 DEF Phase
      <3>5. QED
        BY <1>1, <2>3, <3>2, <3>3, <3>4 DEF Stage, Ended
    <2>4. CASE turn[r] = "over" /\ fate[r] = "ok" /\ Sent(r) = <<>> /\ \E d \in Dones : Fed(r, <<d, End>>)
      <3>1. PICK d \in Dones : Fed(r, <<d, End>>)
        BY <2>4
      <3>2. item = d /\ queue'[r] = <<End>>
        <4>1. Head(<<d, End>>) = d /\ Tail(<<d, End>>) = <<End>> /\ <<d, End>> \in Seq(Item)
          BY <1>6
        <4>2. item = Head(<<d, End>>) /\ queue'[r] = Tail(<<d, End>>)
          BY <2>1, <3>1, <4>1
        <4>3. QED
          BY <4>1, <4>2
      <3>3. Sent(r)' = <<Finish>> /\ cons'[r] # "done"
        BY <1>2, <1>4, <2>4, <3>2, Pair
      <3>4. Served(r)
        BY <2>4 DEF Phase
      <3>5. QED
        BY <1>1, <2>4, <3>2, <3>3, <3>4 DEF Stage, Ended
    <2>5. CASE turn[r] = "over" /\ fate[r] = "ok" /\ Sent(r) = <<Finish>> /\ queue[r] = <<End>>
      <3>1. item = End
        BY <2>5 DEF item
      <3>2. cons'[r] = "done" /\ cl = IF style[r] = "anthropic" THEN <<>> ELSE <<End>>
        BY <1>2, <1>4, <3>1 DEF Ends
      <3>3. Sent(r)' = IF style[r] = "anthropic" THEN <<Finish>> ELSE <<Finish, End>>
        <4>1. <<Finish>> \o <<>> = <<Finish>> /\ <<Finish>> \o <<End>> = <<Finish, End>>
          BY <1>3, <2>5, ConcatEmptySeq, Pair
        <4>2. QED
          BY <1>2, <2>5, <3>2, <4>1
      <3>4. QED
        BY <1>1, <2>5, <3>2, <3>3 DEF Stage, Ended, Live
    <2>6. CASE turn[r] = "over" /\ fate[r] \in Failure /\ Sent(r) = <<>> /\ Fed(r, <<Error, End>>)
      <3>1. item = Error
        <4>1. Head(<<Error, End>>) = Error /\ <<Error, End>> \in Seq(Item)
          BY <1>6
        <4>2. item = Head(<<Error, End>>)
          BY <2>1, <2>6, <4>1
        <4>3. QED
          BY <4>1, <4>2
      <3>2. /\ cons'[r] = "done"
            /\ cl = IF fate[r] = "broken" THEN <<>>
                    ELSE IF style[r] = "anthropic" THEN <<Error>> ELSE <<Error, End>>
        BY <1>2, <1>4, <3>1 DEF Ends
      <3>3. Sent(r)' = IF fate[r] = "broken" THEN <<>>
                       ELSE IF style[r] = "anthropic" THEN <<Error>> ELSE <<Error, End>>
        <4>1. <<>> \o cl = cl
          BY <1>2, ConcatEmptySeq
        <4>2. QED
          BY <1>2, <2>6, <3>2, <4>1
      <3>4. QED
        BY <1>1, <2>6, <3>2, <3>3, StatesAre DEF Stage, Ended, Live
    <2>7. QED
      BY <1>1, <1>3, <2>2, <2>3, <2>4, <2>5, <2>6 DEF Stage
  <1>9. QED
    BY <1>7, <1>8


\* The kinds of events and of the end of a turn.
LEMMA EndingKinds ==
  ASSUME NEW how, NEW K, "error" \notin K, "end" \notin K
  PROVE  Kinds(Ending(how), K) = <<>>
  <1> DEFINE X == {Error, End}
             e == Ending(how)
  <1>1. e \in Seq(X)
    <2>1. <<Error, End>> \in Seq(X) /\ <<End>> \in Seq(X)
      OBVIOUS
    <2>2. QED
      BY <2>1 DEF Ending
  <1>2. \A x \in X : x[1] \notin K
    BY DEF Error, End
  <1> HIDE DEF e, X
  <1>3. Kinds(e, K) = <<>>
    BY <1>1, <1>2, KindsNone
  <1>4. QED
    BY <1>3 DEF e

\* Kinds of what an answer shows are lists of one type.
Piece == Frame \cup Item

LEMMA ShownKinds ==
  ASSUME PathTypeOK, NEW r \in Request, NEW K
  PROVE  /\ Kinds(out[r], K) \in Seq(Piece) /\ Kinds(queue[r], K) \in Seq(Piece)
         /\ Kinds(made[r], K) \in Seq(Piece)
  <1> DEFINE a == out[r]
             b == queue[r]
             c == made[r]
  <1>1. a \in Seq(Piece) /\ b \in Seq(Piece) /\ c \in Seq(Piece)
    BY Kept, SeqMonotonic, UpdatesAreItems DEF Piece
  <1> HIDE DEF a, b, c
  <1>2. Kinds(a, K) \in Seq(Piece) /\ Kinds(b, K) \in Seq(Piece) /\ Kinds(c, K) \in Seq(Piece)
    BY <1>1, KindsType
  <1>3. QED
    BY <1>2 DEF a, b, c

\* What a turn adds to the queue is what its worker makes.
LEMMA TurnPassed ==
  ASSUME PathTypeOK, NEW r \in Request, Passed(r), TurnEffect(r)
  PROVE  Passed(r)'
  <1>1. PICK y \in TurnStates, how \in {"none", "ok", "cancelled"} \cup Failure,
             new \in Seq(Event), c \in AnswerStates : TurnMove(r, y, how, new, c)
    BY DEF TurnEffect
  <1> DEFINE rest == IF y = "over" THEN Ending(how) ELSE <<>>
             sh == Shown(r)
             old == queue[r]
             more == old \o new
             A == Kinds(out[r], {"text", "aside"})
             Q == Kinds(old, sh)
             M == Kinds(made[r], sh)
             N == Kinds(new, sh)
  <1>2. SUFFICES ASSUME style[r] # "whole" PROVE Passed(r)'
    BY <1>1 DEF TurnMove, Moved, Passed
  <1>3. out'[r] = out[r] /\ queue'[r] = more \o rest /\ Shown(r)' = sh
    BY <1>1 DEF TurnMove, Moved, PathTypeOK, Shown
  <1>4. Kinds(made'[r], sh) = M \o N
    BY <1>1, NewKinds
  <1>5. rest \in Seq(Item) /\ old \in Seq(Item) /\ new \in Seq(Item) /\ Kinds(rest, sh) = <<>>
    <2>1. rest \in Seq(Item) /\ old \in Seq(Item)
      BY EndingType, EmptySeq, Kept
    <2>2. "error" \notin sh /\ "end" \notin sh
      BY DEF Shown
    <2> HIDE DEF sh
    <2>3. Kinds(rest, sh) = <<>>
      BY <2>2, EndingKinds, KindsNil
    <2>4. QED
      BY <2>1, <2>3, UpdatesAreItems, SeqMonotonic
  <1>6. A \in Seq(Piece) /\ Q \in Seq(Piece) /\ N \in Seq(Piece) /\ A \o Q = M
    <2>1. A \in Seq(Piece) /\ Q \in Seq(Piece)
      BY ShownKinds
    <2>2. N \in Seq(Item) /\ Item \subseteq Piece
      BY <1>5, KindsType DEF Piece
    <2>3. N \in Seq(Piece)
      BY <2>2, SeqMonotonic
    <2>4. QED
      BY <1>2, <2>1, <2>3 DEF Passed
  <1> HIDE DEF rest, sh, old
  <1>7. Kinds(more, sh) = Q \o N /\ more \in Seq(Item)
    BY <1>5, KindsConcat, ConcatProperties
  <1> HIDE DEF more
  <1>8. Kinds(queue'[r], sh) = (Q \o N) \o <<>>
    <2>1. more \in Seq(Item) /\ rest \in Seq(Item)
      BY <1>5, <1>7
    <2>2. Kinds(more \o rest, sh) = Kinds(more, sh) \o Kinds(rest, sh)
      BY <2>1, KindsConcat
    <2>3. QED
      BY <1>3, <1>5, <1>7, <2>2
  <1> HIDE DEF Q, N, A, M
  <1>9. (Q \o N) \o <<>> = Q \o N
    <2>1. Q \o N \in Seq(Piece)
      BY <1>6, ConcatProperties
    <2>2. QED
      BY <2>1, ConcatEmptySeq
  <1>10. A \o (Q \o N) = M \o N
    <2>1. A \in Seq(Piece) /\ Q \in Seq(Piece) /\ N \in Seq(Piece)
      BY <1>6
    <2>2. (A \o Q) \o N = A \o (Q \o N)
      BY <2>1, ConcatAssociative
    <2>3. QED
      BY <1>6, <2>2
  <1>11. Kinds(out'[r], {"text", "aside"}) = A
    BY <1>3 DEF A
  <1>12. Kinds(out'[r], {"text", "aside"}) \o Kinds(queue'[r], sh) = Kinds(made'[r], sh)
    BY <1>4, <1>8, <1>9, <1>10, <1>11
  <1>13. QED
    BY <1>3, <1>12 DEF Passed

LEMMA TurnOutput ==
  ASSUME PathTypeOK, NEW r \in Request, Phase(r), Output(r), TurnEffect(r)
  PROVE  Output(r)'
  <1>1. PICK y \in TurnStates, how \in {"none", "ok", "cancelled"} \cup Failure,
             new \in Seq(Event), c \in AnswerStates : TurnMove(r, y, how, new, c)
    BY DEF TurnEffect
  <1>2. /\ turn'[r] = y /\ fate'[r] = how /\ cons'[r] = c /\ style'[r] = style[r]
        /\ out'[r] = out[r] /\ Sent(r)' = Sent(r) /\ Shown(r)' = Shown(r)
    BY <1>1 DEF TurnMove, Moved, PathTypeOK, Sent, Shown
  <1>3. turn[r] # "over" /\ c # "done" /\ cons[r] # "done"
    BY <1>1 DEF Phase, TurnMove, Walks, Updated, Finished, Failed, Settles, Cancelled
  <1>4. Served(r)' <=> Served(r) \/ Finished(r, y, how, new)
    BY <1>1, NewServed
  <1>5. Served(r) => new = <<>>
    BY <1>1 DEF Phase, TurnMove, Walks, Updated, Finished, Failed, Settles, Cancelled
  <1>6. new = <<>> => made'[r] = made[r]
    <2>1. made'[r] = made[r] \o new /\ made[r] \in Seq(Event)
      BY <1>1, Kept DEF TurnMove, Moved, PathTypeOK
    <2>2. QED
      BY <2>1, ConcatEmptySeq
  <1>7. Ended(r)'
    BY <1>2, <1>3 DEF Ended
  <1>8. Broken(r)'
    BY <1>1, <1>2 DEF Output, Broken, TurnMove
  <1>9. Whole(r)'
    BY <1>2, <1>3 DEF Output, Whole
  <1>10. Passed(r)'
    BY TurnPassed DEF Output
  <1>11. Complete(r)'
    BY <1>2, <1>4, <1>5, <1>6 DEF Output, Complete
  <1>12. Erring(r)'
    BY <1>2, <1>3 DEF Output, Erring
  <1>13. Closed(r)'
    BY <1>2 DEF Output, Closed
  <1>14. QED
    BY <1>7, <1>8, <1>9, <1>10, <1>11, <1>12, <1>13 DEF Output

\* A stream that goes on has sent no more than the finish.
LEMMA LiveSent ==
  ASSUME NEW r \in Request, Live(r), Stage(r)
  PROVE  Sent(r) \in {<<>>, <<Finish>>}
  BY DEF Stage

\* A step of an answer that sends nothing.
LEMMA StillOutput ==
  ASSUME PathTypeOK, NEW r \in Request, Phase(r), Stage(r), Output(r), NEW c, NEW y,
         AnswerMove(r, c, y, out[r], open[r], queue[r]),
         y = turn[r] \/ (turn[r] = "none" /\ y = "ready"),
         c \notin {"off", "done"}, cons[r] # "done",
         c \in {"next", "send"} => cons[r] \in {"off", "next", "send"}
  PROVE  Stage(r)' /\ Output(r)'
  <1>1. /\ cons'[r] = c /\ turn'[r] = y /\ out'[r] = out[r] /\ queue'[r] = queue[r]
        /\ style'[r] = style[r] /\ made'[r] = made[r] /\ fate'[r] = fate[r]
        /\ (Served(r)' <=> Served(r))
    BY AnswerKeeps
  <1>2. Sent(r)' = Sent(r) /\ Shown(r)' = Shown(r) /\ \A q : Fed(r, q)' <=> Fed(r, q)
    BY <1>1 DEF Sent, Shown, Fed
  <1>3. y \in Early <=> turn[r] \in Early
    BY DEF Early
  <1>4. Live(r)' => Live(r)
    BY <1>1 DEF Live
  <1>5. Stage(r)'
    <2>1. SUFFICES ASSUME Live(r), Live(r)' PROVE Stage(r)'
      BY <1>4 DEF Stage
    <2>2. CASE turn[r] \in Early
      <3>1. Sent(r) = <<>> /\ Fed(r, <<>>)
        BY <2>1, <2>2 DEF Stage, Early
      <3>2. QED
        BY <1>1, <1>2, <1>3, <2>2, <3>1 DEF Stage
    <2>3. CASE turn[r] \notin Early
      <3>1. y = turn[r]
        BY <2>3 DEF Early
      <3>2. QED
        BY <1>1, <1>2, <2>1, <2>3, <3>1 DEF Stage
    <2>4. QED
      BY <2>2, <2>3
  <1>6. Ended(r)' /\ Whole(r)'
    BY <1>1 DEF Output, Ended, Whole
  <1>7. Broken(r)'
    <2>1. CASE Live(r)
      BY <1>1, <1>2, <2>1, LiveSent DEF Broken
    <2>2. CASE ~Live(r)
      <3>1. style[r] = "whole" \/ cons[r] \in {"closing", "joining", "gone"}
        BY <2>2, Kept DEF Live, AnswerStates
      <3>2. QED
        BY <1>1, <1>2, <3>1 DEF Output, Broken
    <2>3. QED
      BY <2>1, <2>2
  <1>8. Passed(r)' /\ Complete(r)' /\ Closed(r)'
    BY <1>1, <1>2 DEF Output, Passed, Complete, Closed
  <1>9. Erring(r)'
    BY <1>1, <1>2 DEF Output, Erring
  <1>10. QED
    BY <1>5, <1>6, <1>7, <1>8, <1>9 DEF Output

\* The request arrives.
LEMMA StartsAre ==
  /\ Starts \in Seq(Body) /\ Starts \in Seq(Frame) /\ Kinds(Starts, Closers) = <<>>
  /\ Kinds(Starts, {"text", "aside"}) = <<>>
  <1> DEFINE e == <<"head", 0>>
  <1>1. e \in Body /\ e \in Frame /\ e[1] \notin Closers /\ e[1] \notin {"text", "aside"}
    BY DEF Body, Frame, Closers
  <1>2. Starts = <<e>>
    BY DEF Starts
  <1> HIDE DEF e
  <1>3. QED
    BY <1>1, <1>2, KindsOne

LEMMA ArriveOutput ==
  ASSUME PathTypeOK, NEW r \in Request, Phase(r), Stage(r), Output(r), Arrive(r)
  PROVE  Stage(r)' /\ Output(r)' /\ Phase(r)' /\ PathTypeOK' /\ \A q \in Request : q # r => Same(q)
  <1>1. cons[r] = "off" /\ turn[r] = "none" /\ out[r] = <<>>
    BY ArriveMove DEF Phase
  <1>2. CASE /\ style[r] \in {"whole", "acp"}
             /\ AnswerMove(r, "next", "ready", out[r], open[r], queue[r])
    <2>1. Stage(r)' /\ Output(r)'
      <3>1. AnswerMove(r, "next", "ready", out[r], open[r], queue[r])
        BY <1>2
      <3>2. /\ "next" \notin {"off", "done"} /\ cons[r] # "done" /\ cons[r] \in {"off", "next", "send"}
            /\ turn[r] = "none"
        BY <1>1
      <3>3. QED
        BY <3>1, <3>2, StillOutput
    <2>2. Phase(r)'
      BY <1>1, <1>2, AnswerPhase
    <2>3. "next" \in AnswerStates /\ "ready" \in TurnStates
      BY DEF AnswerStates, TurnStates
    <2>4. PathTypeOK' /\ \A q \in Request : q # r => Same(q)
      BY <1>2, <2>3, Kept, AnswerTypes
    <2>5. QED
      BY <2>1, <2>2, <2>4
  <1>3. CASE /\ style[r] \in {"openai", "anthropic"}
             /\ AnswerMove(r, "send", turn[r], Starts, open[r], queue[r])
    <2>1. /\ cons'[r] = "send" /\ turn'[r] = turn[r] /\ out'[r] = Starts /\ queue'[r] = queue[r]
          /\ style'[r] = style[r] /\ made'[r] = made[r] /\ fate'[r] = fate[r]
      BY <1>3, AnswerKeeps
    <2>2. Sent(r)' = <<>>
      BY <2>1, StartsAre DEF Sent
    <2>3. Phase(r)'
      BY <1>1, <1>3, AnswerPhase
    <2>4. "send" \in AnswerStates
      BY DEF AnswerStates
    <2>5. PathTypeOK' /\ \A q \in Request : q # r => Same(q)
      BY <1>3, <2>4, Kept, StartsAre, AnswerTypes
    <2>6. Sent(r) = <<>> /\ Kinds(out[r], {"text", "aside"}) = <<>>
      BY <1>1, KindsNil DEF Sent
    <2>7. Live(r) /\ turn[r] \in Early
      BY <1>1, <1>3 DEF Live, Early
    <2>8. Fed(r, <<>>)
      BY <2>7 DEF Stage, Early
    <2>9. Fed(r, <<>>)'
      BY <2>1, <2>8 DEF Fed
    <2>10. Stage(r)'
      BY <2>1, <2>2, <2>7, <2>9 DEF Stage
    <2>11. Ended(r)' /\ Broken(r)' /\ Whole(r)'
      BY <1>3, <2>1 DEF Ended, Broken, Whole
    <2>12. Passed(r)'
      <3>1. Kinds(out'[r], {"text", "aside"}) = Kinds(out[r], {"text", "aside"})
        BY <2>1, <2>6, StartsAre
      <3>2. QED
        BY <2>1, <3>1 DEF Output, Passed, Shown
    <2>13. Complete(r)' /\ Erring(r)'
      BY <2>2, Lists DEF Complete, Erring
    <2>14. Closed(r)'
      <3>1. Starts = Starts \o <<>>
        BY StartsAre, ConcatEmptySeq
      <3>2. QED
        BY <2>1, <2>2, <3>1, StartsAre DEF Closed
    <2>15. QED
      BY <2>3, <2>5, <2>10, <2>11, <2>12, <2>13, <2>14 DEF Output
  <1>4. QED
    BY <1>2, <1>3, ArriveMove

\* The answer in one piece: what the worker said, then the finish; or the error.
LEMMA Collected ==
  ASSUME NEW m \in Seq(Event)
  PROVE  LET TA == {"text", "aside"}
             k  == Kinds(m, TA)
             o  == Append(k, Finish)
         IN /\ k \in Seq(Body) /\ o = k \o <<Finish>>
            /\ Kinds(o, Closers) = <<Finish>> /\ Kinds(o, TA) = k
  <1> DEFINE TA == {"text", "aside"}
             k  == Kinds(m, TA)
             o  == Append(k, Finish)
             E  == {e \in Event : e[1] \in TA}
  <1>1. k \in Seq(E)
    BY KindsType
  <1>2. /\ E \subseteq Body /\ Body \subseteq Frame /\ \A e \in E : e[1] \in TA
        /\ \A e \in Body : e[1] \notin Closers
    BY DEF Event, Body, Frame, Closers
  <1>3. Finish \in Frame /\ Finish[1] \in Closers /\ Finish[1] \notin TA
    BY DEF Finish, Frame, Closers
  <1> HIDE DEF k, TA, E
  <1>4. k \in Seq(Body) /\ k \in Seq(Frame)
    BY <1>1, <1>2, SeqMonotonic
  <1>5. Kinds(k, TA) = k /\ Kinds(k, Closers) = <<>>
    BY <1>1, <1>2, <1>4, KindsAll, KindsNone
  <1>6. /\ Kinds(Append(k, Finish), Closers) = Append(Kinds(k, Closers), Finish)
        /\ Kinds(Append(k, Finish), TA) = Kinds(k, TA)
    BY <1>3, <1>4, KindsAppend
  <1>7. Append(<<>>, Finish) = <<Finish>>
    OBVIOUS
  <1>8. Append(k, Finish) = k \o <<Finish>>
    BY <1>3, <1>4, AppendIsConcat
  <1> USE DEF k, TA
  <1>9. QED
    BY <1>4, <1>5, <1>6, <1>7, <1>8

LEMMA CollectOutput ==
  ASSUME PathTypeOK, NEW r \in Request, Phase(r), Output(r), Collect(r)
  PROVE  Stage(r)' /\ Output(r)' /\ Phase(r)' /\ PathTypeOK' /\ \A q \in Request : q # r => Same(q)
  <1> DEFINE TA == {"text", "aside"}
             k  == Kinds(made[r], TA)
  <1>1. /\ cons[r] = "next" /\ style[r] = "whole" /\ turn[r] = "over"
    BY CollectMove
  <1>2. PICK o \in Seq(Frame) :
          /\ AnswerMove(r, "done", turn[r], o, open[r], <<>>)
          /\ fate[r] = "broken" => o = <<>>
          /\ fate[r] \in Category => o = <<Error>>
          /\ fate[r] \notin Failure => o = Append(k, Finish)
    BY CollectMove
  <1>3. /\ cons'[r] = "done" /\ turn'[r] = turn[r] /\ out'[r] = o
        /\ style'[r] = style[r] /\ made'[r] = made[r] /\ fate'[r] = fate[r]
        /\ (Served(r)' <=> Served(r))
    BY <1>2, AnswerKeeps
  <1>4. fate[r] \notin Failure => fate[r] = "ok" /\ Served(r)
    BY <1>1, Kept DEF Phase, Early
  <1>5. Phase(r)'
    BY <1>1, <1>2, AnswerPhase
  <1>6. "done" \in AnswerStates /\ <<>> \in Seq(Item)
    BY EmptySeq DEF AnswerStates
  <1>7. PathTypeOK' /\ \A q \in Request : q # r => Same(q)
    <2>1. AnswerMove(r, "done", turn[r], o, open[r], <<>>)
      BY <1>2
    <2>2. turn[r] \in TurnStates /\ open[r] \in BOOLEAN
      BY Kept
    <2>3. QED
      BY <1>6, <2>1, <2>2, AnswerTypes
  <1>8. Stage(r)' /\ Ended(r)' /\ Broken(r)' /\ Passed(r)'
    BY <1>1, <1>3 DEF Stage, Live, Ended, Broken, Passed
  <1>9. Whole(r)'
    BY <1>2, <1>3, <1>4, StatesAre DEF Whole
  <1>10. Shown(r)' = TA
    BY <1>1, <1>3 DEF Shown
  <1>11. CASE fate[r] \in Category
    <2>1. o = <<Error>> /\ Error[1] \in Closers
      BY <1>2, <1>11 DEF Error, Closers
    <2>2. Kinds(o, Closers) = <<Error>>
      BY <2>1, KindsOne
    <2>3. Sent(r)' = <<Error>>
      BY <1>3, <2>2 DEF Sent
    <2>4. Complete(r)' /\ Erring(r)'
      BY <1>1, <1>3, <1>11, <2>3, Lists DEF Complete, Erring
    <2>5. <<>> \in Seq(Body) /\ <<>> \o o = o
      BY EmptySeq, ConcatEmptySeq
    <2>6. Closed(r)'
      BY <1>3, <2>1, <2>3, <2>5 DEF Closed
    <2>7. QED
      BY <1>5, <1>7, <1>8, <1>9, <2>4, <2>6 DEF Output
  <1>12. CASE fate[r] \notin Failure
    <2>1. o = Append(k, Finish) /\ made[r] \in Seq(Event)
      BY <1>2, <1>12, Kept
    <2>2. k \in Seq(Body) /\ o = k \o <<Finish>> /\ Kinds(o, Closers) = <<Finish>> /\ Kinds(o, TA) = k
      BY <2>1, Collected
    <2>3. Sent(r)' = <<Finish>>
      BY <1>3, <2>2 DEF Sent
    <2>4. Complete(r)' /\ Erring(r)'
      BY <1>3, <1>4, <1>10, <1>12, <2>2, <2>3, Lists DEF Complete, Erring
    <2>5. Closed(r)'
      BY <1>3, <2>2, <2>3 DEF Closed
    <2>6. QED
      BY <1>5, <1>7, <1>8, <1>9, <2>4, <2>5 DEF Output
  <1>13. CASE fate[r] = "broken"
    <2>1. Sent(r)' = <<>> /\ o = <<>>
      BY <1>2, <1>3, <1>13, KindsNil DEF Sent
    <2>2. Complete(r)' /\ Erring(r)'
      BY <2>1, Lists DEF Complete, Erring
    <2>3. <<>> \in Seq(Body) /\ <<>> \o <<>> = <<>>
      BY EmptySeq, ConcatEmptySeq
    <2>4. Closed(r)'
      BY <1>3, <2>1, <2>3 DEF Closed
    <2>5. QED
      BY <1>5, <1>7, <1>8, <1>9, <2>2, <2>4 DEF Output
  <1>14. QED
    BY <1>11, <1>12, <1>13, StatesAre

\* What a stream sends of the worker's events leaves its queue.
LEMMA TakePassed ==
  ASSUME PathTypeOK, NEW r \in Request, Passed(r), Take(r)
  PROVE  Passed(r)'
  <1> DEFINE TA   == {"text", "aside"}
             sh   == Shown(r)
             all  == queue[r]
             item == Head(all)
             rest == Tail(all)
             A == Kinds(out[r], TA)
             Q == Kinds(rest, sh)
             shown == IF item \in Updates /\ item[1] \in sh THEN <<item>> ELSE <<>>
  <1>1. all # <<>> /\ all \in Seq(Item) /\ item \in Item /\ rest \in Seq(Item) /\ style[r] # "whole"
    BY TakeMove, Kept
  <1>2. PICK c, b : AnswerMove(r, c, turn[r], out[r] \o Frames(r, item), b, rest)
    BY TakeMove
  <1>3. queue'[r] = rest /\ made'[r] = made[r] /\ style'[r] = style[r]
    <2> DEFINE g == out[r] \o Frames(r, item)
    <2> HIDE DEF g, rest
    <2>1. AnswerMove(r, c, turn[r], g, b, rest)
      BY <1>2 DEF g
    <2>2. QED
      BY <2>1, AnswerKeeps
  <1>4. Kinds(out'[r], TA) = A \o shown
    BY TakeFacts
  <1>5. Kinds(all, sh) = shown \o Q
    <2>1. /\ item[1] \in sh => Kinds(all, sh) = <<item>> \o Q
          /\ item[1] \notin sh => Kinds(all, sh) = Q
      <3> HIDE DEF all, sh
      <3>1. QED
        BY <1>1, KindsHead
    <2>2. item[1] \in sh => item \in Updates
      BY <1>1, ItemCases DEF Shown, Dones, Error, End
    <2>3. Q \in Seq(Item)
      <3> HIDE DEF sh, rest
      <3>1. QED
        BY <1>1, KindsType
    <2>4. <<>> \o Q = Q
      <3> HIDE DEF Q
      <3>1. QED
        BY <2>3, ConcatEmptySeq
    <2>5. QED
      BY <2>1, <2>2, <2>4
  <1>6. A \in Seq(Piece) /\ shown \in Seq(Piece) /\ Q \in Seq(Piece)
    <2>1. A \in Seq(Piece)
      BY ShownKinds
    <2>2. item \in Piece /\ Item \subseteq Piece
      BY <1>1 DEF Piece
    <2>3. shown \in Seq(Piece)
      <3>1. <<item>> \in Seq(Piece) /\ <<>> \in Seq(Piece)
        BY <2>2
      <3>2. QED
        BY <3>1
    <2>4. Q \in Seq(Item)
      <3> HIDE DEF sh, rest
      <3>1. QED
        BY <1>1, KindsType
    <2> HIDE DEF A, shown, Q
    <2>5. QED
      BY <2>1, <2>2, <2>3, <2>4, SeqMonotonic
  <1>7. A \o Kinds(all, sh) = Kinds(made[r], sh)
    BY <1>1 DEF Passed
  <1>8. Shown(r)' = sh
    BY <1>3 DEF Shown
  <1> HIDE DEF A, shown, Q
  <1>9. (A \o shown) \o Q = A \o (shown \o Q)
    BY <1>6, ConcatAssociative
  <1>10. Kinds(out'[r], TA) \o Q = Kinds(made'[r], sh)
    BY <1>3, <1>4, <1>5, <1>7, <1>9
  <1>11. QED
    BY <1>3, <1>8, <1>10 DEF Passed, Q

\* What ends the stream comes last.
LEMMA TakeClosed ==
  ASSUME PathTypeOK, NEW r \in Request, Stage(r), Closed(r), Take(r)
  PROVE  Closed(r)'
  <1> DEFINE item == Head(queue[r])
             cs   == Sent(r)
  <1>1. PICK body \in Seq(Body), cl \in Seq(Frame) :
          /\ Ends(r, item, body, cl)
          /\ out'[r] = out[r] \o (body \o cl) /\ Sent(r)' = cs \o cl
    BY TakeFacts
  <1>2. PICK b \in Seq(Body) : out[r] = b \o cs
    BY DEF Closed
  <1>3. /\ cons[r] = "next" /\ style[r] # "whole" /\ queue[r] # <<>>
    BY TakeMove
  <1>4. cs = <<>> \/ (cs = <<Finish>> /\ queue[r] = <<End>>)
    BY <1>3 DEF Stage, Live
  <1>5. b \in Seq(Frame) /\ body \in Seq(Frame) /\ cs \in Seq(Frame)
    <2>1. Body \subseteq Frame
      BY DEF Body
    <2>2. QED
      BY <2>1, Kept, KindsType, SeqMonotonic DEF Sent
  <1>6. b \o body \in Seq(Body)
    BY ConcatProperties
  <1> HIDE DEF cs
  <1>7. CASE cs = <<>>
    <2>1. b \o <<>> = b /\ <<>> \o cl = cl
      BY ConcatEmptySeq
    <2>2. b \o (body \o cl) = (b \o body) \o cl
      BY <1>5, Associates, Zenon
    <2>3. out'[r] = (b \o body) \o Sent(r)'
      BY <1>1, <1>2, <1>7, <2>1, <2>2
    <2>4. QED
      BY <1>6, <2>3 DEF Closed
  <1>8. CASE cs # <<>>
    <2>1. item = End
      BY <1>4, <1>8
    <2>2. body = <<>>
      BY <1>1, <2>1 DEF Ends
    <2>3. <<>> \o cl = cl
      BY ConcatEmptySeq
    <2>4. (b \o cs) \o cl = b \o (cs \o cl)
      BY <1>5, ConcatAssociative
    <2>5. out'[r] = b \o Sent(r)'
      BY <1>1, <1>2, <2>2, <2>3, <2>4
    <2>6. QED
      BY <2>5 DEF Closed
  <1>9. QED
    BY <1>7, <1>8

LEMMA TakeOutput ==
  ASSUME PathTypeOK, NEW r \in Request, Phase(r), Stage(r), Output(r), Take(r)
  PROVE  Stage(r)' /\ Output(r)' /\ Phase(r)' /\ PathTypeOK' /\ \A q \in Request : q # r => Same(q)
  <1>1. /\ cons[r] = "next" /\ style[r] # "whole" /\ queue[r] # <<>>
        /\ Tail(queue[r]) \in Seq(Item)
    BY TakeMove
  <1> DEFINE o == out[r] \o Frames(r, Head(queue[r]))
             rest == Tail(queue[r])
  <1>2. PICK c \in {"done", "next", "send"}, b \in BOOLEAN : AnswerMove(r, c, turn[r], o, b, rest)
    BY TakeMove
  <1>3. o \in Seq(Frame)
    BY TakeMove
  <1> HIDE DEF o
  <1>4. /\ cons'[r] = c /\ turn'[r] = turn[r] /\ queue'[r] = rest /\ style'[r] = style[r]
        /\ made'[r] = made[r] /\ fate'[r] = fate[r] /\ (Served(r)' <=> Served(r))
    BY <1>2, AnswerKeeps
  <1>5. c \in AnswerStates /\ turn[r] \in TurnStates
    BY Kept DEF AnswerStates
  <1>6. PathTypeOK' /\ \A q \in Request : q # r => Same(q)
    <2>1. rest \in Seq(Item)
      BY <1>1
    <2> HIDE DEF rest
    <2>2. QED
      BY <1>2, <1>3, <1>5, <2>1, AnswerTypes
  <1>7. Stage(r)' /\ Ended(r)' /\ (c = "done" => turn[r] = "over")
    BY <1>4, TakeStage
  <1>8. Phase(r)'
    <2>1. turn[r] # "none"
      BY <1>1 DEF Phase
    <2> HIDE DEF rest
    <2>2. QED
      BY <1>1, <1>2, <1>7, <2>1, AnswerPhase
  <1>9. Broken(r)' /\ Whole(r)'
    BY <1>1, <1>4 DEF Broken, Whole
  <1>10. Passed(r)'
    BY TakePassed DEF Output
  <1>11. Closed(r)'
    BY TakeClosed DEF Output
  <1>12. Live(r)
    BY <1>1 DEF Live
  <1>13. Sent(r) = <<>> \/ (Sent(r) = <<Finish>> /\ queue[r] = <<End>>)
    BY <1>1, <1>12 DEF Stage
  <1>14. Erring(r)'
    <2>1. Sent(r)' = Sent(r) => Sent(r)' \notin {<<Error>>, <<Error, End>>}
      BY <1>13, Lists
    <2>2. Sent(r)' # Sent(r) => Erring(r)'
      BY <1>4, TakeStage, Lists DEF Erring
    <2>3. QED
      BY <2>1, <2>2 DEF Erring
  <1>15. Complete(r)'
    <2>1. SUFFICES ASSUME Sent(r)' \in {<<Finish>>, <<Finish, End>>} PROVE Complete(r)'
      BY DEF Complete
    <2>2. Served(r) /\ rest \in {<<>>, <<End>>}
      <3>1. CASE Sent(r) = <<Finish>> /\ queue[r] = <<End>>
        <4>1. rest = <<>>
          BY <3>1
        <4>2. Served(r)
          BY <3>1 DEF Output, Complete
        <4>3. QED
          BY <4>1, <4>2
      <3>2. CASE Sent(r) = <<>>
        <4>1. Sent(r)' # Sent(r)
          BY <2>1, <3>2, Lists
        <4>2. Sent(r)' = <<Finish>> /\ queue'[r] \in {<<>>, <<End>>} /\ Served(r)
          BY <2>1, <3>2, <4>1, TakeStage, Lists
        <4>3. QED
          BY <1>4, <4>2
      <3>3. QED
        BY <1>13, <3>1, <3>2
    <2>3. Kinds(rest, Shown(r)) = <<>>
      <3>1. End[1] \notin Shown(r)
        BY DEF End, Shown
      <3>2. Kinds(<<End>>, Shown(r)) = <<>> /\ Kinds(<<>>, Shown(r)) = <<>>
        BY <3>1, KindsOne, KindsNil
      <3>3. QED
        BY <2>2, <3>2
    <2>4. Shown(r)' = Shown(r)
      BY <1>4 DEF Shown
    <2> DEFINE A == Kinds(out'[r], {"text", "aside"})
    <2>5. A \o <<>> = Kinds(made'[r], Shown(r)')
      BY <1>1, <1>4, <1>10, <2>3, <2>4 DEF Passed
    <2>6. A \in Seq(Frame)
      <3> DEFINE x == out'[r]
      <3>1. x \in Seq(Frame)
        BY <1>6 DEF PathTypeOK
      <3> HIDE DEF x
      <3>2. Kinds(x, {"text", "aside"}) \in Seq(Frame)
        BY <3>1, KindsType
      <3>3. QED
        BY <3>2 DEF x
    <2>7. A \o <<>> = A
      <3> HIDE DEF A
      <3>1. QED
        BY <2>6, ConcatEmptySeq
    <2>8. QED
      BY <1>4, <2>2, <2>5, <2>7 DEF Complete
  <1>16. QED
    BY <1>6, <1>7, <1>8, <1>9, <1>10, <1>11, <1>14, <1>15 DEF Output

\* The steps of an answer that send nothing of the turn.
LEMMA StillSteps ==
  ASSUME PathTypeOK, NEW r \in Request, Phase(r), Stage(r), Output(r),
         SendDone(r) \/ Ping(r) \/ Leave(r) \/ Joined(r)
  PROVE  Stage(r)' /\ Output(r)' /\ Phase(r)' /\ PathTypeOK' /\ \A q \in Request : q # r => Same(q)
  <1>1. PICK c \in {"next", "send", "gone", "closing"}, y \in TurnStates :
          /\ AnswerMove(r, c, y, out[r], open[r], queue[r])
          /\ y = turn[r] \/ (turn[r] = "none" /\ y = "ready")
          /\ cons[r] \in {"send", "next", "closing", "joining"}
          /\ c \in {"next", "send"} => cons[r] \in {"next", "send"}
          /\ y = "none" => c = "gone"
          /\ c = "gone" => y \in {"none", "over"}
          /\ cons[r] = "joining" => c = "gone"
    <2>1. turn[r] \in TurnStates
      BY Kept
    <2>2. CASE SendDone(r)
      <3>1. cons[r] = "send"
        BY <2>2, SendDoneMove
      <3>2. PICK y \in TurnStates : /\ AnswerMove(r, "next", y, out[r], open[r], queue[r])
                                    /\ y = turn[r] \/ (turn[r] = "none" /\ y = "ready")
        BY <2>2, SendDoneMove
      <3>3. y # "none"
        BY <2>2, <3>2, AnswerKeeps DEF SendDone, Turn, PathTypeOK
      <3>4. QED
        BY <3>1, <3>2, <3>3
    <2>3. CASE Ping(r)
      <3>1. cons[r] = "next" /\ AnswerMove(r, "send", turn[r], out[r], open[r], queue[r])
        BY <2>3, PingMove
      <3>2. turn[r] # "none"
        BY <3>1 DEF Phase
      <3>3. QED
        BY <2>1, <3>1, <3>2
    <2>4. CASE Leave(r)
      <3>1. cons[r] \in {"next", "send"}
        BY <2>4, LeaveMove
      <3>2. PICK c \in {"gone", "closing"} : /\ AnswerMove(r, c, turn[r], out[r], open[r], queue[r])
                                             /\ c = "gone" <=> turn[r] = "none"
        BY <2>4, LeaveMove
      <3>3. QED
        BY <2>1, <3>1, <3>2
    <2>5. CASE Joined(r)
      <3>1. /\ cons[r] \in {"closing", "joining"} /\ turn[r] = "over"
            /\ AnswerMove(r, "gone", turn[r], out[r], open[r], queue[r])
        BY <2>5, JoinedMove
      <3>2. QED
        BY <2>1, <3>1
    <2>6. QED
      BY <2>2, <2>3, <2>4, <2>5
  <1>2. AnswerMove(r, c, y, out[r], open[r], queue[r]) /\ c \in AnswerStates
    BY <1>1 DEF AnswerStates
  <1>3. Stage(r)' /\ Output(r)'
    BY <1>1, <1>2, StillOutput
  <1>4. Phase(r)'
    BY <1>1, <1>2, AnswerPhase
  <1>5. PathTypeOK' /\ \A q \in Request : q # r => Same(q)
    BY <1>2, Kept, AnswerTypes
  <1>6. QED
    BY <1>3, <1>4, <1>5

-------------------------------------------------------------------------------
(* The counters of Metrics.                                                  *)

\* Turns that failed and were counted, so without the refusals of the gate; and those that
\* passed it and have not failed, or only broke off.
Failures == {r \in Request : turn[r] = "over" /\ fate[r] \in Category \ {"auth"}}
Serving  == {r \in Request : \/ turn[r] \in {"lease", "call", "prompt", "retire"}
                             \/ turn[r] = "over" /\ Served(r)
                             \/ turn[r] = "over" /\ fate[r] = "broken" /\ style[r] # "whole"}

Counted ==
  /\ Cardinality(Failures) <= errors
  /\ errors + Cardinality(Serving) <= requests

LEMMA Finite ==
  ASSUME NEW S \in SUBSET Request
  PROVE  IsFiniteSet(S) /\ Cardinality(S) \in Nat
  BY PathAssumption, FS_Subset, FS_CardinalityType

LEMMA OneMore ==
  ASSUME NEW S \in SUBSET Request, NEW T \in SUBSET Request, NEW r \in Request
  PROVE  /\ T \subseteq S => Cardinality(T) <= Cardinality(S)
         /\ T \subseteq S \cup {r} => Cardinality(T) <= Cardinality(S) + 1
         /\ r \in S /\ T \subseteq S \ {r} => Cardinality(T) + 1 <= Cardinality(S)
  <1>1. /\ IsFiniteSet(S) /\ Cardinality(S) \in Nat /\ Cardinality(T) \in Nat /\ IsFiniteSet(T)
    BY Finite
  <1>2. T \subseteq S => Cardinality(T) <= Cardinality(S)
    BY <1>1, FS_Subset
  <1>3. T \subseteq S \cup {r} => Cardinality(T) <= Cardinality(S) + 1
    <2>1. IsFiniteSet(S \cup {r}) /\ Cardinality(S \cup {r}) \in Nat
      BY Finite
    <2>2. Cardinality(S \cup {r}) <= Cardinality(S) + 1
      <3>1. CASE r \in S
        <4>1. S \cup {r} = S
          BY <3>1
        <4>2. QED
          BY <1>1, <4>1
      <3>2. CASE r \notin S
        <4>1. Cardinality(S \cup {r}) = Cardinality(S) + 1
          BY <1>1, <3>2, FS_AddElement
        <4>2. QED
          BY <1>1, <4>1
      <3>3. QED
        BY <3>1, <3>2
    <2>3. T \subseteq S \cup {r} => Cardinality(T) <= Cardinality(S \cup {r})
      BY <2>1, FS_Subset
    <2>4. QED
      BY <1>1, <2>1, <2>2, <2>3
  <1>4. r \in S /\ T \subseteq S \ {r} => Cardinality(T) + 1 <= Cardinality(S)
    <2>1. r \in S => Cardinality(S \ {r}) = Cardinality(S) - 1
      BY <1>1, FS_RemoveElement
    <2>2. IsFiniteSet(S \ {r}) /\ Cardinality(S \ {r}) \in Nat
      BY Finite
    <2>3. T \subseteq S \ {r} => Cardinality(T) <= Cardinality(S \ {r})
      BY <2>2, FS_Subset
    <2>4. QED
      BY <1>1, <2>1, <2>2, <2>3
  <1>5. QED
    BY <1>2, <1>3, <1>4

LEMMA TurnCounted ==
  ASSUME PathTypeOK, NEW r \in Request, Phase(r), Counted, TurnEffect(r), Phase(r)',
         \A q \in Request : q # r => Same(q)
  PROVE  Counted'
  <1>1. PICK y \in TurnStates, how \in {"none", "ok", "cancelled"} \cup Failure,
             new \in Seq(Event), c \in AnswerStates :
          TurnMove(r, y, how, new, c) /\ Counts(r, y, how)
    BY DEF TurnEffect
  <1>2. turn'[r] = y /\ fate'[r] = how /\ style'[r] = style[r]
    BY <1>1 DEF TurnMove, Moved, PathTypeOK
  <1>3. \A q \in Request : q # r => /\ q \in Failures' <=> q \in Failures
                                    /\ q \in Serving' <=> q \in Serving
    BY DEF Failures, Serving, Same, Served
  <1>4. Served(r)' <=> Served(r) \/ Finished(r, y, how, new)
    BY <1>1, NewServed
  <1>5. turn[r] \in {"ready", "lease", "call", "prompt", "retire"}
    BY <1>1, Kept DEF TurnMove, Walks, Updated, Finished, Failed, Settles, Cancelled, TurnStates
  <1>6. turn[r] = "ready" => ~Served(r)'
    BY <1>4 DEF Phase, Finished
  <1>7. y = "over" /\ how \in Category => ~Served(r)'
    BY <1>2, StatesAre DEF Phase
  <1>8. /\ r \notin Failures
        /\ r \in Serving <=> turn[r] # "ready"
        /\ r \in Failures' <=> y = "over" /\ how \in Category \ {"auth"}
        /\ r \in Serving' => \/ y \in {"lease", "call", "prompt", "retire"}
                             \/ y = "over" /\ Served(r)'
                             \/ y = "over" /\ how = "broken" /\ style[r] # "whole"
    BY <1>2, <1>5 DEF Failures, Serving
  <1>9. /\ Failures \in SUBSET Request /\ Serving \in SUBSET Request
        /\ Failures' \in SUBSET Request /\ Serving' \in SUBSET Request
    BY DEF Failures, Serving
  <1>10. /\ Cardinality(Failures) \in Nat /\ Cardinality(Serving) \in Nat
         /\ Cardinality(Failures') \in Nat /\ Cardinality(Serving') \in Nat
         /\ errors \in Nat /\ requests \in Nat
    BY <1>9, Finite DEF PathTypeOK
  <1>11. /\ Cardinality(Failures) <= errors /\ errors + Cardinality(Serving) <= requests
    BY DEF Counted
  <1>12. CASE turn[r] = "ready" /\ y = "over" /\ how \in {"auth", "cancelled"}
              /\ requests' = requests /\ errors' = errors
    <2>1. Failures' \subseteq Failures /\ Serving' \subseteq Serving
      BY <1>3, <1>6, <1>8, <1>9, <1>12, StatesAre
    <2>2. Cardinality(Failures') <= Cardinality(Failures) /\ Cardinality(Serving') <= Cardinality(Serving)
      BY <1>9, <2>1, OneMore
    <2>3. QED
      BY <1>10, <1>11, <1>12, <2>2 DEF Counted
  <1>13. CASE turn[r] = "ready" /\ y = "lease" /\ requests' = requests + 1 /\ errors' = errors
    <2>1. Failures' \subseteq Failures /\ Serving' \subseteq Serving \cup {r}
      BY <1>3, <1>8, <1>9, <1>13
    <2>2. Cardinality(Failures') <= Cardinality(Failures) /\ Cardinality(Serving') <= Cardinality(Serving) + 1
      BY <1>9, <2>1, OneMore
    <2>3. QED
      BY <1>10, <1>11, <1>13, <2>2 DEF Counted
  <1>14. CASE turn[r] = "ready" /\ y = "over" /\ how \in Category
              /\ requests' = requests + 1 /\ errors' = errors + 1
    <2>1. Failures' \subseteq Failures \cup {r} /\ Serving' \subseteq Serving
      BY <1>3, <1>6, <1>8, <1>9, <1>14, StatesAre
    <2>2. Cardinality(Failures') <= Cardinality(Failures) + 1 /\ Cardinality(Serving') <= Cardinality(Serving)
      BY <1>9, <2>1, OneMore
    <2>3. QED
      BY <1>10, <1>11, <1>14, <2>2 DEF Counted
  <1>15. CASE turn[r] # "ready" /\ y = "over" /\ how \in Category
              /\ requests' = requests /\ errors' = errors + 1
    <2>1. Failures' \subseteq Failures \cup {r} /\ Serving' \subseteq Serving \ {r} /\ r \in Serving
      BY <1>3, <1>7, <1>8, <1>9, <1>15, StatesAre
    <2>2. Cardinality(Failures') <= Cardinality(Failures) + 1 /\ Cardinality(Serving') + 1 <= Cardinality(Serving)
      BY <1>9, <2>1, OneMore
    <2>3. QED
      BY <1>10, <1>11, <1>15, <2>2 DEF Counted
  <1>16. CASE turn[r] # "ready" /\ ~(y = "over" /\ how \in Category)
              /\ requests' = requests /\ errors' = errors
    <2>1. Failures' \subseteq Failures /\ Serving' \subseteq Serving
      BY <1>3, <1>8, <1>9, <1>16
    <2>2. Cardinality(Failures') <= Cardinality(Failures) /\ Cardinality(Serving') <= Cardinality(Serving)
      BY <1>9, <2>1, OneMore
    <2>3. QED
      BY <1>10, <1>11, <1>16, <2>2 DEF Counted
  <1>17. CASE turn[r] = "ready" /\ y = "over" /\ how = "broken"
              /\ requests' = requests + 1 /\ errors' = errors
    <2>1. Failures' \subseteq Failures /\ Serving' \subseteq Serving \cup {r}
      BY <1>3, <1>8, <1>9, <1>17, StatesAre
    <2>2. Cardinality(Failures') <= Cardinality(Failures) /\ Cardinality(Serving') <= Cardinality(Serving) + 1
      BY <1>9, <2>1, OneMore
    <2>3. QED
      BY <1>10, <1>11, <1>17, <2>2 DEF Counted
  <1>18. CASE turn[r] = "ready" /\ y = "over" /\ how = "broken" /\ style[r] = "whole"
              /\ requests' = requests /\ errors' = errors
    <2>1. Failures' \subseteq Failures /\ Serving' \subseteq Serving
      BY <1>3, <1>6, <1>8, <1>9, <1>18, StatesAre
    <2>2. Cardinality(Failures') <= Cardinality(Failures) /\ Cardinality(Serving') <= Cardinality(Serving)
      BY <1>9, <2>1, OneMore
    <2>3. QED
      BY <1>10, <1>11, <1>18, <2>2 DEF Counted
  <1>19. QED
    BY <1>1, <1>12, <1>13, <1>14, <1>15, <1>16, <1>17, <1>18 DEF Counts

\* The answer's steps do not touch the counters.
LEMMA AnswerCounted ==
  ASSUME PathTypeOK, NEW r \in Request, Counted, NEW c, NEW y, NEW o, NEW b, NEW v,
         AnswerMove(r, c, y, o, b, v), y = turn[r] \/ (turn[r] = "none" /\ y = "ready")
  PROVE  Counted'
  <1>1. /\ made' = made /\ fate' = fate /\ requests' = requests /\ errors' = errors
        /\ style' = style
    BY DEF AnswerMove, counters
  <1>2. turn' = [turn EXCEPT ![r] = y] /\ turn \in [Request -> TurnStates]
    BY DEF AnswerMove, PathTypeOK
  <1>3. \A q \in Request : Served(q)' <=> Served(q)
    BY <1>1 DEF Served
  <1>4. Failures' = Failures
    BY <1>1, <1>2 DEF Failures
  <1>5. Serving' = Serving
    BY <1>1, <1>2, <1>3 DEF Serving
  <1>6. QED
    BY <1>1, <1>4, <1>5 DEF Counted

-------------------------------------------------------------------------------
(* The invariant.                                                            *)

Stands(r) == Phase(r) /\ Stage(r) /\ Output(r)

PathInv == PathTypeOK /\ (\A r \in Request : Stands(r)) /\ Counted

LEMMA SameStands == ASSUME NEW q \in Request, Stands(q), Same(q) PROVE Stands(q)'
  BY SamePhase, SameStage, SameOutput DEF Stands

\* A step of r keeps the invariant if it keeps r's part of it.
LEMMA OneStands ==
  ASSUME PathInv, NEW r \in Request, PathTypeOK', Stage(r)', Output(r)', Phase(r)', Counted',
         \A q \in Request : q # r => Same(q)
  PROVE  PathInv'
  <1>1. ASSUME NEW q \in Request, q # r PROVE Stands(q)'
    <2>1. Stands(q) /\ Same(q)
      BY <1>1 DEF PathInv
    <2>2. QED
      BY <2>1, SameStands
  <1>2. Stands(r)'
    BY DEF Stands
  <1>3. \A q \in Request : Stands(q)'
    BY <1>1, <1>2
  <1>4. QED
    BY <1>3 DEF PathInv

LEMMA PathInit == ASSUME Init PROVE PathInv
  <1>1. <<>> \in Seq(Frame) /\ <<>> \in Seq(Event) /\ <<>> \in Seq(Item) /\ <<>> \in Seq(Updates)
        /\ <<>> \in Seq(Body)
    BY EmptySeq
  <1>2. /\ \A r \in Request : /\ style[r] \in AllStyles /\ cons[r] = "off" /\ out[r] = <<>>
                              /\ open[r] = FALSE /\ turn[r] = "none" /\ made[r] = <<>>
                              /\ fate[r] = "none" /\ queue[r] = <<>> /\ lent[r] = NoWorker
                              /\ r \notin holders
        /\ requests = 0 /\ errors = 0
    BY PathAssumption DEF Init, Pool!LeasingInit
  <1>3. PathTypeOK
    <2>1. style \in [Request -> AllStyles]
      BY PathAssumption DEF Init
    <2>2. "off" \in AnswerStates /\ "none" \in TurnStates
      BY DEF AnswerStates, TurnStates
    <2>3. QED
      BY <1>1, <2>1, <2>2 DEF Init, PathTypeOK, Pool!LeasingInit
  <1>4. ASSUME NEW r \in Request PROVE Stands(r)
    <2>1. /\ Kinds(out[r], Closers) = <<>> /\ Kinds(out[r], {"text", "aside"}) = <<>>
          /\ Kinds(made[r], {"done"}) = <<>> /\ Kinds(made[r], Shown(r)) = <<>>
          /\ Kinds(queue[r], Shown(r)) = <<>>
      BY <1>2, KindsNil
    <2>2. ~Served(r) /\ Sent(r) = <<>> /\ turn[r] \in Early
      BY <1>2, <2>1 DEF Served, Sent, Early
    <2>3. Fed(r, <<>>) /\ <<>> \o <<>> = <<>>
      <3>1. <<>> \o <<>> = <<>>
        BY <1>1, ConcatEmptySeq
      <3>2. QED
        BY <1>1, <1>2, <3>1 DEF Fed
    <2>4. Phase(r)
      BY <1>2, <2>2 DEF Phase, Leased
    <2>5. Stage(r)
      BY <2>2, <2>3 DEF Stage
    <2>6. Ended(r) /\ Broken(r) /\ Whole(r) /\ Erring(r) /\ Complete(r)
      BY <1>2, <2>2, Lists DEF Ended, Broken, Whole, Erring, Complete
    <2>7. Passed(r) /\ Closed(r)
      BY <1>1, <1>2, <2>1, <2>2, <2>3 DEF Passed, Closed
    <2>8. QED
      BY <2>4, <2>5, <2>6, <2>7 DEF Stands, Output
  <1>5. Counted
    <2>1. Failures = {} /\ Serving = {}
      <3>1. \A r \in Request : turn[r] = "none"
        BY <1>2
      <3>2. QED
        BY <3>1 DEF Failures, Serving
    <2>2. QED
      BY <1>2, <2>1, FS_EmptySet DEF Counted
  <1>6. QED
    BY <1>3, <1>4, <1>5 DEF PathInv

\* Every answer step is a move of the answer.
LEMMA AnswerSteps ==
  ASSUME PathTypeOK, NEW r \in Request,
         AnswerStep(r) \/ Arrive(r) \/ SendDone(r) \/ Ping(r) \/ Leave(r), Phase(r)
  PROVE  \E c, y, o, b, v :
           AnswerMove(r, c, y, o, b, v) /\ (y = turn[r] \/ (turn[r] = "none" /\ y = "ready"))
  <1>1. Take(r) => \E c, o, b, v : AnswerMove(r, c, turn[r], o, b, v)
    BY TakeMove
  <1>2. Collect(r) => \E c, o, b, v : AnswerMove(r, c, turn[r], o, b, v)
    BY CollectMove
  <1>3. Joined(r) \/ Leave(r) \/ Ping(r) => \E c, o, b, v : AnswerMove(r, c, turn[r], o, b, v)
    BY JoinedMove, LeaveMove, PingMove
  <1>4. SendDone(r) => \E c, y, o, b, v :
          AnswerMove(r, c, y, o, b, v) /\ (y = turn[r] \/ (turn[r] = "none" /\ y = "ready"))
    BY SendDoneMove
  <1>5. Arrive(r) => \E c, y, o, b, v :
          AnswerMove(r, c, y, o, b, v) /\ (y = turn[r] \/ (turn[r] = "none" /\ y = "ready"))
    BY ArriveMove DEF Phase
  <1>6. QED
    BY <1>1, <1>2, <1>3, <1>4, <1>5 DEF AnswerStep

LEMMA PathNext == ASSUME PathInv, [Next]_vars PROVE PathInv'
  <1>1. PathTypeOK /\ Counted /\ \A r \in Request : Phase(r) /\ Stage(r) /\ Output(r)
    BY DEF PathInv, Stands
  <1>2. ASSUME NEW r \in Request, TurnStep(r) PROVE PathInv'
    <2>1. TurnEffect(r)
      BY <1>1, <1>2, TurnStepEffect DEF Phase
    <2>2. PathTypeOK' /\ \A q \in Request : q # r => Same(q)
      BY <1>1, <2>1, TurnTypes
    <2>3. Phase(r)' /\ Stage(r)' /\ Output(r)'
      BY <1>1, <2>1, TurnPhase, TurnStage, TurnOutput
    <2>4. Counted'
      BY <1>1, <2>1, <2>2, <2>3, TurnCounted
    <2>5. QED
      BY <2>2, <2>3, <2>4, OneStands
  <1>3. ASSUME NEW r \in Request, AnswerStep(r) \/ Arrive(r) \/ SendDone(r) \/ Ping(r) \/ Leave(r)
        PROVE  PathInv'
    <2>1. Stage(r)' /\ Output(r)' /\ Phase(r)' /\ PathTypeOK' /\ \A q \in Request : q # r => Same(q)
      BY <1>1, <1>3, TakeOutput, CollectOutput, ArriveOutput, StillSteps DEF AnswerStep
    <2>2. Counted'
      BY <1>1, <1>3, AnswerSteps, AnswerCounted
    <2>3. QED
      BY <2>1, <2>2, OneStands
  <1>4. ASSUME Shutdown \/ UNCHANGED vars PROVE PathInv'
    <2>1. closed' \in BOOLEAN
      BY <1>1, <1>4 DEF Shutdown, vars, PathTypeOK
    <2>2. UNCHANGED <<style, cons, out, open, turn, made, fate, silent, queue, holders, lent, lost,
                      requests, errors>>
      BY <1>4 DEF Shutdown, vars, answer, turnVars, pool, counters
    <2>3. PathTypeOK'
      BY <1>1, <2>1, <2>2 DEF PathTypeOK
    <2>4. \A q \in Request : Same(q)
      BY <2>2 DEF Same
    <2>5. \A q \in Request : Stands(q)'
      BY <2>4, SameStands DEF PathInv
    <2>6. Counted'
      BY <1>1, <2>2 DEF Counted, Failures, Serving, Served
    <2>7. QED
      BY <2>3, <2>5, <2>6 DEF PathInv
  <1>5. QED
    BY <1>2, <1>3, <1>4 DEF Next

LEMMA PathAlways == Spec => []PathInv
  BY PathInit, PathNext, PTL DEF Spec

-------------------------------------------------------------------------------
(* The theorems.                                                             *)

\* Type correctness: every frame, event and item of a queue is of its kind, and the
\* counters are natural numbers.
THEOREM PathTypes == Spec => []PathTypeOK
  <1>1. PathInv => PathTypeOK
    BY DEF PathInv
  <1>2. QED
    BY <1>1, PathAlways, PTL

\* However an answer ends, its turn has ended before, and nothing is leased for it.
THEOREM PathStreamEndsTurn == Spec => []StreamEndsTurn
  <1>1. ASSUME PathInv PROVE StreamEndsTurn
    BY <1>1 DEF PathInv, Stands, Phase, Leased, StreamEndsTurn
  <1>2. QED
    BY <1>1, PathAlways, PTL

-------------------------------------------------------------------------------
(* What the invariant says of an answer as its client sees it.               *)

LEMMA Prefix ==
  ASSUME NEW X, NEW s \in Seq(X), NEW t \in Seq(X)
  PROVE  IsPrefix(s, s \o t)
  <1> DEFINE w == s \o t
             n == Len(s)
  <1>1. /\ w \in Seq(X) /\ Len(w) = Len(s) + Len(t) /\ Len(s) \in Nat /\ Len(t) \in Nat
        /\ \A i \in 1 .. Len(s) : w[i] = s[i]
    BY ConcatProperties, LenProperties
  <1> HIDE DEF w
  <1>2. \A i \in 1 .. n : s[i] \in X /\ w[i] \in X
    BY <1>1, LenProperties
  <1> DEFINE a == SubSeq(s, 1, n)
             b == SubSeq(w, 1, n)
  <1>3. /\ a \in Seq(X) /\ Len(a) = n - 1 + 1 /\ \A i \in 1 .. n - 1 + 1 : a[i] = s[1 + i - 1]
    BY <1>1, <1>2, SubSeqProperties, SubSeqEmpty, EmptySeq, Z3
  <1>4. /\ b \in Seq(X) /\ Len(b) = n - 1 + 1 /\ \A i \in 1 .. n - 1 + 1 : b[i] = w[1 + i - 1]
    BY <1>1, <1>2, SubSeqProperties, SubSeqEmpty, EmptySeq, Z3
  <1> HIDE DEF a, b
  <1>5. Len(a) = Len(b) /\ \A i \in 1 .. Len(a) : a[i] = b[i]
    BY <1>1, <1>3, <1>4
  <1>6. a = b
    BY <1>3, <1>4, <1>5, SeqEqual
  <1>7. QED
    BY <1>1, <1>6 DEF IsPrefix, a, b, w

LEMMA Reversed ==
  ASSUME NEW X, NEW s \in Seq(X)
  PROVE  /\ Reverse(s) \in Seq(X) /\ Len(Reverse(s)) = Len(s)
         /\ \A i \in 1 .. Len(s) : Reverse(s)[i] = s[(Len(s) - i) + 1]
  <1> DEFINE n == Len(s)
             e(i) == s[(n - i) + 1]
             v == [i \in 1 .. n |-> e(i)]
  <1>1. n \in Nat /\ \A i \in 1 .. n : s[i] \in X
    BY LenProperties
  <1>2. \A i \in 1 .. n : e(i) \in X
    BY <1>1
  <1>3. v \in Seq(X) /\ Len(v) = n /\ \A i \in 1 .. n : v[i] = e(i)
    <2>1. v \in [1 .. n -> X]
      BY <1>2
    <2> HIDE DEF e
    <2>2. QED
      BY <1>1, <2>1
  <1>4. Reverse(s) = v
    BY DEF Reverse
  <1>5. QED
    BY <1>3, <1>4

LEMMA Suffix ==
  ASSUME NEW X, NEW s \in Seq(X), NEW t \in Seq(X)
  PROVE  IsSuffix(t, s \o t)
  <1> DEFINE w == s \o t
             n == Len(t)
             rt == Reverse(t)
             rw == Reverse(w)
  <1>1. /\ w \in Seq(X) /\ Len(w) = Len(s) + n /\ Len(s) \in Nat /\ n \in Nat
        /\ \A i \in 1 .. Len(s) + n : w[i] = IF i <= Len(s) THEN s[i] ELSE t[i - Len(s)]
    BY ConcatProperties, LenProperties
  <1> HIDE DEF w
  <1>2. /\ rt \in Seq(X) /\ Len(rt) = n /\ \A i \in 1 .. n : rt[i] = t[(n - i) + 1]
    BY Reversed
  <1>3. /\ rw \in Seq(X) /\ Len(rw) = Len(w) /\ \A i \in 1 .. Len(w) : rw[i] = w[(Len(w) - i) + 1]
    BY <1>1, Reversed
  <1>4. ASSUME NEW i \in 1 .. n PROVE rw[i] = rt[i]
    <2>1. /\ (Len(w) - i) + 1 = Len(s) + ((n - i) + 1) /\ (n - i) + 1 \in 1 .. n
          /\ i \in 1 .. Len(w)
      BY <1>1
    <2> DEFINE j == (n - i) + 1
    <2>2. Len(s) + j \in 1 .. Len(s) + n /\ ~(Len(s) + j <= Len(s)) /\ (Len(s) + j) - Len(s) = j
      BY <1>1, <2>1
    <2> HIDE DEF j
    <2>3. w[Len(s) + j] = t[j]
      BY <1>1, <2>2
    <2> USE DEF j
    <2>4. rw[i] = w[Len(s) + j]
      BY <1>3, <2>1
    <2>5. QED
      BY <1>2, <2>3, <2>4
  <1> HIDE DEF rt, rw
  <1> DEFINE a == SubSeq(rt, 1, n)
             b == SubSeq(rw, 1, n)
  <1>5. \A i \in 1 .. n : rt[i] \in X /\ rw[i] \in X
    BY <1>2, <1>4, LenProperties
  <1> HIDE DEF n
  <1>6. /\ a \in Seq(X) /\ Len(a) = n - 1 + 1 /\ \A i \in 1 .. n - 1 + 1 : a[i] = rt[1 + i - 1]
    BY <1>1, <1>5, SubSeqProperties, SubSeqEmpty, EmptySeq, Z3
  <1>7. /\ b \in Seq(X) /\ Len(b) = n - 1 + 1 /\ \A i \in 1 .. n - 1 + 1 : b[i] = rw[1 + i - 1]
    BY <1>1, <1>5, SubSeqProperties, SubSeqEmpty, EmptySeq, Z3
  <1> HIDE DEF a, b
  <1>8. Len(a) = Len(b) /\ \A i \in 1 .. Len(a) : a[i] = b[i]
    <2>1. n \in Nat /\ (n - 1) + 1 = n /\ \A i \in 1 .. n : (1 + i) - 1 = i
      BY <1>1
    <2>2. Len(a) = n /\ Len(b) = n
      BY <1>6, <1>7, <2>1
    <2>3. ASSUME NEW i \in 1 .. n PROVE a[i] = b[i]
      <3>1. a[i] = rt[i] /\ b[i] = rw[i]
        BY <1>6, <1>7, <2>1
      <3>2. QED
        BY <1>4, <3>1
    <2>4. QED
      BY <2>2, <2>3
  <1>9. a = b
    BY <1>6, <1>7, <1>8, SeqEqual
  <1>10. Len(rt) <= Len(rw) /\ SubSeq(rt, 1, Len(rt)) = SubSeq(rw, 1, Len(rt))
    BY <1>1, <1>2, <1>3, <1>9 DEF a, b
  <1>11. QED
    BY <1>10 DEF IsSuffix, IsPrefix, rt, rw, w

\* Counting in one frame, in two, and in one list after the other.
LEMMA CountOne ==
  ASSUME NEW e, NEW k
  PROVE  Count(<<e>>, k) = IF e[1] = k THEN 1 ELSE 0
  <1>1. CASE e[1] = k
    <2>1. Kinds(<<e>>, {k}) = <<e>>
      BY <1>1, KindsOne
    <2>2. Len(<<e>>) = 1
      OBVIOUS
    <2>3. QED
      BY <1>1, <2>1, <2>2 DEF Count
  <1>2. CASE e[1] # k
    <2>1. Kinds(<<e>>, {k}) = <<>>
      BY <1>2, KindsOne
    <2>2. QED
      BY <1>2, <2>1 DEF Count
  <1>3. QED
    BY <1>1, <1>2

LEMMA CountTwo ==
  ASSUME NEW d, NEW e, NEW k
  PROVE  Count(<<d, e>>, k) = Count(<<d>>, k) + Count(<<e>>, k)
  <1> DEFINE X == {d, e}
             one == <<d>>
             two == <<e>>
  <1>1. one \in Seq(X) /\ two \in Seq(X) /\ <<d, e>> = one \o two
    <2>1. one \in Seq(X) /\ two \in Seq(X)
      OBVIOUS
    <2>2. <<d>> \o <<e>> = <<d, e>>
      BY Pair
    <2>3. QED
      BY <2>1, <2>2
  <1> HIDE DEF one, two, X
  <1>2. Kinds(one \o two, {k}) = Kinds(one, {k}) \o Kinds(two, {k})
    BY <1>1, KindsConcat
  <1>3. Kinds(one, {k}) \in Seq(X) /\ Kinds(two, {k}) \in Seq(X)
    BY <1>1, KindsType
  <1> DEFINE a == Kinds(one, {k})
             b == Kinds(two, {k})
  <1> HIDE DEF a, b
  <1>4. Len(a \o b) = Len(a) + Len(b)
    BY <1>3, ConcatProperties DEF a, b
  <1>5. QED
    BY <1>1, <1>2, <1>4 DEF a, b, one, two, Count

LEMMA CountConcat ==
  ASSUME NEW X, NEW s \in Seq(X), NEW t \in Seq(X), NEW k
  PROVE  /\ Count(s \o t, k) = Count(s, k) + Count(t, k)
         /\ Count(s, k) \in Nat /\ Count(t, k) \in Nat
  <1> DEFINE a == Kinds(s, {k})
             b == Kinds(t, {k})
  <1>1. Kinds(s \o t, {k}) = a \o b
    BY KindsConcat
  <1>2. a \in Seq(X) /\ b \in Seq(X)
    BY KindsType
  <1> HIDE DEF a, b
  <1>3. Len(a \o b) = Len(a) + Len(b) /\ Len(a) \in Nat /\ Len(b) \in Nat
    BY <1>2, ConcatProperties, LenProperties
  <1>4. QED
    BY <1>1, <1>3 DEF Count, a, b

\* The counts of what can end an answer.
LEMMA Tallies ==
  /\ \A k : Count(<<>>, k) = 0
  /\ \A k \in Closers :
       /\ Count(<<Finish>>, k) = (IF k = "finish" THEN 1 ELSE 0)
       /\ Count(<<Error>>, k) = (IF k = "error" THEN 1 ELSE 0)
       /\ Count(<<Finish, End>>, k) = (IF k \in {"finish", "end"} THEN 1 ELSE 0)
       /\ Count(<<Error, End>>, k) = (IF k \in {"error", "end"} THEN 1 ELSE 0)
  <1>1. Finish[1] = "finish" /\ Error[1] = "error" /\ End[1] = "end"
    BY DEF Finish, Error, End
  <1>2. ASSUME NEW k PROVE Count(<<>>, k) = 0
    BY KindsNil DEF Count
  <1>3. ASSUME NEW k \in Closers
        PROVE  /\ Count(<<Finish>>, k) = (IF k = "finish" THEN 1 ELSE 0)
               /\ Count(<<Error>>, k) = (IF k = "error" THEN 1 ELSE 0)
               /\ Count(<<Finish, End>>, k) = (IF k \in {"finish", "end"} THEN 1 ELSE 0)
               /\ Count(<<Error, End>>, k) = (IF k \in {"error", "end"} THEN 1 ELSE 0)
    <2>1. /\ Count(<<Finish>>, k) = IF k = "finish" THEN 1 ELSE 0
          /\ Count(<<Error>>, k) = IF k = "error" THEN 1 ELSE 0
          /\ Count(<<End>>, k) = IF k = "end" THEN 1 ELSE 0
      BY <1>1, CountOne
    <2>2. /\ Count(<<Finish, End>>, k) = Count(<<Finish>>, k) + Count(<<End>>, k)
          /\ Count(<<Error, End>>, k) = Count(<<Error>>, k) + Count(<<End>>, k)
      <3>1. Count(<<Finish, End>>, k) = Count(<<Finish>>, k) + Count(<<End>>, k)
        BY CountTwo
      <3>2. Count(<<Error, End>>, k) = Count(<<Error>>, k) + Count(<<End>>, k)
        BY CountTwo
      <3>3. QED
        BY <3>1, <3>2
    <2>3. CASE k = "finish"
      BY <2>1, <2>2, <2>3
    <2>4. CASE k = "error"
      BY <2>1, <2>2, <2>4
    <2>5. CASE k = "end"
      BY <2>1, <2>2, <2>5
    <2>6. QED
      BY <2>3, <2>4, <2>5 DEF Closers
  <1>4. QED
    BY <1>2, <1>3

\* What ends an answer is counted on what it has sent of it.
LEMMA Counting ==
  ASSUME PathTypeOK, NEW r \in Request, Closed(r), NEW k \in Closers
  PROVE  Count(out[r], k) = Count(Sent(r), k)
  <1> DEFINE cs == Sent(r)
  <1>1. PICK b \in Seq(Body) : out[r] = b \o cs
    BY DEF Closed
  <1>2. cs \in Seq(Frame)
    BY Kept, KindsType DEF Sent
  <1>3. \A f \in Body : f[1] \notin {k}
    BY DEF Body
  <1>4. b \in Seq(Frame)
    <2>1. Body \subseteq Frame
      BY DEF Body
    <2>2. QED
      BY <2>1, SeqMonotonic
  <1> HIDE DEF cs
  <1>5. Kinds(b \o cs, {k}) = Kinds(b, {k}) \o Kinds(cs, {k})
    BY <1>2, <1>4, KindsConcat
  <1>6. Kinds(b, {k}) = <<>>
    BY <1>3, KindsNone
  <1>7. Kinds(cs, {k}) \in Seq(Frame)
    BY <1>2, KindsType
  <1>8. <<>> \o Kinds(cs, {k}) = Kinds(cs, {k})
    <2> DEFINE v == Kinds(cs, {k})
    <2>1. v \in Seq(Frame)
      BY <1>7
    <2> HIDE DEF v
    <2>2. <<>> \o v = v
      BY <2>1, ConcatEmptySeq
    <2>3. QED
      BY <2>2 DEF v
  <1>9. Kinds(out[r], {k}) = Kinds(cs, {k})
    BY <1>1, <1>5, <1>6, <1>8
  <1>10. QED
    BY <1>9 DEF Count, cs

Endings == {<<Finish>>, <<Error>>, <<Finish, End>>, <<Error, End>>}

\* An answer in one piece shows all or nothing.
LEMMA WholeOut ==
  ASSUME PathTypeOK, NEW r \in Request, Whole(r), style[r] = "whole"
  PROVE  \/ /\ cons[r] # "done" /\ out[r] = <<>> /\ Sent(r) = <<>>
            /\ Kinds(out[r], {"text", "aside"}) = <<>>
         \/ /\ cons[r] = "done" /\ fate[r] = "ok" /\ Sent(r) = <<Finish>>
            /\ Kinds(out[r], {"text", "aside"}) = Kinds(made[r], Shown(r))
         \/ /\ cons[r] = "done" /\ fate[r] \in Category /\ Sent(r) = <<Error>>
            /\ Kinds(out[r], {"text", "aside"}) = <<>>
         \/ /\ cons[r] = "done" /\ fate[r] = "broken" /\ Sent(r) = <<>>
            /\ Kinds(out[r], {"text", "aside"}) = <<>>
  <1>1. CASE cons[r] # "done"
    <2>1. out[r] = <<>>
      BY <1>1 DEF Whole
    <2>2. Kinds(out[r], Closers) = <<>> /\ Kinds(out[r], {"text", "aside"}) = <<>>
      BY <2>1, KindsNil
    <2>3. QED
      BY <1>1, <2>1, <2>2 DEF Sent
  <1>2. CASE cons[r] = "done" /\ fate[r] \in Category /\ out[r] = <<Error>>
    <2>1. Error[1] \in Closers /\ Error[1] \notin {"text", "aside"}
      BY DEF Error, Closers
    <2>2. Kinds(out[r], Closers) = <<Error>> /\ Kinds(out[r], {"text", "aside"}) = <<>>
      BY <1>2, <2>1, KindsOne
    <2>3. QED
      BY <1>2, <2>2 DEF Sent
  <1>3. CASE /\ cons[r] = "done" /\ fate[r] = "ok"
             /\ out[r] = Append(Kinds(made[r], {"text", "aside"}), Finish)
    <2> DEFINE m == made[r]
    <2>1. m \in Seq(Event)
      BY Kept
    <2>2. Shown(r) = {"text", "aside"}
      BY DEF Shown
    <2> HIDE DEF m
    <2> DEFINE k == Kinds(m, {"text", "aside"})
               o == Append(k, Finish)
    <2>3. Kinds(o, Closers) = <<Finish>> /\ Kinds(o, {"text", "aside"}) = k
      BY <2>1, Collected
    <2>4. out[r] = o
      BY <1>3 DEF m
    <2> HIDE DEF o
    <2>5. QED
      BY <1>3, <2>2, <2>3, <2>4 DEF Sent, m
  <1>4. CASE cons[r] = "done" /\ fate[r] = "broken" /\ out[r] = <<>>
    <2>1. Kinds(out[r], Closers) = <<>> /\ Kinds(out[r], {"text", "aside"}) = <<>>
      BY <1>4, KindsNil
    <2>2. QED
      BY <1>4, <2>1 DEF Sent
  <1>5. QED
    BY <1>1, <1>2, <1>3, <1>4 DEF Whole

LEMMA Sents ==
  ASSUME PathTypeOK, NEW r \in Request, Stands(r)
  PROVE  /\ Sent(r) \in Endings \cup {<<>>}
         /\ cons[r] = "done" /\ fate[r] = "broken" => Sent(r) = <<>>
         /\ cons[r] = "done" /\ fate[r] # "broken" =>
              /\ Sent(r) # <<>>
              /\ style[r] \in {"openai", "acp"} => Sent(r) \in {<<Finish, End>>, <<Error, End>>}
              /\ style[r] \notin {"openai", "acp"} => Sent(r) \in {<<Finish>>, <<Error>>}
  <1>1. Stage(r) /\ Ended(r) /\ Broken(r) /\ Whole(r)
    BY DEF Stands, Output
  <1>2. CASE style[r] = "whole"
    BY <1>1, <1>2, WholeOut, Lists, StatesAre DEF Endings
  <1>3. CASE style[r] # "whole" /\ cons[r] = "done"
    <2>1. style[r] # "anthropic" <=> style[r] \in {"openai", "acp"}
      BY <1>3, Kept DEF AllStyles
    <2>2. QED
      BY <1>1, <1>3, <2>1, Lists, StatesAre DEF Ended, Endings
  <1>4. CASE style[r] # "whole" /\ cons[r] \in {"closing", "joining", "gone"}
    BY <1>1, <1>4 DEF Broken, Endings
  <1>5. CASE Live(r)
    BY <1>1, <1>5, LiveSent DEF Live, Endings
  <1>6. QED
    BY <1>2, <1>3, <1>4, <1>5, Kept DEF Live, AnswerStates

\* Which list it is can be counted.
LEMMA Seen ==
  ASSUME PathTypeOK, NEW r \in Request, Stands(r)
  PROVE  /\ Count(out[r], "finish") > 0 <=> Sent(r) \in {<<Finish>>, <<Finish, End>>}
         /\ Count(out[r], "error") > 0 <=> Sent(r) \in {<<Error>>, <<Error, End>>}
         /\ Count(out[r], "finish") + Count(out[r], "error") <= 1 /\ Count(out[r], "end") <= 1
  <1>1. /\ Count(out[r], "finish") = Count(Sent(r), "finish")
        /\ Count(out[r], "error") = Count(Sent(r), "error")
        /\ Count(out[r], "end") = Count(Sent(r), "end")
    BY Counting DEF Stands, Output, Closers
  <1>2. Sent(r) \in Endings \cup {<<>>}
    BY Sents
  <1>3. "finish" \in Closers /\ "error" \in Closers /\ "end" \in Closers
    BY DEF Closers
  <1>4. CASE Sent(r) = <<>>
    <2>1. Count(Sent(r), "finish") = 0 /\ Count(Sent(r), "error") = 0 /\ Count(Sent(r), "end") = 0
      BY <1>4, Tallies
    <2>2. QED
      BY <1>1, <1>4, <2>1, Lists
  <1>5. CASE Sent(r) = <<Finish>>
    <2>1. Count(Sent(r), "finish") = 1 /\ Count(Sent(r), "error") = 0 /\ Count(Sent(r), "end") = 0
      BY <1>3, <1>5, Tallies
    <2>2. QED
      BY <1>1, <1>5, <2>1, Lists
  <1>6. CASE Sent(r) = <<Error>>
    <2>1. Count(Sent(r), "finish") = 0 /\ Count(Sent(r), "error") = 1 /\ Count(Sent(r), "end") = 0
      BY <1>3, <1>6, Tallies
    <2>2. QED
      BY <1>1, <1>6, <2>1, Lists
  <1>7. CASE Sent(r) = <<Finish, End>>
    <2>1. Count(Sent(r), "finish") = 1 /\ Count(Sent(r), "error") = 0 /\ Count(Sent(r), "end") = 1
      BY <1>3, <1>7, Tallies
    <2>2. QED
      BY <1>1, <1>7, <2>1, Lists
  <1>8. CASE Sent(r) = <<Error, End>>
    <2>1. Count(Sent(r), "finish") = 0 /\ Count(Sent(r), "error") = 1 /\ Count(Sent(r), "end") = 1
      BY <1>3, <1>8, Tallies
    <2>2. QED
      BY <1>1, <1>8, <2>1, Lists
  <1>9. QED
    BY <1>2, <1>4, <1>5, <1>6, <1>7, <1>8 DEF Endings

\* The client gets the worker's output in order, with nothing lost and nothing twice,
\* and an answer that finishes is complete: what was sent and what is queued are, one
\* after the other, what the worker made.
THEOREM PathInOrder == Spec => []InOrder
  <1>1. ASSUME PathInv, NEW r \in Request
        PROVE  /\ IsPrefix(Kinds(out[r], {"text", "aside"}), Kinds(made[r], Shown(r)))
               /\ Count(out[r], "finish") > 0 =>
                    Kinds(out[r], {"text", "aside"}) = Kinds(made[r], Shown(r))
    <2> DEFINE A == Kinds(out[r], {"text", "aside"})
               M == Kinds(made[r], Shown(r))
               Q == Kinds(queue[r], Shown(r))
    <2>1. PathTypeOK /\ Stands(r)
      BY <1>1 DEF PathInv
    <2>2. Passed(r) /\ Complete(r) /\ Whole(r)
      BY <2>1 DEF Stands, Output
    <2>3. A \in Seq(Piece) /\ M \in Seq(Piece) /\ Q \in Seq(Piece)
      BY <2>1, ShownKinds
    <2>4. \E u \in Seq(Piece) : A \o u = M
      <3>1. CASE style[r] # "whole"
        BY <2>2, <2>3, <3>1 DEF Passed
      <3>2. CASE style[r] = "whole"
        <4>1. A = <<>> \/ A = M
          BY <2>1, <2>2, <3>2, WholeOut
        <4>2. <<>> \o M = M /\ M \o <<>> = M /\ <<>> \in Seq(Piece)
          <5> HIDE DEF M
          <5>1. QED
            BY <2>3, ConcatEmptySeq, EmptySeq
        <4>3. QED
          BY <2>3, <4>1, <4>2
      <3>3. QED
        BY <3>1, <3>2
    <2>5. IsPrefix(A, M)
      <3> HIDE DEF A, M
      <3>1. PICK u \in Seq(Piece) : A \o u = M
        BY <2>4
      <3>2. IsPrefix(A, A \o u)
        BY <2>3, Prefix
      <3>3. QED
        BY <3>1, <3>2
    <2>6. Count(out[r], "finish") > 0 => A = M
      BY <2>1, <2>2, Seen DEF Complete
    <2>7. QED
      BY <2>5, <2>6
  <1>2. PathInv => InOrder
    BY <1>1 DEF InOrder
  <1>3. QED
    BY <1>2, PathAlways, PTL

\* What /metrics counts bounds what clients see: the errors that are sent, but the gate's
\* refusals, by errors_total; and with those counted the finished answers and the streams
\* that broke off behind the gate, which are no errors_total, by requests_total.
THEOREM PathMetricsHonest == Spec => []MetricsHonest
  <1>1. ASSUME PathInv PROVE MetricsHonest
    <2> DEFINE Erred == {r \in Saw("error") : fate[r] # "auth"}
               Ready == Saw("finish") \cup BrokenOff
    <2>1. PathTypeOK /\ Counted
      BY <1>1 DEF PathInv
    <2>2. ASSUME NEW r \in Request PROVE Phase(r) /\ Erring(r) /\ Complete(r) /\ Stands(r)
      BY <1>1 DEF PathInv, Stands, Output
    <2>3. Erred \subseteq Failures
      <3>1. ASSUME NEW r \in Erred PROVE r \in Failures
        <4>1. r \in Request /\ Count(out[r], "error") > 0 /\ fate[r] # "auth"
          BY DEF Saw
        <4>2. turn[r] = "over" /\ fate[r] \in Category
          BY <2>1, <2>2, <4>1, Seen DEF Erring
        <4>3. QED
          BY <4>1, <4>2 DEF Failures
      <3>2. QED
        BY <3>1
    <2>4. Ready \subseteq Serving
      <3>1. ASSUME NEW r \in Ready PROVE r \in Serving
        <4>1. r \in Request /\ (Count(out[r], "finish") > 0 \/ r \in BrokenOff)
          BY DEF Saw, BrokenOff
        <4>2. CASE Count(out[r], "finish") > 0
          <5>1. Served(r)
            BY <2>1, <2>2, <4>1, <4>2, Seen DEF Complete
          <5>2. turn[r] \in {"retire", "over"}
            BY <2>2, <4>1, <5>1 DEF Phase
          <5>3. QED
            BY <4>1, <5>1, <5>2 DEF Serving
        <4>3. CASE r \in BrokenOff
          <5>1. fate[r] = "broken" /\ style[r] # "whole"
            BY <4>3 DEF BrokenOff
          <5>2. turn[r] \notin Early /\ turn[r] \in TurnStates
            BY <2>1, <2>2, <4>1, <5>1, Kept DEF Phase
          <5>3. turn[r] \in {"retire", "over"}
            BY <5>2 DEF TurnStates, Early
          <5>4. QED
            BY <4>1, <5>1, <5>3 DEF Serving
        <4>4. QED
          BY <4>1, <4>2, <4>3
      <3>2. QED
        BY <3>1
    <2>5. /\ Erred \in SUBSET Request /\ Ready \in SUBSET Request
          /\ Failures \in SUBSET Request /\ Serving \in SUBSET Request
      BY DEF Saw, BrokenOff, Failures, Serving
    <2> HIDE DEF Erred, Ready
    <2>6. /\ Cardinality(Erred) \in Nat /\ Cardinality(Ready) \in Nat
          /\ Cardinality(Failures) \in Nat /\ Cardinality(Serving) \in Nat
          /\ errors \in Nat /\ requests \in Nat
      BY <2>1, <2>5, Finite DEF PathTypeOK
    <2>7. Cardinality(Erred) <= Cardinality(Failures) /\ Cardinality(Ready) <= Cardinality(Serving)
      <3>1. IsFiniteSet(Failures) /\ IsFiniteSet(Serving)
        BY <2>5, Finite
      <3>2. QED
        BY <2>3, <2>4, <3>1, FS_Subset
    <2>8. Cardinality(Erred) <= errors /\ errors + Cardinality(Ready) <= requests
      BY <2>1, <2>6, <2>7 DEF Counted
    <2>9. QED
      BY <2>8 DEF MetricsHonest, Erred, Ready
  <1>2. QED
    BY <1>1, PathAlways, PTL

-------------------------------------------------------------------------------
(* The text block of an Anthropic stream.                                    *)

HasStart(s) == \E j \in 1 .. Len(s) : s[j][1] = "start"
Preceded(s) ==
  \A i \in 1 .. Len(s) : s[i][1] = "text" => \E j \in 1 .. (i - 1) : s[j][1] = "start"

\* The block is open once it was started; it is stopped when the turn is done.
Block(r) ==
  style[r] = "anthropic" =>
    /\ open[r] => Count(out[r], "start") = 1 /\ HasStart(out[r])
    /\ ~open[r] => Count(out[r], "start") = 0
    /\ Sent(r) \in {<<Finish>>, <<Finish, End>>} => Count(out[r], "stop") = Count(out[r], "start")
    /\ Sent(r) \notin {<<Finish>>, <<Finish, End>>} => Count(out[r], "stop") = 0
    /\ Preceded(out[r])

LEMMA BlockConcat ==
  ASSUME NEW s \in Seq(Frame), NEW t \in Seq(Frame)
  PROVE  /\ HasStart(s) \/ HasStart(t) => HasStart(s \o t)
         /\ Preceded(s) /\ (HasStart(s) \/ Preceded(t)) => Preceded(s \o t)
  <1> DEFINE w == s \o t
             n == Len(s)
             m == Len(t)
  <1>1. /\ n \in Nat /\ m \in Nat /\ Len(w) = n + m
        /\ \A i \in 1 .. n + m : w[i] = IF i <= n THEN s[i] ELSE t[i - n]
    BY ConcatProperties, LenProperties
  <1> HIDE DEF w, n, m
  <1>2. \A i \in 1 .. n : w[i] = s[i] /\ i \in 1 .. Len(w)
    BY <1>1
  <1>3. \A i \in 1 .. m : w[n + i] = t[i] /\ n + i \in 1 .. Len(w)
    <2>1. ASSUME NEW i \in 1 .. m PROVE w[n + i] = t[i] /\ n + i \in 1 .. Len(w)
      <3>1. n + i \in 1 .. n + m /\ ~(n + i <= n) /\ (n + i) - n = i
        BY <1>1
      <3>2. QED
        BY <1>1, <3>1
    <2>2. QED
      BY <2>1
  <1>4. HasStart(s) => HasStart(w)
    BY <1>2 DEF HasStart, n
  <1>5. HasStart(t) => HasStart(w)
    <2>1. SUFFICES ASSUME NEW j \in 1 .. m, t[j][1] = "start" PROVE HasStart(w)
      BY DEF HasStart, m
    <2>2. QED
      BY <1>3, <2>1 DEF HasStart
  <1>6. ASSUME Preceded(s), HasStart(s) \/ Preceded(t) PROVE Preceded(w)
    <2>1. SUFFICES ASSUME NEW i \in 1 .. Len(w), w[i][1] = "text"
                   PROVE  \E j \in 1 .. (i - 1) : w[j][1] = "start"
      BY DEF Preceded
    <2>2. CASE i <= n
      <3>1. i \in 1 .. n /\ s[i][1] = "text"
        BY <1>1, <1>2, <2>1, <2>2
      <3>2. PICK j \in 1 .. (i - 1) : s[j][1] = "start"
        BY <1>6, <3>1 DEF Preceded, n
      <3>3. j \in 1 .. n
        BY <1>1, <3>1
      <3>4. QED
        BY <1>2, <3>2, <3>3
    <2>3. CASE ~(i <= n)
      <3> DEFINE k == i - n
      <3>1. k \in 1 .. m /\ n + k = i
        BY <1>1, <2>3
      <3>2. t[k][1] = "text"
        BY <1>3, <2>1, <3>1
      <3>3. CASE HasStart(s)
        <4>1. PICK j \in 1 .. n : s[j][1] = "start"
          BY <3>3 DEF HasStart, n
        <4>2. j \in 1 .. (i - 1) /\ w[j][1] = "start"
          BY <1>1, <1>2, <2>3, <4>1
        <4>3. QED
          BY <4>2
      <3>4. CASE Preceded(t)
        <4>1. PICK j \in 1 .. (k - 1) : t[j][1] = "start"
          BY <3>1, <3>2, <3>4 DEF Preceded, m
        <4>2. j \in 1 .. m /\ n + j \in 1 .. (i - 1)
          BY <1>1, <3>1
        <4>3. w[n + j][1] = "start"
          BY <1>3, <4>1, <4>2
        <4>4. QED
          BY <4>2, <4>3
      <3>5. QED
        BY <1>6, <3>3, <3>4
    <2>4. QED
      BY <2>2, <2>3
  <1>7. QED
    BY <1>4, <1>5, <1>6 DEF w

\* The frames of each item in an Anthropic stream.
LEMMA AnthropicFrames ==
  ASSUME NEW r \in Request, style[r] = "anthropic", NEW item \in Item
  PROVE  LET f == Frames(r, item) IN
         /\ item[1] = "text" /\ open[r] => f = <<item>>
         /\ item[1] = "text" /\ ~open[r] => f = <<<<"start", 0>>, item>>
         /\ item \in Dones /\ open[r] => f = <<<<"stop", 0>>, Finish>>
         /\ item \in Dones /\ ~open[r] => f = <<Finish>>
         /\ item = Error => f \in {<<Error>>, <<>>}
         /\ item = End \/ (item \in Updates /\ item[1] # "text") => f = <<>>
  <1> DEFINE start == <<"start", 0>>
             stop == <<"stop", 0>>
             f == Frames(r, item)
  <1> HIDE DEF start, stop
  <1>1. item # Error => f = Anthropic(item, open[r])
    BY DEF Frames, Raised
  <1>2. item[1] = "text" => f = (IF open[r] THEN <<>> ELSE <<start>>) \o <<item>>
    BY <1>1 DEF Anthropic, Error, start
  <1>3. item \in Dones => f = (IF open[r] THEN <<stop>> ELSE <<>>) \o <<Finish>>
    <2>1. item \in Dones => item[1] = "done"
      BY DEF Dones
    <2>2. QED
      BY <1>1, <2>1 DEF Anthropic, Error, stop
  <1>4. item = Error => f \in {<<Error>>, <<>>}
    BY DEF Frames, Anthropic, Error
  <1>5. item = End \/ (item \in Updates /\ item[1] # "text") => f = <<>>
    BY <1>1 DEF Anthropic, Error, End, Updates
  <1>6. /\ <<>> \o <<item>> = <<item>> /\ <<start>> \o <<item>> = <<start, item>>
        /\ <<>> \o <<Finish>> = <<Finish>> /\ <<stop>> \o <<Finish>> = <<stop, Finish>>
    BY Pair
  <1>7. /\ item[1] = "text" /\ open[r] => f = <<item>>
        /\ item[1] = "text" /\ ~open[r] => f = <<start, item>>
        /\ item \in Dones /\ open[r] => f = <<stop, Finish>>
        /\ item \in Dones /\ ~open[r] => f = <<Finish>>
    BY <1>2, <1>3, <1>6
  <1> USE DEF start, stop
  <1>8. QED
    BY <1>4, <1>5, <1>7

\* The block frames among those of an item.
LEMMA BlockFrames ==
  ASSUME PathTypeOK, NEW r \in Request, style[r] = "anthropic", NEW item \in Item
  PROVE  LET f == Frames(r, item) IN
         /\ Count(f, "start") = IF item[1] = "text" /\ ~open[r] THEN 1 ELSE 0
         /\ Count(f, "stop") = IF item \in Dones /\ open[r] THEN 1 ELSE 0
         /\ item[1] = "text" /\ ~open[r] => HasStart(f)
         /\ ~(item[1] = "text" /\ open[r]) => Preceded(f)
  <1> DEFINE f == Frames(r, item)
             start == <<"start", 0>>
             stop == <<"stop", 0>>
  <1>1. /\ start[1] = "start" /\ stop[1] = "stop" /\ Finish[1] = "finish" /\ Error[1] = "error"
        /\ Count(<<>>, "start") = 0 /\ Count(<<>>, "stop") = 0
        /\ item \in Dones => item[1] = "done"
        /\ item \in Updates => item[1] # "done"
    BY Tallies DEF Finish, Error, Dones, Updates
  <1> HIDE DEF f, start, stop
  <1>2. CASE item[1] = "text" /\ open[r]
    <2>1. f = <<item>> /\ item \notin Dones
      BY <1>1, <1>2, AnthropicFrames DEF f
    <2>2. Count(<<item>>, "start") = 0 /\ Count(<<item>>, "stop") = 0
      BY <1>2, CountOne
    <2>3. QED
      BY <1>2, <2>1, <2>2 DEF f
  <1>3. CASE item[1] = "text" /\ ~open[r]
    <2>1. f = <<start, item>> /\ item \notin Dones
      BY <1>1, <1>3, AnthropicFrames DEF f, start
    <2>2. Count(<<start>>, "start") = 1 /\ Count(<<start>>, "stop") = 0
      BY <1>1, CountOne
    <2>3. Count(<<item>>, "start") = 0 /\ Count(<<item>>, "stop") = 0
      BY <1>3, CountOne
    <2>4. Count(f, "start") = 1 /\ Count(f, "stop") = 0
      <3>1. Count(<<start, item>>, "start") = Count(<<start>>, "start") + Count(<<item>>, "start")
        BY CountTwo
      <3>2. Count(<<start, item>>, "stop") = Count(<<start>>, "stop") + Count(<<item>>, "stop")
        BY CountTwo
      <3>3. QED
        BY <2>1, <2>2, <2>3, <3>1, <3>2
    <2>5. Len(f) = 2 /\ f[1] = start /\ f[2] = item
      BY <2>1
    <2>6. HasStart(f)
      <3>1. 1 \in 1 .. Len(f) /\ f[1][1] = "start"
        BY <1>1, <2>5
      <3>2. QED
        BY <3>1 DEF HasStart
    <2>7. Preceded(f)
      <3>1. ASSUME NEW i \in 1 .. Len(f), f[i][1] = "text" PROVE \E j \in 1 .. (i - 1) : f[j][1] = "start"
        <4>1. i = 1 \/ i = 2
          BY <2>5
        <4>2. i = 2
          BY <1>1, <2>5, <3>1, <4>1
        <4>3. 1 \in 1 .. (i - 1) /\ f[1][1] = "start"
          BY <1>1, <2>5, <4>2
        <4>4. QED
          BY <4>3
      <3>2. QED
        BY <3>1 DEF Preceded
    <2>8. QED
      BY <1>3, <2>1, <2>4, <2>6, <2>7 DEF f
  <1>4. CASE item \in Dones /\ open[r]
    <2>1. f = <<stop, Finish>> /\ item[1] # "text"
      BY <1>1, <1>4, AnthropicFrames DEF f, stop
    <2>2. Count(<<stop>>, "start") = 0 /\ Count(<<stop>>, "stop") = 1
      BY <1>1, CountOne
    <2>3. Count(<<Finish>>, "start") = 0 /\ Count(<<Finish>>, "stop") = 0
      BY <1>1, CountOne
    <2>4. Count(f, "start") = 0 /\ Count(f, "stop") = 1
      <3>1. Count(<<stop, Finish>>, "start") = Count(<<stop>>, "start") + Count(<<Finish>>, "start")
        BY CountTwo
      <3>2. Count(<<stop, Finish>>, "stop") = Count(<<stop>>, "stop") + Count(<<Finish>>, "stop")
        BY CountTwo
      <3>3. QED
        BY <2>1, <2>2, <2>3, <3>1, <3>2
    <2>5. Len(f) = 2 /\ f[1] = stop /\ f[2] = Finish
      BY <2>1
    <2>6. Preceded(f)
      <3>1. \A i \in 1 .. Len(f) : f[i][1] # "text"
        <4>1. \A i \in 1 .. Len(f) : i = 1 \/ i = 2
          BY <2>5
        <4>2. QED
          BY <1>1, <2>5, <4>1
      <3>2. QED
        BY <3>1 DEF Preceded
    <2>7. QED
      BY <1>4, <2>1, <2>4, <2>6 DEF f
  <1>5. CASE item[1] # "text" /\ ~(item \in Dones /\ open[r])
    <2>1. f \in {<<Finish>>, <<Error>>, <<>>}
      BY <1>5, ItemCases, AnthropicFrames DEF f
    <2>2. Count(f, "start") = 0 /\ Count(f, "stop") = 0
      <3>1. /\ Count(<<Finish>>, "start") = 0 /\ Count(<<Finish>>, "stop") = 0
            /\ Count(<<Error>>, "start") = 0 /\ Count(<<Error>>, "stop") = 0
        BY <1>1, CountOne
      <3>2. QED
        BY <1>1, <2>1, <3>1
    <2>3. Preceded(f)
      <3>1. \A i \in 1 .. Len(f) : f[i][1] # "text"
        <4>1. CASE f = <<>>
          <5>1. Len(f) = 0
            BY <4>1
          <5>2. QED
            BY <5>1
        <4>2. CASE f = <<Finish>> \/ f = <<Error>>
          <5>1. Len(f) = 1 /\ (f[1] = Finish \/ f[1] = Error)
            BY <4>2
          <5>2. \A i \in 1 .. Len(f) : i = 1
            BY <5>1
          <5>3. QED
            BY <1>1, <5>1, <5>2
        <4>3. QED
          BY <2>1, <4>1, <4>2
      <3>2. QED
        BY <3>1 DEF Preceded
    <2>4. QED
      BY <1>5, <2>2, <2>3 DEF f
  <1>6. QED
    BY <1>2, <1>3, <1>4, <1>5

\* A step that sends nothing.
LEMMA StillBlock ==
  ASSUME NEW r \in Request, Block(r), UNCHANGED <<style[r], out[r], open[r]>>
  PROVE  Block(r)'
  BY DEF Block, Sent, Count, HasStart, Preceded

LEMMA TakeBlock ==
  ASSUME PathTypeOK, NEW r \in Request, Phase(r), Stage(r), Block(r), Take(r)
  PROVE  Block(r)'
  <1> DEFINE item == Head(queue[r])
             f == Frames(r, item)
             o == out[r]
             oo == o \o f
             rest == Tail(queue[r])
             Fin == {<<Finish>>, <<Finish, End>>}
  <1>1. /\ cons[r] = "next" /\ style[r] # "whole" /\ item \in Item /\ oo \in Seq(Frame)
    BY TakeMove
  <1>2. PICK c \in {"done", "next", "send"}, b \in BOOLEAN :
          /\ AnswerMove(r, c, turn[r], oo, b, rest)
          /\ b <=> open[r] \/ (style[r] = "anthropic" /\ item[1] = "text")
    BY TakeMove
  <1>3. o \in Seq(Frame) /\ f \in Seq(Frame) /\ open[r] \in BOOLEAN
    BY <1>1, Kept, FramesType
  <1>4. out'[r] = oo /\ open'[r] = b /\ style'[r] = style[r]
    <2> HIDE DEF oo, rest
    <2>1. AnswerMove(r, c, turn[r], oo, b, rest)
      BY <1>2
    <2>2. QED
      BY <2>1, AnswerKeeps
  <1>5. SUFFICES ASSUME style[r] = "anthropic" PROVE Block(r)'
    BY <1>4 DEF Block
  <1>6. PICK body \in Seq(Body), cl \in Seq(Frame) : Ends(r, item, body, cl) /\ Sent(r)' = Sent(r) \o cl
    BY TakeFacts
  <1>7. /\ Count(f, "start") = IF item[1] = "text" /\ ~open[r] THEN 1 ELSE 0
        /\ Count(f, "stop") = IF item \in Dones /\ open[r] THEN 1 ELSE 0
        /\ item[1] = "text" /\ ~open[r] => HasStart(f)
        /\ ~(item[1] = "text" /\ open[r]) => Preceded(f)
    BY <1>1, <1>5, BlockFrames
  <1>8. /\ Sent(r) = <<>> \/ (Sent(r) = <<Finish>> /\ item = End)
        /\ Sent(r) \in Seq(Frame)
    <2>1. Sent(r) = <<>> \/ (Sent(r) = <<Finish>> /\ queue[r] = <<End>>)
      <3>1. Live(r) /\ queue[r] # <<>>
        BY <1>1, TakeMove DEF Live
      <3>2. QED
        BY <1>1, <3>1 DEF Stage
    <2>2. queue[r] = <<End>> => item = End
      <3>1. Head(<<End>>) = End
        OBVIOUS
      <3>2. QED
        BY <3>1
    <2>3. Sent(r) \in Seq(Frame)
      BY Kept, KindsType DEF Sent
    <2>4. QED
      BY <2>1, <2>2, <2>3
  <1> HIDE DEF f, item, rest, o
  <1>9. /\ item \in Updates \/ item \in Dones \/ item = Error \/ item = End
        /\ item[1] = "text" => item \in Updates
        /\ item \in Updates => item \notin Dones /\ item # End
        /\ item \in Dones => item # Error /\ item # End
        /\ Error # End /\ Error \notin Dones /\ End \notin Dones
    BY <1>1, ItemCases DEF Updates, Dones, Error, End
  <1>10. /\ item \in Updates \/ item = End => Sent(r)' = Sent(r)
         /\ item \in Dones => Sent(r)' = <<Finish>>
         /\ item = Error => Sent(r)' \in {<<Error>>, <<>>}
    <2>1. Sent(r) \o <<>> = Sent(r) /\ <<>> \o cl = cl
      <3> DEFINE cs == Sent(r)
      <3>1. cs \in Seq(Frame)
        BY <1>8
      <3> HIDE DEF cs
      <3>2. cs \o <<>> = cs /\ <<>> \o cl = cl
        BY <3>1, ConcatEmptySeq
      <3>3. QED
        BY <3>2 DEF cs
    <2>2. /\ item \in Updates \/ item = End => cl = <<>>
          /\ item \in Dones => cl = <<Finish>>
          /\ item = Error => cl \in {<<Error>>, <<>>}
      BY <1>5, <1>6 DEF Ends
    <2>3. QED
      BY <1>6, <1>8, <1>9, <2>1, <2>2
  <1>11. /\ Count(oo, "start") = Count(o, "start") + Count(f, "start")
         /\ Count(oo, "stop") = Count(o, "stop") + Count(f, "stop")
         /\ Count(o, "start") \in Nat /\ Count(o, "stop") \in Nat
    BY <1>3, CountConcat
  <1>12. /\ HasStart(o) \/ HasStart(f) => HasStart(oo)
         /\ Preceded(o) /\ (HasStart(o) \/ Preceded(f)) => Preceded(oo)
    BY <1>3, BlockConcat
  <1> HIDE DEF oo, Fin
  <1>13. /\ open[r] => Count(o, "start") = 1 /\ HasStart(o)
         /\ ~open[r] => Count(o, "start") = 0
         /\ Sent(r) \in Fin => Count(o, "stop") = Count(o, "start")
         /\ Sent(r) \notin Fin => Count(o, "stop") = 0
         /\ Preceded(o)
    BY <1>5 DEF Block, o, Fin
  <1>14. /\ b => Count(oo, "start") = 1 /\ HasStart(oo)
         /\ ~b => Count(oo, "start") = 0
    <2>1. CASE item[1] = "text"
      BY <1>2, <1>5, <1>7, <1>11, <1>12, <1>13, <2>1
    <2>2. CASE item[1] # "text"
      BY <1>2, <1>7, <1>11, <1>12, <1>13, <2>2
    <2>3. QED
      BY <2>1, <2>2
  <1>15. Preceded(oo)
    BY <1>7, <1>12, <1>13
  <1>16. /\ <<>> \notin Fin /\ <<Finish>> \in Fin /\ <<Error>> \notin Fin
    BY Lists DEF Fin
  <1>17. /\ Sent(r)' \in Fin => Count(oo, "stop") = Count(oo, "start")
         /\ Sent(r)' \notin Fin => Count(oo, "stop") = 0
    <2>1. CASE item \in Updates
      <3>1. Sent(r)' = <<>> /\ Sent(r) = <<>>
        BY <1>8, <1>9, <1>10, <2>1
      <3>2. Count(oo, "stop") = 0
        BY <1>7, <1>9, <1>11, <1>13, <1>16, <2>1, <3>1
      <3>3. QED
        BY <1>16, <3>1, <3>2
    <2>2. CASE item \in Dones
      <3>1. Sent(r)' = <<Finish>> /\ Sent(r) = <<>> /\ item[1] # "text"
        BY <1>8, <1>9, <1>10, <2>2
      <3>2. Count(oo, "stop") = Count(oo, "start")
        BY <1>7, <1>11, <1>13, <1>16, <2>2, <3>1
      <3>3. QED
        BY <1>16, <3>1, <3>2
    <2>3. CASE item = Error
      <3>1. Sent(r)' \in {<<Error>>, <<>>} /\ Sent(r) = <<>>
        BY <1>8, <1>9, <1>10, <2>3
      <3>2. Count(oo, "stop") = 0
        BY <1>7, <1>9, <1>11, <1>13, <1>16, <2>3, <3>1
      <3>3. QED
        BY <1>16, <3>1, <3>2
    <2>4. CASE item = End
      <3>1. Sent(r)' = Sent(r) /\ item[1] # "text" /\ item \notin Dones
        BY <1>9, <1>10, <2>4
      <3>2. Count(oo, "stop") = Count(o, "stop") /\ Count(oo, "start") = Count(o, "start")
        BY <1>7, <1>11, <3>1
      <3>3. QED
        BY <1>13, <3>1, <3>2
    <2>5. QED
      BY <1>9, <2>1, <2>2, <2>3, <2>4
  <1>18. QED
    BY <1>4, <1>14, <1>15, <1>17 DEF Block, Fin

LEMMA NextBlock ==
  ASSUME PathInv, NEW q \in Request, Block(q), [Next]_vars
  PROVE  Block(q)'
  <1>1. PathTypeOK /\ Phase(q) /\ Stage(q)
    BY DEF PathInv, Stands
  <1>2. ASSUME NEW r \in Request, TurnStep(r) PROVE Block(q)'
    <2>1. TurnEffect(r)
      BY <1>1, <1>2, TurnStepEffect DEF PathInv, Stands, Phase
    <2>2. UNCHANGED <<style, out, open>>
      BY <2>1 DEF TurnEffect, TurnMove, Moved
    <2>3. QED
      BY <2>2, StillBlock
  <1>3. ASSUME NEW r \in Request, r # q,
               AnswerStep(r) \/ Arrive(r) \/ SendDone(r) \/ Ping(r) \/ Leave(r)
        PROVE  Block(q)'
    <2>1. Phase(r)
      BY DEF PathInv, Stands
    <2>2. PICK c, y, o, b, v : AnswerMove(r, c, y, o, b, v)
      BY <1>1, <1>3, <2>1, AnswerSteps
    <2>3. UNCHANGED <<style[q], out[q], open[q]>>
      BY <1>1, <1>3, <2>2 DEF AnswerMove, PathTypeOK
    <2>4. QED
      BY <2>3, StillBlock
  <1>4. CASE Take(q)
    BY <1>1, <1>4, TakeBlock
  <1>5. CASE Collect(q)
    <2>1. style[q] = "whole" /\ style' = style
      BY <1>5 DEF Collect
    <2>2. QED
      BY <2>1 DEF Block
  <1>6. CASE Joined(q) \/ Leave(q) \/ Ping(q) \/ SendDone(q)
    <2>1. UNCHANGED <<style[q], out[q], open[q]>>
      BY <1>6 DEF Joined, Leave, Ping, SendDone
    <2>2. QED
      BY <2>1, StillBlock
  <1>7. CASE Arrive(q)
    <2>1. cons[q] = "off"
      BY <1>1, <1>7, ArriveMove
    <2>2. ~open[q]
      BY <1>1, <2>1 DEF Phase
    <2>3. CASE AnswerMove(q, "next", "ready", out[q], open[q], queue[q])
      <3>1. UNCHANGED <<style[q], out[q], open[q]>>
        BY <1>1, <2>3, AnswerKeeps
      <3>2. QED
        BY <3>1, StillBlock
    <2>4. CASE AnswerMove(q, "send", turn[q], Starts, open[q], queue[q])
      <3>1. out'[q] = Starts /\ open'[q] = open[q] /\ style'[q] = style[q]
        BY <1>1, <2>4, AnswerKeeps
      <3> DEFINE e == <<"head", 0>>
      <3>2. e[1] = "head" /\ Starts = <<e>>
        BY DEF Starts
      <3> HIDE DEF e
      <3>3. Count(Starts, "start") = 0 /\ Count(Starts, "stop") = 0
        BY <3>2, CountOne
      <3>4. Preceded(Starts)
        <4>1. \A i \in 1 .. Len(Starts) : Starts[i][1] # "text"
          <5>1. Len(Starts) = 1 /\ Starts[1] = e
            BY <3>2
          <5>2. \A i \in 1 .. Len(Starts) : i = 1
            BY <5>1
          <5>3. QED
            BY <3>2, <5>1, <5>2
        <4>2. QED
          BY <4>1 DEF Preceded
      <3>5. QED
        BY <2>2, <3>1, <3>3, <3>4 DEF Block
    <2>5. QED
      BY <1>1, <1>7, <2>3, <2>4, ArriveMove
  <1>8. CASE Shutdown \/ UNCHANGED vars
    <2>1. UNCHANGED <<style, out, open>>
      BY <1>8 DEF Shutdown, vars, answer
    <2>2. QED
      BY <2>1, StillBlock
  <1>9. QED
    BY <1>2, <1>3, <1>4, <1>5, <1>6, <1>7, <1>8 DEF Next, AnswerStep

Blocks == \A r \in Request : Block(r)

LEMMA BlocksInit == ASSUME Init PROVE Blocks
  <1>1. ASSUME NEW r \in Request PROVE Block(r)
    <2>1. out[r] = <<>> /\ ~open[r]
      BY DEF Init
    <2>2. Count(out[r], "start") = 0 /\ Count(out[r], "stop") = 0
      BY <2>1, Tallies
    <2>3. Preceded(out[r])
      <3>1. Len(out[r]) = 0
        BY <2>1
      <3>2. QED
        BY <3>1 DEF Preceded
    <2>4. QED
      BY <2>1, <2>2, <2>3 DEF Block
  <1>2. QED
    BY <1>1 DEF Blocks

LEMMA BlocksAlways == Spec => []Blocks
  <1>1. PathInv /\ Blocks /\ [Next]_vars => Blocks'
    BY NextBlock DEF Blocks
  <1>2. QED
    BY <1>1, BlocksInit, PathAlways, PTL DEF Spec

\* What a list ends with, and what stands first in it.
LEMMA LastOf ==
  ASSUME NEW X, NEW s \in Seq(X), NEW t \in Seq(X), t # <<>>
  PROVE  Last(s \o t) = t[Len(t)]
  <1> DEFINE w == s \o t
  <1>1. /\ Len(w) = Len(s) + Len(t) /\ Len(s) \in Nat /\ Len(t) \in Nat
        /\ \A i \in 1 .. Len(s) + Len(t) : w[i] = IF i <= Len(s) THEN s[i] ELSE t[i - Len(s)]
    BY ConcatProperties, LenProperties
  <1>2. Len(t) # 0
    BY EmptySeq
  <1> HIDE DEF w
  <1>3. /\ Len(s) + Len(t) \in 1 .. Len(s) + Len(t) /\ ~(Len(s) + Len(t) <= Len(s))
        /\ (Len(s) + Len(t)) - Len(s) = Len(t)
    BY <1>1, <1>2
  <1>4. w[Len(w)] = t[Len(t)]
    BY <1>1, <1>3
  <1>5. QED
    BY <1>4 DEF Last, w

LEMMA ListEnds ==
  ASSUME NEW s \in Endings
  PROVE  /\ s # <<>> /\ s[1] # End
         /\ s[Len(s)] = End <=> s \in {<<Finish, End>>, <<Error, End>>}
  <1>1. Finish # End /\ Error # End
    BY DEF Finish, Error, End
  <1>2. CASE s = <<Finish>>
    <2>1. Len(s) = 1 /\ s[1] = Finish
      BY <1>2
    <2>2. QED
      BY <1>1, <1>2, <2>1, Lists
  <1>3. CASE s = <<Error>>
    <2>1. Len(s) = 1 /\ s[1] = Error
      BY <1>3
    <2>2. QED
      BY <1>1, <1>3, <2>1, Lists
  <1>4. CASE s = <<Finish, End>>
    <2>1. Len(s) = 2 /\ s[1] = Finish /\ s[2] = End
      BY <1>4
    <2>2. QED
      BY <1>1, <1>4, <2>1, Lists
  <1>5. CASE s = <<Error, End>>
    <2>1. Len(s) = 2 /\ s[1] = Error /\ s[2] = End
      BY <1>5
    <2>2. QED
      BY <1>1, <1>5, <2>1, Lists
  <1>6. QED
    BY <1>2, <1>3, <1>4, <1>5 DEF Endings

\* The frames of an answer are a stream of its protocol: one finish or one error that
\* nothing but [DONE] follows, or none of them if the answer breaks off; and the text of an
\* Anthropic stream in one block that is closed before the finish, and only then.
THEOREM PathWellFormed == Spec => []WellFormed
  <1>1. ASSUME PathInv, Blocks, NEW r \in Request
        PROVE  LET s       == out[r]
                   closing == Kinds(s, {"finish", "error", "end"})
                   hasEnd  == style[r] \in {"openai", "acp"}
               IN /\ IsSuffix(closing, s)
                  /\ Count(s, "finish") + Count(s, "error") <= 1 /\ Count(s, "end") <= 1
                  /\ closing # <<>> => closing[1] # End
                  /\ cons[r] = "done" => IF fate[r] = "broken" THEN closing = <<>>
                                         ELSE closing # <<>> /\ (Last(s) = End) = hasEnd
                  /\ style[r] = "anthropic" =>
                       /\ \A i \in DOMAIN s : s[i][1] = "text" => \E j \in 1 .. (i - 1) : s[j][1] = "start"
                       /\ Count(s, "start") <= 1
                       /\ Count(s, "stop") = IF Count(s, "finish") > 0 THEN Count(s, "start") ELSE 0
    <2> DEFINE s == out[r]
               cs == Sent(r)
    <2>1. PathTypeOK /\ Stands(r) /\ Block(r)
      BY <1>1 DEF PathInv, Blocks
    <2>2. Kinds(s, {"finish", "error", "end"}) = cs
      BY DEF Sent, Closers
    <2>3. s \in Seq(Frame) /\ cs \in Seq(Frame)
      BY <2>1, Kept, KindsType DEF Sent
    <2>4. PICK b \in Seq(Body) : s = b \o cs
      BY <2>1 DEF Stands, Output, Closed
    <2>5. b \in Seq(Frame)
      <3>1. Body \subseteq Frame
        BY DEF Body
      <3>2. QED
        BY <3>1, SeqMonotonic
    <2>6. cs \in Endings \cup {<<>>}
      BY <2>1, Sents
    <2>7. cons[r] = "done" /\ fate[r] # "broken" =>
            /\ cs # <<>> /\ style[r] \in {"openai", "acp"} => cs \in {<<Finish, End>>, <<Error, End>>}
            /\ style[r] \notin {"openai", "acp"} => cs \in {<<Finish>>, <<Error>>}
      BY <2>1, Sents
    <2>8. cons[r] = "done" => (cs = <<>> <=> fate[r] = "broken")
      BY <2>1, Sents
    <2>9. Count(s, "finish") + Count(s, "error") <= 1 /\ Count(s, "end") <= 1
      BY <2>1, Seen
    <2>10. IsSuffix(cs, s)
      <3> HIDE DEF cs, s
      <3>1. IsSuffix(cs, b \o cs)
        BY <2>3, <2>5, Suffix
      <3>2. QED
        BY <2>4, <3>1
    <2>11. cs # <<>> => cs[1] # End
      <3> HIDE DEF cs
      <3>1. QED
        BY <2>6, ListEnds
    <2>12. cons[r] = "done" /\ fate[r] # "broken" => (Last(s) = End <=> style[r] \in {"openai", "acp"})
      <3> HIDE DEF cs, s
      <3>1. SUFFICES ASSUME cons[r] = "done", fate[r] # "broken" PROVE Last(s) = End <=> style[r] \in {"openai", "acp"}
        OBVIOUS
      <3>2. cs # <<>> /\ cs \in Endings
        BY <2>6, <2>8, <3>1
      <3>3. Last(b \o cs) = cs[Len(cs)]
        BY <2>3, <2>5, <3>2, LastOf
      <3>4. Last(s) = End <=> cs \in {<<Finish, End>>, <<Error, End>>}
        BY <2>4, <3>2, <3>3, ListEnds
      <3>5. QED
        BY <2>7, <3>1, <3>2, <3>4, Lists
    <2>13. ASSUME style[r] = "anthropic"
           PROVE  /\ \A i \in DOMAIN s : s[i][1] = "text" => \E j \in 1 .. (i - 1) : s[j][1] = "start"
                  /\ Count(s, "start") <= 1
                  /\ Count(s, "stop") = IF Count(s, "finish") > 0 THEN Count(s, "start") ELSE 0
      <3>1. /\ Preceded(s) /\ (Count(s, "start") = 0 \/ Count(s, "start") = 1)
            /\ cs \in {<<Finish>>, <<Finish, End>>} => Count(s, "stop") = Count(s, "start")
            /\ cs \notin {<<Finish>>, <<Finish, End>>} => Count(s, "stop") = 0
        BY <2>1, <2>13, Kept DEF Block
      <3>2. DOMAIN s = 1 .. Len(s)
        BY <2>3, LenProperties
      <3>3. Count(s, "stop") = IF Count(s, "finish") > 0 THEN Count(s, "start") ELSE 0
        BY <2>1, <3>1, Seen
      <3>4. QED
        BY <3>1, <3>2, <3>3 DEF Preceded
    <2> HIDE DEF s, cs
    <2>14. (Last(s) = End <=> style[r] \in {"openai", "acp"})
              => ((Last(s) = End) = (style[r] \in {"openai", "acp"}))
      OBVIOUS
    <2>15. QED
      BY <2>2, <2>8, <2>9, <2>10, <2>11, <2>12, <2>13, <2>14 DEF s
  <1>2. PathInv /\ Blocks => WellFormed
    BY <1>1 DEF WellFormed
  <1>3. QED
    BY <1>2, PathAlways, BlocksAlways, PTL

-------------------------------------------------------------------------------
(* The pool underneath.                                                      *)

\* Whatever a request does, the pool sees one of the operations of Leasing or nothing.
LEMMA PathPool == ASSUME [Next]_vars PROVE [Pool!LeasingNext]_(Pool!leaseVars)
  <1> USE DEF pool, Pool!leaseVars
  <1>1. ASSUME NEW r \in Request,
               \/ Pool!TakeBack(r) \/ Pool!Return(r) \/ Pool!Lose(r) \/ Pool!Admit(r)
               \/ \E w \in Worker : Pool!Lend(r, w)
        PROVE  Pool!LeasingNext
    BY <1>1 DEF Pool!LeasingNext
  <1>2. ASSUME NEW r \in Request, NEW how, LeaveAs(r, how) PROVE Pool!LeasingNext
    BY <1>2, <1>1 DEF LeaveAs, RetireAs
  <1>3. ASSUME NEW r \in Request, TurnStep(r) PROVE Pool!LeasingNext \/ UNCHANGED pool
    <2>1. CASE Begin(r) \/ Called(r) \/ Emit(r)
      BY <2>1 DEF Begin, Called, Emit
    <2>2. CASE Admitted(r) \/ Spawned(r)
      BY <1>1, <2>2 DEF Admitted, Spawned
    <2>3. CASE NoLease(r) \/ Retired(r)
      BY <1>1, <2>3 DEF NoLease, Retired
    <2>4. CASE CallFailed(r) \/ Done(r)
      BY <1>2, <2>4 DEF CallFailed, Done
    <2>5. CASE ErrorEvent(r)
      BY <1>1, <1>2, <2>5 DEF ErrorEvent, RetireAs
    <2>6. CASE CancelTurn(r)
      BY <1>1, <1>2, <2>6 DEF CancelTurn
    <2>7. QED
      BY <1>3, <2>1, <2>2, <2>3, <2>4, <2>5, <2>6 DEF TurnStep
  <1>4. ASSUME NEW r \in Request, AnswerStep(r) PROVE UNCHANGED pool
    BY <1>4 DEF AnswerStep, Take, Collect, Joined
  <1>5. ASSUME NEW r \in Request, Arrive(r) \/ SendDone(r) \/ Ping(r) \/ Leave(r)
        PROVE  UNCHANGED pool
    BY <1>5 DEF Arrive, ChatCompletions, Responses, Messages, AcpChat, AcpChatStream, Asks,
                SendDone, Ping, Leave
  <1>6. CASE Shutdown \/ UNCHANGED vars
    BY <1>6 DEF Shutdown, vars
  <1>7. QED
    BY <1>3, <1>4, <1>5, <1>6 DEF Next

\* The service takes and gives back its leases in no other way than Leasing allows, which
\* the pool implements.
THEOREM PathUsesLeasing == Spec => Pool!LeasingSpec
  <1>1. Init => Pool!LeasingInit
    BY DEF Init
  <1>2. QED
    BY <1>1, PathPool, PTL DEF Spec, Pool!LeasingSpec

\* A turn that talks to a worker has a permit and a worker of its own, and the permits
\* with the lost ones are never more than the pool has.
Exclusive ==
  /\ \A r \in Request : turn[r] \in {"call", "prompt"} => r \in holders /\ lent[r] \in Worker
  /\ \A q, r \in Request : lent[q] = lent[r] /\ lent[q] # NoWorker => q = r
  /\ Cardinality(holders) + lost <= Limit

Talks(r) == turn[r] \in {"call", "prompt"} => r \in holders /\ lent[r] \in Worker

\* A turn goes on to "call" only with what it was lent, and gives it back by going on.
LEMMA TurnTalks ==
  ASSUME PathTypeOK, NEW r \in Request, TurnStep(r), Talks(r)
  PROVE  Talks(r)'
  <1> USE DEF PathTypeOK, Talks
  <1>1. ASSUME NEW y \in {"lease", "retire", "over"}, Turn(r, y) PROVE Talks(r)'
    BY <1>1 DEF Turn
  <1>2. ASSUME NEW how, Over(r, how) \/ Settled(r, how) \/ RetireAs(r, how) \/ LeaveAs(r, how)
        PROVE  Talks(r)'
    BY <1>1, <1>2 DEF LeaveAs, RetireAs, Settled, Over
  <1>3. CASE Begin(r) \/ NoLease(r) \/ Retired(r)
    BY <1>1, <1>2, <1>3 DEF Begin, NoLease, Retired
  <1>4. CASE CallFailed(r) \/ Done(r) \/ ErrorEvent(r)
    BY <1>2, <1>4 DEF CallFailed, Done, ErrorEvent
  <1>5. CASE CancelTurn(r)
    <2>1. CASE turn[r] = "retire" /\ UNCHANGED <<turn, fate, queue, pool, counters>>
      BY <2>1
    <2>2. QED
      BY <1>2, <1>5, <2>1 DEF CancelTurn
  <1>6. CASE Called(r)
    BY <1>6 DEF Called, In, Turn, pool
  <1>7. CASE Emit(r)
    BY <1>7 DEF Emit, pool
  <1>8. CASE Spawned(r)
    BY <1>8 DEF Spawned, Pool!Lend
  <1>9. CASE Admitted(r)
    <2>1. CASE lent'[r] = NoWorker
      BY <1>1, <1>9, <2>1 DEF Admitted
    <2>2. CASE lent'[r] # NoWorker
      <3>1. r \in holders'
        BY <1>9 DEF Admitted, Pool!Admit
      <3>2. lent'[r] \in Worker \cup {NoWorker}
        BY <1>9 DEF Admitted, Pool!Admit
      <3>3. QED
        BY <2>2, <3>1, <3>2
    <2>3. QED
      BY <2>1, <2>2
  <1>10. QED
    BY <1>3, <1>4, <1>5, <1>6, <1>7, <1>8, <1>9 DEF TurnStep

Apart == /\ \A q, r \in Request : lent[q] = lent[r] /\ lent[q] # NoWorker => q = r
         /\ Cardinality(holders) + lost <= Limit

\* Leasing keeps the lent workers apart and the permits within the limit.
LEMMA LeaseApart ==
  ASSUME PathTypeOK, Apart, [Pool!LeasingNext]_(Pool!leaseVars)
  PROVE  Apart'
  <1>1. /\ IsFiniteSet(holders) /\ Cardinality(holders) \in Nat /\ lost \in Nat /\ Limit \in Nat
        /\ lent \in [Request -> Worker \cup {NoWorker}]
    BY PathAssumption, FS_Subset, FS_CardinalityType DEF PathTypeOK
  <1>2. CASE UNCHANGED Pool!leaseVars
    BY <1>2 DEF Apart, Pool!leaseVars
  <1>3. ASSUME NEW r \in Request, NEW w \in Worker \cup {NoWorker},
               w = NoWorker \/ Pool!Free(w), lent' = [lent EXCEPT ![r] = w]
        PROVE  \A p, q \in Request : lent'[p] = lent'[q] /\ lent'[p] # NoWorker => p = q
    BY <1>1, <1>3 DEF Apart, Pool!Free
  <1>4. ASSUME NEW r \in Request, Pool!Admit(r) PROVE Apart'
    <2>1. Cardinality(holders \cup {r}) = Cardinality(holders) + 1
      BY <1>1, <1>4, FS_AddElement DEF Pool!Admit
    <2>2. Cardinality(holders') + lost' <= Limit
      <3>1. Pool!Cardinality(holders) = Cardinality(holders)
        BY DEF Pool!Cardinality, Cardinality
      <3>2. holders' = holders \cup {r} /\ lost' = lost /\ Cardinality(holders) + lost < Limit
        BY <1>4, <3>1 DEF Pool!Admit, Pool!Room
      <3> DEFINE n == Cardinality(holders)
                 k == Cardinality(holders')
      <3>3. k = n + 1 /\ n + lost < Limit /\ n \in Nat
        BY <1>1, <2>1, <3>2
      <3> HIDE DEF n, k
      <3>4. k + lost <= Limit
        BY <1>1, <3>3
      <3>5. QED
        BY <3>2, <3>4 DEF k
    <2>3. \A p, q \in Request : lent'[p] = lent'[q] /\ lent'[p] # NoWorker => p = q
      <3>1. CASE lent' = lent
        BY <3>1 DEF Apart
      <3>2. QED
        BY <1>3, <1>4, <3>1 DEF Pool!Admit
    <2>4. QED
      BY <2>2, <2>3 DEF Apart
  <1>5. ASSUME NEW r \in Request, Pool!Return(r) \/ Pool!Lose(r) PROVE Apart'
    <2>1. Cardinality(holders \ {r}) = Cardinality(holders) - 1
      BY <1>1, <1>5, FS_RemoveElement DEF Pool!Return, Pool!Lose
    <2>2. holders' = holders \ {r} /\ (lost' = lost \/ lost' = lost + 1)
      BY <1>5 DEF Pool!Return, Pool!Lose
    <2>3. Cardinality(holders') + lost' <= Limit
      BY <1>1, <2>1, <2>2 DEF Apart
    <2>4. CASE lent' = lent
      BY <2>3, <2>4 DEF Apart
    <2>5. QED
      BY <1>3, <1>5, <2>3, <2>4 DEF Apart, Pool!Return, Pool!Lose
  <1>6. ASSUME NEW r \in Request, Pool!TakeBack(r) \/ \E w \in Worker : Pool!Lend(r, w)
        PROVE  Apart'
    <2>1. holders' = holders /\ lost' = lost
      BY <1>6 DEF Pool!TakeBack, Pool!Lend
    <2>2. \A p, q \in Request : lent'[p] = lent'[q] /\ lent'[p] # NoWorker => p = q
      BY <1>3, <1>6 DEF Pool!TakeBack, Pool!Lend
    <2>3. QED
      BY <2>1, <2>2 DEF Apart
  <1>7. QED
    BY <1>2, <1>4, <1>5, <1>6 DEF Pool!LeasingNext

\* No two turns talk to one worker at a time, whatever is cancelled or fails, and the
\* turns under way never need more permits than the pool has.
THEOREM PathExclusive == Spec => []Exclusive
  <1> DEFINE Talking == \A r \in Request : Talks(r)
  <1>1. Init => Talking /\ Apart
    <2>1. SUFFICES ASSUME Init PROVE Talking /\ Apart
      OBVIOUS
    <2>2. holders = {} /\ lent = [c \in Request |-> NoWorker] /\ lost = 0
          /\ turn = [r \in Request |-> "none"]
      BY <2>1 DEF Init, Pool!LeasingInit
    <2>3. Cardinality(holders) + lost <= Limit
      BY <2>2, FS_EmptySet, PathAssumption
    <2>4. QED
      BY <2>2, <2>3 DEF Talks, Apart
  <1>2. ASSUME PathInv, Talking, Apart, [Next]_vars PROVE (Talking /\ Apart)'
    <2>1. PathTypeOK /\ \A r \in Request : Phase(r)
      BY <1>2 DEF PathInv, Stands
    <2>2. Apart'
      BY <1>2, <2>1, PathPool, LeaseApart
    <2>3. ASSUME NEW r \in Request, TurnStep(r) PROVE Talking'
      <3>1. \A q \in Request : q # r => Same(q)
        BY <2>1, <2>3, TurnStepEffect, TurnTypes DEF Phase
      <3>2. Talks(r)'
        BY <1>2, <2>1, <2>3, TurnTalks
      <3>3. ASSUME NEW q \in Request, q # r PROVE Talks(q)'
        BY <1>2, <3>1, <3>3 DEF Same, Talks
      <3>4. QED
        BY <3>2, <3>3
    <2>4. ASSUME NEW r \in Request, AnswerStep(r) \/ Ping(r) \/ Leave(r) PROVE Talking'
      BY <1>2, <2>4 DEF AnswerStep, Take, Collect, Joined, Ping, Leave, Talks, turnVars, pool
    <2>5. ASSUME NEW r \in Request, Arrive(r) \/ SendDone(r) PROVE Talking'
      <3>1. UNCHANGED pool /\ (UNCHANGED turn \/ Turn(r, "ready") \/ Turn(r, turn[r]))
        BY <2>5 DEF Arrive, ChatCompletions, Responses, Messages, AcpChat, AcpChatStream, Asks,
                    SendDone
      <3>2. QED
        BY <1>2, <2>1, <3>1 DEF Turn, Talks, pool, PathTypeOK
    <2>6. CASE Shutdown \/ UNCHANGED vars
      <3>1. UNCHANGED <<turn, holders, lent>>
        BY <2>6 DEF Shutdown, vars, turnVars, pool
      <3>2. QED
        BY <1>2, <2>2, <3>1 DEF Talks
    <2>7. QED
      BY <1>2, <2>2, <2>3, <2>4, <2>5, <2>6 DEF Next
  <1>3. Talking /\ Apart => Exclusive
    BY DEF Talks, Apart, Exclusive
  <1>4. QED
    BY <1>1, <1>2, <1>3, PathAlways, PTL DEF Spec
==============================================================================
