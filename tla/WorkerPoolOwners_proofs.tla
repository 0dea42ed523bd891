----------------------- MODULE WorkerPoolOwners_proofs -----------------------
(* What TLAPS proves of who has each worker of the pool, and of what becomes *)
(* of its subprocess.                                                        *)
EXTENDS WorkerPoolQueue_proofs

-------------------------------------------------------------------------------
(* Lists that hold each worker once.                                         *)

\* The elements of a concatenation.
LEMMA ConcatSet ==
  ASSUME NEW S, NEW s \in Seq(S), NEW t \in Seq(S)
  PROVE  /\ s \o t \in Seq(S) /\ ToSet(s \o t) = ToSet(s) \cup ToSet(t)
  <1>1. /\ Len(s) \in Nat /\ DOMAIN s = 1 .. Len(s)
        /\ Len(t) \in Nat /\ DOMAIN t = 1 .. Len(t)
    BY LenProperties
  <1>2. /\ s \o t \in Seq(S) /\ Len(s \o t) = Len(s) + Len(t)
        /\ \A j \in 1 .. (Len(s) + Len(t)) :
             (s \o t)[j] = IF j <= Len(s) THEN s[j] ELSE t[j - Len(s)]
    BY ConcatProperties
  <1>3. DOMAIN (s \o t) = 1 .. (Len(s) + Len(t))
    BY <1>2, LenProperties
  <1>4. ASSUME NEW i \in DOMAIN (s \o t) PROVE (s \o t)[i] \in ToSet(s) \cup ToSet(t)
    <2>1. CASE i <= Len(s)
      BY <1>1, <1>2, <1>3, <2>1 DEF ToSet
    <2>2. CASE i > Len(s)
      <3>1. i - Len(s) \in DOMAIN t /\ ~(i <= Len(s))
        BY <1>1, <1>3, <2>2
      <3> QED BY <1>2, <1>3, <3>1 DEF ToSet
    <2> QED BY <1>1, <1>3, <2>1, <2>2
  <1>5. ASSUME NEW i \in DOMAIN s PROVE s[i] \in ToSet(s \o t)
    <2>1. i \in DOMAIN (s \o t) /\ (s \o t)[i] = s[i]
      BY <1>1, <1>2, <1>3
    <2> QED BY <2>1 DEF ToSet
  <1>6. ASSUME NEW i \in DOMAIN t PROVE t[i] \in ToSet(s \o t)
    <2>1. Len(s) + i \in DOMAIN (s \o t) /\ ~(Len(s) + i <= Len(s))
          /\ (Len(s) + i) - Len(s) = i
      BY <1>1, <1>3
    <2>2. (s \o t)[Len(s) + i] = t[i]
      BY <1>2, <1>3, <2>1
    <2> QED BY <2>1, <2>2 DEF ToSet
  <1> QED BY <1>2, <1>4, <1>5, <1>6 DEF ToSet

\* Two lists without repeats and without a common element make one without repeats.
LEMMA ConcatNoRepeats ==
  ASSUME NEW S, NEW s \in Seq(S), NEW t \in Seq(S),
         NoRepeats(s), NoRepeats(t), Disjoint(ToSet(s), ToSet(t))
  PROVE  NoRepeats(s \o t)
  <1>1. /\ Len(s) \in Nat /\ DOMAIN s = 1 .. Len(s)
        /\ Len(t) \in Nat /\ DOMAIN t = 1 .. Len(t)
    BY LenProperties
  <1>2. /\ s \o t \in Seq(S) /\ Len(s \o t) = Len(s) + Len(t)
        /\ \A j \in 1 .. (Len(s) + Len(t)) :
             (s \o t)[j] = IF j <= Len(s) THEN s[j] ELSE t[j - Len(s)]
    BY ConcatProperties
  <1>3. DOMAIN (s \o t) = 1 .. (Len(s) + Len(t))
    BY <1>2, LenProperties
  <1>4. \A i \in DOMAIN (s \o t) :
          \/ i \in DOMAIN s /\ (s \o t)[i] = s[i]
          \/ ~(i <= Len(s)) /\ i - Len(s) \in DOMAIN t /\ (s \o t)[i] = t[i - Len(s)]
    BY <1>1, <1>2, <1>3
  <1>5. \A i \in DOMAIN s, j \in DOMAIN t : s[i] # t[j]
    BY DEF Disjoint, ToSet
  <1> SUFFICES ASSUME NEW i \in DOMAIN (s \o t), NEW j \in DOMAIN (s \o t), i # j
               PROVE  (s \o t)[i] # (s \o t)[j]
    BY DEF NoRepeats
  <1>6. CASE i \in DOMAIN s /\ (s \o t)[i] = s[i]
    <2>1. CASE j \in DOMAIN s /\ (s \o t)[j] = s[j]
      BY <1>6, <2>1 DEF NoRepeats
    <2> QED BY <1>4, <1>5, <1>6, <2>1
  <1>7. CASE ~(i <= Len(s)) /\ i - Len(s) \in DOMAIN t /\ (s \o t)[i] = t[i - Len(s)]
    <2>1. CASE ~(j <= Len(s)) /\ j - Len(s) \in DOMAIN t /\ (s \o t)[j] = t[j - Len(s)]
      <3>1. i - Len(s) # j - Len(s)
        BY <1>1, <1>3
      <3> QED BY <1>7, <2>1, <3>1 DEF NoRepeats
    <2> QED BY <1>4, <1>5, <1>7, <2>1
  <1> QED BY <1>4, <1>6, <1>7

\* What an idle stack without repeats gives when it is popped.
LEMMA PopSet ==
  ASSUME NEW S, NEW s \in Seq(S), s # <<>>, NoRepeats(s)
  PROVE  /\ Head(s) \in S /\ Tail(s) \in Seq(S) /\ NoRepeats(Tail(s))
         /\ Head(s) \in ToSet(s) /\ ToSet(Tail(s)) = ToSet(s) \ {Head(s)}
  <1>1. Len(s) \in Nat \ {0} /\ DOMAIN s = 1 .. Len(s)
    BY EmptySeq, LenProperties
  <1>2. /\ Head(s) \in S /\ Tail(s) \in Seq(S) /\ Head(s) = s[1]
        /\ DOMAIN Tail(s) = 1 .. (Len(s) - 1)
        /\ \A j \in 1 .. (Len(s) - 1) : Tail(s)[j] = s[j + 1]
    BY <1>1, HeadTailProperties, LenProperties
  <1>3. 1 \in DOMAIN s /\ Head(s) \in ToSet(s)
    BY <1>1, <1>2 DEF ToSet
  <1>4. \A j \in DOMAIN Tail(s) : j + 1 \in DOMAIN s \ {1}
    BY <1>1, <1>2
  <1>5. \A j \in DOMAIN s \ {1} : j - 1 \in DOMAIN Tail(s) /\ (j - 1) + 1 = j
    BY <1>1, <1>2
  <1>6. \A j, k \in DOMAIN Tail(s) : j # k => j + 1 # k + 1
    BY <1>2
  <1>7. NoRepeats(Tail(s))
    BY <1>2, <1>4, <1>6 DEF NoRepeats
  <1>8. ToSet(Tail(s)) \subseteq ToSet(s) \ {Head(s)}
    BY <1>2, <1>3, <1>4 DEF ToSet, NoRepeats
  <1>9. ASSUME NEW j \in DOMAIN s, s[j] # Head(s) PROVE s[j] \in ToSet(Tail(s))
    <2>1. j - 1 \in DOMAIN Tail(s) /\ Tail(s)[j - 1] = s[j]
      BY <1>2, <1>5, <1>9
    <2> QED BY <2>1 DEF ToSet
  <1>10. ToSet(s) \ {Head(s)} \subseteq ToSet(Tail(s))
    BY <1>9 DEF ToSet
  <1> QED BY <1>2, <1>3, <1>7, <1>8, <1>10

\* What a push on a stack without repeats makes of it.
LEMMA PushSet ==
  ASSUME NEW S, NEW w \in S, NEW s \in Seq(S), NoRepeats(s), w \notin ToSet(s)
  PROVE  /\ <<w>> \o s \in Seq(S) /\ NoRepeats(<<w>> \o s)
         /\ ToSet(<<w>> \o s) = ToSet(s) \cup {w}
  <1> DEFINE top == <<w>>
  <1>1. /\ top \in Seq(S) /\ ToSet(top) = {w} /\ NoRepeats(top)
    BY DEF ToSet, NoRepeats
  <1> HIDE DEF top
  <1>2. Disjoint(ToSet(top), ToSet(s))
    BY <1>1 DEF Disjoint
  <1>3. top \o s \in Seq(S) /\ ToSet(top \o s) = {w} \cup ToSet(s)
    BY <1>1, ConcatSet
  <1>4. NoRepeats(top \o s)
    BY <1>1, <1>2, ConcatNoRepeats
  <1> QED BY <1>3, <1>4 DEF top

\* The order in which _sweep puts the kept workers back does not change which they are.
LEMMA ReverseSet ==
  ASSUME NEW S, NEW s \in Seq(S), NoRepeats(s)
  PROVE  /\ Reverse(s) \in Seq(S) /\ NoRepeats(Reverse(s))
         /\ ToSet(Reverse(s)) = ToSet(s)
  <1> DEFINE Mirror(j) == (Len(s) - j) + 1
  <1>1. Len(s) \in Nat /\ DOMAIN s = 1 .. Len(s)
    BY LenProperties
  <1>2. DOMAIN Reverse(s) = DOMAIN s /\ \A j \in DOMAIN s : Reverse(s)[j] = s[Mirror(j)]
    BY <1>1 DEF Reverse
  <1>3. /\ \A j \in DOMAIN s : Mirror(j) \in DOMAIN s /\ Mirror(Mirror(j)) = j
        /\ \A j, k \in DOMAIN s : j # k => Mirror(j) # Mirror(k)
    BY <1>1
  <1> HIDE DEF Mirror
  <1>4. NoRepeats(Reverse(s))
    BY <1>2, <1>3 DEF NoRepeats
  <1>5. \A j \in DOMAIN s : s[j] = Reverse(s)[Mirror(j)]
    BY <1>2, <1>3
  <1>6. ToSet(Reverse(s)) = ToSet(s)
    BY <1>2, <1>3, <1>5 DEF ToSet
  <1> QED BY <1>4, <1>6, ReverseType

-------------------------------------------------------------------------------
(* The sweeper's lists.                                                      *)

\* After _sweep has taken the worker at place k of its drained list d out for
\* retirement, kept workers and workers still to be looked at are all the others.
LEMMA SweepSplit ==
  ASSUME NEW S, NEW kept \in Seq(S), NEW d \in Seq(S), NEW k \in DOMAIN d
  PROVE  /\ Len(kept) + k \in DOMAIN (kept \o d) /\ (kept \o d)[Len(kept) + k] = d[k]
         /\ (kept \o SubSeq(d, 1, k - 1)) \o SubSeq(d, k + 1, Len(d))
              = RemoveAt(kept \o d, Len(kept) + k)
  <1> DEFINE a == SubSeq(d, 1, k - 1)
             b == SubSeq(d, k + 1, Len(d))
             L == Len(kept)
             N == Len(d)
             c == kept \o d
             r == RemoveAt(c, L + k)
  <1>1. L \in Nat /\ N \in Nat /\ k \in 1 .. N /\ \A j \in 1 .. N : d[j] \in S
    BY LenProperties
  <1>2. a \in Seq(S) /\ Len(a) = k - 1 /\ \A j \in 1 .. (k - 1) : a[j] = d[j]
    <2>1. \A j \in 1 .. (k - 1) : d[j] \in S
      BY <1>1
    <2> QED BY <1>1, <2>1, SubSeqProperties, Z3
  <1>3. b \in Seq(S) /\ Len(b) = N - k /\ \A j \in 1 .. (N - k) : b[j] = d[k + j]
    <2>1. \A j \in (k + 1) .. N : d[j] \in S
      BY <1>1
    <2>2. /\ b \in Seq(S)
          /\ Len(b) = IF k + 1 <= N THEN N - (k + 1) + 1 ELSE 0
          /\ \A j \in 1 .. (N - (k + 1) + 1) : b[j] = d[(k + 1) + j - 1]
      BY <1>1, <2>1, SubSeqProperties, Z3
    <2>3. Len(b) = N - k
      BY <1>1, <2>2
    <2>4. ASSUME NEW j \in 1 .. (N - k) PROVE b[j] = d[k + j]
      <3>1. j \in 1 .. (N - (k + 1) + 1) /\ (k + 1) + j - 1 = k + j
        BY <1>1
      <3> QED BY <2>2, <3>1
    <2> QED BY <2>2, <2>3, <2>4
  <1>4. /\ c \in Seq(S) /\ Len(c) = L + N
        /\ \A j \in 1 .. (L + N) : c[j] = IF j <= L THEN kept[j] ELSE d[j - L]
    BY ConcatProperties
  <1> HIDE DEF a, b, c
  <1>5. L + k \in DOMAIN c /\ c[L + k] = d[k]
    <2>1. L + k \in 1 .. (L + N) /\ ~(L + k <= L) /\ (L + k) - L = k
      BY <1>1
    <2>2. DOMAIN c = 1 .. (L + N)
      BY <1>4, LenProperties
    <2> QED BY <1>4, <2>1, <2>2
  <1>6. /\ r \in Seq(S) /\ Len(r) = L + N - 1 /\ DOMAIN r = 1 .. (L + N - 1)
        /\ \A j \in 1 .. (L + N - 1) : r[j] = IF j < L + k THEN c[j] ELSE c[j + 1]
    <2> DEFINE n == L + k
    <2>1. n \in DOMAIN c
      BY <1>5
    <2> HIDE DEF n
    <2>2. /\ RemoveAt(c, n) \in Seq(S) /\ Len(RemoveAt(c, n)) = Len(c) - 1
          /\ DOMAIN RemoveAt(c, n) = 1 .. (Len(c) - 1)
          /\ \A j \in 1 .. (Len(c) - 1) :
               RemoveAt(c, n)[j] = IF j < n THEN c[j] ELSE c[j + 1]
      BY <1>4, <2>1, RemoveAtFacts
    <2> QED BY <1>4, <2>2 DEF n
  <1> DEFINE p == kept \o a
  <1>7. /\ p \in Seq(S) /\ Len(p) = L + (k - 1)
        /\ \A j \in 1 .. (L + (k - 1)) : p[j] = IF j <= L THEN kept[j] ELSE a[j - L]
    <2>1. kept \in Seq(S) /\ a \in Seq(S) /\ Len(a) = k - 1
      BY <1>2
    <2>2. /\ p \in Seq(S) /\ Len(p) = Len(kept) + Len(a)
          /\ \A j \in 1 .. (Len(kept) + Len(a)) :
               p[j] = IF j <= Len(kept) THEN kept[j] ELSE a[j - Len(kept)]
      BY <2>1, ConcatProperties
    <2> HIDE DEF p
    <2> QED BY <2>1, <2>2
  <1> HIDE DEF p
  <1>8. /\ p \o b \in Seq(S) /\ Len(p \o b) = L + N - 1
        /\ \A j \in 1 .. (L + N - 1) :
             (p \o b)[j] = IF j <= L + (k - 1) THEN p[j] ELSE b[j - (L + (k - 1))]
    <2>1. (L + (k - 1)) + (N - k) = L + N - 1
      BY <1>1
    <2>2. /\ p \o b \in Seq(S) /\ Len(p \o b) = Len(p) + Len(b)
          /\ \A j \in 1 .. (Len(p) + Len(b)) :
               (p \o b)[j] = IF j <= Len(p) THEN p[j] ELSE b[j - Len(p)]
      BY <1>3, <1>7, ConcatProperties
    <2> QED BY <1>3, <1>7, <2>1, <2>2
  <1> HIDE DEF r, L, N
  <1>9. ASSUME NEW j \in 1 .. (L + N - 1) PROVE (p \o b)[j] = r[j]
    <2>1. CASE j <= L
      <3>1. j <= L + (k - 1) /\ j < L + k /\ j \in 1 .. (L + N) /\ j \in 1 .. (L + (k - 1))
        BY <1>1, <2>1
      <3> QED BY <1>4, <1>6, <1>7, <1>8, <2>1, <3>1
    <2>2. CASE L < j /\ j < L + k
      <3>1. /\ ~(j <= L) /\ j <= L + (k - 1) /\ j \in 1 .. (L + N)
            /\ j \in 1 .. (L + (k - 1)) /\ j - L \in 1 .. (k - 1)
        BY <1>1, <2>2
      <3>2. (p \o b)[j] = d[j - L]
        BY <1>2, <1>7, <1>8, <3>1
      <3>3. r[j] = d[j - L]
        BY <1>4, <1>6, <2>2, <3>1
      <3> QED BY <3>2, <3>3
    <2>3. CASE j >= L + k
      <3>1. /\ ~(j <= L + (k - 1)) /\ ~(j < L + k) /\ j + 1 \in 1 .. (L + N) /\ ~(j + 1 <= L)
            /\ j - (L + (k - 1)) \in 1 .. (N - k)
            /\ k + (j - (L + (k - 1))) = (j + 1) - L
        BY <1>1, <2>3
      <3>2. (p \o b)[j] = d[(j + 1) - L]
        BY <1>3, <1>8, <3>1
      <3>3. r[j] = d[(j + 1) - L]
        BY <1>4, <1>6, <3>1
      <3> QED BY <3>2, <3>3
    <2>4. j <= L \/ (L < j /\ j < L + k) \/ j >= L + k
      BY <1>1
    <2> QED BY <2>1, <2>2, <2>3, <2>4
  <1>10. p \o b = r
    <2> DEFINE u == p \o b
    <2>1. u \in Seq(S) /\ Len(u) = Len(r) /\ \A j \in 1 .. Len(u) : u[j] = r[j]
      BY <1>6, <1>8, <1>9
    <2> HIDE DEF u
    <2>2. u = r
      BY <1>6, <2>1, SeqEqual
    <2> QED BY <2>2 DEF u
  <1>11. Len(kept) + k \in DOMAIN (kept \o d) /\ (kept \o d)[Len(kept) + k] = d[k]
    BY <1>5 DEF c, L
  <1>12. (kept \o SubSeq(d, 1, k - 1)) \o SubSeq(d, k + 1, Len(d)) = RemoveAt(kept \o d, Len(kept) + k)
    BY <1>10 DEF a, b, c, r, p, L
  <1> QED BY <1>11, <1>12

\* The idle stack, and the workers that only the sweeper knows of.
Stack == ToSet(idle)
Swept == ToSet(keep \o drained)

\* They are workers.
LEMMA ListsOfWorkers ==
  TypeOK => Stack \cup Swept \subseteq Worker /\ NoWorker \notin Stack \cup Swept
  <1> SUFFICES ASSUME TypeOK
               PROVE  Stack \cup Swept \subseteq Worker
    BY PoolAssumption
  <1>1. idle \in Seq(Worker) /\ keep \o drained \in Seq(Worker)
    BY ConcatProperties DEF TypeOK
  <1> QED BY <1>1, LenProperties DEF Stack, Swept, ToSet

\* A stretch of _sweep over the drained list d moves the workers it has drained back
\* to the stack, or takes the one it retires out of its lists.
LEMMA SweepFromFacts ==
  ASSUME TypeOK, NEW d \in Seq(Worker), NEW kept \in Seq(Worker), NEW rest \in Seq(Worker),
         NoRepeats(kept \o d), NoRepeats(rest), Disjoint(ToSet(rest), ToSet(kept \o d)),
         SweepFrom(d, kept, rest)
  PROVE  /\ NoRepeats(idle') /\ NoRepeats(keep' \o drained')
         /\ \/ /\ Stack' = ToSet(kept \o d) \cup ToSet(rest) /\ Swept' = {}
               /\ spc' = (IF closed THEN "off" ELSE "sleep") /\ sw' = NoWorker
               /\ drained' = <<>> /\ keep' = <<>>
               /\ UNCHANGED <<workers, total>>
            \/ /\ Stack' = ToSet(rest) /\ spc' = "retire"
               /\ sw' \in ToSet(kept \o d) /\ Swept' = ToSet(kept \o d) \ {sw'}
               /\ Untrack(sw') /\ Sweepable(sw')
  <1>1. kept \o d \in Seq(Worker)
    BY ConcatSet
  <1>2. CASE /\ idle' = Reverse(kept \o d) \o rest
             /\ spc' = IF closed THEN "off" ELSE "sleep"
             /\ sw' = NoWorker /\ drained' = <<>> /\ keep' = <<>>
             /\ UNCHANGED <<workers, total>>
    <2> DEFINE R == Reverse(kept \o d)
    <2>1. R \in Seq(Worker) /\ NoRepeats(R) /\ ToSet(R) = ToSet(kept \o d)
      BY <1>1, ReverseSet
    <2> HIDE DEF R
    <2>2. Disjoint(ToSet(R), ToSet(rest))
      BY <2>1 DEF Disjoint
    <2>3. ToSet(R \o rest) = ToSet(R) \cup ToSet(rest)
      BY <2>1, ConcatSet
    <2>4. NoRepeats(R \o rest)
      BY <2>1, <2>2, ConcatNoRepeats
    <2>5. <<>> \o <<>> = <<>> /\ ToSet(<<>>) = {} /\ NoRepeats(<<>>)
      BY EmptySeq DEF ToSet, NoRepeats
    <2> QED BY <1>2, <2>1, <2>3, <2>4, <2>5 DEF Stack, Swept, R
  <1>3. ASSUME NEW k \in DOMAIN d, Sweepable(d[k]), Untrack(d[k]), spc' = "retire", sw' = d[k],
               keep' = kept \o SubSeq(d, 1, k - 1),
               drained' = SubSeq(d, k + 1, Len(d)), idle' = rest
        PROVE  /\ NoRepeats(idle') /\ NoRepeats(keep' \o drained')
               /\ Stack' = ToSet(rest) /\ spc' = "retire"
               /\ sw' \in ToSet(kept \o d) /\ Swept' = ToSet(kept \o d) \ {sw'}
               /\ Untrack(sw') /\ Sweepable(sw')
    <2> DEFINE c == kept \o d
               n == Len(kept) + k
    <2>1. n \in DOMAIN c /\ c[n] = d[k] /\ keep' \o drained' = RemoveAt(c, n)
      BY <1>3, SweepSplit
    <2>2. NoRepeats(RemoveAt(c, n)) /\ ToSet(RemoveAt(c, n)) = ToSet(c) \ {c[n]}
      BY <1>1, <2>1, LeaveDeque
    <2>3. c[n] \in ToSet(c)
      BY <2>1 DEF ToSet
    <2> HIDE DEF c, n
    <2>4. NoRepeats(keep' \o drained') /\ Swept' = ToSet(c) \ {sw'} /\ sw' \in ToSet(c)
      BY <1>3, <2>1, <2>2, <2>3 DEF Swept
    <2> QED BY <1>3, <2>4 DEF Stack, c
  <1> QED BY <1>2, <1>3 DEF SweepFrom

-------------------------------------------------------------------------------
(* The invariant.                                                            *)

\* What the sweeper, start() and stop() may hold in each phase of the server.
Phases ==
  /\ spc \in {"off", "sleep"} => sw = NoWorker /\ drained = <<>> /\ keep = <<>>
  /\ mw # NoWorker => mpc = "prewarm"
  /\ mpc = "prewarm" => spc = "off" /\ \A l \in Lease : pc[l] = "out"
  /\ closed <=> mpc \in {"joining", "gather", "stopped"}
  /\ closed => spc # "sleep"
  /\ mpc \in {"gather", "stopped"} => spc = "off"
  /\ mpc # "gather" => stopping = {}

\* No worker stands twice in the lists or in a list and in the hand of a task.
Lists ==
  /\ NoRepeats(idle) /\ NoRepeats(keep \o drained) /\ Disjoint(Stack, Swept)
  /\ sw \notin Stack \cup Swept /\ mw \notin Stack

\* A lease's worker is no other lease's, and neither in a list nor with a task.
Hands ==
  /\ \A l, m \in Lease : l # m /\ held[l] = held[m] => held[l] = NoWorker
  /\ \A l \in Lease : held[l] \notin Stack \cup Swept
  /\ \A l \in Lease : held[l] \in Worker => held[l] # sw /\ held[l] # mw

\* _workers has exactly the workers of the lists and the turns while the pool is
\* open.  After stop() only those of spawns that ended too late to be collected.
Tracked ==
  /\ total = Cardinality(workers)
  /\ sw \notin workers /\ mw \notin workers
  /\ \A l \in Lease : held[l] \in workers => pc[l] = "turn"
  /\ ~closed => Stack \cup Swept \subseteq workers
  /\ ~closed => \A l \in Lease : pc[l] = "turn" => held[l] \in workers
  /\ \A w \in workers :
       \/ \E l \in Lease : held[l] = w
       \/ mpc \notin {"gather", "stopped"} /\ (~closed => w \in Stack \cup Swept)

OwnInv == Phases /\ Lists /\ Hands /\ Tracked

\* In the initial state there is no worker.
LEMMA OwnInit == Init => OwnInv
  <1> SUFFICES ASSUME Init PROVE OwnInv
    OBVIOUS
  <1>1. <<>> \o <<>> = <<>> /\ ToSet(<<>>) = {} /\ NoRepeats(<<>>)
    BY EmptySeq DEF ToSet, NoRepeats
  <1>2. Stack = {} /\ Swept = {} /\ NoRepeats(idle) /\ NoRepeats(keep \o drained)
    BY <1>1 DEF Init, Stack, Swept
  <1>3. Phases
    BY DEF Init, Phases
  <1>4. Lists
    BY <1>2 DEF Lists, Disjoint
  <1>5. Hands
    BY <1>2, PoolAssumption DEF Init, Hands
  <1>6. Cardinality({}) = 0
    BY FS_EmptySet
  <1>7. Tracked
    BY <1>2, <1>6, PoolAssumption DEF Init, Tracked
  <1> QED BY <1>3, <1>4, <1>5, <1>7 DEF OwnInv

\* What _workers and _total are after _retire_worker and after a spawn.
LEMMA TrackCount ==
  ASSUME TypeOK, total = Cardinality(workers), NEW w \in Worker
  PROVE  /\ Untrack(w) => workers' = workers \ {w} /\ total' = Cardinality(workers')
         /\ w \notin workers /\ Register(w)
              => workers' = workers \cup {w} /\ total' = Cardinality(workers')
  <1>1. IsFiniteSet(workers) /\ Cardinality(workers) \in Nat
    BY PoolAssumption, FS_Subset, FS_CardinalityType DEF TypeOK
  <1>2. ASSUME Untrack(w) PROVE workers' = workers \ {w} /\ total' = Cardinality(workers')
    <2>1. CASE w \in workers
      BY <1>1, <1>2, <2>1, FS_RemoveElement DEF Untrack
    <2>2. CASE w \notin workers
      <3>1. workers \ {w} = workers
        BY <2>2
      <3> QED BY <1>2, <2>2, <3>1 DEF Untrack
    <2> QED BY <2>1, <2>2
  <1>3. ASSUME w \notin workers, Register(w)
        PROVE  workers' = workers \cup {w} /\ total' = Cardinality(workers')
    BY <1>1, <1>3, FS_AddElement DEF Register
  <1> QED BY <1>2, <1>3

-------------------------------------------------------------------------------
(* lease().                                                                  *)

\* What _get_live_worker may do before it suspends or returns.
Takes(l, w) ==
  /\ w \in Stack /\ proc[w] = "up" /\ Goto(l, "turn", w)
  /\ Stack' = Stack \ {w} /\ NoRepeats(idle') /\ UNCHANGED <<workers, total, proc>>
Discards(l, w) ==
  /\ w \in Stack /\ proc[w] = "down" /\ Goto(l, "discarding", w)
  /\ Stack' = Stack \ {w} /\ NoRepeats(idle') /\ Untrack(w) /\ UNCHANGED proc
Spawns(l, w) ==
  /\ StartProcess(w) /\ Goto(l, "spawning", w) /\ UNCHANGED <<workers, total, idle>>

\* It does one of the three.
LEMMA GetLiveWorkerFacts ==
  ASSUME TypeOK, NoRepeats(idle), NEW l \in Lease, GetLiveWorker(l)
  PROVE  \E w \in Worker : Takes(l, w) \/ Discards(l, w) \/ Spawns(l, w)
  <1>1. idle \in Seq(Worker)
    BY DEF TypeOK
  <1>2. CASE idle # <<>>
    <2>1. /\ Head(idle) \in Worker /\ NoRepeats(Tail(idle))
          /\ Head(idle) \in Stack /\ ToSet(Tail(idle)) = Stack \ {Head(idle)}
      BY <1>1, <1>2, PopSet DEF Stack
    <2>2. idle' = Tail(idle) => Stack' = Stack \ {Head(idle)} /\ NoRepeats(idle')
      BY <2>1 DEF Stack
    <2> QED BY <1>2, <2>1, <2>2 DEF GetLiveWorker, Takes, Discards
  <1>3. CASE idle = <<>>
    BY <1>3 DEF GetLiveWorker, Spawns
  <1> QED BY <1>2, <1>3

\* A fresh identity belongs to nobody.
LEMMA FreshFacts ==
  ASSUME TypeOK, NEW w, w \in FreshWorkers
  PROVE  /\ w \in Worker /\ w \notin workers \cup stopping \cup Stack \cup Swept
         /\ w # sw /\ w # mw /\ \A l \in Lease : held[l] # w
         /\ proc[w] = "down"
  <1>1. Swept = ToSet(keep) \cup ToSet(drained)
    BY ConcatSet DEF Swept, TypeOK
  <1> QED BY <1>1 DEF FreshWorkers, Owned, Stack

\* Looking for a worker keeps the lists, the hands and the tracked workers in order.
LEMMA GetLiveWorkerKeeps ==
  ASSUME TypeOK, OwnInv, NEW l \in Lease, pc[l] # "turn", mpc # "prewarm",
         GetLiveWorker(l), UNCHANGED <<sweepVars, serverVars>>
  PROVE  Lists' /\ Hands' /\ Tracked'
  <1> USE DEF OwnInv
  <1>1. PICK w \in Worker : Takes(l, w) \/ Discards(l, w) \/ Spawns(l, w)
    BY GetLiveWorkerFacts DEF Lists
  <1>2. Swept' = Swept /\ sw' = sw /\ mw' = mw /\ closed' = closed /\ mpc' = mpc
        /\ keep' = keep /\ drained' = drained
    BY DEF sweepVars, mainVars, serverVars, Swept
  <1>3. pc \in [Lease -> LeaseStates] /\ held \in [Lease -> Worker \cup {NoWorker}]
        /\ NoWorker \notin Worker /\ Stack \subseteq Worker
    BY ListsOfWorkers, PoolAssumption DEF TypeOK
  <1>4. held[l] \notin workers
    BY DEF Tracked
  <1>5. mw = NoWorker
    BY DEF Phases
  <1>6. CASE Takes(l, w)
    <2>1. /\ w \in Stack /\ Stack' = Stack \ {w} /\ NoRepeats(idle')
          /\ pc' = [pc EXCEPT ![l] = "turn"] /\ held' = [held EXCEPT ![l] = w]
          /\ workers' = workers /\ total' = total
      BY <1>6 DEF Takes, Goto
    <2>2. Lists'
      BY <1>2, <2>1 DEF Lists, Disjoint
    <2>3. Hands'
      BY <1>2, <1>3, <1>5, <2>1 DEF Hands, Lists, Disjoint
    <2>4. ASSUME NEW x \in workers
          PROVE  \/ \E m \in Lease : held'[m] = x
                 \/ mpc' \notin {"gather", "stopped"} /\ (~closed' => x \in Stack' \cup Swept')
      BY <1>2, <1>3, <1>4, <2>1 DEF Tracked
    <2>5. Tracked'
      BY <1>2, <1>3, <2>1, <2>4 DEF Tracked
    <2> QED BY <2>2, <2>3, <2>5
  <1>7. CASE Discards(l, w)
    <2>1. /\ w \in Stack /\ Stack' = Stack \ {w} /\ NoRepeats(idle')
          /\ pc' = [pc EXCEPT ![l] = "discarding"] /\ held' = [held EXCEPT ![l] = w]
      BY <1>7 DEF Discards, Goto
    <2>2. workers' = workers \ {w} /\ total' = Cardinality(workers')
      BY <1>7, TrackCount DEF Discards, Tracked
    <2>3. Lists'
      BY <1>2, <2>1 DEF Lists, Disjoint
    <2>4. Hands'
      BY <1>2, <1>3, <1>5, <2>1 DEF Hands, Lists, Disjoint
    <2>5. ASSUME NEW x \in workers'
          PROVE  \/ \E m \in Lease : held'[m] = x
                 \/ mpc' \notin {"gather", "stopped"} /\ (~closed' => x \in Stack' \cup Swept')
      BY <1>2, <1>3, <1>4, <2>1, <2>2 DEF Tracked
    <2>6. \A m \in Lease : held[m] # w
      BY <2>1 DEF Hands
    <2>7. Stack' \cup Swept' \subseteq (Stack \cup Swept) \ {w}
      BY <1>2, <2>1 DEF Lists, Disjoint
    <2>8. Tracked'
      BY <1>2, <1>3, <2>1, <2>2, <2>5, <2>6, <2>7 DEF Tracked
    <2> QED BY <2>3, <2>4, <2>8
  <1>8. CASE Spawns(l, w)
    <2>1. /\ Stack' = Stack /\ idle' = idle /\ workers' = workers /\ total' = total
          /\ pc' = [pc EXCEPT ![l] = "spawning"] /\ held' = [held EXCEPT ![l] = w]
      BY <1>8 DEF Spawns, Goto, Stack
    <2>2. /\ w \notin workers \cup stopping \cup Stack \cup Swept
          /\ w # sw /\ w # mw /\ \A m \in Lease : held[m] # w
      BY <1>8, FreshFacts DEF Spawns, StartProcess
    <2>3. Lists'
      BY <1>2, <2>1 DEF Lists
    <2>4. Hands'
      BY <1>2, <1>3, <2>1, <2>2 DEF Hands
    <2>5. ASSUME NEW x \in workers
          PROVE  \/ \E m \in Lease : held'[m] = x
                 \/ mpc' \notin {"gather", "stopped"} /\ (~closed' => x \in Stack' \cup Swept')
      BY <1>2, <1>3, <1>4, <2>1 DEF Tracked
    <2>6. Tracked'
      BY <1>2, <1>3, <2>1, <2>2, <2>5 DEF Tracked
    <2> QED BY <2>3, <2>4, <2>6
  <1> QED BY <1>1, <1>6, <1>7, <1>8

\* A lease that is not in its turn ends: its worker, if it has one, is not tracked.
LEMMA LeaveKeeps ==
  ASSUME TypeOK, OwnInv, NEW l \in Lease, pc[l] # "turn", Goto(l, "out", NoWorker),
         UNCHANGED <<workers, total, idle, sweepVars, serverVars>>
  PROVE  Lists' /\ Hands' /\ Tracked'
  <1> USE DEF OwnInv
  <1>1. /\ Stack' = Stack /\ Swept' = Swept /\ sw' = sw /\ mw' = mw /\ closed' = closed
        /\ mpc' = mpc /\ idle' = idle /\ keep' = keep /\ drained' = drained
        /\ workers' = workers /\ total' = total
    BY DEF sweepVars, mainVars, serverVars, Swept, Stack
  <1>2. /\ pc \in [Lease -> LeaseStates] /\ held \in [Lease -> Worker \cup {NoWorker}]
        /\ pc' = [pc EXCEPT ![l] = "out"] /\ held' = [held EXCEPT ![l] = NoWorker]
        /\ workers \subseteq Worker /\ NoWorker \notin Worker
    BY PoolAssumption DEF TypeOK, Goto
  <1>3. NoWorker \notin Stack \cup Swept
    BY ListsOfWorkers
  <1>4. Lists'
    BY <1>1 DEF Lists
  <1>5. Hands'
    BY <1>1, <1>2, <1>3 DEF Hands
  <1>6. held[l] \notin workers
    BY DEF Tracked
  <1>7. ASSUME NEW x \in workers
        PROVE  \/ \E m \in Lease : held'[m] = x
               \/ mpc' \notin {"gather", "stopped"} /\ (~closed' => x \in Stack' \cup Swept')
    BY <1>1, <1>2, <1>6 DEF Tracked
  <1>8. Tracked'
    BY <1>1, <1>2, <1>7 DEF Tracked
  <1> QED BY <1>4, <1>5, <1>8

\* A new worker is tracked when its turn begins.
LEMMA SpawnedKeeps ==
  ASSUME TypeOK, OwnInv, NEW l \in Lease, Spawned(l)
  PROVE  Lists' /\ Hands' /\ Tracked'
  <1> USE DEF OwnInv
  <1>1. /\ Stack' = Stack /\ Swept' = Swept /\ sw' = sw /\ mw' = mw /\ closed' = closed
        /\ mpc' = mpc /\ idle' = idle /\ keep' = keep /\ drained' = drained /\ held' = held
        /\ pc' = [pc EXCEPT ![l] = "turn"]
    BY DEF Spawned, sweepVars, mainVars, serverVars, Swept, Stack
  <1>2. /\ pc \in [Lease -> LeaseStates] /\ held \in [Lease -> Worker \cup {NoWorker}]
        /\ pc[l] = "spawning" /\ held[l] \in Worker
    BY DEF TypeOK, Spawned, Admitted
  <1>3. workers' = workers \cup {held[l]} /\ total' = Cardinality(workers')
    <2>1. held[l] \notin workers
      BY <1>2 DEF Tracked
    <2> QED BY <1>2, <2>1, TrackCount DEF Spawned, Tracked
  <1>4. Lists'
    BY <1>1 DEF Lists
  <1>5. Hands'
    BY <1>1 DEF Hands
  <1>6. held[l] # sw /\ held[l] # mw /\ \A m \in Lease : m # l => held[m] # held[l]
    BY <1>2, PoolAssumption DEF Hands
  <1>7. ASSUME NEW x \in workers'
        PROVE  \/ \E m \in Lease : held'[m] = x
               \/ mpc' \notin {"gather", "stopped"} /\ (~closed' => x \in Stack' \cup Swept')
    BY <1>1, <1>3 DEF Tracked
  <1>8. Tracked'
    BY <1>1, <1>2, <1>3, <1>6, <1>7 DEF Tracked
  <1> QED BY <1>4, <1>5, <1>8

\* The worker of a turn goes back on the stack, or its retirement starts.
LEMMA EndTurnKeeps ==
  ASSUME TypeOK, OwnInv, NEW l \in Lease, EndTurn(l)
  PROVE  Lists' /\ Hands' /\ Tracked'
  <1> USE DEF OwnInv
  <1> DEFINE w == held[l]
  <1>1. /\ Swept' = Swept /\ sw' = sw /\ mw' = mw /\ closed' = closed
        /\ mpc' = mpc /\ keep' = keep /\ drained' = drained
    BY DEF EndTurn, sweepVars, mainVars, serverVars, Swept
  <1>2. /\ pc \in [Lease -> LeaseStates] /\ held \in [Lease -> Worker \cup {NoWorker}]
        /\ workers \subseteq Worker /\ NoWorker \notin Worker /\ pc[l] = "turn" /\ w \in Worker
    BY PoolAssumption DEF TypeOK, EndTurn, Admitted
  <1>3. /\ w \notin Stack \cup Swept /\ w # sw /\ w # mw
        /\ \A m \in Lease : m # l => held[m] # w
    BY <1>2 DEF Hands
  <1>4. CASE /\ ~closed /\ idle' = <<w>> \o idle /\ Goto(l, "out", NoWorker)
             /\ UNCHANGED <<workers, total>>
    <2>1. /\ Stack' = Stack \cup {w} /\ NoRepeats(idle')
          /\ workers' = workers /\ total' = total
          /\ pc' = [pc EXCEPT ![l] = "out"] /\ held' = [held EXCEPT ![l] = NoWorker]
      <3>1. idle \in Seq(Worker) /\ NoRepeats(idle) /\ w \notin ToSet(idle)
        BY <1>3 DEF TypeOK, Lists, Stack
      <3>2. ToSet(<<w>> \o idle) = ToSet(idle) \cup {w} /\ NoRepeats(<<w>> \o idle)
        BY <1>2, <3>1, PushSet
      <3> QED BY <1>4, <3>2 DEF Goto, Stack
    <2>2. NoWorker \notin Stack' \cup Swept
      BY <1>2, <2>1, ListsOfWorkers
    <2>3. Lists'
      BY <1>1, <1>3, <2>1 DEF Lists, Disjoint
    <2>4. Hands'
      BY <1>1, <1>2, <1>3, <2>1, <2>2 DEF Hands
    <2>5. w \in workers
      BY <1>2, <1>4 DEF Tracked
    <2>6. ASSUME NEW x \in workers
          PROVE  \/ \E m \in Lease : held'[m] = x
                 \/ mpc' \notin {"gather", "stopped"} /\ (~closed' => x \in Stack' \cup Swept')
      <3>1. mpc \notin {"gather", "stopped"}
        BY <1>4 DEF Phases
      <3> QED BY <1>1, <1>2, <2>1, <3>1 DEF Tracked
    <2>7. Tracked'
      BY <1>1, <1>2, <1>3, <2>1, <2>5, <2>6 DEF Tracked
    <2> QED BY <2>3, <2>4, <2>7
  <1>5. CASE Untrack(w) /\ Goto(l, "retiring", w) /\ UNCHANGED idle
    <2>1. /\ Stack' = Stack /\ idle' = idle
          /\ pc' = [pc EXCEPT ![l] = "retiring"] /\ held' = held
          /\ workers' = workers \ {w} /\ total' = Cardinality(workers')
      BY <1>2, <1>5, TrackCount DEF Goto, Stack, Tracked
    <2>2. Lists'
      BY <1>1, <2>1 DEF Lists
    <2>3. Hands'
      BY <1>1, <2>1 DEF Hands
    <2>4. ASSUME NEW x \in workers'
          PROVE  \/ \E m \in Lease : held'[m] = x
                 \/ mpc' \notin {"gather", "stopped"} /\ (~closed' => x \in Stack' \cup Swept')
      BY <1>1, <2>1 DEF Tracked
    <2>5. Tracked'
      BY <1>1, <1>2, <1>3, <2>1, <2>4 DEF Tracked
    <2> QED BY <2>2, <2>3, <2>5
  <1> QED BY <1>4, <1>5 DEF EndTurn, semVars

\* Every step of a lease() keeps the invariant.
LEMMA LeaseOwn ==
  ASSUME TypeOK, OwnInv, NEW l \in Lease, LeaseStep(l)
  PROVE  OwnInv'
  <1> USE DEF OwnInv
  <1>1. UNCHANGED <<sweepVars, serverVars>>
    BY DEF LeaseStep, Admit, Enqueue, Resume, GiveUp, Discarded, Spawned, LoseLease,
           EndTurn, Retired, CancelRetire, mainVars
  <1>2. mpc # "prewarm"
    <2>1. CASE Admit(l) \/ Enqueue(l)
      BY <2>1 DEF Admit, Enqueue, CanCall
    <2>2. CASE pc[l] # "out"
      BY <2>2 DEF Phases
    <2> QED BY <2>1, <2>2 DEF LeaseStep, Resume, GiveUp, Discarded, Spawned, LoseLease,
                              EndTurn, Retired, CancelRetire
  <1>3. Phases'
    BY <1>1, <1>2 DEF Phases, sweepVars, mainVars, serverVars
  <1>4. CASE Admit(l) \/ Resume(l) \/ Discarded(l)
    <2>1. GetLiveWorker(l) /\ pc[l] # "turn"
      BY <1>4 DEF Admit, Resume, Discarded, CanCall
    <2> QED BY <1>1, <1>2, <1>3, <2>1, GetLiveWorkerKeeps
  <1>5. CASE GiveUp(l) \/ LoseLease(l) \/ Retired(l) \/ CancelRetire(l)
    <2>1. /\ pc[l] # "turn" /\ Goto(l, "out", NoWorker)
          /\ UNCHANGED <<workers, total, idle>>
      BY <1>5 DEF GiveUp, LoseLease, Retired, CancelRetire, poolVars
    <2> QED BY <1>1, <1>3, <2>1, LeaveKeeps
  <1>6. CASE Enqueue(l)
    <2>1. /\ pc \in [Lease -> LeaseStates] /\ held[l] = NoWorker
      BY <1>6 DEF TypeOK, Enqueue, CanCall, Admitted
    <2>2. pc[l] # "turn" /\ pc' = [pc EXCEPT ![l] = "waiting"] /\ held' = held
          /\ UNCHANGED <<workers, total, idle>>
      BY <1>6 DEF Enqueue, CanCall, poolVars
    <2>3. Stack' = Stack /\ Swept' = Swept
      BY <1>1, <2>2 DEF Stack, Swept, sweepVars
    <2>4. Lists' /\ Hands'
      BY <1>1, <2>2, <2>3 DEF Lists, Hands, sweepVars, mainVars, serverVars
    <2>5. held[l] \notin workers
      BY <2>2 DEF Tracked
    <2>6. Tracked'
      BY <1>1, <2>1, <2>2, <2>3, <2>5 DEF Tracked, sweepVars, mainVars, serverVars
    <2> QED BY <1>3, <2>4, <2>6
  <1>7. CASE Spawned(l)
    BY <1>3, <1>7, SpawnedKeeps
  <1>8. CASE EndTurn(l)
    BY <1>3, <1>8, EndTurnKeeps
  <1> QED BY <1>4, <1>5, <1>6, <1>7, <1>8 DEF LeaseStep

-------------------------------------------------------------------------------
(* The sweeper.                                                              *)

\* A stretch of _sweep: it begins with the whole stack, or goes on from its lists.
LEMMA SweepStretch ==
  ASSUME TypeOK, Phases, Lists, SweepBegin \/ SweepResume
  PROVE  /\ NoRepeats(idle') /\ NoRepeats(keep' \o drained')
         /\ \/ /\ Stack' = Stack \cup Swept /\ Swept' = {}
               /\ spc' = (IF closed THEN "off" ELSE "sleep") /\ sw' = NoWorker
               /\ drained' = <<>> /\ keep' = <<>>
               /\ UNCHANGED <<workers, total>>
            \/ /\ sw' \in Stack \cup Swept /\ spc' = "retire"
               /\ Stack' \cup Swept' = (Stack \cup Swept) \ {sw'}
               /\ Disjoint(Stack', Swept')
               /\ Untrack(sw') /\ Sweepable(sw')
  <1>0. /\ idle \in Seq(Worker) /\ drained \in Seq(Worker) /\ keep \in Seq(Worker)
        /\ <<>> \in Seq(Worker)
    BY EmptySeq DEF TypeOK
  <1>1. ToSet(<<>>) = {} /\ NoRepeats(<<>>)
    BY EmptySeq DEF ToSet, NoRepeats
  <1>2. CASE SweepBegin
    <2>1. <<>> \o idle = idle /\ <<>> \o <<>> = <<>>
      BY <1>0, ConcatEmptySeq
    <2>2. drained = <<>> /\ keep = <<>> /\ Swept = {}
      BY <1>1, <1>2, <2>1 DEF SweepBegin, Phases, Swept
    <2>3. NoRepeats(<<>> \o idle) /\ Disjoint(ToSet(<<>>), ToSet(<<>> \o idle))
      BY <1>1, <2>1 DEF Lists, Disjoint
    <2>4. /\ NoRepeats(idle') /\ NoRepeats(keep' \o drained')
          /\ \/ /\ Stack' = ToSet(<<>> \o idle) \cup ToSet(<<>>) /\ Swept' = {}
                /\ spc' = (IF closed THEN "off" ELSE "sleep") /\ sw' = NoWorker
                /\ drained' = <<>> /\ keep' = <<>>
                /\ UNCHANGED <<workers, total>>
             \/ /\ Stack' = ToSet(<<>>) /\ spc' = "retire"
                /\ sw' \in ToSet(<<>> \o idle) /\ Swept' = ToSet(<<>> \o idle) \ {sw'}
                /\ Untrack(sw') /\ Sweepable(sw')
      BY <1>0, <1>1, <1>2, <2>3, SweepFromFacts DEF SweepBegin
    <2> QED BY <1>1, <2>1, <2>2, <2>4 DEF Stack, Disjoint
  <1>3. CASE SweepResume
    <2>1. /\ NoRepeats(idle') /\ NoRepeats(keep' \o drained')
          /\ \/ /\ Stack' = ToSet(keep \o drained) \cup ToSet(idle) /\ Swept' = {}
                /\ spc' = (IF closed THEN "off" ELSE "sleep") /\ sw' = NoWorker
                /\ drained' = <<>> /\ keep' = <<>>
                /\ UNCHANGED <<workers, total>>
             \/ /\ Stack' = ToSet(idle) /\ spc' = "retire"
                /\ sw' \in ToSet(keep \o drained) /\ Swept' = ToSet(keep \o drained) \ {sw'}
                /\ Untrack(sw') /\ Sweepable(sw')
      BY <1>0, <1>3, SweepFromFacts DEF SweepResume, Lists, Stack, Swept
    <2> QED BY <2>1 DEF Lists, Disjoint, Stack, Swept
  <1> QED BY <1>2, <1>3

\* The steps of the sweeper keep the invariant.
LEMMA SweepOwn ==
  ASSUME TypeOK, OwnInv, SweepBegin \/ SweepResume \/ SweepAbort
  PROVE  OwnInv'
  <1> USE DEF OwnInv
  <1>1. UNCHANGED <<pc, held, serverVars>>
    BY DEF SweepBegin, SweepResume, SweepAbort, mainVars
  <1>2. mpc # "prewarm" /\ mpc \notin {"gather", "stopped"}
    BY DEF Phases, SweepBegin, SweepResume, SweepAbort
  <1>3. /\ held \in [Lease -> Worker \cup {NoWorker}] /\ NoWorker \notin Worker
        /\ Stack \cup Swept \subseteq Worker /\ workers \subseteq Worker /\ mw = NoWorker
    BY <1>2, ListsOfWorkers, PoolAssumption DEF TypeOK, Phases
  <1>4. CASE /\ SweepBegin \/ SweepResume
             /\ Stack' = Stack \cup Swept /\ Swept' = {}
             /\ spc' = (IF closed THEN "off" ELSE "sleep") /\ sw' = NoWorker
             /\ drained' = <<>> /\ keep' = <<>>
             /\ UNCHANGED <<workers, total>>
    <2>1. NoRepeats(idle') /\ NoRepeats(keep' \o drained')
      BY <1>4, SweepStretch
    <2>2. Phases'
      BY <1>1, <1>2, <1>4 DEF Phases, mainVars, serverVars
    <2>3. Lists'
      BY <1>1, <1>3, <1>4, <2>1 DEF Lists, Disjoint, mainVars, serverVars
    <2>4. Hands'
      BY <1>1, <1>3, <1>4 DEF Hands, mainVars, serverVars
    <2>5. Tracked'
      BY <1>1, <1>2, <1>3, <1>4 DEF Tracked, mainVars, serverVars
    <2> QED BY <2>2, <2>3, <2>4, <2>5
  <1>5. CASE /\ SweepBegin \/ SweepResume
             /\ sw' \in Stack \cup Swept /\ spc' = "retire"
             /\ Stack' \cup Swept' = (Stack \cup Swept) \ {sw'}
             /\ Disjoint(Stack', Swept') /\ Untrack(sw')
    <2>1. NoRepeats(idle') /\ NoRepeats(keep' \o drained')
      BY <1>5, SweepStretch
    <2>2. Phases'
      BY <1>1, <1>2, <1>5 DEF Phases, SweepBegin, SweepResume, mainVars, serverVars
    <2>3. Lists'
      BY <1>1, <1>3, <1>5, <2>1 DEF Lists, mainVars, serverVars
    <2>4. Hands'
      BY <1>1, <1>3, <1>5 DEF Hands, mainVars, serverVars
    <2>5. workers' = workers \ {sw'} /\ total' = Cardinality(workers')
      <3>1. sw' \in Worker
        BY <1>3, <1>5
      <3> QED BY <1>5, <3>1, TrackCount DEF Tracked
    <2>6. \A l \in Lease : held[l] # sw'
      BY <1>5 DEF Hands
    <2>7. ASSUME NEW x \in workers'
          PROVE  \/ \E m \in Lease : held'[m] = x
                 \/ mpc' \notin {"gather", "stopped"} /\ (~closed' => x \in Stack' \cup Swept')
      BY <1>1, <1>2, <1>5, <2>5 DEF Tracked, mainVars, serverVars
    <2>8. Tracked'
      BY <1>1, <1>3, <1>5, <2>5, <2>6, <2>7 DEF Tracked, mainVars, serverVars
    <2> QED BY <2>2, <2>3, <2>4, <2>8
  <1>6. CASE SweepAbort
    <2>1. /\ idle' = idle /\ workers' = workers /\ total' = total /\ spc' = "off"
          /\ sw' = NoWorker /\ drained' = <<>> /\ keep' = <<>> /\ mpc = "joining"
      BY <1>6 DEF SweepAbort, poolVars
    <2>2. keep' \o drained' = <<>> /\ ToSet(<<>>) = {} /\ NoRepeats(<<>>)
      BY <2>1, EmptySeq DEF ToSet, NoRepeats
    <2>3. Stack' = Stack /\ Swept' = {} /\ NoRepeats(keep' \o drained')
      BY <2>1, <2>2 DEF Stack, Swept
    <2>4. Phases'
      BY <1>1, <1>2, <2>1 DEF Phases, mainVars, serverVars
    <2>5. Lists'
      BY <1>1, <1>3, <2>1, <2>3 DEF Lists, Disjoint, mainVars, serverVars
    <2>6. Hands'
      BY <1>1, <1>3, <2>1, <2>3 DEF Hands, mainVars, serverVars
    <2>7. closed
      BY <2>1 DEF Phases
    <2>8. Tracked'
      BY <1>1, <1>2, <1>3, <2>1, <2>3, <2>7 DEF Tracked, mainVars, serverVars
    <2> QED BY <2>4, <2>5, <2>6, <2>8
  <1> QED BY <1>4, <1>5, <1>6, SweepStretch

-------------------------------------------------------------------------------
(* start(), stop() and the death of a subprocess.                            *)

\* A step that moves no worker and changes no phase keeps the invariant.
LEMMA StillOwn ==
  ASSUME OwnInv, UNCHANGED <<pc, held, workers, total, idle, sweepVars, serverVars>>
  PROVE  OwnInv'
  <1>1. Stack' = Stack /\ Swept' = Swept
    BY DEF Stack, Swept, sweepVars
  <1> QED BY <1>1 DEF OwnInv, Phases, Lists, Hands, Tracked, sweepVars, mainVars, serverVars

\* The steps of start() keep the invariant.
LEMMA StartOwn ==
  ASSUME TypeOK, OwnInv, PrewarmSpawn \/ PrewarmSpawned \/ PrewarmFailed \/ Started
  PROVE  OwnInv'
  <1> USE DEF OwnInv
  <1>1. /\ UNCHANGED <<pc, held, drained, keep, sw, closed, stopping>> /\ Swept' = Swept
        /\ mpc = "prewarm" /\ spc = "off" /\ ~closed /\ stopping = {}
    BY DEF PrewarmSpawn, PrewarmSpawned, PrewarmFailed, Started, Phases, sweepVars, poolVars,
           Swept
  <1>2. /\ held = [l \in Lease |-> NoWorker] /\ NoWorker \notin Worker
        /\ sw = NoWorker /\ drained = <<>> /\ keep = <<>>
    <2>1. \A l \in Lease : held[l] = NoWorker
      BY <1>1 DEF TypeOK, Phases, Admitted
    <2> QED BY <1>1, <2>1, PoolAssumption DEF TypeOK, Phases
  <1>3. Swept = {} /\ Stack \subseteq Worker /\ workers \subseteq Worker /\ idle \in Seq(Worker)
    <2>1. <<>> \o <<>> = <<>> /\ ToSet(<<>>) = {}
      BY EmptySeq DEF ToSet
    <2> QED BY <1>2, <2>1, ListsOfWorkers DEF Swept, TypeOK
  <1>4. CASE PrewarmSpawn
    <2>1. PICK w \in Worker : StartProcess(w) /\ mw' = w
      BY <1>4 DEF PrewarmSpawn
    <2>2. w \notin workers \cup Stack
      BY <2>1, FreshFacts DEF StartProcess
    <2>3. /\ idle' = idle /\ Stack' = Stack /\ workers' = workers /\ total' = total
          /\ mpc' = mpc /\ spc' = spc
      BY <1>4 DEF PrewarmSpawn, Stack, sweepVars
    <2>4. Phases'
      BY <1>1, <1>2, <2>3 DEF Phases
    <2>5. Lists'
      BY <1>1, <2>1, <2>2, <2>3 DEF Lists
    <2>6. Hands'
      BY <1>1, <1>2, <2>3, <2>1 DEF Hands
    <2>7. Tracked'
      BY <1>1, <2>1, <2>2, <2>3 DEF Tracked
    <2> QED BY <2>4, <2>5, <2>6, <2>7
  <1>5. CASE PrewarmSpawned
    <2>1. /\ mw \in Worker /\ mw \notin Stack /\ mw \notin workers
          /\ mw' = NoWorker /\ mpc' = mpc /\ spc' = spc
      BY <1>5 DEF PrewarmSpawned, TypeOK, Lists, Tracked, sweepVars
    <2>2. workers' = workers \cup {mw} /\ total' = Cardinality(workers')
      BY <1>5, <2>1, TrackCount DEF PrewarmSpawned, Tracked
    <2>3. Stack' = Stack \cup {mw} /\ NoRepeats(idle')
      <3>1. NoRepeats(idle) /\ mw \notin ToSet(idle)
        BY <2>1 DEF Lists, Stack
      <3>2. ToSet(<<mw>> \o idle) = ToSet(idle) \cup {mw} /\ NoRepeats(<<mw>> \o idle)
        BY <1>3, <2>1, <3>1, PushSet
      <3> QED BY <1>5, <3>2 DEF PrewarmSpawned, Stack
    <2>4. Phases'
      BY <1>1, <1>2, <2>1 DEF Phases
    <2>5. Lists'
      BY <1>1, <1>2, <1>3, <2>1, <2>3 DEF Lists, Disjoint
    <2>6. Hands'
      BY <1>1, <1>2, <1>3, <2>1, <2>3 DEF Hands
    <2>7. Tracked'
      BY <1>1, <1>2, <1>3, <2>1, <2>2, <2>3 DEF Tracked
    <2> QED BY <2>4, <2>5, <2>6, <2>7
  <1>6. CASE PrewarmFailed \/ Started
    <2>1. /\ idle' = idle /\ Stack' = Stack /\ workers' = workers /\ total' = total
          /\ mw' = NoWorker
      BY <1>6 DEF PrewarmFailed, Started, Stack, poolVars, TypeOK
    <2>2. Phases'
      BY <1>1, <1>2, <1>6, <2>1 DEF Phases, PrewarmFailed, Started, sweepVars
    <2>3. Lists'
      BY <1>1, <1>3, <2>1, <1>2 DEF Lists
    <2>4. Hands'
      BY <1>1, <1>2, <2>1 DEF Hands
    <2>5. mpc' \notin {"gather", "stopped"}
      BY <1>1, <1>6 DEF PrewarmFailed, Started
    <2>6. Tracked'
      BY <1>1, <1>2, <1>3, <2>1, <2>5 DEF Tracked
    <2> QED BY <2>2, <2>3, <2>4, <2>6
  <1> QED BY <1>4, <1>5, <1>6

\* The steps of stop() keep the invariant.
LEMMA StopOwn ==
  ASSUME TypeOK, OwnInv,
         StopBegin \/ StopCollect \/ StopDone \/ \E w \in Worker : StopWorker(w) \/ Die(w)
  PROVE  OwnInv'
  <1> USE DEF OwnInv
  <1>1. CASE StopBegin \/ StopDone
    <2>1. /\ UNCHANGED <<pc, held, workers, total, idle, drained, keep, sw, mw, stopping>>
          /\ Stack' = Stack /\ Swept' = Swept
      BY <1>1 DEF StopBegin, StopDone, poolVars, sweepVars, Stack, Swept
    <2>2. Phases'
      BY <1>1, <2>1 DEF Phases, StopBegin, StopDone, sweepVars, TypeOK
    <2>3. Lists' /\ Hands'
      BY <2>1 DEF Lists, Hands
    <2>4. /\ mpc' \in {"gather", "stopped"} => mpc \in {"gather", "stopped"}
          /\ ~closed' => ~closed
      BY <1>1 DEF StopBegin, StopDone, Phases
    <2>5. Tracked'
      BY <2>1, <2>4 DEF Tracked
    <2> QED BY <2>2, <2>3, <2>5
  <1>2. CASE StopCollect
    <2>1. /\ UNCHANGED <<pc, held, idle, drained, keep, spc, sw, mw, closed>>
          /\ Stack' = Stack /\ Swept' = Swept /\ workers' = {} /\ total' = 0
          /\ mpc = "joining" /\ mpc' = "gather" /\ spc = "off"
      BY <1>2 DEF StopCollect, sweepVars, Stack, Swept
    <2>2. Phases'
      BY <2>1 DEF Phases
    <2>3. Lists' /\ Hands'
      BY <2>1 DEF Lists, Hands
    <2>4. Cardinality({}) = 0 /\ closed
      BY <2>1, FS_EmptySet DEF Phases
    <2>5. Tracked'
      BY <2>1, <2>4 DEF Tracked
    <2> QED BY <2>2, <2>3, <2>5
  <1>3. ASSUME NEW w \in Worker, StopWorker(w) PROVE OwnInv'
    <2>1. /\ UNCHANGED <<pc, held, workers, total, idle, sweepVars, mpc, mw, closed>>
          /\ Stack' = Stack /\ Swept' = Swept /\ mpc = "gather"
      BY <1>3 DEF StopWorker, sweepVars, Stack, Swept, Phases
    <2> QED BY <2>1 DEF Phases, Lists, Hands, Tracked, sweepVars
  <1>4. ASSUME NEW w \in Worker, Die(w) PROVE OwnInv'
    BY <1>4, StillOwn DEF Die, mainVars
  <1> QED BY <1>1, <1>2, <1>3, <1>4

\* Every step keeps the invariant.
LEMMA OwnStep == TypeOK /\ OwnInv /\ [Next]_vars => OwnInv'
  <1> SUFFICES ASSUME TypeOK, OwnInv, [Next]_vars PROVE OwnInv'
    OBVIOUS
  <1>1. CASE Finished \/ UNCHANGED vars
    BY <1>1, StillOwn DEF Finished, vars, poolVars, mainVars
  <1> QED BY <1>1, LeaseOwn, SweepOwn, StartOwn, StopOwn DEF Next

\* The inductive invariant of the owners.
LEMMA PoolOwners == Spec => []OwnInv
  BY InitType, NextType, OwnInit, OwnStep, PTL DEF Spec

\* One turn per worker, for all numbers of slots and identities: the sweeper, which
\* takes the stack away while calls come, never gives a worker to two owners.
THEOREM PoolExclusiveWorkers == Spec => []ExclusiveWorkers
  <1>1. TypeOK /\ OwnInv => ExclusiveWorkers
    <2> SUFFICES ASSUME TypeOK, OwnInv PROVE ExclusiveWorkers
      OBVIOUS
    <2>1. Swept = ToSet(drained) \cup ToSet(keep)
      BY ConcatSet DEF Swept, TypeOK
    <2>2. \A l \in At(Admitted) : l \in Lease /\ held[l] \in Worker /\ held[l] # NoWorker
      BY PoolAssumption DEF At, TypeOK
    <2> QED BY <2>1, <2>2 DEF OwnInv, Hands, Lists, ExclusiveWorkers, Stack
  <1> QED BY <1>1, PoolType, PoolOwners, PTL

\* _total counts _workers, and no worker of an open pool is where nobody finds it.
THEOREM PoolNoneStranded == Spec => []NoneStranded
  <1>1. TypeOK /\ OwnInv => NoneStranded
    <2> SUFFICES ASSUME TypeOK, OwnInv PROVE NoneStranded
      OBVIOUS
    <2>1. Swept = ToSet(drained) \cup ToSet(keep)
      BY ConcatSet DEF Swept, TypeOK
    <2>2. ASSUME ~closed, NEW w \in workers
          PROVE  w \in Stack \cup Swept \cup {held[l] : l \in At({"turn"})}
      BY <2>2 DEF OwnInv, Tracked, At
    <2>3. ASSUME ~closed, NEW w \in Stack \cup Swept \cup {held[l] : l \in At({"turn"})}
          PROVE  w \in workers
      BY <2>3 DEF OwnInv, Tracked, At
    <2> QED BY <2>1, <2>2, <2>3 DEF OwnInv, Tracked, NoneStranded, Stack
  <1> QED BY <1>1, PoolType, PoolOwners, PTL

\* Whatever was spawning, in a turn or being retired when stop() ran, nothing is
\* tracked or counted after the last lease has ended.
THEOREM PoolStopForgets == Spec => []StopForgets
  <1>1. TypeOK /\ OwnInv => StopForgets
    <2> SUFFICES ASSUME TypeOK, OwnInv, mpc = "stopped", At(Admitted) = {}
                 PROVE  total = 0 /\ workers = {}
      BY DEF StopForgets
    <2>1. workers = {}
      <3> SUFFICES ASSUME NEW w \in workers PROVE FALSE
        OBVIOUS
      <3>1. PICK l \in Lease : held[l] = w
        BY DEF OwnInv, Tracked
      <3>2. l \in At(Admitted)
        BY <3>1 DEF TypeOK, At
      <3> QED BY <3>2
    <2> QED BY <2>1, FS_EmptySet DEF OwnInv, Tracked
  <1> QED BY <1>1, PoolType, PoolOwners, PTL

\* The sweeper retires a live worker only while more than min_workers are tracked,
\* also when workers were lost or spawned between two of its retirements.
THEOREM PoolSweepKeepsMinimum == Spec => SweepKeepsMinimum
  <1> DEFINE Keeps == spc' = "retire" /\ sw' # sw /\ proc[sw'] = "up" => total' >= MinWorkers
  <1>1. TypeOK /\ OwnInv /\ [Next]_vars => Keeps
    <2> SUFFICES ASSUME TypeOK, OwnInv, [Next]_vars, spc' = "retire", sw' # sw,
                        proc[sw'] = "up"
                 PROVE  total' >= MinWorkers
      OBVIOUS
    <2>1. SweepBegin \/ SweepResume
      <3>1. ASSUME NEW l \in Lease, LeaseStep(l) PROVE sw' = sw
        BY <3>1 DEF LeaseStep, Admit, Enqueue, Resume, GiveUp, Discarded, Spawned, LoseLease,
                    EndTurn, Retired, CancelRetire, sweepVars
      <3>2. ASSUME NEW w \in Worker, StopWorker(w) \/ Die(w) PROVE sw' = sw
        BY <3>2 DEF StopWorker, Die, sweepVars
      <3>3. ~SweepAbort
        BY DEF SweepAbort
      <3>4. ~(PrewarmSpawn \/ PrewarmSpawned \/ PrewarmFailed \/ Started)
        BY DEF PrewarmSpawn, PrewarmSpawned, PrewarmFailed, Started, sweepVars
      <3>5. ~(StopBegin \/ StopCollect \/ StopDone \/ Finished \/ UNCHANGED vars)
        BY DEF StopBegin, StopCollect, StopDone, Finished, vars, sweepVars
      <3> QED BY <3>1, <3>2, <3>3, <3>4, <3>5 DEF Next
    <2>2. Untrack(sw') /\ Sweepable(sw')
      BY <2>1, SweepStretch DEF OwnInv
    <2>3. total > MinWorkers /\ total \in Int /\ MinWorkers \in Nat
      BY <2>2, PoolAssumption DEF Sweepable, TypeOK
    <2>4. total' = total - 1 \/ total' = total
      BY <2>2 DEF Untrack
    <2> QED BY <2>3, <2>4
  <1>2. Spec => [][Keeps]_vars
    BY <1>1, PoolType, PoolOwners, PTL DEF Spec
  <1> QED BY <1>2 DEF SweepKeepsMinimum

-------------------------------------------------------------------------------
(* Subprocesses.                                                             *)

\* Somebody who can still stop the subprocess of w refers to w, or w is x.
InHand(w, x) ==
  \/ w \in workers \cup stopping \/ w = x \/ w = mw
  \/ \E l \in Lease : held[l] = w

\* Every live subprocess is in somebody's hand, but for x: the worker the sweeper is
\* retiring, or the one it was retiring when stop() cancelled it.
OneLoose(x) ==
  /\ \A w \in Worker : proc[w] = "up" => InHand(w, x)
  /\ ~closed \/ spc = "retire" => x = sw

Processes ==
  /\ \A l \in Lease : pc[l] = "discarding" => proc[held[l]] = "down"
  /\ ~faulted => \E x \in Worker \cup {NoWorker} : OneLoose(x)

\* A new subprocess is in the hand of its spawner; nobody else's changes.
LEMMA ProcessesLease ==
  ASSUME TypeOK, OwnInv, Processes, NEW l \in Lease, LeaseStep(l)
  PROVE  Processes'
  <1>0. faulted => faulted'
    BY DEF LeaseStep, Admit, Enqueue, Resume, GiveUp, Discarded, Spawned, LoseLease,
           EndTurn, Retired, CancelRetire, mainVars
  <1>1. UNCHANGED <<sweepVars, serverVars>>
    BY DEF LeaseStep, Admit, Enqueue, Resume, GiveUp, Discarded, Spawned, LoseLease,
           EndTurn, Retired, CancelRetire, mainVars
  <1>2. /\ spc' = spc /\ sw' = sw /\ mw' = mw /\ closed' = closed /\ stopping' = stopping
    BY <1>1 DEF sweepVars, mainVars, serverVars
  <1>3. /\ pc \in [Lease -> LeaseStates] /\ held \in [Lease -> Worker \cup {NoWorker}]
        /\ proc \in [Worker -> {"up", "down"}] /\ workers \subseteq Worker
        /\ NoWorker \notin Worker
        /\ \A m \in Lease : held[m] \in Worker <=> pc[m] \in Admitted
    BY PoolAssumption DEF TypeOK
  <1>4. {"discarding", "spawning", "turn", "retiring"} \subseteq Admitted
        /\ "out" \notin Admitted /\ "waiting" \notin Admitted
    BY DEF Admitted
  <1>5. \A m \in Lease : m # l /\ held[m] \in Worker => held[m] # held[l]
    BY <1>3 DEF OwnInv, Hands
  <1>6. ASSUME NEW x, NEW w \in Worker, InHand(w, x),
               w \notin workers \/ w \in workers', held'[l] = w \/ held[l] # w,
               \A m \in Lease \ {l} : held'[m] = held[m]
        PROVE  InHand(w, x)'
    BY <1>2, <1>6 DEF InHand
  <1>7. CASE Admit(l) \/ Resume(l) \/ Discarded(l)
    <2>1. GetLiveWorker(l) /\ (pc[l] = "discarding" \/ held[l] = NoWorker)
      BY <1>3, <1>4, <1>7 DEF Admit, Resume, Discarded, CanCall
    <2>2. PICK w \in Worker : Takes(l, w) \/ Discards(l, w) \/ Spawns(l, w)
      BY <2>1, GetLiveWorkerFacts DEF OwnInv, Lists
    <2>3. held' = [held EXCEPT ![l] = w] /\ pc' \in [Lease -> LeaseStates]
          /\ \A m \in Lease \ {l} : pc'[m] = pc[m]
      BY <2>2, <1>3 DEF Takes, Discards, Spawns, Goto, LeaseStates
    <2>4. \A v \in Worker : v # w => proc'[v] = proc[v] /\ (v \in workers => v \in workers')
      BY <2>2, <1>3 DEF Takes, Discards, Spawns, StartProcess, Untrack
    <2>5. pc'[l] = "discarding" => proc'[w] = "down"
      BY <2>2, <1>3 DEF Takes, Discards, Spawns, Goto
    <2>6. \A m \in Lease \ {l} : held[m] # w
      <3>1. CASE Takes(l, w) \/ Discards(l, w)
        BY <3>1 DEF Takes, Discards, OwnInv, Hands
      <3>2. CASE Spawns(l, w)
        BY <3>2, FreshFacts DEF Spawns, StartProcess
      <3> QED BY <2>2, <3>1, <3>2
    <2>7. \A m \in Lease : pc'[m] = "discarding" => proc'[held'[m]] = "down"
      BY <1>3, <1>4, <2>3, <2>4, <2>5, <2>6 DEF Processes
    <2>8. ASSUME NEW x \in Worker \cup {NoWorker}, OneLoose(x) PROVE OneLoose(x)'
      <3>1. ASSUME NEW v \in Worker, proc'[v] = "up" PROVE InHand(v, x)'
        <4>1. CASE v = w
          BY <1>3, <2>3, <4>1 DEF InHand
        <4>2. CASE v # w
          <5>1. proc[v] = "up" /\ InHand(v, x)
            BY <2>4, <2>8, <3>1, <4>2 DEF OneLoose
          <5>2. held[l] # v
            BY <1>3, <2>1, <5>1 DEF Processes
          <5> QED BY <1>3, <1>6, <2>3, <2>4, <4>2, <5>1, <5>2
        <4> QED BY <4>1, <4>2
      <3> QED BY <1>2, <2>8, <3>1 DEF OneLoose
    <2> QED BY <1>0, <2>7, <2>8 DEF Processes
  <1>8. CASE GiveUp(l) \/ Enqueue(l)
    <2>1. held[l] = NoWorker
      BY <1>3, <1>4, <1>8 DEF GiveUp, Enqueue, CanCall
    <2>2. /\ held' = held /\ workers' = workers /\ proc' = proc
          /\ \A m \in Lease : pc'[m] = "discarding" => pc[m] = "discarding"
      BY <1>3, <1>8, <2>1 DEF GiveUp, Enqueue, Goto, poolVars
    <2> QED BY <1>2, <1>0, <2>2 DEF Processes, OneLoose, InHand
  <1>9. CASE LoseLease(l) \/ CancelRetire(l)
    <2>1. faulted' /\ Goto(l, "out", NoWorker)
      BY <1>9 DEF LoseLease, CancelRetire
    <2>2. \A v \in Worker : proc[v] = "down" => proc'[v] = "down"
      BY <1>3, <1>9 DEF LoseLease, CancelRetire, Stopped, poolVars
    <2> QED BY <1>3, <1>4, <2>1, <2>2 DEF Processes, Goto
  <1>10. CASE Spawned(l)
    <2>1. /\ held' = held /\ proc' = proc /\ workers \subseteq workers'
          /\ \A m \in Lease : pc'[m] = "discarding" => pc[m] = "discarding"
      BY <1>3, <1>10 DEF Spawned, Register
    <2> QED BY <1>2, <1>0, <2>1 DEF Processes, OneLoose, InHand
  <1>11. CASE EndTurn(l)
    <2> DEFINE w == held[l]
    <2>1. w \in Worker /\ proc' = proc /\ pc[l] = "turn"
      BY <1>3, <1>4, <1>11 DEF EndTurn
    <2>2. \A m \in Lease : pc'[m] = "discarding" => pc[m] = "discarding" /\ held'[m] = held[m]
      BY <1>3, <1>11 DEF EndTurn, Goto
    <2>3. /\ \A m \in Lease \ {l} : held'[m] = held[m]
          /\ \A v \in workers : v = w \/ v \in workers'
          /\ held'[l] = w \/ w \in workers'
      <3>1. CASE ~closed /\ Goto(l, "out", NoWorker) /\ UNCHANGED workers
        <4>1. w \in workers
          BY <1>3, <2>1, <3>1 DEF OwnInv, Tracked
        <4> QED BY <1>3, <3>1, <4>1 DEF Goto
      <3>2. CASE Untrack(w) /\ Goto(l, "retiring", w)
        BY <1>3, <3>2 DEF Goto, Untrack
      <3> QED BY <1>11, <3>1, <3>2 DEF EndTurn
    <2> HIDE DEF w
    <2>4. ASSUME NEW x \in Worker \cup {NoWorker}, OneLoose(x) PROVE OneLoose(x)'
      <3>1. ASSUME NEW v \in Worker, proc'[v] = "up" PROVE InHand(v, x)'
        <4>1. proc[v] = "up" /\ InHand(v, x)
          BY <2>1, <2>4, <3>1 DEF OneLoose
        <4>2. CASE v = w
          BY <1>2, <2>3, <4>2 DEF InHand
        <4>3. CASE v # w
          BY <1>2, <2>3, <4>1, <4>3 DEF InHand, w
        <4> QED BY <4>2, <4>3
      <3> QED BY <1>2, <2>4, <3>1 DEF OneLoose
    <2> QED BY <1>0, <2>1, <2>2, <2>4 DEF Processes
  <1>12. CASE Retired(l)
    <2>1. /\ held' = [held EXCEPT ![l] = NoWorker] /\ pc' = [pc EXCEPT ![l] = "out"]
          /\ proc' = [proc EXCEPT ![held[l]] = "down"] /\ workers' = workers
      BY <1>12 DEF Retired, Goto, Stopped
    <2>2. \A m \in Lease : pc'[m] = "discarding" => proc'[held'[m]] = "down"
      BY <1>3, <1>4, <2>1 DEF Processes
    <2>3. ASSUME NEW x \in Worker \cup {NoWorker}, OneLoose(x) PROVE OneLoose(x)'
      <3>1. ASSUME NEW v \in Worker, proc'[v] = "up" PROVE InHand(v, x)'
        <4>1. proc[v] = "up" /\ v # held[l] /\ InHand(v, x)
          BY <1>3, <2>1, <2>3, <3>1 DEF OneLoose
        <4> QED BY <1>3, <1>6, <2>1, <4>1
      <3> QED BY <1>2, <2>3, <3>1 DEF OneLoose
    <2> QED BY <1>0, <2>2, <2>3 DEF Processes
  <1> QED BY <1>7, <1>8, <1>9, <1>10, <1>11, <1>12 DEF LeaseStep

\* The sweeper has at most one worker that it has untracked in its hand.
LEMMA ProcessesSweep ==
  ASSUME TypeOK, OwnInv, Processes, SweepBegin \/ SweepResume \/ SweepAbort
  PROVE  Processes'
  <1>1. /\ pc' = pc /\ held' = held /\ mw' = mw /\ closed' = closed /\ stopping' = stopping
        /\ faulted' = faulted
    BY DEF SweepBegin, SweepResume, SweepAbort, mainVars, serverVars
  <1>2. /\ proc \in [Worker -> {"up", "down"}] /\ workers \subseteq Worker
        /\ NoWorker \notin Worker /\ sw \in Worker \cup {NoWorker}
        /\ Stack \cup Swept \subseteq Worker
    BY ListsOfWorkers, PoolAssumption DEF TypeOK
  <1>3. CASE SweepBegin \/ SweepResume
    <2>1. \A v \in Worker : proc'[v] = "up" => proc[v] = "up" /\ v # sw
      BY <1>2, <1>3 DEF SweepBegin, SweepResume, Stopped, OwnInv, Phases
    <2>2. /\ sw' \in Worker \cup {NoWorker}
          /\ \A v \in workers : v = sw' \/ v \in workers'
          /\ sw' # NoWorker => spc' = "retire"
          /\ closed /\ spc' # "retire" => spc' = "off"
      BY <1>2, <1>3, SweepStretch DEF Untrack, OwnInv
    <2>3. \A l \in Lease : pc'[l] = "discarding" => proc'[held'[l]] = "down"
      BY <1>1, <1>2, <1>3 DEF Processes, SweepBegin, SweepResume, Stopped, TypeOK, Admitted
    <2>4. ASSUME NEW x \in Worker \cup {NoWorker}, OneLoose(x) PROVE OneLoose(sw)
      BY <2>4, <1>3 DEF OneLoose, SweepBegin, SweepResume, OwnInv, Phases
    <2>5. ASSUME OneLoose(sw) PROVE \E x \in Worker \cup {NoWorker} : OneLoose(x)'
      <3>1. ASSUME NEW v \in Worker, proc'[v] = "up"
            PROVE  \/ v \in workers' \cup stopping' \/ v = sw' \/ v = mw'
                   \/ \E l \in Lease : held'[l] = v
        BY <1>1, <2>1, <2>2, <2>5, <3>1 DEF OneLoose, InHand
      <3>2. ASSUME NEW x, x = sw' PROVE OneLoose(x)'
        BY <3>1, <3>2 DEF OneLoose, InHand
      <3> QED BY <2>2, <3>2
    <2> QED BY <1>1, <2>3, <2>4, <2>5 DEF Processes
  <1>4. CASE SweepAbort
    <2>1. proc' = proc /\ workers' = workers /\ spc' = "off" /\ closed
      BY <1>4 DEF SweepAbort, poolVars, OwnInv, Phases
    <2> QED BY <1>1, <2>1 DEF Processes, OneLoose, InHand
  <1> QED BY <1>3, <1>4

\* start(), stop() and the death of a subprocess.
LEMMA ProcessesMain ==
  ASSUME TypeOK, OwnInv, Processes,
         \/ PrewarmSpawn \/ PrewarmSpawned \/ PrewarmFailed \/ Started
         \/ StopBegin \/ StopCollect \/ StopDone \/ \E w \in Worker : StopWorker(w) \/ Die(w)
  PROVE  Processes'
  <1>1. pc' = pc /\ held' = held /\ sw' = sw /\ (faulted => faulted')
    BY DEF PrewarmSpawn, PrewarmSpawned, PrewarmFailed, Started, StopBegin, StopCollect,
           StopDone, StopWorker, Die, sweepVars, mainVars
  <1>2. /\ proc \in [Worker -> {"up", "down"}] /\ workers \subseteq Worker
        /\ NoWorker \notin Worker
        /\ \A l \in Lease : pc[l] = "discarding" => held[l] \in Worker
    BY PoolAssumption DEF TypeOK, Admitted
  <1>3. CASE PrewarmSpawn
    <2>1. PICK w \in Worker : StartProcess(w) /\ mw' = w
      BY <1>3 DEF PrewarmSpawn
    <2>2. /\ \A l \in Lease : held[l] # w
          /\ \A v \in Worker : v # w => proc'[v] = proc[v]
      BY <1>2, <2>1, FreshFacts DEF StartProcess
    <2>3. workers' = workers /\ stopping' = stopping /\ mw = NoWorker
          /\ closed' = closed /\ spc' = spc
      BY <1>3 DEF PrewarmSpawn, sweepVars
    <2> QED BY <1>1, <1>2, <2>1, <2>2, <2>3 DEF Processes, OneLoose, InHand
  <1>4. CASE PrewarmSpawned
    <2>1. /\ workers' = workers \cup {mw} /\ stopping' = stopping /\ proc' = proc
          /\ closed' = closed /\ spc' = spc
      BY <1>4 DEF PrewarmSpawned, Register, sweepVars
    <2> QED BY <1>1, <2>1 DEF Processes, OneLoose, InHand
  <1>5. CASE PrewarmFailed
    <2>1. faulted'
      BY <1>5 DEF PrewarmFailed
    <2>2. \A v \in Worker : proc[v] = "down" => proc'[v] = "down"
      BY <1>2, <1>5 DEF PrewarmFailed, Stopped
    <2> QED BY <1>1, <1>2, <2>1, <2>2 DEF Processes
  <1>6. CASE Started \/ StopBegin \/ StopDone
    <2>1. /\ workers' = workers /\ stopping' = stopping /\ proc' = proc /\ mw' = mw
          /\ closed => closed'
          /\ spc' = "retire" => spc = "retire"
          /\ ~closed' => ~closed
      BY <1>6 DEF Started, StopBegin, StopDone, poolVars, sweepVars
    <2> QED BY <1>1, <2>1 DEF Processes, OneLoose, InHand
  <1>7. CASE StopCollect
    <2>1. /\ stopping' = workers /\ stopping = {} /\ proc' = proc /\ mw' = mw
          /\ closed' = closed /\ spc' = spc
      BY <1>7 DEF StopCollect, sweepVars, OwnInv, Phases
    <2> QED BY <1>1, <2>1 DEF Processes, OneLoose, InHand
  <1>8. ASSUME NEW w \in Worker, StopWorker(w) \/ Die(w) PROVE Processes'
    <2>1. /\ workers' = workers /\ stopping \subseteq stopping' \cup {w} /\ mw' = mw
          /\ closed' = closed /\ spc' = spc
          /\ \A v \in Worker : proc'[v] = "up" => proc[v] = "up" /\ v # w
          /\ \A v \in Worker : proc[v] = "down" => proc'[v] = "down"
      BY <1>2, <1>8 DEF StopWorker, Die, Stopped, sweepVars, mainVars, serverVars
    <2> QED BY <1>1, <1>2, <2>1 DEF Processes, OneLoose, InHand
  <1> QED BY <1>3, <1>4, <1>5, <1>6, <1>7, <1>8

\* The inductive invariant of the subprocesses.
LEMMA PoolProcesses == Spec => []Processes
  <1>1. Init => Processes
    <2> SUFFICES ASSUME Init PROVE Processes
      OBVIOUS
    <2>1. OneLoose(NoWorker)
      BY DEF Init, OneLoose
    <2> QED BY <2>1 DEF Init, Processes
  <1>2. TypeOK /\ OwnInv /\ Processes /\ [Next]_vars => Processes'
    <2> SUFFICES ASSUME TypeOK, OwnInv, Processes, [Next]_vars PROVE Processes'
      OBVIOUS
    <2>1. CASE Finished \/ UNCHANGED vars
      BY <2>1 DEF Finished, vars, poolVars, sweepVars, mainVars, serverVars, Processes, OneLoose, InHand
    <2> QED BY <2>1, ProcessesLease, ProcessesSweep, ProcessesMain DEF Next
  <1> QED BY <1>1, <1>2, PoolType, PoolOwners, PTL DEF Spec

\* Until a spawn fails or a call is cancelled at a spawn or a stop, somebody refers to
\* every live subprocess of an open pool.
THEOREM PoolNoOrphans == Spec => []NoOrphans
  <1>1. OwnInv /\ Processes => NoOrphans
    <2> SUFFICES ASSUME OwnInv, Processes, ~faulted, ~closed,
                        NEW w \in Worker, proc[w] = "up"
                 PROVE  Owned(w)
      BY DEF NoOrphans
    <2>1. InHand(w, sw)
      BY DEF Processes, OneLoose
    <2> QED BY <2>1 DEF InHand, Owned
  <1> QED BY <1>1, PoolOwners, PoolProcesses, PTL

\* Of all subprocesses at most one survives stop() and the leases that were left.
THEOREM PoolStopKills == Spec => []StopKills
  <1>1. TypeOK /\ OwnInv /\ Processes => StopKills
    <2> DEFINE Up == {w \in Worker : proc[w] = "up"}
    <2> SUFFICES ASSUME TypeOK, OwnInv, Processes, ~faulted,
                        mpc = "stopped", At(Admitted) = {}
                 PROVE  Cardinality(Up) <= 1
      BY DEF StopKills
    <2>1. PICK x : \A w \in Worker : proc[w] = "up" => InHand(w, x)
      BY DEF Processes, OneLoose
    <2>2. \A l \in Lease : held[l] \notin Worker
      BY DEF At, TypeOK
    <2>3. workers = {} /\ stopping = {} /\ mw \notin Worker
      BY <2>2, PoolAssumption DEF OwnInv, Tracked, Phases, TypeOK
    <2>4. Up \subseteq {x}
      BY <2>1, <2>2, <2>3 DEF InHand
    <2>5. IsFiniteSet({x}) /\ Cardinality({x}) = 1
      BY FS_Singleton
    <2> QED BY <2>4, <2>5, FS_Subset
  <1> QED BY <1>1, PoolType, PoolOwners, PoolProcesses, PTL

-------------------------------------------------------------------------------
(* The pool implements Leasing.                                              *)

\* How a move of a lease looks to Leasing.
LEMMA GotoMaps ==
  ASSUME TypeOK, NEW l \in Lease, NEW state \in LeaseStates, NEW w, Goto(l, state, w)
  PROVE  /\ At(Admitted)' = IF state \in Admitted THEN At(Admitted) \cup {l}
                                                  ELSE At(Admitted) \ {l}
         /\ LentWorker' = [LentWorker EXCEPT ![l] = IF state = "turn" THEN w ELSE NoWorker]
  <1>1. /\ pc \in [Lease -> LeaseStates] /\ held \in [Lease -> Worker \cup {NoWorker}]
        /\ pc' = [pc EXCEPT ![l] = state] /\ held' = [held EXCEPT ![l] = w]
    BY DEF TypeOK, Goto
  <1>2. At(Admitted)' = IF state \in Admitted THEN At(Admitted) \cup {l}
                                              ELSE At(Admitted) \ {l}
    BY <1>1 DEF At
  <1>3. LentWorker' = [LentWorker EXCEPT ![l] = IF state = "turn" THEN w ELSE NoWorker]
    <2> DEFINE new == IF state = "turn" THEN w ELSE NoWorker
    <2>1. /\ LentWorker = [m \in Lease |-> IF pc[m] = "turn" THEN held[m] ELSE NoWorker]
          /\ LentWorker' = [m \in Lease |-> IF pc'[m] = "turn" THEN held'[m] ELSE NoWorker]
      BY DEF LentWorker
    <2>2. \A m \in Lease : LentWorker'[m] = IF m = l THEN new ELSE LentWorker[m]
      BY <1>1, <2>1
    <2> QED BY <2>1, <2>2
  <1> QED BY <1>2, <1>3

\* A worker in the hand of no other call is free in Leasing's terms.
LEMMA FreeMaps ==
  ASSUME TypeOK, NEW l \in Lease, pc[l] # "turn", NEW w \in Worker,
         \A m \in Lease \ {l} : held[m] # w
  PROVE  Abstract!Free(w) /\ LentWorker[l] = NoWorker
  <1>1. LentWorker[l] = NoWorker
    BY DEF LentWorker
  <1>2. \A m \in Lease : LentWorker[m] # w
    BY PoolAssumption DEF LentWorker
  <1> QED BY <1>1, <1>2 DEF Abstract!Free

\* A free permit, or one granted to a waiter, is room for one more holder.
LEMMA RoomMaps ==
  ASSUME TypeOK, value > 0 \/ granted # {}
  PROVE  Abstract!Room
  <1>1. value \in Nat /\ IsFiniteSet(granted) /\ At(Admitted) \in SUBSET Lease
    BY PoolAssumption, FS_Subset DEF TypeOK, At
  <1>2. Cardinality(granted) \in Nat /\ Cardinality(At(Admitted)) \in Nat
    BY <1>1, PoolAssumption, FS_Subset, FS_CardinalityType
  <1>3. value + Cardinality(granted) > 0
    <2>1. CASE value > 0
      BY <1>1, <1>2, <2>1
    <2>2. CASE granted # {}
      <3>1. Cardinality(granted) # 0
        BY <1>1, <2>2, FS_EmptySet
      <3> QED BY <1>1, <1>2, <3>1
    <2> QED BY <2>1, <2>2
  <1> HIDE DEF At
  <1>4. Cardinality(At(Admitted)) + (MaxWorkers - Permits) < MaxWorkers
    BY <1>1, <1>2, <1>3, PoolAssumption DEF Permits
  <1>5. Abstract!Cardinality(At(Admitted)) = Cardinality(At(Admitted))
    BY DEF Abstract!Cardinality, Cardinality
  <1> QED BY <1>4, <1>5 DEF Abstract!Room

\* Looking for a worker lends an idle one, or nothing yet.
LEMMA GetLiveWorkerMaps ==
  ASSUME TypeOK, OwnInv, NEW l \in Lease, pc[l] # "turn", GetLiveWorker(l)
  PROVE  /\ At(Admitted)' = At(Admitted) \cup {l}
         /\ \/ LentWorker' = LentWorker
            \/ \E w \in Worker :
                 /\ Abstract!Free(w) /\ LentWorker[l] = NoWorker
                 /\ LentWorker' = [LentWorker EXCEPT ![l] = w]
  <1>1. PICK w \in Worker : Takes(l, w) \/ Discards(l, w) \/ Spawns(l, w)
    BY GetLiveWorkerFacts DEF OwnInv, Lists
  <1>2. {"turn", "discarding", "spawning"} \subseteq Admitted \cap LeaseStates
    BY DEF Admitted, LeaseStates
  <1>3. CASE Takes(l, w)
    <2>1. \A m \in Lease : held[m] # w
      BY <1>3 DEF Takes, OwnInv, Hands
    <2>2. Goto(l, "turn", w)
      BY <1>3 DEF Takes
    <2>3. /\ At(Admitted)' = At(Admitted) \cup {l}
          /\ LentWorker' = [LentWorker EXCEPT ![l] = w]
      BY <1>2, <2>2, GotoMaps
    <2> QED BY <2>1, <2>3, FreeMaps
  <1>4. CASE Goto(l, "discarding", w) \/ Goto(l, "spawning", w)
    <2>1. /\ At(Admitted)' = At(Admitted) \cup {l}
          /\ LentWorker' = [LentWorker EXCEPT ![l] = NoWorker]
      BY <1>2, <1>4, GotoMaps
    <2>2. [LentWorker EXCEPT ![l] = NoWorker] = LentWorker
      BY DEF LentWorker
    <2> QED BY <2>1, <2>2
  <1> QED BY <1>1, <1>3, <1>4 DEF Discards, Spawns

\* Every step of a lease() is a step of its Leasing client, or a stutter.
LEMMA LeaseImplements ==
  ASSUME TypeOK, OwnInv, NEW l \in Lease, LeaseStep(l)
  PROVE  Abstract!LeasingNext \/ UNCHANGED Abstract!leaseVars
  <1>1. /\ {"discarding", "spawning", "turn", "retiring"} \subseteq Admitted
        /\ "out" \notin Admitted /\ "waiting" \notin Admitted
        /\ {"out", "waiting", "turn", "retiring"} \subseteq LeaseStates
        /\ NoWorker \notin Worker
        /\ \A m \in Lease : held[m] \in Worker <=> pc[m] \in Admitted
        /\ held \in [Lease -> Worker \cup {NoWorker}]
    BY PoolAssumption DEF Admitted, LeaseStates, TypeOK
  <1>2. /\ l \in At(Admitted) <=> pc[l] \in Admitted
        /\ pc[l] # "turn" => [LentWorker EXCEPT ![l] = NoWorker] = LentWorker
                             /\ LentWorker[l] = NoWorker
        /\ pc[l] = "turn" => LentWorker[l] = held[l]
    BY DEF At, LentWorker
  <1>3. Permits \in Int /\ MaxWorkers \in Nat
    BY PermitsType, PoolAssumption
  <1>4. Permits' = Permits => (MaxWorkers - Permits)' = MaxWorkers - Permits
    OBVIOUS
  <1>5. ASSUME Admit(l) \/ Resume(l) PROVE Abstract!Admit(l)
    <2>1. GetLiveWorker(l) /\ pc[l] # "turn" /\ l \notin At(Admitted)
      BY <1>1, <1>2, <1>5 DEF Admit, Resume, CanCall
    <2>2. value > 0 \/ granted # {}
      BY <1>5 DEF Admit, Resume, Locked, TypeOK
    <2>3. Abstract!Room
      BY <2>2, RoomMaps
    <2>4. Permits' = Permits
      BY <1>5, LeasePermits
    <2>5. /\ At(Admitted)' = At(Admitted) \cup {l}
          /\ \/ LentWorker' = LentWorker
             \/ \E w \in Worker : /\ Abstract!Free(w)
                                  /\ LentWorker' = [LentWorker EXCEPT ![l] = w]
      BY <2>1, GetLiveWorkerMaps
    <2> QED BY <1>4, <2>1, <2>3, <2>4, <2>5 DEF Abstract!Admit
  <1>6. ASSUME Discarded(l)
        PROVE  (\E w \in Worker : Abstract!Lend(l, w)) \/ UNCHANGED Abstract!leaseVars
    <2>1. GetLiveWorker(l) /\ pc[l] # "turn" /\ l \in At(Admitted)
      BY <1>1, <1>2, <1>6 DEF Discarded
    <2>2. Permits' = Permits
      BY <1>6, LeasePermits
    <2>3. At(Admitted)' = At(Admitted)
      BY <2>1, GetLiveWorkerMaps
    <2>4. CASE LentWorker' = LentWorker
      BY <1>4, <2>2, <2>3, <2>4 DEF Abstract!leaseVars
    <2>5. ASSUME NEW w \in Worker, Abstract!Free(w),
                 LentWorker' = [LentWorker EXCEPT ![l] = w]
          PROVE  Abstract!Lend(l, w)
      BY <1>2, <1>4, <2>1, <2>2, <2>3, <2>5 DEF Abstract!Lend
    <2> QED BY <2>1, <2>4, <2>5, GetLiveWorkerMaps
  <1>7. ASSUME Spawned(l) PROVE Abstract!Lend(l, held[l])
    <2>1. pc[l] = "spawning" /\ held[l] \in Worker /\ l \in At(Admitted)
      BY <1>1, <1>2, <1>7 DEF Spawned
    <2>2. Goto(l, "turn", held[l])
      BY <1>1, <1>7 DEF Spawned, Goto
    <2>3. /\ At(Admitted)' = At(Admitted)
          /\ LentWorker' = [LentWorker EXCEPT ![l] = held[l]]
      BY <1>1, <2>1, <2>2, GotoMaps
    <2>4. \A m \in Lease \ {l} : held[m] # held[l]
      BY <1>1, <2>1 DEF OwnInv, Hands
    <2>5. Abstract!Free(held[l])
      BY <2>1, <2>4, FreeMaps
    <2>6. Permits' = Permits
      BY <1>7, LeasePermits
    <2> QED BY <1>2, <1>4, <2>1, <2>3, <2>5, <2>6 DEF Abstract!Lend
  <1>8. ASSUME Enqueue(l) \/ GiveUp(l) PROVE UNCHANGED Abstract!leaseVars
    <2>1. pc[l] \in {"out", "waiting"} /\ held[l] = NoWorker
      BY <1>1, <1>8 DEF Enqueue, GiveUp, CanCall
    <2>2. Goto(l, "out", NoWorker) \/ Goto(l, "waiting", NoWorker)
      BY <1>1, <1>8, <2>1 DEF Enqueue, GiveUp, Goto
    <2>3. At(Admitted)' = At(Admitted) \ {l} /\ LentWorker' = LentWorker
      BY <1>1, <1>2, <2>1, <2>2, GotoMaps
    <2>4. Permits' = Permits
      BY <1>8, LeasePermits
    <2> QED BY <1>1, <1>2, <1>4, <2>1, <2>3, <2>4 DEF Abstract!leaseVars
  <1>9. ASSUME LoseLease(l) \/ CancelRetire(l) PROVE Abstract!Lose(l)
    <2>1. Goto(l, "out", NoWorker) /\ pc[l] # "turn" /\ l \in At(Admitted)
      BY <1>1, <1>2, <1>9 DEF LoseLease, CancelRetire
    <2>2. At(Admitted)' = At(Admitted) \ {l} /\ LentWorker' = LentWorker
      BY <1>1, <1>2, <2>1, GotoMaps
    <2>3. Permits' = Permits - 1
      BY <1>9, LeasePermits
    <2>4. (MaxWorkers - Permits)' = (MaxWorkers - Permits) + 1
      BY <1>3, <2>3
    <2> QED BY <1>2, <2>1, <2>2, <2>4 DEF Abstract!Lose
  <1>10. ASSUME EndTurn(l) PROVE Abstract!Return(l) \/ Abstract!TakeBack(l)
    <2>1. pc[l] = "turn" /\ l \in At(Admitted) /\ LentWorker[l] \in Worker
      BY <1>1, <1>2, <1>10 DEF EndTurn
    <2>2. Permits' = Permits
      BY <1>10, LeasePermits
    <2>3. CASE Goto(l, "out", NoWorker)
      <3>1. /\ At(Admitted)' = At(Admitted) \ {l}
            /\ LentWorker' = [LentWorker EXCEPT ![l] = NoWorker]
        BY <1>1, <2>3, GotoMaps
      <3> QED BY <1>4, <2>1, <2>2, <3>1 DEF Abstract!Return
    <2>4. CASE Goto(l, "retiring", held[l])
      <3>1. /\ At(Admitted)' = At(Admitted)
            /\ LentWorker' = [LentWorker EXCEPT ![l] = NoWorker]
        BY <1>1, <2>1, <2>4, GotoMaps
      <3> QED BY <1>1, <1>4, <2>1, <2>2, <3>1 DEF Abstract!TakeBack
    <2> QED BY <1>10, <2>3, <2>4 DEF EndTurn
  <1>11. ASSUME Retired(l) PROVE Abstract!Return(l)
    <2>1. Goto(l, "out", NoWorker) /\ l \in At(Admitted)
      BY <1>1, <1>2, <1>11 DEF Retired
    <2>2. /\ At(Admitted)' = At(Admitted) \ {l}
          /\ LentWorker' = [LentWorker EXCEPT ![l] = NoWorker]
      BY <1>1, <2>1, GotoMaps
    <2>3. Permits' = Permits
      BY <1>11, LeasePermits
    <2> QED BY <1>4, <2>1, <2>2, <2>3 DEF Abstract!Return
  <1>12. Spawned(l) => held[l] \in Worker
    BY <1>1 DEF Spawned
  <1> QED BY <1>5, <1>6, <1>7, <1>8, <1>9, <1>10, <1>11, <1>12
          DEF LeaseStep, Abstract!LeasingNext

\* The pool, with its semaphore, its queue, its stack, its sweeper and its shutdown, does
\* what Leasing promises, for all slots, identities and limits.
THEOREM PoolImplementsLeasing == Spec => ImplementsLeasing
  <1>1. Init => Abstract!LeasingInit
    <2> SUFFICES ASSUME Init PROVE Abstract!LeasingInit
      OBVIOUS
    <2>1. At(Admitted) = {} /\ LentWorker = [l \in Lease |-> NoWorker]
      BY DEF Init, At, Admitted, LentWorker
    <2>2. MaxWorkers - Permits = 0
      BY InitPermits, PoolAssumption
    <2> QED BY <2>1, <2>2 DEF Abstract!LeasingInit
  <1>2. TypeOK /\ OwnInv /\ [Next]_vars => [Abstract!LeasingNext]_(Abstract!leaseVars)
    <2> SUFFICES ASSUME TypeOK, OwnInv, [Next]_vars
                 PROVE  Abstract!LeasingNext \/ UNCHANGED Abstract!leaseVars
      OBVIOUS
    <2>1. CASE \E l \in Lease : LeaseStep(l)
      BY <2>1, LeaseImplements
    <2>2. CASE ~\E l \in Lease : LeaseStep(l)
      <3>1. UNCHANGED <<pc, held, semVars>>
        BY <2>2, OthersLeaveLeases
      <3>2. At(Admitted)' = At(Admitted) /\ LentWorker' = LentWorker /\ Permits' = Permits
        BY <3>1 DEF At, LentWorker, Permits, semVars
      <3> QED BY <3>2 DEF Abstract!leaseVars
    <2> QED BY <2>1, <2>2
  <1>3. Spec => Abstract!LeasingSpec
    BY <1>1, <1>2, PoolType, PoolOwners, PTL DEF Spec, Abstract!LeasingSpec
  <1> QED BY <1>3 DEF ImplementsLeasing

==============================================================================
