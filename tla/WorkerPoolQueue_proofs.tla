------------------------ MODULE WorkerPoolQueue_proofs ------------------------
(* What TLAPS proves of the queue of calls that wait for a permit of the     *)
(* worker pool: it is bounded, in order, and nobody sleeps beside a permit.  *)
EXTENDS WorkerPool_proofs

-------------------------------------------------------------------------------
(* The deque of waiters.                                                     *)

\* What is left in the deque, and where, when the waiter at place i leaves it.
LEMMA RemoveAtFacts ==
  ASSUME NEW S, NEW s \in Seq(S), NEW i \in DOMAIN s
  PROVE  /\ RemoveAt(s, i) \in Seq(S) /\ Len(RemoveAt(s, i)) = Len(s) - 1
         /\ DOMAIN RemoveAt(s, i) = 1 .. (Len(s) - 1)
         /\ \A j \in 1 .. (Len(s) - 1) :
              RemoveAt(s, i)[j] = IF j < i THEN s[j] ELSE s[j + 1]
  <1> DEFINE a == SubSeq(s, 1, i - 1)
             b == SubSeq(s, i + 1, Len(s))
  <1>1. /\ Len(s) \in Nat /\ i \in 1 .. Len(s)
        /\ \A j \in 1 .. Len(s) : s[j] \in S
    BY LenProperties
  <1>2. /\ a \in Seq(S) /\ Len(a) = i - 1
        /\ \A j \in 1 .. (i - 1) : a[j] = s[j]
    <2>1. \A j \in 1 .. (i - 1) : s[j] \in S
      BY <1>1
    <2> QED BY <1>1, <2>1, SubSeqProperties, Z3
  <1>3. /\ b \in Seq(S) /\ Len(b) = Len(s) - i
        /\ \A j \in 1 .. (Len(s) - i) : b[j] = s[i + j]
    <2>1. \A j \in (i + 1) .. Len(s) : s[j] \in S
      BY <1>1
    <2>2. /\ b \in Seq(S)
          /\ Len(b) = IF i + 1 <= Len(s) THEN Len(s) - (i + 1) + 1 ELSE 0
          /\ \A j \in 1 .. (Len(s) - (i + 1) + 1) : b[j] = s[(i + 1) + j - 1]
      BY <1>1, <2>1, SubSeqProperties, Z3
    <2>3. Len(b) = Len(s) - i
      BY <1>1, <2>2
    <2>4. ASSUME NEW j \in 1 .. (Len(s) - i) PROVE b[j] = s[i + j]
      <3>1. j \in 1 .. (Len(s) - (i + 1) + 1) /\ (i + 1) + j - 1 = i + j
        BY <1>1
      <3> QED BY <2>2, <3>1
    <2> QED BY <2>2, <2>3, <2>4
  <1>4. RemoveAt(s, i) = a \o b
    BY DEF RemoveAt
  <1> HIDE DEF a, b
  <1>5. /\ a \o b \in Seq(S) /\ Len(a \o b) = Len(a) + Len(b)
        /\ \A j \in 1 .. (Len(a) + Len(b)) :
             (a \o b)[j] = IF j <= Len(a) THEN a[j] ELSE b[j - Len(a)]
    <2>1. a \in Seq(S) /\ b \in Seq(S)
      BY <1>2, <1>3
    <2> QED BY <2>1, ConcatProperties
  <1>6. Len(a) + Len(b) = Len(s) - 1 /\ DOMAIN (a \o b) = 1 .. (Len(s) - 1)
    <2>1. Len(a) + Len(b) = Len(s) - 1
      BY <1>1, <1>2, <1>3
    <2>2. DOMAIN (a \o b) = 1 .. Len(a \o b)
      BY <1>5, LenProperties
    <2> QED BY <1>5, <2>1, <2>2
  <1>7. ASSUME NEW j \in 1 .. (Len(s) - 1)
        PROVE  (a \o b)[j] = IF j < i THEN s[j] ELSE s[j + 1]
    <2>1. (a \o b)[j] = IF j <= Len(a) THEN a[j] ELSE b[j - Len(a)]
      BY <1>5, <1>6
    <2>2. CASE j < i
      BY <1>1, <1>2, <2>1, <2>2
    <2>3. CASE j >= i
      <3>1. j - Len(a) \in 1 .. (Len(s) - i) /\ i + (j - Len(a)) = j + 1 /\ ~(j <= Len(a))
        BY <1>1, <1>2, <2>3
      <3> QED BY <1>3, <2>1, <2>3, <3>1
    <2>4. j < i \/ j >= i
      BY <1>1
    <2> QED BY <2>2, <2>3, <2>4
  <1> QED BY <1>4, <1>5, <1>6, <1>7

\* Of a list that holds each element once, the others are left, each once.
LEMMA LeaveDeque ==
  ASSUME NEW S, NEW q \in Seq(S), NoRepeats(q), NEW i \in DOMAIN q
  PROVE  /\ NoRepeats(RemoveAt(q, i))
         /\ ToSet(RemoveAt(q, i)) = ToSet(q) \ {q[i]}
  <1> DEFINE r == RemoveAt(q, i)
             Old(j) == IF j < i THEN j ELSE j + 1
  <1>1. Len(q) \in Nat /\ DOMAIN q = 1 .. Len(q) /\ i \in 1 .. Len(q)
    BY LenProperties
  <1>2. DOMAIN r = 1 .. (Len(q) - 1) /\ \A j \in DOMAIN r : r[j] = q[Old(j)]
    BY RemoveAtFacts
  <1> HIDE DEF r
  <1>3. \A j \in DOMAIN r : Old(j) \in DOMAIN q \ {i}
    BY <1>1, <1>2
  <1>4. \A j, k \in DOMAIN r : j # k => Old(j) # Old(k)
    BY <1>1, <1>2
  <1>5. \A j \in DOMAIN q \ {i} : \E k \in DOMAIN r : Old(k) = j
    <2> TAKE j \in DOMAIN q \ {i}
    <2>1. CASE j < i
      BY <1>1, <1>2, <2>1
    <2>2. CASE j > i
      <3>1. j - 1 \in DOMAIN r /\ Old(j - 1) = j
        BY <1>1, <1>2, <2>2
      <3> QED BY <3>1
    <2> QED BY <1>1, <2>1, <2>2
  <1>6. NoRepeats(r)
    BY <1>2, <1>3, <1>4 DEF NoRepeats
  <1> HIDE DEF Old
  <1>7. ToSet(r) = {q[j] : j \in DOMAIN q \ {i}}
    BY <1>2, <1>3, <1>5 DEF ToSet
  <1>8. {q[j] : j \in DOMAIN q \ {i}} = ToSet(q) \ {q[i]}
    BY DEF ToSet, NoRepeats
  <1> QED BY <1>6, <1>7, <1>8 DEF r

\* Grants in the order of a deque.
InOrderOf(q, g) == \A i, j \in DOMAIN q : i < j /\ q[j] \in g => q[i] \in g

\* A call that leaves does not change the order of the grants of the others.
LEMMA LeaveKeepsOrder ==
  ASSUME NEW q \in Seq(Lease), NoRepeats(q), NEW i \in DOMAIN q, NEW g, InOrderOf(q, g)
  PROVE  InOrderOf(RemoveAt(q, i), g \ {q[i]})
  <1> DEFINE r == RemoveAt(q, i)
             Old(j) == IF j < i THEN j ELSE j + 1
  <1>1. Len(q) \in Nat /\ DOMAIN q = 1 .. Len(q) /\ i \in 1 .. Len(q)
    BY LenProperties
  <1>2. DOMAIN r = 1 .. (Len(q) - 1) /\ \A j \in DOMAIN r : r[j] = q[Old(j)]
    BY RemoveAtFacts
  <1> HIDE DEF r
  <1>3. SUFFICES ASSUME NEW j \in DOMAIN r, NEW k \in DOMAIN r, j < k, r[k] \in g \ {q[i]}
                 PROVE  r[j] \in g \ {q[i]}
    BY DEF InOrderOf, r
  <1>4. Old(j) \in DOMAIN q \ {i} /\ Old(k) \in DOMAIN q /\ Old(j) < Old(k)
    BY <1>1, <1>2, <1>3
  <1> HIDE DEF Old
  <1>5. q[Old(j)] \in g /\ q[Old(j)] # q[i]
    BY <1>2, <1>3, <1>4 DEF InOrderOf, NoRepeats
  <1> QED BY <1>2, <1>5
-------------------------------------------------------------------------------
(* The semaphore serves the deque.                                           *)

\* Waking goes from the front of the deque, and does not leave a permit beside a
\* deque in which all sleep.
LEMMA WakeInOrder ==
  ASSUME NEW v \in Nat, NEW q \in Seq(Lease), NEW g \in SUBSET ToSet(q),
         NEW n \in Nat, v > 0 => n > 0, InOrderOf(q, g), Wake(v, q, g, n)
  PROVE  /\ queue' = q /\ granted' \subseteq ToSet(q) /\ InOrderOf(queue', granted')
         /\ value' > 0 /\ queue' # <<>> => granted' # {}
  <1> DEFINE asleep == ToSet(q) \ g
  <1>1. PICK G \in SUBSET asleep :
          /\ \A i, j \in DOMAIN q : (q[i] \in asleep \ G /\ q[j] \in G) => j < i
          /\ Cardinality(G) = IF Cardinality(asleep) < n THEN Cardinality(asleep) ELSE n
          /\ value' = v - Cardinality(G)
          /\ granted' = g \cup G
          /\ queue' = q
    BY DEF Wake
  <1>2. Len(q) \in Nat /\ DOMAIN q = 1 .. Len(q) /\ q \in [1 .. Len(q) -> Lease]
    BY LenProperties
  <1>3. InOrderOf(q, g \cup G)
    <2> SUFFICES ASSUME NEW i \in DOMAIN q, NEW j \in DOMAIN q, i < j, q[j] \in g \cup G,
                        q[i] \notin g \cup G
                 PROVE  FALSE
      BY DEF InOrderOf
    <2>1. q[j] \in G
      BY DEF InOrderOf
    <2>2. q[i] \in asleep \ G
      BY DEF ToSet
    <2>3. j < i
      BY <1>1, <2>1, <2>2
    <2> QED BY <1>2, <2>3
  <1>4. ASSUME value' > 0, q # <<>> PROVE g \cup G # {}
    <2> SUFFICES ASSUME G = {}, g = {} PROVE FALSE
      OBVIOUS
    <2>1. IsFiniteSet(asleep)
      BY <1>2, PoolAssumption, FS_Subset DEF ToSet
    <2>2. Cardinality(G) = 0 /\ Cardinality(asleep) \in Nat
      BY <2>1, FS_EmptySet, FS_CardinalityType
    <2>3. n > 0
      BY <1>1, <1>4, <2>2
    <2>4. Cardinality(asleep) = 0
      BY <1>1, <2>2, <2>3
    <2>5. ToSet(q) = {}
      BY <2>1, <2>4, FS_EmptySet
    <2>6. Len(q) \in Nat \ {0}
      BY <1>4, EmptySeq
    <2>7. 1 \in DOMAIN q
      BY <1>2, <2>6
    <2> QED BY <2>5, <2>7 DEF ToSet
  <1> QED BY <1>1, <1>3, <1>4

\* The queue of waiting calls: what the code keeps in three places agrees, each
\* call stands in it once, grants come from its front and none is missed.
QueueInv ==
  /\ NoRepeats(queue) /\ granted \subseteq ToSet(queue)
  /\ ToSet(queue) = At({"waiting"})
  /\ waiters = Len(queue) /\ waiters = Cardinality(At({"waiting"})) /\ waiters <= MaxQueue
  /\ InOrderOf(queue, granted) /\ NoLostWakeup

\* release() in a full queue.
LEMMA ReleaseServes ==
  ASSUME TypeOK, QueueInv, Release
  PROVE  /\ queue' = queue /\ granted' \subseteq ToSet(queue)
         /\ InOrderOf(queue', granted') /\ NoLostWakeup'
  <1>1. /\ value + 1 \in Nat /\ 1 \in Nat /\ queue \in Seq(Lease)
        /\ granted \in SUBSET ToSet(queue) /\ InOrderOf(queue, granted)
        /\ Wake(value + 1, queue, granted, 1) /\ 1 > 0
    BY DEF TypeOK, QueueInv, Release
  <1> QED BY <1>1, WakeInOrder DEF NoLostWakeup

\* A call that leaves the semaphore.
LEMMA DequeueServes ==
  ASSUME TypeOK, QueueInv, NEW l \in Lease, NEW v \in Nat, Dequeue(l, v)
  PROVE  /\ NoRepeats(queue') /\ ToSet(queue') = ToSet(queue) \ {l}
         /\ Len(queue') = Len(queue) - 1 /\ granted' \subseteq ToSet(queue')
         /\ InOrderOf(queue', granted') /\ NoLostWakeup'
  <1>1. PICK i \in DOMAIN queue :
          queue[i] = l /\ Wake(v, RemoveAt(queue, i), granted \ {l}, v)
    BY DEF Dequeue
  <1> DEFINE r == RemoveAt(queue, i)
  <1>2. queue \in Seq(Lease) /\ NoRepeats(queue) /\ InOrderOf(queue, granted)
    BY DEF TypeOK, QueueInv
  <1>3. r \in Seq(Lease) /\ Len(r) = Len(queue) - 1
    BY <1>2, RemoveAtFacts
  <1>4. NoRepeats(r) /\ ToSet(r) = ToSet(queue) \ {l}
    BY <1>1, <1>2, LeaveDeque
  <1>5. InOrderOf(r, granted \ {l})
    BY <1>1, <1>2, LeaveKeepsOrder
  <1> HIDE DEF r
  <1>6. granted \ {l} \in SUBSET ToSet(r)
    BY <1>4 DEF QueueInv
  <1>7. /\ queue' = r /\ granted' \subseteq ToSet(r) /\ InOrderOf(queue', granted')
        /\ value' > 0 /\ queue' # <<>> => granted' # {}
    BY <1>1, <1>3, <1>5, <1>6, WakeInOrder DEF r
  <1> QED BY <1>3, <1>4, <1>7 DEF NoLostWakeup
-------------------------------------------------------------------------------
-------------------------------------------------------------------------------
(* The queue through every step.                                             *)

\* The calls that wait, when one lease moves.
LEMMA WaitingMoves ==
  ASSUME TypeOK, NEW l \in Lease, NEW state, pc' = [pc EXCEPT ![l] = state]
  PROVE  At({"waiting"})' = IF state = "waiting" THEN At({"waiting"}) \cup {l}
                                                 ELSE At({"waiting"}) \ {l}
  BY DEF TypeOK, At

\* They are finitely many.
LEMMA WaitingFinite == IsFiniteSet(At({"waiting"})) /\ Cardinality(At({"waiting"})) \in Nat
  <1>1. At({"waiting"}) \in SUBSET Lease
    BY DEF At
  <1> QED BY <1>1, PoolAssumption, FS_Subset, FS_CardinalityType

\* A lease that moves between places where it does not wait.
LEMMA QueueFrame ==
  ASSUME TypeOK, QueueInv, NEW l \in Lease, NEW state, pc' = [pc EXCEPT ![l] = state],
         state # "waiting", pc[l] # "waiting", waiters' = waiters, queue' = queue,
         granted' \subseteq ToSet(queue), InOrderOf(queue', granted'), NoLostWakeup'
  PROVE  QueueInv'
  <1>1. At({"waiting"})' = At({"waiting"})
    <2>1. l \notin At({"waiting"})
      BY DEF At
    <2>2. At({"waiting"})' = At({"waiting"}) \ {l}
      BY WaitingMoves
    <2> QED BY <2>1, <2>2
  <1> QED BY <1>1 DEF QueueInv

\* A call joins the queue: behind the others, and only where it has to wait.
LEMMA QueueEnqueue ==
  ASSUME TypeOK, QueueInv, NEW l \in Lease, Enqueue(l)
  PROVE  QueueInv'
  <1> DEFINE q == Append(queue, l)
  <1>1. /\ queue \in Seq(Lease) /\ Len(queue) \in Nat /\ DOMAIN queue = 1 .. Len(queue)
        /\ waiters \in Int /\ value \in Nat
    BY LenProperties DEF TypeOK
  <1>2. /\ q \in Seq(Lease) /\ Len(q) = Len(queue) + 1 /\ q[Len(queue) + 1] = l
        /\ \A i \in 1 .. Len(queue) : q[i] = queue[i]
    BY <1>1, AppendProperties
  <1>3. DOMAIN q = 1 .. (Len(queue) + 1)
    BY <1>2, LenProperties
  <1> HIDE DEF q
  <1>4. l \notin At({"waiting"}) /\ l \notin ToSet(queue)
    BY DEF Enqueue, CanCall, At, QueueInv
  <1>5. \A i \in DOMAIN queue : queue[i] # l
    BY <1>4 DEF ToSet
  <1>6. NoRepeats(q)
    <2> SUFFICES ASSUME NEW i \in DOMAIN q, NEW j \in DOMAIN q, i < j
                 PROVE  q[i] # q[j]
      BY <1>1, <1>3 DEF NoRepeats
    <2>1. CASE j = Len(queue) + 1
      BY <1>1, <1>2, <1>3, <1>5, <2>1
    <2>2. CASE j # Len(queue) + 1
      BY <1>1, <1>2, <1>3, <2>2 DEF QueueInv, NoRepeats
    <2> QED BY <2>1, <2>2
  <1>7. ToSet(q) = ToSet(queue) \cup {l}
    BY <1>1, <1>2, <1>3 DEF ToSet
  <1>8. InOrderOf(q, granted)
    <2> SUFFICES ASSUME NEW i \in DOMAIN q, NEW j \in DOMAIN q, i < j, q[j] \in granted
                 PROVE  q[i] \in granted
      BY DEF InOrderOf
    <2>1. j # Len(queue) + 1
      BY <1>2, <1>4 DEF QueueInv
    <2>2. i \in DOMAIN queue /\ j \in DOMAIN queue
      BY <1>1, <1>3, <2>1
    <2> QED BY <1>1, <1>2, <2>2 DEF QueueInv, InOrderOf
  <1>9. queue' = q /\ granted' = granted /\ value' = value /\ waiters' = waiters + 1
    BY DEF Enqueue, q
  <1>10. At({"waiting"})' = At({"waiting"}) \cup {l}
    BY WaitingMoves DEF Enqueue
  <1>11. Cardinality(At({"waiting"})') = Cardinality(At({"waiting"})) + 1
    BY <1>4, <1>10, WaitingFinite, FS_AddElement
  <1>12. NoLostWakeup'
    BY <1>1, <1>9 DEF QueueInv, NoLostWakeup, Enqueue, Locked
  <1>13. waiters' <= MaxQueue
    BY <1>1, <1>9, PoolAssumption DEF Enqueue
  <1> QED BY <1>1, <1>2, <1>6, <1>7, <1>8, <1>9, <1>10, <1>11, <1>12, <1>13 DEF QueueInv

\* A call leaves the queue, with a permit or without one.
LEMMA QueueDequeue ==
  ASSUME TypeOK, QueueInv, NEW l \in Lease, NEW v \in Nat, Dequeue(l, v), NEW state,
         state # "waiting", pc' = [pc EXCEPT ![l] = state], pc[l] = "waiting",
         waiters' = waiters - 1
  PROVE  QueueInv'
  <1>1. At({"waiting"})' = At({"waiting"}) \ {l} /\ l \in At({"waiting"})
    BY WaitingMoves DEF At
  <1>2. Cardinality(At({"waiting"})') = Cardinality(At({"waiting"})) - 1
    BY <1>1, WaitingFinite, FS_RemoveElement
  <1>3. waiters \in Int /\ waiters' <= MaxQueue
    BY PoolAssumption DEF TypeOK, QueueInv
  <1> QED BY <1>1, <1>2, <1>3, DequeueServes DEF QueueInv

\* The steps of a lease().
LEMMA QueueLease ==
  ASSUME TypeOK, QueueInv, NEW l \in Lease, LeaseStep(l)
  PROVE  QueueInv'
  <1>0. /\ "waiting" \notin Admitted /\ value \in Nat /\ queue \in Seq(Lease)
        /\ granted \subseteq ToSet(queue) /\ InOrderOf(queue, granted)
        /\ NoLostWakeup /\ QueueInv
    BY DEF Admitted, QueueInv, TypeOK
  <1>1. CASE Admit(l)
    <2>1. PICK state \in Admitted : pc' = [pc EXCEPT ![l] = state]
      BY <1>1, GetLiveWorkerAdmits DEF Admit
    <2>2. NoLostWakeup' /\ UNCHANGED <<queue, granted, waiters>> /\ pc[l] = "out"
      BY <1>1 DEF Admit, CanCall, Locked, NoLostWakeup
    <2> QED BY <1>0, <2>1, <2>2, QueueFrame
  <1>2. CASE Enqueue(l)
    BY <1>2, QueueEnqueue
  <1>3. CASE Resume(l)
    <2>1. PICK state \in Admitted : pc' = [pc EXCEPT ![l] = state]
      BY <1>3, GetLiveWorkerAdmits DEF Resume
    <2> QED BY <1>0, <1>3, <2>1, QueueDequeue DEF Resume
  <1>4. CASE GiveUp(l)
    <2> DEFINE v == IF l \in granted THEN value + 1 ELSE value
    <2>1. v \in Nat /\ Dequeue(l, v)
      BY <1>0, <1>4 DEF GiveUp
    <2> QED BY <1>4, <2>1, QueueDequeue DEF GiveUp, Goto
  <1>5. CASE Discarded(l)
    <2>1. PICK state \in Admitted : pc' = [pc EXCEPT ![l] = state]
      BY <1>5, GetLiveWorkerAdmits DEF Discarded
    <2>2. UNCHANGED semVars /\ pc[l] = "discarding"
      BY <1>5 DEF Discarded
    <2> QED BY <1>0, <2>1, <2>2, QueueFrame DEF semVars, NoLostWakeup
  <1>6. CASE Spawned(l)
    BY <1>0, <1>6, QueueFrame DEF Spawned, semVars, NoLostWakeup
  <1>7. CASE LoseLease(l)
    <2>1. pc' = [pc EXCEPT ![l] = "out"] /\ UNCHANGED semVars /\ pc[l] # "waiting"
      BY <1>7 DEF LoseLease, Goto
    <2> QED BY <1>0, <2>1, QueueFrame DEF semVars, NoLostWakeup
  <1>8. CASE EndTurn(l)
    <2>1. CASE Goto(l, "out", NoWorker) /\ Release /\ UNCHANGED waiters
      <3>1. pc' = [pc EXCEPT ![l] = "out"] /\ pc[l] = "turn"
        BY <1>8, <2>1 DEF EndTurn, Goto
      <3> QED BY <1>0, <2>1, <3>1, ReleaseServes, QueueFrame
    <2>2. CASE Goto(l, "retiring", held[l]) /\ UNCHANGED semVars
      <3>1. pc' = [pc EXCEPT ![l] = "retiring"] /\ pc[l] = "turn"
        BY <1>8, <2>2 DEF EndTurn, Goto
      <3> QED BY <1>0, <2>2, <3>1, QueueFrame DEF semVars, NoLostWakeup
    <2> QED BY <1>8, <2>1, <2>2 DEF EndTurn
  <1>9. CASE Retired(l)
    <2>1. /\ pc' = [pc EXCEPT ![l] = "out"] /\ pc[l] = "retiring" /\ Release
          /\ UNCHANGED waiters
      BY <1>9 DEF Retired, Goto
    <2> QED BY <1>0, <2>1, ReleaseServes, QueueFrame
  <1>10. CASE CancelRetire(l)
    <2>1. pc' = [pc EXCEPT ![l] = "out"] /\ pc[l] = "retiring" /\ UNCHANGED semVars
      BY <1>10 DEF CancelRetire, Goto
    <2> QED BY <1>0, <2>1, QueueFrame DEF semVars, NoLostWakeup
  <1> QED
    BY <1>1, <1>2, <1>3, <1>4, <1>5, <1>6, <1>7, <1>8, <1>9, <1>10 DEF LeaseStep

\* Nobody else touches the semaphore or moves a lease.
LEMMA OthersLeaveLeases ==
  ASSUME [Next]_vars, ~\E l \in Lease : LeaseStep(l)
  PROVE  UNCHANGED <<pc, held, semVars>>
  <1>1. CASE SweepBegin \/ SweepResume \/ SweepAbort
    BY <1>1 DEF SweepBegin, SweepResume, SweepAbort
  <1>2. CASE PrewarmSpawn \/ PrewarmSpawned \/ PrewarmFailed \/ Started
    BY <1>2 DEF PrewarmSpawn, PrewarmSpawned, PrewarmFailed, Started
  <1>3. CASE \/ StopBegin \/ StopCollect \/ StopDone
             \/ \E w \in Worker : StopWorker(w) \/ Die(w)
    BY <1>3 DEF StopBegin, StopCollect, StopDone, StopWorker, Die
  <1>4. CASE Finished \/ UNCHANGED vars
    BY <1>4 DEF Finished, vars
  <1> QED BY <1>1, <1>2, <1>3, <1>4 DEF Next

LEMMA QueueInit == Init => QueueInv
  <1> SUFFICES ASSUME Init PROVE QueueInv
    OBVIOUS
  <1>1. At({"waiting"}) = {} /\ queue = <<>> /\ granted = {} /\ waiters = 0
    BY DEF Init, At
  <1>2. DOMAIN <<>> = {} /\ Len(<<>>) = 0 /\ ToSet(<<>>) = {}
    BY EmptySeq DEF ToSet
  <1>3. NoRepeats(queue) /\ InOrderOf(queue, granted) /\ NoLostWakeup
    BY <1>1, <1>2 DEF NoRepeats, InOrderOf, NoLostWakeup
  <1>4. Cardinality({}) = 0 /\ MaxQueue \in Nat
    BY FS_EmptySet, PoolAssumption
  <1>5. At({"waiting"}) = ToSet(queue) /\ Cardinality(At({"waiting"})) = waiters
    BY <1>1, <1>2, <1>4
  <1> QED BY <1>1, <1>2, <1>3, <1>4, <1>5 DEF QueueInv

LEMMA QueueStep == TypeOK /\ QueueInv /\ [Next]_vars => QueueInv'
  <1> SUFFICES ASSUME TypeOK, QueueInv, [Next]_vars PROVE QueueInv'
    OBVIOUS
  <1>1. CASE \E l \in Lease : LeaseStep(l)
    BY <1>1, QueueLease
  <1>2. CASE ~\E l \in Lease : LeaseStep(l)
    <2>1. UNCHANGED <<pc, held, semVars>>
      BY <1>2, OthersLeaveLeases
    <2> QED BY <2>1 DEF QueueInv, NoLostWakeup, At, semVars
  <1> QED BY <1>1, <1>2

\* The inductive invariant of the queue.
LEMMA PoolQueue == Spec => []QueueInv
  BY InitType, NextType, QueueInit, QueueStep, PTL DEF Spec

\* _waiters, the semaphore's deque and the suspended calls always agree, and no more
\* than max_queue calls wait.
THEOREM PoolQueueBounded == Spec => []QueueBounded
  <1>1. QueueInv => QueueBounded
    BY DEF QueueInv, QueueBounded
  <1> QED BY <1>1, PoolQueue, PTL

\* A permit is never free while all waiting calls sleep, whatever timeout or
\* cancellation meets a grant.
THEOREM PoolNoLostWakeup == Spec => []NoLostWakeup
  <1>1. QueueInv => NoLostWakeup
    BY DEF QueueInv
  <1> QED BY <1>1, PoolQueue, PTL

\* Permits are granted first come, first served.
THEOREM PoolFifoGrants == Spec => []FifoGrants
  <1>1. QueueInv => FifoGrants
    BY DEF QueueInv, InOrderOf, FifoGrants
  <1> QED BY <1>1, PoolQueue, PTL
===============================================================================
