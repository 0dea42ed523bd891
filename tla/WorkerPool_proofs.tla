--------------------------- MODULE WorkerPool_proofs ---------------------------
(* What TLAPS proves of WorkerPool for all slots, identities and limits.     *)
EXTENDS WorkerPool, TLAPS, FiniteSetTheorems, SequenceTheorems

-------------------------------------------------------------------------------
(* Sequences.                                                               *)

\* Pushing on a stack: what _idle.put does to the idle stack.
LEMMA Push ==
  ASSUME NEW S, NEW w \in S, NEW s \in Seq(S)
  PROVE  <<w>> \o s \in Seq(S)
  <1>1. <<w>> \in Seq(S)
    OBVIOUS
  <1>2. QED
    BY <1>1, ConcatProperties

\* What a call that leaves the semaphore's deque does to it.
LEMMA RemoveAtType ==
  ASSUME NEW S, NEW s \in Seq(S), NEW i \in DOMAIN s
  PROVE  RemoveAt(s, i) \in Seq(S)
  <1>1. /\ Len(s) \in Nat /\ i \in 1..Len(s)
        /\ \A j \in 1..Len(s) : s[j] \in S
    BY LenProperties
  <1>2. SubSeq(s, 1, i - 1) \in Seq(S)
    BY <1>1, SubSeqProperties, Z3
  <1>3. SubSeq(s, i + 1, Len(s)) \in Seq(S)
    BY <1>1, SubSeqProperties, Z3
  <1>4. QED
    BY <1>2, <1>3, ConcatProperties DEF RemoveAt

\* The order in which _sweep puts the kept workers back.
LEMMA ReverseType ==
  ASSUME NEW S, NEW s \in Seq(S)
  PROVE  Reverse(s) \in Seq(S)
  <1>1. /\ Len(s) \in Nat
        /\ \A i \in 1..Len(s) : s[(Len(s) - i) + 1] \in S
    BY LenProperties
  <1>2. QED
    BY <1>1 DEF Reverse

\* The part of a list before, and the part after, one of its places.
LEMMA SplitType ==
  ASSUME NEW S, NEW s \in Seq(S), NEW k \in DOMAIN s
  PROVE  /\ SubSeq(s, 1, k - 1) \in Seq(S)
         /\ SubSeq(s, k + 1, Len(s)) \in Seq(S)
         /\ s[k] \in S
  <1>1. /\ Len(s) \in Nat /\ k \in 1..Len(s)
        /\ \A j \in 1..Len(s) : s[j] \in S
    BY LenProperties
  <1>2. SubSeq(s, 1, k - 1) \in Seq(S)
    BY <1>1, SubSeqProperties, Z3
  <1>3. SubSeq(s, k + 1, Len(s)) \in Seq(S)
    BY <1>1, SubSeqProperties, Z3
  <1>4. QED
    BY <1>1, <1>2, <1>3
-------------------------------------------------------------------------------
(* The semaphore.                                                           *)

\* Waking waiters moves permits from the free ones to the granted ones, one for
\* each call woken, and changes nothing else.
LEMMA WakeFacts ==
  ASSUME NEW v \in Nat, NEW q \in Seq(Lease), NEW g \in SUBSET Lease,
         NEW n \in Nat, n <= v, Wake(v, q, g, n)
  PROVE  /\ value' \in Nat /\ queue' = q
         /\ granted' \in SUBSET Lease
         /\ value' + Cardinality(granted') = v + Cardinality(g)
  <1> DEFINE asleep == ToSet(q) \ g
  <1>1. PICK G \in SUBSET asleep :
          /\ Cardinality(G) = IF Cardinality(asleep) < n THEN Cardinality(asleep) ELSE n
          /\ value' = v - Cardinality(G)
          /\ granted' = g \cup G
          /\ queue' = q
    BY DEF Wake
  <1>2. ToSet(q) \in SUBSET Lease
    BY LenProperties DEF ToSet
  <1>3. /\ IsFiniteSet(asleep) /\ IsFiniteSet(G) /\ IsFiniteSet(g)
    BY <1>2, PoolAssumption, FS_Subset
  <1>4. /\ Cardinality(asleep) \in Nat /\ Cardinality(G) \in Nat /\ Cardinality(g) \in Nat
    BY <1>3, FS_CardinalityType
  <1>5. Cardinality(G) <= n
    BY <1>1, <1>4
  <1>6. Cardinality(g \cap G) = 0
    <2>1. g \cap G = {}
      OBVIOUS
    <2>2. QED
      BY <2>1, FS_EmptySet
  <1>7. Cardinality(g \cup G) = Cardinality(g) + Cardinality(G)
    <2>1. Cardinality(g \cup G)
            = Cardinality(g) + Cardinality(G) - Cardinality(g \cap G)
      BY <1>3, FS_Union
    <2>2. QED
      BY <1>4, <1>6, <2>1
  <1>8. QED
    BY <1>1, <1>2, <1>4, <1>5, <1>7

\* release() keeps the sum of free and granted permits growing by the one it adds.
LEMMA ReleaseFacts ==
  ASSUME TypeOK, Release
  PROVE  /\ value' \in Nat /\ queue' \in Seq(Lease) /\ granted' \in SUBSET Lease
         /\ value' + Cardinality(granted') = value + Cardinality(granted) + 1
  <1>1. /\ value \in Nat /\ value + 1 \in Nat /\ 1 \in Nat /\ 1 <= value + 1
        /\ queue \in Seq(Lease) /\ granted \in SUBSET Lease
        /\ Wake(value + 1, queue, granted, 1)
    BY DEF TypeOK, Release
  <1>2. Cardinality(granted) \in Nat
    BY <1>1, PoolAssumption, FS_Subset, FS_CardinalityType
  <1>3. /\ value' \in Nat /\ queue' = queue /\ granted' \in SUBSET Lease
        /\ value' + Cardinality(granted') = value + 1 + Cardinality(granted)
    BY <1>1, WakeFacts
  <1>4. QED
    BY <1>1, <1>2, <1>3

\* A call that leaves the deque takes its own grant, if it has one, out of the
\* granted ones; v is what it leaves for the others.
LEMMA DequeueFacts ==
  ASSUME TypeOK, NEW l \in Lease, NEW v \in Nat, Dequeue(l, v)
  PROVE  /\ value' \in Nat /\ queue' \in Seq(Lease) /\ granted' \in SUBSET Lease
         /\ value' + Cardinality(granted') = v + Cardinality(granted \ {l})
  <1>1. PICK i \in DOMAIN queue : Wake(v, RemoveAt(queue, i), granted \ {l}, v)
    BY DEF Dequeue
  <1>2. /\ RemoveAt(queue, i) \in Seq(Lease) /\ granted \ {l} \in SUBSET Lease
    BY RemoveAtType DEF TypeOK
  <1>3. v <= v
    OBVIOUS
  <1>4. QED
    BY <1>1, <1>2, <1>3, WakeFacts

-------------------------------------------------------------------------------
(* Type correctness.                                                        *)

\* A lease's place and its worker.
LeaseVarsOK ==
  /\ pc \in [Lease -> LeaseStates]
  /\ held \in [Lease -> Worker \cup {NoWorker}]
  /\ \A l \in Lease : held[l] \in Worker <=> pc[l] \in Admitted

\* Moving a lease to a state in which it has a worker, or to one in which it has none.
LEMMA GotoType ==
  ASSUME TypeOK, NEW l \in Lease, NEW state \in LeaseStates,
         NEW w \in Worker \cup {NoWorker}, w \in Worker <=> state \in Admitted,
         Goto(l, state, w)
  PROVE  LeaseVarsOK'
  BY DEF TypeOK, Goto, LeaseVarsOK

\* _retire_worker keeps the types of _workers and _total.
LEMMA UntrackType ==
  ASSUME TypeOK, NEW w, Untrack(w)
  PROVE  workers' \in SUBSET Worker /\ total' \in Int
  BY DEF TypeOK, Untrack

\* worker.stop() keeps the type of the processes.
LEMMA StoppedType ==
  ASSUME TypeOK, NEW w, Stopped(w)
  PROVE  proc' \in [Worker -> {"up", "down"}]
  BY DEF TypeOK, Stopped

\* The variables _get_live_worker sets keep their types.
LEMMA GetLiveWorkerType ==
  ASSUME TypeOK, NEW l \in Lease, GetLiveWorker(l)
  PROVE  /\ LeaseVarsOK'
         /\ idle' \in Seq(Worker)
         /\ workers' \in SUBSET Worker /\ total' \in Int
         /\ proc' \in [Worker -> {"up", "down"}] /\ used' \in [Worker -> BOOLEAN]
  <1> DEFINE w == Head(idle)
  <1>1. idle # <<>> => w \in Worker /\ Tail(idle) \in Seq(Worker)
    BY HeadTailProperties DEF TypeOK
  <1>2. {"turn", "discarding", "spawning"} \subseteq LeaseStates \cap Admitted
    BY DEF LeaseStates, Admitted
  <1>3. ASSUME idle # <<>>, Goto(l, "turn", w) \/ Goto(l, "discarding", w)
        PROVE  LeaseVarsOK'
    BY <1>1, <1>2, <1>3, GotoType
  <1>4. CASE /\ idle # <<>>
             /\ Goto(l, "turn", w) /\ idle' = Tail(idle)
             /\ UNCHANGED <<workers, total, proc, used>>
    BY <1>1, <1>3, <1>4 DEF TypeOK
  <1>5. CASE /\ idle # <<>>
             /\ Goto(l, "discarding", w) /\ idle' = Tail(idle)
             /\ Untrack(w) /\ UNCHANGED <<proc, used>>
    <2>1. workers' \in SUBSET Worker /\ total' \in Int
      BY <1>5, UntrackType
    <2>2. QED
      BY <1>1, <1>3, <1>5, <2>1 DEF TypeOK
  <1>6. ASSUME NEW x \in Worker, StartProcess(x), Goto(l, "spawning", x),
               UNCHANGED <<workers, total, idle>>
        PROVE  /\ LeaseVarsOK'
               /\ idle' \in Seq(Worker)
               /\ workers' \in SUBSET Worker /\ total' \in Int
               /\ proc' \in [Worker -> {"up", "down"}] /\ used' \in [Worker -> BOOLEAN]
    <2>1. LeaseVarsOK'
      BY <1>2, <1>6, GotoType
    <2>2. proc' \in [Worker -> {"up", "down"}] /\ used' \in [Worker -> BOOLEAN]
      BY <1>6 DEF TypeOK, StartProcess
    <2>3. QED
      BY <1>6, <2>1, <2>2 DEF TypeOK
  <1>7. QED
    BY <1>4, <1>5, <1>6 DEF GetLiveWorker

\* The variables a stretch of the sweep sets keep their types.
LEMMA SweepFromType ==
  ASSUME TypeOK, NEW d \in Seq(Worker), NEW kept \in Seq(Worker),
         NEW rest \in Seq(Worker), SweepFrom(d, kept, rest)
  PROVE  /\ idle' \in Seq(Worker) /\ drained' \in Seq(Worker) /\ keep' \in Seq(Worker)
         /\ spc' \in {"off", "sleep", "retire"} /\ sw' \in Worker \cup {NoWorker}
         /\ workers' \in SUBSET Worker /\ total' \in Int
  <1>1. CASE /\ idle' = Reverse(kept \o d) \o rest
             /\ spc' = IF closed THEN "off" ELSE "sleep"
             /\ sw' = NoWorker /\ drained' = <<>> /\ keep' = <<>>
             /\ UNCHANGED <<workers, total>>
    <2>1. kept \o d \in Seq(Worker)
      BY ConcatProperties
    <2>2. Reverse(kept \o d) \in Seq(Worker)
      BY <2>1, ReverseType
    <2>3. Reverse(kept \o d) \o rest \in Seq(Worker)
      BY <2>2, ConcatProperties
    <2>4. QED
      BY <1>1, <2>3 DEF TypeOK
  <1>2. ASSUME NEW k \in DOMAIN d, Untrack(d[k]), spc' = "retire", sw' = d[k],
               keep' = kept \o SubSeq(d, 1, k - 1),
               drained' = SubSeq(d, k + 1, Len(d)), idle' = rest
        PROVE  /\ idle' \in Seq(Worker) /\ drained' \in Seq(Worker)
               /\ keep' \in Seq(Worker)
               /\ spc' \in {"off", "sleep", "retire"} /\ sw' \in Worker \cup {NoWorker}
               /\ workers' \in SUBSET Worker /\ total' \in Int
    <2>1. /\ SubSeq(d, 1, k - 1) \in Seq(Worker)
          /\ SubSeq(d, k + 1, Len(d)) \in Seq(Worker)
          /\ d[k] \in Worker
      BY SplitType
    <2>2. kept \o SubSeq(d, 1, k - 1) \in Seq(Worker)
      BY <2>1, ConcatProperties
    <2>3. workers' \in SUBSET Worker /\ total' \in Int
      BY <1>2 DEF TypeOK, Untrack
    <2>4. QED
      BY <1>2, <2>1, <2>2, <2>3
  <1>3. QED
    BY <1>1, <1>2 DEF SweepFrom

\* WorkerPool() has its types.
LEMMA InitType == Init => TypeOK
  <1> SUFFICES ASSUME Init
               PROVE  TypeOK
    OBVIOUS
  <1>1. LeaseVarsOK
    BY PoolAssumption DEF Init, LeaseVarsOK, LeaseStates, Admitted
  <1>2. /\ queue \in Seq(Lease) /\ idle \in Seq(Worker)
        /\ drained \in Seq(Worker) /\ keep \in Seq(Worker)
    BY EmptySeq DEF Init
  <1>3. value \in Nat /\ warm \in Nat
    BY PoolAssumption DEF Init
  <1>4. proc \in [Worker -> {"up", "down"}] /\ used \in [Worker -> BOOLEAN]
    BY DEF Init
  <1>5. /\ granted \in SUBSET Lease /\ workers \in SUBSET Worker /\ stopping \in SUBSET Worker
        /\ waiters \in Int /\ total \in Int
        /\ spc = "off" /\ mpc = "prewarm" /\ sw = NoWorker /\ mw = NoWorker
    BY DEF Init
  <1>6. closed \in BOOLEAN /\ faulted \in BOOLEAN
    BY DEF Init
  <1>7. QED
    BY <1>1, <1>2, <1>3, <1>4, <1>5, <1>6 DEF TypeOK, LeaseVarsOK

\* The steps of a lease() keep the types.
LEMMA LeaseType ==
  ASSUME TypeOK, NEW l \in Lease, LeaseStep(l)
  PROVE  TypeOK'
  <1> USE DEF TypeOK, LeaseVarsOK
  <1>0. /\ {"out", "waiting", "turn", "retiring"} \subseteq LeaseStates
        /\ {"spawning", "turn", "retiring"} \subseteq Admitted
        /\ "out" \notin Admitted /\ "waiting" \notin Admitted
        /\ NoWorker \notin Worker
    BY PoolAssumption DEF LeaseStates, Admitted
  <1>1. CASE Admit(l)
    <2>1. value' \in Nat
      BY <1>1 DEF Admit, Locked
    <2>2. QED
      BY <1>1, <2>1, GetLiveWorkerType DEF Admit, sweepVars, mainVars, serverVars
  <1>2. CASE Enqueue(l)
    <2>1. queue' \in Seq(Lease)
      BY <1>2, AppendProperties DEF Enqueue
    <2>2. LeaseVarsOK'
      BY <1>0, <1>2 DEF Enqueue, CanCall
    <2>3. QED
      BY <1>2, <2>1, <2>2 DEF Enqueue, poolVars, sweepVars, mainVars, serverVars
  <1>3. CASE Resume(l)
    <2>1. value' \in Nat /\ queue' \in Seq(Lease) /\ granted' \in SUBSET Lease
      BY <1>3, DequeueFacts DEF Resume
    <2>2. QED
      BY <1>3, <2>1, GetLiveWorkerType DEF Resume, sweepVars, mainVars, serverVars
  <1>4. CASE GiveUp(l)
    <2>1. value' \in Nat /\ queue' \in Seq(Lease) /\ granted' \in SUBSET Lease
      <3>1. (IF l \in granted THEN value + 1 ELSE value) \in Nat
        OBVIOUS
      <3>2. QED
        BY <1>4, <3>1, DequeueFacts DEF GiveUp
    <2>2. LeaseVarsOK'
      BY <1>0, <1>4, GotoType DEF GiveUp
    <2>3. QED
      BY <1>4, <2>1, <2>2 DEF GiveUp, poolVars, sweepVars, mainVars, serverVars
  <1>5. CASE Discarded(l)
    BY <1>5, GetLiveWorkerType DEF Discarded, semVars, sweepVars, mainVars, serverVars
  <1>6. CASE Spawned(l)
    <2>1. held[l] \in Worker
      BY <1>0, <1>6 DEF Spawned
    <2>2. LeaseVarsOK'
      BY <1>0, <1>6 DEF Spawned
    <2>3. QED
      BY <1>6, <2>1, <2>2 DEF Spawned, Register, semVars, sweepVars, mainVars, serverVars
  <1>7. CASE LoseLease(l)
    <2>1. LeaseVarsOK'
      BY <1>0, <1>7, GotoType DEF LoseLease
    <2>2. proc' \in [Worker -> {"up", "down"}]
      BY <1>7, StoppedType DEF LoseLease
    <2>3. QED
      BY <1>7, <2>1, <2>2 DEF LoseLease, semVars, sweepVars, mainVars, serverVars
  <1>8. CASE EndTurn(l)
    <2> DEFINE w == held[l]
    <2>1. w \in Worker /\ used' \in [Worker -> BOOLEAN]
      BY <1>0, <1>8 DEF EndTurn
    <2>2. CASE /\ idle' = <<w>> \o idle /\ Goto(l, "out", NoWorker) /\ Release
               /\ UNCHANGED <<waiters, workers, total>>
      <3>1. idle' \in Seq(Worker)
        BY <2>1, <2>2, Push
      <3>2. value' \in Nat /\ queue' \in Seq(Lease) /\ granted' \in SUBSET Lease
        BY <2>2, ReleaseFacts
      <3>3. LeaseVarsOK'
        BY <1>0, <2>2, GotoType
      <3>4. QED
        BY <1>8, <2>1, <2>2, <3>1, <3>2, <3>3 DEF EndTurn, sweepVars, mainVars, serverVars
    <2>3. CASE Untrack(w) /\ Goto(l, "retiring", w) /\ UNCHANGED <<semVars, idle>>
      <3>1. workers' \in SUBSET Worker /\ total' \in Int
        BY <2>3, UntrackType
      <3>2. LeaseVarsOK'
        BY <1>0, <2>1, <2>3, GotoType
      <3>3. QED
        BY <1>8, <2>1, <2>3, <3>1, <3>2 DEF EndTurn, semVars, sweepVars, mainVars, serverVars
    <2>4. QED
      BY <1>8, <2>2, <2>3 DEF EndTurn
  <1>9. CASE Retired(l)
    <2>1. proc' \in [Worker -> {"up", "down"}]
      BY <1>9, StoppedType DEF Retired
    <2>2. value' \in Nat /\ queue' \in Seq(Lease) /\ granted' \in SUBSET Lease
      BY <1>9, ReleaseFacts DEF Retired
    <2>3. LeaseVarsOK'
      BY <1>0, <1>9, GotoType DEF Retired
    <2>4. QED
      BY <1>9, <2>1, <2>2, <2>3 DEF Retired, sweepVars, mainVars, serverVars
  <1>10. CASE CancelRetire(l)
    <2>1. LeaseVarsOK'
      BY <1>0, <1>10, GotoType DEF CancelRetire
    <2>2. QED
      BY <1>10, <2>1 DEF CancelRetire, semVars, poolVars, sweepVars, mainVars, serverVars
  <1>11. QED
    BY <1>1, <1>2, <1>3, <1>4, <1>5, <1>6, <1>7, <1>8, <1>9, <1>10 DEF LeaseStep

\* The steps of the sweeper keep the types.
LEMMA SweepType ==
  ASSUME TypeOK, SweepBegin \/ SweepResume \/ SweepAbort
  PROVE  TypeOK'
  <1>1. <<>> \in Seq(Worker)
    BY EmptySeq
  <1>2. CASE SweepBegin
    BY <1>1, <1>2, SweepFromType DEF TypeOK, SweepBegin, semVars, mainVars, serverVars
  <1>3. CASE SweepResume
    <2>1. proc' \in [Worker -> {"up", "down"}]
      BY <1>3, StoppedType DEF SweepResume
    <2>2. QED
      BY <1>3, <2>1, SweepFromType DEF TypeOK, SweepResume, semVars, mainVars, serverVars
  <1>4. CASE SweepAbort
    BY <1>1, <1>4 DEF TypeOK, SweepAbort, semVars, poolVars, mainVars, serverVars
  <1>5. QED
    BY <1>2, <1>3, <1>4

\* The steps of start() keep the types.
LEMMA StartType ==
  ASSUME TypeOK, PrewarmSpawn \/ PrewarmSpawned \/ PrewarmFailed \/ Started
  PROVE  TypeOK'
  <1> USE DEF TypeOK
  <1>1. CASE PrewarmSpawn
    BY <1>1 DEF PrewarmSpawn, StartProcess, FreshWorkers, semVars, sweepVars
  <1>2. CASE PrewarmSpawned
    <2>1. mw \in Worker /\ warm' \in Nat
      BY <1>2 DEF PrewarmSpawned
    <2>2. idle' \in Seq(Worker)
      BY <1>2, <2>1, Push DEF PrewarmSpawned
    <2>3. QED
      BY <1>2, <2>1, <2>2 DEF PrewarmSpawned, Register, semVars, sweepVars
  <1>3. CASE PrewarmFailed
    <2>1. proc' \in [Worker -> {"up", "down"}]
      BY <1>3, StoppedType DEF PrewarmFailed
    <2>2. QED
      BY <1>3, <2>1 DEF PrewarmFailed, semVars, sweepVars
  <1>4. CASE Started
    BY <1>4 DEF Started, semVars, poolVars
  <1>5. QED
    BY <1>1, <1>2, <1>3, <1>4

\* The steps of stop() and the death of a worker keep the types.
LEMMA StopType ==
  ASSUME TypeOK,
         StopBegin \/ StopCollect \/ StopDone \/ \E w \in Worker : StopWorker(w) \/ Die(w)
  PROVE  TypeOK'
  <1> USE DEF TypeOK
  <1>1. CASE StopBegin
    BY <1>1 DEF StopBegin, semVars, poolVars
  <1>2. CASE StopCollect
    BY <1>2 DEF StopCollect, semVars, sweepVars
  <1>3. CASE StopDone
    BY <1>3 DEF StopDone, semVars, poolVars, sweepVars
  <1>4. ASSUME NEW w \in Worker, StopWorker(w)
        PROVE  TypeOK'
    BY <1>4, StoppedType DEF StopWorker, semVars, sweepVars
  <1>5. ASSUME NEW w \in Worker, Die(w)
        PROVE  TypeOK'
    BY <1>5, StoppedType DEF Die, semVars, sweepVars, mainVars, serverVars
  <1>6. QED
    BY <1>1, <1>2, <1>3, <1>4, <1>5

\* Every step keeps the types.
LEMMA NextType == TypeOK /\ [Next]_vars => TypeOK'
  <1> SUFFICES ASSUME TypeOK, [Next]_vars
               PROVE  TypeOK'
    OBVIOUS
  <1>1. ASSUME NEW l \in Lease, LeaseStep(l)
        PROVE  TypeOK'
    BY <1>1, LeaseType
  <1>2. CASE SweepBegin \/ SweepResume \/ SweepAbort
    BY <1>2, SweepType
  <1>3. CASE PrewarmSpawn \/ PrewarmSpawned \/ PrewarmFailed \/ Started
    BY <1>3, StartType
  <1>4. CASE \/ StopBegin \/ StopCollect \/ StopDone
             \/ \E w \in Worker : StopWorker(w) \/ Die(w)
    BY <1>4, StopType
  <1>5. CASE Finished \/ UNCHANGED vars
    BY <1>5 DEF TypeOK, Finished, vars, semVars, poolVars, sweepVars, mainVars, serverVars
  <1>6. QED
    BY <1>1, <1>2, <1>3, <1>4, <1>5 DEF Next

\* The pool's variables always have their types, and a lease() call has a worker
\* exactly while it owns a permit.
THEOREM PoolType == Spec => []TypeOK
  BY InitType, NextType, PTL DEF Spec

-------------------------------------------------------------------------------
(* Permits.                                                                 *)

\* Counting the admitted leases when one lease moves.
LEMMA AdmittedCount ==
  ASSUME TypeOK, NEW l \in Lease, NEW state, pc' = [pc EXCEPT ![l] = state]
  PROVE  /\ Cardinality(At(Admitted)) \in Nat
         /\ state \in Admitted /\ pc[l] \notin Admitted
              => Cardinality(At(Admitted)') = Cardinality(At(Admitted)) + 1
         /\ state \notin Admitted /\ pc[l] \in Admitted
              => Cardinality(At(Admitted)') = Cardinality(At(Admitted)) - 1
         /\ (state \in Admitted <=> pc[l] \in Admitted)
              => Cardinality(At(Admitted)') = Cardinality(At(Admitted))
  <1>1. At(Admitted) \in SUBSET Lease /\ pc \in [Lease -> LeaseStates]
    BY DEF At, TypeOK
  <1>2. IsFiniteSet(At(Admitted)) /\ Cardinality(At(Admitted)) \in Nat
    BY <1>1, PoolAssumption, FS_Subset, FS_CardinalityType
  <1>3. CASE state \in Admitted /\ pc[l] \notin Admitted
    <2>1. At(Admitted)' = At(Admitted) \cup {l} /\ l \notin At(Admitted)
      BY <1>1, <1>3 DEF At
    <2>2. QED
      BY <1>2, <1>3, <2>1, FS_AddElement
  <1>4. CASE state \notin Admitted /\ pc[l] \in Admitted
    <2>1. At(Admitted)' = At(Admitted) \ {l} /\ l \in At(Admitted)
      BY <1>1, <1>4 DEF At
    <2>2. QED
      BY <1>2, <1>4, <2>1, FS_RemoveElement
  <1>5. CASE state \in Admitted <=> pc[l] \in Admitted
    <2>1. At(Admitted)' = At(Admitted)
      BY <1>1, <1>5 DEF At
    <2>2. QED
      BY <1>2, <1>5, <2>1
  <1>6. QED
    BY <1>3, <1>4, <1>5

\* Looking for a worker leaves a lease where it owns its permit.
LEMMA GetLiveWorkerAdmits ==
  ASSUME NEW l \in Lease, GetLiveWorker(l)
  PROVE  \E state \in Admitted : pc' = [pc EXCEPT ![l] = state]
  <1>1. {"turn", "discarding", "spawning"} \subseteq Admitted
    BY DEF Admitted
  <1>2. QED
    BY <1>1 DEF GetLiveWorker, Goto

\* The granted waiters are finitely many.
LEMMA GrantedCount ==
  ASSUME TypeOK, NEW l
  PROVE  /\ Cardinality(granted) \in Nat
         /\ Cardinality(granted \ {l})
              = IF l \in granted THEN Cardinality(granted) - 1 ELSE Cardinality(granted)
  <1>1. IsFiniteSet(granted)
    BY PoolAssumption, FS_Subset DEF TypeOK
  <1>2. QED
    BY <1>1, FS_CardinalityType, FS_RemoveElement

\* The sum of the permits is a number.
LEMMA PermitsType == TypeOK => Permits \in Int
  <1> SUFFICES ASSUME TypeOK
               PROVE  Permits \in Int
    OBVIOUS
  <1>1. At(Admitted) \in SUBSET Lease /\ granted \in SUBSET Lease /\ value \in Nat
    BY DEF At, TypeOK
  <1>2. Cardinality(At(Admitted)) \in Nat /\ Cardinality(granted) \in Nat
    BY <1>1, PoolAssumption, FS_Subset, FS_CardinalityType
  <1>3. QED
    BY <1>1, <1>2 DEF Permits

\* What each step of a lease() does to the permits: two lose the caller's, the
\* others keep them all.
LEMMA LeasePermits ==
  ASSUME TypeOK, NEW l \in Lease
  PROVE  /\ LoseLease(l) \/ CancelRetire(l) => Permits' = Permits - 1
         /\ Admit(l) \/ Enqueue(l) \/ Resume(l) \/ GiveUp(l) => Permits' = Permits
         /\ Discarded(l) \/ Spawned(l) \/ EndTurn(l) \/ Retired(l) => Permits' = Permits
  <1> DEFINE n == Cardinality(At(Admitted))
             m == Cardinality(At(Admitted)')
             g == Cardinality(granted)
             h == Cardinality(granted')
  <1>1. /\ value \in Nat /\ g \in Nat
        /\ Cardinality(granted \ {l}) = IF l \in granted THEN g - 1 ELSE g
    BY GrantedCount DEF TypeOK
  <1>2. /\ {"discarding", "spawning", "turn", "retiring"} \subseteq Admitted
        /\ "out" \notin Admitted /\ "waiting" \notin Admitted
    BY DEF Admitted
  <1>3. n \in Nat
    <2>1. At(Admitted) \in SUBSET Lease
      BY DEF At
    <2>2. QED
      BY <2>1, PoolAssumption, FS_Subset, FS_CardinalityType
  <1>5. ASSUME Admit(l) PROVE value' + h + m = value + g + n
    <2>1. m = n + 1
      BY <1>2, <1>5, AdmittedCount, GetLiveWorkerAdmits DEF Admit, CanCall
    <2>2. QED
      BY <1>1, <1>3, <1>5, <2>1 DEF Admit
  <1>6. ASSUME Enqueue(l) PROVE value' + h + m = value + g + n
    <2>1. m = n
      BY <1>2, <1>6, AdmittedCount DEF Enqueue, CanCall
    <2>2. QED
      BY <1>6, <2>1 DEF Enqueue
  <1>7. ASSUME Resume(l) PROVE value' + h + m = value + g + n
    <2>1. m = n + 1
      BY <1>2, <1>7, AdmittedCount, GetLiveWorkerAdmits DEF Resume
    <2>2. value' + h = value + Cardinality(granted \ {l}) /\ value' \in Nat
      BY <1>1, <1>7, DequeueFacts DEF Resume
    <2>3. h \in Nat
      BY <1>7, LeaseType, <1>1, PoolAssumption, FS_Subset, FS_CardinalityType DEF LeaseStep, TypeOK
    <2>4. QED
      BY <1>1, <1>3, <1>7, <2>1, <2>2, <2>3 DEF Resume
  <1>8. ASSUME GiveUp(l) PROVE value' + h + m = value + g + n
    <2> DEFINE v == IF l \in granted THEN value + 1 ELSE value
    <2>1. m = n
      BY <1>2, <1>8, AdmittedCount DEF GiveUp, Goto
    <2>2. v \in Nat /\ Dequeue(l, v)
      BY <1>1, <1>8 DEF GiveUp
    <2>3. value' + h = v + Cardinality(granted \ {l})
      BY <2>2, DequeueFacts
    <2>4. QED
      BY <1>1, <1>3, <2>1, <2>3
  <1>9. ASSUME Discarded(l) PROVE value' + h + m = value + g + n
    <2>1. m = n
      BY <1>2, <1>9, AdmittedCount, GetLiveWorkerAdmits DEF Discarded
    <2>2. QED
      BY <1>9, <2>1 DEF Discarded, semVars
  <1>10. ASSUME Spawned(l) PROVE value' + h + m = value + g + n
    <2>1. m = n
      BY <1>2, <1>10, AdmittedCount DEF Spawned
    <2>2. QED
      BY <1>10, <2>1 DEF Spawned, semVars
  <1>11. ASSUME LoseLease(l) PROVE value' + h + m = (value + g + n) - 1
    <2>1. m = n - 1
      BY <1>2, <1>11, AdmittedCount DEF LoseLease, Goto
    <2>2. QED
      BY <1>1, <1>3, <1>11, <2>1 DEF LoseLease, semVars
  <1>12. ASSUME EndTurn(l) PROVE value' + h + m = value + g + n
    <2>1. CASE Goto(l, "out", NoWorker) /\ Release
      <3>1. m = n - 1
        BY <1>2, <1>12, <2>1, AdmittedCount DEF EndTurn, Goto
      <3>2. value' + h = value + g + 1
        BY <2>1, ReleaseFacts
      <3>3. QED
        BY <1>1, <1>3, <3>1, <3>2
    <2>2. CASE Goto(l, "retiring", held[l]) /\ UNCHANGED <<semVars, idle>>
      <3>1. m = n
        BY <1>2, <1>12, <2>2, AdmittedCount DEF EndTurn, Goto
      <3>2. QED
        BY <2>2, <3>1 DEF semVars
    <2>3. QED
      BY <1>12, <2>1, <2>2 DEF EndTurn
  <1>13. ASSUME Retired(l) PROVE value' + h + m = value + g + n
    <2>1. m = n - 1
      BY <1>2, <1>13, AdmittedCount DEF Retired, Goto
    <2>2. value' + h = value + g + 1
      BY <1>13, ReleaseFacts DEF Retired
    <2>3. QED
      BY <1>1, <1>3, <2>1, <2>2
  <1>14. ASSUME CancelRetire(l) PROVE value' + h + m = (value + g + n) - 1
    <2>1. m = n - 1
      BY <1>2, <1>14, AdmittedCount DEF CancelRetire, Goto
    <2>2. QED
      BY <1>1, <1>3, <1>14, <2>1 DEF CancelRetire, semVars
  <1>15. Permits = value + g + n /\ Permits' = value' + h + m
    BY DEF Permits
  <1> HIDE DEF n, m, g, h
  <1>16. LoseLease(l) \/ CancelRetire(l) => Permits' = Permits - 1
    BY <1>11, <1>14, <1>15
  <1>17. Admit(l) \/ Enqueue(l) \/ Resume(l) \/ GiveUp(l) => Permits' = Permits
    BY <1>5, <1>6, <1>7, <1>8, <1>15
  <1>18. Discarded(l) \/ Spawned(l) \/ EndTurn(l) \/ Retired(l) => Permits' = Permits
    BY <1>9, <1>10, <1>12, <1>13, <1>15
  <1>19. QED
    BY <1>16, <1>17, <1>18

\* Only a lease() that ends in a failed spawn or by cancellation changes the
\* number of permits accounted for, it only takes one away, and it is remembered.
PermitsKept ==
  /\ Permits' <= Permits
  /\ ~faulted' => ~faulted /\ Permits' = Permits

\* No step of a lease() mints a permit; one that no fault strikes loses none.
LEMMA LeaseKeepsPermits ==
  ASSUME TypeOK, NEW l \in Lease, LeaseStep(l)
  PROVE  PermitsKept
  <1>1. Permits \in Int
    BY PermitsType
  <1>2. LoseLease(l) \/ CancelRetire(l) => faulted'
    BY DEF LoseLease, CancelRetire
  <1>3. CASE LoseLease(l) \/ CancelRetire(l)
    BY <1>1, <1>2, <1>3, LeasePermits DEF PermitsKept
  <1>4. CASE ~(LoseLease(l) \/ CancelRetire(l))
    <2>1. \/ Admit(l) \/ Enqueue(l) \/ Resume(l) \/ GiveUp(l) \/ Discarded(l)
          \/ Spawned(l) \/ EndTurn(l) \/ Retired(l)
      BY <1>4 DEF LeaseStep
    <2>2. Permits' = Permits
      BY <2>1, LeasePermits
    <2>3. faulted' = faulted
      BY <2>1 DEF Admit, Enqueue, Resume, GiveUp, Discarded, Spawned, EndTurn, Retired, mainVars
    <2>4. QED
      BY <1>1, <2>2, <2>3 DEF PermitsKept
  <1>5. QED
    BY <1>3, <1>4

\* No other task touches the semaphore or moves a lease.
LEMMA NextKeepsPermits == TypeOK /\ [Next]_vars => PermitsKept
  <1> SUFFICES ASSUME TypeOK, [Next]_vars
               PROVE  PermitsKept
    OBVIOUS
  <1>1. Permits \in Int
    BY PermitsType
  <1>2. ASSUME NEW l \in Lease, LeaseStep(l)
        PROVE  PermitsKept
    BY <1>2, LeaseKeepsPermits
  <1>3. CASE UNCHANGED <<pc, semVars>> /\ (faulted => faulted')
    BY <1>1, <1>3 DEF PermitsKept, Permits, At, semVars
  <1>4. CASE SweepBegin \/ SweepResume \/ SweepAbort
    BY <1>3, <1>4 DEF SweepBegin, SweepResume, SweepAbort, mainVars
  <1>5. CASE PrewarmSpawn \/ PrewarmSpawned \/ PrewarmFailed \/ Started
    BY <1>3, <1>5 DEF PrewarmSpawn, PrewarmSpawned, PrewarmFailed, Started
  <1>6. CASE \/ StopBegin \/ StopCollect \/ StopDone
             \/ \E w \in Worker : StopWorker(w) \/ Die(w)
    BY <1>3, <1>6 DEF StopBegin, StopCollect, StopDone, StopWorker, Die, mainVars
  <1>7. CASE Finished \/ UNCHANGED vars
    BY <1>3, <1>7 DEF Finished, vars, mainVars
  <1>8. QED
    BY <1>2, <1>4, <1>5, <1>6, <1>7 DEF Next

\* At first all permits are free.
LEMMA InitPermits == Init => Permits = MaxWorkers
  <1> SUFFICES ASSUME Init
               PROVE  Permits = MaxWorkers
    OBVIOUS
  <1>1. At(Admitted) = {} /\ granted = {} /\ value = MaxWorkers
    BY DEF Init, At, Admitted
  <1>2. QED
    BY <1>1, PoolAssumption, FS_EmptySet DEF Permits

\* However grants, timeouts, cancellations, failed spawns, sweeps and shutdown
\* interleave, no permit is ever minted.
THEOREM PoolPermitsNeverMinted == Spec => []PermitsNeverMinted
  <1>1. Init => PermitsNeverMinted
    BY InitPermits, PoolAssumption DEF PermitsNeverMinted
  <1>2. TypeOK' => (Permits \in Int)'
    BY PermitsType, PTL
  <1>3. TypeOK /\ TypeOK' /\ PermitsNeverMinted /\ [Next]_vars => PermitsNeverMinted'
    <2> SUFFICES ASSUME TypeOK, TypeOK', PermitsNeverMinted, [Next]_vars
                 PROVE  PermitsNeverMinted'
      OBVIOUS
    <2>1. Permits' <= Permits
      BY NextKeepsPermits DEF PermitsKept
    <2>2. Permits \in Int /\ Permits' \in Int
      BY <1>2, PermitsType
    <2>3. QED
      BY <2>1, <2>2, PoolAssumption DEF PermitsNeverMinted
  <1>4. QED
    BY <1>1, <1>3, InitType, NextType, PTL DEF Spec

\* Until a spawn fails or a call is cancelled at a spawn or a stop, every permit stays
\* accounted for: those two are the only ways in which the pool loses capacity.
THEOREM PoolPermitsConserved == Spec => []PermitsConserved
  <1>1. Init => PermitsConserved
    BY InitPermits DEF PermitsConserved
  <1>2. TypeOK /\ PermitsConserved /\ [Next]_vars => PermitsConserved'
    BY NextKeepsPermits DEF PermitsKept, PermitsConserved
  <1>3. QED
    BY <1>1, <1>2, InitType, NextType, PTL DEF Spec
===============================================================================
