------------------------------ MODULE WorkerPool ------------------------------
(***************************************************************************)
(* The elastic pool of kiro-cli subprocesses (src/kiro_api/pool.py) on one *)
(* asyncio loop.  A step is everything a task does between two awaits that *)
(* really suspend: waiting in the semaphore, a spawn (start + initialize), *)
(* a worker.stop(), the turn itself, the sweeper's sleep.  pool._lock is   *)
(* never held across a suspension and the idle queue is unbounded and only *)
(* read when it is not empty, so neither of them ever suspends a task.     *)
(* asyncio.Semaphore follows Python 3.12+ (external, modelled from use).   *)
(***************************************************************************)
EXTENDS Integers, Sequences, FiniteSets, SequencesExt

CONSTANTS
  Lease,        \* client slots: each makes one lease() call after the other
  Worker,       \* subprocess identities; one may be reused once it is gone
  NoWorker,     \* "no worker"
  MinWorkers,   \* config.min_workers (a negative one acts as 0)
  MaxWorkers,   \* config.max_workers, the semaphore's initial value
  MaxQueue,     \* config.max_queue
  Faults        \* what the environment may do, see FaultKinds

FaultKinds ==
  { "spawn",    \* worker.start() or worker.initialize() raises
    "cancel",   \* the task inside lease() is cancelled (client gone, drain timeout)
    "timeout",  \* wait_for(sema.acquire()) runs out
    "death",    \* a subprocess exits, is killed, or is marked dead
    "expiry" }  \* a used worker stays idle longer than worker_idle_timeout

ASSUME PoolAssumption ==
  /\ IsFiniteSet(Lease) /\ IsFiniteSet(Worker) /\ NoWorker \notin Worker
  /\ MinWorkers \in Nat /\ MaxWorkers \in Nat /\ MaxQueue \in Nat
  /\ Faults \subseteq FaultKinds

VARIABLES
  pc,        \* lease -> where its lease() call is suspended
  held,      \* lease -> the worker it is spawning, discarding, using or retiring
  value,     \* Semaphore._value
  queue,     \* Semaphore._waiters, first in first out
  granted,   \* those in queue whose future already has its result
  waiters,   \* pool._waiters
  workers,   \* pool._workers
  total,     \* pool._total
  idle,      \* pool._idle, top of the stack first
  proc,      \* worker -> "up" (alive() is true) or "down"
  used,      \* worker -> last_used is not zero
  spc,       \* the sweeper task: "off", "sleep" or "retire"
  sw,        \* the worker the sweeper is retiring
  drained,   \* _sweep's drained workers still to be looked at
  keep,      \* _sweep's keep list
  mpc,       \* the server's task in start(), between, or in stop()
  warm,      \* prewarm spawns start() has still to make
  mw,        \* the worker start() is spawning
  closed,    \* pool._closed
  stopping,  \* workers stop() is stopping
  faulted    \* history: a spawn has failed, or a call was cancelled at a spawn or a stop

semVars   == <<value, queue, granted, waiters>>
sweepVars == <<spc, sw, drained, keep>>
serverVars == <<mpc, warm, mw, closed, stopping>>
mainVars  == <<serverVars, faulted>>
poolVars  == <<workers, total, idle, proc, used>>
vars      == <<pc, held, semVars, poolVars, sweepVars, mainVars>>

LeaseStates == {"out", "waiting", "discarding", "spawning", "turn", "retiring"}
\* The places where a lease() call owns one permit of the semaphore.
Admitted == {"discarding", "spawning", "turn", "retiring"}

At(S) == {l \in Lease : pc[l] \in S}

TypeOK ==
  /\ pc \in [Lease -> LeaseStates]
  /\ held \in [Lease -> Worker \cup {NoWorker}]
  /\ \A l \in Lease : held[l] \in Worker <=> pc[l] \in Admitted
  /\ value \in Nat /\ queue \in Seq(Lease) /\ granted \in SUBSET Lease /\ waiters \in Int
  /\ workers \in SUBSET Worker /\ total \in Int /\ idle \in Seq(Worker)
  /\ proc \in [Worker -> {"up", "down"}] /\ used \in [Worker -> BOOLEAN]
  /\ spc \in {"off", "sleep", "retire"} /\ sw \in Worker \cup {NoWorker}
  /\ drained \in Seq(Worker) /\ keep \in Seq(Worker)
  /\ mpc \in {"prewarm", "running", "joining", "gather", "stopped"}
  /\ warm \in Nat /\ mw \in Worker \cup {NoWorker} /\ (mw # NoWorker => warm > 0)
  /\ closed \in BOOLEAN /\ stopping \in SUBSET Worker /\ faulted \in BOOLEAN

Init ==
  /\ pc = [l \in Lease |-> "out"] /\ held = [l \in Lease |-> NoWorker]
  /\ value = MaxWorkers /\ queue = <<>> /\ granted = {} /\ waiters = 0
  /\ workers = {} /\ total = 0 /\ idle = <<>>
  /\ proc = [w \in Worker |-> "down"] /\ used = [w \in Worker |-> FALSE]
  /\ spc = "off" /\ sw = NoWorker /\ drained = <<>> /\ keep = <<>>
  /\ mpc = "prewarm" /\ warm = MinWorkers /\ mw = NoWorker
  /\ closed = FALSE /\ stopping = {} /\ faulted = FALSE

-------------------------------------------------------------------------------
(* Worker records.  A worker is owned while some task or list can still     *)
(* stop it; an identity can be given to a new subprocess once the old one   *)
(* is gone and nothing refers to it.                                        *)

Owned(w) ==
  \/ w \in workers \cup stopping
  \/ w \in ToSet(idle) \cup ToSet(drained) \cup ToSet(keep)
  \/ w = sw \/ w = mw \/ \E l \in Lease : held[l] = w

FreshWorkers == {w \in Worker : proc[w] = "down" /\ ~Owned(w)}

\* _spawn_worker up to its first await: a new ACPWorker, last_used = 0.
StartProcess(w) ==
  /\ w \in FreshWorkers
  /\ proc' = [proc EXCEPT ![w] = "up"]
  /\ used' = [used EXCEPT ![w] = FALSE]

\* _spawn_worker after initialize() returned.
Register(w) ==
  /\ workers' = workers \cup {w}
  /\ total' = total + 1

\* Mutant of Untrack: the membership test is dropped.
UntrackAlways(w) ==
  /\ workers' = workers \ {w}
  /\ total' = total - 1

\* _retire_worker up to its await.
Untrack(w) ==
  /\ workers' = workers \ {w}
  /\ total' = IF w \in workers THEN total - 1 ELSE total

\* worker.stop() has returned: the process exited or its tree was killed.
Stopped(w) == proc' = [proc EXCEPT ![w] = "down"]

Goto(l, state, w) ==
  /\ pc' = [pc EXCEPT ![l] = state]
  /\ held' = [held EXCEPT ![l] = w]

-------------------------------------------------------------------------------
(* asyncio.Semaphore (external).                                            *)

\* Mutant of Locked: a counter of zero does not lock.
LockedByQueueOnly == queue # <<>>

\* locked(): no free permit, or somebody is in the queue.
Locked == value = 0 \/ queue # <<>>

\* Mutant of Wake: any of the sleeping waiters are woken.
WakeAny(v, q, g, n) ==
  LET asleep == ToSet(q) \ g
  IN \E G \in SUBSET asleep :
       /\ Cardinality(G) = IF Cardinality(asleep) < n THEN Cardinality(asleep) ELSE n
       /\ value' = v - Cardinality(G) /\ granted' = g \cup G /\ queue' = q

\* _wake_up_next, at most n times: the first waiters without a result get one
\* permit each out of v.  q and g are the queue and the granted set by then.
Wake(v, q, g, n) ==
  LET asleep == ToSet(q) \ g
  IN \E G \in SUBSET asleep :
       /\ \A i, j \in DOMAIN q : (q[i] \in asleep \ G /\ q[j] \in G) => j < i
       /\ Cardinality(G) = IF Cardinality(asleep) < n THEN Cardinality(asleep) ELSE n
       /\ value' = v - Cardinality(G)
       /\ granted' = g \cup G
       /\ queue' = q

\* Mutant of Release: the permit is free but nobody is woken.
ReleaseNoWake == value' = value + 1 /\ UNCHANGED <<queue, granted>>

\* release(): one more permit, handed at once to the first sleeping waiter.
Release == Wake(value + 1, queue, granted, 1)

\* Mutant of Dequeue: free permits are not handed on.
DequeueNoWake(l, v) ==
  \E i \in DOMAIN queue :
    /\ queue[i] = l
    /\ value' = v /\ queue' = RemoveAt(queue, i) /\ granted' = granted \ {l}

\* The end of acquire() for a queued waiter: its future leaves the deque, a
\* permit it was given but cannot use goes back, and free permits wake others.
Dequeue(l, v) ==
  \E i \in DOMAIN queue :
    /\ queue[i] = l
    /\ Wake(v, RemoveAt(queue, i), granted \ {l}, v)

-------------------------------------------------------------------------------
(* lease(): one client slot.                                                *)

\* Mutant of GetLiveWorker: the worker stays on the stack.
GetLiveWorkerPeeks(l) ==
  \/ /\ idle # <<>> /\ proc[Head(idle)] = "up"
     /\ Goto(l, "turn", Head(idle))
     /\ UNCHANGED <<idle, workers, total, proc, used>>
  \/ /\ idle # <<>> /\ proc[Head(idle)] = "down"
     /\ Goto(l, "discarding", Head(idle)) /\ idle' = Tail(idle)
     /\ Untrack(Head(idle))
     /\ UNCHANGED <<proc, used>>
  \/ /\ idle = <<>>
     /\ \E w \in Worker : StartProcess(w) /\ Goto(l, "spawning", w)
     /\ UNCHANGED <<workers, total, idle>>

\* _get_live_worker up to its first suspension: the top idle worker if it is
\* alive; else start retiring it; else start spawning.
GetLiveWorker(l) ==
  \/ /\ idle # <<>> /\ proc[Head(idle)] = "up"
     /\ Goto(l, "turn", Head(idle)) /\ idle' = Tail(idle)
     /\ UNCHANGED <<workers, total, proc, used>>
  \/ /\ idle # <<>> /\ proc[Head(idle)] = "down"
     /\ Goto(l, "discarding", Head(idle)) /\ idle' = Tail(idle)
     /\ Untrack(Head(idle))
     /\ UNCHANGED <<proc, used>>
  \/ /\ idle = <<>>
     /\ \E w \in Worker : StartProcess(w) /\ Goto(l, "spawning", w)
     /\ UNCHANGED <<workers, total, idle>>

\* A call can arrive once start() is done; it is refused once closed is set.
CanCall(l) == pc[l] = "out" /\ mpc # "prewarm" /\ ~closed

\* A permit is free and nobody queues: take it and go on without suspending.
Admit(l) ==
  /\ CanCall(l) /\ ~Locked
  /\ value' = value - 1
  /\ GetLiveWorker(l)
  /\ UNCHANGED <<queue, granted, waiters, sweepVars, mainVars>>

\* Mutant of Enqueue: one call too many may wait.
EnqueueOffByOne(l) ==
  /\ CanCall(l) /\ Locked /\ waiters <= MaxQueue
  /\ waiters' = waiters + 1
  /\ queue' = Append(queue, l)
  /\ pc' = [pc EXCEPT ![l] = "waiting"]
  /\ UNCHANGED <<held, value, granted, poolVars, sweepVars, mainVars>>

\* The pool is saturated and the queue has room (otherwise: refused, no change).
Enqueue(l) ==
  /\ CanCall(l) /\ Locked /\ waiters < MaxQueue
  /\ waiters' = waiters + 1
  /\ queue' = Append(queue, l)
  /\ pc' = [pc EXCEPT ![l] = "waiting"]
  /\ UNCHANGED <<held, value, granted, poolVars, sweepVars, mainVars>>

\* A granted waiter runs again.
Resume(l) ==
  /\ pc[l] = "waiting" /\ l \in granted
  /\ waiters' = waiters - 1
  /\ Dequeue(l, value)
  /\ GetLiveWorker(l)
  /\ UNCHANGED <<sweepVars, mainVars>>

\* Mutant of GiveUp: a permit is given back that was never granted.
GiveUpReleases(l) ==
  /\ pc[l] = "waiting" /\ Faults \cap {"timeout", "cancel"} # {}
  /\ waiters' = waiters - 1
  /\ Dequeue(l, value + 1)
  /\ Goto(l, "out", NoWorker)
  /\ UNCHANGED <<poolVars, sweepVars, mainVars>>

\* The wait runs out or its task is cancelled, possibly after the grant.
GiveUp(l) ==
  /\ pc[l] = "waiting" /\ Faults \cap {"timeout", "cancel"} # {}
  /\ waiters' = waiters - 1
  /\ Dequeue(l, IF l \in granted THEN value + 1 ELSE value)
  /\ Goto(l, "out", NoWorker)
  /\ UNCHANGED <<poolVars, sweepVars, mainVars>>

\* A dead idle worker has been stopped: look for the next one.
Discarded(l) ==
  /\ pc[l] = "discarding"
  /\ GetLiveWorker(l)
  /\ UNCHANGED <<semVars, sweepVars, mainVars>>

\* start() and initialize() succeeded: tracked, then handed to the caller.
Spawned(l) ==
  /\ pc[l] = "spawning"
  /\ Register(held[l])
  /\ pc' = [pc EXCEPT ![l] = "turn"]
  /\ UNCHANGED <<held, semVars, idle, proc, used, sweepVars, mainVars>>

\* An exception or a cancellation leaves _get_live_worker: lease() ends before
\* its try block, so the permit is not given back; nor is the subprocess, if
\* there is one, stopped.
LoseLease(l) ==
  /\ \/ pc[l] = "spawning" /\ Faults \cap {"spawn", "cancel"} # {}
        /\ \/ UNCHANGED proc
           \/ Stopped(held[l])                   \* it never started, or crashed
     \/ pc[l] = "discarding" /\ "cancel" \in Faults
        /\ UNCHANGED proc
  /\ Goto(l, "out", NoWorker) /\ faulted' = TRUE
  /\ UNCHANGED <<semVars, workers, total, idle, used, sweepVars, serverVars>>

\* Mutant of EndTurn: _closed is not looked at.
EndTurnIgnoresClosed(l) ==
  LET w == held[l] IN
  /\ pc[l] = "turn"
  /\ used' = [used EXCEPT ![w] = TRUE]
  /\ \/ /\ proc[w] = "up"
        /\ idle' = <<w>> \o idle /\ Goto(l, "out", NoWorker) /\ Release
        /\ UNCHANGED <<waiters, workers, total>>
     \/ /\ proc[w] = "down"
        /\ Untrack(w) /\ Goto(l, "retiring", w)
        /\ UNCHANGED <<semVars, idle>>
  /\ UNCHANGED <<proc, sweepVars, mainVars>>

\* The body of the async with ends, in whatever way: the worker goes back on
\* the stack if it is alive and the pool open, else its retirement starts.
EndTurn(l) ==
  LET w == held[l] IN
  /\ pc[l] = "turn"
  /\ used' = [used EXCEPT ![w] = TRUE]
  /\ \/ /\ proc[w] = "up" /\ ~closed
        /\ idle' = <<w>> \o idle
        /\ Goto(l, "out", NoWorker)
        /\ Release
        /\ UNCHANGED <<waiters, workers, total>>
     \/ /\ proc[w] = "down" \/ closed
        /\ Untrack(w)
        /\ Goto(l, "retiring", w)
        /\ UNCHANGED <<semVars, idle>>
  /\ UNCHANGED <<proc, sweepVars, mainVars>>

\* Mutant of Retired: the permit of a lease whose worker died is not released.
RetiredKeepsPermit(l) ==
  /\ pc[l] = "retiring"
  /\ Stopped(held[l])
  /\ Goto(l, "out", NoWorker)
  /\ UNCHANGED <<semVars, workers, total, idle, used, sweepVars, mainVars>>

\* worker.stop() returned or raised an Exception, which is suppressed.
Retired(l) ==
  /\ pc[l] = "retiring"
  /\ Stopped(held[l])
  /\ Goto(l, "out", NoWorker)
  /\ Release
  /\ UNCHANGED <<waiters, workers, total, idle, used, sweepVars, mainVars>>

\* A CancelledError inside worker.stop() is not suppressed: the kill and the
\* release behind it are skipped.
CancelRetire(l) ==
  /\ pc[l] = "retiring" /\ "cancel" \in Faults
  /\ Goto(l, "out", NoWorker) /\ faulted' = TRUE
  /\ UNCHANGED <<semVars, poolVars, sweepVars, serverVars>>

-------------------------------------------------------------------------------
(* The sweeper task.                                                        *)

\* Mutant of Sweepable: the minimum itself is not kept.
SweepableAtMinimum(w) ==
  \/ proc[w] = "down"
  \/ total >= MinWorkers /\ used[w] /\ "expiry" \in Faults

\* dead, or idle for too long while the pool is above its minimum
Sweepable(w) ==
  \/ proc[w] = "down"
  \/ total > MinWorkers /\ used[w] /\ "expiry" \in Faults

\* _sweep's loop over d from its current place to its next suspension.  The
\* stack holds "rest"; "kept" is the keep list so far.
SweepFrom(d, kept, rest) ==
  \/ /\ \A i \in DOMAIN d : proc[d[i]] = "up"
     /\ idle' = Reverse(kept \o d) \o rest      \* keep is pushed in list order
     /\ spc' = IF closed THEN "off" ELSE "sleep"
     /\ sw' = NoWorker /\ drained' = <<>> /\ keep' = <<>>
     /\ UNCHANGED <<workers, total>>
  \/ \E k \in DOMAIN d :
     /\ \A i \in 1..(k - 1) : proc[d[i]] = "up"
     /\ Sweepable(d[k])
     /\ Untrack(d[k])
     /\ spc' = "retire" /\ sw' = d[k]
     /\ keep' = kept \o SubSeq(d, 1, k - 1)
     /\ drained' = SubSeq(d, k + 1, Len(d))
     /\ idle' = rest

\* Bound of the model: a sweep starts only while the identities not in use
\* suffice for every permit to spawn during it.
SpawnRoom == Cardinality(FreshWorkers) >= MaxWorkers

\* Mutant of SweepBegin: the workers are looked at without draining the stack.
SweepBeginInPlace ==
  /\ spc = "sleep" /\ SpawnRoom
  /\ SweepFrom(idle, <<>>, idle)
  /\ UNCHANGED <<pc, held, semVars, proc, used, mainVars>>

\* The timer fires: drain the stack, top first.
SweepBegin ==
  /\ spc = "sleep" /\ SpawnRoom
  /\ SweepFrom(idle, <<>>, <<>>)
  /\ UNCHANGED <<pc, held, semVars, proc, used, mainVars>>

\* Mutant of SweepResume: an expired worker is dropped without being stopped.
SweepResumeNoStop ==
  /\ spc = "retire"
  /\ SweepFrom(drained, keep, idle)
  /\ UNCHANGED <<pc, held, semVars, proc, used, mainVars>>

\* The worker being retired has been stopped.
SweepResume ==
  /\ spc = "retire"
  /\ SweepFrom(drained, keep, idle)
  /\ Stopped(sw)
  /\ UNCHANGED <<pc, held, semVars, used, mainVars>>

\* stop() cancelled the sweeper inside worker.stop(): the drained and kept
\* workers are dropped and the one being retired is not waited for.  (A cancel
\* that worker.stop() swallows leaves SweepResume instead.)
SweepAbort ==
  /\ spc = "retire" /\ mpc = "joining"
  /\ spc' = "off" /\ sw' = NoWorker /\ drained' = <<>> /\ keep' = <<>>
  /\ UNCHANGED <<pc, held, semVars, poolVars, mainVars>>

-------------------------------------------------------------------------------
(* start() and stop().                                                      *)

PrewarmSpawn ==
  /\ mpc = "prewarm" /\ warm > 0 /\ mw = NoWorker
  /\ \E w \in Worker : StartProcess(w) /\ mw' = w
  /\ UNCHANGED <<pc, held, semVars, workers, total, idle, sweepVars,
                 mpc, warm, closed, stopping, faulted>>

PrewarmSpawned ==
  /\ mpc = "prewarm" /\ mw # NoWorker
  /\ Register(mw)
  /\ idle' = <<mw>> \o idle
  /\ warm' = warm - 1 /\ mw' = NoWorker
  /\ UNCHANGED <<pc, held, semVars, proc, used, sweepVars, mpc, closed, stopping,
                 faulted>>

\* The first failure ends the prewarming, not the start.
PrewarmFailed ==
  /\ mpc = "prewarm" /\ mw # NoWorker /\ "spawn" \in Faults
  /\ warm' = 0 /\ mw' = NoWorker /\ faulted' = TRUE
  /\ UNCHANGED proc \/ Stopped(mw)
  /\ UNCHANGED <<pc, held, semVars, workers, total, idle, used, sweepVars,
                 mpc, closed, stopping>>

Started ==
  /\ mpc = "prewarm" /\ warm = 0
  /\ mpc' = "running" /\ spc' = "sleep"
  /\ UNCHANGED <<pc, held, semVars, poolVars, sw, drained, keep,
                 warm, mw, closed, stopping, faulted>>

\* Mutant of StopBegin: the sweeper is joined without being cancelled.
StopBeginNoCancel ==
  /\ mpc = "running"
  /\ mpc' = "joining" /\ closed' = TRUE
  /\ UNCHANGED <<pc, held, semVars, poolVars, sweepVars, warm, mw, stopping,
                 faulted>>

\* stop() until it waits for the sweeper it cancelled; a sleeping one just ends.
StopBegin ==
  /\ mpc = "running"
  /\ mpc' = "joining" /\ closed' = TRUE
  /\ spc' = IF spc = "sleep" THEN "off" ELSE spc
  /\ UNCHANGED <<pc, held, semVars, poolVars, sw, drained, keep, warm, mw, stopping,
                 faulted>>

\* Mutant of StopCollect: the workers are forgotten before they are listed.
StopCollectEmpty ==
  /\ mpc = "joining" /\ spc = "off"
  /\ mpc' = "gather" /\ stopping' = {}
  /\ workers' = {} /\ total' = 0
  /\ UNCHANGED <<pc, held, semVars, idle, proc, used, sweepVars, warm, mw, closed,
                 faulted>>

\* The sweeper ended: forget every tracked worker and stop them all at once.
\* The idle stack is left as it is.
StopCollect ==
  /\ mpc = "joining" /\ spc = "off"
  /\ mpc' = "gather" /\ stopping' = workers
  /\ workers' = {} /\ total' = 0
  /\ UNCHANGED <<pc, held, semVars, idle, proc, used, sweepVars, warm, mw, closed,
                 faulted>>

StopWorker(w) ==
  /\ w \in stopping
  /\ Stopped(w)
  /\ stopping' = stopping \ {w}
  /\ UNCHANGED <<pc, held, semVars, workers, total, idle, used, sweepVars,
                 mpc, warm, mw, closed, faulted>>

StopDone ==
  /\ mpc = "gather" /\ stopping = {}
  /\ mpc' = "stopped"
  /\ UNCHANGED <<pc, held, semVars, poolVars, sweepVars, warm, mw, closed, stopping,
                 faulted>>

-------------------------------------------------------------------------------
\* A subprocess dies.  One that dies while it is being spawned is LoseLease or
\* PrewarmFailed, whose exception is the first the pool hears of it.
Die(w) ==
  /\ "death" \in Faults /\ proc[w] = "up"
  /\ w # mw /\ \A l \in Lease : pc[l] = "spawning" => held[l] # w
  /\ Stopped(w)
  /\ UNCHANGED <<pc, held, semVars, workers, total, idle, used, sweepVars, mainVars>>

\* The service has shut down and every request has left the pool.
Finished ==
  /\ mpc = "stopped" /\ At(LeaseStates \ {"out"}) = {}
  /\ UNCHANGED vars

LeaseStep(l) ==
  \/ Admit(l) \/ Enqueue(l) \/ Resume(l) \/ GiveUp(l)
  \/ Discarded(l) \/ Spawned(l) \/ LoseLease(l)
  \/ EndTurn(l) \/ Retired(l) \/ CancelRetire(l)

Next ==
  \/ \E l \in Lease : LeaseStep(l)
  \/ SweepBegin \/ SweepResume \/ SweepAbort
  \/ PrewarmSpawn \/ PrewarmSpawned \/ PrewarmFailed \/ Started
  \/ StopBegin \/ StopCollect \/ StopDone
  \/ \E w \in Worker : StopWorker(w) \/ Die(w)
  \/ Finished

Spec == Init /\ [][Next]_vars

\* Weak fairness of what the event loop and the timeouts behind each await make
\* happen: ready tasks run, a spawn ends within initialize's 30 s, a turn within
\* its idle and turn timeouts, worker.stop() within 5 s, prewarming and stop()
\* go on.  No client has to call, no wait has to time out, nobody has to stop.
Fairness ==
  /\ \A l \in Lease : /\ WF_vars(Resume(l)) /\ WF_vars(Discarded(l))
                      /\ WF_vars(Spawned(l) \/ LoseLease(l))
                      /\ WF_vars(EndTurn(l)) /\ WF_vars(Retired(l))
  /\ WF_vars(SweepResume \/ SweepAbort)
  /\ WF_vars(PrewarmSpawn \/ PrewarmSpawned \/ PrewarmFailed \/ Started)
  /\ WF_vars(StopCollect \/ StopDone)
  /\ \A w \in Worker : WF_vars(StopWorker(w))

FairSpec == Spec /\ Fairness

-------------------------------------------------------------------------------
(* Safety.                                                                  *)

Permits == value + Cardinality(granted) + Cardinality(At(Admitted))

\* No permit is ever minted: free permits, permits handed to waiters that have
\* not run yet and permits of admitted leases never exceed max_workers, so no
\* more than max_workers turns run at once, whatever is cancelled when.
PermitsNeverMinted == Permits <= MaxWorkers

\* Until a spawn fails or a call is cancelled while it spawns or stops a worker,
\* every permit is free, granted or owned by an admitted lease: timeouts and
\* cancellations that race a grant, worker deaths, sweeps and shutdown lose none.
PermitsConserved == ~faulted => Permits = MaxWorkers

\* _waiters counts the calls in the semaphore's queue, which holds each once,
\* granted ones included, and never exceeds max_queue.
QueueBounded ==
  /\ ToSet(queue) = At({"waiting"}) /\ granted \subseteq ToSet(queue)
  /\ waiters = Len(queue) /\ waiters = Cardinality(At({"waiting"}))
  /\ waiters <= MaxQueue

\* No lost wakeup: a permit is never free while all queued calls sleep.
NoLostWakeup == value > 0 /\ queue # <<>> => granted # {}

\* First come, first served: nobody is granted a permit over an earlier call.
FifoGrants ==
  \A i, j \in DOMAIN queue : i < j /\ queue[j] \in granted => queue[i] \in granted

\* A worker's places: on the stack, with the sweeper, with a lease.
NoRepeats(s) == \A i, j \in DOMAIN s : i # j => s[i] # s[j]
Disjoint(A, B) == A \cap B = {}

\* One turn per worker: a worker with a lease is with no other lease and neither
\* on the idle stack nor with the sweeper, and no list holds a worker twice.
ExclusiveWorkers ==
  /\ \A l, m \in At(Admitted) : l # m => held[l] # held[m]
  /\ NoRepeats(idle) /\ NoRepeats(keep \o drained)
  /\ Disjoint(ToSet(idle), ToSet(drained) \cup ToSet(keep))
  /\ \A l \in At(Admitted) :
       held[l] \notin {sw} \cup ToSet(idle) \cup ToSet(drained) \cup ToSet(keep)

\* _total is the number of tracked workers, and while the pool is open each of
\* them is on the stack, with the sweeper or in a turn: none is stranded where
\* nobody would ever use or retire it.
NoneStranded ==
  /\ total = Cardinality(workers)
  /\ ~closed => workers = ToSet(idle) \cup ToSet(drained) \cup ToSet(keep)
                            \cup {held[l] : l \in At({"turn"})}

\* Every live subprocess of an open pool is tracked or in somebody's hands, until
\* a spawn fails or a call is cancelled while it spawns or stops a worker.
NoOrphans ==
  (~faulted /\ ~closed) => \A w \in Worker : proc[w] = "up" => Owned(w)

\* Once stop() returned and the last lease ended nothing is counted or tracked.
StopForgets == mpc = "stopped" /\ At(Admitted) = {} => total = 0 /\ workers = {}

\* "SIGTERM leaves zero orphaned processes", as far as it holds: when stop() has
\* returned and the last lease has ended, the one process that can still be up is
\* that of a worker the sweeper had untracked and was retiring when stop()
\* cancelled it, unless a spawn had failed or a call been cancelled while it spawned
\* or stopped a worker.
StopKills ==
  (~faulted /\ mpc = "stopped" /\ At(Admitted) = {})
    => Cardinality({w \in Worker : proc[w] = "up"}) <= 1

\* At most max_workers subprocesses are tracked (min_workers being smaller).
Ceiling == total <= MaxWorkers

\* Failed spawns and cancelled calls use up permits.  The pool is wedged when
\* no permit is left and no admitted lease will ever give one back.
NeverWedged == MaxWorkers > 0 => value > 0 \/ granted # {} \/ At(Admitted) # {}

(* What a step may never do.                                                *)

\* The sweeper never takes the pool below min_workers by retiring a live worker.
SweepKeepsMinimum ==
  [][spc' = "retire" /\ sw' # sw /\ proc[sw'] = "up" => total' >= MinWorkers]_vars

(* Liveness.                                                                *)

\* Nobody starves: a queued call whose wait has no timeout gets a worker.
Served == \A l \in Lease : pc[l] = "waiting" ~> pc[l] = "turn"

\* stop() always comes to its end, whatever the sweeper and the leases are doing.
StopTerminates == closed ~> mpc = "stopped"

-------------------------------------------------------------------------------
(* The abstract specification of lease(): a permit that is neither free, nor *)
(* granted, nor owned is lost, and a worker is lent while its turn runs.     *)

LentWorker == [l \in Lease |-> IF pc[l] = "turn" THEN held[l] ELSE NoWorker]

Abstract == INSTANCE Leasing WITH
  Client <- Lease, Limit <- MaxWorkers,
  holders <- At(Admitted), lent <- LentWorker, lost <- MaxWorkers - Permits

\* lease() with its semaphore, queue, stack, sweeper and shutdown does what
\* Leasing promises: at most max_workers admitted calls at a time, no worker lent
\* twice, and permits are lost only by calls that end where Leasing lets them.
ImplementsLeasing == Abstract!LeasingSpec
===============================================================================
