# Kiro-API in TLA+

Kiro-API serves the OpenAI and Anthropic HTTP protocols from a pool of long-lived
`kiro-cli acp` subprocesses. It is one Python process with one asyncio event loop.
What is hard about it is not computation: tasks interleave at every `await`,
subprocesses die, hang or answer late, clients leave in the middle of a turn, and
timeouts race answers. These modules model that part of the code. TLC checks them on
small instances, and TLAPS proves every safety property that holds there for every
value of the constants.

Source paths below are relative to `src/kiro_api/` unless they start with `docs/`.

## Inventory

| Component | State it keeps | Operations | Talks to |
|---|---|---|---|
| **Worker pool** `pool.py` | semaphore, `_waiters`, `_workers`, `_total`, LIFO `_idle`, `_closed`, the sweeper task | `start`, `lease`, `_sweep`, `stop`, `stats` | workers (spawn, stop, `alive()`); service (lease); server (start, stop) |
| **ACP worker** `acp/client.py` | subprocess, `_pending` calls, `_queues` and `_prompt_sessions` per session, `_write_lock`, `_dead`, the reader task | `start`/`initialize`, `new_session`, `set_model`, `set_effort`, `prompt_stream`, `_dispatch`, `_fail_all`, `stop` | kiro-cli over two pipes |
| **Auth manager** `auth.py` | `state` with its expiry and time of check, `_lock`, `_login_state`, the watchdog task | `refresh_state`, `try_refresh`, `start_device_login`, `start`, `stop` | whoami, refresh and login commands; token caches; the service's gate |
| **Shim service** `service.py` | metrics | `run_stream`, `run`, the auth gate, error classification (`errors.py`) | auth, pool, worker |
| **Rate and body limits** `security.py` | one log of times per client | `dispatch` | sits before the application |
| **Streaming** `streaming.py` | one pump task and queue per stream | `_with_keepalive`, `openai_sse`, `anthropic_sse` | consumes `run_stream` |
| **Configuration** `config.py` | the config file, the environment | load, write, build | everyone, at startup |
| **Lifecycle** `server.py`, `sdnotify.py` | stop event, readiness | startup order, signals, drain | auth, pool, uvicorn, systemd |
| Routes, shims, CLI, installer, tray, bridge | none of their own | parsing, layout, I/O | the above |

How they interact: a request passes the limits, then the auth gate, which reads
`auth.state`; `run_stream` leases a worker from the pool, runs one turn on it
(session/new, perhaps set_model and /effort, then the prompt) and gives it back at the
end of the `async with`. A pump task of `streaming.py` may sit between the turn and the
client. The sweeper, the auth watchdog, each worker's reader and the
device login run beside the requests. All share plain Python objects, so the only
atomicity is "until the next await that suspends".

What makes each component correct:

- *Pool*: no permit lost or minted; one worker, one turn; no worker stranded, orphaned or
  retired twice; at most `max_workers`; at most `max_queue` waiting; first come,
  first served; `stop()` ends and forgets everything.
- *ACP worker*: an answer reaches the call it belongs to or nobody; every update is
  shown before the end of its turn; the end of stdout fails everybody who waits; the
  write lock is always given up; each turn ends.
- *Auth*: the gate is open only on evidence and opens again once there is some; one login
  at a time; a refresh does not start on another; the state that is reported is true.
- *Limits*: no window holds too many requests; Retry-After is enough; the table is bounded.
- *Service and streaming*: a turn ends when its client is gone, with its lease; each error is
  counted once; no event is lost, repeated or reordered by a keepalive; the frames form a stream
  of their protocol, also when the turn fails; every request is answered.
- *Configuration*: what was set is what the next start runs with.
- *Lifecycle*: a start ends in READY=1 or in the end of the process; a stop is never taken for a start; a
  signal ends the process.

The list of hazards, each at its line, with the properties that watch it, is in
`PROJECT.json`.

## Modules

| Module | Models | State |
|---|---|---|
| `Leasing` | what `lease()` promises, abstractly | implemented by `WorkerPool`, used by `RequestPath` |
| `WorkerPool` | `pool.py`, and `asyncio.Semaphore` as used there | complete |
| `WorkerPool_proofs` | theorems about it | types and permits |
| `WorkerPoolQueue_proofs` | and about the calls that wait | bound, lost wakeups, order |
| `WorkerPoolOwners_proofs` | and about who has each worker | owners, sweeper, shutdown, subprocesses, refinement |
| `RequestPath` | routes, `streaming.py` and `service.py` around one turn | complete but for texts |
| `RequestPath_proofs` | theorems about it | all five safety properties, and its use of the pool |
| `AuthManager` | `auth.py` | complete |
| `AuthManager_proofs` | theorems about it | types, lock, gate, one login, refresh |
| `RateLimit` | `RateLimitMiddleware` | complete |
| `RateLimit_proofs` | theorems about it | all three properties |
| `ACPWorker` | the turns of one worker | complete but for `initialize`, which the pool's spawn stands for |
| `ACPWorker_proofs` | theorems about it | all five safety properties |
| `ConfigFile` | reading, writing and layering the configuration, as operators | complete |
| `ServerLifecycle` | `server.py`, "config set", systemd | complete but for the watchdog's pings |
| `ServerLifecycle_proofs` | theorems about it | both safety properties |
| `MC…` | constants of the small instances | |

How they compose. `Leasing` is the contract between pool and service: `WorkerPool` is shown to implement it
(`ImplementsLeasing`), and `RequestPath` takes its leases by the actions of `Leasing` itself
(`PathUsesLeasing`), so that whatever holds of `RequestPath` holds over the pool, except what depends on
when a call is admitted. Both halves are theorems. `ServerLifecycle` reads its configuration with the operators of `ConfigFile`; it
starts and stops pool and auth manager as wholes, whose inner steps are in their own modules.

In every module an action is what one task does between two awaits that suspend. A
definition named "Mutant of X" in its comment is X with a plausible bug; it is used
nowhere in the specification and documents that a property can fail.

### WorkerPool

`pc[l]` says where the `lease()` call of client slot `l` is suspended, and `held[l]`
is its worker. `value`, `queue`, `granted` are the semaphore of Python 3.12 and later:
`release()` hands a permit to the first sleeping waiter at once, and the waiter runs
later, so a timeout or a cancellation can come between (`GiveUp`). `GetLiveWorker` is the
loop of `_get_live_worker` up to its next suspension. `LoseLease` is any exception or
cancellation out of it. `EndTurn` and `Retired` are the `finally` of `lease`.
`SweepFrom` is the sweeper's loop from one retirement to the next: while it waits,
`drained` and `keep` are workers only it knows of. `mpc` is the server's task in
`start()` and `stop()`. `Faults` selects what the environment may do.

Abstractions. A spawn (create the subprocess, initialize) is one suspension.
`pool._lock` and the idle queue never suspend anybody: no holder awaits, and `get` is
called only on a queue that is not empty. A refused call changes no state and has no
action. An idle worker "expires" whenever it was used; the clock itself is not modelled. A
negative `min_workers` acts as 0. Worker identities are reused once nothing refers to
them. After `stop()` cancelled the sweeper, a worker it was just retiring is
no longer tracked (`SweepAbort`): `NoOrphans` speaks of the open pool only, since the
process ends soon after and closes the pipes.

`faulted` is history: a spawn has failed, or a call was cancelled while it spawned or stopped a worker.
Either loses a permit or leaves a subprocess nobody refers to, so `PermitsConserved`, `NoOrphans` and
`StopKills` say what holds until then, timeouts and cancelled waits included. What happens after is
`PermitsNeverMinted`, `ImplementsLeasing` and the violation `NeverWedged`.

`ImplementsLeasing` maps the pool to `Leasing`: the holders are the calls that own a permit, a
worker is lent while its turn runs, and the permits that are neither free, granted nor owned are lost.
A grant to a waiter that has not run yet is a stutter. `StopKills` is what is left of "zero orphaned
processes" (`docs/ARCHITECTURE.md:286-287`): at most the one worker that the sweeper had in hand survives.

### RequestPath

Two tasks per request. `turn[r]` is where `run_stream` is: created, inside `lease()`, in a call, in the
prompt, in the retirement of its worker, over. `cons[r]` is where the task of the answer is: waiting for
the queue, suspended at a yield, leaving, finished. `queue[r]` lies between them; for an answer in one
piece both are one task and the queue stands for its list. `out[r]` are the frames sent, and `made[r]` and `fate[r]` say what
the worker produced and how the turn ended. The fate "broken" is an exception outside the `try` of `run_stream`
(`Begin`): it has no category and is not counted, and no answer takes it, so a stream breaks off
(`Raised`) and an answer in one piece is the framework's own 500. `Leave` is the disconnect of a client, or the end of the graceful
shutdown, which cancels requests; `CancelTurn` is the cancellation as it arrives where the turn
waits, `Joined` the `await task` of the `finally`. `RetireAs` and `LeaveAs` are the
ends of the `async with`; the permit may be lost there exactly as `Leasing` allows.

Abstractions. An event is a text, an aside (tool, plan or thought) or the last one, with its number;
an error has only its category, found as `from_message` finds it. `KiroSays` are the categories that
kiro-cli's own texts fall into. Keepalive frames are not in `out`. The interval is positive: with 0 there
is no pump. An answer in one piece is cancelled only by the shutdown, since no one watches its connection.

### ACPWorker

The turns of one worker, one after the other. `at` and `phase` say which request the turn
is at and whether it waits for the write lock, in `drain()`, or for an answer. `pending`
holds the keys of `_pending`; `reply` is the outcome of the future the turn waits for;
`open` holds the turns with a session queue; `events` is the queue of the current turn.
`stdin` and `stdout` are the pipes, with room for `InRoom` and `OutRoom` messages;
a message is a request, a cancel, a permission answer, or an answer, an update, an ask.
`closers` are the generators left suspended at a `yield` (`run_stream` raises out of its
`async for` without closing `prompt_stream`): the event loop closes them later, in a task of its
own, when the worker may serve the next turn. kiro-cli is outside: it reads in order,
answers in any order or never, and may exit at any step.

Abstractions. `set_model` and `set_effort` are one kind of call ("setting", at
most one per turn): both ignore an ACPError and nothing else. Contents are left out; a
session/new without a session id is an error answer. `stop()` is one step, since its waits
are bounded and what runs between them is the death of the process. A second
cancellation during the cleanup of `prompt_stream` is not modelled. The exit of the
process empties its stdin pipe; what it wrote before is still read, in order, before the
end of stdout. A turn starts only on a worker that looks alive, as the pool does it. The
service's own consumer may stop between events (`Abandon`) or after the last (`Yield`).

### AuthManager

`lock` is the FIFO queue of the asyncio lock, its owner first. `pc[t]` is where the startup
probe, the watchdog and each device login are. `probe` (await whoami, then perhaps a refresh)
and `confirm` (a forced probe that nothing follows) are the two uses of
`refresh_state`. Time is two-valued: an expiry is `near` within the refresh margin and
`far` before; `asked` keeps that `refresh_state` takes its `now` before it waits for the
lock. `cli` is the state of kiro-cli: `ok`, `slow` (whoami times out and counts as logged
out) or `broken` (an exception that `_whoami` does not catch). `probed` is history.
A probe that raises at startup ends the service, so the model leaves it out.

### RateLimit

`Dispatch(c)` is one request of client `c`: drop what expired, then admit or refuse.
Time is in ticks of 1/`PerSecond` s, so both the strict edge of the window and the `int()` of
Retry-After are exact. The clock does not go back. `admitted` (all admitted requests)
and `told` (what the last 429 promised) are history.

### ConfigFile and ServerLifecycle

A file is a sequence of lines, each a key and a value. `Load`, `Written` and `Build` are
`load_config_file`, `write_config_value` and `build_config`. `Strip` and `Numeral` say what
the conversions do to each value: quotes and blanks go, and what is no number is the default.

`editor[e]` is one command `config set`: it reads the lines, opens the file (which empties it) and writes. Others
may run between, and it may be killed. `wanted` is history: what was set last, if no other command
interfered. `proc` walks through `_serve_async`: bind check, auth, pool, uvicorn, serving, draining, cleaning.
`ready` is the task that polls for `server.started`. Signals, kills and new starts come at any time;
before the handlers are set, a signal has its default effect (`EarlySignal`). A probe of auth or a configuration of
uvicorn that raises ends the process with code 1 (`StartPool`, `StartUvicorn`). `Leave` is every way out of `server.serve()`,
where the `finally` cancels the ready task. `early` is history: a stop was requested before the socket listened. uvicorn is outside: it fails to
listen, or listens, and ends its graceful shutdown after the timeout it was given.

## Runs

| Run | Shows | Bounds |
|---|---|---|
| `pool_safety` | sound permits and queue, exclusive workers, none stranded or orphaned, sweeper keeps the minimum, `stop()` forgets and kills, the refinement of `Leasing` | 3 slots, 2 permits, queue 2, 5 identities, minimum 1; every fault (failed spawns, cancellation, wait timeouts, deaths, idle expiry) |
| `pool_liveness` | a queued call is served, `stop()` ends | 3 slots, 1 permit, queue 2 |
| `pool_wedged`, `pool_ceiling` | two disagreements with the documentation | 2 slots; failed and cancelled spawns; idle expiry |
| `rate_limit` | the sliding window, Retry-After | 2 clients, 2 per 2 s, half-second ticks, 9 ticks |
| `auth` | lock, one login, truthful gate, recovery, closing, steady refreshing | 2 overlapping logins |
| `acp` | complete turns, fast failure, no stale call, no turn after a prompt timeout, every turn ends | 2 turns, 1 update per prompt, pipes of 1 message |
| `acp_replaced` | a worker whose call timed out serves on | the same |
| `request_path` | order and completeness of output, well-formed or broken-off streams, no turn without a client, honest counters, every request answered | 2 requests, 1 permit, 1 worker; the first asks for any kind of answer with at most 2 updates, the second for one in one piece with none |
| `silent_timeout` | a silent worker is reported as an upstream error | the same |
| `error_event` | a stream breaks off without an error event and `[DONE]` | the same |
| `service` | "config set", readiness, signals | 2 commands, 2 keys (a number and a name), 3 values, 2 files, an override by environment and by option |

Why the bounds are enough. *Pool*: two permits are the fewest where a grant to one waiter
can overtake another and where a sweep can hold back one worker while another is spawned. With three slots
two calls can be granted at once, or wait behind a third; a queue of two has an order, and once failed
spawns have used up permits it is full and the third call is refused. The minimum of 1 is neither none nor all of the permits.
`SpawnRoom` starts a sweep only while enough unused identities remain for every permit to
spawn, so that no spawn is blocked by the lack of names. *Rate*: nine half-second ticks
cover two whole windows of 2 s and one tick, with requests at all offsets.
`TableLimit = 1` makes the cleanup run. *Auth*: two logins with the watchdog and the
startup probe make a lock queue of three. *ACP*: a turn can only disturb the next one
through the worker's dictionaries, so two turns show a late answer, a late close or a stale entry
meeting a foreign turn; with room for one message each pipe can be empty, taken and full, and
`drain()` is met returning at once and waiting. *Requests*: two requests and one permit let a client leave while its
turn waits for the lease, holds it or gives it back while another waits; two updates have an order, and
open an Anthropic block and find it open. All requests end, so this run does not check for
deadlock; `Answered` does so for each of them. *Service*: the file that repeats a key is the exception
`SetTakesEffect` names, two commands are the fewest that interfere, and starts follow each other without a bound.

### What the violation runs show

1. `pool_wedged` (`pool.py:133`): a spawn that raises, or a cancellation during it, keeps
   the permit; after `max_workers` of them the pool admits nobody for ever. The
   documentation: "One bad worker never wedges the pool."
2. `pool_ceiling` (`pool.py:174`): during a sweep the drained workers are invisible to
   leases, which spawn beyond `max_workers`, "the concurrency ceiling".
3. `acp_replaced` (`acp/client.py:312`): a call that times out does not mark the worker
   dead; it returns to the idle stack and is leased again. `UnusedAfterTimeout` shows
   that a prompt timeout does better.
4. `silent_timeout` (`service.py:126`): the error event of a silent worker has the category "timeout",
   which `run_stream` drops; the text matches no pattern, and the client gets an upstream error.
5. `error_event` (`service.py:111`): the prompt is built after the request was counted and before the `try`. "messages" of
   another shape (a number, a role that cannot be hashed) raises no `ApiError`, which nobody takes: a
   stream breaks off, an answer in one piece is an unhandled 500, and `errors_total` ("Total failed turns.",
   `routes/control.py:73`) misses it. The documentation: "In streaming responses the error is delivered as a terminal
   error event followed by `[DONE]`" (`docs/CONFIGURATION.md:236-237`), which `anthropic_sse` does for no error:
   it sends the event and no `[DONE]`. `WellFormed` says what the code does keep.

### Observed while modelling

Read from the code and not the subject of a run:

- `security.py:44`: the docstring says "Fixed-window"; the code keeps a log of times, which is a sliding window
  (`SlidingWindow`). It refuses more: a fixed window would admit twice the limit around a reset.
- `security.py:78`: the cleanup pops empty buckets, and a bucket is never left empty, so idle clients
  stay in the table.
- `pool.py:86`: a worker whose `initialize()` fails, or whose spawn is cancelled, is neither tracked nor
  stopped. `NoOrphans` holds only until then.
- `pool.py:68`: a worker that the sweeper was retiring when `stop()` cancelled it may survive `stop()`, although
  `docs/ARCHITECTURE.md:286-287` promises "zero orphaned processes". It loses its pipes soon after.
- `auth.py:248`: after a login that failed, probes that find no session leave LOGGING_IN.
- `cli.py:66`: the login command polls until a return code appears, without an end.
- `config.py:196`: of a repeated key the first line is replaced and the last one is read. The file is emptied before it
  is written (`config.py:214`), so two commands lose each other's lines and a start in between reads nothing.
- `server.py:81`: a first probe that raises (whoami cannot be run) ends the process with code 1 and leaves the watchdog
  of auth to the end of the event loop.
- `server.py:84`: a log level that `setup_logging` accepts and uvicorn does not (WARN) ends the process
  with code 1 after the pool has started, outside the `try`, and nothing is stopped; a signal before the handlers are
  set also leaves the workers to the end of their pipes, with code 0 for SIGINT.
- READY=1 may follow STOPPING=1 when the signal comes after the socket listens and before the next poll of the
  ready task (50 ms). `NoFalseStart` is about signals before the socket listens.
- `streaming.py:139`: a turn that fails midway leaves Anthropic's text block without its stop event.
- Refusals of the auth gate are in no counter.
- `acp_stdio.py`: the worker's reader takes the answers, and nothing writes them to the editor.

## Fairness

Each specification states weak fairness only for what the event loop and the code's own
timeouts make happen.

- *Pool*: granted waiters run; a spawn ends within the 30 s of `initialize`; a turn ends within
  its idle and turn timeouts; `worker.stop()` ends within 5 s. No client has to call, no
  wait has to time out, nobody has to call `stop()`. That a turn ends assumes that kiro-cli reads
  its stdin (next item); `Served` also excludes failed spawns and cancellations, which lose
  permits (finding 1).
- *Requests*: tasks that can run do; a turn waits for its lease, a spawn, a call or the next event no longer than
  the timeouts of these. Its writes have none: `RequestPath` folds the write lock and `drain()`
  (`acp/client.py:326-330`) into the call and the prompt, so `Answered`, like `TurnEnds`, assumes that kiro-cli reads its
  stdin. A client reads the frame it is sent or leaves. Nobody has to make a request, and the server need not shut down.
- *Service*: the process takes its next step. No fairness for starts, signals, commands or clients: the
  graceful shutdown ends by its own timeout. The ready task is one of the steps: it polls until it is cancelled.
- *ACP*: tasks that can run do, and timeouts expire. The write lock has strong fairness
  because `asyncio.Lock` serves its waiters in order, while `drain()`s of other tasks can
  take it in between. `AgentReads` is fair: kiro-cli reads its stdin in the end. The code
  has no timeout around `drain()` (`acp/client.py:330`), so without this assumption "Nothing hangs
  forever" (`docs/ARCHITECTURE.md:275`) would not hold: `TurnEnds` is the conditional
  promise. Answers, updates, exits and the client's leaving have no fairness.
- *Auth*: whoami ends within 10 s, the refresh command within 30 s, the lock is first come first
  served, a cached state stops being fresh. A device login has no timeout in the code and no
  fairness here. `Recovers`, `Closes` and `KeepsRefreshing` name in their premises what
  the outside has to do (a session that stays valid, a CLI that works).

## What is proved

For every value of the constants, from the named assumptions of the modules (`PoolAssumption`,
`WorkerAssumption`, `LoginAssumption`, `RateAssumption`, `PathAssumption`,
`LifecycleAssumption`), TLAPS checks 34 theorems. With them every invariant, every action property and the
refinement of the passing runs is proved. Each argument is an inductive invariant, whose step is
split by action.

### Worker pool

`PermitsConserved`, `NoOrphans` and `StopKills` have the premise `~faulted`; the other results hold under every fault.

- *Permits* (`WorkerPool_proofs`). `TypeOK` is inductive by itself because it contains that a lease holds a
  worker exactly while it owns a permit (`held[l] \in Worker <=> pc[l] \in Admitted`). `PermitsKept`: every
  step keeps or lowers the sum of free, granted and owned permits, and keeps it unless it sets `faulted`. The core is `WakeFacts`: a wake-up moves permits from the counter to
  waiters one for one.
- *Queue* (`WorkerPoolQueue_proofs`). `QueueInv`: the deque holds each suspended call once and no other, its length is
  `_waiters`, the granted calls are its first ones, and no permit is free beside a sleeping call. The last
  two need each other: `_wake_up_next` serves from the front, and a call that leaves with a grant
  passes it on.
- *Owners* (`WorkerPoolOwners_proofs`). `OwnInv` has four parts: what the sweeper, `start()` and `stop()` may have in hand in each
  phase of the server (`Phases`), that the three lists have no worker twice (`Lists`), that a lease's worker is in
  no list and in no other hand (`Hands`), and that `_workers` has exactly the workers
  of the lists and of the turns while the pool is open (`Tracked`). `ExclusiveWorkers`, `NoneStranded`,
  `StopForgets` and the sweeper's minimum follow from it. `Processes` adds the subprocesses: each live one is
  in the hand of somebody who can stop it, except at most one, the worker the sweeper was retiring when
  it was cancelled. `NoOrphans` and `StopKills` follow.
- *Refinement*. `PoolImplementsLeasing`: one lemma per action shows which operation of `Leasing` it is, or that
  it is a stutter. It needs the permits' theorem (a granted call finds `Room`) and `OwnInv` (a worker
  from the stack is `Free`).

### Request path

`PathInv` says of each request where its two tasks can stand together:

- `Phase`: which states of turn and answer go together, and that a turn that is not under way has no share in
  the pool. `StreamEndsTurn` is one line of it.
- `Stage`: while a stream goes on, the end of its queue and the closing frames it has sent are those of its
  turn's state and fate; for instance a turn that failed has put an error and the mark behind whatever is still queued.
- `Output`: what was sent, with what the queue still holds, is what the worker made (`Passed`); a finish comes after all of
  it (`Complete`), an error from a turn that failed (`Erring`), and the closing frames last (`Closed`).
- `Counted`: `errors` is at least the number of turns that failed behind the gate, and `requests` at least `errors` with the
  turns that passed it and have no category of failure, those that broke off behind it among them. `MetricsHonest` follows, since a client
  sees an error only of a failure with a category, and a finish only of a turn that did not fail.

`Block` adds where an Anthropic text block starts and stops; `WellFormed` needs both. `PathUsesLeasing` shows that every step
is a step of `Leasing` or leaves the pool alone, and `PathExclusive` that no two requests talk to
one worker, and that their permits with the lost ones stay within the limit. These two are no property of a run.

`Kinds`, what is left of a list by the kind of its members, is a recursive function. The library's induction theorems
cannot be used with these provers, so `Induction` is proved first, for sets: a set of naturals with 0 that is closed
under successor has all of them, because otherwise its members below a missing one would map one to
one into fewer. `KindsIs` and the laws of `Kinds` (concatenation, heads, prefixes, suffixes) follow.

### The other components

- *ACPWorker*. `AcpNoStalePending` adds to `NoStalePending` that a call with an answer has already left `_pending`
  (`AnsweredLeft`). `AcpUnusedAfterTimeout`: a prompt's timeout marks the worker dead, no step
  revives it, and a turn begins only on one that is alive. `DoneComplete` and `FailFast` come from `TurnInvariant`, which
  follows the prompt as a token: unread in stdin, asked, answered in stdout or ended in the queue, in one place
  at a time and never with an update behind it (`Token`). `Kept` counts updates on the way: sent are
  those shown, queued and in the pipe. `Numbered` excludes messages of later turns, so that a new
  turn starts without any, and `Fast` says that a call that is not marked late is where the end
  of stdout finds it.
- *AuthManager*. `IInv` is `AuthTypes /\ GateTruthful /\ RefreshOnce /\ LoginInv`, where `LoginInv` states `OneLogin` by members
  instead of by cardinality. `RefreshOnce` (a refresh that waited for the lock never finds
  another one going on; a part of the argument and no property of a run) is inductive because only the watchdog enters REFRESHING and
  every probe leaves it. `LockSound` needs that only the watchdog probes on its own account
  (`ProbeIsWatchdog`): its cancellation takes the one entry out of the lock's queue that is its own.
- *RateLimit*. `IInv` is `RateTypeOK /\ LogInv /\ ToldInv`. `LogInv` says that a bucket is
  the suffix of the client's history of admissions whose missing part expired, and that admissions a limit apart
  are more than a window apart; `ToldInv` ties the last promise to the oldest entry. They are needed
  because `SlidingWindow` speaks of a history the code does not keep. The integer division in
  Retry-After is bounded by `DivBounds`.
- *ServerLifecycle*. `ServiceNoFalseStart`: the invariant adds to `NoFalseStart` where the ready task can be in each phase
  of the process, and that a stop before the socket listened leads from the startup straight into the `finally`. `ServiceSetTakesEffect` is about files of any length: the invariant
  says that what was set is what is loaded, for every key that stands once, both from the file, unless somebody has just
  emptied it, and from the lines a command that is alone has in hand, and that such a command is the only one at work. The core is
  `WrittenLines` (a write changes one line, or appends one), `LoadWritten` and `LoadOthers`.

Only model-checked is all liveness (`Served`, `StopTerminates`, `Recovers`, `Closes`, `KeepsRefreshing`, `TurnEnds`,
`Answered`, `StopsWhenTold`, `StartsOrEnds`), which needs ENABLED and is beyond this prover, and the five violations.

## Not modelled

Contents and formatting (prompts, activity text, response bodies, error bodies, the patterns of `errors.py`, logs); reading and
parsing of token caches (outside, as `token`); `BodyLimitMiddleware`, a comparison of
one header; snapshots (`stats`, `snapshot`, `login_status`), which read and change nothing;
systemd's watchdog pings, which have no effect in the process; the commands of `cli.py` that only read or print,
the installer, the tray and logging, which are I/O around the service. The stdio bridge relays lines to one
worker that `ACPWorker` models and keeps no state of its own.

## Plan

The code that has state is modelled, and all safety properties of the runs are proved. What is left:

1. The safety facts behind the liveness properties, as invariants with proofs: which tasks may wait for each
   other, and what a waiting task can still be woken by.
2. Shorter proofs: `RequestPath_proofs` is by far the longest, and its laws of `Kinds` could be a module of
   their own.
