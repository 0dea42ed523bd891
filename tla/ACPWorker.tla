------------------------------- MODULE ACPWorker -------------------------------
(***************************************************************************)
(* ACPWorker (src/kiro_api/acp/client.py): one kiro-cli subprocess, the    *)
(* pipes to and from it, its reader task, and the turns ShimService runs   *)
(* on it one after the other: session/new, perhaps a setting (set_model or *)
(* set_effort, which ignore an error), then the prompt and its events.     *)
(*                                                                         *)
(* A turn's session and its requests are named by the turn's number: the   *)
(* request ids are uuids and kiro-cli gives each session a new id.  An     *)
(* action runs a task from one await to the next.                          *)
(***************************************************************************)
EXTENDS Naturals, Sequences

CONSTANTS
  MaxTurn,     \* bound of the model: turns in the life of the worker
  MaxUpdate,   \* bound of the model: session updates per prompt
  InRoom,      \* messages unread on stdin above which drain() waits
  OutRoom      \* messages unread on stdout above which kiro-cli waits

ASSUME WorkerAssumption ==
  {MaxTurn, MaxUpdate, InRoom, OutRoom} \subseteq Nat /\ OutRoom > 0

VARIABLES
  turn,      \* the turn in progress, or the last one
  at,        \* what the turn is at: a request, the "cancel" of its prompt, "idle"
  phase,     \* and where: in the write "lock", in "drain", or in "wait"
  pending,   \* the keys of _pending
  reply,     \* the future of the call in progress: "none" or its outcome
  open,      \* the turns with a queue in _queues and _prompt_sessions
  events,    \* that of the turn in progress
  dead,      \* _dead
  eof,       \* the reader has seen the end of stdout
  draining,  \* who is in drain(), holding _write_lock: "turn", "other", "none"
  closers,   \* turns whose prompt_stream was left suspended at a yield and is
             \* closed later, by the event loop, in a task of its own
  replies,   \* tasks that are to answer a request of the agent
  stopped,   \* stop() was called: no reader, stdin closed
  proc,      \* outside: the subprocess is "up" or "gone"
  stdin, stdout,   \* the messages in the pipes
  asked,     \* outside: the requests it has read and not answered
  sent,      \* history: updates sent for the prompt in progress
  shown,     \* history: those that reached the consumer
  outcome,   \* history: how the last turn ended
  late,      \* history: the request in progress was registered after the end of stdout
  given_up,  \* history: calls cancelled or not sent
  expired    \* history: a request timed out on this worker: "no", "call", "prompt"

client == <<turn, at, phase, pending, reply, open, events, dead, late, given_up>>
agent  == <<proc, asked>>
others == <<closers, replies>>
vars == <<client, eof, draining, others, stopped, agent, stdin, stdout,
          sent, shown, outcome, expired>>

Kind    == {"new", "setting", "prompt"}
Turn    == 1..MaxTurn
Request == Turn \X Kind
Mine(k) == <<turn, k>>

StdinLine == [kind : {"request"}, id : Request] \cup [kind : {"cancel", "permission"}]
StdoutLine == [kind : {"answer"}, id : Request, ok : BOOLEAN]
                \cup [kind : {"update"}, of : Turn] \cup [kind : {"ask"}]

\* The types; a turn is inside the write lock exactly if it is said to drain,
\* and nothing is pending that was not requested.
AcpTypeOK ==
  /\ turn \in 0..MaxTurn /\ at \in Kind \cup {"idle", "cancel"}
  /\ phase \in {"none", "lock", "drain", "wait"} /\ (phase = "none" <=> at = "idle")
  /\ phase = "drain" <=> draining = "turn"
  /\ pending \subseteq Request /\ \A id \in pending : id[1] <= turn
  /\ reply \in {"none", "result", "error"}
  /\ open \subseteq Turn /\ events \in Seq({"update", "done", "error"})
  /\ dead \in BOOLEAN /\ eof \in BOOLEAN /\ stopped \in BOOLEAN
  /\ draining \in {"none", "turn", "other"}
  /\ closers \subseteq open /\ replies \in Nat
  /\ proc \in {"up", "gone"} /\ asked \subseteq Request
  /\ stdin \in Seq(StdinLine) /\ stdout \in Seq(StdoutLine)
  /\ sent \in 0..MaxUpdate /\ shown \in 0..MaxUpdate
  /\ outcome \in {"none", "done", "failed"}
  /\ late \in BOOLEAN /\ given_up \subseteq Request /\ expired \in {"no", "call", "prompt"}

Init ==
  /\ turn = 0 /\ at = "idle" /\ phase = "none"
  /\ pending = {} /\ reply = "none" /\ open = {} /\ events = <<>>
  /\ dead = FALSE /\ eof = FALSE /\ draining = "none" /\ closers = {} /\ replies = 0
  /\ stopped = FALSE /\ proc = "up"
  /\ stdin = <<>> /\ stdout = <<>> /\ asked = {}
  /\ sent = 0 /\ shown = 0 /\ outcome = "none"
  /\ late = FALSE /\ given_up = {} /\ expired = "no"

-------------------------------------------------------------------------------
\* The turn's side.

At(k, p)   == at' = k /\ phase' = p
End(how)   == At("idle", "none") /\ outcome' = how
Fits       == Len(stdin) <= InRoom
Calling    == at \in {"new", "setting"}

\* The line of the turn t is out: a cancelled prompt is then over.
Sent(k) == IF k = "cancel" THEN At("idle", "none") ELSE At(k, "wait")

LineOf(t, k) ==
  IF k = "cancel" THEN [kind |-> "cancel"] ELSE [kind |-> "request", id |-> <<t, k>>]

\* _write_line() for the line k of turn t: it waits for the lock, it finds stdin
\* closed, or it writes and drains, without waiting if the pipe takes the line.
Write(t, k) ==
  \/ draining # "none" /\ At(k, "lock") /\ UNCHANGED <<draining, stdin>>
  \/ draining = "none" /\ stopped /\ Sent(k) /\ UNCHANGED <<draining, stdin>>
  \/ /\ draining = "none" /\ ~stopped
     /\ stdin' = IF proc = "up" THEN Append(stdin, LineOf(t, k)) ELSE stdin
     /\ IF proc = "up" /\ Len(stdin') <= InRoom
        THEN Sent(k) /\ UNCHANGED draining
        ELSE At(k, "drain") /\ draining' = "turn"

\* _call() registers its future before it writes.
Call(t, k) ==
  /\ Write(t, k)
  /\ pending' = pending \cup {<<t, k>>} /\ reply' = "none" /\ late' = eof

\* prompt_stream() registers its queue before it writes.
Prompt ==
  /\ Write(turn, "prompt")
  /\ open' = open \cup {turn} /\ late' = eof

\* The service has leased the worker, which was alive(), and asks for a session.  A
\* worker that stop() is still waiting for is alive() too.
StartTurn ==
  /\ at = "idle" /\ turn < MaxTurn /\ ~dead
  /\ turn' = turn + 1 /\ Call(turn', "new")
  /\ outcome' = "none" /\ events' = <<>> /\ sent' = 0 /\ shown' = 0
  /\ UNCHANGED <<open, dead, given_up, eof, others, stopped, agent, stdout, expired>>

\* A waiting writer gets the lock.
TakeLock ==
  /\ phase = "lock" /\ draining = "none" /\ Write(turn, at)
  /\ open' = IF at' = "idle" THEN open \ {turn} ELSE open
  /\ UNCHANGED <<turn, pending, reply, events, dead, late, given_up, eof, others,
                 stopped, agent, stdout, sent, shown, outcome, expired>>

\* Mutant of Flushed: the write lock is not given up.
FlushedKeepsLock ==
  /\ phase = "drain" /\ (Fits \/ proc = "gone")
  /\ Sent(at)
  /\ open' = IF at' = "idle" THEN open \ {turn} ELSE open
  /\ UNCHANGED <<draining, turn, pending, reply, events, dead, late, given_up, eof, others,
                 stopped, agent, stdin, stdout, sent, shown, outcome, expired>>

\* drain() returns.
Flushed ==
  /\ phase = "drain" /\ (Fits \/ proc = "gone")
  /\ draining' = "none" /\ Sent(at)
  /\ open' = IF at' = "idle" THEN open \ {turn} ELSE open
  /\ UNCHANGED <<turn, pending, reply, events, dead, late, given_up, eof, others,
                 stopped, agent, stdin, stdout, sent, shown, outcome, expired>>

\* Mutant of Unsent: the write lock is not given up.
UnsentKeepsLock ==
  /\ phase = "drain" /\ proc = "gone"
  /\ open' = open \ {turn}
  /\ given_up' = IF Calling THEN given_up \cup {Mine(at)} ELSE given_up
  /\ End("failed")
  /\ UNCHANGED <<draining, turn, pending, reply, events, dead, late, eof, others, stopped,
                 agent, stdin, stdout, sent, shown, expired>>

\* drain() raises because the process is gone.  Only cancel ignores it.
Unsent ==
  /\ phase = "drain" /\ proc = "gone"
  /\ draining' = "none" /\ open' = open \ {turn}
  /\ given_up' = IF Calling THEN given_up \cup {Mine(at)} ELSE given_up
  /\ End("failed")
  /\ UNCHANGED <<turn, pending, reply, events, dead, late, eof, others, stopped,
                 agent, stdin, stdout, sent, shown, expired>>

\* The call in progress has its answer: an error ends the turn, but a setting's
\* error is ignored.
Resume ==
  /\ Calling /\ phase = "wait" /\ reply # "none"
  /\ \/ at = "new" /\ reply = "error" /\ End("failed")
        /\ UNCHANGED <<pending, reply, open, late, draining, stdin>>
     \/ at = "new" /\ reply = "result" /\ Call(turn, "setting") /\ UNCHANGED <<open, outcome>>
     \/ at = "new" /\ reply = "result" /\ Prompt /\ UNCHANGED <<pending, reply, outcome>>
     \/ at = "setting" /\ Prompt /\ UNCHANGED <<pending, reply, outcome>>
  /\ UNCHANGED <<turn, events, dead, given_up, eof, others, stopped, agent, stdout,
                 sent, shown, expired>>

\* Mutant of CallTimeout: the future stays registered.
CallTimeoutKeepsPending ==
  /\ Calling /\ phase = "wait"
  /\ expired' = "call"
  /\ \/ at = "new" /\ End("failed") /\ UNCHANGED <<open, late, draining, stdin>>
     \/ at = "setting" /\ Prompt /\ UNCHANGED outcome
  /\ UNCHANGED <<turn, pending, reply, events, dead, given_up, eof, others, stopped, agent,
                 stdout, sent, shown>>

\* The call in progress has waited for its timeout.
CallTimeout ==
  /\ Calling /\ phase = "wait"
  /\ pending' = pending \ {Mine(at)} /\ expired' = "call"
  /\ \/ at = "new" /\ End("failed") /\ UNCHANGED <<open, late, draining, stdin>>
     \/ at = "setting" /\ Prompt /\ UNCHANGED outcome
  /\ UNCHANGED <<turn, reply, events, dead, given_up, eof, others, stopped, agent,
                 stdout, sent, shown>>

\* The next event reaches the consumer.  The service leaves at an error; at the
\* end it reads on, unless its own consumer has left.
Yield ==
  /\ at = "prompt" /\ phase = "wait" /\ events # <<>>
  /\ events' = Tail(events)
  /\ \/ /\ Head(events) = "update" /\ shown' = shown + 1
        /\ UNCHANGED <<at, phase, outcome, open, closers>>
     \/ /\ Head(events) = "done" /\ End("done")
        /\ \/ open' = open \ {turn} /\ UNCHANGED closers
           \/ closers' = closers \cup {turn} /\ UNCHANGED open
        /\ UNCHANGED shown
     \/ /\ Head(events) = "error" /\ End("failed")
        /\ closers' = closers \cup {turn} /\ UNCHANGED <<open, shown>>
  /\ UNCHANGED <<turn, pending, reply, dead, late, given_up, eof, draining, replies,
                 stopped, agent, stdin, stdout, sent, expired>>

\* Mutant of PromptTimeout: the worker is not marked dead.
PromptTimeoutKeepsAlive ==
  /\ at = "prompt" /\ phase = "wait"
  /\ expired' = "prompt" /\ End("failed")
  /\ closers' = closers \cup {turn}
  /\ UNCHANGED <<turn, dead, pending, reply, open, events, late, given_up, eof, draining,
                 replies, stopped, agent, stdin, stdout, sent, shown>>

\* The idle or the hard timeout: the error event makes the service leave.
PromptTimeout ==
  /\ at = "prompt" /\ phase = "wait"
  /\ dead' = TRUE /\ expired' = "prompt" /\ End("failed")
  /\ closers' = closers \cup {turn}
  /\ UNCHANGED <<turn, pending, reply, open, events, late, given_up, eof, draining,
                 replies, stopped, agent, stdin, stdout, sent, shown>>

\* The client leaves: the turn is cancelled where it waits.  A prompt that was
\* sent is cancelled at kiro-cli too, by the turn itself or, if prompt_stream is
\* suspended at a yield, by whoever closes it.
Abandon ==
  /\ at \notin {"idle", "cancel"}
  /\ \/ /\ Calling \/ phase # "wait"
        /\ given_up' = IF Calling THEN given_up \cup {Mine(at)} ELSE given_up
        /\ draining' = IF phase = "drain" THEN "none" ELSE draining
        /\ open' = open \ {turn} /\ End("failed") /\ UNCHANGED <<closers, stdin>>
     \/ /\ at = "prompt" /\ phase = "wait" /\ Write(turn, "cancel")
        /\ open' = IF at' = "idle" THEN open \ {turn} ELSE open
        /\ outcome' = "failed" /\ UNCHANGED <<closers, given_up>>
     \/ /\ at = "prompt" /\ phase = "wait" /\ End("failed")
        /\ closers' = closers \cup {turn} /\ UNCHANGED <<given_up, draining, open, stdin>>
  /\ UNCHANGED <<turn, pending, reply, events, dead, late, eof, replies, stopped, agent,
                 stdout, sent, shown, expired>>

-------------------------------------------------------------------------------
\* Other tasks of the client.

\* Another task writes a line, unless stdin is closed.
OtherWrites(line) ==
  /\ draining = "none"
  /\ stdin' = IF proc = "up" /\ ~stopped THEN Append(stdin, line) ELSE stdin
  /\ draining' = IF stopped \/ (proc = "up" /\ Len(stdin') <= InRoom) THEN "none" ELSE "other"
  /\ UNCHANGED <<turn, at, phase, pending, reply, events, dead, late, given_up, eof,
                 stopped, agent, stdout, sent, shown, outcome, expired>>

\* A prompt_stream left at a yield is closed: it cancels and unregisters its own
\* session, whatever turn the worker serves by then.
Close(t) ==
  /\ t \in closers
  /\ closers' = closers \ {t} /\ open' = open \ {t} /\ UNCHANGED replies
  /\ OtherWrites([kind |-> "cancel"])

\* _handle_agent_request() answers a permission request.
Respond ==
  /\ replies > 0
  /\ replies' = replies - 1 /\ UNCHANGED <<closers, open>>
  /\ OtherWrites([kind |-> "permission"])

\* The other task's drain() returns or raises.
OtherFlushed ==
  /\ draining = "other" /\ (Fits \/ proc = "gone")
  /\ draining' = "none"
  /\ UNCHANGED <<client, eof, others, stopped, agent, stdin, stdout, sent, shown,
                 outcome, expired>>

\* Mutant of Listens: the queue is there only once the prompt is written.
ListensOnceSent(t) == t = turn /\ at = "prompt" /\ turn \in open /\ phase = "wait"

\* Turn t has a queue that somebody will read.
Listens(t) == t = turn /\ at = "prompt" /\ turn \in open

\* _dispatch() of an answer: a call's future, else the queue of its prompt.
\* An answer nobody waits for any more has no effect.
Answered(id, ok) ==
  /\ pending' = pending \ {id}
  /\ reply' = IF id \in pending \ given_up THEN IF ok THEN "result" ELSE "error" ELSE reply
  /\ events' = IF id \notin pending /\ id[2] = "prompt" /\ Listens(id[1])
               THEN Append(events, IF ok THEN "done" ELSE "error") ELSE events

\* The reader takes the next line off stdout.
Dispatch ==
  /\ stdout # <<>> /\ ~stopped
  /\ stdout' = Tail(stdout)
  /\ LET line == Head(stdout) IN
       \/ /\ line.kind = "answer" /\ Answered(line.id, line.ok) /\ UNCHANGED replies
       \/ /\ line.kind = "update"
          /\ events' = IF Listens(line.of) THEN Append(events, "update") ELSE events
          /\ UNCHANGED <<pending, reply, replies>>
       \/ /\ line.kind = "ask" /\ replies' = replies + 1
          /\ UNCHANGED <<pending, reply, events>>
  /\ UNCHANGED <<turn, at, phase, open, dead, late, given_up, eof, draining, closers,
                 stopped, agent, stdin, sent, shown, outcome, expired>>

\* Mutant of Eof: only the calls fail.
EofFailsCallsOnly ==
  /\ proc = "gone" /\ stdout = <<>> /\ ~eof /\ ~stopped
  /\ eof' = TRUE /\ dead' = TRUE
  /\ reply' = IF pending \ given_up # {} THEN "error" ELSE reply
  /\ pending' = {}
  /\ UNCHANGED <<turn, at, phase, open, events, late, given_up, draining, others, stopped,
                 agent, stdin, stdout, sent, shown, outcome, expired>>

\* The end of stdout: _fail_all() fails every call and every queue it finds.
Eof ==
  /\ proc = "gone" /\ stdout = <<>> /\ ~eof /\ ~stopped
  /\ eof' = TRUE /\ dead' = TRUE
  /\ reply' = IF pending \ given_up # {} THEN "error" ELSE reply
  /\ pending' = {}
  /\ events' = IF Listens(turn) THEN Append(events, "error") ELSE events
  /\ UNCHANGED <<turn, at, phase, open, late, given_up, draining, others, stopped,
                 agent, stdin, stdout, sent, shown, outcome, expired>>

\* stop(): the pool retires the worker, or closes during a turn.  What is left
\* on stdout is never read.
Stop ==
  /\ ~stopped /\ stopped' = TRUE
  /\ proc' = "gone" /\ asked' = {} /\ stdin' = <<>> /\ stdout' = <<>>
  /\ UNCHANGED <<client, eof, draining, others, sent, shown, outcome, expired>>

-------------------------------------------------------------------------------
\* Outside: kiro-cli reads its stdin in order, answers what it has read in any
\* order or never, sends updates while a prompt is unanswered, and may exit.
AgentReads ==
  /\ proc = "up" /\ stdin # <<>>
  /\ stdin' = Tail(stdin)
  /\ asked' = IF Head(stdin).kind = "request" THEN asked \cup {Head(stdin).id} ELSE asked
  /\ UNCHANGED <<client, eof, draining, others, stopped, proc, stdout, sent,
                 shown, outcome, expired>>

AgentSends(line) ==
  /\ proc = "up" /\ Len(stdout) < OutRoom
  /\ stdout' = Append(stdout, line)
  /\ UNCHANGED <<client, eof, draining, others, stopped, proc, stdin, shown,
                 outcome, expired>>

AgentAnswers ==
  \E id \in asked, ok \in BOOLEAN :
    /\ asked' = asked \ {id} /\ UNCHANGED sent
    /\ AgentSends([kind |-> "answer", id |-> id, ok |-> ok])

AgentUpdates ==
  \E t \in Turn :
    /\ <<t, "prompt">> \in asked /\ UNCHANGED asked
    /\ t = turn => sent < MaxUpdate
    /\ sent' = IF t = turn THEN sent + 1 ELSE sent
    /\ AgentSends([kind |-> "update", of |-> t])

AgentAsks ==
  /\ Mine("prompt") \in asked /\ replies = 0 /\ UNCHANGED <<asked, sent>>
  /\ \A i \in DOMAIN stdout : stdout[i].kind # "ask"
  /\ AgentSends([kind |-> "ask"])

AgentExits ==
  /\ proc = "up" /\ proc' = "gone" /\ asked' = {} /\ stdin' = <<>>
  /\ UNCHANGED <<client, eof, draining, others, stopped, stdout, sent, shown,
                 outcome, expired>>

-------------------------------------------------------------------------------
TurnStep == TakeLock \/ Flushed \/ Unsent \/ Resume \/ CallTimeout \/ Yield \/ PromptTimeout

Next ==
  \/ StartTurn \/ TurnStep \/ Abandon \/ Stop
  \/ (\E t \in Turn : Close(t)) \/ Respond \/ OtherFlushed \/ Dispatch \/ Eof
  \/ AgentReads \/ AgentAnswers \/ AgentUpdates \/ AgentAsks \/ AgentExits

Spec == Init /\ [][Next]_vars

\* Tasks that can run do, and timeouts expire.  asyncio.Lock serves its waiters
\* in order, so one that waits for the lock gets it.  kiro-cli reads
\* its stdin: drain() is the one wait without a timeout.
Fairness ==
  /\ WF_vars(TurnStep) /\ SF_vars(TakeLock)
  /\ WF_vars(\E t \in Turn : Close(t)) /\ WF_vars(Respond) /\ WF_vars(OtherFlushed)
  /\ WF_vars(Dispatch) /\ WF_vars(Eof) /\ WF_vars(AgentReads)

FairSpec == Spec /\ Fairness

-------------------------------------------------------------------------------
\* A turn that ends normally has shown its consumer every update kiro-cli sent
\* for it: none falls between the registration of the queue, the write of the
\* prompt and the answer, or behind the end.
DoneComplete == outcome = "done" => shown = sent

\* "marked dead immediately": from the end of stdout on no request that was
\* registered before waits for its timeout.
FailFast ==
  eof /\ phase = "wait" /\ ~late =>
    IF at = "prompt" THEN \E i \in DOMAIN events : events[i] \in {"done", "error"}
                     ELSE reply # "none"

\* _pending holds the call in progress and calls that were cancelled or could not
\* be sent, never one that was answered or timed out.
NoStalePending ==
  pending \subseteq given_up \cup (IF Calling THEN {Mine(at)} ELSE {})

\* A worker whose prompt timed out serves no further turn.
UnusedAfterTimeout == [][expired = "prompt" => turn' = turn]_vars

\* "Nothing hangs forever": a turn ends, whatever kiro-cli answers, sends or
\* leaves out, and when it exits, as long as it reads its stdin.
TurnEnds == at # "idle" ~> at = "idle"

\* "A worker that ... times out is marked dead immediately ... and replaced": no
\* further turn after any timeout.
ReplacedAfterTimeout == [][expired # "no" => turn' = turn]_vars
===============================================================================
