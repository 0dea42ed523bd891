------------------------------ MODULE RequestPath ------------------------------
(***************************************************************************)
(* The way of a request through the service: the route's answer            *)
(* (routes/*.py, streaming.py) on one side, the turn (ShimService in       *)
(* service.py) on the other, and between them the pump task and the queue  *)
(* of _with_keepalive.  Workers are leased from the pool as Leasing        *)
(* promises; what a worker says is up to the worker.  A step is what a     *)
(* task does between two awaits that suspend.  The keepalive interval is   *)
(* positive: with 0 there is no pump and the two sides alternate.          *)
(***************************************************************************)
EXTENDS Naturals, Sequences, FiniteSets, SequencesExt

CONSTANTS
  Request,     \* requests, each made once
  Worker, NoWorker,
  Limit,       \* config.max_workers
  Styles,      \* request -> the kinds of answer it may ask for
  KiroSays,    \* categories that kiro-cli's own error texts fall into
  MaxEvent     \* bound of the model: request -> the updates its worker may send

\* Three streams and the answer in one piece.
AllStyles == {"openai", "anthropic", "acp", "whole"}
Category  == {"rate_limit", "overloaded", "timeout", "auth", "upstream"}

\* An exception that ends a turn: an ApiError with its category, or any other, which
\* no except clause of an answer takes.
Failure == Category \cup {"broken"}

ASSUME PathAssumption ==
  /\ IsFiniteSet(Request) /\ NoWorker \notin Worker /\ Limit \in Nat
  /\ Styles \in [Request -> SUBSET AllStyles] /\ KiroSays \subseteq Category
  /\ MaxEvent \in [Request -> Nat]

VARIABLES
  style,     \* what the request asks for
  cons,      \* where the task of the answer is, see AnswerStates
  out,       \* the frames the client has been sent, keepalives left out
  open,      \* text_block_open of anthropic_sse
  turn,      \* where run_stream is, see TurnStates
  made,      \* history: the events the worker produced
  fate,      \* how the turn ends: "none" yet, "ok", "cancelled" or a failure
  silent,    \* history: requests whose worker exceeded the idle timeout
  queue,     \* the queue between the pump and the answer
  holders, lent, lost,    \* the pool, see Leasing
  closed,    \* pool._closed
  requests, errors        \* the counters of Metrics

Pool == INSTANCE Leasing WITH Client <- Request

answer == <<style, cons, out, open>>
turnVars == <<turn, made, fate, silent>>
pool == <<holders, lent, lost>>
counters == <<requests, errors>>
vars == <<answer, turnVars, queue, pool, closed, counters>>

AnswerStates ==
  { "off",      \* not asked yet
    "next",     \* waits for the queue, or for the keepalive's timeout
    "send",     \* suspended at a yield while a frame is sent
    "closing",  \* has cancelled the turn's task
    "joining",  \* which has been told
    "gone",     \* the client left and everything is cleaned up
    "done" }    \* the last frame was handed over, or the answer broke off

TurnStates ==
  { "none",     \* no task for it yet
    "ready",    \* its task was created
    "lease",    \* inside pool.lease(): queued, or spawning once it has a permit
    "call",     \* session/new, session/set_model, /effort
    "prompt",   \* waits for the worker's next event
    "retire",   \* leaves the lease, whose worker is being stopped
    "over" }

Event == {"text", "aside", "done"} \X Nat
Item  == Event \cup ({"error", "end"} \X {0})
Frame == {"head", "start", "text", "aside", "stop", "finish", "error", "end"} \X Nat

PathTypeOK ==
  /\ style \in [Request -> AllStyles] /\ cons \in [Request -> AnswerStates]
  /\ out \in [Request -> Seq(Frame)] /\ open \in [Request -> BOOLEAN]
  /\ turn \in [Request -> TurnStates] /\ made \in [Request -> Seq(Event)]
  /\ fate \in [Request -> {"none", "ok", "cancelled"} \cup Failure]
  /\ silent \in SUBSET Request /\ queue \in [Request -> Seq(Item)]
  /\ holders \in SUBSET Request /\ lost \in Nat
  /\ lent \in [Request -> Worker \cup {NoWorker}]
  /\ closed \in BOOLEAN /\ requests \in Nat /\ errors \in Nat

Init ==
  /\ style \in {f \in [Request -> AllStyles] : \A r \in Request : f[r] \in Styles[r]}
  /\ cons = [r \in Request |-> "off"]
  /\ out = [r \in Request |-> <<>>] /\ open = [r \in Request |-> FALSE]
  /\ turn = [r \in Request |-> "none"] /\ made = [r \in Request |-> <<>>]
  /\ fate = [r \in Request |-> "none"] /\ silent = {}
  /\ queue = [r \in Request |-> <<>>]
  /\ Pool!LeasingInit
  /\ closed = FALSE /\ requests = 0 /\ errors = 0

-------------------------------------------------------------------------------
\* The turn: run_stream, driven by the pump or by the route itself.

Turn(r, state) == turn' = [turn EXCEPT ![r] = state]

\* The queue gets the event of this step, if it has one, and then "rest".
Put(r, rest) ==
  queue' = [queue EXCEPT ![r] = @ \o SubSeq(made'[r], Len(made[r]) + 1, Len(made'[r])) \o rest]

End   == <<"end", 0>>
Error == <<"error", 0>>

\* Mutant of Over: the pump has no finally.
OverUnmarked(r, how) ==
  /\ Turn(r, "over") /\ fate' = [fate EXCEPT ![r] = how]
  /\ Put(r, IF how \in Failure THEN <<Error>> ELSE <<>>)

\* run_stream returned or raised; the pump passes that on and ends.
Over(r, how) ==
  /\ Turn(r, "over") /\ fate' = [fate EXCEPT ![r] = how]
  /\ Put(r, IF how \in Failure THEN <<Error, End>> ELSE <<End>>)

\* Mutant of Settled: counted where it is raised and again where it is caught.
SettledTwice(r, how) ==
  Over(r, how) /\ errors' = errors + (IF how \in Category THEN 2 ELSE 0) /\ UNCHANGED requests

\* The end of a turn inside run_stream's try block: an exception is given a category
\* and counted.
Settled(r, how) ==
  Over(r, how) /\ errors' = errors + (IF how \in Category THEN 1 ELSE 0) /\ UNCHANGED requests

\* The gate, which asks the auth manager for its state of the moment, then the prompt
\* blocks, then the first part of lease().  A refusal by the gate is no turn.  Messages
\* of another shape than the code expects are an exception outside the try block: for
\* run() already when it counts their tokens, else when the blocks are built.
Begin(r) ==
  /\ turn[r] = "ready" /\ cons[r] # "closing" /\ UNCHANGED made
  /\ \/ Over(r, "auth") /\ UNCHANGED counters
     \/ style[r] = "whole" /\ Over(r, "broken") /\ UNCHANGED counters
     \/ /\ requests' = requests + 1
        /\ \/ Over(r, "broken") /\ UNCHANGED errors
           \/ closed /\ Over(r, "overloaded") /\ errors' = errors + 1
           \/ ~closed /\ Turn(r, "lease") /\ UNCHANGED <<fate, queue, errors>>
  /\ UNCHANGED <<answer, silent, pool, closed>>

\* The turn's task is in this state and has not been told to stop.
In(r, state) == turn[r] = state /\ cons[r] # "closing"

\* A permit, and an idle worker if there is one.
Admitted(r) ==
  /\ In(r, "lease") /\ Pool!Admit(r)
  /\ Turn(r, IF lent'[r] = NoWorker THEN "lease" ELSE "call")
  /\ UNCHANGED <<answer, made, fate, silent, queue, closed, counters>>

Spawned(r) ==
  /\ In(r, "lease") /\ \E w \in Worker : Pool!Lend(r, w)
  /\ Turn(r, "call")
  /\ UNCHANGED <<answer, made, fate, silent, queue, closed, counters>>

\* from_message: the category that the patterns find in a text of kiro-cli.
FromMessage == KiroSays \cup {"upstream"}

\* Of a call that fails, "initialize" included: a text of kiro-cli, or "timed out".
CallSays == FromMessage \cup {"timeout"}

\* No permit in time or no room in the queue; or the spawn fails and keeps the permit.
NoLease(r) ==
  /\ In(r, "lease") /\ UNCHANGED <<answer, made, silent, closed>>
  /\ \/ r \notin holders /\ Settled(r, "overloaded") /\ UNCHANGED pool
     \/ Pool!Lose(r) /\ \E c \in CallSays : Settled(r, c)

\* The async with ends because of "how", and the worker is stopped first: it is dead,
\* or the pool closed.
RetireAs(r, how) ==
  /\ Pool!TakeBack(r) /\ Turn(r, "retire") /\ fate' = [fate EXCEPT ![r] = how]
  /\ Put(r, <<>>) /\ UNCHANGED counters

\* It ends like that, or the worker goes back to the others.
LeaveAs(r, how) == RetireAs(r, how) \/ (~closed /\ Pool!Return(r) /\ Settled(r, how))

\* A call raises: kiro-cli refuses it, times out, or exits.
CallFailed(r) ==
  /\ In(r, "call") /\ UNCHANGED <<answer, made, silent, closed>>
  /\ \E c \in CallSays : LeaveAs(r, c)

Called(r) ==
  /\ In(r, "call") /\ Turn(r, "prompt")
  /\ UNCHANGED <<answer, made, fate, silent, queue, pool, closed, counters>>

\* The worker's next event, numbered.
Says(r, kind) == made' = [made EXCEPT ![r] = Append(@, <<kind, Len(@) + 1>>)]

Emit(r) ==
  /\ In(r, "prompt") /\ Len(made[r]) < MaxEvent[r]
  /\ \E kind \in {"text", "aside"} : Says(r, kind)
  /\ Put(r, <<>>)
  /\ UNCHANGED <<answer, turn, fate, silent, pool, closed, counters>>

Done(r) ==
  /\ In(r, "prompt") /\ Says(r, "done") /\ LeaveAs(r, "ok")
  /\ UNCHANGED <<answer, silent, closed>>

\* An error event of kiro-cli, the hard timeout of the turn, or the idle timeout; both
\* kill the worker.  The text decides the category, and the idle timeout's says none.
ErrorEvent(r) ==
  /\ In(r, "prompt") /\ UNCHANGED <<answer, made, closed>>
  /\ \/ \E c \in FromMessage : LeaveAs(r, c) /\ UNCHANGED silent
     \/ RetireAs(r, "timeout") /\ UNCHANGED silent
     \/ silent' = silent \cup {r} /\ RetireAs(r, "upstream")

\* The worker has been stopped: the permit is released and the with block left.
Retired(r) ==
  /\ turn[r] = "retire" /\ cons[r] # "closing" /\ Pool!Return(r) /\ UNCHANGED made
  /\ Settled(r, fate[r])
  /\ UNCHANGED <<answer, silent, closed>>

Answers(r, state) == cons' = [cons EXCEPT ![r] = state]

\* The cancellation reaches the turn, wherever it waits.  CancelledError is no
\* Exception: nothing is counted.  While the worker is being stopped it is lost with
\* the permit, or swallowed by worker.stop().
CancelTurn(r) ==
  /\ cons[r] = "closing" /\ turn[r] # "over" /\ UNCHANGED made
  /\ Answers(r, "joining")
  /\ \/ turn[r] = "ready" /\ Over(r, "cancelled") /\ UNCHANGED <<pool, counters>>
     \/ /\ turn[r] = "lease" /\ Settled(r, "cancelled")
        /\ IF r \in holders THEN Pool!Lose(r) ELSE UNCHANGED pool
     \/ turn[r] \in {"call", "prompt"} /\ LeaveAs(r, "cancelled")
     \/ /\ turn[r] = "retire"
        /\ \/ Pool!Lose(r) /\ Settled(r, "cancelled")
           \/ UNCHANGED <<turn, fate, queue, pool, counters>>
  /\ UNCHANGED <<style, out, open, silent, closed>>

-------------------------------------------------------------------------------
\* The answer: the generators of streaming.py and routes/acp.py, and run() for an
\* answer in one piece.

\* openai_sse and anthropic_sse send a first frame before they ask for events.
Asks(r, kind, hasHead) ==
  /\ cons[r] = "off" /\ style[r] = kind
  /\ IF hasHead
     THEN Answers(r, "send") /\ out' = [out EXCEPT ![r] = <<<<"head", 0>>>>] /\ UNCHANGED turn
     ELSE Answers(r, "next") /\ Turn(r, "ready") /\ UNCHANGED out
  /\ UNCHANGED <<style, open, made, fate, silent, queue, pool, closed, counters>>

\* The routes, without what they read from the body and the headers.
ChatCompletions(r) == Asks(r, "openai", TRUE) \/ Asks(r, "whole", FALSE)
Responses(r)       == Asks(r, "whole", FALSE)
Messages(r)        == Asks(r, "anthropic", TRUE) \/ Asks(r, "whole", FALSE)
AcpChat(r)         == Asks(r, "whole", FALSE)
AcpChatStream(r)   == Asks(r, "acp", FALSE)

Arrive(r) ==
  ChatCompletions(r) \/ Responses(r) \/ Messages(r) \/ AcpChat(r) \/ AcpChatStream(r)

\* The frame is with the client; after the first one the pump's task is created.
SendDone(r) ==
  /\ cons[r] = "send" /\ Answers(r, "next")
  /\ Turn(r, IF turn[r] = "none" THEN "ready" ELSE turn[r])
  /\ UNCHANGED <<style, out, open, made, fate, silent, queue, pool, closed, counters>>

\* Mutant of Ping: the timeout drops the event that arrived with it.
PingDrops(r) ==
  /\ cons[r] = "next" /\ style[r] # "whole" /\ Answers(r, "send")
  /\ queue' = [queue EXCEPT ![r] = IF @ = <<>> THEN @ ELSE Tail(@)]
  /\ UNCHANGED <<style, out, open, turnVars, pool, closed, counters>>

\* Nothing for the keepalive interval: a comment or a ping is sent.
Ping(r) ==
  /\ cons[r] = "next" /\ queue[r] = <<>> /\ style[r] # "whole" /\ Answers(r, "send")
  /\ UNCHANGED <<style, out, open, turnVars, queue, pool, closed, counters>>

Finish == <<"finish", 0>>

\* What is of these kinds in s, in its order.
Kinds(s, kinds) ==
  LET kept[n \in 0 .. Len(s)] ==
        IF n = 0 THEN <<>>
        ELSE IF s[n][1] \in kinds THEN Append(kept[n - 1], s[n]) ELSE kept[n - 1]
  IN kept[Len(s)]

\* Mutant of Plain: the done event is sent as any other.
PlainForwards(item) == IF item = Error THEN <<Error, End>> ELSE <<item>>

\* The frames of openai_sse, with config.surface_thinking, and of gen() in acp.py.
Plain(item) ==
  CASE item[1] = "done"  -> <<Finish>>
    [] item[1] = "error" -> <<Error, End>>
    [] OTHER             -> <<item>>

\* Mutant of Anthropic: the block stays open when the turn is done.
AnthropicUnstopped(item, isOpen) ==
  CASE item[1] = "text"  -> (IF isOpen THEN <<>> ELSE <<<<"start", 0>>>>) \o <<item>>
    [] item[1] = "done"  -> <<Finish>>
    [] item[1] = "error" -> <<Error>>
    [] OTHER             -> <<>>

Anthropic(item, isOpen) ==
  CASE item[1] = "text"  -> (IF isOpen THEN <<>> ELSE <<<<"start", 0>>>>) \o <<item>>
    [] item[1] = "done"  -> (IF isOpen THEN <<<<"stop", 0>>>> ELSE <<>>) \o <<Finish>>
    [] item[1] = "error" -> <<Error>>
    [] OTHER             -> <<>>

\* The exception that comes out of the queue is no ApiError.
Raised(r, item) == item = Error /\ fate[r] = "broken"

\* The next item of the queue becomes frames, one after the other.  An error, or the
\* end of the queue, ends the answer; an exception that nobody takes breaks it off.
Take(r) ==
  /\ cons[r] = "next" /\ style[r] # "whole" /\ queue[r] # <<>>
  /\ LET item   == Head(queue[r])
         frames == IF Raised(r, item) THEN <<>>
                   ELSE IF style[r] = "anthropic" THEN Anthropic(item, open[r])
                   ELSE Plain(item)
     IN /\ queue' = [queue EXCEPT ![r] = Tail(@)]
        /\ out' = [out EXCEPT ![r] = @ \o frames]
        /\ open' = [open EXCEPT ![r] = @ \/ (style[r] = "anthropic" /\ item[1] = "text")]
        /\ Answers(r, IF item[1] \in {"error", "end"} THEN "done"
                      ELSE IF frames = <<>> THEN "next" ELSE "send")
  /\ UNCHANGED <<style, turnVars, pool, closed, counters>>

\* run() and acp_chat: the collected events, or an error with its status, or, for an
\* exception that nobody takes, the framework's own "Internal Server Error".
Collect(r) ==
  /\ cons[r] = "next" /\ style[r] = "whole" /\ turn[r] = "over"
  /\ out' = [out EXCEPT ![r] =
       IF fate[r] = "broken" THEN <<>>
       ELSE IF fate[r] \in Category THEN <<Error>>
       ELSE Append(Kinds(made[r], {"text", "aside"}), Finish)]
  /\ queue' = [queue EXCEPT ![r] = <<>>] /\ Answers(r, "done")
  /\ UNCHANGED <<style, open, turnVars, pool, closed, counters>>

\* Mutant of Leave: the generator has no finally, and its pump runs on.
LeaveUnjoined(r) ==
  /\ cons[r] \in {"next", "send"} /\ Answers(r, "gone")
  /\ UNCHANGED <<style, out, open, turnVars, queue, pool, closed, counters>>

\* The client disconnects, or the server gives up its graceful shutdown.  The finally
\* of _with_keepalive cancels the turn; an answer in one piece is its own turn, and
\* has nothing to wait for once that is over.
Leave(r) ==
  /\ cons[r] \in {"next", "send"} /\ ~(style[r] = "whole" /\ turn[r] = "over")
  /\ Answers(r, IF turn[r] = "none" THEN "gone" ELSE "closing")
  /\ UNCHANGED <<style, out, open, turnVars, queue, pool, closed, counters>>

\* "await task" in the same finally.
Joined(r) ==
  /\ cons[r] \in {"closing", "joining"} /\ turn[r] = "over" /\ Answers(r, "gone")
  /\ UNCHANGED <<style, out, open, turnVars, queue, pool, closed, counters>>

-------------------------------------------------------------------------------
\* pool.stop(), at the end of the service.
Shutdown ==
  /\ ~closed /\ closed' = TRUE
  /\ UNCHANGED <<answer, turnVars, queue, pool, counters>>

TurnStep(r) ==
  \/ Begin(r) \/ Admitted(r) \/ Spawned(r) \/ NoLease(r) \/ CallFailed(r) \/ Called(r)
  \/ Emit(r) \/ Done(r) \/ ErrorEvent(r) \/ Retired(r) \/ CancelTurn(r)

AnswerStep(r) == Take(r) \/ Collect(r) \/ Joined(r)

Next ==
  \/ \E r \in Request :
       TurnStep(r) \/ AnswerStep(r) \/ Arrive(r) \/ SendDone(r) \/ Ping(r) \/ Leave(r)
  \/ Shutdown

Spec == Init /\ [][Next]_vars

\* Tasks that can run are run, and a client reads what it is sent, or leaves.  A turn
\* waits for a permit, for an answer or for the next event no longer than its timeouts
\* (lease, call, idle, hard).  Its writes have none: neither the worker's write lock nor
\* drain() behind it, so the fairness of TurnStep assumes that kiro-cli reads its stdin.
Fairness ==
  \A r \in Request :
    /\ WF_vars(TurnStep(r)) /\ WF_vars(AnswerStep(r)) /\ WF_vars(SendDone(r) \/ Leave(r))

FairSpec == Spec /\ Fairness

-------------------------------------------------------------------------------
\* Properties

Count(s, kind)  == Len(Kinds(s, {kind}))

\* What an answer shows of the events: an Anthropic stream has only the text.
Shown(r) == IF style[r] = "anthropic" THEN {"text"} ELSE {"text", "aside"}

\* The client gets the worker's output in order, nothing lost in the race of the
\* keepalive with an event and nothing twice; an answer that finishes is complete.
InOrder ==
  \A r \in Request :
    LET sent == Kinds(out[r], {"text", "aside"})
        all  == Kinds(made[r], Shown(r))
    IN /\ IsPrefix(sent, all)
       /\ Count(out[r], "finish") > 0 => sent = all

\* The frames of an answer are a stream of its protocol: one finish or one error, with
\* nothing but [DONE] after it.  [DONE] ends the openai and acp streams; Anthropic's have
\* none, also behind an error.  Anthropic's text lies in one block, which is closed
\* before the finish, and only then: a turn that fails midway leaves it open.  An answer
\* that breaks off has none of all that.
WellFormed ==
  \A r \in Request :
    LET s       == out[r]
        closing == Kinds(s, {"finish", "error", "end"})
        hasEnd  == style[r] \in {"openai", "acp"}
    IN /\ IsSuffix(closing, s)
       /\ Count(s, "finish") + Count(s, "error") <= 1 /\ Count(s, "end") <= 1
       /\ closing # <<>> => closing[1] # End
       /\ cons[r] = "done" => IF fate[r] = "broken" THEN closing = <<>>
                              ELSE closing # <<>> /\ (Last(s) = End) = hasEnd
       /\ style[r] = "anthropic" =>
            /\ \A i \in DOMAIN s : s[i][1] = "text" => \E j \in 1 .. (i - 1) : s[j][1] = "start"
            /\ Count(s, "start") <= 1
            /\ Count(s, "stop") = IF Count(s, "finish") > 0 THEN Count(s, "start") ELSE 0

\* However an answer ends, its turn has ended before: no worker is lent, no permit is
\* held and no pump runs for a client that is gone.
StreamEndsTurn ==
  \A r \in Request :
    cons[r] \in {"done", "gone"} =>
      turn[r] \in {"none", "over"} /\ r \notin holders /\ lent[r] = NoWorker

Saw(kind) == {r \in Request : Count(out[r], kind) > 0}

\* A stream that was broken off behind the gate: a request, and a failed turn.
BrokenOff == {r \in Request : style[r] # "whole" /\ fate[r] = "broken"}

\* /metrics counts what clients see: an error that a client is sent, but for the refusals
\* of the gate, is in errors_total, and once: the requests that finished are not in it,
\* nor are the streams that broke off, which are requests without an error.
MetricsHonest ==
  /\ Cardinality({r \in Saw("error") : fate[r] # "auth"}) <= errors
  /\ errors + Cardinality(Saw("finish") \cup BrokenOff) <= requests

\* A client that waits for its answer and stays gets one, whatever the worker does.
Answered == \A r \in Request : (cons[r] = "next") ~> (cons[r] \in {"done", "gone"})

\* docs/ARCHITECTURE.md: "A silent or wedged worker produces a clean timeout error".
\* run_stream reads the category of an error event off its text again.
SilentIsTimeout ==
  \A r \in silent : r \in Saw("error") => fate[r] = "timeout"

\* docs/CONFIGURATION.md: "In streaming responses the error is delivered as a terminal
\* error event followed by [DONE]".  A stream takes an ApiError only, and Anthropic's
\* sends no [DONE].
ErrorsDelivered ==
  \A r \in Request :
    cons[r] = "done" /\ style[r] # "whole" /\ fate[r] # "ok" => IsSuffix(<<Error, End>>, out[r])
===============================================================================
