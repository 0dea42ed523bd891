------------------------------- MODULE RateLimit -------------------------------
(***************************************************************************)
(* RateLimitMiddleware.dispatch (src/kiro_api/security.py): the per-client *)
(* log of admitted requests, the refusal with its Retry-After and the      *)
(* cleanup of the table.  dispatch does not suspend before it hands the    *)
(* request on, so a request is one step.  Time counts ticks of 1/PerSecond *)
(* second and never goes back.  A limit of 0 or less means the middleware  *)
(* is not installed; requests to the exempt paths change nothing.          *)
(***************************************************************************)
EXTENDS Integers, Sequences, FiniteSets

CONSTANTS
  Client,      \* what _client() returns: a forwarded address or the peer's
  Limit,       \* requests a client may make per window
  Window,      \* the window in seconds, at least 1
  PerSecond,   \* ticks per second
  TableLimit,  \* buckets above which the cleanup runs (4096 in the code)
  MaxTime      \* bound of the model: the last tick

ASSUME RateAssumption ==
  /\ IsFiniteSet(Client)
  /\ Limit \in Nat \ {0} /\ Window \in Nat \ {0} /\ PerSecond \in Nat \ {0}
  /\ TableLimit \in Nat /\ MaxTime \in Nat

WindowTicks == Window * PerSecond

VARIABLES
  now,        \* time.time()
  known,      \* the keys of _hits
  hits,       \* client -> its deque, <<>> if it has none
  admitted,   \* history: client -> the times of all its admitted requests
  told        \* history: client -> when its last refusal since its last admitted
              \* request told it to come back, 0 if there is none

vars == <<now, known, hits, admitted, told>>

\* The types; a client with a bucket that is not empty has a key in _hits.
RateTypeOK ==
  /\ now \in 0..MaxTime
  /\ known \in SUBSET Client
  /\ hits \in [Client -> Seq(Nat)]
  /\ admitted \in [Client -> Seq(Nat)]
  /\ told \in [Client -> Nat]
  /\ \A c \in Client : hits[c] # <<>> => c \in known

Init ==
  /\ now = 0 /\ known = {}
  /\ hits = [c \in Client |-> <<>>]
  /\ admitted = [c \in Client |-> <<>>]
  /\ told = [c \in Client |-> 0]

-------------------------------------------------------------------------------

\* bucket[0] < cutoff
Expired(t) == t + WindowTicks < now

\* The popleft loop removes the first k entries of the bucket b.
Drops(b, k) ==
  /\ \A i \in 1..k : Expired(b[i])
  /\ k < Len(b) => ~Expired(b[k + 1])

\* Mutant of RetryAfter: the seconds are rounded down.
RetryRoundedDown(oldest) == (WindowTicks - (now - oldest)) \div PerSecond

\* The Retry-After header in seconds: int() of what is left of the window, plus 1.
RetryAfter(oldest) ==
  LET retry == (WindowTicks - (now - oldest)) \div PerSecond + 1
  IN IF retry < 1 THEN 1 ELSE retry

\* Mutant of Cleaned: the test on the buckets is inverted.
CleanedInverted(keys, buckets) ==
  IF Cardinality(keys) > TableLimit THEN {c \in keys : buckets[c] = <<>>} ELSE keys

\* The cleanup drops the keys of empty buckets once the table is too large.
Cleaned(keys, buckets) ==
  IF Cardinality(keys) > TableLimit THEN {c \in keys : buckets[c] # <<>>} ELSE keys

\* Mutant of Pass: one request too many per window.
PassOffByOne(c, b) ==
  /\ Len(b) <= Limit
  /\ hits' = [hits EXCEPT ![c] = Append(b, now)]
  /\ known' = Cleaned(known \cup {c}, hits')
  /\ admitted' = [admitted EXCEPT ![c] = Append(@, now)]
  /\ told' = [told EXCEPT ![c] = 0]

\* The request goes on to the application.
Pass(c, b) ==
  /\ Len(b) < Limit
  /\ hits' = [hits EXCEPT ![c] = Append(b, now)]
  /\ known' = Cleaned(known \cup {c}, hits')
  /\ admitted' = [admitted EXCEPT ![c] = Append(@, now)]
  /\ told' = [told EXCEPT ![c] = 0]

\* 429 with Retry-After
Refuse(c, b) ==
  /\ Len(b) >= Limit
  /\ hits' = [hits EXCEPT ![c] = b]
  /\ known' = known \cup {c}
  /\ told' = [told EXCEPT ![c] = now + PerSecond * RetryAfter(b[1])]
  /\ UNCHANGED admitted

Dispatch(c) ==
  /\ \E k \in 0..Len(hits[c]) :
       /\ Drops(hits[c], k)
       /\ LET b == SubSeq(hits[c], k + 1, Len(hits[c])) IN Pass(c, b) \/ Refuse(c, b)
  /\ UNCHANGED now

Tick ==
  /\ now < MaxTime
  /\ now' = now + 1
  /\ UNCHANGED <<known, hits, admitted, told>>

Next == Tick \/ \E c \in Client : Dispatch(c)

Spec == Init /\ [][Next]_vars

-------------------------------------------------------------------------------

\* The limit holds in every window, wherever it starts: between an admitted
\* request and the Limit-th one after it lies more than a whole window.  (The
\* docstring of the class, security.py:44, says "Fixed-window".  The log of times
\* does better: a counter reset at fixed times would admit twice the limit around
\* a reset, and would not hold back a client that has just begun a new window.)
SlidingWindow ==
  \A c \in Client : \A i, j \in DOMAIN admitted[c] :
    j = i + Limit => admitted[c][j] - admitted[c][i] > WindowTicks

\* Retry-After is enough and no more than a second too long: a client that
\* comes back no earlier than it was last told, and was not admitted meanwhile,
\* finds its oldest entry expired, and that entry expires at most one second
\* before the time it was told.
RetryAfterSound ==
  \A c \in Client : told[c] # 0 =>
    /\ hits[c] # <<>>
    /\ told[c] <= now => Expired(hits[c][1])
    /\ told[c] <= hits[c][1] + WindowTicks + PerSecond
===============================================================================
