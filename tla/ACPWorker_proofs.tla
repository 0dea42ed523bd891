--------------------------- MODULE ACPWorker_proofs ---------------------------
(* What TLAPS proves of ACPWorker, for any number of turns and updates and   *)
(* pipes of any size.                                                        *)
EXTENDS ACPWorker, TLAPS, FiniteSets, FiniteSetTheorems, FunctionTheorems, SequenceTheorems

-------------------------------------------------------------------------------
(* The calls in _pending.                                                    *)

\* An answered call has left _pending before its turn goes on.
AnsweredLeft == Calling /\ reply # "none" => Mine(at) \notin pending

PInv == NoStalePending /\ AnsweredLeft

\* The variables PInv is about.
calls == <<turn, at, pending, reply, given_up>>

\* Where _write_line leaves the turn that writes the line k.
LEMMA WriteMoves ==
  ASSUME NEW t, NEW k, Write(t, k)
  PROVE  at' = k \/ (k = "cancel" /\ at' = "idle")
  BY DEF Write, Sent, At

\* A step that leaves the calls alone keeps the invariant.
LEMMA CallsFrame == PInv /\ UNCHANGED calls => PInv'
  BY DEF PInv, NoStalePending, AnsweredLeft, calls, Calling, Mine

\* A new call enters _pending as the call in progress, when no other is.
LEMMA CallInv ==
  ASSUME NEW t, NEW k \in {"new", "setting"}, Call(t, k),
         turn' = t, given_up' = given_up, pending \subseteq given_up
  PROVE  PInv'
  <1>1. at' = k
    BY WriteMoves DEF Call
  <1>2. pending' = pending \cup {<<t, k>>} /\ reply' = "none"
    BY DEF Call
  <1>3. QED
    BY <1>1, <1>2 DEF PInv, NoStalePending, AnsweredLeft, Calling, Mine

\* Without a call in progress the invariant says that pending calls were given up.
LEMMA NoCallInv ==
  ASSUME ~Calling', pending' \subseteq given_up'
  PROVE  PInv'
  BY DEF PInv, NoStalePending, AnsweredLeft

\* Once a call is answered only calls that were given up are pending.
LEMMA AnsweredFacts ==
  /\ PInv /\ Calling /\ reply # "none" => pending \subseteq given_up
  /\ PInv /\ ~Calling => pending \subseteq given_up
  BY DEF PInv, NoStalePending, AnsweredLeft, Mine

\* The steps of the turn itself.
LEMMA TurnInv ==
  ASSUME PInv, StartTurn \/ TurnStep \/ Abandon
  PROVE  PInv'
  <1>1. CASE StartTurn
    <2>1. ~Calling
      BY <1>1 DEF StartTurn, Calling
    <2>2. QED
      BY <1>1, <2>1, AnsweredFacts, CallInv DEF StartTurn
  <1>2. CASE TakeLock \/ Flushed
    <2>1. UNCHANGED <<turn, pending, reply, given_up>>
      BY <1>2 DEF TakeLock, Flushed
    <2>2. at' = at \/ (at = "cancel" /\ at' = "idle")
      BY <1>2, WriteMoves DEF TakeLock, Flushed, Sent, At
    <2>3. CASE at' = at
      BY <2>1, <2>3, CallsFrame DEF calls
    <2>4. CASE at = "cancel" /\ at' = "idle"
      BY <2>1, <2>4, AnsweredFacts, NoCallInv DEF Calling
    <2>5. QED
      BY <2>2, <2>3, <2>4
  <1>3. CASE Unsent
    <2>1. ~Calling' /\ pending' = pending
      BY <1>3 DEF Unsent, End, At, Calling
    <2>2. pending' \subseteq given_up'
      BY <1>3, <2>1 DEF Unsent, PInv, NoStalePending
    <2>3. QED
      BY <2>1, <2>2, NoCallInv
  <1>4. CASE Resume
    <2>1. pending \subseteq given_up /\ given_up' = given_up /\ turn' = turn
      BY <1>4, AnsweredFacts DEF Resume
    <2>2. CASE Call(turn, "setting")
      BY <2>1, <2>2, CallInv
    <2>3. CASE (Prompt \/ End("failed")) /\ UNCHANGED pending
      <3>1. ~Calling'
        BY <2>3, WriteMoves DEF Prompt, End, At, Calling
      <3>2. QED
        BY <2>1, <2>3, <3>1, NoCallInv
    <2>4. QED
      BY <1>4, <2>2, <2>3 DEF Resume
  <1>5. CASE CallTimeout
    <2>1. ~Calling'
      BY <1>5, WriteMoves DEF CallTimeout, Prompt, End, At, Calling
    <2>2. pending' \subseteq given_up'
      BY <1>5 DEF CallTimeout, PInv, NoStalePending
    <2>3. QED
      BY <2>1, <2>2, NoCallInv
  <1>6. CASE Yield \/ PromptTimeout
    <2>1. ~Calling /\ ~Calling' /\ UNCHANGED <<pending, given_up>>
      BY <1>6 DEF Yield, PromptTimeout, End, At, Calling
    <2>2. QED
      BY <2>1, AnsweredFacts, NoCallInv
  <1>7. CASE Abandon
    <2>1. ~Calling' /\ pending' = pending
      BY <1>7, WriteMoves DEF Abandon, End, At, Calling
    <2>2. pending' \subseteq given_up'
      BY <1>7, <2>1 DEF Abandon, PInv, NoStalePending, Calling
    <2>3. QED
      BY <2>1, <2>2, NoCallInv
  <1>8. QED
    BY <1>1, <1>2, <1>3, <1>4, <1>5, <1>6, <1>7 DEF TurnStep

\* The reader: an answer leaves _pending and can only be that of the call in
\* progress or of one that was given up; the end of stdout empties _pending.
LEMMA ReaderInv ==
  ASSUME PInv, Dispatch \/ Eof
  PROVE  PInv'
  <1>1. UNCHANGED <<turn, at, given_up>>
    BY DEF Dispatch, Eof
  <1>2. CASE Dispatch
    <2>1. CASE UNCHANGED <<pending, reply>>
      BY <1>1, <2>1, CallsFrame DEF calls
    <2>2. ASSUME NEW id, NEW ok, Answered(id, ok)
          PROVE  PInv'
      <3>1. pending' = pending \ {id}
        BY <2>2 DEF Answered
      <3>2. reply' = reply \/ id \in pending \ given_up
        BY <2>2 DEF Answered
      <3>3. NoStalePending'
        BY <1>1, <3>1 DEF PInv, NoStalePending, Calling, Mine
      <3>4. AnsweredLeft'
        BY <1>1, <3>1, <3>2 DEF PInv, NoStalePending, AnsweredLeft, Calling, Mine
      <3>5. QED
        BY <3>3, <3>4 DEF PInv
    <2>3. QED
      BY <1>2, <2>1, <2>2 DEF Dispatch
  <1>3. CASE Eof
    <2>1. pending' = {}
      BY <1>3 DEF Eof
    <2>2. QED
      BY <2>1 DEF PInv, NoStalePending, AnsweredLeft
  <1>4. QED
    BY <1>2, <1>3

\* Every other step leaves the calls alone.
LEMMA OtherInv ==
  ASSUME PInv,
         \/ Stop \/ (\E t \in Turn : Close(t)) \/ Respond \/ OtherFlushed
         \/ AgentReads \/ AgentAnswers \/ AgentUpdates \/ AgentAsks \/ AgentExits
         \/ UNCHANGED vars
  PROVE  PInv'
  <1>1. UNCHANGED calls
    BY DEF Stop, Close, Respond, OtherWrites, OtherFlushed, AgentReads, AgentSends,
           AgentAnswers, AgentUpdates, AgentAsks, AgentExits, vars, client, calls
  <1>2. QED
    BY <1>1, CallsFrame

\* No late answer, timeout, cancellation or end of stdout leaves a call in
\* _pending that was answered or timed out.
THEOREM AcpNoStalePending == Spec => []NoStalePending
  <1>1. Init => PInv
    BY DEF Init, PInv, NoStalePending, AnsweredLeft, Calling
  <1>2. PInv /\ [Next]_vars => PInv'
    BY TurnInv, ReaderInv, OtherInv DEF Next
  <1>3. PInv => NoStalePending
    BY DEF PInv
  <1>4. QED
    BY <1>1, <1>2, <1>3, PTL DEF Spec

-------------------------------------------------------------------------------
(* Timeouts of a prompt.                                                     *)

\* A prompt's timeout marks the worker dead, for ever.
DeadAfterTimeout == expired = "prompt" => dead

\* No step revives a worker.
LEMMA DeadInv == DeadAfterTimeout /\ [Next]_vars => DeadAfterTimeout'
  <1> SUFFICES ASSUME DeadAfterTimeout, [Next]_vars
               PROVE  DeadAfterTimeout'
    OBVIOUS
  <1>1. CASE PromptTimeout
    BY <1>1 DEF PromptTimeout, DeadAfterTimeout
  <1>2. CASE Eof
    BY <1>2 DEF Eof, DeadAfterTimeout
  <1>3. CASE CallTimeout
    BY <1>3 DEF CallTimeout, DeadAfterTimeout
  <1>4. CASE StartTurn \/ TakeLock \/ Flushed \/ Unsent \/ Resume \/ Yield \/ Abandon
    BY <1>4 DEF StartTurn, TakeLock, Flushed, Unsent, Resume, Yield, Abandon,
                DeadAfterTimeout
  <1>5. CASE \/ Dispatch \/ Stop \/ (\E t \in Turn : Close(t)) \/ Respond \/ OtherFlushed
             \/ AgentReads \/ AgentAnswers \/ AgentUpdates \/ AgentAsks \/ AgentExits
             \/ UNCHANGED vars
    BY <1>5 DEF Dispatch, Stop, Close, Respond, OtherWrites, OtherFlushed, AgentReads,
                AgentSends, AgentAnswers, AgentUpdates, AgentAsks, AgentExits, vars,
                client, DeadAfterTimeout
  <1>6. QED
    BY <1>1, <1>2, <1>3, <1>4, <1>5 DEF Next, TurnStep

\* A step that begins a turn finds the worker alive.
LEMMA TurnBegins == [Next]_vars /\ turn' # turn => ~dead
  BY DEF Next, TurnStep, StartTurn, TakeLock, Flushed, Unsent, Resume, CallTimeout, Yield,
         PromptTimeout, Abandon, Dispatch, Eof, Stop, Close, Respond, OtherWrites,
         OtherFlushed, AgentReads, AgentSends, AgentAnswers, AgentUpdates, AgentAsks,
         AgentExits, vars, client

\* A worker whose prompt timed out serves no further turn, whoever leases it.
THEOREM AcpUnusedAfterTimeout == Spec => UnusedAfterTimeout
  <1>1. Init => DeadAfterTimeout
    BY DEF Init, DeadAfterTimeout
  <1>2. DeadAfterTimeout /\ [Next]_vars => [expired = "prompt" => turn' = turn]_vars
    BY TurnBegins DEF DeadAfterTimeout
  <1>3. QED
    BY <1>1, <1>2, DeadInv, PTL DEF Spec, UnusedAfterTimeout


-------------------------------------------------------------------------------
(* What is in a pipe or a queue.                                             *)

\* s holds a member of A; none of B follows one of A; how many of A there are.
Holds(s, A)    == \E i \in DOMAIN s : s[i] \in A
After(s, A, B) == \A i, j \in DOMAIN s : i < j /\ s[i] \in A => s[j] \notin B
Count(s, A)    == Cardinality({i \in DOMAIN s : s[i] \in A})

LEMMA SeqDomain ==
  ASSUME NEW S, NEW s \in Seq(S)
  PROVE  DOMAIN s = 1..Len(s) /\ Len(s) \in Nat
  BY LenProperties

\* Append and Tail, index by index.
LEMMA AppendAt ==
  ASSUME NEW S, NEW s \in Seq(S), NEW x
  PROVE  /\ DOMAIN Append(s, x) = DOMAIN s \cup {Len(s) + 1}
         /\ Len(s) + 1 \notin DOMAIN s /\ \A i \in DOMAIN s : i < Len(s) + 1
         /\ Append(s, x)[Len(s) + 1] = x
         /\ \A i \in DOMAIN s : Append(s, x)[i] = s[i]
  <1>1. s \in Seq(S \cup {x}) /\ x \in S \cup {x}
    BY SeqMonotonic
  <1>2. /\ Append(s, x) \in Seq(S \cup {x}) /\ Len(Append(s, x)) = Len(s) + 1
        /\ \A i \in 1..Len(s) : Append(s, x)[i] = s[i]
        /\ Append(s, x)[Len(s) + 1] = x
    BY <1>1, AppendProperties
  <1>3. DOMAIN Append(s, x) = 1..(Len(s) + 1) /\ DOMAIN s = 1..Len(s) /\ Len(s) \in Nat
    BY <1>1, <1>2, SeqDomain
  <1>4. QED
    BY <1>2, <1>3

LEMMA TailAt ==
  ASSUME NEW S, NEW s \in Seq(S), s # <<>>
  PROVE  /\ Tail(s) \in Seq(S) /\ Head(s) \in S
         /\ Len(s) \in Nat /\ Len(s) # 0
         /\ DOMAIN s = 1..Len(s) /\ s[1] = Head(s)
         /\ DOMAIN Tail(s) = 1..(Len(s) - 1)
         /\ \A i \in 1..(Len(s) - 1) : Tail(s)[i] = s[i + 1]
  <1>1. /\ Tail(s) \in Seq(S) /\ Head(s) \in S /\ Len(Tail(s)) = Len(s) - 1
        /\ \A i \in 1..Len(Tail(s)) : Tail(s)[i] = s[i + 1]
    BY HeadTailProperties
  <1>2. Len(s) \in Nat /\ Len(s) # 0 /\ DOMAIN s = 1..Len(s)
    BY LenProperties, EmptySeq
  <1>3. DOMAIN Tail(s) = 1..(Len(s) - 1)
    BY <1>1, SeqDomain
  <1>4. QED
    BY <1>1, <1>2, <1>3

LEMMA HoldsEmpty == ASSUME NEW A, NEW B PROVE ~Holds(<<>>, A) /\ After(<<>>, A, B)
  BY DEF Holds, After

LEMMA HoldsAppend ==
  ASSUME NEW S, NEW s \in Seq(S), NEW x, NEW A, NEW B
  PROVE  /\ Holds(Append(s, x), A) <=> Holds(s, A) \/ x \in A
         /\ After(s, A, B) /\ (Holds(s, A) => x \notin B) => After(Append(s, x), A, B)
  <1>1. Holds(Append(s, x), A) <=> Holds(s, A) \/ x \in A
    BY AppendAt DEF Holds
  <1>2. ASSUME After(s, A, B), Holds(s, A) => x \notin B,
               NEW i \in DOMAIN Append(s, x), NEW j \in DOMAIN Append(s, x),
               i < j, Append(s, x)[i] \in A
        PROVE  Append(s, x)[j] \notin B
    <2>1. i \in DOMAIN s
      BY <1>2, AppendAt, SeqDomain
    <2>2. s[i] \in A
      BY <1>2, <2>1, AppendAt
    <2>3. CASE j \in DOMAIN s
      BY <1>2, <2>1, <2>2, <2>3, AppendAt DEF After
    <2>4. CASE j = Len(s) + 1
      BY <1>2, <2>1, <2>2, <2>4, AppendAt DEF Holds
    <2>5. QED
      BY <2>3, <2>4, AppendAt
  <1>3. QED
    BY <1>1, <1>2 DEF After

LEMMA HoldsTail ==
  ASSUME NEW S, NEW s \in Seq(S), s # <<>>, NEW A, NEW B
  PROVE  /\ Holds(s, A) <=> Head(s) \in A \/ Holds(Tail(s), A)
         /\ After(s, A, B) => /\ After(Tail(s), A, B)
                              /\ Head(s) \in A => ~Holds(Tail(s), B)
  <1>1. Holds(s, A) => Head(s) \in A \/ Holds(Tail(s), A)
    <2>1. SUFFICES ASSUME NEW i \in DOMAIN s, s[i] \in A, Head(s) \notin A
                   PROVE  Holds(Tail(s), A)
      BY DEF Holds
    <2>2. i - 1 \in 1..(Len(s) - 1) /\ (i - 1) + 1 = i
      BY <2>1, TailAt
    <2>3. QED
      BY <2>1, <2>2, TailAt DEF Holds
  <1>2. Head(s) \in A \/ Holds(Tail(s), A) => Holds(s, A)
    <2>1. Head(s) \in A => Holds(s, A)
      BY TailAt DEF Holds
    <2>2. ASSUME NEW i \in DOMAIN Tail(s), Tail(s)[i] \in A
          PROVE  Holds(s, A)
      <3>1. i + 1 \in DOMAIN s /\ s[i + 1] \in A
        BY <2>2, TailAt
      <3>2. QED
        BY <3>1 DEF Holds
    <2>3. QED
      BY <2>1, <2>2 DEF Holds
  <1>3. After(s, A, B) => After(Tail(s), A, B)
    <2>1. SUFFICES ASSUME After(s, A, B), NEW i \in DOMAIN Tail(s), NEW j \in DOMAIN Tail(s),
                          i < j, Tail(s)[i] \in A
                   PROVE  Tail(s)[j] \notin B
      BY DEF After
    <2>2. i + 1 \in DOMAIN s /\ j + 1 \in DOMAIN s /\ i + 1 < j + 1
      BY <2>1, TailAt
    <2>3. s[i + 1] \in A /\ s[j + 1] = Tail(s)[j]
      BY <2>1, TailAt
    <2>4. QED
      BY <2>1, <2>2, <2>3 DEF After
  <1>4. After(s, A, B) /\ Head(s) \in A => ~Holds(Tail(s), B)
    <2>1. SUFFICES ASSUME After(s, A, B), Head(s) \in A, NEW j \in DOMAIN Tail(s)
                   PROVE  Tail(s)[j] \notin B
      BY DEF Holds
    <2>2. 1 \in DOMAIN s /\ j + 1 \in DOMAIN s /\ 1 < j + 1
      BY TailAt
    <2>3. s[1] \in A /\ s[j + 1] = Tail(s)[j]
      BY <2>1, TailAt
    <2>4. QED
      BY <2>1, <2>2, <2>3 DEF After
  <1>5. QED
    BY <1>1, <1>2, <1>3, <1>4

LEMMA CountType ==
  ASSUME NEW S, NEW s \in Seq(S), NEW A
  PROVE  /\ IsFiniteSet({i \in DOMAIN s : s[i] \in A}) /\ Count(s, A) \in Nat
         /\ ~Holds(s, A) => Count(s, A) = 0
  <1> DEFINE at_(q) == {i \in DOMAIN q : q[i] \in A}
  <1>1. IsFiniteSet(DOMAIN s)
    BY SeqDomain, FS_Interval
  <1>2. IsFiniteSet(at_(s))
    BY <1>1, FS_Subset
  <1>3. Count(s, A) \in Nat
    BY <1>2, FS_CardinalityType DEF Count
  <1>4. ASSUME ~Holds(s, A) PROVE Count(s, A) = 0
    <2>1. {i \in DOMAIN s : s[i] \in A} = {}
      BY <1>4 DEF Holds
    <2>2. QED
      BY <2>1, FS_EmptySet DEF Count
  <1>5. QED
    BY <1>2, <1>3, <1>4

LEMMA CountAppend ==
  ASSUME NEW S, NEW s \in Seq(S), NEW x, NEW A
  PROVE  /\ x \in A => Count(Append(s, x), A) = Count(s, A) + 1
         /\ x \notin A => Count(Append(s, x), A) = Count(s, A)
  <1> DEFINE P == {i \in DOMAIN s : s[i] \in A}
             Q == {i \in DOMAIN Append(s, x) : Append(s, x)[i] \in A}
  <1>1. IsFiniteSet(P) /\ Cardinality(P) \in Nat
    BY CountType DEF Count
  <1>2. CASE x \in A
    <2>1. Q = P \cup {Len(s) + 1} /\ Len(s) + 1 \notin P
      BY <1>2, AppendAt
    <2>2. Cardinality(Q) = Cardinality(P) + 1
      BY <1>1, <2>1, FS_AddElement
    <2>3. QED
      BY <1>2, <2>2 DEF Count
  <1>3. CASE x \notin A
    <2>1. Q = P
      BY <1>3, AppendAt
    <2>2. QED
      BY <2>1, <1>3 DEF Count
  <1>4. QED
    BY <1>2, <1>3

LEMMA CountTail ==
  ASSUME NEW S, NEW s \in Seq(S), s # <<>>, NEW A
  PROVE  /\ Head(s) \in A => Count(s, A) = Count(Tail(s), A) + 1
         /\ Head(s) \notin A => Count(s, A) = Count(Tail(s), A)
  <1> DEFINE P == {i \in DOMAIN s : s[i] \in A}
             Q == {i \in DOMAIN Tail(s) : Tail(s)[i] \in A}
             f == [i \in Q |-> i + 1]
  <1>1. IsFiniteSet(P) /\ Cardinality(P) \in Nat /\ IsFiniteSet(Q) /\ Cardinality(Q) \in Nat
    <2>1. Tail(s) \in Seq(S)
      BY TailAt
    <2>2. IsFiniteSet(P) /\ IsFiniteSet(Q)
      BY <2>1, CountType
    <2>3. QED
      BY <2>2, FS_CardinalityType
  <1>2. f \in Bijection(Q, P \ {1})
    <2>1. \A i \in Q : i \in 1..(Len(s) - 1) /\ f[i] = i + 1 /\ f[i] \in P \ {1}
      BY TailAt
    <2>2. f \in [Q -> P \ {1}] /\ \A a, b \in Q : f[a] = f[b] => a = b
      BY <2>1
    <2>3. \A j \in P \ {1} : \E i \in Q : f[i] = j
      <3>1. SUFFICES ASSUME NEW j \in P \ {1}
                     PROVE  j - 1 \in Q /\ f[j - 1] = j
        OBVIOUS
      <3>2. j - 1 \in 1..(Len(s) - 1) /\ (j - 1) + 1 = j /\ s[j] \in A
        BY <3>1, TailAt
      <3>3. QED
        BY <3>2, TailAt
    <2>4. QED
      BY <2>2, <2>3, Fun_IsBij
  <1>3. Cardinality(P \ {1}) = Cardinality(Q)
    <2>1. IsFiniteSet(P \ {1})
      BY <1>1, FS_Subset
    <2>2. ExistsBijection(Q, P \ {1})
      BY <1>2 DEF ExistsBijection
    <2>3. QED
      BY <1>1, <2>1, <2>2, FS_Bijection
  <1>4. CASE Head(s) \in A
    <2>1. 1 \in P
      BY <1>4, TailAt
    <2>2. Cardinality(P \ {1}) = Cardinality(P) - 1
      BY <1>1, <2>1, FS_RemoveElement
    <2>3. Cardinality(P) = Cardinality(Q) + 1
      <3>1. Cardinality(P) \in Nat /\ Cardinality(Q) = Cardinality(P) - 1
        BY <1>1, <1>3, <2>2
      <3> HIDE DEF P, Q
      <3>2. QED
        BY <3>1
    <2>4. QED
      BY <1>4, <2>3 DEF Count
  <1>5. CASE Head(s) \notin A
    <2>1. P \ {1} = P
      BY <1>5, TailAt
    <2>2. Cardinality(P) = Cardinality(Q)
      BY <1>3, <2>1
    <2>3. QED
      BY <1>5, <2>2 DEF Count
  <1>6. QED
    BY <1>4, <1>5

-------------------------------------------------------------------------------
(* The messages of the turn in progress, wherever they are.  A prompt's      *)
(* request becomes an answer and the answer an end: at any time one of them  *)
(* at most is on its way.                                                    *)

PromptLine(t)  == {LineOf(t, "prompt")}
EndLines(t)    == {[kind |-> "answer", id |-> <<t, "prompt">>, ok |-> b] : b \in BOOLEAN}
UpdateLines(t) == {[kind |-> "update", of |-> t]}

Unread  == Holds(stdin, PromptLine(turn))
Reading == Mine("prompt") \in asked
Back    == Holds(stdout, EndLines(turn))
Coming  == Holds(stdout, UpdateLines(turn))
Ended   == Holds(events, {"done"})

\* The updates that have left kiro-cli and not reached the consumer.
Held == Count(events, {"update"}) + Count(stdout, UpdateLines(turn))

\* The lines that name a turn after t.
NewerIn(t)  == {l \in StdinLine : l.kind = "request" /\ l.id[1] > t}
NewerOut(t) == {l \in StdoutLine : \/ l.kind = "answer" /\ l.id[1] > t
                                   \/ l.kind = "update" /\ l.of > t}

\* Where a turn can be, and whose queue is there.
Place ==
  /\ open \subseteq 1..turn
  /\ at # "idle" => turn # 0 /\ turn \notin closers
  /\ at \in {"prompt", "cancel"} => turn \in open
  /\ at = "cancel" => phase # "wait"

\* Nothing speaks of a turn to come, and no call of a turn in progress was given up.
Numbered ==
  /\ ~Holds(stdin, NewerIn(turn)) /\ ~Holds(stdout, NewerOut(turn))
  /\ \A id \in asked \cup given_up : id[1] <= turn
  /\ at # "idle" => \A k \in Kind : Mine(k) \notin given_up

\* The prompt is asked and answered once, and its updates come before its end.
Token ==
  /\ After(stdin, PromptLine(turn), PromptLine(turn))
  /\ After(stdout, EndLines(turn), EndLines(turn) \cup UpdateLines(turn))
  /\ After(events, {"done"}, {"update"})
  /\ Unread => ~Reading /\ ~Back /\ ~Ended
  /\ Reading => ~Back /\ ~Ended
  /\ Back => ~Ended
  /\ Ended => ~Coming

\* Before the prompt is written there is nothing of it anywhere.
Unasked ==
  Calling \/ (at = "prompt" /\ phase = "lock") =>
    /\ ~Unread /\ ~Reading /\ ~Back /\ ~Ended /\ ~Coming
    /\ sent = 0 /\ shown = 0 /\ ~Holds(events, {"update"})

\* No update is lost on its way, unless the worker is stopped before the end.
Kept ==
  /\ shown <= sent
  /\ at = "prompt" => shown + Held <= sent
  /\ at = "prompt" /\ (~stopped \/ Ended) => shown + Held = sent

\* After a normal end nothing more comes.
Finished ==
  /\ at # "idle" => outcome # "done"
  /\ outcome = "done" => shown = sent /\ ~Reading /\ ~Unread

\* The call in progress can be found by its answer and by the end of stdout, and
\* after that end nothing is still expected.
Fast ==
  /\ eof /\ ~late /\ Calling => reply # "none"
  /\ eof /\ ~late /\ at = "prompt" => Holds(events, {"done", "error"})
  /\ ~eof /\ Calling /\ reply = "none" => Mine(at) \in pending \ given_up

TurnInvariant ==
  /\ AcpTypeOK /\ Place /\ Numbered /\ Token /\ Unasked /\ Kept /\ Finished /\ Fast

\* What _write_line does for the line k of turn t.
LEMMA Writes ==
  ASSUME AcpTypeOK, NEW t \in Turn, NEW k \in Kind \cup {"cancel"}, phase # "drain", Write(t, k)
  PROVE  /\ \/ at' = k /\ phase' \in {"lock", "drain", "wait"} /\ (k = "cancel" => phase' # "wait")
            \/ k = "cancel" /\ at' = "idle" /\ phase' = "none"
         /\ LineOf(t, k) \in StdinLine
         /\ stdin' = stdin \/ (stdin' = Append(stdin, LineOf(t, k)) /\ phase' # "lock")
         /\ stdin' \in Seq(StdinLine)
         /\ draining' \in {"none", "turn", "other"} /\ (phase' = "drain" <=> draining' = "turn")
  <1>1. LineOf(t, k) \in StdinLine
    BY DEF LineOf, StdinLine, Request, Kind
  <1>2. stdin' = stdin \/ (stdin' = Append(stdin, LineOf(t, k)) /\ phase' # "lock")
    BY DEF Write, Sent, At
  <1>3. stdin' \in Seq(StdinLine)
    <2>1. stdin \in Seq(StdinLine)
      BY DEF AcpTypeOK
    <2>2. Append(stdin, LineOf(t, k)) \in Seq(StdinLine)
      BY <1>1, <2>1, AppendProperties
    <2>3. QED
      BY <1>2, <2>1, <2>2
  <1>4. draining' \in {"none", "turn", "other"} /\ (phase' = "drain" <=> draining' = "turn")
    BY DEF Write, Sent, At, AcpTypeOK
  <1>5. \/ at' = k /\ phase' \in {"lock", "drain", "wait"} /\ (k = "cancel" => phase' # "wait")
        \/ k = "cancel" /\ at' = "idle" /\ phase' = "none"
    BY DEF Write, Sent, At
  <1>6. QED
    BY <1>1, <1>2, <1>3, <1>4, <1>5

\* The line of another task.
LEMMA OtherWritesFacts ==
  ASSUME AcpTypeOK, NEW line \in StdinLine, OtherWrites(line)
  PROVE  /\ stdin' = stdin \/ stdin' = Append(stdin, line)
         /\ stdin' \in Seq(StdinLine)
         /\ draining' \in {"none", "other"} /\ phase' # "drain"
  BY AppendProperties DEF OtherWrites, AcpTypeOK

\* The types, for the steps of the turn.
LEMMA TurnTypes ==
  ASSUME TurnInvariant, StartTurn \/ TurnStep \/ Abandon
  PROVE  AcpTypeOK' /\ Place'
  <1> USE DEF Kind, Turn, Calling, Mine
  <1>0. AcpTypeOK /\ Place /\ Kept /\ turn \in Nat /\ MaxTurn \in Nat
    BY WorkerAssumption DEF TurnInvariant, AcpTypeOK
  <1>1. CASE StartTurn
    <2>1. turn' \in Turn /\ turn' = turn + 1
      BY <1>0, <1>1 DEF StartTurn, AcpTypeOK
    <2>2. at' = "new" /\ phase' \in {"lock", "drain", "wait"} /\ stdin' \in Seq(StdinLine)
          /\ draining' \in {"none", "turn", "other"} /\ (phase' = "drain" <=> draining' = "turn")
      BY <1>0, <1>1, <2>1, Writes DEF StartTurn, Call, AcpTypeOK
    <2>3. pending' \subseteq Request /\ (\A id \in pending' : id[1] <= turn') /\ reply' = "none"
          /\ late' = eof
      BY <1>0, <1>1, <2>1 DEF StartTurn, Call, AcpTypeOK, Request
    <2>4. events' = <<>> /\ sent' = 0 /\ shown' = 0 /\ outcome' = "none"
          /\ UNCHANGED <<open, dead, given_up, eof, others, stopped, agent, stdout, expired>>
      BY <1>1 DEF StartTurn
    <2>5. AcpTypeOK'
      BY <1>0, <2>1, <2>2, <2>3, <2>4, WorkerAssumption, EmptySeq DEF AcpTypeOK, others, agent
    <2>6. Place'
      BY <1>0, <2>1, <2>2, <2>4 DEF Place, AcpTypeOK, others
    <2>7. QED
      BY <2>5, <2>6
  <1>2. CASE TakeLock
    <2>1. turn \in Turn /\ at \in Kind \cup {"cancel"} /\ phase # "drain"
      BY <1>0, <1>2 DEF TakeLock, AcpTypeOK, Place
    <2>2. /\ \/ at' = at /\ phase' \in {"lock", "drain", "wait"} /\ (at = "cancel" => phase' # "wait")
             \/ at = "cancel" /\ at' = "idle" /\ phase' = "none"
          /\ stdin' \in Seq(StdinLine)
          /\ draining' \in {"none", "turn", "other"} /\ (phase' = "drain" <=> draining' = "turn")
      BY <1>0, <1>2, <2>1, Writes DEF TakeLock
    <2>3. open' = (IF at' = "idle" THEN open \ {turn} ELSE open)
          /\ UNCHANGED <<turn, pending, reply, events, dead, late, given_up, eof, others,
                 stopped, agent, stdout, sent, shown, outcome, expired>>
      BY <1>2 DEF TakeLock
    <2>4. QED
      BY <1>0, <2>1, <2>2, <2>3 DEF AcpTypeOK, Place, others, agent
  <1>3. CASE Flushed \/ Unsent
    <2>1. /\ phase = "drain" /\ draining' = "none"
          /\ \/ at' = at /\ at # "cancel" /\ phase' = "wait" /\ open' = open /\ UNCHANGED outcome
             \/ at' = "idle" /\ phase' = "none" /\ open' = open \ {turn}
                /\ outcome' \in {outcome, "failed"}
      BY <1>0, <1>3 DEF Flushed, Unsent, Sent, At, End, AcpTypeOK
    <2>2. given_up' \subseteq Request
      BY <1>0, <1>3 DEF Flushed, Unsent, AcpTypeOK, Place, Request
    <2>3. UNCHANGED <<turn, pending, reply, events, dead, late, eof, closers, replies,
                 stopped, proc, asked, stdin, stdout, sent, shown, expired>>
      BY <1>3 DEF Flushed, Unsent, others, agent
    <2>4. at # "idle"
      BY <1>0, <2>1 DEF AcpTypeOK
    <2>5. AcpTypeOK'
      <3>1. closers' \subseteq open' /\ open' \subseteq Turn /\ outcome' \in {"none", "done", "failed"}
        BY <1>0, <2>1, <2>3, <2>4 DEF AcpTypeOK, Place
      <3>2. /\ at' \in Kind \cup {"idle", "cancel"} /\ phase' \in {"none", "lock", "drain", "wait"}
            /\ (phase' = "none" <=> at' = "idle") /\ phase' # "drain" /\ draining' = "none"
        BY <1>0, <2>1, <2>4 DEF AcpTypeOK
      <3>3. QED
        BY <1>0, <2>2, <2>3, <3>1, <3>2 DEF AcpTypeOK
    <2>6. Place'
      BY <1>0, <2>1, <2>3, <2>4 DEF Place
    <2>7. QED
      BY <2>5, <2>6
  <1>4. CASE Resume
    <2>1. turn \in Turn /\ phase = "wait" /\ at \in {"new", "setting"}
      BY <1>0, <1>4 DEF Resume, AcpTypeOK, Place
    <2>2. CASE at = "new" /\ End("failed") /\ UNCHANGED <<pending, reply, open, late, draining, stdin>>
      BY <1>0, <1>4, <2>1, <2>2 DEF Resume, End, At, AcpTypeOK, Place, others, agent
    <2>3. CASE Call(turn, "setting") /\ UNCHANGED <<open, outcome>>
      <3>1. at' = "setting" /\ phase' \in {"lock", "drain", "wait"} /\ stdin' \in Seq(StdinLine)
            /\ draining' \in {"none", "turn", "other"} /\ (phase' = "drain" <=> draining' = "turn")
        BY <1>0, <2>1, <2>3, Writes DEF Call
      <3>2. pending' \subseteq Request /\ (\A id \in pending' : id[1] <= turn) /\ reply' = "none"
            /\ late' = eof
        BY <1>0, <2>1, <2>3 DEF Call, AcpTypeOK, Request
      <3>3. QED
        BY <1>0, <1>4, <2>1, <2>3, <3>1, <3>2 DEF Resume, AcpTypeOK, Place, others, agent
    <2>4. CASE Prompt /\ UNCHANGED <<pending, reply, outcome>>
      <3>1. at' = "prompt" /\ phase' \in {"lock", "drain", "wait"} /\ stdin' \in Seq(StdinLine)
            /\ draining' \in {"none", "turn", "other"} /\ (phase' = "drain" <=> draining' = "turn")
        BY <1>0, <2>1, <2>4, Writes DEF Prompt
      <3>2. QED
        BY <1>0, <1>4, <2>1, <2>4, <3>1 DEF Resume, Prompt, AcpTypeOK, Place, others, agent
    <2>5. QED
      BY <1>4, <2>2, <2>3, <2>4 DEF Resume
  <1>5. CASE CallTimeout
    <2>1. turn \in Turn /\ phase = "wait" /\ at \in {"new", "setting"}
      BY <1>0, <1>5 DEF CallTimeout, AcpTypeOK, Place
    <2>2. CASE at = "new" /\ End("failed") /\ UNCHANGED <<open, late, draining, stdin>>
      BY <1>0, <1>5, <2>1, <2>2 DEF CallTimeout, End, At, AcpTypeOK, Place, others, agent
    <2>3. CASE Prompt /\ UNCHANGED outcome
      <3>1. at' = "prompt" /\ phase' \in {"lock", "drain", "wait"} /\ stdin' \in Seq(StdinLine)
            /\ draining' \in {"none", "turn", "other"} /\ (phase' = "drain" <=> draining' = "turn")
        BY <1>0, <2>1, <2>3, Writes DEF Prompt
      <3>2. QED
        BY <1>0, <1>5, <2>1, <2>3, <3>1 DEF CallTimeout, Prompt, AcpTypeOK, Place, others, agent
    <2>4. QED
      BY <1>5, <2>2, <2>3 DEF CallTimeout
  <1>6. CASE Yield
    <2>1. turn \in open /\ turn \notin closers /\ Tail(events) \in Seq({"update", "done", "error"})
      BY <1>0, <1>6, TailAt DEF Yield, AcpTypeOK, Place
    <2>2. CASE Head(events) = "update" /\ shown' = shown + 1 /\ UNCHANGED <<at, phase, outcome, open, closers>>
      <3>1. shown + Held <= sent
        BY <1>0, <1>6 DEF Kept, Yield
      <3>2. Count(events, {"update"}) \in Nat /\ Count(stdout, UpdateLines(turn)) \in Nat
        BY <1>0, CountType DEF AcpTypeOK
      <3>3. Count(events, {"update"}) = Count(Tail(events), {"update"}) + 1
            /\ Count(Tail(events), {"update"}) \in Nat
        BY <1>0, <1>6, <2>1, <2>2, CountTail, CountType DEF Yield, AcpTypeOK
      <3>4. shown + 1 \in 0..MaxUpdate
        <4>1. shown \in Nat /\ sent \in Nat /\ sent <= MaxUpdate /\ MaxUpdate \in Nat
          BY <1>0, WorkerAssumption DEF AcpTypeOK
        <4>2. Held \in Nat /\ Held >= 1
          BY <3>2, <3>3 DEF Held
        <4>3. QED
          BY <3>1, <4>1, <4>2
      <3>5. QED
        BY <1>0, <1>6, <2>1, <2>2, <3>4 DEF Yield, AcpTypeOK, Place, agent
    <2>3. CASE End("done") \/ End("failed")
      <3>1. /\ at' = "idle" /\ phase' = "none" /\ outcome' \in {"done", "failed"}
            /\ events' = Tail(events) /\ shown' = shown /\ phase # "drain"
            /\ \/ open' = open \ {turn} /\ closers' = closers
               \/ open' = open /\ closers' = closers \cup {turn}
            /\ UNCHANGED <<turn, pending, reply, dead, late, given_up, eof, draining, replies,
                 stopped, proc, asked, stdin, stdout, sent, expired>>
        BY <1>6, <2>3 DEF Yield, End, At, agent
      <3>2. AcpTypeOK'
        <4>1. closers' \subseteq open' /\ open' \subseteq Turn
          BY <1>0, <2>1, <3>1 DEF AcpTypeOK
        <4>2. events' \in Seq({"update", "done", "error"})
          BY <2>1, <3>1
        <4>3. /\ at' = "idle" /\ phase' = "none" /\ outcome' \in {"done", "failed"}
              /\ shown' = shown /\ phase # "drain"
              /\ UNCHANGED <<turn, pending, reply, dead, late, given_up, eof, draining, replies,
                 stopped, proc, asked, stdin, stdout, sent, expired>>
          BY <3>1
        <4>4. QED
          BY <1>0, <4>1, <4>2, <4>3 DEF AcpTypeOK
      <3>3. Place'
        BY <1>0, <2>1, <3>1 DEF Place
      <3>4. QED
        BY <3>2, <3>3
    <2>4. QED
      BY <1>6, <2>2, <2>3 DEF Yield
  <1>7. CASE PromptTimeout
    BY <1>0, <1>7 DEF PromptTimeout, End, At, AcpTypeOK, Place, agent
  <1>8. CASE Abandon
    <2>1. turn \in Turn /\ at \in Kind
      BY <1>0, <1>8 DEF Abandon, AcpTypeOK, Place
    <2>2. CASE at = "prompt" /\ phase = "wait" /\ Write(turn, "cancel")
               /\ open' = (IF at' = "idle" THEN open \ {turn} ELSE open)
               /\ outcome' = "failed" /\ UNCHANGED <<closers, given_up>>
      <3>1. /\ \/ at' = "cancel" /\ phase' \in {"lock", "drain"}
               \/ at' = "idle" /\ phase' = "none"
            /\ stdin' \in Seq(StdinLine)
            /\ draining' \in {"none", "turn", "other"} /\ (phase' = "drain" <=> draining' = "turn")
        BY <1>0, <2>1, <2>2, Writes
      <3>2. QED
        BY <1>0, <1>8, <2>1, <2>2, <3>1 DEF Abandon, AcpTypeOK, Place, agent
    <2>3. CASE at' = "idle" /\ phase' = "none" /\ outcome' = "failed" /\ UNCHANGED stdin
      <3>1. given_up' \subseteq Request
        BY <1>0, <1>8, <2>1, <2>3 DEF Abandon, AcpTypeOK, Place, Request
      <3>2. open' \subseteq open /\ closers' \subseteq open'
        <4>1. at # "idle" /\ closers \subseteq open /\ turn \notin closers
              /\ (at = "prompt" => turn \in open)
          BY <1>0, <2>1 DEF AcpTypeOK, Place
        <4>2. \/ open' = open \ {turn} /\ closers' = closers
              \/ at = "prompt" /\ open' = open /\ closers' = closers \cup {turn}
          BY <1>8, <2>3 DEF Abandon
        <4>3. QED
          BY <4>1, <4>2
      <3>3. draining' \in {"none", "turn", "other"} /\ draining' # "turn"
        <4>1. /\ draining \in {"none", "turn", "other"} /\ (phase = "drain" <=> draining = "turn")
          BY <1>0 DEF AcpTypeOK
        <4>2. draining' = (IF phase = "drain" THEN "none" ELSE draining)
              \/ (phase = "wait" /\ draining' = draining) \/ (phase = "wait" /\ Write(turn, "cancel"))
          BY <1>8 DEF Abandon
        <4>3. Write(turn, "cancel") => draining' # "turn"
          BY <2>3 DEF Write, Sent, At
        <4>4. Write(turn, "cancel") => draining' \in {"none", "turn", "other"}
          BY <4>1 DEF Write
        <4>5. QED
          BY <4>1, <4>2, <4>3, <4>4
      <3>4. QED
        BY <1>0, <1>8, <2>3, <3>1, <3>2, <3>3 DEF Abandon, AcpTypeOK, Place, agent
    <2>4. QED
      BY <1>8, <2>2, <2>3 DEF Abandon, End, At
  <1>9. QED
    BY <1>1, <1>2, <1>3, <1>4, <1>5, <1>6, <1>7, <1>8 DEF TurnStep

\* The lines kiro-cli writes.
LEMMA AgentLines ==
  ASSUME NEW id \in Request, NEW ok \in BOOLEAN, NEW t \in Turn
  PROVE  /\ [kind |-> "answer", id |-> id, ok |-> ok] \in StdoutLine
         /\ [kind |-> "update", of |-> t] \in StdoutLine
         /\ [kind |-> "ask"] \in StdoutLine
  BY DEF StdoutLine

\* The types, for the other tasks and kiro-cli.
LEMMA OtherTypes ==
  ASSUME TurnInvariant,
         \/ Stop \/ (\E t \in Turn : Close(t)) \/ Respond \/ OtherFlushed \/ Dispatch \/ Eof
         \/ AgentReads \/ AgentAnswers \/ AgentUpdates \/ AgentAsks \/ AgentExits
         \/ UNCHANGED vars
  PROVE  AcpTypeOK' /\ Place'
  <1>0. AcpTypeOK /\ Place
    BY DEF TurnInvariant
  <1>1. CASE Stop \/ AgentExits
    <2>1. /\ UNCHANGED <<turn, at, phase, pending, reply, open, events, dead, late, given_up, eof,
                 draining, closers, replies, sent, shown, outcome, expired>>
          /\ proc' = "gone" /\ asked' = {}
      BY <1>1 DEF Stop, AgentExits, client, others
    <2>2. stdin' \in Seq(StdinLine) /\ stdout' \in Seq(StdoutLine) /\ stopped' \in BOOLEAN
      BY <1>0, <1>1, EmptySeq DEF Stop, AgentExits, AcpTypeOK
    <2>3. AcpTypeOK'
      BY <1>0, <2>1, <2>2 DEF AcpTypeOK
    <2>4. QED
      BY <1>0, <2>1, <2>3 DEF Place
  <1>2. CASE \E t \in Turn : Close(t)
    <2>1. PICK t \in Turn : Close(t)
      BY <1>2
    <2>2. [kind |-> "cancel"] \in StdinLine
      BY DEF StdinLine
    <2>3. stdin' \in Seq(StdinLine) /\ draining' \in {"none", "other"} /\ phase' # "drain"
      BY <1>0, <2>1, <2>2, OtherWritesFacts DEF Close
    <2>4. QED
      BY <1>0, <2>1, <2>3 DEF Close, OtherWrites, agent, AcpTypeOK, Place
  <1>3. CASE Respond
    <2>1. [kind |-> "permission"] \in StdinLine
      BY DEF StdinLine
    <2>2. stdin' \in Seq(StdinLine) /\ draining' \in {"none", "other"} /\ phase' # "drain"
      BY <1>0, <1>3, <2>1, OtherWritesFacts DEF Respond
    <2>3. QED
      BY <1>0, <1>3, <2>2 DEF Respond, OtherWrites, agent, AcpTypeOK, Place
  <1>4. CASE OtherFlushed \/ UNCHANGED vars
    <2>1. /\ UNCHANGED <<turn, at, phase, pending, reply, open, events, dead, late, given_up, eof,
                 closers, replies, stopped, proc, asked, stdin, stdout, sent, shown, outcome, expired>>
          /\ draining' = draining \/ (draining = "other" /\ draining' = "none")
      BY <1>4 DEF OtherFlushed, vars, client, others, agent
    <2>2. AcpTypeOK'
      BY <1>0, <2>1 DEF AcpTypeOK
    <2>3. QED
      BY <1>0, <2>1, <2>2 DEF Place
  <1>5. CASE Dispatch
    <2>1. stdout' \in Seq(StdoutLine)
      BY <1>0, <1>5, TailAt DEF Dispatch, AcpTypeOK
    <2>2. /\ pending' \subseteq pending /\ reply' \in {"none", "result", "error"}
          /\ replies' \in Nat
      BY <1>0, <1>5 DEF Dispatch, Answered, AcpTypeOK
    <2> DEFINE Kinds == {"update", "done", "error"}
    <2>3. events' = events \/ \E x \in Kinds : events' = Append(events, x)
      BY <1>5 DEF Dispatch, Answered
    <2>4. events' \in Seq(Kinds)
      <3>1. events \in Seq(Kinds)
        BY <1>0 DEF AcpTypeOK
      <3> HIDE DEF Kinds
      <3>2. QED
        BY <2>3, <3>1, AppendProperties
    <2>5. QED
      BY <1>0, <1>5, <2>1, <2>2, <2>4 DEF Dispatch, agent, AcpTypeOK, Place
  <1>6. CASE Eof
    <2>1. events' \in Seq({"update", "done", "error"})
      BY <1>0, <1>6, AppendProperties DEF Eof, AcpTypeOK
    <2>2. QED
      BY <1>0, <1>6, <2>1 DEF Eof, others, agent, AcpTypeOK, Place
  <1>7. CASE AgentReads
    <2>1. Head(stdin) \in StdinLine /\ stdin' \in Seq(StdinLine)
      BY <1>0, <1>7, TailAt DEF AgentReads, AcpTypeOK
    <2>2. asked' \subseteq Request
      BY <1>0, <1>7, <2>1 DEF AgentReads, AcpTypeOK, StdinLine
    <2>3. QED
      BY <1>0, <1>7, <2>1, <2>2 DEF AgentReads, client, others, AcpTypeOK, Place
  <1>8. CASE AgentAnswers \/ AgentUpdates \/ AgentAsks
    <2>1. PICK line \in StdoutLine : AgentSends(line)
      BY <1>0, <1>8, AgentLines DEF AgentAnswers, AgentUpdates, AgentAsks, AcpTypeOK, StdoutLine
    <2>2. stdout' \in Seq(StdoutLine)
      BY <1>0, <2>1, AppendProperties DEF AgentSends, AcpTypeOK
    <2>3. asked' \subseteq asked /\ sent' \in 0..MaxUpdate
      <3>1. sent \in 0..MaxUpdate /\ MaxUpdate \in Nat
        BY <1>0, WorkerAssumption DEF AcpTypeOK
      <3>2. asked' \subseteq asked /\ (sent' = sent \/ (sent' = sent + 1 /\ sent < MaxUpdate))
        BY <1>8 DEF AgentAnswers, AgentUpdates, AgentAsks
      <3>3. QED
        BY <3>1, <3>2
    <2>4. QED
      BY <1>0, <2>1, <2>2, <2>3 DEF AgentSends, client, others, AcpTypeOK, Place
  <1>9. QED
    BY <1>1, <1>2, <1>3, <1>4, <1>5, <1>6, <1>7, <1>8

-------------------------------------------------------------------------------
(* What each step does to the messages.                                      *)

\* Which lines are about turn t.
LEMMA LineKinds ==
  ASSUME NEW t \in Turn, NEW s \in Nat, NEW k \in Kind \cup {"cancel"}
  PROVE  /\ LineOf(t, k) \in PromptLine(s) <=> t = s /\ k = "prompt"
         /\ [kind |-> "cancel"] \notin PromptLine(s) /\ [kind |-> "permission"] \notin PromptLine(s)
         /\ s >= t => LineOf(t, k) \notin NewerIn(s)
         /\ [kind |-> "cancel"] \notin NewerIn(s) /\ [kind |-> "permission"] \notin NewerIn(s)
  BY DEF LineOf, PromptLine, NewerIn, Kind, Turn

LEMMA InKinds ==
  ASSUME NEW line \in StdinLine, NEW s \in Nat
  PROVE  /\ line \in PromptLine(s) <=> line.kind = "request" /\ line.id = <<s, "prompt">>
         /\ line \in NewerIn(s) <=> line.kind = "request" /\ line.id[1] > s
  BY DEF LineOf, PromptLine, NewerIn, StdinLine

LEMMA OutKinds ==
  ASSUME NEW line \in StdoutLine, NEW s \in Nat
  PROVE  /\ line \in EndLines(s) <=> line.kind = "answer" /\ line.id = <<s, "prompt">>
         /\ line \in UpdateLines(s) <=> line.kind = "update" /\ line.of = s
         /\ line \in NewerOut(s) <=> \/ line.kind = "answer" /\ line.id[1] > s
                                     \/ line.kind = "update" /\ line.of > s
         /\ line.kind = "answer" => line.id \in Request /\ line.ok \in BOOLEAN
         /\ line.kind = "update" => line.of \in Turn
  <1>1. line.kind = "answer" => line.id \in Request /\ line.ok \in BOOLEAN /\
          line = [kind |-> "answer", id |-> line.id, ok |-> line.ok]
    BY DEF StdoutLine
  <1>2. line.kind = "update" => line.of \in Turn /\ line = [kind |-> "update", of |-> line.of]
    BY DEF StdoutLine
  <1>3. line \in EndLines(s) <=> line.kind = "answer" /\ line.id = <<s, "prompt">>
    BY <1>1 DEF EndLines
  <1>4. line \in UpdateLines(s) <=> line.kind = "update" /\ line.of = s
    BY <1>2 DEF UpdateLines
  <1>5. QED
    BY <1>1, <1>2, <1>3, <1>4 DEF NewerOut

\* With the next turn, what was newer stays newer or is of that turn.
LEMMA NextTurn ==
  ASSUME NEW t \in Nat
  PROVE  /\ NewerIn(t + 1) \subseteq NewerIn(t) /\ NewerOut(t + 1) \subseteq NewerOut(t)
         /\ t + 1 \in Turn => PromptLine(t + 1) \subseteq NewerIn(t)
                              /\ EndLines(t + 1) \subseteq NewerOut(t)
                              /\ UpdateLines(t + 1) \subseteq NewerOut(t)
  <1>1. NewerIn(t + 1) \subseteq NewerIn(t)
    BY DEF NewerIn, StdinLine, Request, Turn
  <1>2. NewerOut(t + 1) \subseteq NewerOut(t)
    BY DEF NewerOut, StdoutLine, Request, Turn
  <1>3. ASSUME t + 1 \in Turn PROVE PromptLine(t + 1) \subseteq NewerIn(t)
    BY <1>3 DEF PromptLine, LineOf, NewerIn, StdinLine, Request, Kind
  <1>4. ASSUME t + 1 \in Turn PROVE EndLines(t + 1) \subseteq NewerOut(t)
    BY <1>4 DEF EndLines, NewerOut, StdoutLine, Request, Kind
  <1>5. ASSUME t + 1 \in Turn PROVE UpdateLines(t + 1) \subseteq NewerOut(t)
    BY <1>5 DEF UpdateLines, NewerOut, StdoutLine
  <1>6. QED
    BY <1>1, <1>2, <1>3, <1>4, <1>5

LEMMA HoldsMono ==
  ASSUME NEW s, NEW A, NEW B, A \subseteq B, ~Holds(s, B)
  PROVE  ~Holds(s, A)
  BY DEF Holds

\* The prompt is not written yet.
Early == Calling \/ (at = "prompt" /\ phase = "lock")

\* A step that writes a line or none, and otherwise leaves the messages alone.
Quiet ==
  /\ UNCHANGED <<turn, events, stdout, asked, sent, shown, stopped>>
  /\ \/ stdin' = stdin
     \/ \E line \in StdinLine :
          /\ stdin' = Append(stdin, line) /\ line \notin NewerIn(turn)
          /\ line \in PromptLine(turn) => Early /\ ~Early'
  /\ Early' => Early
  /\ at' = "prompt" => at = "prompt" \/ Early
  /\ at' # "idle" => at # "idle" /\ given_up' = given_up
  /\ \A id \in given_up' \ given_up : id[1] <= turn
  /\ outcome' \in {outcome, "failed"}

\* The writes of a turn are such steps.
LEMMA WriteQuiet ==
  ASSUME TurnInvariant, turn \in Turn, NEW k \in Kind \cup {"cancel"}, phase # "drain",
         Write(turn, k), k = "prompt" => Early
  PROVE  \/ stdin' = stdin
         \/ \E line \in StdinLine :
              /\ stdin' = Append(stdin, line) /\ line \notin NewerIn(turn)
              /\ line \in PromptLine(turn) => Early /\ ~Early'
  <1>1. AcpTypeOK /\ turn \in Nat
    BY DEF TurnInvariant, AcpTypeOK
  <1>2. /\ at' = k \/ (k = "cancel" /\ at' = "idle")
        /\ LineOf(turn, k) \in StdinLine
        /\ stdin' = stdin \/ (stdin' = Append(stdin, LineOf(turn, k)) /\ phase' # "lock")
    BY <1>1, Writes
  <1>3. LineOf(turn, k) \notin NewerIn(turn) /\ (LineOf(turn, k) \in PromptLine(turn) => k = "prompt")
    BY <1>1, LineKinds
  <1>4. stdin' # stdin /\ k = "prompt" => ~Early'
    BY <1>2 DEF Early, Calling
  <1>5. QED
    BY <1>2, <1>3, <1>4

LEMMA QuietSteps ==
  ASSUME TurnInvariant,
         \/ TakeLock \/ Flushed \/ Unsent \/ Resume \/ CallTimeout \/ PromptTimeout \/ Abandon
         \/ (\E t \in Turn : Close(t)) \/ Respond \/ OtherFlushed \/ UNCHANGED vars
  PROVE  Quiet
  <1>0. AcpTypeOK /\ Place /\ turn \in Nat /\ (at # "idle" => turn \in Turn)
    BY DEF TurnInvariant, AcpTypeOK, Place, Turn
  <1> USE DEF Calling, Early
  <1>1. CASE TakeLock
    <2>1. at \in Kind \cup {"cancel"} /\ phase # "drain" /\ turn \in Turn
      BY <1>0, <1>1 DEF TakeLock, AcpTypeOK
    <2>2. at' = at \/ (at = "cancel" /\ at' = "idle")
      BY <1>0, <1>1, <2>1, Writes DEF TakeLock
    <2>3. at = "prompt" => Early
      BY <1>1 DEF TakeLock
    <2>4. \/ stdin' = stdin
          \/ \E line \in StdinLine :
               /\ stdin' = Append(stdin, line) /\ line \notin NewerIn(turn)
               /\ line \in PromptLine(turn) => Early /\ ~Early'
      <3> HIDE DEF Early
      <3> QED BY <1>1, <2>1, <2>3, WriteQuiet DEF TakeLock
    <2>5. QED
      BY <1>1, <2>1, <2>2, <2>4 DEF TakeLock, Quiet, agent, Kind
  <1>2. CASE Flushed \/ Unsent
    BY <1>0, <1>2 DEF Flushed, Unsent, Sent, At, End, Quiet, agent, Mine
  <1>3. CASE PromptTimeout \/ OtherFlushed \/ UNCHANGED vars
    BY <1>3 DEF PromptTimeout, OtherFlushed, vars, client, End, At, Quiet, agent
  <1>4. CASE Resume
    <2>1. Early /\ turn \in Turn /\ phase # "drain" /\ at # "idle"
      BY <1>0, <1>4 DEF Resume
    <2>2. ASSUME NEW k \in {"setting", "prompt"}, Write(turn, k)
          PROVE  at' = k /\ (\/ stdin' = stdin
                             \/ \E line \in StdinLine :
                                  /\ stdin' = Append(stdin, line) /\ line \notin NewerIn(turn)
                                  /\ line \in PromptLine(turn) => Early /\ ~Early')
      <3>1. k \in Kind \cup {"cancel"} /\ k # "cancel"
        BY <2>2 DEF Kind
      <3>2. at' = k
        BY <1>0, <2>1, <2>2, <3>1, Writes
      <3> HIDE DEF Early
      <3> QED BY <2>1, <2>2, <3>1, <3>2, WriteQuiet
    <2>3. CASE End("failed") /\ UNCHANGED stdin
      BY <1>4, <2>1, <2>3 DEF Resume, End, At, Quiet, agent
    <2>4. CASE Call(turn, "setting") /\ UNCHANGED outcome
      BY <1>4, <2>1, <2>2, <2>4 DEF Resume, Call, Quiet, agent
    <2>5. CASE Prompt /\ UNCHANGED outcome
      BY <1>4, <2>1, <2>2, <2>5 DEF Resume, Prompt, Quiet, agent
    <2>6. QED
      BY <1>4, <2>3, <2>4, <2>5 DEF Resume
  <1>5. CASE CallTimeout
    <2>1. Early /\ turn \in Turn /\ phase # "drain" /\ at # "idle"
      BY <1>0, <1>5 DEF CallTimeout
    <2>2. CASE End("failed") /\ UNCHANGED stdin
      BY <1>5, <2>1, <2>2 DEF CallTimeout, End, At, Quiet, agent
    <2>3. CASE Prompt /\ UNCHANGED outcome
      <3>1. "prompt" \in Kind \cup {"cancel"}
        BY DEF Kind
      <3>2. at' = "prompt"
        BY <1>0, <2>1, <2>3, <3>1, Writes DEF Prompt
      <3>3. \/ stdin' = stdin
            \/ \E line \in StdinLine :
                 /\ stdin' = Append(stdin, line) /\ line \notin NewerIn(turn)
                 /\ line \in PromptLine(turn) => Early /\ ~Early'
        <4> HIDE DEF Early
        <4> QED BY <2>1, <2>3, <3>1, WriteQuiet DEF Prompt
      <3>4. QED
        BY <1>5, <2>1, <2>3, <3>2, <3>3 DEF CallTimeout, Quiet, agent
    <2>4. QED
      BY <1>5, <2>2, <2>3 DEF CallTimeout
  <1>6. CASE Abandon
    <2>1. turn \in Turn /\ at \in Kind
      BY <1>0, <1>6 DEF Abandon, AcpTypeOK
    <2>2. CASE at = "prompt" /\ phase = "wait" /\ Write(turn, "cancel") /\ outcome' = "failed"
               /\ UNCHANGED given_up
      <3>1. at' \in {"cancel", "idle"}
        BY <1>0, <2>1, <2>2, Writes
      <3>2. \/ stdin' = stdin
            \/ \E line \in StdinLine :
                 /\ stdin' = Append(stdin, line) /\ line \notin NewerIn(turn)
                 /\ line \in PromptLine(turn) => Early /\ ~Early'
        <4> HIDE DEF Early
        <4> QED BY <2>1, <2>2, WriteQuiet
      <3>3. QED
        BY <1>6, <2>1, <2>2, <3>1, <3>2 DEF Abandon, Quiet, agent
    <2>3. CASE at' = "idle" /\ outcome' = "failed" /\ UNCHANGED stdin
      BY <1>0, <1>6, <2>3 DEF Abandon, Quiet, agent, Mine
    <2>4. QED
      BY <1>6, <2>2, <2>3 DEF Abandon, End, At
  <1>7. CASE (\E t \in Turn : Close(t)) \/ Respond
    <2>1. PICK line \in {[kind |-> "cancel"], [kind |-> "permission"]} : OtherWrites(line)
      BY <1>7 DEF Close, Respond
    <2>2. line \in StdinLine /\ line \notin NewerIn(turn) /\ line \notin PromptLine(turn)
      BY <1>0, <2>1 DEF StdinLine, NewerIn, PromptLine, LineOf
    <2>3. stdin' = stdin \/ stdin' = Append(stdin, line)
      BY <1>0, <2>1, <2>2, OtherWritesFacts
    <2>4. UNCHANGED <<turn, at, phase, given_up, events, stdout, asked, sent, shown, stopped, outcome>>
      BY <2>1 DEF OtherWrites, agent
    <2>5. QED
      BY <2>2, <2>3, <2>4 DEF Quiet
  <1>8. QED
    BY <1>1, <1>2, <1>3, <1>4, <1>5, <1>6, <1>7

Messages == Numbered /\ Token /\ Unasked /\ Kept /\ Finished

LEMMA QuietInv ==
  ASSUME TurnInvariant, Quiet
  PROVE  Messages'
  <1>0. AcpTypeOK /\ Messages /\ turn \in Nat /\ sent \in Nat /\ shown \in Nat
        /\ stdin \in Seq(StdinLine) /\ stdout \in Seq(StdoutLine)
    BY DEF TurnInvariant, Messages, AcpTypeOK
  <1>1. /\ Reading' = Reading /\ Back' = Back /\ Coming' = Coming /\ Ended' = Ended /\ Held' = Held
        /\ UNCHANGED <<turn, events, stdout, asked, sent, shown, stopped>>
    BY DEF Quiet, Reading, Back, Coming, Ended, Held, Mine
  <1>2. /\ ~Holds(stdin', NewerIn(turn))
        /\ After(stdin', PromptLine(turn), PromptLine(turn))
        /\ Unread' => Unread \/ (Early /\ ~Early')
    <2>1. ~Holds(stdin, NewerIn(turn)) /\ After(stdin, PromptLine(turn), PromptLine(turn))
          /\ (Early => ~Unread)
      BY <1>0 DEF Messages, Numbered, Token, Unasked, Early
    <2>2. CASE stdin' = stdin
      BY <1>1, <2>1, <2>2 DEF Unread
    <2>3. ASSUME NEW line \in StdinLine, stdin' = Append(stdin, line), line \notin NewerIn(turn),
                 line \in PromptLine(turn) => Early /\ ~Early'
          PROVE  /\ ~Holds(stdin', NewerIn(turn))
                 /\ After(stdin', PromptLine(turn), PromptLine(turn))
                 /\ Unread' => Unread \/ (Early /\ ~Early')
      <3>1. ~Holds(stdin', NewerIn(turn))
        BY <1>0, <2>1, <2>3, HoldsAppend
      <3>2. Holds(stdin', PromptLine(turn)) <=> Holds(stdin, PromptLine(turn)) \/ line \in PromptLine(turn)
        BY <1>0, <2>3, HoldsAppend
      <3>3. After(stdin', PromptLine(turn), PromptLine(turn))
        BY <1>0, <2>1, <2>3, HoldsAppend DEF Unread
      <3>4. QED
        BY <1>1, <2>3, <3>1, <3>2, <3>3 DEF Unread
    <2>4. QED
      BY <2>2, <2>3 DEF Quiet
  <1>3. Numbered'
    BY <1>0, <1>1, <1>2 DEF Quiet, Messages, Numbered, Mine
  <1>4. Token'
    <2>1. Early => ~Reading /\ ~Back /\ ~Ended
      BY <1>0 DEF Messages, Unasked, Early
    <2>2. QED
      BY <1>0, <1>1, <1>2, <2>1 DEF Messages, Token
  <1>5. Unasked'
    <2>1. Early => ~Unread /\ ~Reading /\ ~Back /\ ~Ended /\ ~Coming
                   /\ sent = 0 /\ shown = 0 /\ ~Holds(events, {"update"})
      BY <1>0 DEF Messages, Unasked, Early
    <2>2. Early' => Early
      BY DEF Quiet
    <2>3. QED
      BY <1>1, <1>2, <2>1, <2>2 DEF Unasked, Early
  <1>6. Kept'
    <2>1. at' = "prompt" => at = "prompt" \/ Early
      BY DEF Quiet
    <2>2. ASSUME Early PROVE shown = 0 /\ sent = 0 /\ Held = 0
      <3>1. ~Holds(events, {"update"}) /\ ~Holds(stdout, UpdateLines(turn)) /\ sent = 0 /\ shown = 0
        BY <1>0, <2>2 DEF Messages, Unasked, Early, Coming
      <3>2. Count(events, {"update"}) = 0 /\ Count(stdout, UpdateLines(turn)) = 0
        BY <1>0, <3>1, CountType DEF AcpTypeOK
      <3>3. QED
        BY <3>1, <3>2 DEF Held
    <2>3. QED
      BY <1>0, <1>1, <2>1, <2>2 DEF Messages, Kept
  <1>7. Finished'
    <2>1. at' # "idle" => outcome' # "done"
      BY <1>0 DEF Quiet, Messages, Finished
    <2>2. ASSUME outcome' = "done" PROVE shown' = sent' /\ ~Reading' /\ ~Unread'
      <3>1. outcome = "done" /\ at = "idle"
        BY <1>0, <2>2 DEF Quiet, Messages, Finished
      <3>2. ~Early /\ ~Unread /\ ~Reading /\ shown = sent
        BY <1>0, <3>1 DEF Messages, Finished, Early, Calling
      <3>3. QED
        BY <1>1, <1>2, <3>2
    <2>3. QED
      BY <2>1, <2>2 DEF Finished
  <1>8. QED
    BY <1>3, <1>4, <1>5, <1>6, <1>7 DEF Messages

\* A new turn: its prompt is nowhere.
LEMMA StartTurnMessages ==
  ASSUME TurnInvariant, StartTurn
  PROVE  Messages'
  <1>0. AcpTypeOK /\ Place /\ Messages /\ turn \in Nat /\ turn' = turn + 1 /\ turn' \in Turn
        /\ turn' \in Nat /\ stdin \in Seq(StdinLine) /\ stdout \in Seq(StdoutLine)
    BY WorkerAssumption DEF TurnInvariant, Messages, AcpTypeOK, StartTurn, Turn
  <1>1. /\ UNCHANGED <<stdout, asked, given_up, stopped>> /\ events' = <<>>
        /\ sent' = 0 /\ shown' = 0 /\ outcome' = "none"
    BY DEF StartTurn, agent
  <1>2. /\ at' = "new" /\ (stdin' = stdin \/ stdin' = Append(stdin, LineOf(turn', "new")))
    BY <1>0, Writes DEF StartTurn, Call, Kind, AcpTypeOK
  <1>3. ~Holds(stdin, NewerIn(turn')) /\ ~Holds(stdin, PromptLine(turn'))
        /\ ~Holds(stdout, NewerOut(turn')) /\ ~Back' /\ ~Coming'
    BY <1>0, <1>1, NextTurn, HoldsMono DEF Messages, Numbered, Back, Coming
  <1>4. ~Holds(stdin', NewerIn(turn')) /\ ~Unread'
    <2>1. LineOf(turn', "new") \in StdinLine
      BY <1>0 DEF LineOf, StdinLine, Request, Kind
    <2>2. LineOf(turn', "new") \notin NewerIn(turn') /\ LineOf(turn', "new") \notin PromptLine(turn')
      BY <1>0, LineKinds DEF Kind
    <2>3. CASE stdin' = stdin
      BY <1>3, <2>3 DEF Unread
    <2>4. CASE stdin' = Append(stdin, LineOf(turn', "new"))
      BY <1>0, <1>3, <2>1, <2>2, <2>4, HoldsAppend DEF Unread
    <2>5. QED
      BY <1>2, <2>3, <2>4
  <1>5. ~Reading' /\ \A id \in asked' \cup given_up' : id[1] <= turn' /\ id[1] # turn'
    BY <1>0, <1>1 DEF Reading, Mine, Messages, Numbered, AcpTypeOK, Request, Turn
  <1>6. ~Ended' /\ ~Holds(events', {"update"}) /\ After(events', {"done"}, {"update"})
    BY <1>1, HoldsEmpty DEF Ended
  <1>7. Numbered'
    BY <1>1, <1>3, <1>4, <1>5 DEF Numbered, Mine
  <1>8. Token'
    <2>1. After(stdin', PromptLine(turn'), PromptLine(turn'))
      BY <1>4 DEF Unread, After, Holds
    <2>2. After(stdout', EndLines(turn'), EndLines(turn') \cup UpdateLines(turn'))
      BY <1>3 DEF Back, After, Holds
    <2>3. QED
      BY <1>3, <1>4, <1>5, <1>6, <2>1, <2>2 DEF Token
  <1>9. Unasked' /\ Kept' /\ Finished'
    BY <1>1, <1>2, <1>3, <1>4, <1>5, <1>6 DEF Unasked, Kept, Finished
  <1>10. QED
    BY <1>7, <1>8, <1>9 DEF Messages

\* An event reaches the consumer.
LEMMA YieldMessages ==
  ASSUME TurnInvariant, Yield
  PROVE  Messages'
  <1>0. AcpTypeOK /\ Messages /\ sent \in Nat /\ shown \in Nat
        /\ events \in Seq({"update", "done", "error"}) /\ events # <<>>
        /\ stdout \in Seq(StdoutLine) /\ at = "prompt" /\ phase = "wait"
    BY DEF TurnInvariant, Messages, AcpTypeOK, Yield
  <1>1. /\ UNCHANGED <<turn, stdin, stdout, asked, given_up, stopped, sent>> /\ events' = Tail(events)
        /\ at' \in {"idle", "prompt"} /\ (at' = "prompt" => phase' = "wait")
    BY <1>0 DEF Yield, agent, End, At
  <1>2. Unread' = Unread /\ Reading' = Reading /\ Back' = Back /\ Coming' = Coming
    BY <1>1 DEF Unread, Reading, Back, Coming, Mine
  <1>3. /\ Ended => (Head(events) = "done" \/ Ended') 
        /\ Ended' => Ended
        /\ After(events', {"done"}, {"update"})
        /\ Head(events) = "done" => Ended /\ ~Holds(events', {"update"})
    BY <1>0, <1>1, HoldsTail DEF Ended, Messages, Token
  <1>4. Numbered' /\ Token' /\ Unasked'
    BY <1>0, <1>1, <1>2, <1>3 DEF Messages, Numbered, Token, Unasked, Calling, Mine
  <1>5. /\ Head(events) = "update" => Count(events, {"update"}) = Count(events', {"update"}) + 1
        /\ Head(events) # "update" => Count(events, {"update"}) = Count(events', {"update"})
        /\ Count(events', {"update"}) \in Nat /\ Count(stdout, UpdateLines(turn)) \in Nat
        /\ ~Holds(events', {"update"}) => Count(events', {"update"}) = 0
        /\ ~Coming => Count(stdout, UpdateLines(turn)) = 0
        /\ Count(stdout', UpdateLines(turn')) = Count(stdout, UpdateLines(turn))
    <2>1. events' \in Seq({"update", "done", "error"})
      BY <1>0, <1>1, TailAt
    <2>2. /\ Head(events) = "update" => Count(events, {"update"}) = Count(events', {"update"}) + 1
          /\ Head(events) # "update" => Count(events, {"update"}) = Count(events', {"update"})
      BY <1>0, <1>1, CountTail
    <2>3. /\ Count(events', {"update"}) \in Nat
          /\ ~Holds(events', {"update"}) => Count(events', {"update"}) = 0
      BY <2>1, CountType
    <2>4. /\ Count(stdout, UpdateLines(turn)) \in Nat
          /\ ~Coming => Count(stdout, UpdateLines(turn)) = 0
      BY <1>0, CountType DEF Coming
    <2>5. QED
      BY <1>1, <2>2, <2>3, <2>4
  <1>6. CASE Head(events) = "update" /\ shown' = shown + 1 /\ UNCHANGED <<at, outcome>>
    <2>1. Held = Held' + 1 /\ Held' \in Nat /\ Held \in Nat
      BY <1>5, <1>6 DEF Held
    <2>2. Ended <=> Ended'
      BY <1>3, <1>6
    <2>3. shown + Held <= sent /\ (~stopped \/ Ended => shown + Held = sent)
      BY <1>0 DEF Messages, Kept
    <2>4. shown' + Held' = shown + Held /\ shown' <= sent'
      <3>1. shown \in Nat /\ sent \in Nat /\ sent' = sent /\ shown' = shown + 1
        BY <1>0, <1>1, <1>6
      <3>2. shown + Held <= sent
        BY <2>3
      <3>3. shown' + Held' = shown + Held
        BY <2>1, <3>1
      <3>4. shown + 1 <= sent
        <4>1. PICK h \in Nat : h = Held'
          BY <2>1
        <4>2. shown \in Nat /\ sent \in Nat /\ Held = h + 1
          BY <2>1, <3>1, <4>1
        <4>3. QED
          BY <3>2, <4>2
      <3>5. QED
        BY <3>1, <3>3, <3>4
    <2>5. sent' = sent /\ at' = at /\ at = "prompt"
      BY <1>0, <1>1, <1>6
    <2>6. Kept' /\ Finished'
      BY <1>0, <1>1, <1>2, <1>6, <2>2, <2>3, <2>4, <2>5 DEF Messages, Kept, Finished
    <2>7. QED
      BY <1>4, <2>6 DEF Messages
  <1>7. CASE Head(events) = "done" /\ outcome' = "done" /\ at' = "idle" /\ UNCHANGED shown
    <2>1. Ended /\ ~Coming /\ ~Unread /\ ~Reading /\ ~Holds(events', {"update"})
      BY <1>0, <1>3, <1>7 DEF Messages, Token
    <2>2. Held = 0
      <3>1. Count(events, {"update"}) = 0 /\ Count(stdout, UpdateLines(turn)) = 0
        BY <1>5, <1>7, <2>1
      <3>2. QED
        BY <3>1 DEF Held
    <2>3. shown = sent
      <3>1. shown \in Nat /\ shown + Held = sent
        BY <1>0, <2>1 DEF Messages, Kept
      <3>2. QED
        BY <2>2, <3>1
    <2>4. Kept' /\ Finished'
      BY <1>0, <1>1, <1>2, <1>7, <2>1, <2>3 DEF Messages, Kept, Finished
    <2>5. QED
      BY <1>4, <2>4 DEF Messages
  <1>8. CASE outcome' = "failed" /\ at' = "idle" /\ UNCHANGED shown
    <2>1. Kept' /\ Finished'
      BY <1>0, <1>1, <1>2, <1>8 DEF Messages, Kept, Finished
    <2>2. QED
      BY <1>4, <2>1 DEF Messages
  <1>9. QED
    BY <1>6, <1>7, <1>8 DEF Yield, End, At

\* What the reader and the pipes' other ends leave alone.
Still == UNCHANGED <<turn, at, phase, given_up, shown, outcome>>

LEMMA StillFacts ==
  Still => Mine("prompt")' = Mine("prompt") /\ (Early' <=> Early)
  BY DEF Still, Mine, Early, Calling

\* The reader takes an answer, an update or a question.
LEMMA DispatchMessages ==
  ASSUME TurnInvariant, Dispatch
  PROVE  Messages'
  <1> DEFINE line == Head(stdout)
  <1>0. AcpTypeOK /\ Messages /\ turn \in Nat /\ sent \in Nat /\ shown \in Nat /\ Place
        /\ events \in Seq({"update", "done", "error"})
        /\ stdout \in Seq(StdoutLine) /\ stdout # <<>> /\ ~stopped /\ line \in StdoutLine
        /\ stdout' = Tail(stdout) /\ stdout' \in Seq(StdoutLine)
    BY TailAt DEF TurnInvariant, Messages, AcpTypeOK, Dispatch
  <1>1. Still /\ UNCHANGED <<stdin, asked, sent, stopped>>
    BY DEF Still, Dispatch, agent
  <1>2. Unread' = Unread /\ Reading' = Reading
    BY <1>1, StillFacts DEF Unread, Reading, Still
  <1>3. /\ Back <=> line \in EndLines(turn) \/ Back'
        /\ Coming <=> line \in UpdateLines(turn) \/ Coming'
        /\ ~Holds(stdout', NewerOut(turn'))
        /\ After(stdout', EndLines(turn'), EndLines(turn') \cup UpdateLines(turn'))
        /\ line \in EndLines(turn) => ~Back' /\ ~Coming'
    <2>1. ~Holds(stdout, NewerOut(turn)) /\ turn' = turn
          /\ After(stdout, EndLines(turn), EndLines(turn) \cup UpdateLines(turn))
      BY <1>0, <1>1 DEF Messages, Numbered, Token, Still
    <2>2. /\ Back <=> line \in EndLines(turn) \/ Back'
          /\ Coming <=> line \in UpdateLines(turn) \/ Coming'
          /\ Holds(stdout, NewerOut(turn)) <=> line \in NewerOut(turn) \/ Holds(stdout', NewerOut(turn'))
      BY <1>0, <2>1, HoldsTail DEF Back, Coming
    <2>3. /\ After(stdout', EndLines(turn'), EndLines(turn') \cup UpdateLines(turn'))
          /\ line \in EndLines(turn) => ~Holds(stdout', EndLines(turn') \cup UpdateLines(turn'))
      BY <1>0, <2>1, HoldsTail
    <2>4. QED
      BY <2>1, <2>2, <2>3, HoldsMono DEF Back, Coming
  <1>4. \/ UNCHANGED events /\ (line \in UpdateLines(turn) => at # "prompt")
        \/ events' = Append(events, "update") /\ line \in UpdateLines(turn)
        \/ events' = Append(events, "error") /\ line \in EndLines(turn)
        \/ events' = Append(events, "done") /\ line \in EndLines(turn)
    <2>1. \A id \in Request : id[1] = turn /\ id[2] = "prompt" => id = <<turn, "prompt">>
      BY DEF Request
    <2>2. at = "prompt" => turn \in open
      BY <1>0 DEF Place
    <2>3. CASE line.kind = "answer"
      BY <1>0, <2>1, <2>3, OutKinds DEF Dispatch, Answered, Listens
    <2>4. CASE line.kind = "update"
      BY <1>0, <2>2, <2>4, OutKinds DEF Dispatch, Listens
    <2>5. CASE line.kind = "ask"
      BY <1>0, <2>5, OutKinds DEF Dispatch
    <2>6. QED
      BY <2>3, <2>4, <2>5 DEF Dispatch
  <1>5. line \in UpdateLines(turn) => line \notin EndLines(turn)
    BY <1>0, OutKinds
  <1>6. /\ Ended' <=> Ended \/ events' = Append(events, "done")
        /\ events' = Append(events, "done") => line \in EndLines(turn)
        /\ After(events', {"done"}, {"update"})
        /\ Holds(events', {"update"}) => Holds(events, {"update"}) \/ line \in UpdateLines(turn)
    <2>1. After(events, {"done"}, {"update"}) /\ (Ended => ~Coming)
      BY <1>0 DEF Messages, Token
    <2>2. /\ \A x \in {"update", "error", "done"} :
               /\ Holds(Append(events, x), {"done"}) <=> Holds(events, {"done"}) \/ x = "done"
               /\ Holds(Append(events, x), {"update"}) <=> Holds(events, {"update"}) \/ x = "update"
               /\ x # "update" \/ ~Ended => After(Append(events, x), {"done"}, {"update"})
      BY <1>0, <2>1, HoldsAppend DEF Ended
    <2>3. /\ Append(events, "update") # Append(events, "done")
          /\ Append(events, "error") # Append(events, "done") /\ events # Append(events, "done")
      BY <1>0, AppendAt, SeqDomain
    <2>4. CASE UNCHANGED events
      BY <2>1, <2>3, <2>4 DEF Ended
    <2>5. CASE events' = Append(events, "update") /\ line \in UpdateLines(turn)
      BY <1>3, <2>1, <2>2, <2>3, <2>5 DEF Ended
    <2>6. CASE events' = Append(events, "error") /\ line \in EndLines(turn)
      BY <2>2, <2>3, <2>6 DEF Ended
    <2>7. CASE events' = Append(events, "done") /\ line \in EndLines(turn)
      BY <2>2, <2>7 DEF Ended
    <2>8. QED
      BY <1>4, <2>4, <2>5, <2>6, <2>7
  <1>7. Numbered'
    BY <1>0, <1>1, <1>3 DEF Messages, Numbered, Still, Mine
  <1>8. Token'
    BY <1>0, <1>1, <1>2, <1>3, <1>6 DEF Messages, Token, Still
  <1>9. Unasked'
    <2>1. Early' => Early
      BY <1>1, StillFacts
    <2>2. Early => ~Unread /\ ~Reading /\ ~Back /\ ~Ended /\ ~Coming
                   /\ sent = 0 /\ shown = 0 /\ ~Holds(events, {"update"})
      BY <1>0 DEF Messages, Unasked, Early
    <2>3. Early' => ~Unread' /\ ~Reading' /\ ~Back' /\ ~Ended' /\ ~Coming'
                   /\ sent' = 0 /\ shown' = 0 /\ ~Holds(events', {"update"})
      BY <1>1, <1>2, <1>3, <1>6, <2>1, <2>2 DEF Still
    <2>4. QED
      BY <2>3 DEF Unasked, Early
  <1>10. Kept'
    <2> DEFINE out == Count(stdout, UpdateLines(turn))
               in  == Count(events, {"update"})
    <2>1. /\ line \in UpdateLines(turn) => out = out' + 1
          /\ line \notin UpdateLines(turn) => out = out'
          /\ out' \in Nat /\ in \in Nat
      BY <1>0, <1>1, CountTail, CountType DEF Still
    <2>2. /\ Count(Append(events, "update"), {"update"}) = in + 1
          /\ Count(Append(events, "error"), {"update"}) = in
          /\ Count(Append(events, "done"), {"update"}) = in
      BY <1>0, CountAppend
    <2>3. at = "prompt" => Held' = Held
      <3>1. \/ in' = in /\ (line \in UpdateLines(turn) => at # "prompt")
            \/ in' = in + 1 /\ line \in UpdateLines(turn)
        BY <1>4, <1>5, <2>2
      <3>2. Held = in + out /\ Held' = in' + out'
        BY DEF Held
      <3> HIDE DEF in, out
      <3>3. QED
        BY <2>1, <3>1, <3>2
    <2>4. QED
      BY <1>0, <1>1, <2>3 DEF Messages, Kept, Still
  <1>11. Finished'
    BY <1>0, <1>1, <1>2 DEF Messages, Finished, Still
  <1>12. QED
    BY <1>7, <1>8, <1>9, <1>10, <1>11 DEF Messages

\* The end of stdout reaches the queue as an error.
LEMMA EofMessages ==
  ASSUME TurnInvariant, Eof
  PROVE  Messages'
  <1>0. AcpTypeOK /\ Messages /\ events \in Seq({"update", "done", "error"})
    BY DEF TurnInvariant, Messages, AcpTypeOK
  <1>1. Still /\ UNCHANGED <<stdin, stdout, asked, sent, stopped>>
    BY DEF Still, Eof, agent
  <1>2. Unread' = Unread /\ Reading' = Reading /\ Back' = Back /\ Coming' = Coming
    BY <1>1, StillFacts DEF Unread, Reading, Back, Coming, Still
  <1>3. events' = events \/ events' = Append(events, "error")
    BY DEF Eof
  <1>4. /\ Ended' <=> Ended
        /\ Holds(events', {"update"}) <=> Holds(events, {"update"})
        /\ After(events, {"done"}, {"update"}) => After(events', {"done"}, {"update"})
        /\ Count(events', {"update"}) = Count(events, {"update"})
    <2>1. /\ Holds(Append(events, "error"), {"done"}) <=> Holds(events, {"done"})
          /\ Holds(Append(events, "error"), {"update"}) <=> Holds(events, {"update"})
          /\ After(events, {"done"}, {"update"}) => After(Append(events, "error"), {"done"}, {"update"})
      <3>1. "error" \notin {"done"} /\ "error" \notin {"update"}
        OBVIOUS
      <3>2. /\ Holds(Append(events, "error"), {"done"}) <=> Holds(events, {"done"}) \/ "error" \in {"done"}
            /\ Holds(Append(events, "error"), {"update"})
                 <=> Holds(events, {"update"}) \/ "error" \in {"update"}
        BY <1>0, HoldsAppend, Zenon
      <3>3. After(events, {"done"}, {"update"}) /\ (Holds(events, {"done"}) => "error" \notin {"update"})
              => After(Append(events, "error"), {"done"}, {"update"})
        BY <1>0, HoldsAppend, Zenon
      <3>4. QED
        BY <3>1, <3>2, <3>3
    <2>2. Count(Append(events, "error"), {"update"}) = Count(events, {"update"})
      BY <1>0, "error" \notin {"update"}, CountAppend
    <2>3. QED
      BY <1>3, <2>1, <2>2 DEF Ended
  <1>5. Held' = Held
    BY <1>1, <1>4 DEF Held, Still
  <1>6. Numbered' /\ Token' /\ Kept' /\ Finished'
    BY <1>0, <1>1, <1>2, <1>4, <1>5 DEF Messages, Numbered, Token, Kept, Finished, Still, Mine
  <1>7. Unasked'
    BY <1>0, <1>1, <1>2, <1>4, StillFacts DEF Messages, Unasked, Still, Early
  <1>8. QED
    BY <1>6, <1>7 DEF Messages

\* The pipes are emptied when the subprocess is stopped or exits.
LEMMA GoneMessages ==
  ASSUME TurnInvariant, Stop \/ AgentExits
  PROVE  Messages'
  <1>0. AcpTypeOK /\ Messages /\ stdout \in Seq(StdoutLine) /\ <<>> \in Seq(StdoutLine)
        /\ events \in Seq({"update", "done", "error"}) /\ sent \in Nat /\ shown \in Nat
    BY EmptySeq DEF TurnInvariant, Messages, AcpTypeOK
  <1>1. Still /\ UNCHANGED <<events, sent>> /\ asked' = {} /\ stdin' = <<>>
        /\ ((stdout' = <<>> /\ stopped') \/ UNCHANGED <<stdout, stopped>>)
    BY DEF Still, Stop, AgentExits, client
  <1>2. ~Unread' /\ ~Reading' /\ (Back' => Back) /\ (Coming' => Coming) /\ (Ended' <=> Ended)
    BY <1>1, HoldsEmpty DEF Unread, Reading, Back, Coming, Ended, Still
  <1>3. /\ ~Holds(stdin', NewerIn(turn')) /\ ~Holds(stdout', NewerOut(turn'))
        /\ After(stdin', PromptLine(turn'), PromptLine(turn'))
        /\ After(stdout', EndLines(turn'), EndLines(turn') \cup UpdateLines(turn'))
    BY <1>0, <1>1, HoldsEmpty DEF Messages, Numbered, Token, Still
  <1>4. Numbered' /\ Token' /\ Finished'
    BY <1>0, <1>1, <1>2, <1>3 DEF Messages, Numbered, Token, Finished, Still, Mine
  <1>5. Unasked'
    BY <1>0, <1>1, <1>2, StillFacts DEF Messages, Unasked, Still, Early
  <1>6. Kept'
    <2>1. CASE UNCHANGED <<stdout, stopped>>
      BY <1>0, <1>1, <1>2, <2>1 DEF Messages, Kept, Held, Still
    <2>2. CASE stdout' = <<>> /\ stopped'
      <3>1. /\ Count(events, {"update"}) \in Nat /\ Count(stdout, UpdateLines(turn)) \in Nat
            /\ Count(stdout', UpdateLines(turn')) = 0
            /\ ~Coming => Count(stdout, UpdateLines(turn)) = 0
        BY <1>0, <2>2, CountType, HoldsEmpty DEF Coming
      <3>2. Held' \in Nat /\ Held' <= Held /\ (Ended => Held' = Held)
        BY <1>0, <1>1, <3>1 DEF Held, Messages, Token, Still
      <3>3. Held \in Nat
        BY <3>1 DEF Held
      <3>4. shown <= sent /\ (at = "prompt" => shown + Held <= sent)
            /\ (at = "prompt" /\ Ended => shown + Held = sent)
        BY <1>0 DEF Messages, Kept
      <3>5. /\ at = "prompt" => shown + Held' <= sent
            /\ at = "prompt" /\ Ended => shown + Held' = sent
        <4>1. shown \in Nat /\ sent \in Nat
          BY <1>0
        <4>2. PICK h \in Nat : h = Held'
          BY <3>2
        <4>3. h <= Held /\ (Ended => h = Held)
          BY <3>2, <4>2
        <4>4. /\ at = "prompt" => shown + h <= sent
              /\ at = "prompt" /\ Ended => shown + h = sent
          BY <3>3, <3>4, <4>1, <4>3
        <4>5. QED
          BY <4>2, <4>4
      <3>6. QED
        BY <1>1, <1>2, <2>2, <3>4, <3>5 DEF Kept, Still
    <2>3. QED
      BY <1>1, <2>1, <2>2
  <1>7. QED
    BY <1>4, <1>5, <1>6 DEF Messages

\* kiro-cli reads a line.
LEMMA AgentReadsMessages ==
  ASSUME TurnInvariant, AgentReads
  PROVE  Messages'
  <1> DEFINE line == Head(stdin)
  <1>0. AcpTypeOK /\ Messages /\ turn \in Nat /\ stdin \in Seq(StdinLine) /\ stdin # <<>>
        /\ stdin' = Tail(stdin) /\ line \in StdinLine
    BY TailAt DEF TurnInvariant, Messages, AcpTypeOK, AgentReads
  <1>1. Still /\ UNCHANGED <<events, stdout, sent, stopped>>
    BY DEF Still, AgentReads, client
  <1>2. Back' = Back /\ Coming' = Coming /\ Ended' = Ended /\ Held' = Held
    BY <1>1 DEF Back, Coming, Ended, Held, Still
  <1>3. /\ Unread <=> line \in PromptLine(turn) \/ Unread'
        /\ ~Holds(stdin', NewerIn(turn')) /\ line \notin NewerIn(turn)
        /\ After(stdin', PromptLine(turn'), PromptLine(turn'))
        /\ line \in PromptLine(turn) => ~Unread'
    BY <1>0, <1>1, HoldsTail DEF Messages, Numbered, Token, Unread, Still
  <1>4. Reading' <=> Reading \/ line \in PromptLine(turn)
    BY <1>0, <1>1, InKinds DEF AgentReads, Reading, Mine, Still
  <1>5. \A id \in asked' \cup given_up' : id[1] <= turn'
    <2>1. line.kind = "request" => line.id \in Request /\ line.id[1] <= turn
      BY <1>0, <1>3, InKinds DEF StdinLine, Request, Turn
    <2>2. QED
      BY <1>0, <1>1, <2>1 DEF AgentReads, Messages, Numbered, Still
  <1>6. Numbered'
    BY <1>0, <1>1, <1>3, <1>5 DEF Messages, Numbered, Still, Mine
  <1>7. Token'
    BY <1>0, <1>1, <1>2, <1>3, <1>4 DEF Messages, Token, Still
  <1>8. Unasked'
    BY <1>0, <1>1, <1>2, <1>3, <1>4, StillFacts DEF Messages, Unasked, Still, Early
  <1>9. Kept' /\ Finished'
    BY <1>0, <1>1, <1>2, <1>3, <1>4 DEF Messages, Kept, Finished, Still
  <1>10. QED
    BY <1>6, <1>7, <1>8, <1>9 DEF Messages

\* kiro-cli writes a line: the answer to what it was asked, an update of a prompt
\* it has not answered, or a question.
LEMMA AgentSendsMessages ==
  ASSUME TurnInvariant, AgentAnswers \/ AgentUpdates \/ AgentAsks
  PROVE  Messages'
  <1>0. AcpTypeOK /\ Messages /\ turn \in Nat /\ stdout \in Seq(StdoutLine)
        /\ sent \in Nat /\ shown \in Nat /\ events \in Seq({"update", "done", "error"})
    BY DEF TurnInvariant, Messages, AcpTypeOK
  <1>1. PICK line \in StdoutLine :
          /\ AgentSends(line) /\ line \notin NewerOut(turn)
          /\ line \in EndLines(turn) => Reading /\ ~Reading'
          /\ line \in UpdateLines(turn) => Reading /\ Reading' /\ sent' = sent + 1
          /\ line \notin UpdateLines(turn) => sent' = sent
          /\ Reading' => Reading /\ line \notin EndLines(turn)
          /\ asked' \subseteq asked
    <2>1. CASE AgentAnswers
      <3>1. PICK id \in asked, ok \in BOOLEAN :
              /\ asked' = asked \ {id} /\ UNCHANGED sent
              /\ AgentSends([kind |-> "answer", id |-> id, ok |-> ok])
        BY <2>1 DEF AgentAnswers
      <3> DEFINE l == [kind |-> "answer", id |-> id, ok |-> ok]
      <3>2. id \in Request /\ id[1] \in Nat /\ id[1] <= turn
        BY <1>0 DEF Messages, Numbered, AcpTypeOK, Request, Turn
      <3>3. l \in StdoutLine
        BY <3>2 DEF StdoutLine
      <3>4. l.kind = "answer" /\ l.id = id
        OBVIOUS
      <3>5. /\ l \in EndLines(turn) <=> id = <<turn, "prompt">>
            /\ l \notin UpdateLines(turn) /\ l \notin NewerOut(turn)
        <4> HIDE DEF l
        <4>1. l \in EndLines(turn) <=> id = <<turn, "prompt">>
          BY <1>0, <3>3, <3>4, OutKinds
        <4>2. l \notin UpdateLines(turn)
          BY <1>0, <3>3, <3>4, OutKinds
        <4>3. l \in NewerOut(turn) => id[1] > turn
          BY <1>0, <3>3, <3>4, OutKinds
        <4>4. QED
          BY <1>0, <3>2, <4>1, <4>2, <4>3
      <3>6. turn' = turn
        BY <3>1 DEF AgentSends, client
      <3>7. QED
        BY <3>1, <3>3, <3>5, <3>6 DEF Reading, Mine
    <2>2. CASE AgentUpdates
      <3>1. PICK t \in Turn :
              /\ <<t, "prompt">> \in asked /\ UNCHANGED asked
              /\ sent' = IF t = turn THEN sent + 1 ELSE sent
              /\ AgentSends([kind |-> "update", of |-> t])
        BY <2>2 DEF AgentUpdates
      <3> DEFINE l == [kind |-> "update", of |-> t]
      <3>2. t \in Nat /\ t <= turn
        BY <1>0, <3>1 DEF Messages, Numbered, Turn
      <3>3. l \in StdoutLine
        BY DEF StdoutLine
      <3>4. l.kind = "update" /\ l.of = t
        OBVIOUS
      <3>5. /\ l \in UpdateLines(turn) <=> t = turn
            /\ l \notin EndLines(turn) /\ l \notin NewerOut(turn)
        <4> HIDE DEF l
        <4> QED BY <1>0, <3>2, <3>3, <3>4, OutKinds
      <3>6. turn' = turn
        BY <3>1 DEF AgentSends, client
      <3>7. QED
        BY <3>1, <3>3, <3>5, <3>6 DEF Reading, Mine
    <2>3. CASE AgentAsks
      <3> DEFINE l == [kind |-> "ask"]
      <3>1. l \in StdoutLine
        BY DEF StdoutLine
      <3>2. l.kind = "ask"
        OBVIOUS
      <3>3. l \notin UpdateLines(turn) /\ l \notin EndLines(turn) /\ l \notin NewerOut(turn)
        <4> HIDE DEF l
        <4> QED BY <1>0, <3>1, <3>2, OutKinds
      <3>4. turn' = turn /\ asked' = asked /\ sent' = sent /\ AgentSends(l)
        BY <2>3 DEF AgentAsks, AgentSends, client
      <3>5. QED
        BY <3>1, <3>3, <3>4 DEF Reading, Mine
    <2>4. QED
      BY <2>1, <2>2, <2>3
  <1>2. Still /\ UNCHANGED <<events, stdin, stopped>> /\ stdout' = Append(stdout, line)
    BY <1>1 DEF Still, AgentSends, client
  <1>3. Unread' = Unread /\ Ended' = Ended
    BY <1>2 DEF Unread, Ended, Still
  <1>4. /\ Back' <=> Back \/ line \in EndLines(turn)
        /\ Coming' <=> Coming \/ line \in UpdateLines(turn)
        /\ ~Holds(stdout', NewerOut(turn'))
    BY <1>0, <1>1, <1>2, HoldsAppend DEF Back, Coming, Still, Messages, Numbered
  <1>5. After(stdout', EndLines(turn'), EndLines(turn') \cup UpdateLines(turn'))
    <2>1. line \in EndLines(turn) \cup UpdateLines(turn) => ~Back
      BY <1>0, <1>1 DEF Messages, Token
    <2>2. After(stdout, EndLines(turn), EndLines(turn) \cup UpdateLines(turn))
      BY <1>0 DEF Messages, Token
    <2>3. QED
      BY <1>0, <1>2, <2>1, <2>2, HoldsAppend DEF Back, Still
  <1>6. Numbered'
    BY <1>0, <1>1, <1>2, <1>4 DEF Messages, Numbered, Still, Mine
  <1>7. Token'
    BY <1>0, <1>1, <1>2, <1>3, <1>4, <1>5 DEF Messages, Token, Still
  <1>8. Unasked'
    BY <1>0, <1>1, <1>2, <1>3, <1>4, StillFacts, Zenon DEF Messages, Unasked, Still, Early
  <1>9. Kept'
    <2> DEFINE out == Count(stdout, UpdateLines(turn))
               in  == Count(events, {"update"})
    <2>1. /\ line \in UpdateLines(turn) => out' = out + 1
          /\ line \notin UpdateLines(turn) => out' = out
          /\ out \in Nat /\ in \in Nat /\ in' = in
      BY <1>0, <1>2, CountAppend, CountType DEF Still
    <2>2. Held = in + out /\ Held' = in' + out'
      BY DEF Held
    <2> HIDE DEF in, out
    <2>3. /\ Held \in Nat /\ Held' \in Nat
          /\ \/ Held' = Held /\ sent' = sent
             \/ Held' = Held + 1 /\ sent' = sent + 1
      <3>1. \/ line \in UpdateLines(turn) /\ sent' = sent + 1
            \/ line \notin UpdateLines(turn) /\ sent' = sent
        BY <1>1
      <3>2. PICK o \in Nat, h \in Nat : o = out' /\ h = Held'
        BY <2>1, <2>2
      <3>3. CASE line \in UpdateLines(turn) /\ sent' = sent + 1
        <4>1. o = out + 1 /\ h = in + o /\ Held = in + out /\ out \in Nat /\ in \in Nat
          BY <2>1, <2>2, <3>2, <3>3
        <4>2. Held \in Nat /\ h = Held + 1
          BY <3>2, <4>1
        <4>3. QED
          BY <3>2, <3>3, <4>2
      <3>4. CASE line \notin UpdateLines(turn) /\ sent' = sent
        <4>1. Held \in Nat /\ Held' = Held
          BY <2>1, <2>2, <3>4
        <4>2. QED
          BY <3>4, <4>1
      <3>5. QED
        BY <3>1, <3>3, <3>4
    <2>4. shown <= sent /\ (at = "prompt" => shown + Held <= sent)
          /\ (at = "prompt" /\ (~stopped \/ Ended) => shown + Held = sent)
      BY <1>0 DEF Messages, Kept
    <2>5. shown <= sent' /\ (at = "prompt" => shown + Held' <= sent')
          /\ (at = "prompt" /\ (~stopped \/ Ended) => shown + Held' = sent')
      <3>1. shown \in Nat /\ sent \in Nat
        BY <1>0
      <3>2. CASE Held' = Held /\ sent' = sent
        BY <2>4, <3>2
      <3>3. CASE Held' = Held + 1 /\ sent' = sent + 1
        <4>1. /\ shown <= sent + 1 /\ (at = "prompt" => shown + (Held + 1) <= sent + 1)
              /\ (at = "prompt" /\ (~stopped \/ Ended) => shown + (Held + 1) = sent + 1)
          BY <2>3, <2>4, <3>1
        <4>2. QED
          BY <3>3, <4>1
      <3>4. QED
        BY <2>3, <3>2, <3>3
    <2>6. QED
      BY <1>2, <1>3, <2>5 DEF Kept, Still
  <1>10. Finished'
    BY <1>0, <1>1, <1>2, <1>3 DEF Messages, Finished, Still
  <1>11. QED
    BY <1>6, <1>7, <1>8, <1>9, <1>10 DEF Messages

\* A call that begins: it can be found, and it is late after the end of stdout.
LEMMA CallFast ==
  ASSUME NEW t, NEW k \in {"new", "setting"}, Call(t, k), turn' = t,
         UNCHANGED <<eof, given_up>>, <<t, k>> \notin given_up
  PROVE  Fast'
  <1>1. at' = k /\ <<t, k>> \in pending' /\ late' = eof
    BY WriteMoves DEF Call
  <1>2. QED
    BY <1>1 DEF Fast, Calling, Mine

\* What each step does to the call in progress and to the end of stdout.
LEMMA FastInv ==
  ASSUME TurnInvariant, [Next]_vars
  PROVE  Fast'
  <1>0. AcpTypeOK /\ Place /\ Numbered /\ Fast /\ turn \in Nat /\ (at # "idle" => turn \in Turn)
        /\ events \in Seq({"update", "done", "error"})
    BY DEF TurnInvariant, AcpTypeOK, Place, Turn
  <1>1. CASE StartTurn
    <2>1. <<turn + 1, "new">> \notin given_up /\ turn' = turn + 1
      BY <1>0, <1>1 DEF Numbered, StartTurn
    <2>2. QED
      BY <1>1, <2>1, CallFast DEF StartTurn
  <1>2. CASE TakeLock \/ Flushed
    <2>1. UNCHANGED <<turn, pending, reply, given_up, eof, late, events>>
      BY <1>2 DEF TakeLock, Flushed
    <2>2. at' = at \/ (at = "cancel" /\ at' = "idle")
      BY <1>2, WriteMoves DEF TakeLock, Flushed, Sent, At
    <2>3. QED
      BY <1>0, <2>1, <2>2 DEF Fast, Calling, Mine
  <1>3. CASE Unsent \/ PromptTimeout
    BY <1>3 DEF Unsent, PromptTimeout, End, At, Fast, Calling
  <1>4. CASE Resume
    <2>1. UNCHANGED <<turn, given_up, eof>> /\ <<turn, "setting">> \notin given_up
      BY <1>0, <1>4 DEF Resume, Numbered, Calling, Kind, Mine
    <2>2. CASE Call(turn, "setting")
      BY <2>1, <2>2, CallFast
    <2>3. CASE Prompt \/ End("failed")
      BY <2>1, <2>3, WriteMoves DEF Prompt, End, At, Fast, Calling
    <2>4. QED
      BY <1>4, <2>2, <2>3 DEF Resume
  <1>5. CASE CallTimeout
    BY <1>5, WriteMoves DEF CallTimeout, Prompt, End, At, Fast, Calling
  <1>6. CASE Abandon
    <2>1. at' \in {"idle", "cancel"}
      BY <1>6, WriteMoves DEF Abandon, End, At
    <2>2. QED
      BY <2>1 DEF Fast, Calling
  <1>7. CASE Yield
    <2>1. UNCHANGED <<turn, pending, reply, given_up, eof, late>> /\ at = "prompt"
          /\ events # <<>> /\ events' = Tail(events)
          /\ (Head(events) = "update" \/ at' = "idle") /\ at' \in {"prompt", "idle"}
      BY <1>7 DEF Yield, End, At
    <2>2. Holds(events, {"done", "error"}) =>
            Head(events) \in {"done", "error"} \/ Holds(events', {"done", "error"})
      BY <1>0, <2>1, HoldsTail
    <2>3. QED
      BY <1>0, <2>1, <2>2 DEF Fast, Calling
  <1>8. CASE Dispatch
    <2>1. UNCHANGED <<turn, at, given_up, eof, late>>
      BY <1>8 DEF Dispatch
    <2>2. \A x : Holds(events, {"done", "error"}) => Holds(Append(events, x), {"done", "error"})
      BY <1>0, HoldsAppend
    <2>3. \E x : events' = events \/ events' = Append(events, x)
      BY <1>8 DEF Dispatch, Answered
    <2>4. CASE UNCHANGED <<pending, reply>>
      BY <1>0, <2>1, <2>2, <2>3, <2>4 DEF Fast, Calling, Mine
    <2>5. ASSUME NEW id, NEW ok, Answered(id, ok)
          PROVE  Fast'
      <3>1. /\ pending' = pending \ {id}
            /\ id \in pending \ given_up => reply' # "none"
            /\ id \notin pending \ given_up => reply' = reply
        BY <2>5 DEF Answered
      <3>2. QED
        BY <1>0, <2>1, <2>2, <2>3, <3>1 DEF Fast, Calling, Mine
    <2>6. QED
      BY <1>8, <2>4, <2>5 DEF Dispatch
  <1>9. CASE Eof
    <2>1. UNCHANGED <<turn, at, late>> /\ ~eof /\ eof'
          /\ (pending \ given_up # {} => reply' = "error")
          /\ (pending \ given_up = {} => reply' = reply)
      BY <1>9 DEF Eof
    <2>2. at = "prompt" => events' = Append(events, "error")
      BY <1>0, <1>9 DEF Eof, Listens, Place
    <2>3. Holds(Append(events, "error"), {"done", "error"})
      BY <1>0, HoldsAppend
    <2>4. QED
      BY <1>0, <2>1, <2>2, <2>3 DEF Fast, Calling
  <1>10. CASE \/ Stop \/ (\E t \in Turn : Close(t)) \/ Respond \/ OtherFlushed \/ AgentReads
              \/ AgentAnswers \/ AgentUpdates \/ AgentAsks \/ AgentExits \/ UNCHANGED vars
    <2>1. UNCHANGED <<turn, at, pending, reply, given_up, eof, late, events>>
      BY <1>10 DEF Stop, Close, Respond, OtherWrites, OtherFlushed, AgentReads, AgentSends,
           AgentAnswers, AgentUpdates, AgentAsks, AgentExits, vars, client
    <2>2. QED
      BY <1>0, <2>1 DEF Fast, Calling, Mine
  <1>11. QED
    BY <1>1, <1>2, <1>3, <1>4, <1>5, <1>6, <1>7, <1>8, <1>9, <1>10 DEF Next, TurnStep

LEMMA TurnInit == Init => TurnInvariant
  <1> SUFFICES ASSUME Init PROVE TurnInvariant
    OBVIOUS
  <1>1. AcpTypeOK
    <2>1. /\ <<>> \in Seq(StdinLine) /\ <<>> \in Seq(StdoutLine)
          /\ <<>> \in Seq({"update", "done", "error"})
      BY EmptySeq
    <2>2. 0 \in 0..MaxTurn /\ 0 \in 0..MaxUpdate
      BY WorkerAssumption
    <2>3. QED
      BY <2>1, <2>2 DEF Init, AcpTypeOK
  <1>2. /\ ~Unread /\ ~Reading /\ ~Back /\ ~Coming /\ ~Ended
        /\ \A A, B : ~Holds(stdin, A) /\ After(stdin, A, B) /\ ~Holds(stdout, A)
                     /\ After(stdout, A, B) /\ ~Holds(events, A) /\ After(events, A, B)
    BY HoldsEmpty DEF Init, Unread, Reading, Back, Coming, Ended
  <1>3. Place /\ Numbered /\ Token /\ Unasked /\ Kept /\ Finished /\ Fast
    BY <1>2 DEF Init, Place, Numbered, Token, Unasked, Kept, Finished, Fast, Calling
  <1>4. QED
    BY <1>1, <1>3 DEF TurnInvariant

LEMMA TurnNext == TurnInvariant /\ [Next]_vars => TurnInvariant'
  <1> SUFFICES ASSUME TurnInvariant, [Next]_vars PROVE TurnInvariant'
    OBVIOUS
  <1>1. AcpTypeOK' /\ Place'
    BY TurnTypes, OtherTypes DEF Next
  <1>2. Messages'
    <2>1. CASE \/ TakeLock \/ Flushed \/ Unsent \/ Resume \/ CallTimeout \/ PromptTimeout
               \/ Abandon \/ (\E t \in Turn : Close(t)) \/ Respond \/ OtherFlushed
               \/ UNCHANGED vars
      BY <2>1, QuietSteps, QuietInv
    <2>2. CASE StartTurn \/ Yield \/ Dispatch \/ Eof
      BY <2>2, StartTurnMessages, YieldMessages, DispatchMessages, EofMessages
    <2>3. CASE \/ Stop \/ AgentExits \/ AgentReads
               \/ AgentAnswers \/ AgentUpdates \/ AgentAsks
      BY <2>3, GoneMessages, AgentReadsMessages, AgentSendsMessages
    <2>4. QED
      BY <2>1, <2>2, <2>3 DEF Next, TurnStep
  <1>3. Fast'
    BY FastInv
  <1>4. QED
    BY <1>1, <1>2, <1>3 DEF TurnInvariant, Messages

LEMMA TurnFacts == TurnInvariant => DoneComplete /\ FailFast
  <1>1. TurnInvariant => DoneComplete
    BY DEF TurnInvariant, Finished, DoneComplete
  <1>2. ASSUME TurnInvariant, eof, phase = "wait", ~late
        PROVE  IF at = "prompt" THEN \E i \in DOMAIN events : events[i] \in {"done", "error"}
                                ELSE reply # "none"
    <2>1. at = "prompt" \/ Calling
      BY <1>2 DEF TurnInvariant, AcpTypeOK, Place, Kind, Calling
    <2>2. QED
      BY <1>2, <2>1 DEF TurnInvariant, Fast, Holds, Calling
  <1>3. QED
    BY <1>1, <1>2 DEF FailFast

\* The types, the write lock's owner and the numbers of the pending requests, in
\* every state of every worker.
THEOREM AcpTypes == Spec => []AcpTypeOK
  <1>1. TurnInvariant => AcpTypeOK
    BY DEF TurnInvariant
  <1>2. QED
    BY <1>1, TurnInit, TurnNext, PTL DEF Spec

\* A turn that ends normally has shown its consumer every update that kiro-cli
\* sent for it, however the writes, the reads and the two pipes interleave.
THEOREM AcpDoneComplete == Spec => []DoneComplete
  BY TurnInit, TurnNext, TurnFacts, PTL DEF Spec

\* The end of stdout reaches every request that was registered before it.
THEOREM AcpFailFast == Spec => []FailFast
  BY TurnInit, TurnNext, TurnFacts, PTL DEF Spec

==============================================================================
