--------------------------- MODULE RateLimit_proofs ---------------------------
(* What TLAPS proves of RateLimit for all clients, limits, windows and times. *)
EXTENDS RateLimit, TLAPS, SequenceTheorems

-------------------------------------------------------------------------------
(* One client's bucket b against the history a of its admitted requests: b is *)
(* the end of a, and what is missing from b expired.                          *)
Log(a, b) ==
  /\ Len(b) <= Len(a) /\ Len(b) <= Limit
  /\ \A i \in 1..Len(b) : b[i] = a[Len(a) - Len(b) + i]
  /\ \A i \in 1..(Len(a) - Len(b)) : Expired(a[i])
  /\ \A i \in 1..Len(a) : a[i] <= now

Spread(a) ==
  \A i, j \in 1..Len(a) : j = i + Limit => a[j] - a[i] > WindowTicks

LogInv == \A c \in Client : Log(admitted[c], hits[c]) /\ Spread(admitted[c])

\* The length of the empty log.
LEMMA EmptyLen == Len(<<>>) = 0
  BY EmptySeq

\* A log with a length is not empty.
LEMMA NonEmpty == ASSUME NEW s, Len(s) # 0 PROVE s # <<>>
  BY EmptyLen, Zenon

\* A window is at least one tick long.
LEMMA WindowType == WindowTicks \in Nat /\ WindowTicks > 0
  BY RateAssumption DEF WindowTicks

\* The popleft loop only takes expired entries off a bucket.
LEMMA DropKeepsLog ==
  ASSUME NEW a \in Seq(Nat), NEW b \in Seq(Nat), NEW k \in 0..Len(b),
         Log(a, b), Drops(b, k), now \in Nat
  PROVE  /\ SubSeq(b, k + 1, Len(b)) \in Seq(Nat)
         /\ Len(SubSeq(b, k + 1, Len(b))) = Len(b) - k
         /\ \A i \in 1..(Len(b) - k) : SubSeq(b, k + 1, Len(b))[i] = b[k + i]
         /\ Log(a, SubSeq(b, k + 1, Len(b)))
  <1> DEFINE r == SubSeq(b, k + 1, Len(b))
             d == Len(a) - Len(b)
  <1>1. /\ Len(a) \in Nat /\ Len(b) \in Nat /\ k \in Nat /\ k <= Len(b)
        /\ \A i \in 1..Len(b) : b[i] \in Nat
        /\ \A i \in 1..Len(a) : a[i] \in Nat
    BY LenProperties
  <1>2. /\ r \in Seq(Nat) /\ Len(r) = Len(b) - k
        /\ \A i \in 1..(Len(b) - k) : r[i] = b[k + i]
    <2>1. \A i \in (k + 1)..Len(b) : b[i] \in Nat
      BY <1>1
    <2>2. /\ r \in Seq(Nat)
          /\ Len(r) = IF k + 1 <= Len(b) THEN Len(b) - (k + 1) + 1 ELSE 0
          /\ \A i \in 1..(Len(b) - (k + 1) + 1) : r[i] = b[(k + 1) + i - 1]
      BY <1>1, <2>1, SubSeqProperties
    <2>3. QED
      BY <1>1, <2>2
  <1>3. \A i \in 1..(Len(b) - k) : r[i] = a[d + k + i]
    <2> TAKE i \in 1..(Len(b) - k)
    <2>1. k + i \in 1..Len(b) /\ d + (k + i) = d + k + i
      BY <1>1
    <2>2. QED
      BY <1>2, <2>1 DEF Log
  <1>4. \A i \in 1..(d + k) : Expired(a[i])
    <2> TAKE i \in 1..(d + k)
    <2>1. CASE i <= d
      BY <1>1, <2>1 DEF Log
    <2>2. CASE i > d
      <3>1. i - d \in 1..k /\ i - d \in 1..Len(b) /\ d + (i - d) = i
        BY <1>1, <2>2 DEF Log
      <3>2. Expired(b[i - d])
        BY <3>1 DEF Drops
      <3>3. b[i - d] = a[i]
        BY <3>1 DEF Log
      <3>4. QED
        BY <3>2, <3>3
    <2>3. QED
      BY <1>1, <2>1, <2>2
  <1>5. Log(a, r)
    <2> DEFINE n == Len(a)
               q == Len(r)
    <2> HIDE DEF r
    <2>a. Len(b) <= n /\ Len(b) <= Limit /\ Limit \in Nat
      BY RateAssumption DEF Log
    <2>1. n \in Nat /\ q = Len(b) - k /\ n - q = d + k /\ q <= n /\ q <= Limit
      BY <1>1, <1>2, <2>a
    <2>2. \A i \in 1..q : r[i] = a[n - q + i]
      BY <1>3, <2>1
    <2>3. \A i \in 1..(n - q) : Expired(a[i])
      BY <1>4, <2>1
    <2>4. \A i \in 1..n : a[i] <= now
      BY DEF Log
    <2>5. QED
      BY <2>1, <2>2, <2>3, <2>4 DEF Log
  <1>6. QED
    BY <1>2, <1>5

\* An admitted request lengthens the history and its bucket alike, and the
\* request Limit places before it has left the bucket.
LEMMA AppendKeepsLog ==
  ASSUME NEW a \in Seq(Nat), NEW b \in Seq(Nat), now \in Nat,
         Log(a, b), Spread(a), Len(b) < Limit
  PROVE  Log(Append(a, now), Append(b, now)) /\ Spread(Append(a, now))
  <1> DEFINE x == Append(a, now)
             y == Append(b, now)
             d == Len(a) - Len(b)
  <1>1. /\ Len(a) \in Nat /\ Len(b) \in Nat /\ Limit \in Nat \ {0}
        /\ \A i \in 1..Len(a) : a[i] \in Nat
        /\ WindowTicks \in Nat /\ WindowTicks > 0
    BY LenProperties, RateAssumption, WindowType
  <1>2. /\ Len(x) = Len(a) + 1 /\ x[Len(a) + 1] = now
        /\ \A i \in 1..Len(a) : x[i] = a[i]
    BY AppendProperties
  <1>3. /\ Len(y) = Len(b) + 1 /\ y[Len(b) + 1] = now
        /\ \A i \in 1..Len(b) : y[i] = b[i]
    BY AppendProperties
  <1>4. Len(x) - Len(y) = d /\ Len(y) <= Len(x) /\ Len(y) <= Limit
    BY <1>1, <1>2, <1>3 DEF Log
  <1>5. \A i \in 1..Len(y) : y[i] = x[d + i]
    <2> TAKE i \in 1..Len(y)
    <2>1. CASE i = Len(b) + 1
      BY <1>1, <1>2, <1>3, <2>1
    <2>2. CASE i # Len(b) + 1
      <3>1. i \in 1..Len(b) /\ d + i \in 1..Len(a)
        BY <1>1, <1>3, <2>2 DEF Log
      <3>2. QED
        BY <1>2, <1>3, <3>1 DEF Log
    <2>3. QED
      BY <2>1, <2>2
  <1>6. \A i \in 1..d : Expired(x[i])
    BY <1>1, <1>2 DEF Log
  <1>7. \A i \in 1..Len(x) : x[i] <= now
    BY <1>1, <1>2 DEF Log
  <1>8. Log(x, y)
    BY <1>4, <1>5, <1>6, <1>7 DEF Log
  <1>9. Spread(x)
    <2> HIDE DEF x
    <2> SUFFICES ASSUME NEW i \in 1..Len(x), NEW j \in 1..Len(x), j = i + Limit
                 PROVE  x[j] - x[i] > WindowTicks
      BY DEF Spread
    <2>1. CASE j = Len(a) + 1
      <3>1. i \in 1..d /\ i \in 1..Len(a)
        BY <1>1, <1>2, <2>1 DEF Log
      <3>2. a[i] + WindowTicks < now
        BY <3>1 DEF Log, Expired
      <3>3. x[j] = now /\ x[i] = a[i] /\ a[i] \in Nat
        BY <1>1, <1>2, <2>1, <3>1
      <3>4. QED
        BY <1>1, <3>2, <3>3
    <2>2. CASE j # Len(a) + 1
      <3>1. i \in Nat /\ j \in Nat /\ i >= 1 /\ i < j /\ j <= Len(a) + 1
        BY <1>1, <1>2
      <3>2. i \in 1..Len(a) /\ j \in 1..Len(a)
        <4>1. j < Len(a) + 1
          BY <1>1, <2>2, <3>1
        <4>2. QED
          BY <1>1, <3>1, <4>1
      <3>3. x[i] = a[i] /\ x[j] = a[j]
        BY <1>2, <3>2
      <3>4. a[j] - a[i] > WindowTicks
        BY <3>2 DEF Spread
      <3>5. QED
        BY <3>3, <3>4
    <2>3. QED
      BY <2>1, <2>2
  <1>10. QED
    BY <1>8, <1>9

-------------------------------------------------------------------------------
\* What is left of the window in whole seconds.
LEMMA DivBounds ==
  ASSUME NEW x \in Nat, NEW p \in Nat \ {0}
  PROVE  /\ x \div p \in Nat
         /\ p * (x \div p) \in Nat
         /\ p * (x \div p) <= x
         /\ x < p * (x \div p) + p
  <1>1. x \div p \in Nat /\ p * (x \div p) <= x /\ x < p * (x \div p) + p
    BY SMT
  <1>2. p * (x \div p) \in Nat
    BY <1>1, SMT
  <1>3. QED
    BY <1>1, <1>2

\* A client refused while its oldest entry is in the window is told to come
\* back after that entry expires and at most a second later.
LEMMA RetryBounds ==
  ASSUME NEW o \in Nat, now \in Nat, o <= now, ~Expired(o)
  PROVE  /\ now + PerSecond * RetryAfter(o) \in Nat
         /\ now + PerSecond * RetryAfter(o) > o + WindowTicks
         /\ now + PerSecond * RetryAfter(o) <= o + WindowTicks + PerSecond
  <1> DEFINE x == WindowTicks - (now - o)
             q == x \div PerSecond
  <1>1. PerSecond \in Nat \ {0} /\ WindowTicks \in Nat /\ x \in Nat
    BY RateAssumption, WindowType DEF Expired
  <1>2. /\ q \in Nat /\ PerSecond * q \in Nat
        /\ PerSecond * q <= x /\ x < PerSecond * q + PerSecond
    BY <1>1, DivBounds
  <1>3. RetryAfter(o) = q + 1
    BY <1>2 DEF RetryAfter
  <1>4. PerSecond * (q + 1) = PerSecond * q + PerSecond
    BY <1>1, <1>2
  <1>5. QED
    <2> DEFINE m == PerSecond * q
    <2>1. PerSecond * RetryAfter(o) = m + PerSecond
      BY <1>3, <1>4
    <2>2. m \in Nat /\ m <= x /\ x < m + PerSecond
      BY <1>2
    <2> HIDE DEF m
    <2>3. QED
      BY <1>1, <2>1, <2>2

-------------------------------------------------------------------------------
\* The inductive invariant: the types, the buckets against the history, and
\* what a refused client was told against its oldest entry.
ToldInv ==
  \A c \in Client : told[c] # 0 =>
    /\ hits[c] # <<>>
    /\ told[c] > hits[c][1] + WindowTicks
    /\ told[c] <= hits[c][1] + WindowTicks + PerSecond

IInv == RateTypeOK /\ LogInv /\ ToldInv

\* The middleware starts with the invariant.
LEMMA InitInv == Init => IInv
  <1> SUFFICES ASSUME Init PROVE IInv
    OBVIOUS
  <1> USE DEF Init
  <1>1. RateTypeOK
    BY RateAssumption, EmptySeq DEF RateTypeOK
  <1>2. LogInv
    <2> SUFFICES ASSUME NEW c \in Client PROVE Log(<<>>, <<>>) /\ Spread(<<>>)
      BY DEF LogInv
    <2>1. Len(<<>>) = 0
      BY EmptySeq
    <2>2. QED
      BY <2>1, RateAssumption DEF Log, Spread
  <1>3. ToldInv
    BY DEF ToldInv
  <1>4. QED
    BY <1>1, <1>2, <1>3 DEF IInv

\* Positions in a log of m entries, of which the last n are kept.
LEMMA Positions ==
  ASSUME NEW m \in Nat, NEW n \in Nat
  PROVE  /\ \A i \in 1..(m - n) : i \in 1..m
         /\ 0 < n /\ n <= m => m - n + 1 \in 1..m
  OBVIOUS

\* Time only makes more entries expire.
LEMMA TickInv == IInv /\ Tick => IInv'
  <1> SUFFICES ASSUME IInv, Tick PROVE IInv'
    OBVIOUS
  <1> USE DEF Tick, IInv
  <1>1. RateTypeOK'
    BY RateAssumption DEF RateTypeOK
  <1>2. LogInv'
    <2> SUFFICES ASSUME NEW c \in Client
                 PROVE  Log(admitted[c], hits[c])' /\ Spread(admitted[c])'
      BY DEF LogInv
    <2>1. Log(admitted[c], hits[c]) /\ Spread(admitted[c])
      BY DEF LogInv
    <2>2. /\ admitted[c] \in Seq(Nat) /\ hits[c] \in Seq(Nat)
          /\ Len(admitted[c]) \in Nat /\ Len(hits[c]) \in Nat
          /\ \A i \in 1..Len(admitted[c]) : admitted[c][i] \in Nat
          /\ now \in Nat /\ now' = now + 1 /\ WindowTicks \in Nat
          /\ admitted' = admitted /\ hits' = hits
      BY LenProperties, WindowType DEF RateTypeOK
    <2>3. \A i \in 1..(Len(admitted[c]) - Len(hits[c])) : Expired(admitted[c][i])'
      <3> TAKE i \in 1..(Len(admitted[c]) - Len(hits[c]))
      <3>1. i \in 1..Len(admitted[c])
        <4> HIDE DEF Tick, IInv
        <4>1. QED
          BY <2>2, Positions
      <3>2. Expired(admitted[c][i])
        BY <2>1 DEF Log
      <3>3. QED
        BY <2>2, <3>1, <3>2 DEF Expired, WindowTicks
    <2>4. \A i \in 1..Len(admitted[c]) : admitted[c][i] <= now'
      BY <2>1, <2>2 DEF Log
    <2>5. QED
      BY <2>1, <2>2, <2>3, <2>4 DEF Log, Spread, WindowTicks
  <1>3. ToldInv'
    BY DEF ToldInv, WindowTicks
  <1>4. QED
    BY <1>1, <1>2, <1>3

\* What a request finds after the popleft loop, whatever becomes of it.
LEMMA Dropped ==
  ASSUME IInv, NEW c \in Client, NEW k \in 0..Len(hits[c]), Drops(hits[c], k),
         NEW b, b = SubSeq(hits[c], k + 1, Len(hits[c]))
  PROVE  /\ now \in Nat /\ b \in Seq(Nat) /\ Len(b) \in Nat
         /\ admitted[c] \in Seq(Nat)
         /\ Log(admitted[c], b) /\ Spread(admitted[c])
         /\ Len(b) > 0 => b # <<>> /\ b[1] \in Nat /\ b[1] <= now /\ ~Expired(b[1])
  <1> USE DEF IInv
  <1>1. /\ now \in Nat /\ admitted[c] \in Seq(Nat) /\ hits[c] \in Seq(Nat)
        /\ Log(admitted[c], hits[c]) /\ Spread(admitted[c])
    BY DEF RateTypeOK, LogInv
  <1>2. /\ b \in Seq(Nat) /\ Len(b) = Len(hits[c]) - k
        /\ \A i \in 1..(Len(hits[c]) - k) : b[i] = hits[c][k + i]
        /\ Log(admitted[c], b)
    BY <1>1, DropKeepsLog
  <1>3. Len(b) \in Nat /\ Len(admitted[c]) \in Nat /\ Len(hits[c]) \in Nat
    BY <1>1, <1>2, LenProperties
  <1>4. ASSUME Len(b) > 0
        PROVE  b # <<>> /\ b[1] \in Nat /\ b[1] <= now /\ ~Expired(b[1])
    <2>1. b # <<>>
      <3>1. Len(b) # 0
        BY <1>3, <1>4
      <3>2. QED
        BY <3>1, NonEmpty
    <2>2. k < Len(hits[c]) /\ b[1] = hits[c][k + 1]
      BY <1>2, <1>3, <1>4
    <2>3. ~Expired(b[1])
      BY <2>2 DEF Drops
    <2>4. b[1] \in Nat
      BY <1>2, <1>3, <1>4, ElementOfSeq
    <2>5. b[1] = admitted[c][Len(admitted[c]) - Len(b) + 1] /\ Len(b) <= Len(admitted[c])
      <3> HIDE DEF IInv
      <3>1. 1 \in 1..Len(b)
        BY <1>3, <1>4
      <3>2. QED
        BY <1>2, <3>1 DEF Log
    <2>6. Len(admitted[c]) - Len(b) + 1 \in 1..Len(admitted[c])
      <3> HIDE DEF IInv
      <3>1. QED
        BY <1>3, <1>4, <2>5, Positions
    <2>7. b[1] <= now
      <3> HIDE DEF IInv
      <3>1. \A i \in 1..Len(admitted[c]) : admitted[c][i] <= now
        BY <1>2 DEF Log
      <3>2. QED
        BY <2>5, <2>6, <3>1
    <2>8. QED
      BY <2>1, <2>3, <2>4, <2>7
  <1>5. QED
    BY <1>1, <1>2, <1>3, <1>4

\* An admitted request keeps the invariant: its log had room.
LEMMA PassInv ==
  ASSUME IInv, NEW c \in Client, NEW k \in 0..Len(hits[c]), Drops(hits[c], k),
         NEW b, b = SubSeq(hits[c], k + 1, Len(hits[c])),
         Pass(c, b), now' = now
  PROVE  IInv'
  <1> USE DEF IInv
  <1>1. /\ now \in Nat /\ b \in Seq(Nat) /\ admitted[c] \in Seq(Nat)
        /\ Log(admitted[c], b) /\ Spread(admitted[c])
    BY Dropped
  <1>2. /\ Len(b) < Limit
        /\ hits' = [hits EXCEPT ![c] = Append(b, now)]
        /\ admitted' = [admitted EXCEPT ![c] = Append(@, now)]
        /\ told' = [told EXCEPT ![c] = 0]
        /\ known' = Cleaned(known \cup {c}, hits')
    BY DEF Pass
  <1>3. Append(b, now) \in Seq(Nat) /\ Append(b, now) # <<>>
    <2>1. Len(Append(b, now)) = Len(b) + 1 /\ Len(b) \in Nat /\ Append(b, now) \in Seq(Nat)
      BY <1>1, AppendProperties, LenProperties
    <2>2. Len(Append(b, now)) # 0
      BY <2>1
    <2>3. QED
      BY <2>1, <2>2, NonEmpty
  <1>4. Append(admitted[c], now) \in Seq(Nat)
    BY <1>1, AppendProperties
  <1>5. RateTypeOK'
    <2>1. hits' \in [Client -> Seq(Nat)]
      BY <1>2, <1>3 DEF RateTypeOK
    <2>2. admitted' \in [Client -> Seq(Nat)]
      BY <1>2, <1>4 DEF RateTypeOK
    <2>3. told' \in [Client -> Nat]
      BY <1>2 DEF RateTypeOK
    <2>4. known' \in SUBSET Client
      BY <1>2 DEF RateTypeOK, Cleaned
    <2>5. \A e \in Client : hits'[e] # <<>> => e \in known \cup {c}
      BY <1>2 DEF RateTypeOK
    <2>6. \A e \in Client : hits'[e] # <<>> => e \in known'
      BY <1>2, <2>5 DEF Cleaned
    <2>7. QED
      BY <2>1, <2>2, <2>3, <2>4, <2>6 DEF RateTypeOK
  <1>6. LogInv'
    <2> SUFFICES ASSUME NEW e \in Client
                 PROVE  Log(admitted[e], hits[e])' /\ Spread(admitted[e])'
      BY DEF LogInv
    <2>1. CASE e = c
      <3>1. /\ Log(Append(admitted[c], now), Append(b, now))
            /\ Spread(Append(admitted[c], now))
        BY <1>1, <1>2, AppendKeepsLog
      <3>2. admitted'[e] = Append(admitted[c], now) /\ hits'[e] = Append(b, now)
        BY <1>2, <2>1 DEF RateTypeOK
      <3>3. QED
        BY <3>1, <3>2 DEF Log, Spread, Expired, WindowTicks
    <2>2. CASE e # c
      <3>1. admitted'[e] = admitted[e] /\ hits'[e] = hits[e]
        BY <1>2, <2>2 DEF RateTypeOK
      <3>2. QED
        BY <3>1 DEF Log, Spread, Expired, WindowTicks, LogInv
    <2>3. QED
      BY <2>1, <2>2
  <1>7. ToldInv'
    BY <1>2 DEF RateTypeOK, ToldInv, WindowTicks
  <1>8. QED
    BY <1>5, <1>6, <1>7

\* A refused request keeps the invariant: its log is full and its oldest entry in the window.
LEMMA RefuseInv ==
  ASSUME IInv, NEW c \in Client, NEW k \in 0..Len(hits[c]), Drops(hits[c], k),
         NEW b, b = SubSeq(hits[c], k + 1, Len(hits[c])),
         Refuse(c, b), now' = now
  PROVE  IInv'
  <1> USE DEF IInv
  <1> DEFINE t == now + PerSecond * RetryAfter(b[1])
  <1>1. /\ now \in Nat /\ b \in Seq(Nat)
        /\ Log(admitted[c], b) /\ Spread(admitted[c]) /\ Len(b) \in Nat
        /\ Len(b) > 0 => b # <<>> /\ b[1] \in Nat /\ b[1] <= now /\ ~Expired(b[1])
    BY Dropped
  <1>2. /\ Len(b) >= Limit
        /\ hits' = [hits EXCEPT ![c] = b]
        /\ told' = [told EXCEPT ![c] = t]
        /\ known' = known \cup {c}
        /\ admitted' = admitted
    BY DEF Refuse
  <1>3. b # <<>> /\ b[1] \in Nat /\ b[1] <= now /\ ~Expired(b[1])
    BY <1>1, <1>2, RateAssumption
  <1>4. t \in Nat /\ t > b[1] + WindowTicks /\ t <= b[1] + WindowTicks + PerSecond
    BY <1>1, <1>3, RetryBounds
  <1> HIDE DEF t
  <1>5. RateTypeOK'
    <2>1. hits' \in [Client -> Seq(Nat)]
      BY <1>1, <1>2 DEF RateTypeOK
    <2>2. told' \in [Client -> Nat]
      BY <1>2, <1>4 DEF RateTypeOK
    <2>3. \A e \in Client : hits'[e] # <<>> => e \in known'
      BY <1>2 DEF RateTypeOK
    <2>4. QED
      BY <1>2, <2>1, <2>2, <2>3 DEF RateTypeOK
  <1>6. LogInv'
    <2> SUFFICES ASSUME NEW e \in Client
                 PROVE  Log(admitted[e], hits[e])' /\ Spread(admitted[e])'
      BY <1>2 DEF LogInv
    <2>1. CASE e = c
      <3>1. hits'[e] = b
        BY <1>2, <2>1 DEF RateTypeOK
      <3>2. QED
        BY <1>1, <1>2, <2>1, <3>1 DEF Log, Spread, Expired, WindowTicks
    <2>2. CASE e # c
      <3>1. hits'[e] = hits[e]
        BY <1>2, <2>2 DEF RateTypeOK
      <3>2. QED
        BY <1>2, <3>1 DEF Log, Spread, Expired, WindowTicks, LogInv
    <2>3. QED
      BY <2>1, <2>2
  <1>7. ToldInv'
    <2> SUFFICES ASSUME NEW e \in Client, told'[e] # 0
                 PROVE  /\ hits'[e] # <<>>
                        /\ told'[e] > hits'[e][1] + WindowTicks
                        /\ told'[e] <= hits'[e][1] + WindowTicks + PerSecond
      BY DEF ToldInv, WindowTicks
    <2>1. CASE e = c
      <3>1. hits'[e] = b /\ told'[e] = t
        BY <1>2, <2>1 DEF RateTypeOK
      <3>2. QED
        BY <1>3, <1>4, <3>1
    <2>2. CASE e # c
      BY <1>2, <2>2 DEF RateTypeOK, ToldInv, WindowTicks
    <2>3. QED
      BY <2>1, <2>2
  <1>8. QED
    BY <1>5, <1>6, <1>7

\* No request and no tick breaks the invariant.
LEMMA NextInv == IInv /\ [Next]_vars => IInv'
  <1> SUFFICES ASSUME IInv, [Next]_vars PROVE IInv'
    OBVIOUS
  <1>1. CASE Tick
    BY <1>1, TickInv
  <1>2. ASSUME NEW c \in Client, Dispatch(c) PROVE IInv'
    <2>1. PICK k \in 0..Len(hits[c]) :
            /\ Drops(hits[c], k)
            /\ LET b == SubSeq(hits[c], k + 1, Len(hits[c])) IN Pass(c, b) \/ Refuse(c, b)
            /\ now' = now
      BY <1>2 DEF Dispatch
    <2> DEFINE b == SubSeq(hits[c], k + 1, Len(hits[c]))
    <2>2. CASE Pass(c, b)
      BY <2>1, <2>2, PassInv
    <2>3. CASE Refuse(c, b)
      BY <2>1, <2>3, RefuseInv
    <2>4. QED
      BY <2>1, <2>2, <2>3
  <1>3. CASE UNCHANGED vars
    BY <1>3 DEF vars, IInv, RateTypeOK, LogInv, ToldInv, Log, Spread, Expired, WindowTicks
  <1>4. QED
    BY <1>1, <1>2, <1>3 DEF Next

\* The invariant implies the properties the run checks.
LEMMA InvFacts == IInv => RateTypeOK /\ SlidingWindow /\ RetryAfterSound
  <1> SUFFICES ASSUME IInv PROVE RateTypeOK /\ SlidingWindow /\ RetryAfterSound
    OBVIOUS
  <1> USE DEF IInv
  <1>1. SlidingWindow
    <2>1. \A c \in Client : DOMAIN admitted[c] = 1..Len(admitted[c])
      BY LenProperties DEF RateTypeOK
    <2>2. QED
      BY <2>1 DEF SlidingWindow, LogInv, Spread
  <1>2. RetryAfterSound
    <2> SUFFICES ASSUME NEW c \in Client, told[c] # 0
                 PROVE  /\ hits[c] # <<>>
                        /\ told[c] <= now => Expired(hits[c][1])
                        /\ told[c] <= hits[c][1] + WindowTicks + PerSecond
      BY DEF RetryAfterSound
    <2>1. /\ hits[c] # <<>> /\ told[c] > hits[c][1] + WindowTicks
          /\ told[c] <= hits[c][1] + WindowTicks + PerSecond
      BY DEF ToldInv
    <2>2. hits[c] \in Seq(Nat) /\ told[c] \in Nat /\ now \in Nat /\ WindowTicks \in Nat
      BY WindowType DEF RateTypeOK
    <2>3. hits[c][1] \in Nat
      BY <2>1, <2>2, EmptySeq, LenProperties, ElementOfSeq
    <2>4. QED
      BY <2>1, <2>2, <2>3 DEF Expired
  <1>3. QED
    BY <1>1, <1>2

\* Every variable of the middleware keeps its type, and no bucket loses its key.
THEOREM RateType == Spec => []RateTypeOK
  <1>1. IInv => RateTypeOK
    BY InvFacts
  <1>2. QED
    BY <1>1, InitInv, NextInv, PTL DEF Spec

\* No window of Window seconds, wherever it starts, sees more than Limit admitted
\* requests of one client.
THEOREM RateSlidingWindow == Spec => []SlidingWindow
  <1>1. IInv => SlidingWindow
    BY InvFacts
  <1>2. QED
    BY <1>1, InitInv, NextInv, PTL DEF Spec

\* A client that waits as long as its last 429 said finds its oldest entry
\* expired, and it was not made to wait more than a second too long.
THEOREM RateRetryAfterSound == Spec => []RetryAfterSound
  <1>1. IInv => RetryAfterSound
    BY InvFacts
  <1>2. QED
    BY <1>1, InitInv, NextInv, PTL DEF Spec
===============================================================================
