-------------------------- MODULE AuthManager_proofs --------------------------
(* What TLAPS proves of AuthManager, for any number of overlapping logins.    *)
EXTENDS AuthManager, TLAPS, FiniteSetTheorems, SequenceTheorems

\* The places in which a task has no part in a device login.
Apart == InProbe \cup {"probe_queued", "confirm_queued", "refresh_queued",
                       "idle", "sleep", "command", "done", "stopped"}

Active(l) == pc[l] \in {"login_queued", "device"}

\* OneLogin without the cardinality.
LoginInv ==
  /\ running => returncode = "none"
  /\ running => \E l \in Login : Active(l)
  /\ \A l \in Login : Active(l) => running
  /\ \A l, m \in Login : Active(l) /\ Active(m) => l = m

\* The names of the tasks are distinct.
LEMMA Tasks ==
  /\ Startup \in Task /\ Watchdog \in Task /\ Login \subseteq Task
  /\ Startup # Watchdog
  /\ \A l \in Login : l # Startup /\ l # Watchdog
  BY LoginAssumption DEF Task, Startup, Watchdog

\* whoami never makes the state REFRESHING, and opens the gate only with a session.
LEMMA LabelValue ==
  ASSUME NEW ok \in BOOLEAN, state \in State
  PROVE  /\ Label(ok) \in State \ {"refreshing"}
         /\ LoggedIn(Label(ok)) => ok
  BY DEF Label, State, LoggedIn

-------------------------------------------------------------------------------
\* A probe entered by a task moves that task only, to a place apart from logins.
LEMMA ProbeMoves ==
  ASSUME NEW t \in Task, NEW q, NEW stage \in InProbe, Probe(t, q, stage),
         AuthTypes, token' \in Expiry
  PROVE  /\ found' \in Expiry /\ asked' \in Expiry
         /\ \E x \in Apart : pc' = [pc EXCEPT ![t] = x] /\ x # "refresh_queued"
  <1>1. stage \in Apart /\ Queued[stage] \in Apart
    BY DEF Apart, InProbe, Queued
  <1>2. stage # "refresh_queued" /\ Queued[stage] # "refresh_queued"
    BY DEF InProbe, Queued
  <1>3. QED
    BY <1>1, <1>2 DEF Probe, probe, AuthTypes

\* A round moves the watchdog only; the state becomes s or REFRESHING, and the
\* watchdog queues for a refresh only if s opens the gate.
LEMMA RoundMoves ==
  ASSUME NEW s, NEW e, NEW q, Round(s, e, q)
  PROVE  /\ state' \in {s, "refreshing"}
         /\ \E x \in {"sleep", "command", "refresh_queued"} :
              /\ pc' = [pc EXCEPT ![Watchdog] = x]
              /\ state' = s \/ (x = "command" /\ state' = "refreshing")
              /\ x = "refresh_queued" => LoggedIn(s)
  <1>1. CASE pc' = [pc EXCEPT ![Watchdog] = "sleep"] /\ state' = s
    BY <1>1
  <1>2. CASE pc' = [pc EXCEPT ![Watchdog] = "command"] /\ state' = "refreshing"
    BY <1>2
  <1>3. CASE /\ pc' = [pc EXCEPT ![Watchdog] = "refresh_queued"]
             /\ state' = s /\ LoggedIn(s)
    BY <1>3
  <1>4. QED
    BY <1>1, <1>2, <1>3 DEF Round

-------------------------------------------------------------------------------
\* Moving a task that is apart from the logins leaves LoginInv as it is.
LEMMA LoginFrame ==
  ASSUME AuthTypes, LoginInv, NEW t \in Task, NEW x \in Apart,
         t \in Login => ~Active(t),
         pc' = [pc EXCEPT ![t] = x], UNCHANGED login
  PROVE  LoginInv'
  <1>1. \A l \in Login : Active(l)' <=> Active(l)
    BY Tasks DEF AuthTypes, Active, Apart, InProbe
  <1>2. running' = running /\ returncode' = returncode
    BY DEF login
  <1>3. QED
    BY <1>1, <1>2 DEF LoginInv

IInv == AuthTypes /\ GateTruthful /\ RefreshOnce /\ LoginInv

\* The service starts with the invariant.
LEMMA InitInv == Init => IInv
  <1> SUFFICES ASSUME Init PROVE IInv
    OBVIOUS
  <1> USE DEF Init
  <1>1. /\ pc[Watchdog] = "sleep"
        /\ \A l \in Login : pc[l] = "idle"
    BY Tasks
  <1>2. AuthTypes
    BY DEF AuthTypes, State, Expiry, InProbe, Waiting
  <1>3. GateTruthful /\ RefreshOnce
    BY <1>1 DEF GateTruthful, LoggedIn, RefreshOnce
  <1>4. LoginInv
    BY <1>1 DEF LoginInv, Active
  <1>5. QED
    BY <1>2, <1>3, <1>4 DEF IInv

\* A probe that waited begins.
LEMMA BeginInv == ASSUME IInv, NEW t \in Task, Begin(t) PROVE IInv'
  <1> USE DEF IInv
  <1>1. PICK stage \in InProbe :
          pc[t] = Queued[stage] /\ pc' = [pc EXCEPT ![t] = stage]
    BY DEF Begin
  <1>2. stage \in Apart /\ pc[t] \notin {"login_queued", "device"}
    BY <1>1 DEF Apart, InProbe, Queued
  <1>3. AuthTypes'
    BY <1>1 DEF Begin, AuthTypes, auth, login, world, InProbe, Expiry
  <1>4. GateTruthful'
    BY DEF Begin, GateTruthful, LoggedIn, auth
  <1>5. RefreshOnce'
    BY <1>1, Tasks DEF Begin, RefreshOnce, auth, AuthTypes, InProbe
  <1>6. LoginInv'
    BY <1>1, <1>2, LoginFrame DEF Begin, Active
  <1>7. QED
    BY <1>3, <1>4, <1>5, <1>6

\* whoami answers a task's probe.
LEMMA AnswerInv == ASSUME IInv, NEW t \in Task, Answer(t) PROVE IInv'
  <1> USE DEF IInv
  <1> DEFINE ok == cli = "ok" /\ session
  <1>1. /\ pc[t] \in InProbe
        /\ probed' = IF ok THEN "in" ELSE "out"
        /\ expires' = found /\ fresh' = TRUE
        /\ running' = running /\ returncode' = returncode
        /\ found' = found /\ asked' = asked
        /\ token' = token /\ session' = session /\ cli' = cli
    BY DEF Answer, login, probe, world
  <1>2. ok \in BOOLEAN
    BY DEF AuthTypes
  <1>3. /\ Label(ok) \in State \ {"refreshing"}
        /\ LoggedIn(Label(ok)) => ok
    BY <1>2, LabelValue DEF AuthTypes
  <1>4. \E x \in Apart, u \in {t, Watchdog} :
          /\ pc' = [pc EXCEPT ![u] = x]
          /\ state' = Label(ok) \/ (u = Watchdog /\ x = "command" /\ state' = "refreshing")
    <2>1. CASE Round(Label(ok), found, Tail(lock))
      <3>1. PICK x \in {"sleep", "command", "refresh_queued"} :
              /\ pc' = [pc EXCEPT ![Watchdog] = x]
              /\ state' = Label(ok) \/ (x = "command" /\ state' = "refreshing")
        BY <2>1, RoundMoves
      <3>2. x \in Apart
        BY <3>1 DEF Apart
      <3>3. QED
        BY <3>1, <3>2
    <2>2. CASE /\ state' = Label(ok)
               /\ pc' = [pc EXCEPT ![t] = CASE t = Startup -> "done"
                                            [] t = Watchdog -> "sleep"
                                            [] OTHER -> "idle"]
      <3>1. \E x \in {"done", "sleep", "idle"} : pc' = [pc EXCEPT ![t] = x]
        <4>1. CASE t = Startup
          BY <2>2, <4>1, Tasks
        <4>2. CASE t = Watchdog
          BY <2>2, <4>2, Tasks
        <4>3. CASE t # Startup /\ t # Watchdog
          BY <2>2, <4>3
        <4>4. QED
          BY <4>1, <4>2, <4>3
      <3>2. PICK x \in {"done", "sleep", "idle"} : pc' = [pc EXCEPT ![t] = x]
        BY <3>1
      <3>3. x \in Apart
        BY <3>2 DEF Apart
      <3>4. QED
        BY <2>2, <3>2, <3>3
    <2>3. QED
      BY <2>1, <2>2 DEF Answer
  <1>5. PICK x \in Apart, u \in {t, Watchdog} :
          /\ pc' = [pc EXCEPT ![u] = x]
          /\ state' = Label(ok) \/ (u = Watchdog /\ x = "command" /\ state' = "refreshing")
    BY <1>4
  <1> HIDE DEF ok
  <1>6. state' \in State
    BY <1>3, <1>5 DEF State
  <1>7. AuthTypes'
    <2>1. Apart \subseteq InProbe \cup Waiting \cup
                          {"idle", "sleep", "device", "command", "done", "stopped"}
      BY DEF Apart, Waiting
    <2>2. probed' \in {"none", "in", "out"} /\ fresh' \in BOOLEAN /\ expires' \in Expiry
      BY <1>1 DEF AuthTypes
    <2>3. QED
      BY <1>1, <1>5, <1>6, <2>1, <2>2 DEF AuthTypes
  <1>8. GateTruthful'
    <2>1. ASSUME LoggedIn(state') PROVE ok
      BY <1>3, <1>5, <2>1 DEF LoggedIn
    <2>2. QED
      BY <1>1, <2>1 DEF GateTruthful, LoggedIn
  <1>9. RefreshOnce'
    <2>1. CASE state' = Label(ok)
      BY <1>3, <2>1 DEF RefreshOnce
    <2>2. CASE u = Watchdog /\ x = "command"
      BY <1>5, <2>2, Tasks DEF RefreshOnce, AuthTypes
    <2>3. QED
      BY <1>5, <2>1, <2>2
  <1>10. LoginInv'
    <2>1. u \in Task /\ (u \in Login => ~Active(u))
      BY <1>1, Tasks DEF Active, InProbe
    <2>2. QED
      BY <1>1, <1>5, <2>1, LoginFrame DEF login
  <1>11. QED
    BY <1>7, <1>8, <1>9, <1>10

\* whoami cannot be run.
LEMMA ProbeFailsInv == ASSUME IInv, NEW t \in Task, ProbeFails(t) PROVE IInv'
  <1> USE DEF IInv
  <1>1. /\ pc[t] \in InProbe
        /\ UNCHANGED <<auth, login, probe, world, probed>>
    BY DEF ProbeFails
  <1>2. PICK x \in {"sleep", "idle"} : pc' = [pc EXCEPT ![t] = x]
    BY DEF ProbeFails
  <1>3. x \in Apart
    BY <1>2 DEF Apart
  <1>4. AuthTypes'
    BY <1>1, <1>2 DEF AuthTypes, auth, login, probe, world
  <1>5. GateTruthful'
    BY <1>1 DEF GateTruthful, LoggedIn, auth
  <1>6. RefreshOnce'
    BY <1>1, <1>2 DEF RefreshOnce, auth, AuthTypes
  <1>7. LoginInv'
    BY <1>1, <1>2, <1>3, LoginFrame DEF Active, InProbe
  <1>8. QED
    BY <1>4, <1>5, <1>6, <1>7

\* The watchdog's next round.
LEMMA PollInv == ASSUME IInv, Poll PROVE IInv'
  <1> USE DEF IInv
  <1>1. UNCHANGED <<expires, fresh, login, world, probed>>
    BY DEF Poll
  <1>2. CASE Round(state, expires, lock) /\ UNCHANGED probe
    <2>1. PICK x \in {"sleep", "command", "refresh_queued"} :
            /\ pc' = [pc EXCEPT ![Watchdog] = x]
            /\ state' = state \/ (x = "command" /\ state' = "refreshing")
            /\ x = "refresh_queued" => LoggedIn(state)
      BY <1>2, RoundMoves
    <2>2. x \in Apart
      BY <2>1 DEF Apart
    <2>3. AuthTypes'
      BY <1>1, <1>2, <2>1 DEF AuthTypes, State, login, probe, world, Waiting
    <2>4. GateTruthful'
      BY <1>1, <2>1 DEF GateTruthful, LoggedIn
    <2>5. RefreshOnce'
      BY <2>1, Tasks DEF RefreshOnce, LoggedIn, AuthTypes
    <2>6. LoginInv'
      BY <1>1, <2>1, <2>2, LoginFrame, Tasks
    <2>7. QED
      BY <2>3, <2>4, <2>5, <2>6
  <1>3. CASE Probe(Watchdog, lock, "probe") /\ UNCHANGED state
    <2>1. "probe" \in InProbe /\ token' \in Expiry
      BY <1>1 DEF InProbe, world, AuthTypes
    <2>2. found' \in Expiry /\ asked' \in Expiry
      BY <1>3, <2>1, Tasks, ProbeMoves
    <2>3. PICK x \in Apart : pc' = [pc EXCEPT ![Watchdog] = x] /\ x # "refresh_queued"
      BY <1>3, <2>1, Tasks, ProbeMoves
    <2>4. AuthTypes'
      BY <1>1, <1>3, <2>2, <2>3 DEF AuthTypes, login, world, Apart, Waiting
    <2>5. GateTruthful'
      BY <1>1, <1>3 DEF GateTruthful, LoggedIn
    <2>6. RefreshOnce'
      BY <2>3, Tasks DEF RefreshOnce, AuthTypes
    <2>7. LoginInv'
      BY <1>1, <2>3, LoginFrame, Tasks
    <2>8. QED
      BY <2>4, <2>5, <2>6, <2>7
  <1>4. QED
    BY <1>2, <1>3 DEF Poll

\* try_refresh() gets the lock it waited for, and stop() cancels the watchdog.
LEMMA WatchdogMovesInv == ASSUME IInv, RefreshGranted \/ Stop PROVE IInv'
  <1> USE DEF IInv
  <1>1. UNCHANGED <<expires, fresh, login, probe, world, probed>>
    BY DEF RefreshGranted, Stop, auth
  <1>2. PICK x \in {"command", "stopped"} : pc' = [pc EXCEPT ![Watchdog] = x]
    BY DEF RefreshGranted, Stop
  <1>3. state' \in {state, "refreshing"}
    BY DEF RefreshGranted, Stop, auth
  <1>4. AuthTypes'
    BY <1>1, <1>2, <1>3 DEF AuthTypes, State, login, probe, world
  <1>5. GateTruthful'
    BY <1>1, <1>3 DEF GateTruthful, LoggedIn
  <1>6. RefreshOnce'
    BY <1>2, Tasks DEF RefreshOnce, AuthTypes
  <1>7. LoginInv'
    BY <1>1, <1>2, LoginFrame, Tasks DEF Apart
  <1>8. QED
    BY <1>4, <1>5, <1>6, <1>7

\* The refresh command is over.
LEMMA CommandEndsInv == ASSUME IInv, CommandEnds PROVE IInv'
  <1> USE DEF IInv
  <1>1. UNCHANGED <<auth, login, cli, probed>> /\ Probe(Watchdog, lock, "confirm")
    BY DEF CommandEnds
  <1>2. session' \in BOOLEAN
    BY DEF CommandEnds, AuthTypes
  <1>3. token' \in Expiry
    BY DEF CommandEnds, AuthTypes, Expiry
  <1>4. "confirm" \in InProbe
    BY DEF InProbe
  <1>5. found' \in Expiry /\ asked' \in Expiry
    BY <1>1, <1>3, <1>4, Tasks, ProbeMoves
  <1>6. PICK x \in Apart : pc' = [pc EXCEPT ![Watchdog] = x] /\ x # "refresh_queued"
    BY <1>1, <1>3, <1>4, Tasks, ProbeMoves
  <1>7. AuthTypes'
    BY <1>1, <1>2, <1>3, <1>5, <1>6 DEF AuthTypes, auth, login, Apart, Waiting
  <1>8. GateTruthful'
    BY <1>1 DEF GateTruthful, LoggedIn, auth
  <1>9. RefreshOnce'
    BY <1>6, Tasks DEF RefreshOnce, AuthTypes
  <1>10. LoginInv'
    BY <1>1, <1>6, LoginFrame, Tasks
  <1>11. QED
    BY <1>7, <1>8, <1>9, <1>10

-------------------------------------------------------------------------------
\* A device login begins, at once or behind others in the lock's queue.
LEMMA StartLoginInv == ASSUME IInv, NEW l \in Login, StartLogin(l) PROVE IInv'
  <1> USE DEF IInv
  <1>1. /\ running = FALSE /\ running' = TRUE /\ returncode' = "none"
        /\ UNCHANGED <<expires, fresh, probe, world, probed>>
        /\ state' \in {state, "logging_in"}
    BY DEF StartLogin, AuthTypes
  <1>2. PICK x \in {"device", "login_queued"} : pc' = [pc EXCEPT ![l] = x]
    BY DEF StartLogin
  <1>3. AuthTypes'
    BY <1>1, <1>2 DEF AuthTypes, State, probe, world, Waiting
  <1>4. GateTruthful'
    BY <1>1 DEF GateTruthful, LoggedIn
  <1>5. RefreshOnce'
    BY <1>1, <1>2, Tasks DEF RefreshOnce, AuthTypes
  <1>6. LoginInv'
    <2>1. \A m \in Login : ~Active(m)
      BY <1>1 DEF LoginInv
    <2>2. \A m \in Login : Active(m)' <=> m = l
      BY <1>2, <2>1, Tasks DEF Active, AuthTypes
    <2>3. QED
      BY <1>1, <2>2 DEF LoginInv
  <1>7. QED
    BY <1>3, <1>4, <1>5, <1>6

\* A login that waited for the lock gets it: it was under way and stays so.
LEMMA LoginGrantedInv == ASSUME IInv, NEW l \in Login, LoginGranted(l) PROVE IInv'
  <1> USE DEF IInv
  <1>1. /\ pc[l] = "login_queued" /\ pc' = [pc EXCEPT ![l] = "device"]
        /\ state' = "logging_in"
        /\ UNCHANGED <<expires, fresh, login, probe, world, probed>>
    BY DEF LoginGranted
  <1>2. AuthTypes'
    BY <1>1 DEF AuthTypes, State, login, probe, world
  <1>3. GateTruthful' /\ RefreshOnce'
    BY <1>1 DEF GateTruthful, LoggedIn, RefreshOnce
  <1>4. LoginInv'
    <2>1. \A m \in Login : Active(m)' <=> Active(m)
      BY <1>1, Tasks DEF Active, AuthTypes
    <2>2. running' = running /\ returncode' = returncode
      BY <1>1 DEF login
    <2>3. QED
      BY <2>1, <2>2 DEF LoginInv
  <1>5. QED
    BY <1>2, <1>3, <1>4

\* A device login ends; no other is under way.
LEMMA LoginEndsInv == ASSUME IInv, NEW l \in Login, LoginEnds(l) PROVE IInv'
  <1> USE DEF IInv
  <1>1. /\ pc[l] = "device" /\ running' = FALSE
        /\ UNCHANGED <<auth, cli, probed>> /\ Probe(l, lock, "confirm")
    BY DEF LoginEnds
  <1>2. returncode' \in {"none", "zero", "nonzero"} /\ token' \in Expiry
    BY DEF LoginEnds, AuthTypes, Expiry
  <1>3. session' \in BOOLEAN
    BY DEF LoginEnds, AuthTypes
  <1>4. "confirm" \in InProbe /\ l \in Task
    BY Tasks DEF InProbe
  <1>5. found' \in Expiry /\ asked' \in Expiry
    BY <1>1, <1>2, <1>4, ProbeMoves
  <1>6. PICK x \in Apart : pc' = [pc EXCEPT ![l] = x] /\ x # "refresh_queued"
    BY <1>1, <1>2, <1>4, ProbeMoves
  <1>7. AuthTypes'
    <2>1. running' \in BOOLEAN
      BY <1>1
    <2>2. QED
      BY <1>1, <1>2, <1>3, <1>4, <1>5, <1>6, <2>1 DEF AuthTypes, auth, Apart, Waiting
  <1>8. GateTruthful' /\ RefreshOnce'
    BY <1>1, <1>6, Tasks DEF GateTruthful, LoggedIn, RefreshOnce, AuthTypes, auth
  <1>9. LoginInv'
    <2>1. \A m \in Login : Active(m) => m = l
      BY <1>1 DEF LoginInv, Active
    <2>2. \A m \in Login : ~Active(m)'
      BY <1>6, <2>1, Tasks DEF Active, AuthTypes, Apart, InProbe
    <2>3. QED
      BY <1>1, <2>2 DEF LoginInv
  <1>10. QED
    BY <1>7, <1>8, <1>9

\* What happens outside, and the passing of time, touch no task.
LEMMA WorldInv == ASSUME IInv, World \/ Lapse PROVE IInv'
  <1> USE DEF IInv
  <1>1. /\ UNCHANGED <<state, login, pc, probed>>
        /\ asked' = asked
    BY DEF World, Renew, Revoke, CliChanges, Approach, Lapse, auth, probe
  <1>2. /\ expires' \in {expires, "near"} /\ found' \in {found, "near"}
        /\ token' \in {token, "near", "far"}
    BY DEF World, Renew, Revoke, CliChanges, Approach, Lapse, auth, probe, world
  <1>3. /\ cli' \in {cli, "ok", "slow", "broken"}
    BY DEF World, Renew, Revoke, CliChanges, Approach, Lapse, world
  <1>4. session' \in BOOLEAN
    BY DEF World, Renew, Revoke, CliChanges, Approach, Lapse, world, AuthTypes
  <1>5. fresh' \in BOOLEAN
    BY DEF World, Renew, Revoke, CliChanges, Approach, Lapse, auth, AuthTypes
  <1>6. AuthTypes'
    BY <1>1, <1>2, <1>3, <1>4, <1>5 DEF AuthTypes, login, Expiry
  <1>7. GateTruthful' /\ RefreshOnce' /\ LoginInv'
    BY <1>1 DEF GateTruthful, LoggedIn, RefreshOnce, LoginInv, Active, login
  <1>8. QED
    BY <1>6, <1>7

\* No step of any task breaks the invariant.
LEMMA NextInv == IInv /\ [Next]_vars => IInv'
  <1> SUFFICES ASSUME IInv, [Next]_vars PROVE IInv'
    OBVIOUS
  <1>1. ASSUME NEW t \in Task, Begin(t) \/ Answer(t) \/ ProbeFails(t) PROVE IInv'
    BY <1>1, BeginInv, AnswerInv, ProbeFailsInv
  <1>2. ASSUME NEW l \in Login, StartLogin(l) \/ LoginGranted(l) \/ LoginEnds(l)
        PROVE  IInv'
    BY <1>2, StartLoginInv, LoginGrantedInv, LoginEndsInv
  <1>3. CASE Poll \/ RefreshGranted \/ CommandEnds \/ Stop
    BY <1>3, PollInv, WatchdogMovesInv, CommandEndsInv
  <1>4. CASE World \/ Lapse
    BY <1>4, WorldInv
  <1>5. CASE UNCHANGED vars
    BY <1>5 DEF vars, auth, login, probe, world, IInv, AuthTypes, GateTruthful,
                LoggedIn, RefreshOnce, LoginInv, Active
  <1>6. QED
    BY <1>1, <1>2, <1>3, <1>4, <1>5 DEF Next

\* The invariant implies the properties the run checks.
LEMMA InvFacts == IInv => GateTruthful /\ RefreshOnce /\ OneLogin
  <1> SUFFICES ASSUME IInv PROVE GateTruthful /\ RefreshOnce /\ OneLogin
    OBVIOUS
  <1> DEFINE active == {l \in Login : pc[l] \in {"login_queued", "device"}}
  <1>1. \A l, m \in active : l = m
    BY DEF IInv, LoginInv, Active
  <1>2. active = {} \/ \E l \in active : active = {l}
    BY <1>1
  <1>3. Cardinality(active) <= 1
    BY <1>2, FS_EmptySet, FS_Singleton
  <1>4. running <=> active # {}
    BY DEF IInv, LoginInv, Active, AuthTypes
  <1>5. QED
    BY <1>3, <1>4 DEF IInv, OneLogin, LoginInv

\* The gate of the service is open only on the word of the last completed probe.
THEOREM AuthGateTruthful == Spec => []GateTruthful
  <1>1. IInv => GateTruthful
    BY InvFacts
  <1>2. QED
    BY <1>1, InitInv, NextInv, PTL DEF Spec

\* No two device logins overlap, and _login_state tells whether one is under way.
THEOREM AuthOneLogin == Spec => []OneLogin
  <1>1. IInv => OneLogin
    BY InvFacts
  <1>2. QED
    BY <1>1, InitInv, NextInv, PTL DEF Spec

\* A watchdog that waits to refresh never finds a refresh going on.
THEOREM AuthRefreshOnce == Spec => []RefreshOnce
  <1>1. IInv => RefreshOnce
    BY InvFacts
  <1>2. QED
    BY <1>1, InitInv, NextInv, PTL DEF Spec

-------------------------------------------------------------------------------
(* The queue of the lock.                                                    *)

\* What is left of a list without its place i.
LEMMA RemoveAtFacts ==
  ASSUME NEW S, NEW s \in Seq(S), NEW i \in DOMAIN s
  PROVE  /\ RemoveAt(s, i) \in Seq(S) /\ Len(RemoveAt(s, i)) = Len(s) - 1
         /\ DOMAIN RemoveAt(s, i) = 1 .. (Len(s) - 1)
         /\ \A j \in 1 .. (Len(s) - 1) :
              RemoveAt(s, i)[j] = IF j < i THEN s[j] ELSE s[j + 1]
  <1> DEFINE a == SubSeq(s, 1, i - 1)
             b == SubSeq(s, i + 1, Len(s))
  <1>1. /\ Len(s) \in Nat /\ i \in 1 .. Len(s)
        /\ \A j \in 1 .. Len(s) : s[j] \in S
    BY LenProperties
  <1>2. /\ a \in Seq(S) /\ Len(a) = i - 1
        /\ \A j \in 1 .. (i - 1) : a[j] = s[j]
    <2>1. \A j \in 1 .. (i - 1) : s[j] \in S
      BY <1>1
    <2> QED BY <1>1, <2>1, SubSeqProperties, Z3
  <1>3. /\ b \in Seq(S) /\ Len(b) = Len(s) - i
        /\ \A j \in 1 .. (Len(s) - i) : b[j] = s[i + j]
    <2>1. \A j \in (i + 1) .. Len(s) : s[j] \in S
      BY <1>1
    <2>2. /\ b \in Seq(S)
          /\ Len(b) = IF i + 1 <= Len(s) THEN Len(s) - (i + 1) + 1 ELSE 0
          /\ \A j \in 1 .. (Len(s) - (i + 1) + 1) : b[j] = s[(i + 1) + j - 1]
      BY <1>1, <2>1, SubSeqProperties, Z3
    <2>3. Len(b) = Len(s) - i
      BY <1>1, <2>2
    <2>4. ASSUME NEW j \in 1 .. (Len(s) - i) PROVE b[j] = s[i + j]
      <3>1. j \in 1 .. (Len(s) - (i + 1) + 1) /\ (i + 1) + j - 1 = i + j
        BY <1>1
      <3> QED BY <2>2, <3>1
    <2> QED BY <2>2, <2>3, <2>4
  <1>4. RemoveAt(s, i) = a \o b
    BY DEF RemoveAt
  <1> HIDE DEF a, b
  <1>5. /\ a \o b \in Seq(S) /\ Len(a \o b) = Len(a) + Len(b)
        /\ \A j \in 1 .. (Len(a) + Len(b)) :
             (a \o b)[j] = IF j <= Len(a) THEN a[j] ELSE b[j - Len(a)]
    <2>1. a \in Seq(S) /\ b \in Seq(S)
      BY <1>2, <1>3
    <2> QED BY <2>1, ConcatProperties
  <1>6. Len(a) + Len(b) = Len(s) - 1 /\ DOMAIN (a \o b) = 1 .. (Len(s) - 1)
    <2>1. Len(a) + Len(b) = Len(s) - 1
      BY <1>1, <1>2, <1>3
    <2>2. DOMAIN (a \o b) = 1 .. Len(a \o b)
      BY <1>5, LenProperties
    <2> QED BY <1>5, <2>1, <2>2
  <1>7. ASSUME NEW j \in 1 .. (Len(s) - 1)
        PROVE  (a \o b)[j] = IF j < i THEN s[j] ELSE s[j + 1]
    <2>1. (a \o b)[j] = IF j <= Len(a) THEN a[j] ELSE b[j - Len(a)]
      BY <1>5, <1>6
    <2>2. CASE j < i
      BY <1>1, <1>2, <2>1, <2>2
    <2>3. CASE j >= i
      <3>1. j - Len(a) \in 1 .. (Len(s) - i) /\ i + (j - Len(a)) = j + 1 /\ ~(j <= Len(a))
        BY <1>1, <1>2, <2>3
      <3> QED BY <1>3, <2>1, <2>3, <3>1
    <2>4. j < i \/ j >= i
      BY <1>1
    <2> QED BY <2>2, <2>3, <2>4
  <1> QED BY <1>4, <1>5, <1>6, <1>7

\* A task enters the queue behind the others.
LEMMA EnterQueue ==
  ASSUME NEW q \in Seq(Task), IsInjective(q), NEW t \in Task, t \notin ToSet(q)
  PROVE  /\ Append(q, t) \in Seq(Task) /\ IsInjective(Append(q, t))
         /\ ToSet(Append(q, t)) = ToSet(q) \cup {t}
         /\ Head(Append(q, t)) = IF q = <<>> THEN t ELSE Head(q)
  <1> DEFINE r == Append(q, t)
  <1>1. /\ r \in Seq(Task) /\ r # <<>> /\ Len(r) = Len(q) + 1 /\ r[Len(q) + 1] = t
        /\ \A i \in 1..Len(q) : r[i] = q[i]
    BY AppendProperties
  <1>2. /\ Len(q) \in Nat /\ DOMAIN q = 1..Len(q) /\ DOMAIN r = 1..(Len(q) + 1)
        /\ q = <<>> <=> Len(q) = 0
    BY <1>1, LenProperties, EmptySeq
  <1> HIDE DEF r
  <1>3. IsInjective(r)
    <2>1. SUFFICES ASSUME NEW i \in DOMAIN r, NEW j \in DOMAIN r, r[i] = r[j] PROVE i = j
      BY DEF IsInjective
    <2>2. \A k \in DOMAIN q : q[k] # t
      BY DEF ToSet
    <2>3. CASE i \in DOMAIN q /\ j \in DOMAIN q
      BY <1>1, <1>2, <2>1, <2>3 DEF IsInjective
    <2>4. CASE i = Len(q) + 1 \/ j = Len(q) + 1
      BY <1>1, <1>2, <2>1, <2>2, <2>4
    <2>5. QED
      BY <1>2, <2>3, <2>4
  <1>4. ToSet(r) = ToSet(q) \cup {t}
    <2>1. DOMAIN r = DOMAIN q \cup {Len(q) + 1}
      BY <1>2
    <2>2. QED
      BY <1>1, <1>2, <2>1 DEF ToSet
  <1>5. Head(r) = r[1]
    BY <1>1, HeadTailProperties
  <1>6. Head(r) = IF q = <<>> THEN t ELSE Head(q)
    <2>1. CASE q = <<>>
      BY <1>1, <1>2, <1>5, <2>1
    <2>2. CASE q # <<>>
      <3>1. Head(q) = q[1] /\ 1 \in 1..Len(q)
        BY <1>2, <2>2, HeadTailProperties
      <3>2. QED
        BY <1>1, <1>5, <2>2, <3>1
    <2>3. QED
      BY <2>1, <2>2
  <1>7. QED
    BY <1>1, <1>3, <1>4, <1>6 DEF r

\* The task at any place leaves it; the first stays the first, unless it is the one.
LEMMA LeaveQueue ==
  ASSUME NEW q \in Seq(Task), IsInjective(q), NEW i \in DOMAIN q
  PROVE  /\ RemoveAt(q, i) \in Seq(Task) /\ IsInjective(RemoveAt(q, i))
         /\ ToSet(RemoveAt(q, i)) = ToSet(q) \ {q[i]}
         /\ q[i] # Head(q) => Head(RemoveAt(q, i)) = Head(q)
  <1> DEFINE r == RemoveAt(q, i)
             Old(j) == IF j < i THEN j ELSE j + 1
  <1>1. Len(q) \in Nat /\ DOMAIN q = 1 .. Len(q) /\ i \in 1 .. Len(q) /\ Head(q) = q[1]
    BY LenProperties, HeadTailProperties, EmptySeq
  <1>2. r \in Seq(Task) /\ DOMAIN r = 1 .. (Len(q) - 1) /\ \A j \in DOMAIN r : r[j] = q[Old(j)]
    BY RemoveAtFacts
  <1> HIDE DEF r
  <1>3. \A j \in DOMAIN r : Old(j) \in DOMAIN q \ {i}
    BY <1>1, <1>2
  <1>4. \A j, k \in DOMAIN r : j # k => Old(j) # Old(k)
    BY <1>1, <1>2
  <1>5. \A j \in DOMAIN q \ {i} : \E k \in DOMAIN r : Old(k) = j
    <2>1. SUFFICES ASSUME NEW j \in DOMAIN q \ {i} PROVE \E k \in DOMAIN r : Old(k) = j
      OBVIOUS
    <2>2. CASE j < i
      BY <1>1, <1>2, <2>2
    <2>3. CASE j > i
      <3>1. j - 1 \in DOMAIN r /\ Old(j - 1) = j
        BY <1>1, <1>2, <2>3
      <3>2. QED
        BY <3>1
    <2>4. QED
      BY <1>1, <2>1, <2>2, <2>3
  <1>6. q[i] # Head(q) => Head(r) = Head(q)
    <2>1. SUFFICES ASSUME i # 1 PROVE Head(r) = q[1]
      BY <1>1
    <2>2. 1 \in DOMAIN r /\ Old(1) = 1
      BY <1>1, <1>2, <2>1
    <2>3. r # <<>> /\ Head(r) = r[1]
      BY <1>2, <2>2, HeadTailProperties, EmptySeq
    <2>4. QED
      BY <1>2, <2>2, <2>3
  <1> HIDE DEF Old
  <1>7. IsInjective(r)
    BY <1>2, <1>3, <1>4 DEF IsInjective
  <1>8. ToSet(r) = {q[j] : j \in DOMAIN q \ {i}}
    BY <1>2, <1>3, <1>5 DEF ToSet
  <1>9. {q[j] : j \in DOMAIN q \ {i}} = ToSet(q) \ {q[i]}
    BY DEF ToSet, IsInjective
  <1>10. QED
    BY <1>2, <1>6, <1>7, <1>8, <1>9 DEF r

\* The first task leaves it.
LEMMA HeadLeaves ==
  ASSUME NEW q \in Seq(Task), IsInjective(q), q # <<>>
  PROVE  /\ Tail(q) \in Seq(Task) /\ IsInjective(Tail(q))
         /\ ToSet(Tail(q)) = ToSet(q) \ {Head(q)} /\ Head(q) \in ToSet(q)
  <1>1. /\ Tail(q) \in Seq(Task) /\ Len(Tail(q)) = Len(q) - 1 /\ Head(q) = q[1]
        /\ \A i \in 1..Len(Tail(q)) : Tail(q)[i] = q[i + 1]
    BY HeadTailProperties
  <1>2. Len(q) \in Nat /\ Len(q) # 0 /\ DOMAIN q = 1..Len(q) /\ DOMAIN Tail(q) = 1..(Len(q) - 1)
    BY <1>1, LenProperties, EmptySeq
  <1>3. \A i \in DOMAIN Tail(q) : i + 1 \in DOMAIN q \ {1} /\ Tail(q)[i] = q[i + 1]
    BY <1>1, <1>2
  <1>4. \A j \in DOMAIN q \ {1} : j - 1 \in DOMAIN Tail(q) /\ Tail(q)[j - 1] = q[j]
    BY <1>1, <1>2
  <1>5. IsInjective(Tail(q))
    <2>1. SUFFICES ASSUME NEW i \in DOMAIN Tail(q), NEW j \in DOMAIN Tail(q), Tail(q)[i] = Tail(q)[j]
                   PROVE  i = j
      BY DEF IsInjective
    <2>2. i + 1 = j + 1
      BY <1>3, <2>1 DEF IsInjective
    <2>3. QED
      BY <1>2, <2>2
  <1>6. ToSet(Tail(q)) = {q[j] : j \in DOMAIN q \ {1}}
    <2>1. ASSUME NEW i \in DOMAIN Tail(q) PROVE Tail(q)[i] \in {q[j] : j \in DOMAIN q \ {1}}
      BY <1>3
    <2>2. ASSUME NEW j \in DOMAIN q \ {1} PROVE q[j] \in ToSet(Tail(q))
      BY <1>4 DEF ToSet
    <2>3. QED
      BY <2>1, <2>2 DEF ToSet
  <1>7. {q[j] : j \in DOMAIN q \ {1}} = ToSet(q) \ {q[1]} /\ q[1] \in ToSet(q)
    BY <1>2 DEF ToSet, IsInjective
  <1>8. QED
    BY <1>1, <1>5, <1>6, <1>7

Uses(t) == pc[t] \in InProbe \cup Waiting

\* q is what the queue of the lock is without the task t.
Rest(q, t) ==
  /\ q \in Seq(Task) /\ IsInjective(q)
  /\ ToSet(q) = {u \in Task : Uses(u) /\ u # t}
  /\ \A u \in Task : pc[u] \in InProbe /\ u # t => u = Head(q)

\* Only the watchdog probes on its own account.
ProbeIsWatchdog == \A t \in Task : pc[t] \in {"probe", "probe_queued"} => t = Watchdog

LEMMA RestSelf ==
  ASSUME LockSound, NEW t \in Task, ~Uses(t)
  PROVE  Rest(lock, t)
  BY DEF LockSound, Rest, Uses

LEMMA RestTail ==
  ASSUME LockSound, NEW t \in Task, Uses(t), t = Head(lock)
  PROVE  Rest(Tail(lock), t)
  <1>1. lock # <<>>
    <2>1. t \in ToSet(lock)
      BY DEF LockSound, Uses
    <2>2. ToSet(<<>>) = {}
      BY EmptySeq DEF ToSet
    <2>3. QED
      BY <2>1, <2>2
  <1>2. /\ Tail(lock) \in Seq(Task) /\ IsInjective(Tail(lock))
        /\ ToSet(Tail(lock)) = ToSet(lock) \ {t}
    BY <1>1, HeadLeaves DEF LockSound
  <1>3. QED
    BY <1>2 DEF LockSound, Rest, Uses

LEMMA RestRemoved ==
  ASSUME LockSound, NEW i \in DOMAIN lock
  PROVE  Rest(RemoveAt(lock, i), lock[i])
  <1>1. /\ RemoveAt(lock, i) \in Seq(Task) /\ IsInjective(RemoveAt(lock, i))
        /\ ToSet(RemoveAt(lock, i)) = ToSet(lock) \ {lock[i]}
        /\ lock[i] # Head(lock) => Head(RemoveAt(lock, i)) = Head(lock)
    BY LeaveQueue DEF LockSound
  <1>2. QED
    BY <1>1 DEF LockSound, Rest, Uses

\* A task goes to the end of the queue, and into its probe only if that is empty.
LEMMA Joins ==
  ASSUME AuthTypes, NEW t \in Task, NEW q, Rest(q, t), NEW x \in InProbe \cup Waiting,
         x \in InProbe => q = <<>>,
         pc' = [pc EXCEPT ![t] = x], lock' = Append(q, t)
  PROVE  LockSound'
  <1>1. t \notin ToSet(q) /\ q \in Seq(Task) /\ IsInjective(q)
    BY DEF Rest
  <1>2. /\ lock' \in Seq(Task) /\ IsInjective(lock') /\ ToSet(lock') = ToSet(q) \cup {t}
        /\ Head(lock') = IF q = <<>> THEN t ELSE Head(q)
    BY <1>1, EnterQueue
  <1>3. pc'[t] = x /\ \A u \in Task : u # t => pc'[u] = pc[u]
    BY DEF AuthTypes
  <1>4. ToSet(lock') = {u \in Task : pc'[u] \in InProbe \cup Waiting}
    BY <1>2, <1>3 DEF Rest, Uses
  <1>5. ASSUME NEW u \in Task, pc'[u] \in InProbe PROVE u = Head(lock')
    <2>1. CASE u = t
      BY <1>2, <1>3, <1>5, <2>1
    <2>2. CASE u # t
      <3>1. pc[u] \in InProbe
        BY <1>3, <1>5, <2>2
      <3>2. u = Head(q) /\ u \in ToSet(q)
        BY <2>2, <3>1 DEF Rest, Uses
      <3>3. q # <<>>
        BY <3>2, EmptySeq DEF ToSet
      <3>4. QED
        BY <1>2, <3>2, <3>3
    <2>3. QED
      BY <2>1, <2>2
  <1>6. QED
    BY <1>2, <1>4, <1>5 DEF LockSound

\* A task is no longer in the queue, or never was.
LEMMA Leaves ==
  ASSUME AuthTypes, NEW t \in Task, NEW q, Rest(q, t), NEW x, x \notin InProbe \cup Waiting,
         pc' = [pc EXCEPT ![t] = x], lock' = q
  PROVE  LockSound'
  <1>1. pc'[t] = x /\ \A u \in Task : u # t => pc'[u] = pc[u]
    BY DEF AuthTypes
  <1>2. ToSet(lock') = {u \in Task : pc'[u] \in InProbe \cup Waiting}
    BY <1>1 DEF Rest, Uses
  <1>3. \A u \in Task : pc'[u] \in InProbe => u = Head(lock')
    BY <1>1 DEF Rest
  <1>4. QED
    BY <1>2, <1>3 DEF LockSound, Rest

\* refresh_state() is entered behind the queue of the others.
LEMMA ProbeLock ==
  ASSUME AuthTypes, NEW t \in Task, NEW q, Rest(q, t), NEW stage \in InProbe,
         Probe(t, q, stage)
  PROVE  LockSound' /\ \E x \in {stage, Queued[stage]} : pc' = [pc EXCEPT ![t] = x]
  <1>1. Queued[stage] \in InProbe \cup Waiting /\ Queued[stage] \notin InProbe
    BY DEF Queued, InProbe, Waiting
  <1>2. lock' = Append(q, t)
    BY DEF Probe
  <1>3. CASE q = <<>> /\ pc' = [pc EXCEPT ![t] = stage]
    <2>1. LockSound'
      BY <1>2, <1>3, Joins
    <2>2. QED
      BY <1>3, <2>1
  <1>4. CASE q # <<>> /\ pc' = [pc EXCEPT ![t] = Queued[stage]]
    <2>1. LockSound'
      BY <1>1, <1>2, <1>4, Joins
    <2>2. QED
      BY <1>4, <2>1
  <1>5. QED
    BY <1>3, <1>4 DEF Probe

\* The watchdog ends its round with the queue of the others.
LEMMA RoundLock ==
  ASSUME AuthTypes, NEW q, Rest(q, Watchdog), NEW s, NEW e, Round(s, e, q)
  PROVE  LockSound' /\ \E x : pc' = [pc EXCEPT ![Watchdog] = x]
  <1>1. "sleep" \notin InProbe \cup Waiting /\ "command" \notin InProbe \cup Waiting
        /\ "refresh_queued" \in Waiting /\ "refresh_queued" \notin InProbe
    BY DEF InProbe, Waiting
  <1>2. CASE pc' = [pc EXCEPT ![Watchdog] = "sleep"] /\ lock' = q
    BY <1>1, <1>2, Leaves, Tasks
  <1>3. CASE pc' = [pc EXCEPT ![Watchdog] = "command"] /\ lock' = q
    BY <1>1, <1>3, Leaves, Tasks
  <1>4. CASE pc' = [pc EXCEPT ![Watchdog] = "refresh_queued"] /\ lock' = Append(q, Watchdog)
    BY <1>1, <1>4, Joins, Tasks
  <1>5. QED
    BY <1>2, <1>3, <1>4 DEF Round

\* Moving one task to a place that is not the watchdog's probe, or the watchdog.
LEMMA ProbeFrame ==
  ASSUME AuthTypes, ProbeIsWatchdog, NEW t \in Task, NEW x,
         x \in {"probe", "probe_queued"} => t = Watchdog,
         pc' = [pc EXCEPT ![t] = x]
  PROVE  ProbeIsWatchdog'
  BY DEF AuthTypes, ProbeIsWatchdog

LockInv == LockSound /\ ProbeIsWatchdog

\* The queue is sound when the service starts.
LEMMA InitLock == Init => LockInv
  <1> SUFFICES ASSUME Init PROVE LockInv
    OBVIOUS
  <1>1. /\ lock = <<Startup>>
        /\ pc[Startup] = "confirm"
        /\ \A t \in Task : t # Startup => pc[t] \in {"sleep", "idle"}
    BY Tasks DEF Init, Startup, Watchdog
  <1>2. /\ lock \in Seq(Task) /\ DOMAIN lock = {1} /\ lock[1] = Startup /\ Head(lock) = Startup
    BY <1>1, Tasks
  <1>3. IsInjective(lock) /\ ToSet(lock) = {Startup}
    BY <1>2 DEF IsInjective, ToSet
  <1>4. LockSound
    BY <1>1, <1>2, <1>3, Tasks DEF LockSound, InProbe, Waiting
  <1>5. ProbeIsWatchdog
    BY <1>1 DEF ProbeIsWatchdog
  <1>6. QED
    BY <1>4, <1>5 DEF LockInv

\* A probe that waited begins: it has the lock already.
LEMMA BeginLock == ASSUME AuthTypes, LockInv, NEW t \in Task, Begin(t) PROVE LockInv'
  <1> USE DEF LockInv
  <1>1. PICK stage \in InProbe :
          pc[t] = Queued[stage] /\ pc' = [pc EXCEPT ![t] = stage]
    BY DEF Begin
  <1>2. lock' = lock /\ t = Head(lock)
    BY DEF Begin
  <1>3. /\ Queued[stage] \in Waiting
        /\ stage = "probe" => Queued[stage] = "probe_queued"
        /\ stage # "probe_queued"
    BY DEF Queued, InProbe, Waiting
  <1>4. pc'[t] = stage /\ \A u \in Task : u # t => pc'[u] = pc[u]
    BY <1>1 DEF AuthTypes
  <1>5. {u \in Task : pc'[u] \in InProbe \cup Waiting}
          = {u \in Task : pc[u] \in InProbe \cup Waiting}
    BY <1>1, <1>3, <1>4
  <1>6. LockSound'
    BY <1>2, <1>4, <1>5 DEF LockSound
  <1>7. ProbeIsWatchdog'
    BY <1>1, <1>3, ProbeFrame DEF ProbeIsWatchdog
  <1>8. QED
    BY <1>6, <1>7

\* whoami answers: the lock goes to the next, or the watchdog queues once more.
LEMMA AnswerLock == ASSUME AuthTypes, LockInv, NEW t \in Task, Answer(t) PROVE LockInv'
  <1> USE DEF LockInv
  <1>1. pc[t] \in InProbe
    BY DEF Answer
  <1>2. Rest(Tail(lock), t)
    BY <1>1, RestTail DEF LockSound, Uses
  <1>3. ASSUME NEW s, pc[t] = "probe", Round(s, found, Tail(lock)) PROVE LockInv'
    <2>1. t = Watchdog
      BY <1>3 DEF ProbeIsWatchdog
    <2>2. LockSound' /\ \E x : pc' = [pc EXCEPT ![Watchdog] = x]
      BY <1>2, <1>3, <2>1, RoundLock
    <2>3. ProbeIsWatchdog'
      BY <2>2, ProbeFrame, Tasks
    <2>4. QED
      BY <2>2, <2>3
  <1>4. ASSUME lock' = Tail(lock),
               \E x \in {"done", "sleep", "idle"} : pc' = [pc EXCEPT ![t] = x]
        PROVE  LockInv'
    <2>1. PICK x \in {"done", "sleep", "idle"} : pc' = [pc EXCEPT ![t] = x]
      BY <1>4
    <2>2. x \notin InProbe \cup Waiting /\ x \notin {"probe", "probe_queued"}
      BY <2>1 DEF InProbe, Waiting
    <2>3. LockSound'
      BY <1>2, <1>4, <2>1, <2>2, Leaves
    <2>4. ProbeIsWatchdog'
      BY <2>1, <2>2, ProbeFrame
    <2>5. QED
      BY <2>3, <2>4
  <1>5. CASE /\ lock' = Tail(lock)
             /\ pc' = [pc EXCEPT ![t] = CASE t = Startup -> "done"
                                          [] t = Watchdog -> "sleep"
                                          [] OTHER -> "idle"]
    <2>1. \E x \in {"done", "sleep", "idle"} : pc' = [pc EXCEPT ![t] = x]
      <3>1. CASE t = Startup
        BY <1>5, <3>1, Tasks
      <3>2. CASE t = Watchdog
        BY <1>5, <3>2, Tasks
      <3>3. CASE t # Startup /\ t # Watchdog
        BY <1>5, <3>3
      <3>4. QED
        BY <3>1, <3>2, <3>3
    <2>2. QED
      BY <1>4, <1>5, <2>1
  <1>6. QED
    BY <1>3, <1>5 DEF Answer

LEMMA ProbeFailsLock == ASSUME AuthTypes, LockInv, NEW t \in Task, ProbeFails(t) PROVE LockInv'
  <1> USE DEF LockInv
  <1>1. pc[t] \in InProbe /\ lock' = Tail(lock)
    BY DEF ProbeFails
  <1>2. Rest(Tail(lock), t)
    BY <1>1, RestTail DEF LockSound, Uses
  <1>3. PICK x \in {"sleep", "idle"} : pc' = [pc EXCEPT ![t] = x]
    BY DEF ProbeFails
  <1>4. x \notin InProbe \cup Waiting /\ x \notin {"probe", "probe_queued"}
    BY <1>3 DEF InProbe, Waiting
  <1>5. LockSound'
    BY <1>1, <1>2, <1>3, <1>4, Leaves
  <1>6. ProbeIsWatchdog'
    BY <1>3, <1>4, ProbeFrame
  <1>7. QED
    BY <1>5, <1>6

\* The watchdog's next round, from its sleep.
LEMMA PollLock == ASSUME AuthTypes, LockInv, Poll PROVE LockInv'
  <1> USE DEF LockInv
  <1>1. Rest(lock, Watchdog)
    BY RestSelf, Tasks DEF Poll, Uses, InProbe, Waiting
  <1>2. CASE Round(state, expires, lock)
    <2>1. LockSound' /\ \E x : pc' = [pc EXCEPT ![Watchdog] = x]
      BY <1>1, <1>2, RoundLock
    <2>2. QED
      BY <2>1, ProbeFrame, Tasks
  <1>3. CASE Probe(Watchdog, lock, "probe")
    <2>1. LockSound' /\ \E x : pc' = [pc EXCEPT ![Watchdog] = x]
      BY <1>1, <1>3, ProbeLock, Tasks DEF InProbe
    <2>2. QED
      BY <2>1, ProbeFrame, Tasks
  <1>4. QED
    BY <1>2, <1>3 DEF Poll

\* try_refresh() takes the lock that it waited for to leave it at once.
LEMMA RefreshGrantedLock == ASSUME AuthTypes, LockInv, RefreshGranted PROVE LockInv'
  <1> USE DEF LockInv
  <1>1. /\ pc[Watchdog] = "refresh_queued" /\ Head(lock) = Watchdog /\ lock' = Tail(lock)
        /\ pc' = [pc EXCEPT ![Watchdog] = "command"]
    BY DEF RefreshGranted
  <1>2. Rest(Tail(lock), Watchdog)
    BY <1>1, RestTail, Tasks DEF Uses, Waiting
  <1>3. "command" \notin InProbe \cup Waiting
    BY DEF InProbe, Waiting
  <1>4. LockSound'
    BY <1>1, <1>2, <1>3, Leaves, Tasks
  <1>5. QED
    BY <1>1, <1>4, ProbeFrame, Tasks

LEMMA CommandEndsLock == ASSUME AuthTypes, LockInv, CommandEnds PROVE LockInv'
  <1> USE DEF LockInv
  <1>1. pc[Watchdog] = "command" /\ Probe(Watchdog, lock, "confirm")
    BY DEF CommandEnds
  <1>2. Rest(lock, Watchdog)
    BY <1>1, RestSelf, Tasks DEF Uses, InProbe, Waiting
  <1>3. LockSound' /\ \E x : pc' = [pc EXCEPT ![Watchdog] = x]
    BY <1>1, <1>2, ProbeLock, Tasks DEF InProbe
  <1>4. QED
    BY <1>3, ProbeFrame, Tasks

\* stop() takes the watchdog out of the queue, wherever it is in it.
LEMMA StopLock == ASSUME AuthTypes, LockInv, Stop PROVE LockInv'
  <1> USE DEF LockInv
  <1>1. pc' = [pc EXCEPT ![Watchdog] = "stopped"]
    BY DEF Stop
  <1>2. "stopped" \notin InProbe \cup Waiting
    BY DEF InProbe, Waiting
  <1>3. CASE \E i \in DOMAIN lock : lock[i] = Watchdog /\ lock' = RemoveAt(lock, i)
    <2>1. PICK i \in DOMAIN lock : lock[i] = Watchdog /\ lock' = RemoveAt(lock, i)
      BY <1>3
    <2>2. Rest(RemoveAt(lock, i), Watchdog)
      BY <2>1, RestRemoved
    <2>3. LockSound'
      BY <1>1, <1>2, <2>1, <2>2, Leaves, Tasks
    <2>4. QED
      BY <1>1, <2>3, ProbeFrame, Tasks
  <1>4. CASE Watchdog \notin ToSet(lock) /\ UNCHANGED lock
    <2>1. Rest(lock, Watchdog)
      BY <1>4, RestSelf, Tasks DEF LockSound, Uses
    <2>2. LockSound'
      BY <1>1, <1>2, <1>4, <2>1, Leaves, Tasks
    <2>3. QED
      BY <1>1, <2>2, ProbeFrame, Tasks
  <1>5. QED
    BY <1>3, <1>4 DEF Stop

\* A device login starts at once if nobody has the lock, else it waits.
LEMMA StartLoginLock == ASSUME AuthTypes, LockInv, NEW l \in Login, StartLogin(l) PROVE LockInv'
  <1> USE DEF LockInv
  <1>1. l \in Task /\ Rest(lock, l)
    BY RestSelf, Tasks DEF StartLogin, Uses, InProbe, Waiting
  <1>2. "device" \notin InProbe \cup Waiting
        /\ "login_queued" \in Waiting /\ "login_queued" \notin InProbe
    BY DEF InProbe, Waiting
  <1>3. CASE pc' = [pc EXCEPT ![l] = "device"] /\ UNCHANGED lock
    <2>1. LockSound'
      BY <1>1, <1>2, <1>3, Leaves
    <2>2. QED
      BY <1>1, <1>3, <2>1, ProbeFrame
  <1>4. CASE pc' = [pc EXCEPT ![l] = "login_queued"] /\ lock' = Append(lock, l)
    <2>1. LockSound'
      BY <1>1, <1>2, <1>4, Joins
    <2>2. QED
      BY <1>1, <1>4, <2>1, ProbeFrame
  <1>5. QED
    BY <1>3, <1>4 DEF StartLogin

LEMMA LoginGrantedLock ==
  ASSUME AuthTypes, LockInv, NEW l \in Login, LoginGranted(l) PROVE LockInv'
  <1> USE DEF LockInv
  <1>1. /\ pc[l] = "login_queued" /\ Head(lock) = l /\ lock' = Tail(lock)
        /\ pc' = [pc EXCEPT ![l] = "device"]
    BY DEF LoginGranted
  <1>2. l \in Task /\ Rest(Tail(lock), l)
    BY <1>1, RestTail, Tasks DEF Uses, Waiting
  <1>3. "device" \notin InProbe \cup Waiting
    BY DEF InProbe, Waiting
  <1>4. LockSound'
    BY <1>1, <1>2, <1>3, Leaves
  <1>5. QED
    BY <1>1, <1>2, <1>4, ProbeFrame

LEMMA LoginEndsLock == ASSUME AuthTypes, LockInv, NEW l \in Login, LoginEnds(l) PROVE LockInv'
  <1> USE DEF LockInv
  <1>1. pc[l] = "device" /\ Probe(l, lock, "confirm")
    BY DEF LoginEnds
  <1>2. l \in Task /\ Rest(lock, l)
    BY <1>1, RestSelf, Tasks DEF Uses, InProbe, Waiting
  <1>3. LockSound' /\ \E x \in {"confirm", Queued["confirm"]} : pc' = [pc EXCEPT ![l] = x]
    BY <1>1, <1>2, ProbeLock DEF InProbe
  <1>4. Queued["confirm"] = "confirm_queued"
    BY DEF Queued
  <1>5. QED
    BY <1>2, <1>3, <1>4, ProbeFrame

\* No step of any task breaks the queue.
LEMMA NextLock == AuthTypes /\ LockInv /\ [Next]_vars => LockInv'
  <1> SUFFICES ASSUME AuthTypes, LockInv, [Next]_vars PROVE LockInv'
    OBVIOUS
  <1>1. ASSUME NEW t \in Task, Begin(t) \/ Answer(t) \/ ProbeFails(t) PROVE LockInv'
    BY <1>1, BeginLock, AnswerLock, ProbeFailsLock
  <1>2. ASSUME NEW l \in Login, StartLogin(l) \/ LoginGranted(l) \/ LoginEnds(l)
        PROVE  LockInv'
    BY <1>2, StartLoginLock, LoginGrantedLock, LoginEndsLock
  <1>3. CASE Poll \/ RefreshGranted \/ CommandEnds \/ Stop
    BY <1>3, PollLock, RefreshGrantedLock, CommandEndsLock, StopLock
  <1>4. CASE World \/ Lapse \/ UNCHANGED vars
    <2>1. lock' = lock /\ pc' = pc
      BY <1>4 DEF World, Renew, Revoke, CliChanges, Approach, Lapse, vars
    <2>2. QED
      BY <2>1 DEF LockInv, LockSound, ProbeIsWatchdog
  <1>5. QED
    BY <1>1, <1>2, <1>3, <1>4 DEF Next

\* All variables keep their types, and the lock's queue holds each task that uses
\* the lock once and no other, whatever is cancelled: the lock is never lost.
THEOREM AuthTypesAndLock == Spec => []AuthTypeOK
  <1> DEFINE Inv == IInv /\ LockInv
  <1>1. Init => Inv
    BY InitInv, InitLock
  <1>2. Inv /\ [Next]_vars => Inv'
    BY NextInv, NextLock DEF IInv
  <1>3. Inv => AuthTypeOK
    BY DEF IInv, LockInv, AuthTypeOK
  <1>4. QED
    BY <1>1, <1>2, <1>3, PTL DEF Spec

==============================================================================
