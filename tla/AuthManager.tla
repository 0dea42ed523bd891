------------------------------ MODULE AuthManager ------------------------------
(***************************************************************************)
(* AuthManager (src/kiro_api/auth.py): the login state that gates every    *)
(* turn, and the tasks that write it: the probe serve() awaits at startup, *)
(* the watchdog loop with its proactive refresh, and device logins.  A     *)
(* task runs from one await to the next in one step; the awaits are the    *)
(* asyncio.Lock, the subprocesses (whoami, the refresh command, the device *)
(* login) and the watchdog's sleep.                                        *)
(*                                                                         *)
(* Time is two-valued: an expiry is "near" once it is within the refresh   *)
(* margin or past, else (or when no file has one) it is "far".             *)
(***************************************************************************)
EXTENDS Naturals, Sequences, FiniteSets, SequencesExt

CONSTANT Login   \* start_device_login() calls and the task each one starts;
                 \* its size bounds the logins that overlap

Startup  == "startup"    \* serve() in its refresh_state(force=True)
Watchdog == "watchdog"   \* _loop()
Task     == {Startup, Watchdog} \cup Login

ASSUME LoginAssumption == Login \cap {Startup, Watchdog} = {}

VARIABLES
  state,       \* state.state
  expires,     \* state.expires_at against the present
  fresh,       \* state.last_check is less than whoami_ttl ago
  running,     \* _login_state["running"]
  returncode,  \* _login_state["returncode"]: "none", "zero", "nonzero"
  lock,        \* _lock: its owner, then those that wait for it in turn
  pc,          \* where each task is suspended
  found,       \* the owner's expiry, against the present
  asked,       \* the same expiry against the owner's now, taken before it waited
  token,       \* outside: the earliest expiry in the cache files
  session,     \* outside: the account is logged in
  cli,         \* outside: kiro-cli answers ("ok"), hangs ("slow") or cannot be
               \* run ("broken": an OSError that _whoami does not catch)
  probed       \* history: what the last completed probe answered

auth  == <<state, expires, fresh>>
login == <<running, returncode>>
probe == <<found, asked>>
world == <<token, session, cli>>
vars  == <<auth, login, lock, pc, probe, world, probed>>

State  == {"unknown", "logged_out", "logging_in", "logged_in", "expiring_soon", "refreshing"}
Expiry == {"far", "near"}

\* Where a task owns the lock, and where it owns it or waits for it.
InProbe == {"probe", "confirm"}
Waiting == {"probe_queued", "confirm_queued", "login_queued", "refresh_queued"}

AuthTypes ==
  /\ state \in State /\ expires \in Expiry /\ fresh \in BOOLEAN
  /\ running \in BOOLEAN /\ returncode \in {"none", "zero", "nonzero"}
  /\ pc \in [Task -> InProbe \cup Waiting \cup
                     {"idle", "sleep", "device", "command", "done", "stopped"}]
  /\ found \in Expiry /\ asked \in Expiry
  /\ token \in Expiry /\ session \in BOOLEAN /\ cli \in {"ok", "slow", "broken"}
  /\ probed \in {"none", "in", "out"}

\* The lock's queue holds each task that uses the lock once and no other, also
\* after a cancellation, and only its first task can be in a probe.
LockSound ==
  /\ lock \in Seq(Task) /\ IsInjective(lock)
  /\ ToSet(lock) = {t \in Task : pc[t] \in InProbe \cup Waiting}
  /\ \A t \in Task : pc[t] \in InProbe => t = Head(lock)

\* The types of all variables, and the queue of the lock.
AuthTypeOK == AuthTypes /\ LockSound

Init ==
  /\ state = "unknown" /\ expires = "far" /\ fresh = FALSE
  /\ running = FALSE /\ returncode = "none"
  /\ lock = <<Startup>>
  /\ pc = [t \in Task |-> CASE t = Startup -> "confirm" [] t = Watchdog -> "sleep"
                            [] OTHER -> "idle"]
  /\ token \in Expiry /\ session \in BOOLEAN /\ cli = "ok"
  /\ found = token /\ asked = token /\ probed = "none"

-------------------------------------------------------------------------------
\* Mutant of LoggedIn: EXPIRING_SOON does not count.
LoggedInOnly(s) == s = "logged_in"

\* AuthState.logged_in, which the auth gate of every turn reads.
LoggedIn(s) == s \in {"logged_in", "expiring_soon"}

Stopped == pc[Watchdog] = "stopped"

\* The place where a probe of each kind waits for the lock.
Queued == [probe |-> "probe_queued", confirm |-> "confirm_queued"]

\* refresh_state() takes the lock, behind those in the queue q if there are any.
\* A forced probe that nothing follows is a "confirm", the watchdog's a "probe".
Probe(t, q, stage) ==
  /\ lock' = Append(q, t)
  /\ \/ /\ q = <<>>
        /\ pc' = [pc EXCEPT ![t] = stage]
        /\ found' = token' /\ asked' = token'
     \/ /\ q # <<>>
        /\ pc' = [pc EXCEPT ![t] = Queued[stage]]
        /\ UNCHANGED probe

\* The lock falls to a probe that waited.  Its now is old by the wait: what is
\* near by now may have been far.
Begin(t) ==
  /\ lock # <<>> /\ t = Head(lock)
  /\ \E stage \in InProbe :
       /\ pc[t] = Queued[stage]
       /\ pc' = [pc EXCEPT ![t] = stage]
  /\ found' = token /\ asked' \in {token, "far"}
  /\ UNCHANGED <<auth, login, lock, world, probed>>

\* Mutant of Label: a failed probe leaves a session that is about to expire.
LabelKeepsExpiring(ok) ==
  IF ok THEN IF asked = "near" THEN "expiring_soon" ELSE "logged_in"
        ELSE IF state \in {"logging_in", "expiring_soon"} THEN state ELSE "logged_out"

\* Mutant of Label: a login in flight is not touched by a good probe either.
LabelKeepsLogin(ok) ==
  IF state = "logging_in" THEN state
  ELSE IF ok THEN IF asked = "near" THEN "expiring_soon" ELSE "logged_in"
             ELSE "logged_out"

\* What whoami's answer makes of the state.
Label(ok) ==
  IF ok THEN IF asked = "near" THEN "expiring_soon" ELSE "logged_in"
        ELSE IF state = "logging_in" THEN state ELSE "logged_out"

\* The rest of the watchdog's round with the state s, the expiry e and the
\* queue q: to sleep, or try_refresh(), which takes the lock to enter REFRESHING.
Round(s, e, q) ==
  \/ /\ ~(LoggedIn(s) /\ e = "near")
     /\ pc' = [pc EXCEPT ![Watchdog] = "sleep"]
     /\ state' = s /\ lock' = q
  \/ /\ LoggedIn(s) /\ e = "near" /\ q = <<>>
     /\ pc' = [pc EXCEPT ![Watchdog] = "command"]
     /\ state' = "refreshing" /\ lock' = q
  \/ /\ LoggedIn(s) /\ e = "near" /\ q # <<>>
     /\ pc' = [pc EXCEPT ![Watchdog] = "refresh_queued"]
     /\ state' = s /\ lock' = Append(q, Watchdog)

\* whoami answers, or its 10 s are over, which counts as logged out.
Answer(t) ==
  /\ pc[t] \in InProbe /\ cli # "broken"
  /\ LET ok == cli = "ok" /\ session IN
       /\ probed' = IF ok THEN "in" ELSE "out"
       /\ \/ pc[t] = "probe" /\ Round(Label(ok), found, Tail(lock))
          \/ /\ pc[t] = "confirm"
             /\ state' = Label(ok) /\ lock' = Tail(lock)
             /\ pc' = [pc EXCEPT ![t] = CASE t = Startup -> "done" [] t = Watchdog -> "sleep"
                                          [] OTHER -> "idle"]
  /\ expires' = found /\ fresh' = TRUE
  /\ UNCHANGED <<login, probe, world>>

\* whoami cannot be run: the exception ends the watchdog's round (or, unseen,
\* the login task).  At startup it would end the service instead.
ProbeFails(t) ==
  /\ pc[t] \in InProbe /\ cli = "broken" /\ t # Startup
  /\ pc' = [pc EXCEPT ![t] = IF t = Watchdog THEN "sleep" ELSE "idle"]
  /\ lock' = Tail(lock)
  /\ UNCHANGED <<auth, login, probe, world, probed>>

-------------------------------------------------------------------------------
\* Mutant of Poll: a state that says logged in is not probed again.
PollTrustsState ==
  /\ pc[Watchdog] = "sleep"
  /\ UNCHANGED <<expires, fresh, login, world, probed>>
  /\ \/ (fresh \/ LoggedIn(state)) /\ Round(state, expires, lock) /\ UNCHANGED probe
     \/ ~(fresh \/ LoggedIn(state)) /\ Probe(Watchdog, lock, "probe") /\ UNCHANGED state

\* The watchdog's next round: the cached state if it is fresh, else a probe.
Poll ==
  /\ pc[Watchdog] = "sleep"
  /\ UNCHANGED <<expires, fresh, login, world, probed>>
  /\ \/ fresh /\ Round(state, expires, lock) /\ UNCHANGED probe
     \/ ~fresh /\ Probe(Watchdog, lock, "probe") /\ UNCHANGED state

\* try_refresh() gets the lock it waited for.  (It gives up if it finds
\* REFRESHING; RefreshOnce below says that it never does.)
RefreshGranted ==
  /\ pc[Watchdog] = "refresh_queued" /\ Head(lock) = Watchdog
  /\ state' = "refreshing"
  /\ lock' = Tail(lock)
  /\ pc' = [pc EXCEPT ![Watchdog] = "command"]
  /\ UNCHANGED <<expires, fresh, login, probe, world, probed>>

\* The refresh command is over: it may have renewed the session.  A probe follows.
CommandEnds ==
  /\ pc[Watchdog] = "command"
  /\ \/ cli = "ok" /\ session' = TRUE /\ token' = "far"
     \/ UNCHANGED <<session, token>>
  /\ Probe(Watchdog, lock, "confirm")
  /\ UNCHANGED <<auth, login, cli, probed>>

\* Mutant of Stop: the lock stays with the cancelled task.
StopKeepsLock ==
  /\ pc[Startup] = "done" /\ ~Stopped
  /\ pc' = [pc EXCEPT ![Watchdog] = "stopped"]
  /\ UNCHANGED <<auth, login, lock, probe, world, probed>>

\* stop() cancels the watchdog where it is; async with gives up the lock.
Stop ==
  /\ pc[Startup] = "done" /\ ~Stopped
  /\ pc' = [pc EXCEPT ![Watchdog] = "stopped"]
  /\ \/ \E i \in DOMAIN lock : lock[i] = Watchdog /\ lock' = RemoveAt(lock, i)
     \/ Watchdog \notin ToSet(lock) /\ UNCHANGED lock
  /\ UNCHANGED <<auth, login, probe, world, probed>>

-------------------------------------------------------------------------------
\* Mutant of StartLogin: _login_state is not read first.
StartLoginAgain(l) ==
  /\ pc[l] = "idle" /\ pc[Startup] = "done" /\ ~Stopped
  /\ running' = TRUE /\ returncode' = "none"
  /\ \/ /\ lock = <<>>
        /\ state' = "logging_in" /\ pc' = [pc EXCEPT ![l] = "device"]
        /\ UNCHANGED lock
     \/ /\ lock # <<>>
        /\ lock' = Append(lock, l) /\ pc' = [pc EXCEPT ![l] = "login_queued"]
        /\ UNCHANGED state
  /\ UNCHANGED <<expires, fresh, probe, world, probed>>

\* start_device_login() (POST /admin/login) while no login runs.
StartLogin(l) ==
  /\ pc[l] = "idle" /\ pc[Startup] = "done" /\ ~Stopped
  /\ ~running
  /\ running' = TRUE /\ returncode' = "none"
  /\ \/ /\ lock = <<>>
        /\ state' = "logging_in" /\ pc' = [pc EXCEPT ![l] = "device"]
        /\ UNCHANGED lock
     \/ /\ lock # <<>>
        /\ lock' = Append(lock, l) /\ pc' = [pc EXCEPT ![l] = "login_queued"]
        /\ UNCHANGED state
  /\ UNCHANGED <<expires, fresh, probe, world, probed>>

LoginGranted(l) ==
  /\ pc[l] = "login_queued" /\ Head(lock) = l
  /\ state' = "logging_in"
  /\ lock' = Tail(lock)
  /\ pc' = [pc EXCEPT ![l] = "device"]
  /\ UNCHANGED <<expires, fresh, login, probe, world, probed>>

\* The device login is over: approved, failed, or broken off by an exception
\* that leaves no returncode.  A forced probe follows in each case.
LoginEnds(l) ==
  /\ pc[l] = "device"
  /\ \/ returncode' = "zero" /\ session' = TRUE /\ token' = "far"
     \/ returncode' \in {"nonzero", "none"} /\ UNCHANGED <<session, token>>
  /\ running' = FALSE
  /\ Probe(l, lock, "confirm")
  /\ UNCHANGED <<auth, cli, probed>>

-------------------------------------------------------------------------------
\* Outside: the account is logged in or renewed elsewhere, expires or is revoked;
\* kiro-cli hangs, cannot be run, or works again.
Renew ==
  /\ session' = TRUE /\ token' = "far"
  /\ UNCHANGED <<auth, login, lock, pc, probe, cli, probed>>

Revoke ==
  /\ session /\ session' = FALSE
  /\ UNCHANGED <<auth, login, lock, pc, probe, token, cli, probed>>

CliChanges ==
  /\ cli' \in {"ok", "slow", "broken"}
  /\ UNCHANGED <<auth, login, lock, pc, probe, token, session, probed>>

\* Time passes: expiries come near, and a probe's result is no longer fresh.
Approach ==
  /\ token' \in {token, "near"} /\ expires' \in {expires, "near"}
  /\ found' \in {found, "near"}
  /\ UNCHANGED <<state, fresh, login, lock, pc, asked, session, cli, probed>>

Lapse ==
  /\ fresh /\ fresh' = FALSE
  /\ UNCHANGED <<state, expires, login, lock, pc, probe, world, probed>>

World == Renew \/ Revoke \/ CliChanges \/ Approach

Next ==
  \/ Poll \/ RefreshGranted \/ CommandEnds \/ Stop
  \/ \E t \in Task : Begin(t) \/ Answer(t) \/ ProbeFails(t)
  \/ \E l \in Login : StartLogin(l) \/ LoginGranted(l) \/ LoginEnds(l)
  \/ World \/ Lapse

Spec == Init /\ [][Next]_vars

\* Every task that can run runs, whoami and the refresh command are over within
\* their timeouts, the lock is first come first served, and time passes.  The
\* device login has no timeout and no fairness.
Fairness ==
  /\ WF_vars(Poll) /\ WF_vars(RefreshGranted) /\ WF_vars(CommandEnds) /\ WF_vars(Lapse)
  /\ \A t \in Task : WF_vars(Begin(t)) /\ WF_vars(Answer(t) \/ ProbeFails(t))
  /\ \A l \in Login : WF_vars(LoginGranted(l))

FairSpec == Spec /\ Fairness

-------------------------------------------------------------------------------
\* "touched by exactly one owner": however calls, the lock's queue and ending
\* logins interleave, at most one device login is under way, _login_state says
\* so, and it does not show the result of an earlier one.
OneLogin ==
  LET active == {l \in Login : pc[l] \in {"login_queued", "device"}} IN
  /\ Cardinality(active) <= 1
  /\ running <=> active # {}
  /\ running => returncode = "none"

\* The gate is open only if the last completed probe found the account logged
\* in: no refresh, login or cached state opens it.
GateTruthful == LoggedIn(state) => probed = "in"

\* A refresh never starts on top of another: try_refresh()'s test for REFRESHING
\* cannot find it, also when it had to wait for the lock.
RefreshOnce == pc[Watchdog] = "refresh_queued" => state # "refreshing"

\* "recovers automatically the moment a valid token reappears": with a session
\* that stays valid the gate opens again and again, whatever logins, refreshes
\* and failures came before.
Recovers ==
  (<>[](session /\ cli = "ok") /\ []~Stopped) => []<>LoggedIn(state)

\* "returns clean 401s": once the session stays invalid the gate closes for good.
Closes ==
  (<>[](~session /\ cli # "broken") /\ []~Stopped) => <>[]~LoggedIn(state)

\* The watchdog does not give up on a token that stays within the margin, once
\* logins no longer interfere.
KeepsRefreshing ==
  (<>[](session /\ token = "near" /\ cli = "ok" /\ ~running) /\ []~Stopped)
    => []<>(pc[Watchdog] = "command")
===============================================================================
