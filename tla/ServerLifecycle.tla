----------------------------- MODULE ServerLifecycle -----------------------------
(***************************************************************************)
(* The service as its host runs it: "kiro-api config set" edits the        *)
(* configuration file, and "kiro-api serve" builds its configuration from  *)
(* it, starts auth manager, pool and HTTP server in turn, tells systemd    *)
(* when it listens, drains on a signal and cleans up (server.py,           *)
(* sdnotify.py, cli.py; the HTTP server is uvicorn's).  Signals, crashes   *)
(* and the next start may come at any time.                                *)
(***************************************************************************)
EXTENDS ConfigFile

CONSTANTS
  Editor,      \* commands "kiro-api config set", run again and again
  Sets,        \* editor -> the settings and values it is run with
  Files,       \* contents the file may have had before
  Envs, Args   \* environments of the service, options of a start

ASSUME LifecycleAssumption ==
  /\ Sets \in [Editor -> SUBSET (Key \X Value)]
  /\ Files \subseteq Lines /\ Envs \subseteq Settings /\ Args \subseteq Settings

VARIABLES
  file,      \* the lines of the configuration file
  editor,    \* what each command has in hand: Idle, or a record
  wanted,    \* history: what was last set, Unset where that is unknown
  env, args, \* os.environ without the file, and the options, of this start
  cfg,       \* the running process's Config
  proc,      \* see Phases
  auth_on, pool_on,   \* the watchdog of auth runs; the pool may have workers
  stopping,  \* the stop has been requested: stopping and server.should_exit
  stuck,     \* a client neither reads its answer nor leaves
  ready,     \* the ready task: "none", "polling", "sent" or "cancelled"
  listened,  \* server.started
  early,     \* history: the stop was requested before the socket listened
  code       \* how the process ends or the last one ended, see Codes

edit == <<file, editor, wanted>>
start == <<args, cfg>>
server == <<auth_on, pool_on, stopping, stuck, ready, listened, early>>
vars == <<edit, env, start, proc, server, code>>

Phases ==
  { "down", "bind", "auth", "pool",   \* validate_bind, refresh_state, pool.start
    "uvicorn",                        \* its Config and its startup
    "serving", "draining",            \* the main loop, the graceful shutdown
    "cleaning" }                      \* the finally of _serve_async

\* Exit codes 0, 2, 1 (SystemExit of uvicorn), 1 (any exception), 0 (KeyboardInterrupt).
Codes == {"none", "stopped", "unbindable", "startup", "fatal", "interrupted", "killed"}

Idle == [at |-> "idle"]
Unknown == [k \in Key |-> Unset]

Init ==
  /\ file \in Files /\ editor = [e \in Editor |-> Idle] /\ wanted = Unknown
  /\ env \in Envs /\ args = Unknown /\ cfg = Unknown
  /\ proc = "down" /\ auth_on = FALSE /\ pool_on = FALSE /\ stopping = FALSE
  /\ stuck = FALSE /\ ready = "none" /\ listened = FALSE /\ early = FALSE
  /\ code = "none"

-------------------------------------------------------------------------------
\* kiro-api config set, set-host and set-port.

Others(e) == {f \in Editor \ {e} : editor[f].at # "idle"}

\* The lines are read; a command that runs meanwhile spoils both.
ReadLines(e) ==
  /\ editor[e].at = "idle"
  /\ \E s \in Sets[e] :
       editor' = [f \in Editor |->
         IF f = e THEN [at |-> "read", key |-> s[1], val |-> s[2], lines |-> file,
                        alone |-> Others(e) = {}]
         ELSE IF f \in Others(e) THEN [editor[f] EXCEPT !.alone = FALSE] ELSE editor[f]]
  /\ UNCHANGED <<file, wanted, env, start, proc, server, code>>

\* write_text opens the file, which empties it, ...
Truncate(e) ==
  /\ editor[e].at = "read" /\ file' = <<>>
  /\ editor' = [editor EXCEPT ![e].at = "open"]
  /\ UNCHANGED <<wanted, env, start, proc, server, code>>

\* ... and writes the new lines.
WriteLines(e) ==
  /\ editor[e].at = "open"
  /\ file' = Written(editor[e].lines, editor[e].key, editor[e].val)
  /\ editor' = [editor EXCEPT ![e] = Idle]
  /\ wanted' = IF editor[e].alone THEN [wanted EXCEPT ![editor[e].key] = editor[e].val] ELSE Unknown
  /\ UNCHANGED <<env, start, proc, server, code>>

\* The command is killed: what it had not written is lost.
EditorDies(e) ==
  /\ editor[e].at # "idle" /\ editor' = [editor EXCEPT ![e] = Idle]
  /\ wanted' = IF editor[e].at = "open" THEN Unknown ELSE wanted
  /\ UNCHANGED <<file, env, start, proc, server, code>>

-------------------------------------------------------------------------------
\* kiro-api serve

\* _build_cfg, in a new process: of a user, or of systemd after a failure.
Start ==
  /\ proc = "down" /\ proc' = "bind" /\ args' \in Args
  /\ cfg' = Build(file, env, args')
  /\ auth_on' = FALSE /\ pool_on' = FALSE /\ stopping' = FALSE
  /\ stuck' = FALSE /\ ready' = "none" /\ listened' = FALSE /\ early' = FALSE
  /\ code' = "none"
  /\ UNCHANGED <<edit, env>>

\* The process is gone, and with it its configuration.
Exit(how) == proc' = "down" /\ code' = how /\ args' = Unknown /\ cfg' = Unknown

\* validate_bind, before anything is started; then auth.start().
Validate ==
  /\ proc = "bind"
  /\ \/ Exit("unbindable") /\ UNCHANGED auth_on
     \/ proc' = "auth" /\ auth_on' = TRUE /\ UNCHANGED <<start, code>>
  /\ UNCHANGED <<edit, env, pool_on, stopping, stuck, ready, listened, early>>

\* refresh_state(force=True) has raised, outside any try block; or it is done, and the
\* pool starts its first workers.
StartPool ==
  /\ proc = "auth"
  /\ \/ Exit("fatal") /\ UNCHANGED pool_on
     \/ proc' = "pool" /\ pool_on' = TRUE /\ UNCHANGED <<start, code>>
  /\ UNCHANGED <<edit, env, auth_on, stopping, stuck, ready, listened, early>>

\* The pool has started.  uvicorn.Config refuses the log level, outside the try
\* block; or the signal handlers are set, the tasks created, and uvicorn starts.
StartUvicorn ==
  /\ proc = "pool"
  /\ \/ Exit("fatal") /\ UNCHANGED ready
     \/ proc' = "uvicorn" /\ ready' = "polling" /\ UNCHANGED <<start, code>>
  /\ UNCHANGED <<edit, env, auth_on, pool_on, stopping, stuck, listened, early>>

\* Before the handlers are set a signal has its default effect; a SIGINT inside
\* asyncio.run() is a KeyboardInterrupt, which serve() takes for an orderly end.
EarlySignal ==
  /\ \/ proc \in {"bind", "auth", "pool"} /\ Exit("killed")
     \/ proc \in {"auth", "pool"} /\ Exit("interrupted")
  /\ UNCHANGED <<edit, env, server>>

\* serve() is left, in whatever way: the finally starts, and cancels the ready task
\* before that runs again.
Leave(how) ==
  /\ proc' = "cleaning" /\ code' = how
  /\ ready' = IF ready = "polling" THEN "cancelled" ELSE ready

\* The address is taken meanwhile: SystemExit passes through the finally.
ListenFails ==
  /\ proc = "uvicorn" /\ Leave("startup")
  /\ UNCHANGED <<edit, env, start, auth_on, pool_on, stopping, stuck, listened, early>>

\* Mutant of Listen: the ready task is not cancelled.
ListenKeepsPolling ==
  /\ proc = "uvicorn" /\ listened' = TRUE /\ UNCHANGED ready
  /\ IF stopping THEN proc' = "cleaning" /\ code' = "stopped"
     ELSE proc' = "serving" /\ UNCHANGED code
  /\ UNCHANGED <<edit, env, start, auth_on, pool_on, stopping, stuck, early>>

\* The socket listens.  After a signal serve() returns at once.
Listen ==
  /\ proc = "uvicorn" /\ listened' = TRUE
  /\ IF stopping THEN Leave("stopped")
     ELSE proc' = "serving" /\ UNCHANGED <<code, ready>>
  /\ UNCHANGED <<edit, env, start, auth_on, pool_on, stopping, stuck, early>>

\* Mutant of OnReady: the ready task looks only once.
OnReadyOnce ==
  /\ ready = "polling" /\ proc # "down" /\ ready' = IF listened THEN "sent" ELSE "cancelled"
  /\ UNCHANGED <<edit, env, start, proc, auth_on, pool_on, stopping, stuck, listened, early,
                 code>>

\* The ready task, which looks every 50 ms, finds server.started and sends READY=1.
OnReady ==
  /\ ready = "polling" /\ proc # "down" /\ listened /\ ready' = "sent"
  /\ UNCHANGED <<edit, env, start, proc, auth_on, pool_on, stopping, stuck, listened, early,
                 code>>

\* SIGTERM or SIGINT: STOPPING=1 is sent and uvicorn told to exit.
RequestStop ==
  /\ proc \in {"uvicorn", "serving", "draining", "cleaning"}
  /\ stopping' = TRUE /\ early' = (early \/ ~listened)
  /\ UNCHANGED <<edit, env, start, proc, auth_on, pool_on, stuck, ready, listened, code>>

ClientStalls ==
  /\ proc \in {"serving", "draining"} /\ stuck' = TRUE
  /\ UNCHANGED <<edit, env, start, proc, auth_on, pool_on, stopping, ready, listened, early,
                 code>>

\* uvicorn's main loop sees it at its next tick, at most 100 ms later.
Drain ==
  /\ proc = "serving" /\ stopping /\ proc' = "draining"
  /\ UNCHANGED <<edit, env, start, server, code>>

\* Mutant of Drained: without timeout_graceful_shutdown.
DrainedUnbounded ==
  /\ proc = "draining" /\ ~stuck /\ Leave("stopped")
  /\ UNCHANGED <<edit, env, start, auth_on, pool_on, stopping, stuck, listened, early>>

\* All requests are answered, or 20 seconds have passed.
Drained ==
  /\ proc = "draining" /\ Leave("stopped")
  /\ UNCHANGED <<edit, env, start, auth_on, pool_on, stopping, stuck, listened, early>>

\* The tasks are cancelled, pool.stop() and auth.stop() awaited.
Clean ==
  /\ proc = "cleaning" /\ Exit(code) /\ pool_on' = FALSE /\ auth_on' = FALSE
  /\ UNCHANGED <<edit, env, stopping, stuck, ready, listened, early>>

\* SIGKILL, or systemd's patience (TimeoutStopSec, WatchdogSec) is at its end.
Killed == proc # "down" /\ Exit("killed") /\ UNCHANGED <<edit, env, server>>

Step ==
  \/ Validate \/ StartPool \/ StartUvicorn \/ ListenFails \/ Listen \/ OnReady
  \/ Drain \/ Drained \/ Clean

Next ==
  \/ \E e \in Editor : ReadLines(e) \/ Truncate(e) \/ WriteLines(e) \/ EditorDies(e)
  \/ Start \/ Step \/ EarlySignal \/ RequestStop \/ ClientStalls \/ Killed

\* The process goes on; nothing makes anybody start it or send a signal.
Spec == Init /\ [][Next]_vars /\ WF_vars(Step)

-------------------------------------------------------------------------------
\* Properties

\* What "config set" has written is what the next start runs with, if no other command
\* edited the file meanwhile and neither the environment nor an option overrides it.
\* A key that stands in the file twice is an exception: the first line is replaced,
\* the last one read.
Applies(k) ==
  /\ wanted[k] # Unset /\ Once(file, k) /\ env[k] = Unset /\ args'[k] = Unset
  /\ \A e \in Editor : editor[e].at # "open"

SetTakesEffect ==
  [][Start => \A k \in Key : Applies(k) => cfg'[k] = Parse(k, Strip[wanted[k]])]_vars

\* A stop is never taken for a start: after a signal that came before the socket
\* listened READY=1 is not sent any more, and a process that has sent it and has not
\* been told to stop serves, with the pool and the watchdog of auth at work.  (A signal
\* between the socket and the next look of the ready task has READY follow STOPPING.)
NoFalseStart ==
  /\ early => ready # "sent"
  /\ ready = "sent" /\ ~stopping /\ proc # "down" =>
       proc = "serving" /\ listened /\ auth_on /\ pool_on

\* Once the handlers are set, a signal ends the process.
StopsWhenTold == stopping ~> (proc = "down")

\* A start comes to an end: READY=1 is sent or the process is gone, so systemd never
\* waits for a process that serves without having said so.
StartsOrEnds == (proc = "bind") ~> (ready = "sent" \/ proc = "down")
==================================================================================
