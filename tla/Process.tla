------------------------------- MODULE Process -------------------------------
(***************************************************************************)
(* The two programs, cmd/api and cmd/worker, from their start to their end.*)
(*                                                                         *)
(* Both load the configuration and open the PostgreSQL pool and the Redis  *)
(* client, neither of which connects yet.  The worker then checks the two  *)
(* stores and goes on checking them; the API checks none and serves, each  *)
(* request in a goroutine of its own.  Deferred calls close the stores in  *)
(* reverse order, and closing the pool waits for its connections to come   *)
(* back, from handlers of requests cut off as well.                        *)
(***************************************************************************)
EXTENDS Server, Config, FiniteSets

CONSTANTS
  Envs,     (* environments a process may find itself in                    *)
  PoolMax,  (* connections of the pool                                      *)
  NoEnv     (* not read yet, or not looked at any more                      *)

ASSUME EnvAssumption == Envs \subseteq Env /\ NoEnv \notin Envs
ASSUME PoolAssumption == PoolMax \in Nat \ {0}

Stores == {"postgres", "redis"}
Kinds == {"healthz", "readyz", "query"}

(* The stores a handler uses: the probe both at once, any other one the    *)
(* pool; one statement stands for all those of a request.                  *)
Uses(k) == CASE k = "readyz" -> Stores [] k = "query" -> {"postgres"} [] OTHER -> {}

VARIABLES
  role,       (* which program it is                                        *)
  env,        (* the environment its configuration was loaded from          *)
  stage,      (* where run() is                                             *)
  failed,     (* run() returns an error: the exit status is 1               *)
  handle,     (* the process's pool and client                              *)
  kind,       (* of each connection's request                               *)
  task,       (* its statement or check of each store                       *)
  taken,      (* checks whose results a probe has received                  *)
  status,     (* what a probe is about to say of each store                 *)
  answer      (* to each request                                            *)

programVars == <<role, env, stage, failed, handle>>
handlerVars == <<kind, task, taken, status, answer>>
vars == <<serverVars, programVars, handlerVars>>

Stages == {"load", "open_postgres", "open_redis", "serve", "check_postgres", "check_redis", "loop",
           "loop_postgres", "loop_redis", "close_redis", "close_postgres", "drain_pool", "exit"}
UnderWay == {"pending", "running"}

Init ==
  /\ ServerInit
  /\ role \in {"api", "worker"}
  /\ env = NoEnv /\ stage = "load" /\ failed = FALSE
  /\ handle = [s \in Stores |-> "unopened"]
  /\ kind = [c \in Conns |-> "none"]
  /\ task = [c \in Conns |-> [s \in Stores |-> "none"]]
  /\ taken = [c \in Conns |-> {}]
  /\ status = [c \in Conns |-> [s \in Stores |-> "unavailable"]]
  /\ answer = [c \in Conns |-> "none"]

-----------------------------------------------------------------------------
(* run(), up to the point where the two programs part.                     *)

Load ==
  /\ stage = "load"
  /\ \E e \in Envs :
       \/ Accepted(e) /\ env' = e /\ stage' = "open_postgres" /\ UNCHANGED failed
       \/ ~Accepted(e) /\ stage' = "exit" /\ failed' = TRUE /\ UNCHANGED env
  /\ UNCHANGED <<serverVars, role, handle, handlerVars>>

(* Only a URL the driver cannot use is an error: nothing connects yet.     *)
OpenPostgres ==
  /\ stage = "open_postgres"
  /\ \/ /\ handle' = [handle EXCEPT !["postgres"] = "open"]
        /\ stage' = "open_redis" /\ UNCHANGED failed
     \/ stage' = "exit" /\ failed' = TRUE /\ UNCHANGED handle
  /\ UNCHANGED <<serverVars, role, env, handlerVars>>

(* From here on run() does not read its configuration any more: it has     *)
(* handed the parts to those they concern.                                 *)
OpenRedis ==
  /\ stage = "open_redis"
  /\ env' = NoEnv
  /\ \/ /\ handle' = [handle EXCEPT !["redis"] = "open"]
        /\ stage' = IF role = "api" THEN "serve" ELSE "check_postgres"
        /\ UNCHANGED failed
     \/ stage' = "close_postgres" /\ failed' = TRUE /\ UNCHANGED handle
  /\ UNCHANGED <<serverVars, role, handlerVars>>

-----------------------------------------------------------------------------
(* The worker.  A check is bounded by its timeout and by ctx.              *)

WorkerCheck(here, next) ==
  /\ stage = here
  /\ \/ stage' = next /\ UNCHANGED failed
     \/ stage' = "close_redis" /\ failed' = TRUE
  /\ UNCHANGED <<serverVars, role, env, handle, handlerVars>>

StartupChecks ==
  \/ WorkerCheck("check_postgres", "check_redis")
  \/ WorkerCheck("check_redis", "loop")

(* Later on a failed check is only logged.                                 *)
HealthTick ==
  /\ \/ stage = "loop" /\ stage' = "loop_postgres"
     \/ stage = "loop_postgres" /\ stage' = "loop_redis"
     \/ stage = "loop_redis" /\ stage' = "loop"
  /\ UNCHANGED <<serverVars, role, env, failed, handle, handlerVars>>

WorkerDone ==
  /\ stage = "loop" /\ signalled
  /\ stage' = "close_redis"
  /\ UNCHANGED <<serverVars, role, env, failed, handle, handlerVars>>

-----------------------------------------------------------------------------
(* The API's server, and the end of both programs.                         *)

RunServer ==
  /\ stage = "serve" /\ Run
  /\ UNCHANGED <<programVars, handlerVars>>

AcceptLoop ==
  /\ stage = "serve" /\ AcceptLoopEnds
  /\ UNCHANGED <<programVars, handlerVars>>

ServerReturned ==
  /\ stage = "serve" /\ pc = "returned"
  /\ failed' = (result = "error")
  /\ stage' = "close_redis"
  /\ UNCHANGED <<serverVars, role, env, handle, handlerVars>>

CloseRedis ==
  /\ stage = "close_redis"
  /\ handle' = [handle EXCEPT !["redis"] = "closed"]
  /\ stage' = "close_postgres"
  /\ UNCHANGED <<serverVars, role, env, failed, handlerVars>>

(* The pool gives no connection away any more and waits for those it gave. *)
ClosePostgres ==
  /\ stage = "close_postgres"
  /\ handle' = [handle EXCEPT !["postgres"] = "closed"]
  /\ stage' = "drain_pool"
  /\ UNCHANGED <<serverVars, role, env, failed, handlerVars>>

Acquired == {c \in Conns : task[c]["postgres"] = "running"}

(* The process ends, open requests with it.                                *)
PoolDrained ==
  /\ stage = "drain_pool" /\ Acquired = {}
  /\ stage' = "exit"
  /\ conn' = Cut
  /\ UNCHANGED <<listener, signalled, pc, serveErrors, shutdownErr, result>>
  /\ UNCHANGED <<role, env, failed, handle, handlerVars>>

-----------------------------------------------------------------------------
(* Handlers.                                                               *)

Receive(c) ==
  /\ stage = "serve" /\ Accept(c)
  /\ \E k \in Kinds :
       /\ kind' = [kind EXCEPT ![c] = k]
       /\ task' = [task EXCEPT ![c] = [s \in Stores |-> IF s \in Uses(k) THEN "pending" ELSE "none"]]
  /\ UNCHANGED <<programVars, taken, status, answer>>

(* The statement or check gets its connection.                             *)
Acquire(c, s) ==
  /\ stage # "exit" /\ task[c][s] = "pending" /\ handle[s] = "open"
  /\ s = "postgres" => Cardinality(Acquired) < PoolMax
  /\ task' = [task EXCEPT ![c][s] = "running"]
  /\ UNCHANGED <<serverVars, programVars, kind, taken, status, answer>>

Succeed(c, s) ==
  /\ stage # "exit" /\ task[c][s] = "running"
  /\ s = "redis" => handle[s] = "open"
  /\ task' = [task EXCEPT ![c][s] = "ok"]
  /\ UNCHANGED <<serverVars, programVars, kind, taken, status, answer>>

(* Mutants of Fail: statements do not take the request's context; checks   *)
(* have no timeout.                                                        *)
FailChecksOnly(c, s) ==
  /\ stage # "exit" /\ task[c][s] \in UnderWay /\ kind[c] = "readyz"
  /\ task' = [task EXCEPT ![c][s] = "failed"]
  /\ UNCHANGED <<serverVars, programVars, kind, taken, status, answer>>
FailStatementsOnly(c, s) ==
  /\ stage # "exit" /\ task[c][s] \in UnderWay /\ kind[c] = "query"
  /\ task' = [task EXCEPT ![c][s] = "failed"]
  /\ UNCHANGED <<serverVars, programVars, kind, taken, status, answer>>

(* The store does not answer, the pool is exhausted until the timeout of   *)
(* the check or of the request, the store is closed, the client is gone.   *)
Fail(c, s) ==
  /\ stage # "exit" /\ task[c][s] \in UnderWay
  /\ task' = [task EXCEPT ![c][s] = "failed"]
  /\ UNCHANGED <<serverVars, programVars, kind, taken, status, answer>>

(* The probe's results come through one channel in any order.              *)
Collect(c, s) ==
  /\ stage # "exit" /\ conn[c] = "open" /\ kind[c] = "readyz"
  /\ task[c][s] \in {"ok", "failed"} /\ s \notin taken[c]
  /\ taken' = [taken EXCEPT ![c] = @ \cup {s}]
  /\ status' = [status EXCEPT ![c][s] = IF task[c][s] = "ok" THEN "ok" ELSE "unavailable"]
  /\ UNCHANGED <<serverVars, programVars, kind, task, answer>>

(* The answer; what the handler kept for itself goes with it.              *)
Return(c, a) ==
  /\ Respond(c)
  /\ answer' = [answer EXCEPT ![c] = a]
  /\ task' = [task EXCEPT ![c] = [s \in Stores |-> "none"]]
  /\ taken' = [taken EXCEPT ![c] = {}]
  /\ status' = [status EXCEPT ![c] = [s \in Stores |-> "unavailable"]]
  /\ UNCHANGED <<programVars, kind>>

(* Mutant of AnswerProbe: it answers at the first result.                  *)
AnswerProbeEarly(c) ==
  /\ stage # "exit" /\ kind[c] = "readyz" /\ taken[c] # {}
  /\ Return(c, IF \A s \in taken[c] : status[c][s] = "ok" THEN "ready" ELSE "dependency_unavailable")

AnswerProbe(c) ==
  /\ stage # "exit" /\ kind[c] = "readyz" /\ taken[c] = Stores
  /\ Return(c, IF \A s \in Stores : status[c][s] = "ok" THEN "ready" ELSE "dependency_unavailable")

(* /healthz asks nobody; any other handler answers when its work is done.  *)
AnswerRequest(c) ==
  /\ stage # "exit" /\ kind[c] \in {"healthz", "query"}
  /\ \A s \in Stores : task[c][s] \notin UnderWay
  /\ Return(c, IF \E s \in Stores : task[c][s] = "failed" THEN "error" ELSE "ok")

(* What a handler does without the help of a store.                        *)
Handle(c) ==
  \/ \E s \in Stores : Acquire(c, s) \/ Fail(c, s) \/ Collect(c, s)
  \/ AnswerProbe(c) \/ AnswerRequest(c)

-----------------------------------------------------------------------------
(* The outside world.  A signal before NotifyContext just kills.           *)

Interrupt ==
  /\ stage \notin {"load", "exit"} /\ Signal
  /\ UNCHANGED <<programVars, handlerVars>>

BreakListener ==
  /\ stage = "serve" /\ ListenerFails
  /\ UNCHANGED <<programVars, handlerVars>>

(* The main goroutine of either program.                                   *)
Main ==
  \/ Load \/ OpenPostgres \/ OpenRedis \/ StartupChecks \/ HealthTick \/ WorkerDone
  \/ RunServer \/ ServerReturned \/ CloseRedis \/ ClosePostgres \/ PoolDrained

Next ==
  \/ Main \/ AcceptLoop \/ Interrupt \/ BreakListener
  \/ \E c \in Conns : Receive(c) \/ Handle(c) \/ \E s \in Stores : Succeed(c, s)

(* Goroutines run and timers fire; select takes ctx.Done sooner or later   *)
(* although the ticker may be ready each time; stores need never answer.   *)
Spec ==
  /\ Init /\ [][Next]_vars
  /\ WF_vars(Main) /\ SF_vars(WorkerDone) /\ WF_vars(AcceptLoop)
  /\ \A c \in Conns : WF_vars(Handle(c))

-----------------------------------------------------------------------------
(* Properties.                                                             *)

(* What the configuration of a process that has got past config.Load is    *)
(* like (config_test.go:43-110): in production nothing travels in clear,   *)
(* no published secret and no plain origin serve; outside local nothing is *)
(* a default; bounds and timeouts fit each other.                          *)
SafeSettings(e) ==
  LET cfg == Loaded(e)
  IN  /\ e.environment = "production" =>
           /\ cfg.database = "tls" /\ cfg.redis = "tls"
           /\ cfg.origins = {"https"} /\ cfg.secret = "long"
      /\ e.environment # "local" => \A k \in Required : e[k] # Unset
      /\ cfg.origins # {} /\ "*" \notin cfg.origins
      /\ \A d \in Durations \ TokenLifetimes : cfg.durations[d] > 0
      /\ cfg.durations["request"] <= cfg.durations["write"]
      /\ cfg.integers["pool_min"] \in 0 .. cfg.integers["pool_max"]
      /\ cfg.integers["pool_max"] > 0

(* The variables have their types; a process goes on only with a safe      *)
(* configuration; what is left is cut off only after a signal and the      *)
(* failure of Shutdown (server.go:121-140).                                *)
TypeOK ==
  /\ listener \in {"none", "open", "closed", "failed"} /\ signalled \in BOOLEAN
  /\ conn \in [Conns -> {"none", "open", "answered", "cut"}]
  /\ pc \in {"listen", "select", "shutdown", "close", "join", "returned"}
  /\ serveErrors \in {"empty", "ErrServerClosed", "error"}
  /\ shutdownErr \in BOOLEAN /\ result \in {"none", "nil", "error"}
  /\ pc = "close" => shutdownErr /\ signalled
  /\ role \in {"api", "worker"} /\ stage \in Stages /\ failed \in BOOLEAN
  /\ env = NoEnv \/ (env \in Envs /\ SafeSettings(env))
  /\ handle \in [Stores -> {"unopened", "open", "closed"}]
  /\ kind \in [Conns -> Kinds \cup {"none"}]
  /\ task \in [Conns -> [Stores -> {"none", "pending", "running", "ok", "failed"}]]
  /\ taken \in [Conns -> SUBSET Stores]
  /\ status \in [Conns -> [Stores -> {"ok", "unavailable"}]]
  /\ answer \in [Conns -> {"none", "ok", "error", "ready", "dependency_unavailable"}]

(* An API process that ends without an error has answered every request it *)
(* had accepted, and it closes a store only when no handler uses it any    *)
(* more (server.go:124-140, main.go:57-70).  Either program ends without   *)
(* an error only when told to, and leaves no store open however far its    *)
(* start has got (main.go:33-71).                                          *)
GracefulDrain ==
  /\ result = "nil" => \A c \in Conns : conn[c] \in {"none", "answered"}
  /\ ~failed /\ (\E s \in Stores : handle[s] = "closed") =>
       \A c \in Conns, s \in Stores : task[c][s] \notin UnderWay
  /\ stage = "exit" => (failed \/ signalled) /\ \A s \in Stores : handle[s] # "open"

(* /readyz says "ready" exactly when both of its own checks succeeded, and *)
(* reports each store as its check found it, in whatever order the two     *)
(* goroutines end (handlers.go:88-112, docs/04-api-contract.md:47).        *)
ReadinessTruthful ==
  [][\A c \in Conns : kind[c] = "readyz" /\ answer'[c] # answer[c] =>
       /\ answer'[c] = "ready" <=> \A s \in Stores : task[c][s] = "ok"
       /\ \A s \in Stores : status[c][s] = "ok" <=> task[c][s] = "ok"]_answer

(* After a signal, a failure of the listener or a start that failed (a     *)
(* store's URL, the worker's checks, an address in use) both programs end: *)
(* also when stores do not answer, requests were cut off, or a handler     *)
(* holds a connection of the pool while run() closes it.                   *)
ProcessEnds == (signalled \/ listener = "failed" \/ result = "error" \/ failed) ~> stage = "exit"

(* Every request is answered or cut off, also when a store never answers   *)
(* or the pool is exhausted: no request stays open for ever, so with no    *)
(* more connections to come there is a time when none is open.             *)
EveryRequestEnds == Open # {} ~> Open = {}

-----------------------------------------------------------------------------
(* The inductive invariant behind GracefulDrain and ReadinessTruthful, and *)
(* its parts.                                                              *)

(* Run listens first, and connections come only while it waits in select,  *)
(* where the accept loop's end cannot be taken for one that was asked for. *)
ServerStages ==
  /\ pc = "listen" => listener = "none" /\ serveErrors = "empty" /\ ~shutdownErr
  /\ listener = "none" => pc \in {"listen", "returned"} /\ \A c \in Conns : conn[c] = "none"
  /\ listener = "open" => pc = "select" /\ serveErrors = "empty"
  /\ pc = "select" => serveErrors # "ErrServerClosed"
  /\ pc \in {"shutdown", "close", "join"} => signalled
  /\ result = "none" <=> pc # "returned"
  /\ result = "nil" => signalled

(* Nothing is cut off before the deadline of Shutdown or the very end.     *)
CutInTheEnd ==
  /\ \A c \in Conns : conn[c] = "cut" => shutdownErr \/ stage = "exit"
  /\ pc = "join" /\ ~shutdownErr => Open = {}

(* Stores are closed when the server, if it ever ran, has returned; and    *)
(* without an error it was told to and has drained its connections.        *)
Ending == {"close_redis", "close_postgres", "drain_pool", "exit"}
EndAfterServer ==
  /\ stage \notin Ending \cup {"serve"} => pc = "listen"
  /\ stage \in Ending /\ ~failed => signalled /\ (pc = "listen" \/ result = "nil")
  /\ \A s \in Stores : handle[s] = "closed" => stage \in Ending

(* Where each of the two stores can be open.                               *)
Starting == {"load", "open_postgres"}
OpenWhen ==
  /\ handle["postgres"] = "open" => stage \notin Starting \cup {"drain_pool", "exit"}
  /\ handle["redis"] = "open" => stage \notin Starting \cup {"open_redis", "close_postgres", "drain_pool", "exit"}

(* Only a request not yet answered works, and a result that its probe has  *)
(* taken is what the check found.                                          *)
ResultsTaken ==
  \A c \in Conns :
    /\ taken[c] # {} \/ (\E s \in Stores : task[c][s] \in UnderWay) => conn[c] \in {"open", "cut"}
    /\ \A s \in taken[c] : /\ task[c][s] \in {"ok", "failed"}
                           /\ status[c][s] = "ok" <=> task[c][s] = "ok"

(* What the code keeps true at every step.                                 *)
IndInv ==
  /\ TypeOK /\ ServerStages /\ CutInTheEnd /\ EndAfterServer /\ OpenWhen /\ ResultsTaken
  /\ GracefulDrain

=============================================================================
