--------------------------- MODULE ProcessProofs ---------------------------
(***************************************************************************)
(* The safety properties of Process for any number of connections, any     *)
(* size of the pool, and every environment.  IndInv is shown to be         *)
(* inductive, one lemma per action or group of actions that touch the same *)
(* variables; the properties follow from it.                               *)
(***************************************************************************)
EXTENDS Process, TLAPS

-----------------------------------------------------------------------------
(* What LoadFrom accepts (internal/platform/config/config.go).             *)

(* In production nothing travels in clear and no published secret and no   *)
(* plain origin serve; outside local nothing is a default; bounds and      *)
(* timeouts fit each other (config_test.go:43-110).                        *)
THEOREM AcceptedIsSafe ==
  ASSUME NEW e \in Env, Accepted(e)
  PROVE  SafeSettings(e)
<1> DEFINE cfg == Loaded(e)
<1>1. /\ e.environment \in {"local", "test", "staging", "production"}
      /\ Errors(e) = {}
  BY DEF Accepted, Env
<1>2. /\ \A k \in Required : RequiredOutsideLocal(e, k) # Unset
      /\ e.environment = "production" => RequiredOutsideLocal(e, "secret") \notin {"published", "short", Unset}
      /\ \A k \in {"database", "redis"} : ValidateDependencyURL(e, k)
      /\ ParseOrigins(e) # {} /\ \A o \in Origins(e) : ~Refuses(e, o)
  BY <1>1 DEF Errors
<1>3. /\ \A d \in Durations \ TokenLifetimes : ~(ParseDuration(e, d) <= 0)
      /\ ~(ParseInteger(e, "pool_max") <= 0)
      /\ ~(ParseInteger(e, "pool_min") < 0) /\ ~(ParseInteger(e, "pool_min") > ParseInteger(e, "pool_max"))
      /\ ~(ParseDuration(e, "request") > ParseDuration(e, "write"))
  BY <1>1 DEF Errors
<1>4. Required = {"database", "redis", "origins", "secret"}
  BY DEF Required, LocalDefault
<1>5. /\ \A d \in Durations : ParseDuration(e, d) \in Int
      /\ \A i \in Integers32 : ParseInteger(e, i) \in Int
  <2>1. \A d \in Durations : DefaultDuration[d] \in Int
    BY DEF Durations, DefaultDuration
  <2>2. \A i \in Integers32 : DefaultInteger[i] \in Int
    BY DEF Integers32, DefaultInteger
  <2>3. /\ \A d \in Durations : e.durations[d] \in Int \cup {Bad, Unset}
        /\ \A i \in Integers32 : e.integers[i] \in Int \cup {Bad, Unset}
    BY DEF Env
  <2> QED
    BY <2>1, <2>2, <2>3 DEF ParseDuration, ParseInteger, Parsed
<1>6. {"request", "write"} \subseteq Durations /\ {"pool_min", "pool_max"} \subseteq Integers32
  BY DEF Durations, DefaultDuration, Integers32, DefaultInteger
<1>7. e.environment = "production" =>
        /\ cfg.database = "tls" /\ cfg.redis = "tls"
        /\ cfg.origins = {"https"} /\ cfg.secret = "long"
  <2> SUFFICES ASSUME e.environment = "production"
               PROVE  /\ cfg.database = "tls" /\ cfg.redis = "tls"
                      /\ cfg.origins = {"https"} /\ cfg.secret = "long"
    OBVIOUS
  <2>1. /\ RequiredOutsideLocal(e, "database") = e.database
        /\ RequiredOutsideLocal(e, "redis") = e.redis
        /\ RequiredOutsideLocal(e, "origins") = e.origins
        /\ RequiredOutsideLocal(e, "secret") = e.secret
    BY DEF RequiredOutsideLocal
  <2>2. e.database = "tls" /\ e.redis = "tls"
    BY <1>2, <1>4, <2>1 DEF ValidateDependencyURL
  <2>3. e.secret = "long"
    BY <1>2, <2>1 DEF Env
  <2>4. ParseOrigins(e) = {"https"}
    <3>1. e.origins \in SUBSET {"http", "https", "*", Bad} /\ Origins(e) = e.origins
      BY <1>2, <1>4, <2>1 DEF Env, Origins
    <3>2. \A o \in ParseOrigins(e) : o = "https"
      BY <3>1 DEF ParseOrigins, Refuses
    <3> QED
      BY <1>2, <3>2
  <2> QED
    BY <2>1, <2>2, <2>3, <2>4 DEF Loaded
<1>8. e.environment # "local" => \A k \in Required : e[k] # Unset
  BY <1>2 DEF RequiredOutsideLocal
<1>9. cfg.origins # {} /\ "*" \notin cfg.origins
  BY <1>2 DEF Loaded, ParseOrigins, Refuses
<1>10. /\ \A d \in Durations \ TokenLifetimes : cfg.durations[d] > 0
       /\ cfg.durations["request"] <= cfg.durations["write"]
  BY <1>3, <1>5, <1>6 DEF Loaded
<1>11. /\ cfg.integers["pool_min"] \in 0 .. cfg.integers["pool_max"]
       /\ cfg.integers["pool_max"] > 0
  BY <1>3, <1>5, <1>6 DEF Loaded
<1> QED
  BY <1>7, <1>8, <1>9, <1>10, <1>11 DEF SafeSettings

-----------------------------------------------------------------------------
LEMMA InitInd == Init => IndInv
<1> SUFFICES ASSUME Init PROVE IndInv
  OBVIOUS
<1> USE DEF Init, ServerInit
<1>1. TypeOK
  BY DEF TypeOK, Stages
<1>2. ServerStages /\ CutInTheEnd
  BY DEF ServerStages, CutInTheEnd
<1>3. EndAfterServer /\ OpenWhen
  BY DEF EndAfterServer, OpenWhen, Ending, Stores
<1>4. ResultsTaken
  BY DEF ResultsTaken, UnderWay
<1>5. GracefulDrain
  BY DEF GracefulDrain, Stores
<1> QED
  BY <1>1, <1>2, <1>3, <1>4, <1>5 DEF IndInv

(* Without an error the stores are closed over a server that answered all, *)
(* or never ran: whoever keeps the parts keeps GracefulDrain.              *)
LEMMA DrainFollows ==
  ASSUME ServerStages', EndAfterServer', OpenWhen', ResultsTaken',
         result' = "nil" => \A c \in Conns : conn'[c] \in {"none", "answered"}
  PROVE  GracefulDrain'
BY DEF GracefulDrain, ServerStages, EndAfterServer, Ending, OpenWhen, Stores, ResultsTaken

-----------------------------------------------------------------------------
(* One lemma per action, or group of actions that touch the same variables.*)

(* run() goes on, and no store is closed yet.                              *)
LEMMA ProgramInd ==
  ASSUME IndInv, Load \/ OpenPostgres \/ OpenRedis \/ StartupChecks \/ HealthTick \/ WorkerDone
  PROVE  IndInv'
<1> USE DEF IndInv
<1>1. /\ UNCHANGED <<serverVars, handlerVars, role>>
      /\ stage \notin Ending \cup {"serve"} /\ stage' \in Stages
      /\ failed' \in BOOLEAN
      /\ stage' \in Ending => failed' \/ (pc = "listen" /\ signalled)
      /\ handle' \in [Stores -> {"unopened", "open", "closed"}]
      /\ \A s \in Stores : handle'[s] = "closed" => handle[s] = "closed"
      /\ OpenWhen'
  <2>1. CASE Load \/ OpenPostgres
    BY <2>1 DEF Load, OpenPostgres, TypeOK, Stages, Stores, Ending, Starting, EndAfterServer, OpenWhen
  <2>3. CASE OpenRedis
    BY <2>3 DEF OpenRedis, TypeOK, Stages, Stores, Ending, Starting, EndAfterServer, OpenWhen
  <2>2. CASE StartupChecks \/ HealthTick \/ WorkerDone
    BY <2>2 DEF StartupChecks, WorkerCheck, HealthTick, WorkerDone, TypeOK, Stages, Ending, Starting,
       EndAfterServer, OpenWhen
  <2> QED
    BY <2>1, <2>2, <2>3
<1>2. pc = "listen"
  BY <1>1 DEF EndAfterServer
<1>3. env' = env \/ env' = NoEnv \/ (env' \in Envs /\ Accepted(env'))
  BY DEF Load, OpenPostgres, OpenRedis, StartupChecks, WorkerCheck, HealthTick, WorkerDone
<1>4. env' = NoEnv \/ (env' \in Envs /\ SafeSettings(env'))
  BY <1>3, AcceptedIsSafe, EnvAssumption DEF TypeOK
<1>5. TypeOK'
  BY <1>1, <1>4 DEF serverVars, handlerVars, TypeOK
<1>6. ServerStages'
  BY <1>1 DEF serverVars, ServerStages
<1>7. CutInTheEnd'
  BY <1>1 DEF serverVars, CutInTheEnd, Open, Ending
<1>8. EndAfterServer'
  BY <1>1, <1>2 DEF serverVars, EndAfterServer, Ending
<1>9. ResultsTaken'
  BY <1>1 DEF serverVars, handlerVars, ResultsTaken
<1>10. result' = "nil" => \A c \in Conns : conn'[c] \in {"none", "answered"}
  BY <1>1 DEF serverVars, GracefulDrain
<1> QED
  BY <1>1, <1>5, <1>6, <1>7, <1>8, <1>9, <1>10, DrainFollows

(* The server has returned, then the stores are closed.                    *)
LEMMA CloseInd ==
  ASSUME IndInv, ServerReturned \/ CloseRedis \/ ClosePostgres
  PROVE  IndInv'
<1> USE DEF IndInv
<1>1. /\ UNCHANGED <<serverVars, handlerVars, role, env>>
      /\ stage # "exit" /\ stage' \in {"close_redis", "close_postgres", "drain_pool"}
      /\ failed' \in BOOLEAN
      /\ ~failed' => signalled /\ (pc = "listen" \/ result = "nil")
      /\ handle' \in [Stores -> {"unopened", "open", "closed"}]
      /\ OpenWhen'
  <2>1. CASE ServerReturned
    BY <2>1 DEF ServerReturned, TypeOK, Stages, Starting, ServerStages, OpenWhen
  <2>2. CASE CloseRedis \/ ClosePostgres
    BY <2>2 DEF CloseRedis, ClosePostgres, TypeOK, Stages, Stores, Ending, Starting, EndAfterServer, OpenWhen
  <2> QED
    BY <2>1, <2>2
<1>2. TypeOK'
  BY <1>1 DEF serverVars, handlerVars, TypeOK, Stages
<1>3. ServerStages'
  BY <1>1 DEF serverVars, ServerStages
<1>4. CutInTheEnd'
  BY <1>1 DEF serverVars, CutInTheEnd, Open
<1>5. EndAfterServer'
  BY <1>1 DEF serverVars, EndAfterServer, Ending
<1>6. ResultsTaken'
  BY <1>1 DEF serverVars, handlerVars, ResultsTaken
<1>7. result' = "nil" => \A c \in Conns : conn'[c] \in {"none", "answered"}
  BY <1>1 DEF serverVars, GracefulDrain
<1> QED
  BY <1>1, <1>2, <1>3, <1>4, <1>5, <1>6, <1>7, DrainFollows

(* Run, the accept loop, a failure of the listener, a signal: what a       *)
(* request is doing does not change, and connections at most are cut off.  *)
LEMMA ServerInd ==
  ASSUME IndInv, RunServer \/ AcceptLoop \/ BreakListener \/ Interrupt
  PROVE  IndInv'
<1> USE DEF IndInv
<1>1. UNCHANGED <<programVars, handlerVars>> /\ (stage = "serve" \/ UNCHANGED <<pc, listener, serveErrors, conn, result, shutdownErr>>)
  BY DEF RunServer, AcceptLoop, BreakListener, Interrupt, Signal
<1>2. /\ listener' \in {"none", "open", "closed", "failed"} /\ signalled' \in BOOLEAN
      /\ pc' \in {"listen", "select", "shutdown", "close", "join", "returned"}
      /\ serveErrors' \in {"empty", "ErrServerClosed", "error"}
      /\ shutdownErr' \in BOOLEAN /\ result' \in {"none", "nil", "error"}
      /\ pc' = "close" => shutdownErr' /\ signalled'
      /\ ServerStages' /\ (signalled => signalled')
      /\ conn' = conn \/ (shutdownErr' /\ conn' = Cut)
      /\ shutdownErr => shutdownErr'
      /\ pc' = "join" /\ ~shutdownErr' => (pc = "join" \/ Open = {}) /\ conn' = conn
      /\ result' = "nil" => result = "nil" \/ (pc = "join" /\ ~shutdownErr /\ conn' = conn)
  <2> USE DEF TypeOK, ServerStages
  <2>1. CASE RunServer
    <3>1. CASE Listen
      BY <2>1, <3>1 DEF Listen
    <3>2. CASE SelectServeErrors
      BY <2>1, <3>2 DEF SelectServeErrors
    <3>3. CASE SelectDone
      BY <2>1, <3>3 DEF SelectDone
    <3>4. CASE ShutdownDrained \/ ShutdownDeadline
      BY <2>1, <3>4 DEF ShutdownDrained, ShutdownDeadline
    <3>5. CASE Close
      BY <2>1, <3>5 DEF Close
    <3>6. CASE Join
      BY <2>1, <3>6 DEF Join
    <3> QED
      BY <2>1, <3>1, <3>2, <3>3, <3>4, <3>5, <3>6 DEF RunServer, Run
  <2>2. CASE AcceptLoop
    BY <2>2 DEF AcceptLoop, AcceptLoopEnds
  <2>3. CASE BreakListener
    BY <2>3 DEF BreakListener, ListenerFails
  <2>4. CASE Interrupt
    BY <2>4 DEF Interrupt, Signal
  <2> QED
    BY <2>1, <2>2, <2>3, <2>4
<1>3. \A c \in Conns : /\ conn'[c] = conn[c] \/ (conn[c] = "open" /\ conn'[c] = "cut" /\ shutdownErr')
                       /\ conn'[c] \in {"none", "open", "answered", "cut"}
  BY <1>2 DEF Cut, Open, TypeOK
<1>4. TypeOK'
  <2>1. conn' \in [Conns -> {"none", "open", "answered", "cut"}]
    BY <1>2, <1>3 DEF Cut, TypeOK
  <2> QED
    BY <1>1, <1>2, <2>1 DEF programVars, handlerVars, TypeOK
<1>5. CutInTheEnd'
  BY <1>1, <1>2, <1>3 DEF programVars, CutInTheEnd, Open
<1>6. EndAfterServer' /\ OpenWhen'
  BY <1>1, <1>2 DEF programVars, EndAfterServer, OpenWhen, Ending
<1>7. ResultsTaken'
  BY <1>1, <1>3 DEF handlerVars, ResultsTaken
<1>8. result' = "nil" => \A c \in Conns : conn'[c] \in {"none", "answered"}
  <2>1. CASE result = "nil"
    BY <1>3, <2>1 DEF GracefulDrain
  <2>2. CASE pc = "join" /\ ~shutdownErr /\ conn' = conn /\ stage = "serve"
    BY <2>2 DEF CutInTheEnd, Open, TypeOK
  <2> QED
    BY <1>1, <1>2, <2>1, <2>2
<1> QED
  BY <1>2, <1>4, <1>5, <1>6, <1>7, <1>8, DrainFollows

(* The end cuts off what the server left open, never after an exit without *)
(* an error.                                                               *)
LEMMA PoolDrainedInd ==
  ASSUME IndInv, PoolDrained
  PROVE  IndInv'
<1> USE DEF IndInv
<1>1. /\ stage = "drain_pool" /\ stage' = "exit" /\ conn' = Cut
      /\ UNCHANGED <<listener, signalled, pc, serveErrors, shutdownErr, result>>
      /\ UNCHANGED <<role, env, failed, handle, handlerVars>>
  BY DEF PoolDrained
<1>2. \A c \in Conns : /\ conn'[c] = conn[c] \/ (conn[c] = "open" /\ conn'[c] = "cut")
                       /\ conn'[c] \in {"none", "open", "answered", "cut"}
  BY <1>1 DEF Cut, Open, TypeOK
<1>3. TypeOK'
  <2>1. conn' \in [Conns -> {"none", "open", "answered", "cut"}] /\ stage' \in Stages
    BY <1>1, <1>2 DEF Cut, Stages
  <2> QED
    BY <1>1, <2>1 DEF handlerVars, TypeOK
<1>4. ServerStages'
  BY <1>1, <1>2 DEF ServerStages
<1>5. CutInTheEnd'
  BY <1>1, <1>2 DEF CutInTheEnd, Open
<1>6. EndAfterServer' /\ OpenWhen'
  BY <1>1 DEF EndAfterServer, OpenWhen, Ending, Starting
<1>7. ResultsTaken'
  BY <1>1, <1>2 DEF handlerVars, ResultsTaken
<1>8. result' = "nil" => \A c \in Conns : conn'[c] \in {"none", "answered"}
  BY <1>1, <1>2 DEF GracefulDrain
<1> QED
  BY <1>3, <1>4, <1>5, <1>6, <1>7, <1>8, DrainFollows

(* A connection comes in only while the server waits in select.            *)
LEMMA ReceiveInd ==
  ASSUME IndInv, NEW c \in Conns, Receive(c)
  PROVE  IndInv'
<1> USE DEF IndInv
<1>1. PICK k \in Kinds :
        /\ stage = "serve" /\ Accept(c) /\ kind' = [kind EXCEPT ![c] = k]
        /\ task' = [task EXCEPT ![c] = [s \in Stores |-> IF s \in Uses(k) THEN "pending" ELSE "none"]]
        /\ UNCHANGED <<programVars, taken, status, answer>>
  BY DEF Receive
<1>2. /\ listener = "open" /\ pc = "select" /\ conn[c] = "none" /\ conn' = [conn EXCEPT ![c] = "open"]
      /\ UNCHANGED <<listener, signalled, pc, serveErrors, shutdownErr, result>>
  BY <1>1 DEF Accept, ServerStages
<1>3. TypeOK'
  <2>1. task' \in [Conns -> [Stores -> {"none", "pending", "running", "ok", "failed"}]]
    BY <1>1 DEF TypeOK
  <2>2. kind' \in [Conns -> Kinds \cup {"none"}] /\ conn' \in [Conns -> {"none", "open", "answered", "cut"}]
    BY <1>1, <1>2 DEF TypeOK
  <2> QED
    BY <1>1, <1>2, <2>1, <2>2 DEF programVars, TypeOK
<1>4. ServerStages'
  BY <1>2 DEF ServerStages
<1>5. CutInTheEnd'
  BY <1>1, <1>2 DEF programVars, CutInTheEnd, Open, TypeOK
<1>6. EndAfterServer' /\ OpenWhen'
  BY <1>1, <1>2 DEF programVars, EndAfterServer, OpenWhen, Ending
<1>7. ResultsTaken'
  <2>1. taken[c] = {}
    BY <1>2 DEF ResultsTaken, TypeOK
  <2>2. ASSUME NEW d \in Conns \ {c}
        PROVE  UNCHANGED <<taken[d], task[d], status[d], conn[d]>>
    BY <1>1, <1>2 DEF TypeOK
  <2>3. taken'[c] = {} /\ conn'[c] = "open"
    BY <1>1, <1>2, <2>1 DEF TypeOK
  <2> QED
    BY <2>2, <2>3 DEF ResultsTaken
<1>8. result' = "nil" => \A d \in Conns : conn'[d] \in {"none", "answered"}
  BY <1>2 DEF ServerStages, TypeOK
<1> QED
  BY <1>3, <1>4, <1>5, <1>6, <1>7, <1>8, DrainFollows

(* What a request's own work leaves alone.                                 *)
LEMMA WorkInd ==
  ASSUME IndInv, UNCHANGED <<programVars, serverVars, kind, answer>>,
         task' \in [Conns -> [Stores -> {"none", "pending", "running", "ok", "failed"}]],
         taken' \in [Conns -> SUBSET Stores], status' \in [Conns -> [Stores -> {"ok", "unavailable"}]],
         ResultsTaken'
  PROVE  IndInv'
<1> USE DEF IndInv
<1>1. TypeOK'
  BY DEF programVars, serverVars, TypeOK
<1>2. ServerStages' /\ CutInTheEnd' /\ EndAfterServer' /\ OpenWhen'
  BY DEF programVars, serverVars, ServerStages, CutInTheEnd, Open, EndAfterServer, OpenWhen, Ending
<1>3. result' = "nil" => \A d \in Conns : conn'[d] \in {"none", "answered"}
  BY DEF serverVars, GracefulDrain
<1> QED
  BY <1>1, <1>2, <1>3, DrainFollows

(* A statement or check gets its connection, succeeds or fails: no result  *)
(* that its probe has taken already.                                       *)
LEMMA TaskInd ==
  ASSUME IndInv, NEW c \in Conns, NEW s \in Stores, Acquire(c, s) \/ Succeed(c, s) \/ Fail(c, s)
  PROVE  IndInv'
<1> USE DEF IndInv
<1>1. PICK t \in {"running", "ok", "failed"} : task' = [task EXCEPT ![c][s] = t]
  BY DEF Acquire, Succeed, Fail
<1>2. /\ UNCHANGED <<programVars, serverVars, kind, taken, status, answer>>
      /\ task[c][s] \in UnderWay
  BY DEF Acquire, Succeed, Fail, UnderWay
<1>3. /\ task' \in [Conns -> [Stores -> {"none", "pending", "running", "ok", "failed"}]]
      /\ \A d \in Conns, u \in Stores : d # c \/ u # s => task'[d][u] = task[d][u]
  BY <1>1 DEF TypeOK
<1>4. s \notin taken[c] /\ conn[c] \in {"open", "cut"}
  BY <1>2 DEF ResultsTaken, UnderWay
<1>5. ResultsTaken'
  <2>1. ASSUME NEW d \in Conns, NEW u \in taken[d]
        PROVE  task'[d][u] = task[d][u]
    BY <1>3, <1>4 DEF TypeOK
  <2>2. ASSUME NEW d \in Conns, taken[d] # {} \/ \E u \in Stores : task'[d][u] \in UnderWay
        PROVE  conn[d] \in {"open", "cut"}
    <3>1. CASE d = c
      BY <1>4, <3>1
    <3>2. CASE d # c
      BY <1>3, <2>2, <3>2 DEF ResultsTaken
    <3> QED
      BY <3>1, <3>2
  <2> QED
    BY <1>2, <2>1, <2>2 DEF serverVars, ResultsTaken
<1> QED
  BY <1>2, <1>3, <1>5, WorkInd DEF TypeOK

(* The probe takes a result as it is.                                      *)
LEMMA CollectInd ==
  ASSUME IndInv, NEW c \in Conns, NEW s \in Stores, Collect(c, s)
  PROVE  IndInv'
<1> USE DEF IndInv
<1>1. /\ conn[c] = "open" /\ task[c][s] \in {"ok", "failed"}
      /\ taken' = [taken EXCEPT ![c] = @ \cup {s}]
      /\ status' = [status EXCEPT ![c][s] = IF task[c][s] = "ok" THEN "ok" ELSE "unavailable"]
      /\ UNCHANGED <<serverVars, programVars, kind, task, answer>>
  BY DEF Collect
<1>2. taken' \in [Conns -> SUBSET Stores] /\ status' \in [Conns -> [Stores -> {"ok", "unavailable"}]]
  BY <1>1 DEF TypeOK
<1>3. /\ \A d \in Conns, u \in Stores : d # c \/ u # s => status'[d][u] = status[d][u]
      /\ \A d \in Conns \ {c} : taken'[d] = taken[d]
      /\ taken'[c] = taken[c] \cup {s}
      /\ status'[c][s] = "ok" <=> task[c][s] = "ok"
  BY <1>1 DEF TypeOK
<1>4. ResultsTaken'
  <2>1. ASSUME NEW d \in Conns, NEW u \in taken'[d]
        PROVE  task[d][u] \in {"ok", "failed"} /\ (status'[d][u] = "ok" <=> task[d][u] = "ok")
    <3>1. CASE d = c /\ u = s
      BY <1>1, <1>3, <3>1
    <3>2. CASE d # c \/ u # s
      <4>1. u \in taken[d] /\ u \in Stores
        BY <1>2, <1>3, <2>1, <3>2
      <4> QED
        BY <1>3, <3>2, <4>1 DEF ResultsTaken
    <3> QED
      BY <3>1, <3>2
  <2>2. ASSUME NEW d \in Conns, taken'[d] # {} \/ \E u \in Stores : task[d][u] \in UnderWay
        PROVE  conn[d] \in {"open", "cut"}
    BY <1>1, <1>3, <2>2 DEF ResultsTaken
  <2> QED
    BY <1>1, <2>1, <2>2 DEF serverVars, ResultsTaken
<1> QED
  BY <1>1, <1>2, <1>4, WorkInd DEF TypeOK

(* The answer ends a request's work.                                       *)
LEMMA ReturnInd ==
  ASSUME IndInv, NEW c \in Conns, stage # "exit",
         NEW a \in {"ok", "error", "ready", "dependency_unavailable"}, Return(c, a)
  PROVE  IndInv'
<1> USE DEF IndInv
<1>1. /\ conn[c] = "open" /\ conn' = [conn EXCEPT ![c] = "answered"]
      /\ UNCHANGED <<listener, signalled, pc, serveErrors, shutdownErr, result>>
      /\ UNCHANGED <<programVars, kind>>
  BY DEF Return, Respond
<1>2. /\ answer' = [answer EXCEPT ![c] = a]
      /\ task' = [task EXCEPT ![c] = [s \in Stores |-> "none"]]
      /\ taken' = [taken EXCEPT ![c] = {}]
      /\ status' = [status EXCEPT ![c] = [s \in Stores |-> "unavailable"]]
  BY DEF Return
<1>3. TypeOK'
  <2>1. /\ answer' \in [Conns -> {"none", "ok", "error", "ready", "dependency_unavailable"}]
        /\ task' \in [Conns -> [Stores -> {"none", "pending", "running", "ok", "failed"}]]
        /\ taken' \in [Conns -> SUBSET Stores]
        /\ status' \in [Conns -> [Stores -> {"ok", "unavailable"}]]
        /\ conn' \in [Conns -> {"none", "open", "answered", "cut"}]
    BY <1>1, <1>2 DEF TypeOK
  <2> QED
    BY <1>1, <2>1 DEF programVars, TypeOK
<1>4. ServerStages' /\ CutInTheEnd'
  BY <1>1 DEF programVars, ServerStages, CutInTheEnd, Open, TypeOK
<1>5. EndAfterServer' /\ OpenWhen'
  BY <1>1 DEF programVars, EndAfterServer, OpenWhen, Ending
<1>6. ResultsTaken'
  <2>1. ASSUME NEW d \in Conns \ {c}
        PROVE  UNCHANGED <<taken[d], task[d], status[d], conn[d]>>
    BY <1>1, <1>2 DEF TypeOK
  <2>2. taken'[c] = {} /\ \A s \in Stores : task'[c][s] = "none"
    BY <1>2 DEF TypeOK
  <2> QED
    BY <2>1, <2>2 DEF ResultsTaken, UnderWay
<1>7. result' = "nil" => \A d \in Conns : conn'[d] \in {"none", "answered"}
  BY <1>1 DEF GracefulDrain, TypeOK
<1> QED
  BY <1>3, <1>4, <1>5, <1>6, <1>7, DrainFollows

LEMMA AnswerInd ==
  ASSUME IndInv, NEW c \in Conns, AnswerProbe(c) \/ AnswerRequest(c)
  PROVE  IndInv'
<1>1. stage # "exit" /\ \E a \in {"ok", "error", "ready", "dependency_unavailable"} : Return(c, a)
  BY DEF AnswerProbe, AnswerRequest
<1> QED
  BY <1>1, ReturnInd

-----------------------------------------------------------------------------
LEMMA StepInd == IndInv /\ [Next]_vars => IndInv'
<1> SUFFICES ASSUME IndInv, [Next]_vars PROVE IndInv'
  OBVIOUS
<1>1. CASE Main
  BY <1>1, ProgramInd, CloseInd, ServerInd, PoolDrainedInd DEF Main
<1>2. CASE AcceptLoop \/ Interrupt \/ BreakListener
  BY <1>2, ServerInd
<1>3. ASSUME NEW c \in Conns, Receive(c) \/ Handle(c) \/ \E s \in Stores : Succeed(c, s)
      PROVE  IndInv'
  BY <1>3, ReceiveInd, TaskInd, CollectInd, AnswerInd DEF Handle
<1>4. CASE UNCHANGED vars
  <2>1. UNCHANGED <<programVars, serverVars, kind, task, taken, status, answer>>
    BY <1>4 DEF vars, handlerVars
  <2>2. ResultsTaken'
    BY <2>1 DEF serverVars, IndInv, ResultsTaken
  <2> QED
    BY <2>1, <2>2, WorkInd DEF IndInv, TypeOK
<1> QED
  BY <1>1, <1>2, <1>3, <1>4 DEF Next

(* The inductive invariant of the two programs.                            *)
THEOREM Invariant == Spec => []IndInv
BY InitInd, StepInd, PTL DEF Spec

(* The variables have their types, and a process that has got past         *)
(* config.Load has a safe configuration (config.go, server.go:121-140).    *)
THEOREM TypeCorrect == Spec => []TypeOK
<1>1. IndInv => TypeOK
  BY DEF IndInv
<1> QED
  BY <1>1, Invariant, PTL

(* An exit without an error was asked for and has answered every request,  *)
(* no store is closed under a handler, and none is left open               *)
(* (server.go:124-140, main.go:33-71).                                     *)
THEOREM ShutdownDrains == Spec => []GracefulDrain
<1>1. IndInv => GracefulDrain
  BY DEF IndInv
<1> QED
  BY <1>1, Invariant, PTL

(* /readyz says what both checks found, in whatever order they end         *)
(* (handlers.go:88-112).                                                   *)
THEOREM ReadinessIsTrue == Spec => ReadinessTruthful
<1> DEFINE A == \A c \in Conns : kind[c] = "readyz" /\ answer'[c] # answer[c] =>
                  /\ answer'[c] = "ready" <=> \A s \in Stores : task[c][s] = "ok"
                  /\ \A s \in Stores : status[c][s] = "ok" <=> task[c][s] = "ok"
<1>1. IndInv /\ [Next]_vars => [A]_answer
  <2> SUFFICES ASSUME IndInv, Next, NEW c \in Conns, kind[c] = "readyz", answer'[c] # answer[c]
               PROVE  /\ answer'[c] = "ready" <=> \A s \in Stores : task[c][s] = "ok"
                      /\ \A s \in Stores : status[c][s] = "ok" <=> task[c][s] = "ok"
    BY DEF vars, handlerVars
  <2>1. \E d \in Conns : AnswerProbe(d) \/ AnswerRequest(d)
    BY DEF Next, Main, Load, OpenPostgres, OpenRedis, StartupChecks, WorkerCheck, HealthTick, WorkerDone,
       RunServer, ServerReturned, CloseRedis, ClosePostgres, PoolDrained, AcceptLoop, Interrupt,
       BreakListener, Receive, Handle, Acquire, Succeed, Fail, Collect, handlerVars
  <2>2. AnswerProbe(c)
    <3>1. \A d \in Conns : \A a : Return(d, a) => d = c
      BY DEF Return, IndInv, TypeOK
    <3> QED
      BY <2>1, <3>1 DEF AnswerProbe, AnswerRequest
  <2>3. \A s \in Stores : status[c][s] = "ok" <=> task[c][s] = "ok"
    BY <2>2 DEF AnswerProbe, IndInv, ResultsTaken
  <2>4. answer'[c] = IF \A s \in Stores : status[c][s] = "ok" THEN "ready" ELSE "dependency_unavailable"
    BY <2>2 DEF AnswerProbe, Return, IndInv, TypeOK
  <2> QED
    BY <2>3, <2>4
<1> QED
  BY <1>1, Invariant, PTL DEF Spec, ReadinessTruthful

=============================================================================
