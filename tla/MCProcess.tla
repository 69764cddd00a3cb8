----------------------------- MODULE MCProcess -----------------------------
(***************************************************************************)
(* Environments: those of the README and of config_test.go, and every one  *)
(* that differs from one of them in a setting, or in two numbers with a    *)
(* common limit.                                                           *)
(***************************************************************************)
EXTENDS Process

Bare(environment) ==
  [environment |-> environment, database |-> Unset, redis |-> Unset, origins |-> Unset,
   secret |-> Unset, log_level |-> Unset,
   durations |-> [d \in Durations |-> Unset], integers |-> [i \in Integers32 |-> Unset]]
Complete(environment) ==
  [Bare(environment) EXCEPT !.database = "tls", !.redis = "tls", !.origins = {"https"}, !.secret = "long"]

Bases == {Bare(Unset), Bare(Bad), Bare("local"), Bare("staging"), Complete("test"), Complete("production")}

OneSetting(e) ==
  {e} \cup {[e EXCEPT !.database = u] : u \in Urls}
      \cup {[e EXCEPT !.redis = u] : u \in Urls}
      \cup {[e EXCEPT !.origins = o] : o \in {Unset, {}, {"*"}, {"http"}, {"http", "https"}, {"https", Bad}}}
      \cup {[e EXCEPT !.secret = s] : s \in {"published", "short", "long", Unset}}
      \cup {[e EXCEPT !.log_level = Bad], [e EXCEPT !.durations["access_token"] = 0]}

(* The numbers whose limits depend on each other.                          *)
Numbers(e) ==
  {[e EXCEPT !.durations["request"] = r, !.durations["write"] = w] :
     r \in {Unset, Bad, 15, 30}, w \in {Unset, 0, 10, 30}}
  \cup {[e EXCEPT !.integers["pool_max"] = n, !.integers["pool_min"] = m] :
     n \in {Unset, Bad, 0, 1}, m \in {Unset, -1, 0, 1, 2}}

MCEnvs == UNION {OneSetting(b) : b \in Bases} \cup Numbers(Bare("local"))
=============================================================================
