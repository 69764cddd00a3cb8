------------------------------- MODULE Config -------------------------------
(***************************************************************************)
(* What a process makes of its environment variables                       *)
(* (internal/platform/config/config.go): LoadFrom applies the defaults,    *)
(* collects every error it finds and accepts the configuration if there is *)
(* none.                                                                   *)
(*                                                                         *)
(* A value is what the checks tell apart: a URL is "plain" or "tls" by its *)
(* sslmode or scheme, an origin is its scheme, a secret is known or not    *)
(* and short or long, a duration is its seconds.                           *)
(***************************************************************************)
EXTENDS Integers

CONSTANTS
  Unset,  (* the variable is absent or blank                                *)
  Bad     (* its value does not parse, or is none of those allowed          *)

(* The defaults of the durations, in seconds.                              *)
DefaultDuration ==
  [read_header |-> 5, read |-> 15, write |-> 20, idle |-> 60, request |-> 15, shutdown |-> 15,
   db_connect |-> 5, db_health |-> 2, db_lifetime |-> 1800, db_idle |-> 300,
   redis_dial |-> 3, redis_read |-> 2, redis_write |-> 2, redis_health |-> 2,
   worker_health |-> 30, access_token |-> 900, refresh_token |-> 604800]
Durations == DOMAIN DefaultDuration
TokenLifetimes == {"access_token", "refresh_token"}

DefaultInteger == [pool_max |-> 20, pool_min |-> 2, body_bytes |-> 1048576]
Integers32 == DOMAIN DefaultInteger

(* What serves a local checkout when the variable is not set.              *)
LocalDefault ==
  [database |-> "plain", redis |-> "plain", origins |-> {"http"}, secret |-> "published"]
Required == DOMAIN LocalDefault

Urls == {"plain", "tls", Bad, Unset}
Env == [environment : {"local", "test", "staging", "production", Bad, Unset},
        database : Urls, redis : Urls,
        origins : (SUBSET {"http", "https", "*", Bad}) \cup {Unset},
        secret : {"published", "short", "long", Unset},
        log_level : {"info", Bad, Unset},
        durations : [Durations -> Int \cup {Bad, Unset}],
        integers : [Integers32 -> Int \cup {Bad, Unset}]]

ASSUME ValuesApart ==
  /\ Unset # Bad /\ Unset \notin Int /\ Bad \notin Int
  /\ \A o \in SUBSET {"http", "https", "*", Bad} : o # Unset
  /\ {Unset, Bad} \cap {"local", "test", "staging", "production", "plain", "tls", "http", "https",
                        "*", "published", "short", "long", "info"} = {}

-----------------------------------------------------------------------------
(* Mutant of RequiredOutsideLocal: the default serves every environment.   *)
RequiredAnywhere(e, k) == IF e[k] = Unset THEN LocalDefault[k] ELSE e[k]

(* Outside local a required variable without a value is an error.          *)
RequiredOutsideLocal(e, k) ==
  IF e[k] = Unset /\ e.environment = "local" THEN LocalDefault[k] ELSE e[k]

(* What fails to parse counts as zero in the checks that follow.           *)
Parsed(value, default) == CASE value = Unset -> default [] value = Bad -> 0 [] OTHER -> value

ParseDuration(e, d) == Parsed(e.durations[d], DefaultDuration[d])
ParseInteger(e, i) == Parsed(e.integers[i], DefaultInteger[i])

(* Wildcards, what is no origin, and http in production are not kept.      *)
Origins(e) == LET o == RequiredOutsideLocal(e, "origins") IN IF o = Unset THEN {} ELSE o
Refuses(e, origin) ==
  origin \in (IF e.environment = "production" THEN {"*", Bad, "http"} ELSE {"*", Bad})
ParseOrigins(e) == {o \in Origins(e) : ~Refuses(e, o)}

(* Each of a process's URLs: it parses, and asks for TLS in production.    *)
ValidateDependencyURL(e, k) ==
  LET url == RequiredOutsideLocal(e, k)
  IN  url # Bad /\ (e.environment = "production" => url \in {"tls", Unset})

(* The settings LoadFrom reports an error for.  The lifetimes of tokens    *)
(* are parsed but, other than the durations, need not be positive.         *)
Errors(e) ==
  {k \in Required : RequiredOutsideLocal(e, k) = Unset}
  \cup {k \in {"secret"} : /\ e.environment = "production"
                          /\ RequiredOutsideLocal(e, k) \in {"published", "short", Unset}}
  \cup {k \in {"database", "redis"} : ~ValidateDependencyURL(e, k)}
  \cup {k \in {"origins"} : ParseOrigins(e) = {} \/ \E o \in Origins(e) : Refuses(e, o)}
  \cup {k \in {"log_level"} : e.log_level = Bad}
  \cup {d \in Durations : e.durations[d] = Bad}
  \cup {d \in Durations \ TokenLifetimes : ParseDuration(e, d) <= 0}
  \cup {i \in Integers32 : e.integers[i] = Bad}
  \cup {i \in {"pool_max", "body_bytes"} : ParseInteger(e, i) <= 0}
  \cup {i \in {"pool_min"} : \/ ParseInteger(e, i) < 0
                            \/ ParseInteger(e, i) > ParseInteger(e, "pool_max")}
  \cup {d \in {"request"} : ParseDuration(e, d) > ParseDuration(e, "write")}

(* Without a valid APP_ENV nothing else is looked at.                      *)
Accepted(e) == e.environment \notin {Unset, Bad} /\ Errors(e) = {}

Loaded(e) ==
  [environment |-> e.environment,
   database |-> RequiredOutsideLocal(e, "database"), redis |-> RequiredOutsideLocal(e, "redis"),
   origins |-> ParseOrigins(e), secret |-> RequiredOutsideLocal(e, "secret"),
   durations |-> [d \in Durations |-> ParseDuration(e, d)],
   integers |-> [i \in Integers32 |-> ParseInteger(e, i)]]
=============================================================================
