----------------------------- MODULE RateLimit -----------------------------
(***************************************************************************)
(* The limiter in front of Register and Login, for one key: the route and  *)
(* the caller's RemoteAddr (internal/platform/ratelimit/limiter.go,        *)
(* identity/handler.go).                                                   *)
(*                                                                         *)
(* Allow sends INCR and EXPIRE NX in one pipeline, which Redis does not    *)
(* execute as one: commands of other handlers, the expiry of the key and a *)
(* lost connection may come between the two.                               *)
(***************************************************************************)
EXTENDS Integers

CONSTANTS
  Handlers,     (* handlers at work for this key; each serves many attempts *)
  MaxAttempts,  (* 10 in the code                                           *)
  Window        (* one minute in the code, here in ticks of the clock       *)

ASSUME LimitAssumption == MaxAttempts \in Nat \ {0} /\ Window \in Nat \ {0}

NoTTL == 0          (* the key does not expire                              *)
Over == MaxAttempts + 1   (* bounds the counter: beyond the limit all values are alike *)

VARIABLES
  count,   (* the counter, 0 without a key                                  *)
  ttl,     (* ticks until the key expires                                   *)
  pc,      (* each handler: "idle", or "expire" with INCR done              *)
  passed   (* history: the attempts INCR let through in the current tick    *)
           (* and the i ticks before it, for each i                         *)

vars == <<count, ttl, pc, passed>>
Ago == 0 .. Window - 1

Init ==
  /\ count = 0 /\ ttl = NoTTL
  /\ pc = [h \in Handlers |-> "idle"]
  /\ passed = [i \in Ago |-> 0]

-----------------------------------------------------------------------------
(* Mutant of Allowed: the limit is compared as if before the increment.    *)
AllowedBefore(n) == n - 1 <= MaxAttempts

Allowed(n) == n <= MaxAttempts

(* The reply to INCR decides the answer.                                   *)
Incr(h) ==
  LET n == IF count = Over THEN Over ELSE count + 1
  IN  /\ pc[h] = "idle"
      /\ count' = n
      /\ passed' = [i \in Ago |-> IF Allowed(n) THEN passed[i] + 1 ELSE passed[i]]
      /\ pc' = [pc EXCEPT ![h] = "expire"]
      /\ UNCHANGED ttl

(* Mutants of ExpireNX: every attempt starts the window again; a window is *)
(* started for a key that is gone.                                         *)
ExpireAlways(h) ==
  /\ pc[h] = "expire"
  /\ ttl' = IF count # 0 THEN Window ELSE ttl
  /\ pc' = [pc EXCEPT ![h] = "idle"]
  /\ UNCHANGED <<count, passed>>
ExpireMissing(h) ==
  /\ pc[h] = "expire"
  /\ ttl' = IF ttl = NoTTL THEN Window ELSE ttl
  /\ pc' = [pc EXCEPT ![h] = "idle"]
  /\ UNCHANGED <<count, passed>>

(* EXPIRE NX gives the key its window if it has none; the attempt is       *)
(* answered.                                                               *)
ExpireNX(h) ==
  /\ pc[h] = "expire"
  /\ ttl' = IF count # 0 /\ ttl = NoTTL THEN Window ELSE ttl
  /\ pc' = [pc EXCEPT ![h] = "idle"]
  /\ UNCHANGED <<count, passed>>

(* The connection is lost before EXPIRE: Allow returns an error, which the *)
(* handler drops, and true.  An error before INCR changes nothing.         *)
Fail(h) ==
  /\ pc[h] = "expire"
  /\ pc' = [pc EXCEPT ![h] = "idle"]
  /\ UNCHANGED <<count, ttl, passed>>

(* The clock.                                                              *)
Tick ==
  /\ passed' = [i \in Ago |-> IF i = 0 THEN 0 ELSE passed[i - 1]]
  /\ ttl' = IF ttl = NoTTL THEN NoTTL ELSE ttl - 1
  /\ count' = IF ttl = 1 THEN 0 ELSE count
  /\ UNCHANGED pc

Next == Tick \/ \E h \in Handlers : Incr(h) \/ ExpireNX(h) \/ Fail(h)

(* Time does not stop.                                                     *)
Spec == Init /\ [][Next]_vars /\ WF_vars(Tick)

-----------------------------------------------------------------------------
(* Properties.                                                             *)

(* The variables have their types, and only a key that exists has a time   *)
(* to live (limiter.go:27-29).                                             *)
TypeOK ==
  /\ count \in 0 .. Over
  /\ ttl \in 0 .. Window
  /\ count = 0 => ttl = NoTTL
  /\ pc \in [Handlers -> {"idle", "expire"}]
  /\ passed \in [Ago -> Nat]

(* Whatever comes between INCR and EXPIRE, and wherever the windows begin, *)
(* no Window ticks see more than two windows' worth of attempts let        *)
(* through, those that fail open aside (limiter.go:27-37).                 *)
LimitHeld == \A i \in Ago : passed[i] <= 2 * MaxAttempts

(* As long as attempts get through to Redis every now and then, no counter *)
(* stays for ever: neither steady attempts nor a lost EXPIRE locks a       *)
(* caller out for good (limiter.go:27-29).                                 *)
NeverLockedOut ==
  []<><<\E h \in Handlers : ExpireNX(h)>>_vars => (count > 0 ~> count = 0)

-----------------------------------------------------------------------------
(* The inductive invariant behind LimitHeld, and its parts.                *)

(* What the key that exists now has let through.                           *)
Counted == IF Allowed(count) THEN count ELSE MaxAttempts

(* Ticks over which nothing but that key can have let anything through: it *)
(* is at least as old as its time to live has been running.                *)
Age == IF ttl = NoTTL THEN 0 ELSE Window - ttl
OneKey == \A i \in Ago : i <= Age => passed[i] <= Counted

(* In the ticks looked back at there has been one more key at most.        *)
TwoKeys == \A i \in Ago : passed[i] <= Counted + MaxAttempts

(* What the code and Redis keep true at every command.                     *)
IndInv == TypeOK /\ OneKey /\ TwoKeys

=============================================================================
