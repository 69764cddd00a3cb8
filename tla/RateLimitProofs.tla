-------------------------- MODULE RateLimitProofs --------------------------
(***************************************************************************)
(* The limit of RateLimit for any number of handlers and attempts and any  *)
(* window.  A key lives for a whole window from its EXPIRE on, so no       *)
(* window sees the end of two keys.                                        *)
(***************************************************************************)
EXTENDS RateLimit, TLAPS

LEMMA CountedType ==
  ASSUME TypeOK
  PROVE  /\ count \in Nat /\ Counted \in 0 .. MaxAttempts /\ MaxAttempts \in Nat
         /\ ttl \in Nat /\ Window \in Nat \ {0} /\ Age \in Nat
BY LimitAssumption DEF TypeOK, Counted, Allowed, Over, Age, NoTTL

LEMMA InitInd == Init => IndInv
<1> SUFFICES ASSUME Init PROVE IndInv
  OBVIOUS
<1>1. TypeOK
  BY LimitAssumption DEF Init, TypeOK, Over, NoTTL
<1>2. OneKey /\ TwoKeys
  BY LimitAssumption DEF Init, OneKey, TwoKeys, Counted, Allowed
<1> QED
  BY <1>1, <1>2 DEF IndInv

-----------------------------------------------------------------------------
(* One lemma per action.                                                   *)

(* An attempt let through is counted; beyond the limit none is.            *)
LEMMA IncrInd == ASSUME IndInv, NEW h \in Handlers, Incr(h) PROVE IndInv'
<1> USE LimitAssumption DEF IndInv
<1>1. /\ count' = (IF count = Over THEN Over ELSE count + 1) /\ ttl' = ttl
      /\ passed' = [i \in Ago |-> IF Allowed(count') THEN passed[i] + 1 ELSE passed[i]]
      /\ pc' = [pc EXCEPT ![h] = "expire"]
  BY DEF Incr
<1>2. TypeOK'
  BY <1>1 DEF TypeOK, Over, NoTTL
<1>3. /\ Allowed(count') => Counted' = Counted + 1
      /\ ~Allowed(count') => Counted' = Counted
  BY <1>1 DEF TypeOK, Counted, Allowed, Over
<1>4. Age' = Age
  BY <1>1 DEF Age
<1>5. \A i \in Ago : passed[i] \in Nat /\ passed'[i] = IF Allowed(count') THEN passed[i] + 1 ELSE passed[i]
  BY <1>1 DEF TypeOK
<1>6. OneKey' /\ TwoKeys'
  BY <1>3, <1>4, <1>5, CountedType DEF OneKey, TwoKeys
<1> QED
  BY <1>2, <1>6

(* The time to live is set once; Age is 0 before and after.                *)
LEMMA ReplyInd == ASSUME IndInv, NEW h \in Handlers, ExpireNX(h) \/ Fail(h) PROVE IndInv'
<1> USE LimitAssumption DEF IndInv
<1>1. /\ UNCHANGED <<count, passed>> /\ pc' = [pc EXCEPT ![h] = "idle"]
      /\ ttl' = ttl \/ (count # 0 /\ ttl = NoTTL /\ ttl' = Window)
  BY DEF ExpireNX, Fail
<1>2. TypeOK'
  BY <1>1 DEF TypeOK, NoTTL
<1>3. Age' = Age /\ Counted' = Counted
  BY <1>1 DEF Age, Counted, NoTTL, TypeOK
<1>4. OneKey' /\ TwoKeys'
  BY <1>1, <1>3 DEF OneKey, TwoKeys
<1> QED
  BY <1>2, <1>4

(* When a key expires it has been the only one for a whole window.         *)
LEMMA TickInd == ASSUME IndInv, Tick PROVE IndInv'
<1> USE LimitAssumption DEF IndInv
<1>1. /\ passed' = [i \in Ago |-> IF i = 0 THEN 0 ELSE passed[i - 1]]
      /\ ttl' = (IF ttl = NoTTL THEN NoTTL ELSE ttl - 1)
      /\ count' = (IF ttl = 1 THEN 0 ELSE count) /\ pc' = pc
  BY DEF Tick
<1>2. \A i \in Ago : i = 0 \/ i - 1 \in Ago
  BY DEF Ago
<1>3. TypeOK'
  <2>1. \A i \in Ago : (IF i = 0 THEN 0 ELSE passed[i - 1]) \in Nat
    BY <1>2 DEF TypeOK
  <2> QED
    BY <1>1, <2>1 DEF TypeOK, NoTTL, Over
<1>4. CASE ttl = 1
  <2>1. Age = Window - 1
    BY <1>4 DEF Age, NoTTL
  <2>2. \A i \in Ago : passed[i] <= MaxAttempts /\ passed[i] \in Nat
    BY <2>1, CountedType DEF OneKey, Ago, TypeOK
  <2>3. Counted' = 0 /\ Age' = 0
    BY <1>1, <1>4 DEF Counted, Allowed, Age, NoTTL
  <2> QED
    BY <1>1, <1>2, <1>3, <2>2, <2>3 DEF OneKey, TwoKeys, Ago
<1>5. CASE ttl # 1
  <2>1. Counted' = Counted /\ Age' <= Age + 1
    BY <1>1, <1>5 DEF Counted, Age, NoTTL, TypeOK
  <2>2. \A i \in Ago : passed'[i] = IF i = 0 THEN 0 ELSE passed[i - 1]
    BY <1>1
  <2>3. Age \in Nat /\ Age' \in Int /\ Counted \in Nat /\ MaxAttempts \in Nat
    BY <1>1, <1>3, CountedType DEF Age, TypeOK, NoTTL
  <2>4. OneKey'
    <3> SUFFICES ASSUME NEW i \in Ago, i <= Age'
                 PROVE  passed'[i] <= Counted
      BY <2>1 DEF OneKey
    <3>1. CASE i = 0
      BY <2>2, <2>3, <3>1
    <3>2. CASE i # 0
      <4>1. i - 1 \in Ago /\ i - 1 <= Age
        BY <1>2, <2>1, <2>3, <3>2 DEF Ago
      <4> QED
        BY <2>2, <3>2, <4>1 DEF OneKey
    <3> QED
      BY <3>1, <3>2
  <2>5. TwoKeys'
    BY <1>2, <2>1, <2>2, <2>3 DEF TwoKeys
  <2> QED
    BY <1>3, <2>4, <2>5
<1> QED
  BY <1>4, <1>5

-----------------------------------------------------------------------------
LEMMA StepInd == IndInv /\ [Next]_vars => IndInv'
<1> SUFFICES ASSUME IndInv, [Next]_vars PROVE IndInv'
  OBVIOUS
<1>1. CASE Next
  BY <1>1, IncrInd, ReplyInd, TickInd DEF Next
<1>2. CASE UNCHANGED vars
  BY <1>2 DEF vars, IndInv, TypeOK, OneKey, TwoKeys, Counted, Age
<1> QED
  BY <1>1, <1>2

(* The inductive invariant of the limiter.                                 *)
THEOREM Invariant == Spec => []IndInv
BY InitInd, StepInd, PTL DEF Spec

(* Only a key that exists has a time to live (limiter.go:27-29).           *)
THEOREM TypeCorrect == Spec => []TypeOK
<1>1. IndInv => TypeOK
  BY DEF IndInv
<1> QED
  BY <1>1, Invariant, PTL

(* However INCR, EXPIRE and the expiry of keys interleave, no window sees  *)
(* more than twice the limit let through (limiter.go:27-37).               *)
THEOREM LimitAlwaysHeld == Spec => []LimitHeld
<1>1. IndInv => LimitHeld
  <2> SUFFICES ASSUME IndInv, NEW i \in Ago PROVE passed[i] <= 2 * MaxAttempts
    BY DEF LimitHeld
  <2>1. passed[i] <= Counted + MaxAttempts /\ passed[i] \in Nat
    BY DEF IndInv, TwoKeys, TypeOK
  <2> QED
    BY <2>1, CountedType DEF IndInv
<1> QED
  BY <1>1, Invariant, PTL

=============================================================================
