------------------------ MODULE CircuitBreakerProofs ------------------------
(***************************************************************************)
(* The breaker never runs out of slots, for any number of workers and any  *)
(* configuration.                                                          *)
(***************************************************************************)
EXTENDS CircuitBreaker, FiniteSetTheorems, TLAPS

\* The inductive invariant: the types and the books of the half-open state.
BInv == TypeOK /\ SlotsAccounted

\* Counting the running probes: they are a finite set, one more or one less
\* counts as one more or one less.
LEMMA ProbeCount ==
    ASSUME NEW S, S \subseteq Callers, NEW c \in Callers
    PROVE  /\ IsFiniteSet(S) /\ Cardinality(S) \in Nat
           /\ c \notin S => Cardinality(S \cup {c}) = Cardinality(S) + 1
           /\ c \in S => Cardinality(S \ {c}) = Cardinality(S) - 1
           /\ c \notin S => S \ {c} = S
           /\ Cardinality({c}) = 1
<1>1. IsFiniteSet(S)
  BY CallersAssumption, FS_Subset
<1>2. Cardinality(S) \in Nat
  BY <1>1, FS_CardinalityType
<1>3. c \notin S => Cardinality(S \cup {c}) = Cardinality(S) + 1
  BY <1>1, FS_AddElement
<1>4. c \in S => Cardinality(S \ {c}) = Cardinality(S) - 1
  BY <1>1, FS_RemoveElement
<1>5. Cardinality({c}) = 1
  BY FS_Singleton
<1> QED
  BY <1>1, <1>2, <1>3, <1>4, <1>5

LEMMA InitInv == Init => BInv
<1> SUFFICES ASSUME Init PROVE BInv
  OBVIOUS
<1>1. TypeOK
  <2>1. 0 \in 0..(FailureThreshold - 1) /\ 0 \in 0..HalfOpenMaxCalls
          /\ 0 \in 0..(HalfOpenMaxCalls - 1) /\ 0 \in Nat
    BY ConfigAssumption
  <2> QED
    BY <2>1, Zenon DEF Init, TypeOK
<1>2. SlotsAccounted
  BY DEF Init, SlotsAccounted
<1> QED
  BY <1>1, <1>2 DEF BInv

LEMMA BeforeInv ==
    ASSUME BInv, NEW c \in Callers, beforeCall(c)
    PROVE  BInv'
<1> USE ConfigAssumption DEF BInv
<1>1. probes \subseteq Callers /\ c \notin probes
  BY DEF TypeOK, beforeCall
<1>2. CASE AdmitClosed
  BY <1>2 DEF AdmitClosed, beforeCall, TypeOK, SlotsAccounted
<1>3. CASE AdmitFirstProbe(c)
  <2>1. Cardinality({c}) = 1
    BY <1>1, ProbeCount
  <2>2. TypeOK'
    BY <1>3 DEF AdmitFirstProbe, beforeCall, TypeOK
  <2>3. SlotsAccounted'
    BY <1>3, <2>1 DEF AdmitFirstProbe, SlotsAccounted
  <2> QED
    BY <2>2, <2>3
<1>4. CASE AdmitProbe(c)
  <2>1. Cardinality(probes) \in Nat /\ Cardinality(probes \cup {c}) = Cardinality(probes) + 1
    BY <1>1, ProbeCount
  <2>2. TypeOK'
    BY <1>4 DEF AdmitProbe, beforeCall, TypeOK
  <2>3. SlotsAccounted'
    BY <1>4, <2>1 DEF AdmitProbe, SlotsAccounted, TypeOK
  <2> QED
    BY <2>2, <2>3
<1> QED
  BY <1>2, <1>3, <1>4 DEF beforeCall

LEMMA AfterInv ==
    ASSUME BInv, NEW c \in Callers, NEW ok \in BOOLEAN, afterCall(c, ok)
    PROVE  BInv'
<1> USE ConfigAssumption DEF BInv
<1> DEFINE left == probes \ {c}
<1>1. /\ Cardinality(probes) \in Nat /\ Cardinality(left) \in Nat
      /\ Cardinality(left) <= Cardinality(probes)
      /\ Cardinality(probes) <= Cardinality(left) + 1
  <2>1. probes \subseteq Callers /\ left \subseteq Callers
    BY DEF TypeOK
  <2>2. Cardinality(probes) \in Nat /\ Cardinality(left) \in Nat
    BY <2>1, ProbeCount
  <2>3. CASE c \in probes
    <3>1. Cardinality(left) = Cardinality(probes) - 1
      BY <2>1, <2>3, ProbeCount
    <3> HIDE DEF left
    <3> QED
      BY <2>2, <3>1
  <2>4. CASE c \notin probes
    <3>1. left = probes
      BY <2>4
    <3> QED
      BY <2>2, <3>1
  <2> QED
    BY <2>3, <2>4
<1>2. probes' = left /\ inCall' = inCall \ {c} /\ leaked' = leaked /\ healthy' = healthy
  BY DEF afterCall
<1> HIDE DEF left
<1>3. inCall' \subseteq Callers /\ probes' \subseteq inCall'
  BY <1>2 DEF TypeOK, left
<1>4. CASE EndClosed(ok)
  <2>1. state' \in {"closed", "open"} /\ failureCount' \in 0..(FailureThreshold - 1)
    BY <1>4 DEF EndClosed, Open, TypeOK
  <2>2. cooled' \in BOOLEAN /\ healthy' \in BOOLEAN /\ leaked' \in Nat
    BY <1>2, <1>4, Zenon DEF EndClosed, Open, TypeOK
  <2>3. halfOpenCalls' = halfOpenCalls /\ halfOpenSucc' = halfOpenSucc
    BY <1>4 DEF EndClosed
  <2> QED
    BY <1>3, <2>1, <2>2, <2>3 DEF TypeOK, SlotsAccounted
<1>5. CASE EndOpen
  BY <1>2, <1>3, <1>5 DEF EndOpen, TypeOK, SlotsAccounted
<1>6. CASE EndHalfOpen(ok)
  <2>1. TypeOK'
    <3>1. cooled' \in BOOLEAN /\ healthy' \in BOOLEAN /\ leaked' \in Nat
      BY <1>2, <1>6, Zenon DEF EndHalfOpen, Open, TypeOK
    <3>2. /\ state' \in {"closed", "open", "halfopen"}
          /\ failureCount' \in 0..(FailureThreshold - 1)
          /\ halfOpenCalls' \in 0..HalfOpenMaxCalls
          /\ halfOpenSucc' \in 0..(HalfOpenMaxCalls - 1)
      BY <1>6 DEF EndHalfOpen, Open, TypeOK
    <3> QED
      BY <1>3, <3>1, <3>2 DEF TypeOK
  <2>2. CASE ~ok \/ halfOpenSucc + 1 >= HalfOpenMaxCalls
    BY <1>6, <2>1, <2>2 DEF EndHalfOpen, Open, SlotsAccounted
  <2>3. CASE ok /\ ~(halfOpenSucc + 1 >= HalfOpenMaxCalls)
    <3>1. halfOpenSucc' = halfOpenSucc + 1 /\ halfOpenCalls' = halfOpenCalls
      BY <1>6, <2>3 DEF EndHalfOpen
    <3>2. state = "halfopen"
      BY <1>6 DEF EndHalfOpen
    <3> QED
      BY <1>1, <1>2, <2>1, <3>1, <3>2 DEF SlotsAccounted, TypeOK
  <2> QED
    BY <2>2, <2>3
<1> QED
  BY <1>4, <1>5, <1>6 DEF afterCall

LEMMA PanicInv ==
    ASSUME BInv, NEW c \in Callers, Panic(c)
    PROVE  BInv'
<1> USE DEF BInv
<1>1. TypeOK'
  BY DEF Panic, TypeOK
<1>2. CASE c \in probes /\ state = "halfopen"
  <2>1. Cardinality(probes) \in Nat /\ Cardinality(probes \ {c}) = Cardinality(probes) - 1
    BY <1>2, ProbeCount DEF TypeOK
  <2> QED
    BY <1>1, <1>2, <2>1 DEF Panic, TypeOK, SlotsAccounted
<1>3. CASE ~(c \in probes /\ state = "halfopen")
  <2>1. state = "halfopen" => probes \ {c} = probes
    BY <1>3
  <2> QED
    BY <1>1, <1>3, <2>1 DEF Panic, SlotsAccounted
<1> QED
  BY <1>2, <1>3

LEMMA NextInv == BInv /\ [Next]_vars => BInv'
<1> SUFFICES ASSUME BInv, [Next]_vars PROVE BInv'
  OBVIOUS
<1>1. ASSUME NEW c \in Callers, beforeCall(c) PROVE BInv'
  BY <1>1, BeforeInv
<1>2. ASSUME NEW c \in Callers, NEW ok \in BOOLEAN, afterCall(c, ok) PROVE BInv'
  BY <1>2, AfterInv
<1>3. ASSUME NEW c \in Callers, Panic(c) PROVE BInv'
  BY <1>3, PanicInv
<1>4. CASE Reset
  BY <1>4, ConfigAssumption DEF Reset, BInv, TypeOK, SlotsAccounted
<1>5. CASE RecoveryPasses
  BY <1>5 DEF RecoveryPasses, BInv, TypeOK, SlotsAccounted
<1>6. CASE Recover
  BY <1>6 DEF Recover, BInv, TypeOK, SlotsAccounted
<1>7. CASE UNCHANGED vars
  BY <1>7 DEF vars, BInv, TypeOK, SlotsAccounted
<1> QED
  BY <1>1, <1>2, <1>3, <1>4, <1>5, <1>6, <1>7 DEF Next

\* The books of the half-open breaker balance at all times: every probe admitted
\* by beforeCall is running, was counted by afterCall or ended in a panic.
THEOREM Accounted == Spec => []SlotsAccounted
<1>1. BInv => SlotsAccounted
  BY DEF BInv
<1> QED
  BY InitInv, NextInv, <1>1, PTL DEF Spec

\* Type correctness of the breaker.
THEOREM TypeCorrect == Spec => []TypeOK
<1>1. BInv => TypeOK
  BY DEF BInv
<1> QED
  BY InitInv, NextInv, <1>1, PTL DEF Spec

\* A half-open breaker without a free slot has a probe running that will give
\* one back, unless a probe panicked: with all slots taken and fewer successes
\* than slots, the difference is running.
THEOREM NotStuck == Spec => []NeverStuck
<1>1. BInv => NeverStuck
  <2> SUFFICES ASSUME BInv, state = "halfopen", halfOpenCalls = HalfOpenMaxCalls, leaked = 0,
                      probes = {}
               PROVE  FALSE
    BY DEF NeverStuck
  <2>1. Cardinality(probes) = 0
    BY FS_EmptySet
  <2> QED
    BY <2>1, ConfigAssumption DEF BInv, TypeOK, SlotsAccounted
<1> QED
  BY InitInv, NextInv, <1>1, PTL DEF Spec
=============================================================================
