--------------------------- MODULE CircuitBreaker ---------------------------
(***************************************************************************)
(* The circuit breaker of internal/circuitbreaker/circuitbreaker.go as the *)
(* workers of an agent use it (agent.go, worker): each worker runs its     *)
(* task inside Execute.  The mutex is held in beforeCall and in afterCall  *)
(* and not while the task runs, so a call admitted in one state of the     *)
(* breaker may end in another: these two are the steps of the model.       *)
(*                                                                         *)
(* time.Since(openedAt) is compared with RecoveryTimeout only, so time is  *)
(* one fact: the timeout has passed (`cooled`).  The breaker of one device *)
(* is modelled; BreakerSet keeps one for each key and they share nothing.  *)
(* A breaker that is switched off (FailureThreshold <= 0) calls the task   *)
(* and touches no state: no model is needed for it.                        *)
(***************************************************************************)
EXTENDS Integers, FiniteSets

CONSTANTS
    Callers,           \* the workers
    FailureThreshold,  \* failures in a row that open the breaker
    HalfOpenMaxCalls   \* probes a half-open breaker lets through

ASSUME CallersAssumption == IsFiniteSet(Callers)
ASSUME ConfigAssumption ==
    /\ FailureThreshold \in Nat \ {0}
    /\ HalfOpenMaxCalls \in Nat \ {0}     \* New replaces 0 by 1

VARIABLES
    state,          \* "closed", "open" or "halfopen"
    failureCount,   \* failures in a row while closed
    cooled,         \* RecoveryTimeout has passed since openedAt
    halfOpenCalls,  \* probes admitted since the breaker became half-open
    halfOpenSucc,   \* successes counted since then
    inCall,         \* the workers whose task is running
    probes,         \* those of them admitted since the breaker became half-open
    leaked,         \* probes since then that ended in a panic
    healthy         \* the device is well: tasks succeed from now on

vars == <<state, failureCount, cooled, halfOpenCalls, halfOpenSucc, inCall, probes,
          leaked, healthy>>

Init ==
    /\ state = "closed"
    /\ failureCount = 0
    /\ cooled = FALSE
    /\ halfOpenCalls = 0 /\ halfOpenSucc = 0
    /\ inCall = {} /\ probes = {} /\ leaked = 0
    /\ healthy = FALSE
-----------------------------------------------------------------------------
(***************************************************************************)
(* beforeCall: an admitted call is running; a refused one changes nothing. *)
(***************************************************************************)
AdmitClosed ==
    /\ state = "closed"
    /\ UNCHANGED <<state, halfOpenCalls, halfOpenSucc, probes, leaked>>

\* Mutants: the first probe takes no slot; it takes them all.
AdmitFirstProbeFree(c) ==
    /\ state = "open" /\ cooled
    /\ state' = "halfopen"
    /\ halfOpenCalls' = 0 /\ halfOpenSucc' = 0
    /\ probes' = {c} /\ leaked' = 0
AdmitFirstProbeAll(c) ==
    /\ state = "open" /\ cooled
    /\ state' = "halfopen"
    /\ halfOpenCalls' = HalfOpenMaxCalls /\ halfOpenSucc' = 0
    /\ probes' = {c} /\ leaked' = 0

\* The timeout has passed: half-open, and this call is the first probe.
AdmitFirstProbe(c) ==
    /\ state = "open" /\ cooled
    /\ state' = "halfopen"
    /\ halfOpenCalls' = 1 /\ halfOpenSucc' = 0
    /\ probes' = {c} /\ leaked' = 0

\* Mutant: one probe too many.
AdmitProbeOver(c) ==
    /\ state = "halfopen" /\ halfOpenCalls <= HalfOpenMaxCalls
    /\ halfOpenCalls' = halfOpenCalls + 1
    /\ probes' = probes \cup {c}
    /\ UNCHANGED <<state, halfOpenSucc, leaked>>

AdmitProbe(c) ==
    /\ state = "halfopen" /\ halfOpenCalls < HalfOpenMaxCalls
    /\ halfOpenCalls' = halfOpenCalls + 1
    /\ probes' = probes \cup {c}
    /\ UNCHANGED <<state, halfOpenSucc, leaked>>

beforeCall(c) ==
    /\ c \notin inCall
    /\ AdmitClosed \/ AdmitFirstProbe(c) \/ AdmitProbe(c)
    /\ inCall' = inCall \cup {c}
    /\ UNCHANGED <<failureCount, cooled, healthy>>

(***************************************************************************)
(* afterCall: what the end of a call does depends on the state the breaker *)
(* is in by then.                                                          *)
(***************************************************************************)
Open ==
    /\ state' = "open" /\ cooled' = FALSE
    /\ failureCount' = 0

EndClosed(ok) ==
    /\ state = "closed"
    /\ IF ok THEN failureCount' = 0 /\ UNCHANGED <<state, cooled>>
       ELSE IF failureCount + 1 >= FailureThreshold THEN Open
       ELSE failureCount' = failureCount + 1 /\ UNCHANGED <<state, cooled>>
    /\ UNCHANGED <<halfOpenCalls, halfOpenSucc>>

\* Mutant: one success more is asked for than there are probes.
EndHalfOpenStrict(ok) ==
    /\ state = "halfopen"
    /\ IF ~ok THEN Open /\ halfOpenCalls' = 0 /\ halfOpenSucc' = 0
       ELSE IF halfOpenSucc + 1 > HalfOpenMaxCalls
       THEN /\ state' = "closed" /\ failureCount' = 0
            /\ halfOpenCalls' = 0 /\ halfOpenSucc' = 0
            /\ UNCHANGED cooled
       ELSE /\ halfOpenSucc' = halfOpenSucc + 1
            /\ UNCHANGED <<state, failureCount, cooled, halfOpenCalls>>

\* A failure opens the breaker again, enough successes close it.  Every call
\* that ends now counts, whenever it was admitted.
EndHalfOpen(ok) ==
    /\ state = "halfopen"
    /\ IF ~ok THEN Open /\ halfOpenCalls' = 0 /\ halfOpenSucc' = 0
       ELSE IF halfOpenSucc + 1 >= HalfOpenMaxCalls
       THEN /\ state' = "closed" /\ failureCount' = 0
            /\ halfOpenCalls' = 0 /\ halfOpenSucc' = 0
            /\ UNCHANGED cooled
       ELSE /\ halfOpenSucc' = halfOpenSucc + 1
            /\ UNCHANGED <<state, failureCount, cooled, halfOpenCalls>>

\* A call admitted before the breaker opened: it changes nothing.
EndOpen ==
    /\ state = "open"
    /\ UNCHANGED <<state, failureCount, cooled, halfOpenCalls, halfOpenSucc>>

afterCall(c, ok) ==
    /\ c \in inCall
    /\ healthy => ok
    /\ EndClosed(ok) \/ EndHalfOpen(ok) \/ EndOpen
    /\ inCall' = inCall \ {c}
    /\ probes' = probes \ {c}
    /\ UNCHANGED <<leaked, healthy>>

\* A panic leaves Execute without afterCall; safeGo starts the worker again.
Panic(c) ==
    /\ ~healthy
    /\ c \in inCall
    /\ inCall' = inCall \ {c}
    /\ probes' = probes \ {c}
    /\ leaked' = IF c \in probes /\ state = "halfopen" THEN leaked + 1 ELSE leaked
    /\ UNCHANGED <<state, failureCount, cooled, halfOpenCalls, halfOpenSucc, healthy>>

Reset ==
    /\ state # "closed" \/ failureCount # 0
    /\ state' = "closed" /\ failureCount' = 0
    /\ halfOpenCalls' = 0 /\ halfOpenSucc' = 0
    /\ UNCHANGED <<cooled, inCall, probes, leaked, healthy>>

\* RecoveryTimeout passes after openedAt.
RecoveryPasses ==
    /\ state = "open" /\ ~cooled
    /\ cooled' = TRUE
    /\ UNCHANGED <<state, failureCount, halfOpenCalls, halfOpenSucc, inCall, probes,
                   leaked, healthy>>

\* The device recovers for good.
Recover ==
    /\ ~healthy /\ healthy' = TRUE
    /\ UNCHANGED <<state, failureCount, cooled, halfOpenCalls, halfOpenSucc, inCall, probes,
                   leaked>>

Next ==
    \/ \E c \in Callers :
          \/ beforeCall(c) \/ Panic(c)
          \/ \E ok \in BOOLEAN : afterCall(c, ok)
    \/ Reset \/ RecoveryPasses \/ Recover

Spec == Init /\ [][Next]_vars

\* Time passes, tasks end (each has a timeout), and there is always a next task
\* for a worker to try.
FairSpec ==
    /\ Spec
    /\ WF_vars(RecoveryPasses)
    /\ \A c \in Callers : WF_vars(beforeCall(c)) /\ WF_vars(\E ok \in BOOLEAN : afterCall(c, ok))
-----------------------------------------------------------------------------
(***************************************************************************)
(* Properties.                                                             *)
(***************************************************************************)
\* Every variable holds a value of its kind; a probe is a running call.
TypeOK ==
    /\ state \in {"closed", "open", "halfopen"}
    /\ failureCount \in 0..(FailureThreshold - 1)
    /\ cooled \in BOOLEAN /\ healthy \in BOOLEAN
    /\ halfOpenCalls \in 0..HalfOpenMaxCalls
    /\ halfOpenSucc \in 0..(HalfOpenMaxCalls - 1)
    /\ inCall \subseteq Callers /\ probes \subseteq inCall /\ leaked \in Nat

\* The books of a half-open breaker: every probe admitted is still running, has
\* been counted as a success, or was lost to a panic; calls from before the
\* breaker opened may add successes and take nothing away.
SlotsAccounted ==
    state = "halfopen" =>
        /\ Cardinality(probes) <= halfOpenCalls
        /\ halfOpenCalls <= halfOpenSucc + Cardinality(probes) + leaked

\* A half-open breaker that lets no call through any more waits for one that is
\* running: short of a panic, it cannot refuse for ever because every slot is
\* gone and nobody is left to give one back.
NeverStuck ==
    state = "halfopen" /\ halfOpenCalls = HalfOpenMaxCalls /\ leaked = 0 => probes # {}

\* Once the device is well and no slot was lost to a panic, the breaker closes
\* and stays closed, whatever calls from before are still to end ("自动重新执行任务",
\* the comment of worker).
Recovers == healthy /\ leaked = 0 ~> [](state = "closed")
=============================================================================
