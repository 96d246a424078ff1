------------------------- MODULE CircuitBreakerProofs -------------------------
(***************************************************************************)
(* What the circuit breaker guarantees for any number of uploads, any      *)
(* threshold and any number of attempts.                                   *)
(***************************************************************************)
EXTENDS CircuitBreaker, FiniteSetTheorems, TLAPS

(* A half-open period has one slot, and it is taken from its first step to *)
(* its last: by the probe, or, once that has ended without a record, by    *)
(* nobody.  It is what keeps a second upload out, and it needs to be known *)
(* that no slot is taken outside half-open.                                *)
PeriodInv ==
  /\ state = "closed" => failureCount < FailureThreshold
  /\ state = "halfOpen" =>
       /\ inFlight = 1 /\ successes = 0 /\ sinceCooled = 1
       /\ \/ leaked = 0 /\ \E u \in Uploads : probe = {u} /\ Active(u)
          \/ leaked = 1 /\ probe = {}
  /\ state # "halfOpen" =>
       inFlight = 0 /\ successes = 0 /\ sinceCooled = 0 /\ leaked = 0 /\ probe = {}

(* TypeOK in parts: the counts, the flag and the calls.                    *)
CountsOK ==
  /\ state \in {"closed", "open", "halfOpen"}
  /\ failureCount \in 0 .. FailureThreshold
  /\ successes \in 0 .. HalfOpenSuccessCount
  /\ inFlight \in 0 .. HalfOpenMaxInFlight
  /\ probe \subseteq Uploads
  /\ leaked \in Nat
  /\ sinceCooled \in Nat

FlagOK == cooled \in BOOLEAN

Call == [pc : {"idle", "sending", "backoff"},
         attempt : 0 .. MaxAttempts, cancelled : BOOLEAN]

(* Only a call that has attempts left waits for the next one.              *)
CallsOK ==
  /\ upload \in [Uploads -> Call]
  /\ \A u \in Uploads : upload[u].pc = "backoff" => upload[u].attempt < MaxAttempts

BreakerInv == CountsOK /\ FlagOK /\ CallsOK /\ PeriodInv

LEMMA IdleIsCall == Idle \in Call
BY BreakerAssumption DEF Idle, Call

LEMMA IdleDoesNotWait == Idle.pc = "idle"
BY DEF Idle

LEMMA BreakerInit == Init => BreakerInv
<1> SUFFICES ASSUME Init PROVE BreakerInv
  OBVIOUS
<1>1. CountsOK /\ PeriodInv
  BY BreakerAssumption DEF Init, CountsOK, PeriodInv
<1>2. FlagOK
  BY Zenon DEF Init, FlagOK
<1>3. CallsOK
  BY IdleIsCall, IdleDoesNotWait DEF Init, CallsOK
<1> QED
  BY <1>1, <1>2, <1>3 DEF BreakerInv

(* The end of a call leaves the others as they are.                        *)
LEMMA EndedCalls ==
  ASSUME CallsOK, NEW u \in Uploads, Ends(u)
  PROVE  CallsOK' /\ \A v \in Uploads : v # u /\ Active(v) => Active(v)'
<1>1. /\ upload' \in [Uploads -> Call] /\ upload'[u] = Idle
      /\ \A v \in Uploads : v # u => upload'[v] = upload[v]
  BY IdleIsCall DEF CallsOK, Ends
<1>2. CallsOK'
  BY <1>1, IdleDoesNotWait DEF CallsOK
<1>3. ASSUME NEW v \in Uploads, v # u, Active(v) PROVE Active(v)'
  BY <1>1, <1>3, Zenon DEF Active
<1> QED
  BY <1>2, <1>3

(* An admission: the slot is taken by the upload that opens the period,    *)
(* and by nobody else in it (tryAcquire).                                  *)
LEMMA AdmissionStep ==
  ASSUME BreakerInv, NEW u \in Uploads, Start(u)
  PROVE  BreakerInv'
<1> DEFINE first == [pc |-> "sending", attempt |-> 1, cancelled |-> FALSE]
<1>1. upload' = [upload EXCEPT ![u] = first]
  BY DEF Start
<1>2. first \in Call /\ first.pc = "sending"
  <2>1. 1 \in 0 .. MaxAttempts
    BY BreakerAssumption
  <2> QED
    BY <2>1 DEF Call
<1> HIDE DEF first
<1>3. CallsOK' /\ Active(u)' /\ \A v \in Uploads : Active(v) => Active(v)'
  BY <1>2, <1>1 DEF BreakerInv, CallsOK, Active
<1>4. FlagOK'
  BY Zenon DEF Start, Acquire, BreakerInv, FlagOK, breaker
<1>5. CountsOK' /\ PeriodInv'
  <2> USE BreakerAssumption DEF BreakerInv, CountsOK, PeriodInv, Start, Acquire
  <2>1. CASE state = "closed"
    BY <2>1 DEF breaker, history
  <2>2. CASE state = "open"
    BY <1>3, <2>2
  <2>3. CASE state = "halfOpen"
    BY <2>3
  <2> QED
    BY <2>1, <2>2, <2>3
<1> QED
  BY <1>3, <1>4, <1>5 DEF BreakerInv

(* A result, of whichever upload and however late, ends the period or      *)
(* finds the breaker in a state where it opens none (recordSuccess).       *)
LEMMA SuccessStep ==
  ASSUME BreakerInv, NEW u \in Uploads, Sent(u)
  PROVE  BreakerInv'
<1>1. CallsOK'
  BY EndedCalls DEF Sent, BreakerInv
<1>2. FlagOK'
  BY Zenon DEF Sent, RecordSuccess, TransitionToClosed, BreakerInv, FlagOK, breaker
<1>3. CountsOK' /\ PeriodInv'
  <2> USE BreakerAssumption DEF BreakerInv, CountsOK, PeriodInv, Sent, RecordSuccess
  <2>1. CASE state = "closed"
    BY <2>1 DEF history
  <2>2. CASE state = "open"
    BY <2>2 DEF breaker, history
  <2>3. CASE state = "halfOpen"
    BY <2>3 DEF TransitionToClosed
  <2> QED
    BY <2>1, <2>2, <2>3
<1> QED
  BY <1>1, <1>2, <1>3 DEF BreakerInv

(* recordFailure: a failure reopens, with a new cooldown, or is counted.   *)
LEMMA FailureStep ==
  ASSUME BreakerInv, NEW u \in Uploads, RecordFailure, Ends(u)
  PROVE  BreakerInv'
<1>1. CallsOK'
  BY EndedCalls DEF BreakerInv
<1>2. FlagOK'
  BY Zenon DEF RecordFailure, TransitionToOpen, BreakerInv, FlagOK, breaker
<1>3. CountsOK' /\ PeriodInv'
  <2> USE BreakerAssumption DEF BreakerInv, CountsOK, PeriodInv, RecordFailure
  <2>1. CASE state = "closed"
    BY <2>1 DEF TransitionToOpen, history
  <2>2. CASE state = "open"
    BY <2>2 DEF breaker, history
  <2>3. CASE state = "halfOpen"
    BY <2>3 DEF TransitionToOpen
  <2> QED
    BY <2>1, <2>2, <2>3
<1> QED
  BY <1>1, <1>2, <1>3 DEF BreakerInv

(* An upload that ends without a record keeps the slot if it was the probe *)
(* and disturbs no other period.                                           *)
LEMMA UnrecordedStep ==
  ASSUME BreakerInv, NEW u \in Uploads, Unrecorded(u), Ends(u)
  PROVE  BreakerInv'
<1>1. CallsOK' /\ \A v \in Uploads : v # u /\ Active(v) => Active(v)'
  BY EndedCalls DEF BreakerInv
<1>2. FlagOK'
  BY DEF Unrecorded, BreakerInv, FlagOK, breaker
<1>3. CountsOK' /\ PeriodInv'
  <2> USE DEF BreakerInv, CountsOK, PeriodInv, Unrecorded, breaker
  <2>1. CASE u \in probe
    BY <2>1
  <2>2. CASE u \notin probe
    BY <1>1, <2>2
  <2> QED
    BY <2>1, <2>2
<1> QED
  BY <1>1, <1>2, <1>3 DEF BreakerInv

(* The steps of an upload between its admission and its result, and the    *)
(* others that leave the breaker alone, end no call.                       *)
LEMMA WaitStep ==
  ASSUME BreakerInv, UNCHANGED <<breaker, history>>, CallsOK',
         \A v \in Uploads : Active(v) => Active(v)'
  PROVE  BreakerInv'
BY DEF BreakerInv, CountsOK, FlagOK, PeriodInv, breaker, history

LEMMA BreakerStep == BreakerInv /\ [Next]_vars => BreakerInv'
<1> SUFFICES ASSUME BreakerInv, [Next]_vars PROVE BreakerInv'
  OBVIOUS
<1>1. CASE CoolsDown
  <2>1. FlagOK'
    BY <1>1, Zenon DEF CoolsDown, FlagOK
  <2>2. CountsOK' /\ CallsOK' /\ PeriodInv'
    BY <1>1 DEF CoolsDown, BreakerInv, CountsOK, CallsOK, PeriodInv, history, Active
  <2> QED
    BY <2>1, <2>2 DEF BreakerInv
<1>2. ASSUME NEW u \in Uploads, Start(u) PROVE BreakerInv'
  BY <1>2, AdmissionStep
<1>3. ASSUME NEW u \in Uploads, GiveUp(u) PROVE BreakerInv'
  <2>1. CallsOK' /\ \A v \in Uploads : Active(v) => Active(v)'
    BY <1>3 DEF GiveUp, BreakerInv, CallsOK, Call, Active
  <2> QED
    BY <1>3, <2>1, WaitStep DEF GiveUp
<1>4. ASSUME NEW u \in Uploads, Sent(u) PROVE BreakerInv'
  BY <1>4, SuccessStep
<1>5. ASSUME NEW u \in Uploads, AttemptFails(u) PROVE BreakerInv'
  <2>1. CASE upload[u].attempt < MaxAttempts
    <3>1. CallsOK' /\ \A v \in Uploads : Active(v) => Active(v)'
      BY <1>5, <2>1 DEF AttemptFails, BreakerInv, CallsOK, Call, Active
    <3> QED
      BY <1>5, <2>1, <3>1, WaitStep DEF AttemptFails
  <2>2. CASE ~(upload[u].attempt < MaxAttempts)
    BY <1>5, <2>2, FailureStep DEF AttemptFails
  <2> QED
    BY <2>1, <2>2
<1>6. ASSUME NEW u \in Uploads, AttemptFailsForGood(u) PROVE BreakerInv'
  BY <1>6, UnrecordedStep DEF AttemptFailsForGood
<1>7. ASSUME NEW u \in Uploads, CancelNoticed(u) PROVE BreakerInv'
  BY <1>7, UnrecordedStep DEF CancelNoticed
<1>8. ASSUME NEW u \in Uploads, BackoffEnds(u) PROVE BreakerInv'
  <2>1. CallsOK' /\ \A v \in Uploads : Active(v) => Active(v)'
    BY <1>8, BreakerAssumption DEF BackoffEnds, BreakerInv, CallsOK, Call, Active
  <2> QED
    BY <1>8, <2>1, WaitStep DEF BackoffEnds
<1>9. CASE UNCHANGED vars
  <2>1. CallsOK' /\ \A v \in Uploads : Active(v) => Active(v)'
    BY <1>9, Zenon DEF vars, BreakerInv, CallsOK, Active
  <2> QED
    BY <1>9, <2>1, WaitStep DEF vars
<1> QED
  BY <1>1, <1>2, <1>3, <1>4, <1>5, <1>6, <1>7, <1>8, <1>9 DEF Next, Proceeds, StartRefused

(* The inductive invariant holds in every reachable state.                 *)
THEOREM BreakerInvariant == Spec => []BreakerInv
BY BreakerInit, BreakerStep, PTL DEF Spec

(* The counters of the breaker stay in their ranges (_failureCount,        *)
(* _halfOpenInFlight), whatever order results come in.                     *)
THEOREM BreakerTypeCorrect == Spec => []TypeOK
<1>1. BreakerInv => TypeOK
  BY DEF BreakerInv, CountsOK, FlagOK, CallsOK, Call, TypeOK
<1> QED
  BY <1>1, BreakerInvariant, PTL

(* However many uploads overlap and however late their results, a          *)
(* destination that failed gets one upload per cooldown (tryAcquire).      *)
THEOREM ProbesAreRationed == Spec => []OneProbePerCooldown
<1>1. BreakerInv => OneProbePerCooldown
  BY DEF BreakerInv, CountsOK, PeriodInv, OneProbePerCooldown
<1> QED
  BY <1>1, BreakerInvariant, PTL

(* The slot of a half-open period is taken by the probe under way, or was  *)
(* leaked by it, and is never given twice (_halfOpenInFlight).             *)
THEOREM SlotsAreAccounted == Spec => []SlotAccounted
<1>1. BreakerInv => SlotAccounted
  <2> SUFFICES ASSUME BreakerInv, state = "halfOpen"
               PROVE  inFlight = Cardinality(probe) + leaked /\ \A u \in probe : Active(u)
    BY DEF SlotAccounted
  <2>1. CASE leaked = 0 /\ \E u \in Uploads : probe = {u} /\ Active(u)
    <3>1. PICK u \in Uploads : probe = {u} /\ Active(u)
      BY <2>1
    <3>2. Cardinality(probe) = 1
      BY <3>1, FS_Singleton, Zenon
    <3> QED
      BY <2>1, <3>1, <3>2 DEF BreakerInv, PeriodInv
  <2>2. CASE leaked = 1 /\ probe = {}
    <3>1. Cardinality(probe) = 0
      BY <2>2, FS_EmptySet
    <3> QED
      BY <2>2, <3>1 DEF BreakerInv, PeriodInv
  <2> QED
    BY <2>1, <2>2 DEF BreakerInv, PeriodInv
<1> QED
  BY <1>1, BreakerInvariant, PTL
=============================================================================
