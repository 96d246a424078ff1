---------------------------- MODULE CircuitBreaker ----------------------------
(***************************************************************************)
(* The circuit breaker of one remote destination                           *)
(* (core/utils/circuit_breaker.dart) and the uploads that pass it          *)
(* (uploadToDestination of destination_orchestrator_impl.dart, with the    *)
(* retries of core/utils/retry_utils.dart).                                *)
(*                                                                         *)
(* Uploads to one destination overlap although a server runs one backup at *)
(* a time: scheduler_service.dart stops waiting for uploads after its      *)
(* timeout, tells them to cancel and goes on, and the upload itself ends   *)
(* when its connection lets it.  Results therefore come back in any order, *)
(* in any state of the breaker.                                            *)
(*                                                                         *)
(* Dart runs to the next await: what the guard does to the breaker, and    *)
(* what the end of an upload does to it, is one step each.  Local          *)
(* destinations have no breaker.  The getter allowsRequest is called by    *)
(* tests only and is left out.                                             *)
(***************************************************************************)
EXTENDS Naturals, FiniteSets

CONSTANTS
    Uploads,                \* calls of uploadToDestination under way
    FailureThreshold,
    HalfOpenSuccessCount,
    HalfOpenMaxInFlight,
    MaxAttempts             \* of executeResultWithRetry

ASSUME BreakerAssumption ==
    /\ IsFiniteSet(Uploads)
    /\ FailureThreshold \in Nat \ {0}
    /\ HalfOpenSuccessCount = 1     \* as CircuitBreakerConstants has it
    /\ HalfOpenMaxInFlight = 1
    /\ MaxAttempts \in Nat \ {0}

VARIABLES
    state,          \* closed, open or halfOpen
    failureCount,
    successes,      \* _halfOpenSuccessCountCurrent
    inFlight,       \* _halfOpenInFlight
    cooled,         \* openDuration has passed since _openedAt
    upload,         \* of each call: [pc, attempt, cancelled]
    probe,          \* history: the uploads this half-open period admitted
    leaked,         \* history: how many of them ended without a record
    sinceCooled     \* history: uploads admitted since the cooldown ended

breaker == <<state, failureCount, successes, inFlight, cooled>>
history == <<probe, leaked, sinceCooled>>
vars == <<breaker, upload, history>>

Idle == [pc |-> "idle", attempt |-> 0, cancelled |-> FALSE]

Init ==
    /\ state = "closed"
    /\ failureCount = 0
    /\ successes = 0
    /\ inFlight = 0
    /\ cooled = FALSE
    /\ upload = [u \in Uploads |-> Idle]
    /\ probe = {}
    /\ leaked = 0
    /\ sinceCooled = 0

Active(u) == upload[u].pc \in {"sending", "backoff"}

-----------------------------------------------------------------------------
(* The breaker.                                                             *)

(* Seeded fault: _openedAt keeps the time of the first opening.             *)
TransitionToOpenKeepsTime ==
    /\ state' = "open"
    /\ cooled' = (state = "halfOpen")
    /\ probe' = {} /\ leaked' = 0 /\ UNCHANGED sinceCooled

TransitionToOpen ==
    /\ state' = "open"
    /\ cooled' = FALSE
    /\ probe' = {} /\ leaked' = 0 /\ sinceCooled' = 0

(* Seeded fault: the failures of before are still counted.                  *)
TransitionToClosedKeepsCount ==
    /\ state' = "closed"
    /\ successes' = 0
    /\ inFlight' = 0
    /\ cooled' = FALSE
    /\ probe' = {} /\ leaked' = 0 /\ sinceCooled' = 0
    /\ UNCHANGED failureCount

TransitionToClosed ==
    /\ state' = "closed"
    /\ failureCount' = 0
    /\ successes' = 0
    /\ inFlight' = 0
    /\ cooled' = FALSE
    /\ probe' = {} /\ leaked' = 0 /\ sinceCooled' = 0

(* Seeded fault: the way from open to half-open takes no slot.              *)
AcquireFree(u) ==
    \/ /\ state = "closed"
       /\ UNCHANGED <<breaker, history>>
    \/ /\ state = "open" /\ cooled
       /\ state' = "halfOpen"
       /\ successes' = 0
       /\ inFlight' = 0
       /\ probe' = {u} /\ leaked' = 0 /\ sinceCooled' = sinceCooled + 1
       /\ UNCHANGED <<failureCount, cooled>>
    \/ /\ state = "halfOpen" /\ inFlight < HalfOpenMaxInFlight
       /\ inFlight' = inFlight + 1
       /\ probe' = probe \cup {u} /\ sinceCooled' = sinceCooled + 1
       /\ UNCHANGED <<state, failureCount, successes, cooled, leaked>>

(* tryAcquire returns true.  In open it first goes to half-open, where no   *)
(* slot is taken yet.                                                       *)
Acquire(u) ==
    \/ /\ state = "closed"
       /\ UNCHANGED <<breaker, history>>
    \/ /\ state = "open" /\ cooled
       /\ state' = "halfOpen"
       /\ successes' = 0
       /\ inFlight' = 1
       /\ probe' = {u} /\ leaked' = 0 /\ sinceCooled' = sinceCooled + 1
       /\ UNCHANGED <<failureCount, cooled>>
    \/ /\ state = "halfOpen" /\ inFlight < HalfOpenMaxInFlight
       /\ inFlight' = inFlight + 1
       /\ probe' = probe \cup {u} /\ sinceCooled' = sinceCooled + 1
       /\ UNCHANGED <<state, failureCount, successes, cooled, leaked>>

Refuses ==
    \/ state = "open" /\ ~cooled
    \/ state = "halfOpen" /\ inFlight >= HalfOpenMaxInFlight

(* Seeded fault: off by one, the last success needed is not enough.         *)
RecordSuccessOneMore ==
    \/ /\ state = "closed"
       /\ failureCount' = 0
       /\ UNCHANGED <<state, successes, inFlight, cooled, history>>
    \/ /\ state = "open"
       /\ UNCHANGED <<breaker, history>>
    \/ /\ state = "halfOpen"
       /\ IF successes + 1 > HalfOpenSuccessCount
          THEN TransitionToClosed
          ELSE /\ successes' = successes + 1
               /\ inFlight' = IF inFlight > 0 THEN inFlight - 1 ELSE 0
               /\ UNCHANGED <<state, failureCount, cooled, history>>

RecordSuccess ==
    \/ /\ state = "closed"
       /\ failureCount' = 0
       /\ UNCHANGED <<state, successes, inFlight, cooled, history>>
    \/ /\ state = "open"
       /\ UNCHANGED <<breaker, history>>
    \/ /\ state = "halfOpen"
       /\ IF successes + 1 >= HalfOpenSuccessCount
          THEN TransitionToClosed
          ELSE /\ successes' = successes + 1
               /\ inFlight' = IF inFlight > 0 THEN inFlight - 1 ELSE 0
               /\ UNCHANGED <<state, failureCount, cooled, history>>

(* Of a failure that isRetryableFailure.                                    *)
RecordFailure ==
    \/ /\ state = "closed"
       /\ failureCount' = failureCount + 1
       /\ IF failureCount' >= FailureThreshold
          THEN TransitionToOpen
          ELSE UNCHANGED <<state, cooled, history>>
       /\ UNCHANGED <<successes, inFlight>>
    \/ /\ state = "open"
       /\ UNCHANGED <<breaker, history>>
    \/ /\ state = "halfOpen"
       /\ inFlight' = IF inFlight > 0 THEN inFlight - 1 ELSE 0
       /\ TransitionToOpen
       /\ UNCHANGED <<failureCount, successes>>

(* Nothing is recorded: recordFailure returns at once for a cancelled       *)
(* upload and for any other failure that is not retryable, and is not       *)
(* called when something throws past the guard.  If u is the probe its slot *)
(* stays taken.                                                             *)
Unrecorded(u) ==
    /\ leaked' = IF u \in probe THEN leaked + 1 ELSE leaked
    /\ probe' = probe \ {u}
    /\ UNCHANGED <<breaker, sinceCooled>>

-----------------------------------------------------------------------------
(* One upload.                                                              *)

Ends(u) == upload' = [upload EXCEPT ![u] = Idle]

(* uploadToDestination up to the first attempt.  A call that is cancelled,  *)
(* not licensed or without a readable configuration returns before the      *)
(* guard and changes nothing.                                               *)
Start(u) ==
    /\ upload[u].pc = "idle"
    /\ Acquire(u)
    /\ upload' = [upload EXCEPT ![u] =
                    [pc |-> "sending", attempt |-> 1, cancelled |-> FALSE]]

(* "circuit breaker aberto": the caller is told, the breaker is as it was.  *)
StartRefused(u) ==
    /\ upload[u].pc = "idle"
    /\ Refuses
    /\ UNCHANGED vars

(* The user cancels the backup, or the scheduler's upload timeout expires.  *)
GiveUp(u) ==
    /\ Active(u)
    /\ ~upload[u].cancelled
    /\ upload' = [upload EXCEPT ![u].cancelled = TRUE]
    /\ UNCHANGED <<breaker, history>>

Sent(u) ==
    /\ upload[u].pc = "sending"
    /\ RecordSuccess
    /\ Ends(u)

(* A retryable failure: wait and try again, or give the failure back.       *)
AttemptFails(u) ==
    /\ upload[u].pc = "sending"
    /\ IF upload[u].attempt < MaxAttempts
       THEN /\ upload' = [upload EXCEPT ![u].pc = "backoff"]
            /\ UNCHANGED <<breaker, history>>
       ELSE RecordFailure /\ Ends(u)

(* A failure that is not retryable is not tried again.  Or something threw, *)
(* the configuration's fromJson or the operation itself: uploadToDestination *)
(* catches it, past the breaker.                                            *)
AttemptFailsForGood(u) ==
    /\ upload[u].pc = "sending"
    /\ Unrecorded(u)
    /\ Ends(u)

(* The upload notices that it was cancelled, while sending or in the wait.  *)
CancelNoticed(u) ==
    /\ Active(u)
    /\ upload[u].cancelled
    /\ Unrecorded(u)
    /\ Ends(u)

BackoffEnds(u) ==
    /\ upload[u].pc = "backoff"
    /\ ~upload[u].cancelled
    /\ upload' = [upload EXCEPT ![u].pc = "sending", ![u].attempt = @ + 1]
    /\ UNCHANGED <<breaker, history>>

CoolsDown ==
    /\ state = "open" /\ ~cooled
    /\ cooled' = TRUE
    /\ UNCHANGED <<state, failureCount, successes, inFlight, upload, history>>

Proceeds(u) ==
    \/ Sent(u) \/ AttemptFails(u) \/ AttemptFailsForGood(u)
    \/ CancelNoticed(u) \/ BackoffEnds(u)

Next ==
    \/ CoolsDown
    \/ \E u \in Uploads : Start(u) \/ StartRefused(u) \/ GiveUp(u) \/ Proceeds(u)

Spec == Init /\ [][Next]_vars

(* Time passes, and what an upload waits for comes: every destination       *)
(* service has timeouts, and the wait between attempts is bounded.  Nobody  *)
(* has to start an upload or to cancel one.                                 *)
Fairness == WF_vars(CoolsDown) /\ \A u \in Uploads : WF_vars(Proceeds(u))

FairSpec == Spec /\ Fairness

-----------------------------------------------------------------------------
(* Properties.                                                              *)

TypeOK ==
    /\ state \in {"closed", "open", "halfOpen"}
    /\ failureCount \in 0 .. FailureThreshold
    /\ successes \in 0 .. HalfOpenSuccessCount
    /\ inFlight \in 0 .. HalfOpenMaxInFlight
    /\ cooled \in BOOLEAN
    /\ upload \in [Uploads -> [pc : {"idle", "sending", "backoff"},
                               attempt : 0 .. MaxAttempts, cancelled : BOOLEAN]]
    /\ probe \subseteq Uploads
    /\ leaked \in Nat
    /\ sinceCooled \in Nat

(* What the breaker is for: while it is not closed, a destination gets at   *)
(* most one upload per cooldown, whatever results of older uploads come     *)
(* back meanwhile and whatever order they come in (tryAcquire, recordX).    *)
OneProbePerCooldown == state # "closed" => sinceCooled <= 1

(* The slot of half-open is never lost nor given twice but by an upload     *)
(* that ends without a record: it is taken exactly as long as the probe of  *)
(* this period is under way, unless that has leaked it.                     *)
SlotAccounted ==
    state = "halfOpen" =>
        /\ inFlight = Cardinality(probe) + leaked
        /\ \A u \in probe : Active(u)

(* A test of the destination comes to an end: half-open is left, to closed  *)
(* or to open, unless the probe leaked its slot.  Attempts are bounded and  *)
(* waits end, so the probe gives a result.                                  *)
ProbeEnds == (state = "halfOpen" /\ leaked = 0) ~> (state # "halfOpen" \/ leaked > 0)

(* The comment of tryAcquire (circuit_breaker.dart 56-58): the slot "deve   *)
(* ser liberado depois via recordSuccess/recordFailure".  With no upload    *)
(* under way the slot is free.                                              *)
SlotIsReleased ==
    state = "halfOpen" /\ (\A u \in Uploads : ~Active(u)) => inFlight = 0
=============================================================================
