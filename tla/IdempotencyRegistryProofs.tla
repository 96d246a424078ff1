---------------------- MODULE IdempotencyRegistryProofs -----------------------
(***************************************************************************)
(* What IdempotencyRegistry guarantees for every number of calls and keys, *)
(* with and without a store.                                               *)
(***************************************************************************)
EXTENDS IdempotencyRegistry, TLAPS

USE DEF Waits, environment

(* FailureNotKept is inductive once it is said whose entry a key has.      *)
EntryInv ==
  /\ TypeOK
  /\ \A k \in Keys : entries[k] # NoCall =>
       KeyOf[entries[k]] = k /\ pc[entries[k]] \in {"computing", "done"}

(* Without a store, the entry of a key is the call that computes or        *)
(* computed it, as long as the TTL and crashes leave the entry alone.      *)
OnceInv ==
  /\ EntryInv
  /\ stale \subseteq aged
  /\ ~withStore => \A c \in Calls :
       /\ Computes(c) /\ KeyOf[c] \notin aged /\ restarts = 0
            => entries[KeyOf[c]] = c
       /\ pc[c] \notin {"loading", "deleting"}

(* A call that computed its own answer: nothing takes that away from it.   *)
Owns(c) == pc[c] = "done" /\ answer[c] = c

(* AnswersAreComputed is inductive once it is said that every way an       *)
(* answer may travel, through the entry, the completer, the pending save   *)
(* or the table, starts at a call that computes or computed it itself.     *)
AnswerInv ==
  /\ EntryInv
  /\ \A k \in Keys : entries[k] # NoCall =>
       pc[entries[k]] = "computing" \/ Owns(entries[k])
  /\ \A c \in Calls : pc[c] = "waiting" =>
       /\ future[c] \in Calls /\ KeyOf[future[c]] = KeyOf[c]
       /\ pc[future[c]] \in {"computing", "failed"} \/ Owns(future[c])
  /\ \A c \in saves : Owns(c)
  /\ \A k \in Keys : rows[k] # NoCall => Owns(rows[k]) /\ KeyOf[rows[k]] = k
  /\ \A c \in Calls : pc[c] = "done" =>
       /\ answer[c] \in Calls
       /\ Owns(answer[c]) /\ KeyOf[answer[c]] = KeyOf[c]

LEMMA EntryInit == Init => EntryInv
BY IdempotencyAssumption DEF Init, EntryInv, TypeOK

LEMMA EntryStep == EntryInv /\ [Next]_vars => EntryInv'
<1> SUFFICES ASSUME EntryInv, [Next]_vars PROVE EntryInv'
  OBVIOUS
<1> USE IdempotencyAssumption DEF EntryInv, TypeOK, Goto
<1>1. ASSUME NEW c \in Calls, Join(c) PROVE EntryInv'
  BY <1>1 DEF Join, Purged, Fresh
<1>2. ASSUME NEW c \in Calls, Lookup(c) PROVE EntryInv'
  BY <1>2 DEF Lookup, Purged, Fresh
<1>3. ASSUME NEW c \in Calls, Compute(c) PROVE EntryInv'
  BY <1>3 DEF Compute, Purged, Fresh
<1>4. ASSUME NEW c \in Calls, Loaded(c) PROVE EntryInv'
  BY <1>4 DEF Loaded, Returns, Stored
<1>5. ASSUME NEW c \in Calls, NotStored(c) PROVE EntryInv'
  BY <1>5 DEF NotStored, ComputesAfterLoad, NewEntry
<1>6. ASSUME NEW c \in Calls, FoundStale(c) PROVE EntryInv'
  BY <1>6 DEF FoundStale
<1>7. ASSUME NEW c \in Calls, StaleDeleted(c) PROVE EntryInv'
  BY <1>7 DEF StaleDeleted, ComputesAfterLoad, NewEntry
<1>8. ASSUME NEW c \in Calls, LoadThrows(c) PROVE EntryInv'
  BY <1>8 DEF LoadThrows
<1>9. ASSUME NEW c \in Calls, Computed(c) PROVE EntryInv'
  BY <1>9 DEF Computed, Returns
<1>10. ASSUME NEW c \in Calls, ComputeFailed(c) PROVE EntryInv'
  BY <1>10 DEF ComputeFailed
<1>11. ASSUME NEW c \in Calls, Answered(c) PROVE EntryInv'
  BY <1>11 DEF Answered, Returns
<1>12. ASSUME NEW c \in Calls, Save(c) PROVE EntryInv'
  BY <1>12 DEF Save
<1>13. ASSUME NEW k \in Keys, TtlPasses(k) PROVE EntryInv'
  BY <1>13 DEF TtlPasses
<1>14. CASE Restart
  <2>1. restarts' \in 0..MaxRestarts
    BY <1>14 DEF Restart
  <2> QED BY <1>14, <2>1 DEF Restart
<1>15. CASE UNCHANGED vars
  BY <1>15 DEF vars
<1> QED
  BY <1>1, <1>2, <1>3, <1>4, <1>5, <1>6, <1>7, <1>8, <1>9, <1>10, <1>11,
     <1>12, <1>13, <1>14, <1>15 DEF Next, Resumes

(* Every variable of the registry keeps its type; an entry, a row, a       *)
(* completer and an answer name a call or nothing.                         *)
THEOREM IdempotencyTypeCorrect == Spec => []TypeOK
<1>1. EntryInv => TypeOK
  BY DEF EntryInv
<1> QED
  BY EntryInit, EntryStep, <1>1, PTL DEF Spec

(* Nobody joins a computation that failed ("fail-NO-cache"), however many  *)
(* calls overtake one another between lookup, store and completion.        *)
THEOREM FailedIsRetried == Spec => []FailureNotKept
<1>1. EntryInv => FailureNotKept
  BY DEF EntryInv, FailureNotKept, Fresh
<1> QED
  BY EntryInit, EntryStep, <1>1, PTL DEF Spec

LEMMA OnceInit == Init => OnceInv
BY EntryInit DEF Init, OnceInv, Computes

LEMMA OnceStep == OnceInv /\ [Next]_vars => OnceInv'
<1> SUFFICES ASSUME OnceInv, [Next]_vars PROVE OnceInv'
  OBVIOUS
<1> USE IdempotencyAssumption DEF OnceInv, Goto, Computes
<1>0. EntryInv' /\ TypeOK /\ TypeOK'
  BY EntryStep DEF EntryInv
<1>1. ASSUME NEW c \in Calls, Join(c) PROVE OnceInv'
  BY <1>0, <1>1 DEF EntryInv, TypeOK, Join, Purged, Fresh
<1>2. ASSUME NEW c \in Calls, Lookup(c) PROVE OnceInv'
  BY <1>0, <1>2 DEF Lookup, TypeOK
<1>3. ASSUME NEW c \in Calls, Compute(c) PROVE OnceInv'
  BY <1>0, <1>3 DEF EntryInv, TypeOK, Compute, Purged, Fresh
<1>4. ASSUME NEW c \in Calls,
             Loaded(c) \/ NotStored(c) \/ FoundStale(c) \/ StaleDeleted(c)
               \/ LoadThrows(c)
      PROVE OnceInv'
  <2>1. withStore /\ withStore'
    BY <1>0, <1>4 DEF Loaded, NotStored, FoundStale, StaleDeleted, LoadThrows,
                      ComputesAfterLoad, TypeOK
  <2>2. stale' \subseteq aged'
    BY <1>4 DEF Loaded, NotStored, FoundStale, StaleDeleted, LoadThrows,
                ComputesAfterLoad, NewEntry
  <2> QED BY <1>0, <2>1, <2>2
<1>5. ASSUME NEW c \in Calls, Computed(c) PROVE OnceInv'
  BY <1>0, <1>5 DEF TypeOK, Computed, Returns
<1>6. ASSUME NEW c \in Calls, ComputeFailed(c) PROVE OnceInv'
  BY <1>0, <1>6 DEF TypeOK, ComputeFailed
<1>7. ASSUME NEW c \in Calls, Answered(c) PROVE OnceInv'
  BY <1>0, <1>7 DEF TypeOK, Answered, Returns
<1>8. ASSUME NEW c \in Calls, Save(c) PROVE OnceInv'
  BY <1>0, <1>8 DEF TypeOK, Save
<1>9. ASSUME NEW k \in Keys, TtlPasses(k) PROVE OnceInv'
  BY <1>0, <1>9 DEF TypeOK, TtlPasses
<1>10. CASE Restart
  <2>1. restarts' # 0
    BY <1>0, <1>10 DEF TypeOK, Restart
  <2> QED BY <1>0, <1>10, <2>1 DEF TypeOK, Restart
<1>11. CASE UNCHANGED vars
  BY <1>0, <1>11 DEF vars
<1> QED
  BY <1>1, <1>2, <1>3, <1>4, <1>5, <1>6, <1>7, <1>8, <1>9, <1>10, <1>11
     DEF Next, Resumes

(* Where answers are kept in memory alone, all requests with one key share *)
(* one computation, the second one running only after the first one failed *)
(* or was lost to the TTL or a crash.  With a store the statement is       *)
(* false: see the run that violates ComputeOnce.                           *)
THEOREM SharedComputation == Spec => []MemoryComputesOnce
<1>1. OnceInv => MemoryComputesOnce
  BY DEF OnceInv, MemoryComputesOnce, ComputeOnce
<1> QED
  BY OnceInit, OnceStep, <1>1, PTL DEF Spec
-----------------------------------------------------------------------------
LEMMA AnswerInit == Init => AnswerInv
BY EntryInit, IdempotencyAssumption DEF Init, AnswerInv

LEMMA AnswerStep == AnswerInv /\ [Next]_vars => AnswerInv'
<1> SUFFICES ASSUME AnswerInv, [Next]_vars PROVE AnswerInv'
  OBVIOUS
<1> USE IdempotencyAssumption DEF AnswerInv, Goto, Owns
<1>0. EntryInv' /\ TypeOK /\ TypeOK'
  BY EntryStep DEF EntryInv
<1>1. ASSUME NEW c \in Calls, Join(c) PROVE AnswerInv'
  BY <1>0, <1>1 DEF EntryInv, TypeOK, Join, Purged, Fresh
<1>2. ASSUME NEW c \in Calls, Lookup(c) PROVE AnswerInv'
  BY <1>0, <1>2 DEF TypeOK, Lookup, Purged
<1>3. ASSUME NEW c \in Calls, Compute(c) PROVE AnswerInv'
  BY <1>0, <1>3 DEF TypeOK, Compute, Purged
<1>4. ASSUME NEW c \in Calls, Loaded(c) PROVE AnswerInv'
  BY <1>0, <1>4 DEF TypeOK, Loaded, Returns, Stored
<1>5. ASSUME NEW c \in Calls, NotStored(c) \/ StaleDeleted(c) PROVE AnswerInv'
  BY <1>0, <1>5 DEF TypeOK, NotStored, StaleDeleted, ComputesAfterLoad, NewEntry
<1>6. ASSUME NEW c \in Calls, FoundStale(c) \/ LoadThrows(c) PROVE AnswerInv'
  BY <1>0, <1>6 DEF TypeOK, FoundStale, LoadThrows
<1>7. ASSUME NEW c \in Calls, Computed(c) PROVE AnswerInv'
  BY <1>0, <1>7 DEF TypeOK, Computed, Returns
<1>8. ASSUME NEW c \in Calls, ComputeFailed(c) PROVE AnswerInv'
  BY <1>0, <1>8 DEF TypeOK, EntryInv, ComputeFailed
<1>9. ASSUME NEW c \in Calls, Answered(c) PROVE AnswerInv'
  BY <1>0, <1>9 DEF TypeOK, Answered, Returns
<1>10. ASSUME NEW c \in Calls, Save(c) PROVE AnswerInv'
  BY <1>0, <1>10 DEF TypeOK, Save
<1>11. ASSUME NEW k \in Keys, TtlPasses(k) PROVE AnswerInv'
  BY <1>0, <1>11 DEF TypeOK, TtlPasses
<1>12. CASE Restart
  BY <1>0, <1>12 DEF TypeOK, Restart
<1>13. CASE UNCHANGED vars
  BY <1>0, <1>13 DEF vars
<1> QED
  BY <1>1, <1>2, <1>3, <1>4, <1>5, <1>6, <1>7, <1>8, <1>9, <1>10, <1>11,
     <1>12, <1>13 DEF Next, Resumes

(* What a client is answered, at once, after waiting for another call, or  *)
(* from the table after a restart, was computed for its key by a call that *)
(* succeeded, whatever failures, expiries and crashes came in between.     *)
THEOREM AnswersAreTrue == Spec => []AnswersAreComputed
<1>1. AnswerInv => AnswersAreComputed
  BY IdempotencyAssumption DEF AnswerInv, AnswersAreComputed, Owns
<1> QED
  BY AnswerInit, AnswerStep, <1>1, PTL DEF Spec
=============================================================================
