------------------------- MODULE IdempotencyRegistry --------------------------
(***************************************************************************)
(* IdempotencyRegistry.runIdempotent: clients send a request again when    *)
(* they lost the answer, with the same key, and the server answers what it *)
(* answered before.  Answers are kept in memory (`entries`, from the       *)
(* moment a computation starts) and, where a store is configured, in the   *)
(* table idempotency_entries (`rows`, once it succeeded).  The table is    *)
(* read with an await between the lookup in memory and the new entry.      *)
(*                                                                         *)
(* An answer is named by the call that computed it.                        *)
(***************************************************************************)
EXTENDS FiniteSets, Integers

CONSTANTS Calls,         \* invocations of runIdempotent with a key
          Keys,
          KeyOf,         \* idempotencyKey
          NoCall,
          MaxRestarts    \* bound: number of crashes of the process

ASSUME IdempotencyAssumption ==
  /\ KeyOf \in [Calls -> Keys]
  /\ NoCall \notin Calls
  /\ MaxRestarts \in Nat

VARIABLES entries,    \* _entries: whose completer a key has
          rows,       \* idempotency_entries: whose answer a key has
          stale,      \* keys whose entry passed expiresAt
          staleRows,  \* keys whose row passed expiresAt
          saves,      \* calls whose store.save, not awaited, is under way
          pc,         \* what a call awaits
          future,     \* whose completer a call awaits
          answer,     \* whose answer a call returned
          withStore,  \* _store is configured; never changes
          aged,       \* keys whose entry ever passed expiresAt
          restarts

environment == <<withStore, aged, restarts>>
vars == <<entries, rows, stale, staleRows, saves, pc, future, answer,
          environment>>

Waits == {"new", "loading", "deleting", "computing", "waiting", "done", "failed"}

Fresh(k) == entries[k] # NoCall /\ k \notin stale
Stored(k) == rows[k] # NoCall /\ k \notin staleRows

Goto(c, await) == pc' = [pc EXCEPT ![c] = await]
Returns(c, o) == Goto(c, "done") /\ answer' = [answer EXCEPT ![c] = o]

(* _entries[key] = ..., whatever it held. *)
NewEntry(c) ==
  /\ entries' = [entries EXCEPT ![KeyOf[c]] = c]
  /\ stale' = stale \ {KeyOf[c]}

(* _purgeExpired; the rows it also deletes count for nothing already.      *)
Purged == [k \in Keys |-> IF k \in stale THEN NoCall ELSE entries[k]]
-----------------------------------------------------------------------------
Init ==
  /\ entries = [k \in Keys |-> NoCall] /\ rows = [k \in Keys |-> NoCall]
  /\ stale = {} /\ staleRows = {} /\ saves = {}
  /\ pc = [c \in Calls |-> "new"] /\ future = [c \in Calls |-> NoCall]
  /\ answer = [c \in Calls |-> NoCall]
  /\ withStore \in BOOLEAN /\ aged = {} /\ restarts = 0

(* The key is known: the call awaits the completer of its entry. *)
Join(c) ==
  /\ pc[c] = "new" /\ Fresh(KeyOf[c])
  /\ entries' = Purged /\ stale' = {}
  /\ future' = [future EXCEPT ![c] = entries[KeyOf[c]]]
  /\ Goto(c, "waiting")
  /\ UNCHANGED <<rows, staleRows, saves, answer, environment>>

(* The key is not known: the call asks the store. *)
Lookup(c) ==
  /\ pc[c] = "new" /\ withStore /\ ~Fresh(KeyOf[c])
  /\ entries' = Purged /\ stale' = {}
  /\ Goto(c, "loading")
  /\ UNCHANGED <<rows, staleRows, saves, future, answer, environment>>

(* Seeded fault: the entry is not looked for. *)
ComputeUnlooked(c) ==
  /\ pc[c] = "new" /\ ~withStore
  /\ NewEntry(c)
  /\ Goto(c, "computing")
  /\ UNCHANGED <<rows, staleRows, saves, future, answer, environment>>

(* There is no store: the call computes at once. *)
Compute(c) ==
  /\ pc[c] = "new" /\ ~withStore /\ ~Fresh(KeyOf[c])
  /\ entries' = [Purged EXCEPT ![KeyOf[c]] = c] /\ stale' = {}
  /\ Goto(c, "computing")
  /\ UNCHANGED <<rows, staleRows, saves, future, answer, environment>>

(* loadValid gives the answer of an earlier computation. *)
Loaded(c) ==
  /\ pc[c] = "loading" /\ Stored(KeyOf[c])
  /\ Returns(c, rows[KeyOf[c]])
  /\ UNCHANGED <<entries, rows, stale, staleRows, saves, future, environment>>

(* loadValid gives nothing.  `existing` is not looked up again: the entry  *)
(* is replaced, whatever it is by now.                                     *)
ComputesAfterLoad(c) ==
  /\ NewEntry(c)
  /\ Goto(c, "computing")
  /\ UNCHANGED <<saves, future, answer, environment>>

(* There is no row, or an expired one that _purgeExpired deletes in time.  *)
NotStored(c) ==
  /\ pc[c] = "loading" /\ ~Stored(KeyOf[c])
  /\ rows' = [rows EXCEPT ![KeyOf[c]] = NoCall]
  /\ staleRows' = staleRows \ {KeyOf[c]}
  /\ ComputesAfterLoad(c)

(* The row expired: loadValid deletes the row of the key ... *)
FoundStale(c) ==
  /\ pc[c] = "loading" /\ KeyOf[c] \in staleRows
  /\ Goto(c, "deleting")
  /\ UNCHANGED <<entries, rows, stale, staleRows, saves, future, answer,
                 environment>>

(* ... which may be the one of a newer answer by then. *)
StaleDeleted(c) ==
  /\ pc[c] = "deleting"
  /\ rows' = [rows EXCEPT ![KeyOf[c]] = NoCall]
  /\ staleRows' = staleRows \ {KeyOf[c]}
  /\ ComputesAfterLoad(c)

(* The table cannot be read: the call fails before it has an entry. *)
LoadThrows(c) ==
  /\ pc[c] \in {"loading", "deleting"}
  /\ Goto(c, "failed")
  /\ UNCHANGED <<entries, rows, stale, staleRows, saves, future, answer,
                 environment>>

Computed(c) ==
  /\ pc[c] = "computing"
  /\ Returns(c, c)
  /\ saves' = IF withStore THEN saves \cup {c} ELSE saves
  /\ UNCHANGED <<entries, rows, stale, staleRows, future, environment>>

(* Seeded fault: the entry of a failed computation stays. *)
ComputeFailedKept(c) ==
  /\ pc[c] = "computing"
  /\ Goto(c, "failed")
  /\ UNCHANGED <<entries, stale, rows, staleRows, saves, future, answer,
                 environment>>

(* Seeded fault: the error is saved like an answer. *)
ComputeFailedSaved(c) ==
  /\ pc[c] = "computing"
  /\ entries' = [entries EXCEPT ![KeyOf[c]] = NoCall]
  /\ stale' = stale \ {KeyOf[c]}
  /\ saves' = IF withStore THEN saves \cup {c} ELSE saves
  /\ Goto(c, "failed")
  /\ UNCHANGED <<rows, staleRows, future, answer, environment>>

(* A failure is not kept: the entry of the key is removed, also when it is *)
(* the one of another call by now.                                         *)
ComputeFailed(c) ==
  /\ pc[c] = "computing"
  /\ entries' = [entries EXCEPT ![KeyOf[c]] = NoCall]
  /\ stale' = stale \ {KeyOf[c]}
  /\ Goto(c, "failed")
  /\ UNCHANGED <<rows, staleRows, saves, future, answer, environment>>

(* Seeded fault: completeError is left out. *)
AnsweredOnSuccess(c) ==
  /\ pc[c] = "waiting" /\ pc[future[c]] = "done"
  /\ Returns(c, future[c])
  /\ UNCHANGED <<entries, rows, stale, staleRows, saves, future, environment>>

(* The completer a call awaits completes, with the answer or the error. *)
Answered(c) ==
  /\ pc[c] = "waiting"
  /\ \/ pc[future[c]] = "done" /\ Returns(c, future[c])
     \/ pc[future[c]] = "failed" /\ Goto(c, "failed") /\ UNCHANGED answer
  /\ UNCHANGED <<entries, rows, stale, staleRows, saves, future, environment>>

(* Seeded fault: the arguments of save are swapped. *)
SaveKey(c) ==
  /\ c \in saves
  /\ saves' = saves \ {c}
  /\ rows' = [rows EXCEPT ![KeyOf[c]] = KeyOf[c]]
  /\ staleRows' = staleRows \ {KeyOf[c]}
  /\ UNCHANGED <<entries, stale, pc, future, answer, environment>>

(* store.save replaces the row, or fails, which nobody notices. *)
Save(c) ==
  /\ c \in saves
  /\ saves' = saves \ {c}
  /\ \/ /\ rows' = [rows EXCEPT ![KeyOf[c]] = c]
        /\ staleRows' = staleRows \ {KeyOf[c]}
     \/ UNCHANGED <<rows, staleRows>>
  /\ UNCHANGED <<entries, stale, pc, future, answer, environment>>

TtlPasses(k) ==
  /\ \/ /\ Fresh(k)
        /\ stale' = stale \cup {k} /\ aged' = aged \cup {k}
        /\ UNCHANGED staleRows
     \/ /\ Stored(k)
        /\ staleRows' = staleRows \cup {k}
        /\ UNCHANGED <<stale, aged>>
  /\ UNCHANGED <<entries, rows, saves, pc, future, answer, withStore, restarts>>

(* Memory is gone, and with it the calls under way and the saves that had  *)
(* not reached the table.                                                  *)
Restart ==
  /\ restarts < MaxRestarts
  /\ restarts' = restarts + 1
  /\ entries' = [k \in Keys |-> NoCall] /\ stale' = {} /\ saves' = {}
  /\ pc' = [c \in Calls |-> IF pc[c] \in {"loading", "deleting", "computing",
                                          "waiting"}
                            THEN "failed" ELSE pc[c]]
  /\ UNCHANGED <<rows, staleRows, future, answer, withStore, aged>>

Resumes(c) ==
  \/ Loaded(c) \/ NotStored(c) \/ FoundStale(c) \/ StaleDeleted(c)
  \/ LoadThrows(c) \/ Computed(c) \/ ComputeFailed(c) \/ Answered(c)

Next ==
  \/ \E c \in Calls : Join(c) \/ Lookup(c) \/ Compute(c) \/ Resumes(c)
                              \/ Save(c)
  \/ \E k \in Keys : TtlPasses(k)
  \/ Restart

Spec == Init /\ [][Next]_vars

(* What a call awaits comes. *)
FairSpec == Spec /\ \A c \in Calls : WF_vars(Resumes(c))
-----------------------------------------------------------------------------
TypeOK ==
  /\ entries \in [Keys -> Calls \cup {NoCall}]
  /\ rows \in [Keys -> Calls \cup {NoCall}]
  /\ stale \subseteq Keys /\ staleRows \subseteq Keys
  /\ saves \subseteq Calls
  /\ pc \in [Calls -> Waits]
  /\ future \in [Calls -> Calls \cup {NoCall}]
  /\ answer \in [Calls -> Calls \cup {NoCall}]
  /\ withStore \in BOOLEAN /\ aged \subseteq Keys
  /\ restarts \in 0..MaxRestarts

(* "fail-NO-cache": whatever calls of the same key overtake one another,   *)
(* and whoever's entry a failure removes, a new call never joins a         *)
(* computation that failed, so a failure can always be tried again.        *)
FailureNotKept ==
  \A k \in Keys : Fresh(k) => pc[entries[k]] \in {"computing", "done"}

(* An answer that is returned, or kept in the table, is the one of a       *)
(* computation for the same key that succeeded.                            *)
AnswersAreComputed ==
  /\ \A c \in Calls : pc[c] = "done" =>
       /\ answer[c] # NoCall
       /\ KeyOf[answer[c]] = KeyOf[c] /\ answer[answer[c]] = answer[c]
  /\ \A k \in Keys : rows[k] # NoCall =>
       KeyOf[rows[k]] = k /\ answer[rows[k]] = rows[k]

(* Nobody waits for ever for the answer of another call. *)
CallsReturn == \A c \in Calls : pc[c] = "waiting" ~> pc[c] \in {"done", "failed"}

Computes(c) == pc[c] = "computing" \/ (pc[c] = "done" /\ answer[c] = c)

(* Requests with the same key share one computation: a second one runs     *)
(* only when the first one failed, the TTL passed or the process died.     *)
ComputeOnce ==
  \A c, d \in Calls :
    KeyOf[c] = KeyOf[d] /\ KeyOf[c] \notin aged /\ restarts = 0
      /\ Computes(c) /\ Computes(d) => c = d

(* Without a store nothing is awaited between the lookup and the new entry *)
(* and the promise is kept.                                                *)
MemoryComputesOnce == ~withStore => ComputeOnce
=============================================================================
