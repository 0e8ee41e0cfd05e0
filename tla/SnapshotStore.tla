---------------------------- MODULE SnapshotStore ----------------------------
(***************************************************************************)
(* The daemon's synchronous queue store over an asynchronous backend       *)
(* (src/controller/snapshot-adapter.ts) and the PostgreSQL row behind it   *)
(* (src/state/postgres.ts): save() returns at once, whole snapshots are    *)
(* persisted one after the other, a persist may fail before or after the   *)
(* commit, and a crash loses everything but the row.                       *)
(*                                                                         *)
(* A snapshot is the number of the save that produced it, so that a larger *)
(* number is a later state of the queue.                                   *)
(***************************************************************************)
EXTENDS Integers, Sequences

CONSTANTS
  MaxSaves,    \* bound: snapshots handed to save()
  MaxFaults,   \* bound: persists that reject
  MaxCrashes   \* bound: process crashes

ASSUME BoundAssumption == MaxSaves \in Nat /\ MaxFaults \in Nat /\ MaxCrashes \in Nat

VARIABLES
  phase,       \* where the process is in its life
  memory,      \* the snapshot of the controller's own record map
  cache,       \* what load() answers
  durable,     \* the last snapshot the backend acknowledged
  chain,       \* the promise chain: snapshots whose persist has not settled
  committed,   \* whether the head of the chain is committed, not yet settled
  latched,     \* whether latchedError is set
  awaited,     \* the last snapshot a pending flush() waits for
  table,       \* the snapshot in the backend's row
  saves,       \* saves so far
  faults,      \* rejected persists so far
  crashes      \* crashes so far

vars == <<phase, memory, cache, durable, chain, committed, latched, awaited,
          table, saves, faults, crashes>>

\* A process is "failed" once flush() rejected its stop(), "stopped" once it
\* resolved; late publish continuations may still save until it exits.
Alive == phase \in {"up", "flushing", "stopped", "failed"}

pending == chain # <<>>

-----------------------------------------------------------------------------
\* createSnapshotBackedQueueStore awaits the row; the controller adopts it.
Start ==
  /\ phase = "down"
  /\ phase' = "up"
  /\ memory' = table /\ cache' = table /\ durable' = table
  /\ chain' = <<>> /\ committed' = FALSE /\ latched' = FALSE
  /\ UNCHANGED <<awaited, table, saves, faults, crashes>>

\* save() of a valid snapshot; a malformed one is refused and changes nothing.
Save ==
  /\ Alive
  /\ saves < MaxSaves
  /\ saves' = saves + 1
  /\ memory' = saves'
  /\ cache' = saves'
  /\ chain' = Append(chain, saves')
  /\ UNCHANGED <<phase, durable, committed, latched, awaited, table, faults, crashes>>

\* The persist under way: the chain starts one only when the one before settled.
Persisting == Head(chain)

\* Mutant: persists are not serialized.
CommitAny ==
  /\ Alive /\ pending /\ ~committed
  /\ \E i \in DOMAIN chain : table' = chain[i]
  /\ committed' = TRUE
  /\ UNCHANGED <<phase, memory, cache, durable, chain, latched, awaited, saves,
                 faults, crashes>>

Commit ==
  /\ Alive /\ pending /\ ~committed
  /\ table' = Persisting
  /\ committed' = TRUE
  /\ UNCHANGED <<phase, memory, cache, durable, chain, latched, awaited, saves,
                 faults, crashes>>

\* Mutant: the newest snapshot is taken for the one that was persisted.
PersistResolvesNewest ==
  /\ Alive /\ pending /\ committed
  /\ durable' = cache
  /\ latched' = FALSE
  /\ chain' = Tail(chain)
  /\ committed' = FALSE
  /\ UNCHANGED <<phase, memory, cache, awaited, table, saves, faults, crashes>>

PersistResolves ==
  /\ Alive /\ pending /\ committed
  /\ durable' = Persisting
  /\ latched' = FALSE
  /\ chain' = Tail(chain)
  /\ committed' = FALSE
  /\ UNCHANGED <<phase, memory, cache, awaited, table, saves, faults, crashes>>

\* Mutant: a rejected persist is not latched.
PersistRejectsSilently ==
  /\ Alive /\ pending
  /\ faults < MaxFaults
  /\ faults' = faults + 1
  /\ cache' = durable
  /\ chain' = Tail(chain)
  /\ committed' = FALSE
  /\ UNCHANGED <<phase, memory, durable, latched, awaited, table, saves, crashes>>

\* The persist rejects, with its commit rolled back or, when only the answer
\* was lost, in place: the cache falls back to the last acknowledged snapshot.
PersistRejects ==
  /\ Alive /\ pending
  /\ faults < MaxFaults
  /\ faults' = faults + 1
  /\ latched' = TRUE
  /\ cache' = durable
  /\ chain' = Tail(chain)
  /\ committed' = FALSE
  /\ UNCHANGED <<phase, memory, durable, awaited, table, saves, crashes>>

\* flush() in stop(): awaits the chain as it is now, then reads the latch.
Flush ==
  /\ phase = "up"
  /\ phase' = "flushing"
  /\ awaited' = memory
  /\ UNCHANGED <<memory, cache, durable, chain, committed, latched, table, saves,
                 faults, crashes>>

\* Mutant: flush() reads the latch without awaiting the chain.
FlushReturnsEarly ==
  /\ phase = "flushing"
  /\ phase' = IF latched THEN "failed" ELSE "stopped"
  /\ UNCHANGED <<memory, cache, durable, chain, committed, latched, awaited, table,
                 saves, faults, crashes>>

FlushReturns ==
  /\ phase = "flushing"
  /\ pending => Persisting > awaited
  /\ phase' = IF latched THEN "failed" ELSE "stopped"
  /\ UNCHANGED <<memory, cache, durable, chain, committed, latched, awaited, table,
                 saves, faults, crashes>>

Die ==
  /\ phase' = "down"
  /\ UNCHANGED <<memory, cache, durable, chain, committed, latched, awaited, table,
                 saves, faults>>

Exit == phase \in {"stopped", "failed"} /\ Die /\ UNCHANGED crashes

Crash == Alive /\ crashes < MaxCrashes /\ Die /\ crashes' = crashes + 1

-----------------------------------------------------------------------------
Init ==
  /\ phase = "down"
  /\ memory = 0 /\ cache = 0 /\ durable = 0 /\ table = 0
  /\ chain = <<>> /\ committed = FALSE /\ latched = FALSE
  /\ awaited = 0
  /\ saves = 0 /\ faults = 0 /\ crashes = 0

Next ==
  \/ Start
  \/ Save
  \/ Commit
  \/ PersistResolves
  \/ PersistRejects
  \/ Flush
  \/ FlushReturns
  \/ Exit
  \/ Crash

Spec == Init /\ [][Next]_vars

-----------------------------------------------------------------------------
(* Properties *)

\* When the adapter reports health (no latched error, nothing pending), a
\* restart recovers exactly the state the scheduler is in.
HealthyMeansDurable ==
  Alive /\ ~pending /\ ~latched => table = memory

\* What the adapter believes durable never runs ahead of the row, and while no
\* failure is latched it is the row, but for a commit still to be answered.
BeliefMatchesBackend ==
  Alive => /\ durable <= table
           /\ ~latched /\ ~committed => durable = table

\* Overlapping saves, failures and restarts never put an older snapshot over a
\* newer one (the single promise chain).
NeverGoesBack == [][table' >= table]_vars

\* A flush that resolves proves that everything saved before it is in the row,
\* also when later saves are still in flight.
FlushProves ==
  [][phase = "flushing" /\ phase' = "stopped" => table >= awaited]_vars

\* Violated: load() answers the last snapshot believed durable once nothing is
\* in flight (snapshot-adapter.ts, "Cache == durable truth"). A rejected persist
\* drops the cache of a later save that is still in flight and then succeeds.
CacheIsDurableTruth ==
  Alive /\ ~pending /\ ~latched => cache = durable
=============================================================================
