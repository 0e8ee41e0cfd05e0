----------------------------- MODULE ReviewQueue -----------------------------
(***************************************************************************)
(* The durable review queue of the self-hosted controller                  *)
(* (src/queue/scheduler.ts, store.ts, types.ts): one ReviewQueueController *)
(* process over a durable snapshot store, the executor promises and the    *)
(* publish promises it has started, and the crashes and restarts between   *)
(* which only the snapshot survives.                                       *)
(*                                                                         *)
(* JavaScript runs a callback to completion, so every public operation and *)
(* every promise continuation of the controller is one action.             *)
(***************************************************************************)
EXTENDS Integers, FiniteSets

CONSTANTS
  Job,            \* generation ids; their order is the order of the jobId strings
  PrKeyOf,        \* prIdentityKey of a job
  DeadlineOf,     \* deadlineAtMs of a job, 0 = no deadline
  ScopeOf,        \* scopeKeyOf of a job
  ScopeLimitOf,   \* scopeLimitOf of a job's scope, 0 = unbounded
  MaxConcurrent,  \* global bound on worker slots
  SettleWindow,   \* debounce window of a fresh enqueue
  LeaseTtl,       \* lease duration
  MaxAttempts,    \* dispatches of one generation
  RetryBase,      \* backoff base
  RetryMax,       \* backoff cap
  HasPublisher,   \* whether a publication seam is configured
  MaxNow,         \* bound: last instant of the clock
  MaxCrashes,     \* bound: process crashes
  MaxSaveFaults   \* bound: saves that throw

ASSUME JobAssumption == Job \subseteq Nat \ {0} /\ IsFiniteSet(Job)
ASSUME DeadlineAssumption == DeadlineOf \in [Job -> Nat]
\* The limit is a function of the scope key (scheduler.ts 92, 541).
ASSUME ScopeAssumption ==
  /\ ScopeLimitOf \in [Job -> Nat]
  /\ \A j, k \in Job : ScopeOf[j] = ScopeOf[k] => ScopeLimitOf[j] = ScopeLimitOf[k]
ASSUME OptionsAssumption ==
  /\ MaxConcurrent \in Nat \ {0}
  /\ SettleWindow \in Nat
  /\ LeaseTtl \in Nat \ {0}
  /\ MaxAttempts \in Nat \ {0}
  /\ RetryBase \in Nat
  /\ RetryMax \in Nat
  /\ RetryBase <= RetryMax
  /\ HasPublisher \in BOOLEAN
ASSUME BoundAssumption ==
  /\ MaxNow \in Nat
  /\ MaxCrashes \in Nat
  /\ MaxSaveFaults \in Nat

VARIABLES
  records,            \* the controller's Map jobId -> JobRecord
  disk,               \* the snapshot the store holds
  phase,              \* where the process is in its life
  now,                \* the injected clock
  leaseTokenCounter,  \* dispatches of this process
  controllers,        \* token of the AbortController kept for a job, 0 = none
  runs,               \* executor promises not yet settled
  calls,              \* publisher promises not yet settled
  publishInFlight,    \* jobs whose publish slot is taken
  crashes,            \* crashes so far
  saveFaults          \* throwing saves so far

vars == <<records, disk, phase, now, leaseTokenCounter, controllers, runs,
          calls, publishInFlight, crashes, saveFaults>>

-----------------------------------------------------------------------------
(* Job records *)

Active   == {"starting", "running", "publishing"}
Terminal == {"completed", "failed", "cancelled", "superseded"}
Live     == {"queued"} \union Active
States   == {"absent"} \union Live \union Terminal

\* Lease owners: 0 is the empty string, a positive number the token of a
\* dispatch of some process, RecoveryOwner the token under which the daemon
\* adopts a worker that outlived the process that started it.
RecoveryOwner == -1
Owner == Nat \union {RecoveryOwner}

JobRecord ==
  [state : States, enqueuedAt : Nat, readyAt : Nat, attempt : 0..MaxAttempts,
   nextRetryAt : Nat, leaseOwner : Owner, leaseExpiresAt : Nat,
   cancelRequested : BOOLEAN, hasResult : BOOLEAN,
   supersededBy : Job \union {0}]

NoRecord ==
  [state |-> "absent", enqueuedAt |-> 0, readyAt |-> 0, attempt |-> 0,
   nextRetryAt |-> 0, leaseOwner |-> 0, leaseExpiresAt |-> 0,
   cancelRequested |-> FALSE, hasResult |-> FALSE, supersededBy |-> 0]

NewJobRecord ==
  [NoRecord EXCEPT !.state = "queued", !.enqueuedAt = now,
                   !.readyAt = now + SettleWindow]

EmptyQueue == [j \in Job |-> NoRecord]

\* Leaving a state that holds a lease always clears the lease with it.
Retired(r, state) ==
  [r EXCEPT !.state = state, !.leaseOwner = 0, !.leaseExpiresAt = 0]

SupersededRecord(r, by) == [Retired(r, "superseded") EXCEPT !.supersededBy = by]

HoldsResult(r) == r.state = "publishing" /\ r.hasResult

\* An active record that occupies its PR: publishing with the durable result
\* in hand is only a forge wait, not a worker.
HoldsWorker(r) == r.state \in Active /\ ~HoldsResult(r)

-----------------------------------------------------------------------------
(* The supersession gate *)

SamePr(j, k) == PrKeyOf[j] = PrKeyOf[k]

\* The order in which generations supersede and are dispatched: enqueue time,
\* ties broken by jobId, which need not be the order of arrival.
Before(recs, j, k) ==
  \/ recs[j].enqueuedAt < recs[k].enqueuedAt
  \/ recs[j].enqueuedAt = recs[k].enqueuedAt /\ j < k

SupersedingSiblings(recs, j) ==
  {k \in Job \ {j} :
     SamePr(j, k) /\ recs[k].state \in Live /\ Before(recs, j, k)}

FindSupersedingSibling(recs, j) ==
  LET newer  == SupersedingSiblings(recs, j)
      newest == {k \in newer : \A l \in newer \ {k} : Before(recs, l, k)}
  IN  IF newest = {} THEN 0 ELSE CHOOSE k \in newest : TRUE

MayPublish(recs, j) ==
  ~recs[j].cancelRequested /\ SupersedingSiblings(recs, j) = {}

\* The superseder stamped by enqueue, or else the newest live sibling.
Attribution(recs, j) ==
  IF recs[j].supersededBy # 0 THEN recs[j].supersededBy
  ELSE FindSupersedingSibling(recs, j)

-----------------------------------------------------------------------------
(* The store: a save replaces the snapshot, or throws. A throw leaves the
   old snapshot, or, when only the directory sync failed, the new one. *)

SaveReturns == disk' = records' /\ UNCHANGED saveFaults

SaveThrows ==
  /\ saveFaults < MaxSaveFaults
  /\ saveFaults' = saveFaults + 1
  /\ disk' \in {disk, records'}

Save == SaveReturns \/ SaveThrows

\* Aborting the executors the controller still tracks for the jobs of J.
Aborted(J) ==
  {[r EXCEPT !.aborted = @ \/ (r.job \in J /\ controllers[r.job] = r.token)] :
     r \in runs}

Serving == phase \in {"up", "draining"}

-----------------------------------------------------------------------------
(* enqueue *)

\* Mutant: the sibling loop of enqueue does not skip terminal records.
SupersededAnyway(j, by) ==
  LET r == records[j]
  IN  IF r.state = "absent" THEN r
      ELSE IF r.state \in Active THEN [r EXCEPT !.cancelRequested = TRUE,
                                                !.supersededBy = by]
      ELSE SupersededRecord(r, by)

Superseded(j, by) ==
  LET r == records[j]
  IN  CASE r.state = "queued"    -> SupersededRecord(r, by)
        [] r.state \in Active    -> [r EXCEPT !.cancelRequested = TRUE,
                                              !.supersededBy = by]
        [] OTHER                 -> r

\* A jobId already present is a duplicate and changes nothing.
Enqueue(j) ==
  /\ phase = "up"
  /\ records[j].state = "absent"
  /\ LET older == {k \in Job \ {j} : SamePr(j, k)}
     IN  /\ records' = [k \in Job |-> IF k = j THEN NewJobRecord
                                      ELSE IF k \in older THEN Superseded(k, j)
                                      ELSE records[k]]
         /\ runs' = Aborted({k \in older : records[k].state \in Active})
  /\ Save
  /\ UNCHANGED <<phase, now, leaseTokenCounter, controllers, calls,
                 publishInFlight, crashes>>

-----------------------------------------------------------------------------
(* tick: lease expiry, deadlines, publish retries, dispatch, one save.
   Each pass is a function of the records the pass before it left. *)

LeaseExpired(r) ==
  HoldsWorker(r) /\ r.leaseExpiresAt > 0 /\ r.leaseExpiresAt <= now

\* Mutant: one attempt too many.
AfterLeaseExpiryOnceMore(recs, j) ==
  LET r == recs[j]
  IN  IF r.attempt > MaxAttempts THEN Retired(r, "failed")
      ELSE [Retired(r, "queued") EXCEPT !.readyAt = now, !.nextRetryAt = 0,
                                        !.cancelRequested = FALSE]

AfterLeaseExpiry(recs, j) ==
  LET r == recs[j]
  IN  IF r.attempt >= MaxAttempts THEN Retired(r, "failed")
      ELSE IF SupersedingSiblings(recs, j) # {}
           THEN SupersededRecord(r, FindSupersedingSibling(recs, j))
           ELSE [Retired(r, "queued") EXCEPT !.readyAt = now, !.nextRetryAt = 0,
                                             !.cancelRequested = FALSE]

ExpireLeases(recs) ==
  [j \in Job |-> IF LeaseExpired(recs[j]) THEN AfterLeaseExpiry(recs, j)
                 ELSE recs[j]]

DeadlineExpired(recs, j) ==
  /\ recs[j].state \in Live
  /\ ~HoldsResult(recs[j])
  /\ DeadlineOf[j] # 0 /\ now >= DeadlineOf[j]

ExpireDeadlines(recs) ==
  [j \in Job |-> IF DeadlineExpired(recs, j) THEN Retired(recs[j], "cancelled")
                 ELSE recs[j]]

\* Mutant: the retry pass ignores a publish still in flight.
PublishDueAgain(recs, j) ==
  HasPublisher /\ HoldsResult(recs[j]) /\ recs[j].nextRetryAt <= now

PublishDue(recs, j) ==
  /\ HasPublisher
  /\ HoldsResult(recs[j])
  /\ recs[j].nextRetryAt <= now
  /\ j \notin publishInFlight

RetryPublishes(recs) ==
  [j \in Job |-> IF PublishDue(recs, j) /\ ~MayPublish(recs, j)
                 THEN SupersededRecord(recs[j], FindSupersedingSibling(recs, j))
                 ELSE recs[j]]

\* Mutant: a candidate does not look for an active generation of its PR.
CandidatesBeside(recs) ==
  {j \in Job : /\ recs[j].state = "queued"
               /\ recs[j].readyAt <= now
               /\ recs[j].nextRetryAt <= now
               /\ SupersedingSiblings(recs, j) = {}}

\* Mutant: a generation that only waits for the forge still blocks its PR.
CandidatesBehindForge(recs) ==
  {j \in CandidatesBeside(recs) :
     \A k \in Job : SamePr(j, k) => recs[k].state \notin Active}

Candidates(recs) ==
  {j \in Job : /\ recs[j].state = "queued"
               /\ recs[j].readyAt <= now
               /\ recs[j].nextRetryAt <= now
               /\ \A k \in Job : SamePr(j, k) => ~HoldsWorker(recs[k])
               /\ SupersedingSiblings(recs, j) = {}}

WorkerSlots(recs) == {j \in Job : recs[j].state \in {"starting", "running"}}

ScopeSlots(recs, j) ==
  {k \in Job : HoldsWorker(recs[k]) /\ ScopeOf[k] = ScopeOf[j]}

\* Mutant: the scope is counted before the pass, not as it goes.
DispatchSetStaleScope(recs, started) ==
  started = {j \in Candidates(recs) :
    /\ Cardinality(WorkerSlots(recs) \union
                     {k \in started : Before(recs, k, j)}) < MaxConcurrent
    /\ \/ ScopeLimitOf[j] = 0
       \/ Cardinality(ScopeSlots(recs, j)) < ScopeLimitOf[j]}

\* The candidates one pass starts, taken in order: each must find a free
\* worker slot and a free slot of its scope after those started before it.
DispatchSet(recs, started) ==
  started = {j \in Candidates(recs) :
    LET earlier == {k \in started : Before(recs, k, j)}
    IN  /\ Cardinality(WorkerSlots(recs) \union earlier) < MaxConcurrent
        /\ \/ ScopeLimitOf[j] = 0
           \/ Cardinality(ScopeSlots(recs, j) \union
                {k \in earlier : ScopeOf[k] = ScopeOf[j]}) < ScopeLimitOf[j]}

\* Tokens are handed out in dispatch order from the process-local counter.
TokenOf(recs, started, j) ==
  leaseTokenCounter + 1 + Cardinality({k \in started : Before(recs, k, j)})

Started(r, token) ==
  [r EXCEPT !.state = "running", !.attempt = @ + 1, !.leaseOwner = token,
            !.leaseExpiresAt = now + LeaseTtl]

\* The records after the three maintenance passes, the jobs whose abandoned
\* executor they abort and forget, and those whose publish they fire.
Maintained == RetryPublishes(ExpireDeadlines(ExpireLeases(records)))

\* Mutant: lease expiry leaves the abandoned executor running.
ForgottenByDeadline ==
  {j \in Job : DeadlineExpired(ExpireLeases(records), j)}

Forgotten ==
  {j \in Job : LeaseExpired(records[j]) \/ DeadlineExpired(ExpireLeases(records), j)}

Fired ==
  LET recs == ExpireDeadlines(ExpireLeases(records))
  IN  {j \in Job : PublishDue(recs, j) /\ MayPublish(recs, j)}

Dispatch(started) ==
  LET token(j) == TokenOf(Maintained, started, j)
  IN  /\ records' = [j \in Job |-> IF j \in started
                                   THEN Started(Maintained[j], token(j))
                                   ELSE Maintained[j]]
      /\ controllers' = [j \in Job |-> IF j \in started THEN token(j)
                                       ELSE IF j \in Forgotten THEN 0
                                       ELSE controllers[j]]
      /\ runs' = Aborted(Forgotten) \union
                   {[job |-> j, token |-> token(j), aborted |-> FALSE] : j \in started}
      /\ leaseTokenCounter' = leaseTokenCounter + Cardinality(started)

\* Once intake is closed nothing new starts; maintenance goes on.
Tick ==
  /\ Serving
  /\ \E started \in SUBSET Candidates(Maintained) :
       /\ IF phase = "up" THEN DispatchSet(Maintained, started) ELSE started = {}
       /\ Dispatch(started)
  /\ calls' = calls \union {[job |-> j, token |-> 0, at |-> now] : j \in Fired}
  /\ publishInFlight' = publishInFlight \union Fired
  /\ Save
  /\ UNCHANGED <<phase, now, crashes>>

-----------------------------------------------------------------------------
(* settle: an executor outcome applied under the lease token it was given *)

Outcomes == {"completed", "failed", "cancelled"}

Backoff(attempt) ==
  LET delay == RetryBase * 2 ^ (attempt - 1)
  IN  IF delay \in 0..RetryMax THEN delay ELSE RetryMax

AfterFailure(j) ==
  LET r == records[j]
  IN  IF r.cancelRequested \/ SupersedingSiblings(records, j) # {}
      THEN SupersededRecord(r, Attribution(records, j))
      ELSE IF r.attempt >= MaxAttempts THEN Retired(r, "failed")
      ELSE [Retired(r, "queued") EXCEPT !.readyAt = now,
                                        !.nextRetryAt = now + Backoff(r.attempt)]

AfterCompletion(j) ==
  LET r == [records[j] EXCEPT !.state = "publishing", !.hasResult = TRUE]
  IN  IF ~MayPublish(records, j)
      THEN SupersededRecord(r, Attribution(records, j))
      ELSE IF ~HasPublisher THEN Retired(r, "completed")
      ELSE r

AfterOutcome(j, outcome) ==
  CASE outcome = "completed" -> AfterCompletion(j)
    [] outcome = "failed"    -> AfterFailure(j)
    [] outcome = "cancelled" -> Retired(records[j], "cancelled")

\* Mutant: a stale settle drops the controller of the current attempt.
ReleaseAnyController(j, token) == controllers' = [controllers EXCEPT ![j] = 0]

ReleaseController(j, token) ==
  controllers' = [controllers EXCEPT ![j] = IF @ = token THEN 0 ELSE @]

\* Mutant: the publisher is called whether or not the result was saved.
SettleToPublishUnsaved(j, token) ==
  /\ publishInFlight' = publishInFlight \union {j}
  /\ Save
  /\ calls' = calls \union {[job |-> j, token |-> token, at |-> now]}
  /\ ReleaseController(j, token)

\* A completed result that may publish takes the publish slot, is saved, and
\* only then is the publisher called. A save that throws leaves the slot taken
\* and the rest of the handler undone.
SettleToPublish(j, token) ==
  /\ publishInFlight' = publishInFlight \union {j}
  /\ \/ /\ SaveReturns
        /\ calls' = calls \union {[job |-> j, token |-> token, at |-> now]}
        /\ ReleaseController(j, token)
     \/ /\ SaveThrows
        /\ UNCHANGED <<calls, controllers>>

ApplyOutcome(j, token, outcome) ==
  /\ records' = [records EXCEPT ![j] = AfterOutcome(j, outcome)]
  /\ IF records'[j].state = "publishing" /\ j \notin publishInFlight
     THEN SettleToPublish(j, token)
     ELSE Save /\ ReleaseController(j, token) /\ UNCHANGED <<calls, publishInFlight>>

Revoked(j, token) ==
  records[j].state \notin Live \/ records[j].leaseOwner # token

Settle(r, outcome) ==
  /\ r \in runs
  /\ ~Revoked(r.job, r.token)
  /\ runs' = runs \ {r}
  /\ ApplyOutcome(r.job, r.token, outcome)
  /\ UNCHANGED <<phase, now, leaseTokenCounter, crashes>>

SettleRevoked(r) ==
  /\ r \in runs
  /\ Revoked(r.job, r.token)
  /\ runs' = runs \ {r}
  /\ ReleaseController(r.job, r.token)
  /\ UNCHANGED <<records, disk, phase, now, leaseTokenCounter, calls,
                 publishInFlight, crashes, saveFaults>>

\* The renewal timer of an unsettled run, or of an adopted worker, renews the
\* lease of whoever holds it at that moment.
Heartbeat(j) ==
  /\ Serving
  /\ \/ \E r \in runs : r.job = j
     \/ records[j].leaseOwner = RecoveryOwner
  /\ records[j].leaseOwner # 0
  /\ records[j].leaseExpiresAt > now
  /\ records' = [records EXCEPT ![j].leaseExpiresAt = now + LeaseTtl]
  /\ Save
  /\ UNCHANGED <<phase, now, leaseTokenCounter, controllers, runs, calls,
                 publishInFlight, crashes>>

-----------------------------------------------------------------------------
(* runPublish: the continuation of a publisher promise *)

\* min(max(RetryBase, 0), RetryMax), counted from the instant of the call.
PublishRetryDelay == RetryBase

\* Mutant: no second supersession gate when the publish resolves.
AfterPublishUngated(c, published) ==
  LET r == records[c.job]
  IN  IF published THEN [Retired(r, "completed") EXCEPT !.nextRetryAt = 0]
      ELSE [Retired(r, "publishing") EXCEPT !.nextRetryAt = c.at + PublishRetryDelay]

AfterPublish(c, published) ==
  LET r == records[c.job]
  IN  IF ~MayPublish(records, c.job)
      THEN SupersededRecord(r, Attribution(records, c.job))
      ELSE IF published THEN [Retired(r, "completed") EXCEPT !.nextRetryAt = 0]
      ELSE [Retired(r, "publishing") EXCEPT !.nextRetryAt = c.at + PublishRetryDelay]

\* The call from settle carries a token and is void once the lease moved on;
\* the call from a retry pass carries none.
PublishVoid(c) ==
  \/ records[c.job].state # "publishing"
  \/ c.token # 0 /\ records[c.job].leaseOwner # c.token

PublishResolves(c, published) ==
  /\ c \in calls
  /\ calls' = calls \ {c}
  /\ publishInFlight' = publishInFlight \ {c.job}
  /\ IF PublishVoid(c) THEN UNCHANGED <<records, disk, saveFaults>>
     ELSE /\ records' = [records EXCEPT ![c.job] = AfterPublish(c, published)]
          /\ Save
  /\ UNCHANGED <<phase, now, leaseTokenCounter, controllers, runs, crashes>>

-----------------------------------------------------------------------------
(* Shutdown, crash and restart *)

BeginShutdown ==
  /\ phase = "up"
  /\ phase' = "draining"
  /\ UNCHANGED <<records, disk, now, leaseTokenCounter, controllers, runs,
                 calls, publishInFlight, crashes, saveFaults>>

FinishShutdown ==
  /\ phase = "draining"
  /\ phase' = "stopped"
  /\ records' = [j \in Job |-> IF HoldsWorker(records[j])
                               THEN Retired(records[j], "cancelled")
                               ELSE records[j]]
  /\ runs' = Aborted(Job)
  /\ controllers' = [j \in Job |-> 0]
  /\ Save
  /\ UNCHANGED <<now, leaseTokenCounter, calls, publishInFlight, crashes>>

\* Everything but the snapshot is lost: records, promises and counters.
LoseMemory ==
  /\ phase' = "down"
  /\ records' = EmptyQueue
  /\ leaseTokenCounter' = 0
  /\ controllers' = [j \in Job |-> 0]
  /\ runs' = {}
  /\ calls' = {}
  /\ publishInFlight' = {}
  /\ UNCHANGED <<disk, now, saveFaults>>

Crash ==
  /\ phase # "down"
  /\ crashes < MaxCrashes
  /\ crashes' = crashes + 1
  /\ LoseMemory

Exit == phase = "stopped" /\ LoseMemory /\ UNCHANGED crashes

\* ensureLoaded of the next process.
Boot ==
  /\ phase = "down"
  /\ phase' = "boot"
  /\ records' = disk
  /\ UNCHANGED <<disk, now, leaseTokenCounter, controllers, runs, calls,
                 publishInFlight, crashes, saveFaults>>

\* An active record of a process that is gone: no dispatch of this one owns it.
Orphaned(j) == records[j].state \in {"starting", "running"} /\ controllers[j] = 0

\* The executor proved what became of the orphaned worker: at startup, on a
\* later pass over the adopted workers, or by terminating it on request.
ResolveRecovered(j, outcome) ==
  /\ \/ phase = "boot" /\ (records[j].cancelRequested => outcome = "cancelled")
     \/ Serving /\ records[j].leaseOwner = RecoveryOwner
     \/ Serving /\ records[j].cancelRequested /\ outcome = "cancelled"
  /\ Orphaned(j)
  /\ records[j].leaseOwner # 0
  /\ ApplyOutcome(j, records[j].leaseOwner, outcome)
  /\ UNCHANGED <<phase, now, leaseTokenCounter, runs, crashes>>

\* The executor proved the orphaned worker alive: the daemon takes its lease
\* over at startup, and again whenever the adopted lease lapsed.
AdoptRecovered(j) ==
  /\ \/ phase = "boot" /\ ~records[j].cancelRequested
     \/ Serving /\ records[j].leaseOwner = RecoveryOwner
  /\ Orphaned(j)
  /\ records' = [records EXCEPT ![j].leaseOwner = RecoveryOwner,
                                ![j].leaseExpiresAt = now + LeaseTtl]
  /\ Save
  /\ UNCHANGED <<phase, now, leaseTokenCounter, controllers, runs, calls,
                 publishInFlight, crashes>>

LeaseGone(r) == r.leaseOwner = 0 \/ r.leaseExpiresAt <= now

\* Mutants: recovery requeues a record that holds its result; recovery does
\* not check that an attempt is left.
ReconciledResult(r) ==
  IF r.state \notin Active \/ ~LeaseGone(r) THEN r
  ELSE IF r.attempt < MaxAttempts
       THEN [Retired(r, "queued") EXCEPT !.readyAt = now, !.nextRetryAt = 0,
                                         !.cancelRequested = FALSE]
       ELSE Retired(r, "failed")

ReconciledOnceMore(r) ==
  IF r.state \notin Active \/ ~LeaseGone(r) THEN r
  ELSE IF HoldsResult(r) THEN Retired(r, "publishing")
  ELSE [Retired(r, "queued") EXCEPT !.readyAt = now, !.nextRetryAt = 0,
                                    !.cancelRequested = FALSE]

Reconciled(r) ==
  IF r.state \notin Active \/ ~LeaseGone(r) THEN r
  ELSE IF HoldsResult(r) THEN Retired(r, "publishing")
  ELSE IF r.attempt < MaxAttempts
       THEN [Retired(r, "queued") EXCEPT !.readyAt = now, !.nextRetryAt = 0,
                                         !.cancelRequested = FALSE]
       ELSE Retired(r, "failed")

\* A save that throws here aborts the start of the daemon: that is a Crash.
Recover ==
  /\ phase = "boot"
  /\ phase' = "up"
  /\ records' = [j \in Job |-> Reconciled(disk[j])]
  /\ SaveReturns
  /\ controllers' = [j \in Job |-> 0]
  /\ UNCHANGED <<now, leaseTokenCounter, runs, calls, publishInFlight, crashes>>

AdvanceClock ==
  /\ now < MaxNow
  /\ now' = now + 1
  /\ UNCHANGED <<records, disk, phase, leaseTokenCounter, controllers, runs,
                 calls, publishInFlight, crashes, saveFaults>>

-----------------------------------------------------------------------------
Init ==
  /\ records = EmptyQueue
  /\ disk = EmptyQueue
  /\ phase = "boot"
  /\ now = 1
  /\ leaseTokenCounter = 0
  /\ controllers = [j \in Job |-> 0]
  /\ runs = {}
  /\ calls = {}
  /\ publishInFlight = {}
  /\ crashes = 0
  /\ saveFaults = 0

Next ==
  \/ \E j \in Job : Enqueue(j)
  \/ Tick
  \/ \E r \in runs : SettleRevoked(r)
  \/ \E r \in runs, o \in Outcomes : Settle(r, o)
  \/ \E j \in Job : Heartbeat(j)
  \/ \E c \in calls, published \in BOOLEAN : PublishResolves(c, published)
  \/ \E j \in Job, o \in Outcomes : ResolveRecovered(j, o)
  \/ \E j \in Job : AdoptRecovered(j)
  \/ BeginShutdown
  \/ FinishShutdown
  \/ Crash
  \/ Exit
  \/ Boot
  \/ Recover
  \/ AdvanceClock

Spec == Init /\ [][Next]_vars

\* What keeps happening while the process is up: the daemon's interval timer
\* ticks, time passes, and every executor promise settles: a worker's review is
\* bounded in rounds and wall-clock time, and an aborted or overdue one is
\* terminated. Nothing is assumed of publishers, which may hang.
Fairness ==
  /\ WF_vars(Tick)
  /\ WF_vars(AdvanceClock)
  /\ WF_vars(Boot)
  /\ WF_vars(Recover)
  /\ \A j \in Job : WF_vars(\E r \in runs : r.job = j /\
       (SettleRevoked(r) \/ \E o \in Outcomes : Settle(r, o)))

FairSpec == Spec /\ Fairness

-----------------------------------------------------------------------------
(* Properties *)

Run  == [job : Job, token : Nat, aborted : BOOLEAN]
Call == [job : Job, token : Owner, at : Nat]
Phases == {"down", "boot", "up", "draining", "stopped"}

\* The shape of the state; attempts never exceed the configured limit
\* (start increments, every requeue checks attempt < maxAttempts).
TypeOK ==
  /\ records \in [Job -> JobRecord]
  /\ disk \in [Job -> JobRecord]
  /\ phase \in Phases
  /\ now \in Nat
  /\ leaseTokenCounter \in Nat
  /\ controllers \in [Job -> Nat]
  /\ runs \subseteq Run
  /\ calls \subseteq Call
  /\ publishInFlight \subseteq Job
  /\ crashes \in Nat
  /\ saveFaults \in Nat

OneWorker(recs) ==
  \A j, k \in Job :
    j # k /\ SamePr(j, k) => ~(HoldsWorker(recs[j]) /\ HoldsWorker(recs[k]))

\* At most one generation of a PR holds a worker, through supersession, lease
\* expiry, retries, adoption and recovery (scheduler.ts header, hasActiveFor).
OneWorkerPerPr == OneWorker(records)

SlotsWithin(recs) ==
  /\ Cardinality(WorkerSlots(recs)) <= MaxConcurrent
  /\ \A j \in Job : ScopeLimitOf[j] # 0 =>
       Cardinality(ScopeSlots(recs, j)) <= ScopeLimitOf[j]

\* The global and the per-scope bounds hold in every state, also after a
\* restart that found records with live leases (countActive, scopeFull).
SlotsBounded == SlotsWithin(records)

\* An executor that was not told to stop is the current dispatch of a running
\* record, and an outcome that is still accepted always finds its record
\* running: no stale settle reaches another attempt and withState never throws.
RunsMatchLeases ==
  \A r \in runs :
    /\ ~r.aborted => ~Revoked(r.job, r.token)
    /\ ~Revoked(r.job, r.token) => /\ records[r.job].state = "running"
                                   /\ controllers[r.job] = r.token

WellFormed(r) ==
  /\ r.state # "starting"
  /\ r.state = "queued" => r.attempt < MaxAttempts
  /\ r.state = "running" => r.leaseOwner # 0 /\ r.leaseExpiresAt > 0
  /\ r.state = "publishing" => r.hasResult
  /\ r.hasResult => r.state \in {"publishing"} \union Terminal
  /\ r.state \notin Active => r.leaseOwner = 0 /\ r.leaseExpiresAt = 0

\* Nothing can stay active for ever, in memory or in the snapshot: a queued
\* record has an attempt left, one that holds a worker carries a lease that
\* expireLeases or recover can find expired, a publishing one holds the result
\* that exempts it from both, and only active records keep a lease.
Reclaimable == \A j \in Job : WellFormed(records[j]) /\ WellFormed(disk[j])

\* At most one publish call per record is pending, and each pending call holds
\* the slot that keeps the next pass from overlapping it (publishInFlight).
OneCallPerJob ==
  /\ \A c, d \in calls : c.job = d.job => c = d
  /\ \A c \in calls : c.job \in publishInFlight

\* A publisher is only ever called for a result the snapshot already holds,
\* whichever saves throw: a crash during the publish cannot rerun the review.
CalledResultIsDurable ==
  \A c \in calls : HoldsResult(disk[c.job]) /\ HoldsResult(records[c.job])

\* The snapshot may lag behind memory when saves throw, but never on what is
\* final: its terminal records and its results are those of memory, and a
\* result missing from it is one the retry pass cannot publish yet.
SnapshotLags ==
  phase # "down" => \A j \in Job :
    /\ disk[j].state \in Terminal => records[j] = disk[j]
    /\ disk[j].hasResult => records[j].hasResult
    /\ HoldsResult(records[j]) /\ j \notin publishInFlight => HoldsResult(disk[j])

TokensUnique ==
  /\ \A r \in runs : r.token > 0 /\ r.token <= leaseTokenCounter
  /\ \A r, q \in runs : r.job = q.job /\ r.token = q.token => r = q
  /\ phase \in {"down", "boot"} => runs = {}
  /\ phase = "down" => calls = {}

\* A durable result is never computed again: once the snapshot holds it, the
\* record stays publishing or becomes terminal, across lease expiry, deadline,
\* shutdown, crash and recovery.
ResultNeverRerun ==
  [][\A j \in Job : disk[j].hasResult =>
       disk'[j].hasResult /\ disk'[j].state \in {"publishing"} \union Terminal]_vars

\* What the snapshot says about a terminal generation is final.
TerminalIsFinal ==
  [][\A j \in Job : disk[j].state \in Terminal => disk'[j] = disk[j]]_vars

\* A generation completes only while it is the newest live one of its PR and
\* nobody asked for its cancellation, whenever its publish happens to resolve.
OnlyNewestCompletes ==
  [][\A j \in Job :
       /\ phase # "down"
       /\ records[j].state # "completed"
       /\ records'[j].state = "completed"
       => MayPublish(records, j)]_vars

\* The inductive invariant behind the theorems of ReviewQueueProofs.
QueueInv ==
  /\ TypeOK
  /\ Reclaimable
  /\ OneWorker(records) /\ OneWorker(disk)
  /\ TokensUnique
  /\ RunsMatchLeases
  /\ OneCallPerJob
  /\ CalledResultIsDurable
  /\ SnapshotLags

\* While the process stays up, the newest generation of a PR is dispatched (or
\* overtaken, or expires) once its settle window and backoff can elapse: no
\* hung publisher, busy PR or full scope keeps it waiting for ever.
NewestIsDispatched ==
  <>[](phase = "up") =>
    \A j \in Job :
      (/\ records[j].state = "queued"
       /\ SupersedingSiblings(records, j) = {}
       /\ records[j].readyAt <= MaxNow
       /\ records[j].nextRetryAt <= MaxNow)
      ~> records[j].state # "queued"

-----------------------------------------------------------------------------
(* The queue implements the ledger of AbstractQueue: the snapshot, read with
   HoldsWorker and HoldsResult, is that ledger. *)

DurableStatus(r) ==
  CASE r.state = "absent"    -> "unknown"
    [] r.state = "queued"    -> "open"
    [] HoldsWorker(r)        -> "working"
    [] HoldsResult(r)        -> "result"
    [] r.state = "completed" -> "published"
    [] OTHER                 -> "ended"

Ledger == INSTANCE AbstractQueue
  WITH Generation <- Job, PrOf <- PrKeyOf, Publishes <- HasPublisher,
       status <- [j \in Job |-> DurableStatus(disk[j])],
       since  <- [j \in Job |-> disk[j].enqueuedAt]

\* Every behaviour of the queue, with its crashes, failed saves and recoveries,
\* is one of the ledger: what a reader of the snapshot sees never goes back,
\* shows one worker per PR, and shows a generation published only after its
\* result, while no newer generation of the PR was pending.
ImplementsLedger == Ledger!Spec

\* Violated: a generation that enqueue stamped with its superseder is never
\* started again (the comments at scheduler.ts 275-280 and 570-571).
SupersededNeverRedispatched ==
  [][\A j \in Job :
       /\ records[j].state # "absent"
       /\ records'[j].attempt > records[j].attempt
       => records[j].supersededBy = 0]_vars

\* Violated: a taken publish slot always has a pending call (scheduler.ts
\* 143-144), so that the retry pass can come back to the record.
SlotHasCall ==
  \A j \in publishInFlight : \E c \in calls : c.job = j
=============================================================================
