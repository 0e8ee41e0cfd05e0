----------------------------- MODULE LedgerProofs -----------------------------
(***************************************************************************)
(* The proof that ReviewQueue implements the ledger of AbstractQueue.      *)
(*                                                                         *)
(* The snapshot lags behind memory whenever saves throw, so a write may    *)
(* show the reader several steps of a record at once. What has to be shown *)
(* is that memory never runs ahead of the snapshot in a way whose first    *)
(* durable trace breaks a promise: LagInv says how far ahead it can be.    *)
(***************************************************************************)
EXTENDS ReviewQueueProofs

\* The snapshot knows nothing that memory has forgotten; a completion it does
\* not know yet is one whose result it holds, and no newer generation that it
\* shows pending was still pending when memory completed it.
LagInv ==
  phase # "down" => \A j \in Job :
    /\ disk[j].state # "absent" =>
         records[j].state # "absent" /\ records[j].enqueuedAt = disk[j].enqueuedAt
    /\ records[j].state = "completed" /\ disk[j].state # "completed" =>
         /\ HasPublisher => HoldsResult(disk[j])
         /\ \A k \in Job \ {j} :
              SamePr(j, k) /\ disk[k].state \in Live /\ records[k].state \in Live
                => ~Before(records, j, k)

\* How every handler but a completion changes a record.
Stable(r, s) ==
  /\ r.state # "absent" => s.state # "absent" /\ s.enqueuedAt = r.enqueuedAt
  /\ r.state \in Terminal => s.state \in Terminal
  /\ s.state = "completed" => r.state = "completed"

\* The completion of one generation, past the supersession gate.
Completes(j) ==
  /\ MayPublish(records, j)
  /\ records[j].state \in Active
  /\ HasPublisher => HoldsResult(disk[j])
  /\ records'[j].state = "completed"
  /\ records'[j].enqueuedAt = records[j].enqueuedAt
  /\ \A k \in Job \ {j} : records'[k] = records[k]

\* A step of a process that is up.
MemoryMoves ==
  /\ disk' \in {disk, records'}
  /\ \A j \in Job : Stable(records[j], records'[j]) \/ Completes(j)

-----------------------------------------------------------------------------
(* Part 1: every handler moves memory in one of these two ways *)

\* Doing nothing is stable.
LEMMA StableRefl ==
  ASSUME NEW r PROVE Stable(r, r)
BY DEF Stable

\* Two stable changes in a row are one.
LEMMA StableTrans ==
  ASSUME NEW r, NEW s, NEW t, Stable(r, s), Stable(s, t)
  PROVE  Stable(r, t)
BY DEF Stable

\* Any change that clears the lease and does not complete a live record.
LEMMA RetiredStable ==
  ASSUME NEW r \in JobRecord, r.state \in Live,
         NEW s \in {"queued", "publishing", "failed", "cancelled", "superseded"}
  PROVE  Retired(r, s).state = s /\ Retired(r, s).enqueuedAt = r.enqueuedAt
         /\ Stable(r, Retired(r, s))
BY DEF Retired, JobRecord, Stable, Live, Active, Terminal

\* So is being superseded.
LEMMA SupersededStable ==
  ASSUME NEW r \in JobRecord, r.state \in Live, NEW by
  PROVE  Stable(r, SupersededRecord(r, by))
BY DEF SupersededRecord, Retired, JobRecord, Stable, Live, Active, Terminal

\* So is being put back in the queue.
LEMMA RequeuedStable ==
  ASSUME NEW r \in JobRecord, r.state \in Live, NEW ready, NEW retry, NEW c
  PROVE  Stable(r, [Retired(r, "queued") EXCEPT !.readyAt = ready,
                       !.nextRetryAt = retry, !.cancelRequested = c])
BY DEF Retired, JobRecord, Stable, Live, Active, Terminal

\* The three passes of tick complete nothing and forget nothing.
LEMMA MaintainedStable ==
  ASSUME QueueInv, NEW j \in Job
  PROVE  Stable(records[j], Maintained[j])
<1> DEFINE a == ExpireLeases(records)
           b == ExpireDeadlines(a)
<1>0. records \in [Job -> JobRecord] /\ now \in Nat
      /\ \A k \in Job : GoodRecord(records[k])
  BY DEF QueueInv, TypeOK, Reclaimable, GoodRecord
<1>1. a \in [Job -> JobRecord] /\ \A k \in Job : GoodRecord(a[k])
  <2>1. \A k \in Job : GoodRecord(a[k])
    BY <1>0, LeasePass DEF Pass, Evolves
  <2>2. a = [k \in Job |-> a[k]]
    BY DEF ExpireLeases
  <2>3. QED
    BY <2>1, <2>2 DEF GoodRecord
<1>2. b \in [Job -> JobRecord] /\ \A k \in Job : GoodRecord(b[k])
  <2>1. \A k \in Job : GoodRecord(b[k])
    BY <1>1, DeadlinePass DEF Pass, Evolves
  <2>2. b = [k \in Job |-> b[k]]
    BY DEF ExpireDeadlines
  <2>3. QED
    BY <2>1, <2>2 DEF GoodRecord
<1>3. Stable(records[j], a[j])
  <2>1. CASE LeaseExpired(records[j])
    <3>1. a[j] = AfterLeaseExpiry(records, j)
      BY <2>1 DEF ExpireLeases
    <3>2. records[j] \in JobRecord /\ records[j].state \in Live
      BY <1>0, <2>1 DEF LeaseExpired, HoldsWorker, Live
    <3>3. Stable(records[j], AfterLeaseExpiry(records, j))
      BY <3>2, RetiredStable, SupersededStable, RequeuedStable DEF AfterLeaseExpiry
    <3>4. QED
      BY <3>1, <3>3
  <2>2. CASE ~LeaseExpired(records[j])
    BY <2>2, StableRefl DEF ExpireLeases
  <2>3. QED
    BY <2>1, <2>2
<1>4. Stable(a[j], b[j])
  <2>1. CASE DeadlineExpired(a, j)
    <3>1. b[j] = Retired(a[j], "cancelled")
      BY <2>1 DEF ExpireDeadlines
    <3>2. a[j] \in JobRecord /\ a[j].state \in Live
      BY <1>1, <2>1 DEF DeadlineExpired
    <3>3. QED
      BY <3>1, <3>2, RetiredStable
  <2>2. CASE ~DeadlineExpired(a, j)
    BY <2>2, StableRefl DEF ExpireDeadlines
  <2>3. QED
    BY <2>1, <2>2
<1>5. Stable(b[j], RetryPublishes(b)[j])
  <2>1. CASE PublishDue(b, j) /\ ~MayPublish(b, j)
    <3>1. RetryPublishes(b)[j] = SupersededRecord(b[j], FindSupersedingSibling(b, j))
      BY <2>1 DEF RetryPublishes
    <3>2. b[j] \in JobRecord /\ b[j].state \in Live
      BY <1>2, <2>1 DEF PublishDue, HoldsResult, Live, Active
    <3>3. QED
      BY <3>1, <3>2, SupersededStable
  <2>2. CASE ~(PublishDue(b, j) /\ ~MayPublish(b, j))
    BY <2>2, StableRefl DEF RetryPublishes
  <2>3. QED
    BY <2>1, <2>2
<1>6. Maintained = RetryPublishes(b)
  BY DEF Maintained
<1> HIDE DEF a, b
<1>7. QED
  BY <1>3, <1>4, <1>5, <1>6, StableTrans

\* A save, returned or thrown, leaves the old snapshot or the new one.
LEMMA SaveChoice ==
  ASSUME Save PROVE disk' \in {disk, records'}
BY DEF Save, SaveReturns, SaveThrows

\* enqueue creates one record and supersedes others.
LEMMA EnqueueMoves ==
  ASSUME QueueInv, NEW j \in Job, Enqueue(j)
  PROVE  MemoryMoves
<1>0. records \in [Job -> JobRecord]
  BY DEF QueueInv, TypeOK
<1>1. disk' \in {disk, records'}
  BY SaveChoice DEF Enqueue
<1>2. ASSUME NEW k \in Job PROVE Stable(records[k], records'[k])
  <2>1. CASE k = j
    <3>1. records[k].state = "absent" /\ records'[k] = NewJobRecord
      BY <2>1 DEF Enqueue
    <3>2. NewJobRecord.state = "queued"
      BY DEF NewJobRecord, NoRecord
    <3>3. QED
      BY <3>1, <3>2 DEF Stable, Terminal
  <2>2. CASE k # j
    <3>1. records'[k] = Superseded(k, j) \/ records'[k] = records[k]
      BY <2>2 DEF Enqueue
    <3>2. Stable(records[k], Superseded(k, j))
      <4>1. CASE records[k].state = "queued"
        <5>1. Superseded(k, j) = SupersededRecord(records[k], j)
          BY <4>1 DEF Superseded, Active
        <5>2. QED
          BY <1>0, <4>1, <5>1, SupersededStable DEF Live
      <4>2. CASE records[k].state \in Active
        BY <1>0, <4>2 DEF Superseded, Stable, Active, Terminal, JobRecord
      <4>3. CASE records[k].state # "queued" /\ records[k].state \notin Active
        BY <4>3, StableRefl DEF Superseded
      <4>4. QED
        BY <4>1, <4>2, <4>3
    <3>3. QED
      BY <3>1, <3>2, StableRefl
  <2>3. QED
    BY <2>1, <2>2
<1>3. QED
  BY <1>1, <1>2 DEF MemoryMoves

\* tick: maintenance, then dispatch.
LEMMA TickMoves ==
  ASSUME QueueInv, Tick
  PROVE  MemoryMoves
<1>1. disk' \in {disk, records'}
  BY SaveChoice DEF Tick
<1>2. PICK started \in SUBSET Candidates(Maintained) : Dispatch(started)
  BY DEF Tick
<1>3. ASSUME NEW k \in Job PROVE Stable(records[k], records'[k])
  <2>1. Stable(records[k], Maintained[k])
    BY MaintainedStable
  <2>2. CASE k \in started
    <3>1. records'[k] = Started(Maintained[k], TokenOf(Maintained, started, k))
      BY <1>2, <2>2 DEF Dispatch
    <3>2. Maintained[k] \in JobRecord /\ Maintained[k].state = "queued"
      BY <1>2, <2>2, MaintainedFacts DEF Candidates
    <3>3. Stable(Maintained[k], Started(Maintained[k], TokenOf(Maintained, started, k)))
      BY <3>2 DEF Started, Stable, JobRecord, Terminal
    <3>4. QED
      BY <2>1, <3>1, <3>3, StableTrans
  <2>3. CASE k \notin started
    BY <1>2, <2>1, <2>3 DEF Dispatch
  <2>4. QED
    BY <2>2, <2>3
<1>4. QED
  BY <1>1, <1>3 DEF MemoryMoves

\* One record changes under a save.
LEMMA OneStable ==
  ASSUME NEW j \in Job, NEW s, records' = [records EXCEPT ![j] = s],
         records \in [Job -> JobRecord],
         Stable(records[j], s), disk' \in {disk, records'}
  PROVE  MemoryMoves
<1>1. \A k \in Job : records'[k] = IF k = j THEN s ELSE records[k]
  OBVIOUS
<1>2. \A k \in Job : Stable(records[k], records'[k])
  BY <1>1, StableRefl
<1>3. QED
  BY <1>2 DEF MemoryMoves

\* An outcome of a running record completes it only when no publisher is
\* configured, past the gate.
LEMMA OutcomeMoves ==
  ASSUME QueueInv, NEW j \in Job, records[j].state = "running",
         NEW token, NEW o \in Outcomes, ApplyOutcome(j, token, o)
  PROVE  MemoryMoves
<1> DEFINE r == records[j]
           p == [r EXCEPT !.state = "publishing", !.hasResult = TRUE]
<1>0. records \in [Job -> JobRecord] /\ r \in JobRecord /\ r.state \in Live
      /\ p \in JobRecord /\ p.state \in Live /\ Stable(r, p)
      /\ p.enqueuedAt = r.enqueuedAt
  BY DEF QueueInv, TypeOK, JobRecord, States, Live, Active, Terminal, Stable
<1>1. records' = [records EXCEPT ![j] = AfterOutcome(j, o)]
  BY DEF ApplyOutcome
<1>2. disk' \in {disk, records'}
  BY SaveChoice DEF ApplyOutcome, SettleToPublish, SaveReturns, SaveThrows
<1>3. CASE o = "cancelled"
  <2>1. AfterOutcome(j, o) = Retired(r, "cancelled")
    BY <1>3 DEF AfterOutcome
  <2>2. QED
    BY <1>0, <1>1, <1>2, <2>1, RetiredStable, OneStable
<1>4. CASE o = "failed"
  <2>1. AfterOutcome(j, o) = AfterFailure(j)
    BY <1>4 DEF AfterOutcome
  <2>2. Stable(r, [Retired(r, "queued") EXCEPT !.readyAt = now,
                       !.nextRetryAt = now + Backoff(r.attempt)])
    BY <1>0 DEF Retired, JobRecord, Stable, Live, Active, Terminal
  <2>3. Stable(r, SupersededRecord(r, Attribution(records, j)))
        /\ Stable(r, Retired(r, "failed"))
    BY <1>0, SupersededStable, RetiredStable
  <2>4. Stable(r, AfterFailure(j))
    BY <2>2, <2>3 DEF AfterFailure
  <2>5. QED
    BY <1>0, <1>1, <1>2, <2>1, <2>4, OneStable
<1>5. CASE o = "completed"
  <2>1. AfterOutcome(j, o) = AfterCompletion(j)
    BY <1>5 DEF AfterOutcome
  <2>2. CASE ~MayPublish(records, j)
    <3>1. AfterCompletion(j) = SupersededRecord(p, Attribution(records, j))
      BY <2>2 DEF AfterCompletion
    <3> HIDE DEF p
    <3>2. Stable(r, AfterCompletion(j))
      BY <1>0, <3>1, SupersededStable, StableTrans
    <3>3. QED
      BY <1>0, <1>1, <1>2, <2>1, <3>2, OneStable
  <2>3. CASE MayPublish(records, j) /\ HasPublisher
    <3>1. AfterCompletion(j) = p
      BY <2>3 DEF AfterCompletion
    <3>2. QED
      BY <1>0, <1>1, <1>2, <2>1, <3>1, OneStable
  <2>4. CASE MayPublish(records, j) /\ ~HasPublisher
    <3>1. AfterCompletion(j) = Retired(p, "completed")
      BY <2>4 DEF AfterCompletion
    <3>2. Retired(p, "completed").state = "completed"
          /\ Retired(p, "completed").enqueuedAt = r.enqueuedAt
      BY <1>0 DEF Retired, JobRecord
    <3>3. records'[j].state = "completed" /\ records'[j].enqueuedAt = r.enqueuedAt
          /\ \A k \in Job \ {j} : records'[k] = records[k]
      BY <1>0, <1>1, <2>1, <3>1, <3>2
    <3>4. Completes(j)
      BY <2>4, <3>3 DEF Completes, Active
    <3>5. QED
      BY <1>2, <3>3, <3>4, StableRefl DEF MemoryMoves
  <2>5. QED
    BY <2>2, <2>3, <2>4
<1>6. QED
  BY <1>3, <1>4, <1>5 DEF Outcomes

\* A current run settles.
LEMMA SettleMoves ==
  ASSUME QueueInv, NEW r \in runs, NEW o \in Outcomes, Settle(r, o)
  PROVE  MemoryMoves
<1>1. r.job \in Job /\ records[r.job].state = "running"
  BY DEF QueueInv, TypeOK, Run, RunsMatchLeases, Settle
<1>2. ApplyOutcome(r.job, r.token, o)
  BY DEF Settle
<1>3. QED
  BY <1>1, <1>2, OutcomeMoves

\* An orphaned worker settles.
LEMMA ResolveRecoveredMoves ==
  ASSUME QueueInv, NEW j \in Job, NEW o \in Outcomes, ResolveRecovered(j, o)
  PROVE  MemoryMoves
<1>1. records[j].state = "running"
  BY DEF ResolveRecovered, Orphaned, QueueInv, Reclaimable, WellFormed
<1>2. ApplyOutcome(j, records[j].leaseOwner, o)
  BY DEF ResolveRecovered
<1>3. QED
  BY <1>1, <1>2, OutcomeMoves

\* Lease changes touch nothing the ledger shows.
LEMMA LeaseMoves ==
  ASSUME QueueInv, NEW j \in Job, Heartbeat(j) \/ AdoptRecovered(j)
  PROVE  MemoryMoves
<1>0. records \in [Job -> JobRecord]
  BY DEF QueueInv, TypeOK
<1>1. disk' \in {disk, records'}
  BY SaveChoice DEF Heartbeat, AdoptRecovered
<1>2. ASSUME NEW k \in Job
      PROVE  /\ records'[k].state = records[k].state
             /\ records'[k].enqueuedAt = records[k].enqueuedAt
  <2>1. CASE Heartbeat(j)
    BY <1>0, <2>1 DEF Heartbeat, JobRecord
  <2>2. CASE AdoptRecovered(j)
    BY <1>0, <2>2 DEF AdoptRecovered, JobRecord
  <2>3. QED
    BY <2>1, <2>2
<1>3. \A k \in Job : Stable(records[k], records'[k])
  BY <1>2 DEF Stable
<1>4. QED
  BY <1>1, <1>3 DEF MemoryMoves

\* A publish that resolves completes its record past the second gate, and its
\* result was durable before the call was made.
LEMMA PublishResolvesMoves ==
  ASSUME QueueInv, NEW c \in calls, NEW published \in BOOLEAN,
         PublishResolves(c, published)
  PROVE  MemoryMoves
<1> DEFINE j == c.job
           r == records[j]
<1>0. records \in [Job -> JobRecord] /\ j \in Job /\ r \in JobRecord
      /\ HoldsResult(disk[j]) /\ r.state = "publishing" /\ r.state \in Live
  BY DEF QueueInv, TypeOK, Call, CalledResultIsDurable, HoldsResult, Live, Active
<1>1. CASE PublishVoid(c)
  <2>1. records' = records /\ disk' = disk
    BY <1>1 DEF PublishResolves
  <2>2. QED
    BY <2>1, StableRefl DEF MemoryMoves
<1>2. CASE ~PublishVoid(c)
  <2>1. records' = [records EXCEPT ![j] = AfterPublish(c, published)]
    BY <1>2 DEF PublishResolves
  <2>2. disk' \in {disk, records'}
    BY <1>2, SaveChoice DEF PublishResolves
  <2>3. CASE ~MayPublish(records, j)
    <3>1. AfterPublish(c, published) = SupersededRecord(r, Attribution(records, j))
      BY <2>3 DEF AfterPublish
    <3>2. QED
      BY <1>0, <2>1, <2>2, <3>1, SupersededStable, OneStable
  <2>4. CASE MayPublish(records, j) /\ ~published
    <3> DEFINE s == [Retired(r, "publishing") EXCEPT !.nextRetryAt = c.at + PublishRetryDelay]
    <3>1. AfterPublish(c, published) = s
      BY <2>4 DEF AfterPublish
    <3>2. Stable(r, s)
      BY <1>0 DEF Retired, JobRecord, Stable, Terminal
    <3> HIDE DEF s
    <3>3. QED
      BY <1>0, <2>1, <2>2, <3>1, <3>2, OneStable
  <2>5. CASE MayPublish(records, j) /\ published
    <3> DEFINE s == [Retired(r, "completed") EXCEPT !.nextRetryAt = 0]
    <3>1. AfterPublish(c, published) = s
      BY <2>5 DEF AfterPublish
    <3>2. s.state = "completed" /\ s.enqueuedAt = r.enqueuedAt
      BY <1>0 DEF Retired, JobRecord
    <3> HIDE DEF s
    <3>3. records'[j] = s /\ \A k \in Job \ {j} : records'[k] = records[k]
      BY <1>0, <2>1, <3>1
    <3>4. Completes(j)
      BY <1>0, <2>5, <3>2, <3>3 DEF Completes, Active
    <3>5. QED
      BY <2>2, <3>3, <3>4, StableRefl DEF MemoryMoves
  <2>6. QED
    BY <2>3, <2>4, <2>5
<1>3. QED
  BY <1>1, <1>2

\* The end of a shutdown cancels what still holds a worker.
LEMMA FinishShutdownMoves ==
  ASSUME QueueInv, FinishShutdown
  PROVE  MemoryMoves
<1>0. records \in [Job -> JobRecord]
  BY DEF QueueInv, TypeOK
<1>1. disk' \in {disk, records'}
  BY SaveChoice DEF FinishShutdown
<1>2. ASSUME NEW k \in Job PROVE Stable(records[k], records'[k])
  <2>1. CASE HoldsWorker(records[k])
    <3>1. records'[k] = Retired(records[k], "cancelled") /\ records[k].state \in Live
      BY <2>1 DEF FinishShutdown, HoldsWorker, Live
    <3>2. QED
      BY <1>0, <3>1, RetiredStable
  <2>2. CASE ~HoldsWorker(records[k])
    BY <2>2, StableRefl DEF FinishShutdown
  <2>3. QED
    BY <2>1, <2>2
<1>3. QED
  BY <1>1, <1>2 DEF MemoryMoves

\* Steps that touch neither memory nor snapshot.
LEMMA IdleMoves ==
  ASSUME UNCHANGED <<records, disk>>
  PROVE  MemoryMoves
BY StableRefl DEF MemoryMoves

-----------------------------------------------------------------------------
(* Part 2: how the snapshot moves *)

\* What one step may change in the snapshot.
DiskMoves ==
  \A j \in Job :
    /\ disk[j].state # "absent" =>
         disk'[j].state # "absent" /\ disk'[j].enqueuedAt = disk[j].enqueuedAt
    /\ disk'[j].state = "completed" /\ disk[j].state # "completed" =>
         /\ HasPublisher => HoldsResult(disk[j])
         /\ \A k \in Job \ {j} :
              SamePr(j, k) /\ disk[k].state \in Live /\ disk'[k].state \in Live
                => ~Before(disk', j, k)

\* A step that does not save.
LEMMA DiskIdle ==
  ASSUME disk' = disk PROVE DiskMoves
BY DEF DiskMoves

\* A record that is live in the next state of memory and known to the snapshot
\* was live before, with the same arrival.
LEMMA StillLive ==
  ASSUME QueueInv, LagInv, phase # "down", MemoryMoves,
         NEW k \in Job, disk[k].state # "absent", records'[k].state \in Live
  PROVE  records[k].state \in Live /\ records'[k].enqueuedAt = records[k].enqueuedAt
<1>1. records[k].state # "absent" /\ records[k].state \in States
  BY DEF LagInv, QueueInv, TypeOK, JobRecord
<1>2. Stable(records[k], records'[k])
  BY DEF MemoryMoves, Completes, Live, Active
<1>3. QED
  BY <1>1, <1>2 DEF Stable, States, Live, Active, Terminal

\* While the process is up, memory and snapshot drift apart only as far as
\* LagInv allows.
LEMMA MemoryMovesLag ==
  ASSUME QueueInv, LagInv, phase # "down", MemoryMoves
  PROVE  LagInv' /\ DiskMoves
<1>1. ASSUME NEW j \in Job, disk[j].state # "absent"
      PROVE  /\ records'[j].state # "absent"
             /\ records'[j].enqueuedAt = disk[j].enqueuedAt
             /\ records[j].enqueuedAt = disk[j].enqueuedAt
  <2>1. records[j].state # "absent" /\ records[j].enqueuedAt = disk[j].enqueuedAt
    BY <1>1 DEF LagInv
  <2>2. QED
    BY <2>1 DEF MemoryMoves, Stable, Completes
<1>2. ASSUME NEW j \in Job, records'[j].state = "completed", disk[j].state # "completed",
             NEW k \in Job \ {j}, SamePr(j, k), disk[k].state \in Live,
             records'[k].state \in Live, Before(records', j, k)
      PROVE  FALSE
  <2>1. records[k].state \in Live /\ records'[k].enqueuedAt = records[k].enqueuedAt
    BY <1>2, StillLive DEF Live, Active
  <2>2. CASE Completes(j)
    <3>1. Before(records, j, k)
      BY <1>2, <2>1, <2>2 DEF Completes, Before
    <3>2. QED
      BY <1>2, <2>1, <2>2, <3>1 DEF Completes, MayPublish, SupersedingSiblings
  <2>3. CASE Stable(records[j], records'[j])
    <3>1. records[j].state = "completed"
          /\ records'[j].enqueuedAt = records[j].enqueuedAt
      BY <1>2, <2>3 DEF Stable
    <3>2. Before(records, j, k)
      BY <1>2, <2>1, <3>1 DEF Before
    <3>3. QED
      BY <1>2, <2>1, <3>1, <3>2 DEF LagInv
  <2>4. QED
    BY <2>2, <2>3 DEF MemoryMoves
<1>3. ASSUME NEW j \in Job, records'[j].state = "completed", disk[j].state # "completed",
             HasPublisher
      PROVE  HoldsResult(disk[j])
  <2>1. CASE Completes(j)
    BY <1>3, <2>1 DEF Completes
  <2>2. CASE Stable(records[j], records'[j])
    BY <1>3, <2>2 DEF Stable, LagInv
  <2>3. QED
    BY <2>1, <2>2 DEF MemoryMoves
<1>4. CASE disk' = disk
  <2>1. LagInv'
    BY <1>1, <1>2, <1>3, <1>4 DEF LagInv
  <2>2. QED
    BY <1>4, <2>1, DiskIdle
<1>5. CASE disk' = records'
  <2>1. LagInv'
    BY <1>5 DEF LagInv
  <2>2. DiskMoves
    BY <1>1, <1>2, <1>3, <1>5 DEF DiskMoves
  <2>3. QED
    BY <2>1, <2>2
<1>6. QED
  BY <1>4, <1>5 DEF MemoryMoves

\* recover writes what reconcileRecoveredSnapshot makes of the snapshot itself.
LEMMA RecoverLag ==
  ASSUME QueueInv, Recover
  PROVE  LagInv' /\ DiskMoves
<1>0. disk \in [Job -> JobRecord] /\ \A j \in Job : WellFormed(disk[j])
  BY DEF QueueInv, TypeOK, Reclaimable
<1>1. records' = [j \in Job |-> Reconciled(disk[j])] /\ disk' = records'
  BY DEF Recover, SaveReturns
<1>2. ASSUME NEW j \in Job PROVE Stable(disk[j], disk'[j])
  <2>1. disk'[j] = Reconciled(disk[j]) /\ disk[j] \in JobRecord
    BY <1>0, <1>1
  <2>2. CASE disk[j].state \notin Active \/ ~LeaseGone(disk[j])
    BY <2>1, <2>2, StableRefl DEF Reconciled
  <2>3. CASE ~(disk[j].state \notin Active \/ ~LeaseGone(disk[j]))
    <3>1. disk[j].state \in Live
      BY <2>3 DEF Live
    <3>2. /\ Stable(disk[j], Retired(disk[j], "publishing"))
          /\ Stable(disk[j], Retired(disk[j], "failed"))
          /\ Stable(disk[j], [Retired(disk[j], "queued") EXCEPT !.readyAt = now,
                       !.nextRetryAt = 0, !.cancelRequested = FALSE])
      BY <2>1, <3>1, RetiredStable, RequeuedStable
    <3>3. QED
      BY <2>1, <2>3, <3>2 DEF Reconciled
  <2>4. QED
    BY <2>2, <2>3
<1>3. DiskMoves
  BY <1>2 DEF DiskMoves, Stable
<1>4. LagInv'
  BY <1>1 DEF LagInv
<1>5. QED
  BY <1>3, <1>4

\* Every step of the queue is one of these.
LEMMA NextMoves ==
  ASSUME QueueInv, [Next]_vars
  PROVE  \/ phase # "down" /\ MemoryMoves
         \/ Recover
         \/ phase' = "down" /\ disk' = disk /\ records' = EmptyQueue
         \/ phase = "down" /\ disk' = disk /\ records' = disk
         \/ UNCHANGED <<records, disk, phase>>
<1> DEFINE Goal == phase # "down" /\ MemoryMoves
<1>1. ASSUME NEW j \in Job, Enqueue(j) PROVE Goal
  BY <1>1, EnqueueMoves DEF Enqueue
<1>2. ASSUME Tick PROVE Goal
  BY <1>2, TickMoves DEF Tick, Serving
<1>3. ASSUME NEW r \in runs PROVE phase # "down"
  BY <1>3 DEF QueueInv, TokensUnique
<1>4. ASSUME NEW r \in runs, SettleRevoked(r) PROVE Goal
  BY <1>3, <1>4, IdleMoves DEF SettleRevoked
<1>5. ASSUME NEW r \in runs, NEW o \in Outcomes, Settle(r, o) PROVE Goal
  BY <1>3, <1>5, SettleMoves
<1>6. ASSUME NEW j \in Job, Heartbeat(j) PROVE Goal
  BY <1>6, LeaseMoves DEF Heartbeat, Serving
<1>7. ASSUME NEW c \in calls, NEW published \in BOOLEAN, PublishResolves(c, published)
      PROVE  Goal
  <2>1. phase # "down"
    BY <1>7 DEF QueueInv, TokensUnique
  <2>2. QED
    BY <1>7, <2>1, PublishResolvesMoves
<1>8. ASSUME NEW j \in Job, NEW o \in Outcomes, ResolveRecovered(j, o) PROVE Goal
  BY <1>8, ResolveRecoveredMoves DEF ResolveRecovered, Serving
<1>9. ASSUME NEW j \in Job, AdoptRecovered(j) PROVE Goal
  BY <1>9, LeaseMoves DEF AdoptRecovered, Serving
<1>10. ASSUME BeginShutdown PROVE Goal
  BY <1>10, IdleMoves DEF BeginShutdown
<1>11. ASSUME FinishShutdown PROVE Goal
  BY <1>11, FinishShutdownMoves DEF FinishShutdown
<1>12. ASSUME Crash \/ Exit PROVE phase' = "down" /\ disk' = disk /\ records' = EmptyQueue
  BY <1>12 DEF Crash, Exit, LoseMemory
<1>13. ASSUME Boot PROVE phase = "down" /\ disk' = disk /\ records' = disk
  BY <1>13 DEF Boot
<1>14. ASSUME AdvanceClock \/ UNCHANGED vars PROVE UNCHANGED <<records, disk, phase>>
  BY <1>14 DEF AdvanceClock, vars
<1> HIDE DEF Goal
<1>15. Goal \/ Recover \/ Crash \/ Exit \/ Boot \/ AdvanceClock \/ UNCHANGED vars
  BY <1>1, <1>2, <1>4, <1>5, <1>6, <1>7, <1>8, <1>9, <1>10, <1>11 DEF Next
<1>16. QED
  BY <1>12, <1>13, <1>14, <1>15 DEF Goal

\* Every step keeps memory and snapshot within LagInv of each other.
LEMMA NextLag ==
  ASSUME QueueInv, LagInv, [Next]_vars
  PROVE  LagInv' /\ DiskMoves
<1>1. CASE phase # "down" /\ MemoryMoves
  BY <1>1, MemoryMovesLag
<1>2. CASE Recover
  BY <1>2, RecoverLag
<1>3. CASE phase' = "down" /\ disk' = disk
  BY <1>3, DiskIdle DEF LagInv
<1>4. CASE disk' = disk /\ records' = disk
  BY <1>4, DiskIdle DEF LagInv
<1>5. CASE UNCHANGED <<records, disk, phase>>
  BY <1>5, DiskIdle DEF LagInv, HoldsResult, Before
<1>6. QED
  BY <1>1, <1>2, <1>3, <1>4, <1>5, NextMoves

-----------------------------------------------------------------------------
(* Part 3: the refinement *)

\* The reading of a well-formed record.
LEMMA StatusOf ==
  ASSUME NEW r, GoodRecord(r)
  PROVE  /\ DurableStatus(r) = "unknown" <=> r.state = "absent"
         /\ DurableStatus(r) = "open" <=> r.state = "queued"
         /\ DurableStatus(r) = "working" <=> HoldsWorker(r)
         /\ DurableStatus(r) = "result" <=> HoldsResult(r)
         /\ DurableStatus(r) = "published" <=> r.state = "completed"
         /\ DurableStatus(r) \in {"unknown", "open", "working", "result", "published", "ended"}
         /\ DurableStatus(r) = "ended" => r.state \in Terminal
         /\ DurableStatus(r) \in {"open", "working", "result"} => r.state \in Live
         /\ r.hasResult => DurableStatus(r) \in {"result", "published", "ended"}
<1>1. r.state \in {"absent", "queued", "running", "publishing", "completed", "failed",
                   "cancelled", "superseded"}
  BY DEF GoodRecord, WellFormed, JobRecord, States, Live, Active, Terminal
<1>2. /\ HoldsWorker(r) <=> r.state = "running"
      /\ HoldsResult(r) <=> r.state = "publishing"
  BY <1>1 DEF GoodRecord, WellFormed, HoldsWorker, HoldsResult, Active
<1>3. r.hasResult => r.state \in {"publishing", "completed", "failed", "cancelled", "superseded"}
  BY DEF GoodRecord, WellFormed, Terminal
<1>4. r.state = "absent" => DurableStatus(r) = "unknown"
  BY <1>2 DEF DurableStatus
<1>5. r.state = "queued" => DurableStatus(r) = "open"
  BY <1>2 DEF DurableStatus
<1>6. r.state = "running" => DurableStatus(r) = "working"
  BY <1>2 DEF DurableStatus
<1>7. r.state = "publishing" => DurableStatus(r) = "result"
  BY <1>2 DEF DurableStatus
<1>8. r.state = "completed" => DurableStatus(r) = "published"
  BY <1>2 DEF DurableStatus
<1>9. r.state \in {"failed", "cancelled", "superseded"} => DurableStatus(r) = "ended"
  BY <1>2 DEF DurableStatus
<1>10. QED
  BY <1>1, <1>2, <1>3, <1>4, <1>5, <1>6, <1>7, <1>8, <1>9 DEF Terminal, Live, Active

\* An empty snapshot is an empty ledger.
LEMMA InitLedger ==
  Init => Ledger!Init /\ LagInv
<1> SUFFICES ASSUME Init PROVE Ledger!Init /\ LagInv
  OBVIOUS
<1>1. disk = EmptyQueue /\ records = EmptyQueue
  BY DEF Init
<1>2. \A j \in Job : disk[j] = NoRecord /\ records[j] = NoRecord
  BY <1>1 DEF EmptyQueue
<1>3. DurableStatus(NoRecord) = "unknown" /\ NoRecord.enqueuedAt = 0
      /\ NoRecord.state = "absent"
  BY NoRecordGood, StatusOf DEF NoRecord
<1>4. Ledger!Init
  BY <1>2, <1>3 DEF Ledger!Init
<1>5. LagInv
  BY <1>2, <1>3 DEF LagInv
<1>6. QED
  BY <1>4, <1>5

\* What a step of the queue does to the snapshot is a write of the ledger.
LEMMA WriteLedger ==
  ASSUME QueueInv, QueueInv', SnapshotKept, DiskMoves
  PROVE  Ledger!Write
<1> DEFINE old(j) == DurableStatus(disk[j])
           new(j) == DurableStatus(disk'[j])
<1>1. \A j \in Job : GoodRecord(disk[j]) /\ GoodRecord(disk'[j])
  BY DEF QueueInv, TypeOK, Reclaimable, GoodRecord
<1>2. ASSUME NEW j \in Job
      PROVE  /\ old(j) = "unknown" <=> disk[j].state = "absent"
             /\ new(j) = "unknown" <=> disk'[j].state = "absent"
             /\ old(j) \in {"unknown", "open", "working", "result", "published", "ended"}
             /\ new(j) \in {"unknown", "open", "working", "result", "published", "ended"}
             /\ old(j) \in {"published", "ended"} => new(j) = old(j)
             /\ old(j) = "result" => new(j) \in {"result", "published", "ended"}
             /\ new(j) = "published" /\ old(j) # "published" =>
                  /\ HasPublisher => old(j) = "result"
                  /\ \A k \in Job \ {j} : SamePr(j, k) /\ Before(disk', j, k) =>
                       ~(old(k) \in {"open", "working", "result"}
                         /\ new(k) \in {"open", "working", "result"})
  <2>1. Kept(disk[j], disk'[j])
    BY DEF SnapshotKept
  <2>2. old(j) \in {"published", "ended"} => disk[j].state \in Terminal
    BY <1>1, StatusOf DEF Terminal
  <2>3. old(j) \in {"published", "ended"} => new(j) = old(j)
    BY <2>1, <2>2 DEF Kept
  <2>4. old(j) = "result" => new(j) \in {"result", "published", "ended"}
    <3>1. old(j) = "result" => disk[j].hasResult
      BY <1>1, StatusOf DEF HoldsResult
    <3>2. QED
      BY <1>1, <2>1, <3>1, StatusOf DEF Kept
  <2>5. new(j) = "published" /\ old(j) # "published" =>
          disk'[j].state = "completed" /\ disk[j].state # "completed"
    BY <1>1, StatusOf
  <2>6. \A k \in Job : /\ old(k) \in {"open", "working", "result"} => disk[k].state \in Live
                       /\ new(k) \in {"open", "working", "result"} => disk'[k].state \in Live
    BY <1>1, StatusOf
  <2>7. HoldsResult(disk[j]) => old(j) = "result"
    BY <1>1, StatusOf
  <2>8. new(j) = "published" /\ old(j) # "published" =>
          /\ HasPublisher => old(j) = "result"
          /\ \A k \in Job \ {j} : SamePr(j, k) /\ Before(disk', j, k) =>
               ~(old(k) \in {"open", "working", "result"}
                 /\ new(k) \in {"open", "working", "result"})
    <3> HIDE DEF old, new
    <3>1. QED
      BY <2>5, <2>6, <2>7 DEF DiskMoves
  <2>9. QED
    BY <1>1, <2>3, <2>4, <2>8, StatusOf
<1>3. \A j, k \in Job : j # k /\ PrKeyOf[j] = PrKeyOf[k] =>
        ~(new(j) = "working" /\ new(k) = "working")
  BY <1>1, StatusOf DEF QueueInv, OneWorker, SamePr
<1>4. \A j \in Job : disk[j].state # "absent" => disk'[j].enqueuedAt = disk[j].enqueuedAt
  BY DEF DiskMoves
<1>5. \A j, k \in Job : Ledger!Newer(j, k)' => k # j /\ SamePr(j, k) /\ Before(disk', j, k)
  BY DEF Ledger!Newer, SamePr, Before
<1> HIDE DEF old, new
<1>6. ASSUME NEW j \in Job
      PROVE  \/ new(j) = old(j)
             \/ old(j) \in {"unknown", "open", "working"} /\ new(j) \in {"open", "working"}
             \/ old(j) \in {"unknown", "open", "working"} /\ new(j) = "result"
             \/ old(j) \notin {"published", "ended"} /\ new(j) = "ended"
             \/ /\ old(j) \notin {"published", "ended"}
                /\ HasPublisher => old(j) = "result"
                /\ new(j) = "published"
                /\ \A k \in Job : Ledger!Newer(j, k)' =>
                     ~(old(k) \in {"open", "working", "result"}
                       /\ new(k) \in {"open", "working", "result"})
  <2>1. CASE new(j) = "published" /\ old(j) # "published"
    BY <1>2, <1>5, <2>1
  <2>2. CASE ~(new(j) = "published" /\ old(j) # "published")
    <3>1. new(j) = "unknown" => old(j) = "unknown"
      BY <1>2 DEF DiskMoves
    <3>2. QED
      BY <1>2, <2>2, <3>1
  <2>3. QED
    BY <2>1, <2>2
<1>7. ASSUME NEW j \in Job
      PROVE  /\ \/ Ledger!Kept(j) \/ Ledger!Attempted(j) \/ Ledger!Answered(j)
                \/ Ledger!Ended(j) \/ Ledger!Published(j)
             /\ DurableStatus(disk[j]) # "unknown" =>
                  disk'[j].enqueuedAt = disk[j].enqueuedAt
  <2>1. DurableStatus(disk[j]) # "unknown" => disk'[j].enqueuedAt = disk[j].enqueuedAt
    BY <1>2, <1>4 DEF old
  <2>2. CASE new(j) = old(j)
    BY <2>1, <2>2 DEF Ledger!Kept, old, new
  <2>3. CASE old(j) \in {"unknown", "open", "working"} /\ new(j) \in {"open", "working"}
    BY <2>1, <2>3 DEF Ledger!Attempted, old, new
  <2>4. CASE old(j) \in {"unknown", "open", "working"} /\ new(j) = "result"
    BY <2>1, <2>4 DEF Ledger!Answered, old, new
  <2>5. CASE old(j) \notin {"published", "ended"} /\ new(j) = "ended"
    BY <2>1, <2>5 DEF Ledger!Ended, Ledger!Final, old, new
  <2>6. CASE /\ old(j) \notin {"published", "ended"}
             /\ HasPublisher => old(j) = "result"
             /\ new(j) = "published"
             /\ \A k \in Job : Ledger!Newer(j, k)' =>
                  ~(old(k) \in {"open", "working", "result"}
                    /\ new(k) \in {"open", "working", "result"})
    BY <2>1, <2>6 DEF Ledger!Published, Ledger!Final, Ledger!Pending, old, new
  <2>7. QED
    BY <1>6, <2>2, <2>3, <2>4, <2>5, <2>6
<1>8. Ledger!OneWorking'
  BY <1>3 DEF Ledger!OneWorking, new
<1>9. QED
  BY <1>7, <1>8 DEF Ledger!Write

\* The drift between memory and snapshot stays within LagInv for ever.
LEMMA LagInvariant == Spec => [](QueueInv /\ LagInv)
<1>1. Init => QueueInv /\ LagInv
  BY InitInv, InitLedger
<1>2. QueueInv /\ LagInv /\ [Next]_vars => QueueInv' /\ LagInv'
  BY NextInv, NextLag
<1>3. QED
  BY <1>1, <1>2, PTL DEF Spec

\* The durable queue, with its leases, retries, failing saves, crashes and
\* recoveries, implements the abstract ledger.
THEOREM QueueImplementsLedger == Spec => ImplementsLedger
<1>1. Init => Ledger!Init
  BY InitLedger
<1>2. QueueInv /\ LagInv /\ [Next]_vars => [Ledger!Write]_(Ledger!ledger)
  <2> SUFFICES ASSUME QueueInv, LagInv, [Next]_vars PROVE Ledger!Write
    OBVIOUS
  <2>1. QueueInv' /\ SnapshotKept
    BY NextInv
  <2>2. DiskMoves
    BY NextLag
  <2>3. QED
    BY <2>1, <2>2, WriteLedger
<1>3. QED
  BY <1>1, <1>2, LagInvariant, PTL DEF Spec, ImplementsLedger, Ledger!Spec

\* A generation completes only past the supersession gate, whenever its publish
\* happens to resolve and whatever a restart finds.
THEOREM NewestCompletes == Spec => OnlyNewestCompletes
<1> DEFINE A == \A j \in Job : /\ phase # "down"
                               /\ records[j].state # "completed"
                               /\ records'[j].state = "completed"
                               => MayPublish(records, j)
<1>1. QueueInv /\ [Next]_vars => [A]_vars
  <2> SUFFICES ASSUME QueueInv, [Next]_vars, NEW j \in Job, phase # "down",
                      records[j].state # "completed", records'[j].state = "completed"
               PROVE  MayPublish(records, j)
    OBVIOUS
  <2>1. CASE MemoryMoves
    BY <2>1 DEF MemoryMoves, Stable, Completes
  <2>2. CASE Recover
    <3>1. records'[j] = Reconciled(disk[j]) /\ disk[j] \in JobRecord
      BY <2>2 DEF Recover, QueueInv, TypeOK
    <3>2. disk[j].state = "completed"
      BY <3>1 DEF Reconciled, Retired, JobRecord
    <3>3. records[j] = disk[j]
      BY <3>2 DEF QueueInv, SnapshotLags, Terminal
    <3>4. QED
      BY <3>2, <3>3
  <2>3. CASE records' = EmptyQueue
    BY <2>3 DEF EmptyQueue, NoRecord
  <2>4. QED
    BY <2>1, <2>2, <2>3, NextMoves
<1> HIDE DEF A
<1>2. Spec => [][A]_vars
  BY <1>1, QueueInvariant, PTL DEF Spec
<1>3. QED
  BY <1>2 DEF OnlyNewestCompletes, A

===============================================================================
