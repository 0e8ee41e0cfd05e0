-------------------------- MODULE ReviewQueueProofs --------------------------
(***************************************************************************)
(* Proofs about ReviewQueue, for every set of jobs and every option value. *)
(*                                                                         *)
(* Every handler changes a record in one of three ways: it lets it evolve  *)
(* (Evolves below: no new worker, terminal records and results kept), it   *)
(* starts it, or it creates it. The lemmas of the first part show which    *)
(* operator does which; the second part shows that QueueInv is preserved   *)
(* by every action; the third draws the theorems from it. The fourth       *)
(* counts the worker slots.                                                *)
(***************************************************************************)
EXTENDS ReviewQueue, FiniteSetTheorems, WellFoundedInduction, TLAPS

GoodRecord(r) == r \in JobRecord /\ WellFormed(r)

\* The common shape of all changes of a record but creation and dispatch.
Evolves(r, s) ==
  /\ GoodRecord(s)
  /\ r.state \in Terminal => s = r
  /\ r.hasResult => s.hasResult
  /\ HoldsWorker(s) => HoldsWorker(r)

-----------------------------------------------------------------------------
(* Part 1: the operators on records *)

\* A lease can be cleared from any record without leaving its type.
LEMMA RetiredType ==
  ASSUME NEW r \in JobRecord, NEW s \in States
  PROVE  Retired(r, s) \in JobRecord
BY DEF Retired, JobRecord, Owner

\* The sibling search returns a job or the empty id.
LEMMA FindType ==
  ASSUME NEW recs, NEW j
  PROVE  FindSupersedingSibling(recs, j) \in Job \union {0}
<1> DEFINE newer  == SupersedingSiblings(recs, j)
           newest == {k \in newer : \A l \in newer \ {k} : Before(recs, l, k)}
<1>1. newest \subseteq Job
  BY DEF SupersedingSiblings
<1>2. CASE newest = {}
  BY <1>2 DEF FindSupersedingSibling
<1>3. CASE newest # {}
  <2>1. (CHOOSE k \in newest : TRUE) \in newest
    BY <1>3
  <2>2. FindSupersedingSibling(recs, j) = CHOOSE k \in newest : TRUE
    BY <1>3 DEF FindSupersedingSibling
  <2>3. QED
    BY <2>1, <2>2, <1>1
<1>4. QED
  BY <1>2, <1>3

\* So does the attribution of a supersession.
LEMMA AttributionType ==
  ASSUME NEW recs \in [Job -> JobRecord], NEW j \in Job
  PROVE  Attribution(recs, j) \in Job \union {0}
BY FindType DEF Attribution, JobRecord

\* A superseded record is terminal and keeps its result.
LEMMA SupersededEvolves ==
  ASSUME NEW r, GoodRecord(r), r.state \in Live, NEW by \in Job \union {0}
  PROVE  Evolves(r, SupersededRecord(r, by))
<1>1. SupersededRecord(r, by) \in JobRecord
  BY DEF SupersededRecord, Retired, JobRecord, Owner, States, Terminal, GoodRecord
<1>2. QED
  BY <1>1 DEF SupersededRecord, Retired, JobRecord, Owner, Evolves, GoodRecord,
     WellFormed, HoldsWorker, HoldsResult, Active, Terminal, Live

\* Ending a live generation keeps its result.
LEMMA EndedEvolves ==
  ASSUME NEW r, GoodRecord(r), r.state \in Live, NEW s \in Terminal
  PROVE  Evolves(r, Retired(r, s))
<1>1. Retired(r, s) \in JobRecord
  BY RetiredType DEF GoodRecord, States
<1>2. QED
  BY <1>1 DEF Retired, JobRecord, Evolves, GoodRecord,
     WellFormed, HoldsWorker, HoldsResult, Active, Terminal, Live

\* A record without a result may be requeued while an attempt is left.
LEMMA RequeuedEvolves ==
  ASSUME NEW r, GoodRecord(r), r.state \in Live, ~r.hasResult,
         r.attempt < MaxAttempts, NEW ready \in Nat, NEW retry \in Nat,
         NEW c \in BOOLEAN
  PROVE  Evolves(r, [Retired(r, "queued") EXCEPT !.readyAt = ready,
                       !.nextRetryAt = retry, !.cancelRequested = c])
<1> DEFINE q == [Retired(r, "queued") EXCEPT !.readyAt = ready,
                       !.nextRetryAt = retry, !.cancelRequested = c]
<1>1. q \in JobRecord
  BY RetiredType DEF GoodRecord, States, JobRecord, Live
<1>2. q.state = "queued" /\ q.attempt = r.attempt /\ q.leaseOwner = 0
      /\ q.leaseExpiresAt = 0 /\ q.hasResult = r.hasResult
  BY DEF Retired, JobRecord, GoodRecord
<1> HIDE DEF q
<1>3. Evolves(r, q)
  BY <1>1, <1>2 DEF Evolves, GoodRecord,
     WellFormed, HoldsWorker, HoldsResult, Active, Terminal, Live
<1>4. QED
  BY <1>3 DEF q

\* Evolution is a preorder on well-formed records.
LEMMA EvolvesRefl ==
  ASSUME NEW r, GoodRecord(r) PROVE Evolves(r, r)
BY DEF Evolves

\* An absent record is a good one.
LEMMA NoRecordGood ==
  GoodRecord(NoRecord)
<1>1. 0 \in 0..MaxAttempts
  BY OptionsAssumption
<1>2. QED
  BY <1>1 DEF GoodRecord, NoRecord, JobRecord, WellFormed, States, Live, Active,
     Terminal, Owner

\* Two changes in a row are one change of the same kind.
LEMMA EvolvesTrans ==
  ASSUME NEW r, NEW s, NEW t, Evolves(r, s), Evolves(s, t)
  PROVE  Evolves(r, t)
BY DEF Evolves

\* The backoff is a duration, whatever the power is.
LEMMA BackoffType ==
  ASSUME NEW attempt
  PROVE  Backoff(attempt) \in Nat
<1> DEFINE delay == RetryBase * 2 ^ (attempt - 1)
<1>1. Backoff(attempt) = IF delay \in 0..RetryMax THEN delay ELSE RetryMax
  BY DEF Backoff
<1> HIDE DEF delay
<1>2. QED
  BY <1>1, OptionsAssumption

-----------------------------------------------------------------------------
(* The maintenance passes of tick *)

\* A pass leaves a record alone, requeues it or ends it.
Pass(r, s) == Evolves(r, s) /\ (s = r \/ s.state \in Terminal \union {"queued"})

\* Two passes in a row are a pass.
LEMMA PassTrans ==
  ASSUME NEW r, NEW s, NEW t, Pass(r, s), Pass(s, t)
  PROVE  Pass(r, t)
BY EvolvesTrans DEF Pass

\* expireLeases touches exactly the records with an expired worker lease.
LEMMA LeasePass ==
  ASSUME NEW recs \in [Job -> JobRecord], \A k \in Job : GoodRecord(recs[k]),
         now \in Nat, NEW j \in Job
  PROVE  /\ Pass(recs[j], ExpireLeases(recs)[j])
         /\ LeaseExpired(recs[j]) =>
              ExpireLeases(recs)[j].state \in Terminal \union {"queued"}
         /\ ~LeaseExpired(recs[j]) => ExpireLeases(recs)[j] = recs[j]
<1> DEFINE r == recs[j]
<1>1. GoodRecord(r)
  OBVIOUS
<1>2. CASE ~LeaseExpired(r)
  BY <1>1, <1>2, EvolvesRefl DEF ExpireLeases, Pass
<1>3. CASE LeaseExpired(r)
  <2>1. ExpireLeases(recs)[j] = AfterLeaseExpiry(recs, j)
    BY <1>3 DEF ExpireLeases
  <2>2. r.state \in Live /\ ~r.hasResult /\ r.attempt \in Nat
    BY <1>1, <1>3 DEF LeaseExpired, HoldsWorker, HoldsResult, GoodRecord,
       WellFormed, Live, Active, Terminal, JobRecord
  <2>3. CASE r.attempt >= MaxAttempts
    <3>1. AfterLeaseExpiry(recs, j) = Retired(r, "failed")
      BY <2>3 DEF AfterLeaseExpiry
    <3>2. Evolves(r, Retired(r, "failed"))
      BY <1>1, <2>2, EndedEvolves DEF Terminal
    <3>3. Retired(r, "failed").state = "failed"
      BY <1>1 DEF Retired, GoodRecord, JobRecord
    <3>4. QED
      BY <1>3, <2>1, <3>1, <3>2, <3>3 DEF Pass, Terminal
  <2>4. CASE r.attempt < MaxAttempts /\ SupersedingSiblings(recs, j) # {}
    <3> DEFINE k == FindSupersedingSibling(recs, j)
    <3>1. AfterLeaseExpiry(recs, j) = SupersededRecord(r, k)
      BY <2>2, <2>4, OptionsAssumption DEF AfterLeaseExpiry
    <3>2. k \in Job \union {0}
      BY FindType
    <3> HIDE DEF k
    <3>3. Evolves(r, SupersededRecord(r, k))
      BY <1>1, <2>2, <3>2, SupersededEvolves
    <3>4. SupersededRecord(r, k).state = "superseded"
      BY <1>1 DEF SupersededRecord, Retired, GoodRecord, JobRecord
    <3>5. QED
      BY <1>3, <2>1, <3>1, <3>3, <3>4 DEF Pass, Terminal
  <2>5. CASE r.attempt < MaxAttempts /\ SupersedingSiblings(recs, j) = {}
    <3> DEFINE q == [Retired(r, "queued") EXCEPT !.readyAt = now,
                       !.nextRetryAt = 0, !.cancelRequested = FALSE]
    <3>1. AfterLeaseExpiry(recs, j) = q
      BY <2>2, <2>5, OptionsAssumption DEF AfterLeaseExpiry
    <3>2. Evolves(r, q)
      BY <1>1, <2>2, <2>5, RequeuedEvolves
    <3>3. q.state = "queued"
      BY <1>1 DEF Retired, GoodRecord, JobRecord
    <3>4. QED
      BY <1>3, <2>1, <3>1, <3>2, <3>3 DEF Pass
  <2>6. QED
    BY <2>2, <2>3, <2>4, <2>5, OptionsAssumption
<1>4. QED
  BY <1>2, <1>3

\* expireDeadlines ends exactly the live records past their deadline.
LEMMA DeadlinePass ==
  ASSUME NEW recs \in [Job -> JobRecord], \A k \in Job : GoodRecord(recs[k]),
         NEW j \in Job
  PROVE  /\ Pass(recs[j], ExpireDeadlines(recs)[j])
         /\ DeadlineExpired(recs, j) =>
              ExpireDeadlines(recs)[j].state \in Terminal \union {"queued"}
         /\ ~DeadlineExpired(recs, j) => ExpireDeadlines(recs)[j] = recs[j]
<1>1. GoodRecord(recs[j])
  OBVIOUS
<1>2. CASE ~DeadlineExpired(recs, j)
  BY <1>1, <1>2, EvolvesRefl DEF ExpireDeadlines, Pass
<1>3. CASE DeadlineExpired(recs, j)
  <2>1. ExpireDeadlines(recs)[j] = Retired(recs[j], "cancelled")
    BY <1>3 DEF ExpireDeadlines
  <2>2. Evolves(recs[j], Retired(recs[j], "cancelled"))
    BY <1>1, <1>3, EndedEvolves DEF Terminal, DeadlineExpired
  <2>3. Retired(recs[j], "cancelled").state = "cancelled"
    BY <1>1 DEF Retired, GoodRecord, JobRecord
  <2>4. QED
    BY <1>3, <2>1, <2>2, <2>3 DEF Pass, Terminal
<1>4. QED
  BY <1>2, <1>3

\* retryPublishes ends exactly the due records that may no longer publish.
LEMMA RetryPass ==
  ASSUME NEW recs \in [Job -> JobRecord], \A k \in Job : GoodRecord(recs[k]),
         NEW j \in Job
  PROVE  /\ Pass(recs[j], RetryPublishes(recs)[j])
         /\ ~(PublishDue(recs, j) /\ ~MayPublish(recs, j)) =>
              RetryPublishes(recs)[j] = recs[j]
<1>1. GoodRecord(recs[j])
  OBVIOUS
<1>2. CASE ~(PublishDue(recs, j) /\ ~MayPublish(recs, j))
  BY <1>1, <1>2, EvolvesRefl DEF RetryPublishes, Pass
<1>3. CASE PublishDue(recs, j) /\ ~MayPublish(recs, j)
  <2> DEFINE k == FindSupersedingSibling(recs, j)
  <2>1. RetryPublishes(recs)[j] = SupersededRecord(recs[j], k)
    BY <1>3 DEF RetryPublishes
  <2>2. k \in Job \union {0}
    BY FindType
  <2> HIDE DEF k
  <2>3. Evolves(recs[j], SupersededRecord(recs[j], k))
    BY <1>1, <1>3, <2>2, SupersededEvolves
    DEF PublishDue, HoldsResult, Live, Active
  <2>4. SupersededRecord(recs[j], k).state = "superseded"
    BY <1>1 DEF SupersededRecord, Retired, GoodRecord, JobRecord
  <2>5. QED
    BY <1>3, <2>1, <2>3, <2>4 DEF Pass, Terminal
<1>4. QED
  BY <1>2, <1>3

\* The three passes together.
LEMMA MaintainedFacts ==
  ASSUME QueueInv
  PROVE  /\ Maintained \in [Job -> JobRecord]
         /\ \A j \in Job :
              /\ Pass(records[j], Maintained[j])
              /\ j \in Forgotten =>
                   Maintained[j].state \in Terminal \union {"queued"}
              /\ j \notin Forgotten /\ Maintained[j] # records[j] =>
                   HoldsResult(records[j]) /\ j \notin publishInFlight
              /\ j \in Fired => /\ Maintained[j] = records[j]
                                /\ HoldsResult(records[j])
                                /\ j \notin publishInFlight
<1> DEFINE a == ExpireLeases(records)
           b == ExpireDeadlines(a)
<1>1. records \in [Job -> JobRecord] /\ now \in Nat
      /\ \A k \in Job : GoodRecord(records[k])
  BY DEF QueueInv, TypeOK, Reclaimable, GoodRecord
<1>2. \A j \in Job :
        /\ Pass(records[j], a[j])
        /\ LeaseExpired(records[j]) => a[j].state \in Terminal \union {"queued"}
        /\ ~LeaseExpired(records[j]) => a[j] = records[j]
  BY <1>1, LeasePass
<1>3. a \in [Job -> JobRecord] /\ \A k \in Job : GoodRecord(a[k])
  BY <1>2 DEF Pass, Evolves, GoodRecord, ExpireLeases
<1> HIDE DEF a
<1>4. \A j \in Job :
        /\ Pass(a[j], b[j])
        /\ DeadlineExpired(a, j) => b[j].state \in Terminal \union {"queued"}
        /\ ~DeadlineExpired(a, j) => b[j] = a[j]
  BY <1>3, DeadlinePass
<1>5. b \in [Job -> JobRecord] /\ \A k \in Job : GoodRecord(b[k])
  BY <1>4 DEF Pass, Evolves, GoodRecord, ExpireDeadlines
<1>6. Forgotten = {j \in Job : LeaseExpired(records[j]) \/ DeadlineExpired(a, j)}
  BY DEF Forgotten, a
<1>7. Fired = {j \in Job : PublishDue(b, j) /\ MayPublish(b, j)}
      /\ Maintained = RetryPublishes(b)
  BY DEF Fired, Maintained, a
<1> HIDE DEF b
<1>8. \A j \in Job :
        /\ Pass(b[j], Maintained[j])
        /\ ~(PublishDue(b, j) /\ ~MayPublish(b, j)) => Maintained[j] = b[j]
  BY <1>5, <1>7, RetryPass
<1>9. Maintained \in [Job -> JobRecord]
  BY <1>7, <1>8 DEF Pass, Evolves, GoodRecord, RetryPublishes
<1>10. ASSUME NEW j \in Job
       PROVE  /\ Pass(records[j], Maintained[j])
              /\ j \in Forgotten =>
                   Maintained[j].state \in Terminal \union {"queued"}
              /\ j \notin Forgotten /\ Maintained[j] # records[j] =>
                   HoldsResult(records[j]) /\ j \notin publishInFlight
              /\ j \in Fired => /\ Maintained[j] = records[j]
                                /\ HoldsResult(records[j])
                                /\ j \notin publishInFlight
  <2>1. Pass(records[j], b[j])
    BY <1>2, <1>4, PassTrans
  <2>2. Pass(records[j], Maintained[j])
    BY <2>1, <1>8, PassTrans
  <2>3. j \in Forgotten => b[j].state \in Terminal \union {"queued"}
    BY <1>2, <1>4, <1>6 DEF Pass
  <2>4. j \in Forgotten => Maintained[j].state \in Terminal \union {"queued"}
    BY <2>3, <1>8 DEF Pass
  <2>5. j \notin Forgotten => b[j] = records[j]
    BY <1>2, <1>4, <1>6
  <2>6. j \notin Forgotten /\ Maintained[j] # records[j] =>
          HoldsResult(records[j]) /\ j \notin publishInFlight
    BY <2>5, <1>8 DEF PublishDue
  <2>7. ASSUME j \in Fired
        PROVE  /\ Maintained[j] = records[j]
               /\ HoldsResult(records[j])
               /\ j \notin publishInFlight
    <3>1. HoldsResult(b[j]) /\ j \notin publishInFlight /\ Maintained[j] = b[j]
      BY <2>7, <1>7, <1>8 DEF PublishDue
    <3>2. j \notin Forgotten
      BY <3>1, <2>3 DEF HoldsResult, Terminal
    <3>3. QED
      BY <3>1, <3>2, <2>5
  <2>8. QED
    BY <2>2, <2>4, <2>6, <2>7
<1>11. QED
  BY <1>9, <1>10

-----------------------------------------------------------------------------
(* Dispatch *)

\* A dispatched record is well formed and runs under its token.
LEMMA StartedGood ==
  ASSUME NEW r, GoodRecord(r), r.state = "queued", now \in Nat,
         NEW token \in Nat \ {0}
  PROVE  /\ GoodRecord(Started(r, token))
         /\ Started(r, token).state = "running"
         /\ Started(r, token).leaseOwner = token
         /\ Started(r, token).hasResult = FALSE
<1> DEFINE n == r.attempt + 1
           e == now + LeaseTtl
           t == [r EXCEPT !.state = "running", !.attempt = n,
                          !.leaseOwner = token, !.leaseExpiresAt = e]
<1>1. n \in 0..MaxAttempts /\ e \in Nat /\ e > 0
  BY OptionsAssumption DEF GoodRecord, WellFormed, JobRecord
<1>2. Started(r, token) = t
  BY DEF Started
<1> HIDE DEF n, e
<1>3. t \in JobRecord
  BY <1>1 DEF GoodRecord, JobRecord, Owner, States, Live, Active
<1>4. t.state = "running" /\ t.leaseOwner = token /\ t.leaseExpiresAt = e
      /\ t.hasResult = r.hasResult
  BY DEF GoodRecord, JobRecord
<1>5. r.hasResult = FALSE
  BY DEF GoodRecord, WellFormed, JobRecord, Terminal
<1> HIDE DEF t
<1>6. QED
  BY <1>1, <1>2, <1>3, <1>4, <1>5 DEF GoodRecord, WellFormed, Active

\* The tokens of one pass are new to the process and fit its counter.
LEMMA TokenFacts ==
  ASSUME NEW recs \in [Job -> JobRecord], NEW started \in SUBSET Job,
         NEW j \in started, leaseTokenCounter \in Nat
  PROVE  /\ TokenOf(recs, started, j) \in Nat
         /\ TokenOf(recs, started, j) > leaseTokenCounter
         /\ TokenOf(recs, started, j) <= leaseTokenCounter + Cardinality(started)
         /\ Cardinality(started) \in Nat
<1> DEFINE earlier == {k \in started : Before(recs, k, j)}
<1>1. IsFiniteSet(started) /\ Cardinality(started) \in Nat
  BY JobAssumption, FS_Subset, FS_CardinalityType
<1>2. ~Before(recs, j, j)
  BY JobAssumption DEF Before, JobRecord
<1>3. earlier \subseteq started \ {j}
  BY <1>2
<1>4. IsFiniteSet(started \ {j})
      /\ Cardinality(started \ {j}) = Cardinality(started) - 1
  BY <1>1, FS_RemoveElement
<1>5. IsFiniteSet(earlier) /\ Cardinality(earlier) \in Nat
      /\ Cardinality(earlier) <= Cardinality(started) - 1
  BY <1>3, <1>4, FS_Subset, FS_CardinalityType
<1>6. TokenOf(recs, started, j) = leaseTokenCounter + 1 + Cardinality(earlier)
  BY DEF TokenOf
<1> HIDE DEF earlier
<1>7. QED
  BY <1>1, <1>5, <1>6

-----------------------------------------------------------------------------
(* Part 2: the actions preserve QueueInv *)

\* What every change of a record in memory keeps, dispatch and creation included.
Kept(r, s) ==
  /\ GoodRecord(s)
  /\ r.state \in Terminal => s = r
  /\ r.hasResult => s.hasResult

\* What every step keeps of the snapshot.
SnapshotKept == \A j \in Job : Kept(disk[j], disk'[j])

\* The parts of the invariant that relate memory and snapshot, for any step of
\* a live process that keeps what is final and whose save returned or threw.
LEMMA MemoryStep ==
  ASSUME QueueInv, phase # "down",
         records' \in [Job -> JobRecord],
         \A j \in Job : Kept(records[j], records'[j]),
         OneWorker(records'),
         disk' \in {disk, records'}
  PROVE  /\ disk' \in [Job -> JobRecord]
         /\ Reclaimable'
         /\ SnapshotKept
         /\ OneWorker(disk')
         /\ \A j \in Job : /\ disk'[j].state \in Terminal => records'[j] = disk'[j]
                           /\ disk'[j].hasResult => records'[j].hasResult
<1>1. disk \in [Job -> JobRecord] /\ OneWorker(disk)
      /\ \A j \in Job : WellFormed(disk[j])
  BY DEF QueueInv, TypeOK, Reclaimable
<1>2. \A j \in Job : WellFormed(records'[j])
  BY DEF Kept, GoodRecord
<1>3. \A j \in Job : /\ disk[j].state \in Terminal => records[j] = disk[j]
                     /\ disk[j].hasResult => records[j].hasResult
  BY DEF QueueInv, SnapshotLags
<1>4. \A j \in Job : /\ disk[j].state \in Terminal => records'[j] = disk[j]
                     /\ disk[j].hasResult => records'[j].hasResult
  BY <1>3 DEF Kept
<1>5. CASE disk' = disk
  BY <1>1, <1>2, <1>4, <1>5 DEF Reclaimable, SnapshotKept, Kept, GoodRecord
<1>6. CASE disk' = records'
  BY <1>2, <1>4, <1>6 DEF Reclaimable, SnapshotKept, Kept, GoodRecord
<1>7. QED
  BY <1>5, <1>6

\* A step that does not save keeps the snapshot.
LEMMA SnapshotIdle ==
  ASSUME QueueInv, disk' = disk
  PROVE  SnapshotKept
BY DEF SnapshotKept, Kept, GoodRecord, QueueInv, TypeOK, Reclaimable

\* No new worker, no second worker.
LEMMA OneWorkerKept ==
  ASSUME NEW recs, OneWorker(recs), NEW recs2,
         \A j \in Job : HoldsWorker(recs2[j]) => HoldsWorker(recs[j])
  PROVE  OneWorker(recs2)
BY DEF OneWorker

\* The publish bookkeeping is undisturbed by a step that neither starts nor
\* settles a call and gives no record a result or takes one away.
LEMMA CallsKept ==
  ASSUME QueueInv, phase # "down",
         UNCHANGED <<calls, publishInFlight>>,
         \A j \in Job : HoldsResult(records'[j]) <=> HoldsResult(records[j]),
         disk' \in {disk, records'}
  PROVE  /\ OneCallPerJob'
         /\ CalledResultIsDurable'
         /\ \A j \in Job : HoldsResult(records'[j]) /\ j \notin publishInFlight'
                             => HoldsResult(disk'[j])
<1>1. calls \subseteq Call /\ OneCallPerJob /\ CalledResultIsDurable
  BY DEF QueueInv, TypeOK
<1>2. \A c \in calls : c.job \in Job
  BY <1>1 DEF Call
<1>3. OneCallPerJob'
  BY <1>1 DEF OneCallPerJob
<1>4. CalledResultIsDurable'
  BY <1>1, <1>2 DEF CalledResultIsDurable
<1>5. \A j \in Job : HoldsResult(records[j]) /\ j \notin publishInFlight
                     => HoldsResult(disk[j])
  BY DEF QueueInv, SnapshotLags
<1>6. QED
  BY <1>3, <1>4, <1>5

\* Aborting keeps every run's identity and only ever sets its flag.
LEMMA AbortedFacts ==
  ASSUME NEW J, QueueInv
  PROVE  /\ Aborted(J) \subseteq Run
         /\ \A q \in Aborted(J) : \E r \in runs :
              /\ q.job = r.job /\ q.token = r.token
              /\ ~q.aborted => ~r.aborted /\ ~(r.job \in J /\ controllers[r.job] = r.token)
         /\ \A p, q \in Aborted(J) : p.job = q.job /\ p.token = q.token => p = q
         /\ runs = {} => Aborted(J) = {}
<1> DEFINE F(r) == [r EXCEPT !.aborted = @ \/ (r.job \in J /\ controllers[r.job] = r.token)]
<1>1. runs \subseteq Run
  BY DEF QueueInv, TypeOK
<1>2. ASSUME NEW r \in runs
      PROVE  /\ F(r) \in Run /\ F(r).job = r.job /\ F(r).token = r.token
             /\ ~F(r).aborted => ~r.aborted /\ ~(r.job \in J /\ controllers[r.job] = r.token)
  BY <1>1, Zenon DEF Run
<1>3. Aborted(J) = {F(r) : r \in runs}
  BY DEF Aborted
<1> HIDE DEF F
<1>4. \A r, q \in runs : r.job = q.job /\ r.token = q.token => r = q
  BY DEF QueueInv, TokensUnique
<1>5. QED
  BY <1>2, <1>3, <1>4

\* enqueue: the new generation enters queued, older ones are superseded or
\* stamped and aborted.
LEMMA EnqueueInv ==
  ASSUME QueueInv, NEW j \in Job, Enqueue(j)
  PROVE  QueueInv' /\ SnapshotKept
<1> DEFINE older == {k \in Job \ {j} : SamePr(j, k)}
           J == {k \in older : records[k].state \in Active}
<1>0. TypeOK /\ Reclaimable /\ OneWorker(records) /\ TokensUnique
      /\ RunsMatchLeases
  BY DEF QueueInv
<1>1. /\ phase = "up" /\ phase' = phase /\ now' = now
      /\ leaseTokenCounter' = leaseTokenCounter /\ controllers' = controllers
      /\ UNCHANGED <<calls, publishInFlight>> /\ crashes' = crashes
      /\ records[j].state = "absent"
      /\ records' = [k \in Job |-> IF k = j THEN NewJobRecord
                                   ELSE IF k \in older THEN Superseded(k, j)
                                   ELSE records[k]]
      /\ runs' = Aborted(J)
  BY DEF Enqueue
<1>2. disk' \in {disk, records'} /\ saveFaults' \in Nat
  BY <1>0 DEF Enqueue, Save, SaveReturns, SaveThrows, TypeOK
<1>3. ASSUME NEW k \in Job
      PROVE  /\ Kept(records[k], records'[k])
             /\ HoldsWorker(records'[k]) => HoldsWorker(records[k])
             /\ HoldsResult(records'[k]) <=> HoldsResult(records[k])
             /\ \/ /\ records'[k].state = records[k].state
                   /\ records'[k].leaseOwner = records[k].leaseOwner
                \/ /\ records[k].leaseOwner = 0 /\ records'[k].leaseOwner = 0
                   /\ records[k].state \notin Active
  <2>1. records[k] \in JobRecord /\ WellFormed(records[k])
    BY <1>0 DEF TypeOK, Reclaimable
  <2>2. CASE k = j
    <3> DEFINE e == now + SettleWindow
    <3>1. now \in Nat /\ e \in Nat
      BY <1>0, OptionsAssumption DEF TypeOK
    <3>2. records'[k] = [NoRecord EXCEPT !.state = "queued", !.enqueuedAt = now,
                                         !.readyAt = e]
      BY <1>1, <2>2 DEF NewJobRecord
    <3> HIDE DEF e
    <3>0. 0 \in 0..MaxAttempts /\ NoRecord \in JobRecord
      BY NoRecordGood DEF GoodRecord, JobRecord, NoRecord
    <3>3. records'[k] \in JobRecord
      BY <3>0, <3>1, <3>2 DEF JobRecord, States, Live
    <3>4. records'[k].state = "queued" /\ records'[k].attempt = 0
          /\ records'[k].leaseOwner = 0 /\ records'[k].leaseExpiresAt = 0
          /\ records'[k].hasResult = FALSE
      BY <3>2 DEF NoRecord
    <3>5. records[k].state = "absent" /\ records[k].leaseOwner = 0
          /\ records[k].hasResult = FALSE
      BY <1>1, <2>1, <2>2 DEF WellFormed, Active, Terminal, JobRecord
    <3>6. GoodRecord(records'[k])
      BY <3>3, <3>4, OptionsAssumption DEF GoodRecord, WellFormed, Active, Terminal
    <3>7. QED
      BY <3>4, <3>5, <3>6 DEF Kept, HoldsWorker, HoldsResult, Active, Terminal
  <2>3. CASE k \in older /\ records[k].state = "queued"
    <3>1. records'[k] = SupersededRecord(records[k], j)
      BY <1>1, <2>3 DEF Superseded, Active
    <3>2. Evolves(records[k], records'[k])
      BY <2>1, <2>3, <3>1, SupersededEvolves DEF GoodRecord, Live
    <3>3. records'[k].state = "superseded" /\ records'[k].leaseOwner = 0
      BY <2>1, <3>1 DEF SupersededRecord, Retired, JobRecord
    <3>4. records[k].leaseOwner = 0
      BY <2>1, <2>3 DEF WellFormed, Active
    <3>5. QED
      BY <2>3, <3>2, <3>3, <3>4 DEF Evolves, Kept, HoldsResult, Active
  <2>4. CASE k \in older /\ records[k].state \in Active
    <3>1. records'[k] = [records[k] EXCEPT !.cancelRequested = TRUE,
                                           !.supersededBy = j]
      BY <1>1, <2>4 DEF Superseded, Active
    <3>2. records'[k] \in JobRecord
      BY <2>1, <3>1 DEF JobRecord
    <3>3. records'[k].state = records[k].state
          /\ records'[k].attempt = records[k].attempt
          /\ records'[k].leaseOwner = records[k].leaseOwner
          /\ records'[k].leaseExpiresAt = records[k].leaseExpiresAt
          /\ records'[k].hasResult = records[k].hasResult
      BY <2>1, <3>1 DEF JobRecord
    <3>4. QED
      BY <2>1, <2>4, <3>2, <3>3 DEF Kept, GoodRecord, WellFormed, HoldsWorker,
         HoldsResult, Active, Terminal
  <2>5. CASE k # j /\ (k \notin older \/ records[k].state \notin {"queued"} \union Active)
    <3>1. records'[k] = records[k]
      BY <1>1, <2>5 DEF Superseded
    <3>2. QED
      BY <2>1, <3>1 DEF Kept, GoodRecord
  <2>6. QED
    BY <2>2, <2>3, <2>4, <2>5
<1>4. records' \in [Job -> JobRecord]
  BY <1>1, <1>3 DEF Kept, GoodRecord
<1>5. OneWorker(records')
  BY <1>0, <1>3, OneWorkerKept
<1>6. /\ disk' \in [Job -> JobRecord]
      /\ Reclaimable'
      /\ SnapshotKept
      /\ OneWorker(disk')
      /\ \A k \in Job : /\ disk'[k].state \in Terminal => records'[k] = disk'[k]
                        /\ disk'[k].hasResult => records'[k].hasResult
  BY <1>1, <1>2, <1>3, <1>4, <1>5, MemoryStep
<1>7. /\ OneCallPerJob'
      /\ CalledResultIsDurable'
      /\ \A k \in Job : HoldsResult(records'[k]) /\ k \notin publishInFlight'
                          => HoldsResult(disk'[k])
  BY <1>1, <1>2, <1>3, CallsKept
<1>8. TypeOK'
  BY <1>0, <1>1, <1>2, <1>4, <1>6, AbortedFacts DEF TypeOK
<1>9. TokensUnique'
  <2>1. /\ Aborted(J) \subseteq Run
        /\ \A q \in Aborted(J) : \E r \in runs : q.job = r.job /\ q.token = r.token
        /\ \A p, q \in Aborted(J) : p.job = q.job /\ p.token = q.token => p = q
    BY AbortedFacts
  <2>2. \A q \in runs' : q.token > 0 /\ q.token <= leaseTokenCounter'
    BY <1>0, <1>1, <2>1 DEF TokensUnique
  <2>3. QED
    BY <1>1, <2>1, <2>2 DEF TokensUnique
<1>10. RunsMatchLeases'
  <2> SUFFICES ASSUME NEW q \in runs'
               PROVE  /\ ~q.aborted => ~Revoked(q.job, q.token)'
                      /\ ~Revoked(q.job, q.token)' =>
                           /\ records'[q.job].state = "running"
                           /\ controllers'[q.job] = q.token
    BY DEF RunsMatchLeases
  <2>1. PICK r \in runs : /\ q.job = r.job /\ q.token = r.token
                          /\ ~q.aborted => ~r.aborted
    BY <1>1, AbortedFacts
  <2>2. r.job \in Job /\ r.token > 0 /\ r.token \in Nat
    BY <1>0 DEF TypeOK, Run, TokensUnique
  <2>3. Revoked(q.job, q.token)' <=> Revoked(r.job, r.token)
    BY <1>3, <2>1, <2>2 DEF Revoked
  <2>4. ~Revoked(r.job, r.token) => records'[r.job].state = records[r.job].state
    BY <1>3, <2>2 DEF Revoked
  <2>5. QED
    BY <1>0, <1>1, <2>1, <2>3, <2>4 DEF RunsMatchLeases
<1>11. SnapshotLags'
  BY <1>6, <1>7 DEF SnapshotLags
<1>12. QED
  BY <1>5, <1>6, <1>7, <1>8, <1>9, <1>10, <1>11 DEF QueueInv

\* A step of a live process that lets one record evolve and leaves the others.
LEMMA OneRecordStep ==
  ASSUME QueueInv, phase # "down", NEW j \in Job, NEW s,
         Evolves(records[j], s),
         records' = [records EXCEPT ![j] = s],
         disk' \in {disk, records'}
  PROVE  /\ records' \in [Job -> JobRecord] /\ disk' \in [Job -> JobRecord]
         /\ records'[j] = s /\ \A k \in Job \ {j} : records'[k] = records[k]
         /\ Reclaimable' /\ SnapshotKept /\ OneWorker(records') /\ OneWorker(disk')
         /\ \A k \in Job : /\ disk'[k].state \in Terminal => records'[k] = disk'[k]
                           /\ disk'[k].hasResult => records'[k].hasResult
<1>1. records \in [Job -> JobRecord] /\ OneWorker(records)
      /\ \A k \in Job : GoodRecord(records[k])
  BY DEF QueueInv, TypeOK, Reclaimable, GoodRecord
<1>2. records'[j] = s /\ \A k \in Job \ {j} : records'[k] = records[k]
  BY <1>1
<1>3. \A k \in Job : Evolves(records[k], records'[k])
  BY <1>1, <1>2, EvolvesRefl
<1>4. \A k \in Job : Kept(records[k], records'[k])
                     /\ (HoldsWorker(records'[k]) => HoldsWorker(records[k]))
  BY <1>3 DEF Evolves, Kept
<1>5. records' \in [Job -> JobRecord]
  BY <1>1, <1>2 DEF Evolves, GoodRecord
<1>6. OneWorker(records')
  BY <1>1, <1>4, OneWorkerKept
<1>7. QED
  BY <1>2, <1>4, <1>5, <1>6, MemoryStep

\* A record whose lease is renewed or taken over by o.
Leased(r, o) == [r EXCEPT !.leaseOwner = o, !.leaseExpiresAt = now + LeaseTtl]

\* Renewing or adopting a lease changes nothing else of an active record.
LEMMA LeaseEvolves ==
  ASSUME NEW r, GoodRecord(r), r.state \in Active, now \in Nat,
         NEW o \in Owner \ {0}
  PROVE  /\ Evolves(r, Leased(r, o))
         /\ Leased(r, o).state = r.state /\ Leased(r, o).leaseOwner = o
         /\ HoldsResult(Leased(r, o)) <=> HoldsResult(r)
<1> DEFINE e == now + LeaseTtl
           s == Leased(r, o)
<1>1. e \in Nat /\ e > 0
  BY OptionsAssumption
<1>2. s = [r EXCEPT !.leaseOwner = o, !.leaseExpiresAt = e]
  BY DEF Leased
<1> HIDE DEF e, s
<1>3. s \in JobRecord
  BY <1>1, <1>2 DEF GoodRecord, JobRecord
<1>4. s.state = r.state /\ s.attempt = r.attempt /\ s.hasResult = r.hasResult
      /\ s.leaseOwner = o /\ s.leaseExpiresAt = e
  BY <1>2 DEF GoodRecord, JobRecord
<1>5. Evolves(r, s) /\ (HoldsResult(s) <=> HoldsResult(r))
  BY <1>1, <1>3, <1>4 DEF Evolves, GoodRecord, WellFormed, HoldsWorker,
     HoldsResult, Active, Terminal
<1>6. QED
  BY <1>4, <1>5 DEF s

\* The runs of a step that leaves them, their jobs' states and owners alone,
\* or moves the lease of a job none of whose runs is current.
LEMMA RunsKept ==
  ASSUME QueueInv, NEW j \in Job,
         UNCHANGED <<runs, leaseTokenCounter, controllers>>,
         phase' = phase, UNCHANGED calls,
         \A k \in Job \ {j} : records'[k] = records[k],
         \/ /\ records'[j].state = records[j].state
            /\ records'[j].leaseOwner = records[j].leaseOwner
         \/ /\ \A r \in runs : r.job = j => Revoked(r.job, r.token)
            /\ \A r \in runs : r.job = j => Revoked(r.job, r.token)'
  PROVE  TokensUnique' /\ RunsMatchLeases'
<1>1. TokensUnique /\ RunsMatchLeases /\ runs \subseteq Run
  BY DEF QueueInv, TypeOK
<1>2. TokensUnique'
  BY <1>1 DEF TokensUnique
<1>3. ASSUME NEW r \in runs'
      PROVE  /\ ~r.aborted => ~Revoked(r.job, r.token)'
             /\ ~Revoked(r.job, r.token)' => /\ records'[r.job].state = "running"
                                             /\ controllers'[r.job] = r.token
  <2>1. r \in runs /\ r.job \in Job
    BY <1>1 DEF Run
  <2>2. CASE r.job # j
    BY <1>1, <2>1, <2>2 DEF RunsMatchLeases, Revoked
  <2>3. CASE r.job = j
    BY <1>1, <2>1, <2>3 DEF RunsMatchLeases, Revoked
  <2>4. QED
    BY <2>2, <2>3
<1>4. QED
  BY <1>2, <1>3 DEF RunsMatchLeases

\* heartbeat: whoever holds the lease keeps it.
LEMMA HeartbeatInv ==
  ASSUME QueueInv, NEW j \in Job, Heartbeat(j)
  PROVE  QueueInv' /\ SnapshotKept
<1> DEFINE o == records[j].leaseOwner
           s == Leased(records[j], o)
<1>0. TypeOK /\ GoodRecord(records[j])
  BY DEF QueueInv, TypeOK, Reclaimable, GoodRecord
<1>1. /\ phase # "down" /\ phase' = phase
      /\ UNCHANGED <<now, leaseTokenCounter, controllers, runs, calls,
                     publishInFlight, crashes>>
      /\ disk' \in {disk, records'} /\ saveFaults' \in Nat
  BY <1>0 DEF Heartbeat, Serving, Save, SaveReturns, SaveThrows, TypeOK
<1>2. o \in Owner \ {0} /\ now \in Nat /\ records[j].state \in Active
  BY <1>0 DEF Heartbeat, GoodRecord, WellFormed, JobRecord, TypeOK
<1>3. records' = [records EXCEPT ![j] = s]
  BY <1>0 DEF Heartbeat, Leased, GoodRecord, JobRecord, TypeOK
<1>4. /\ Evolves(records[j], s)
      /\ s.state = records[j].state /\ s.leaseOwner = o
      /\ HoldsResult(s) <=> HoldsResult(records[j])
  BY <1>0, <1>2, LeaseEvolves
<1> HIDE DEF s
<1>5. /\ records' \in [Job -> JobRecord] /\ disk' \in [Job -> JobRecord]
      /\ records'[j] = s /\ \A k \in Job \ {j} : records'[k] = records[k]
      /\ Reclaimable' /\ SnapshotKept /\ OneWorker(records') /\ OneWorker(disk')
      /\ \A k \in Job : /\ disk'[k].state \in Terminal => records'[k] = disk'[k]
                        /\ disk'[k].hasResult => records'[k].hasResult
  BY <1>1, <1>3, <1>4, OneRecordStep
<1>6. /\ OneCallPerJob'
      /\ CalledResultIsDurable'
      /\ \A k \in Job : HoldsResult(records'[k]) /\ k \notin publishInFlight'
                          => HoldsResult(disk'[k])
  <2>1. \A k \in Job : HoldsResult(records'[k]) <=> HoldsResult(records[k])
    BY <1>4, <1>5
  <2>2. QED
    BY <1>1, <2>1, CallsKept
<1>7. TokensUnique' /\ RunsMatchLeases'
  BY <1>1, <1>4, <1>5, RunsKept DEF o
<1>8. TypeOK'
  BY <1>0, <1>1, <1>5 DEF TypeOK
<1>9. SnapshotLags'
  BY <1>5, <1>6 DEF SnapshotLags
<1>10. QED
  BY <1>5, <1>6, <1>7, <1>8, <1>9 DEF QueueInv

\* adoptRecovered: an orphan's lease moves to the recovery owner.
LEMMA AdoptRecoveredInv ==
  ASSUME QueueInv, NEW j \in Job, AdoptRecovered(j)
  PROVE  QueueInv' /\ SnapshotKept
<1> DEFINE s == Leased(records[j], RecoveryOwner)
<1>0. TypeOK /\ GoodRecord(records[j]) /\ TokensUnique /\ RunsMatchLeases
  BY DEF QueueInv, TypeOK, Reclaimable, GoodRecord
<1>1. /\ phase # "down" /\ phase' = phase
      /\ UNCHANGED <<now, leaseTokenCounter, controllers, runs, calls,
                     publishInFlight, crashes>>
      /\ disk' \in {disk, records'} /\ saveFaults' \in Nat
  BY <1>0 DEF AdoptRecovered, Serving, Save, SaveReturns, SaveThrows, TypeOK
<1>2. RecoveryOwner \in Owner \ {0} /\ now \in Nat /\ records[j].state \in Active
      /\ controllers[j] = 0
  BY <1>0 DEF AdoptRecovered, Orphaned, Active, TypeOK, Owner, RecoveryOwner
<1>3. records' = [records EXCEPT ![j] = s]
  BY <1>0 DEF AdoptRecovered, Leased, GoodRecord, JobRecord, TypeOK
<1>4. /\ Evolves(records[j], s)
      /\ s.state = records[j].state /\ s.leaseOwner = RecoveryOwner
      /\ HoldsResult(s) <=> HoldsResult(records[j])
  BY <1>0, <1>2, LeaseEvolves
<1> HIDE DEF s
<1>5. /\ records' \in [Job -> JobRecord] /\ disk' \in [Job -> JobRecord]
      /\ records'[j] = s /\ \A k \in Job \ {j} : records'[k] = records[k]
      /\ Reclaimable' /\ SnapshotKept /\ OneWorker(records') /\ OneWorker(disk')
      /\ \A k \in Job : /\ disk'[k].state \in Terminal => records'[k] = disk'[k]
                        /\ disk'[k].hasResult => records'[k].hasResult
  BY <1>1, <1>3, <1>4, OneRecordStep
<1>6. /\ OneCallPerJob'
      /\ CalledResultIsDurable'
      /\ \A k \in Job : HoldsResult(records'[k]) /\ k \notin publishInFlight'
                          => HoldsResult(disk'[k])
  <2>1. \A k \in Job : HoldsResult(records'[k]) <=> HoldsResult(records[k])
    BY <1>4, <1>5
  <2>2. QED
    BY <1>1, <2>1, CallsKept
<1>7. TokensUnique' /\ RunsMatchLeases'
  <2>1. ASSUME NEW r \in runs, r.job = j
        PROVE  Revoked(r.job, r.token) /\ Revoked(r.job, r.token)'
    <3>1. r.token > 0 /\ r.token \in Nat
      BY <1>0 DEF TokensUnique, TypeOK, Run
    <3>2. Revoked(r.job, r.token)
      BY <1>0, <1>2, <2>1, <3>1 DEF RunsMatchLeases
    <3>3. QED
      BY <1>4, <1>5, <2>1, <3>1, <3>2 DEF Revoked, RecoveryOwner
  <2>2. QED
    BY <1>1, <1>5, <2>1, RunsKept
<1>8. TypeOK'
  BY <1>0, <1>1, <1>5 DEF TypeOK
<1>9. SnapshotLags'
  BY <1>5, <1>6 DEF SnapshotLags
<1>10. QED
  BY <1>5, <1>6, <1>7, <1>8, <1>9 DEF QueueInv

-----------------------------------------------------------------------------
(* Executor outcomes *)

\* An outcome moves a running record to queued, to publishing under the same
\* lease with the result in hand, or to a terminal state.
LEMMA OutcomeEvolves ==
  ASSUME QueueInv, NEW j \in Job, records[j].state = "running",
         NEW o \in Outcomes
  PROVE  /\ Evolves(records[j], AfterOutcome(j, o))
         /\ \/ AfterOutcome(j, o).leaseOwner = 0
            \/ AfterOutcome(j, o).leaseOwner = records[j].leaseOwner
               /\ AfterOutcome(j, o).state = "publishing"
<1> DEFINE r == records[j]
<1>0. records \in [Job -> JobRecord] /\ now \in Nat /\ GoodRecord(r)
      /\ r \in JobRecord /\ r.state \in Live /\ ~r.hasResult /\ r.attempt \in Nat
  BY DEF QueueInv, TypeOK, Reclaimable, GoodRecord, WellFormed, JobRecord, Live,
     Active, Terminal
<1>1. CASE o = "cancelled"
  <2>1. AfterOutcome(j, o) = Retired(r, "cancelled")
    BY <1>1 DEF AfterOutcome
  <2>2. Evolves(r, Retired(r, "cancelled"))
    BY <1>0, EndedEvolves DEF Terminal
  <2>3. Retired(r, "cancelled").leaseOwner = 0
    BY <1>0 DEF Retired, JobRecord
  <2>4. QED
    BY <2>1, <2>2, <2>3
<1>2. CASE o = "failed"
  <2>1. AfterOutcome(j, o) = AfterFailure(j)
    BY <1>2 DEF AfterOutcome
  <2>2. CASE r.cancelRequested \/ SupersedingSiblings(records, j) # {}
    <3> DEFINE k == Attribution(records, j)
    <3>1. AfterFailure(j) = SupersededRecord(r, k)
      BY <2>2 DEF AfterFailure
    <3>2. k \in Job \union {0}
      BY <1>0, AttributionType
    <3> HIDE DEF k
    <3>3. Evolves(r, SupersededRecord(r, k))
      BY <1>0, <3>2, SupersededEvolves
    <3>4. SupersededRecord(r, k).leaseOwner = 0
      BY <1>0 DEF SupersededRecord, Retired, JobRecord
    <3>5. QED
      BY <2>1, <3>1, <3>3, <3>4
  <2>3. CASE ~(r.cancelRequested \/ SupersedingSiblings(records, j) # {})
             /\ r.attempt >= MaxAttempts
    <3>1. AfterFailure(j) = Retired(r, "failed")
      BY <2>3 DEF AfterFailure
    <3>2. Evolves(r, Retired(r, "failed"))
      BY <1>0, EndedEvolves DEF Terminal
    <3>3. Retired(r, "failed").leaseOwner = 0
      BY <1>0 DEF Retired, JobRecord
    <3>4. QED
      BY <2>1, <3>1, <3>2, <3>3
  <2>4. CASE ~(r.cancelRequested \/ SupersedingSiblings(records, j) # {})
             /\ r.attempt < MaxAttempts
    <3> DEFINE b == now + Backoff(r.attempt)
               c == r.cancelRequested
               q == [Retired(r, "queued") EXCEPT !.readyAt = now, !.nextRetryAt = b]
               t == [Retired(r, "queued") EXCEPT !.readyAt = now, !.nextRetryAt = b,
                                                 !.cancelRequested = c]
    <3>1. AfterFailure(j) = q
      BY <1>0, <2>4, OptionsAssumption DEF AfterFailure
    <3>2. Backoff(r.attempt) \in Nat
      BY BackoffType
    <3>3. b \in Nat /\ c \in BOOLEAN
      BY <1>0, <3>2 DEF JobRecord
    <3> HIDE DEF b
    <3>4. q = t
      BY <1>0 DEF Retired, JobRecord
    <3>5. t.leaseOwner = 0
      BY <1>0 DEF Retired, JobRecord
    <3> HIDE DEF c
    <3>6. Evolves(r, t)
      BY <1>0, <2>4, <3>3, RequeuedEvolves
    <3>7. QED
      BY <2>1, <3>1, <3>4, <3>5, <3>6
  <2>5. QED
    BY <1>0, <2>2, <2>3, <2>4, OptionsAssumption
<1>3. CASE o = "completed"
  <2> DEFINE p == [r EXCEPT !.state = "publishing", !.hasResult = TRUE]
  <2>1. AfterOutcome(j, o) = IF ~MayPublish(records, j)
                             THEN SupersededRecord(p, Attribution(records, j))
                             ELSE IF ~HasPublisher THEN Retired(p, "completed") ELSE p
    BY <1>3 DEF AfterOutcome, AfterCompletion
  <2>2. p \in JobRecord
    BY <1>0 DEF JobRecord, States, Live, Active
  <2>3. p.state = "publishing" /\ p.hasResult = TRUE /\ p.attempt = r.attempt
        /\ p.leaseOwner = r.leaseOwner /\ p.leaseExpiresAt = r.leaseExpiresAt
    BY <1>0 DEF JobRecord
  <2> HIDE DEF p
  <2>4. GoodRecord(p) /\ Evolves(r, p) /\ p.state \in Live
    BY <1>0, <2>2, <2>3 DEF Evolves, GoodRecord, WellFormed, HoldsWorker,
       HoldsResult, Active, Terminal, Live
  <2>5. CASE ~MayPublish(records, j)
    <3> DEFINE k == Attribution(records, j)
    <3>1. k \in Job \union {0}
      BY <1>0, AttributionType
    <3>2. AfterOutcome(j, o) = SupersededRecord(p, k)
      BY <2>1, <2>5
    <3> HIDE DEF k
    <3>3. Evolves(p, SupersededRecord(p, k))
      BY <2>4, <3>1, SupersededEvolves
    <3>4. SupersededRecord(p, k).leaseOwner = 0
      BY <2>2 DEF SupersededRecord, Retired, JobRecord
    <3>5. QED
      BY <2>4, <3>2, <3>3, <3>4, EvolvesTrans
  <2>6. CASE MayPublish(records, j) /\ ~HasPublisher
    <3>1. AfterOutcome(j, o) = Retired(p, "completed")
      BY <2>1, <2>6
    <3>2. Evolves(p, Retired(p, "completed"))
      BY <2>4, EndedEvolves DEF Terminal
    <3>3. Retired(p, "completed").leaseOwner = 0
      BY <2>2 DEF Retired, JobRecord
    <3>4. QED
      BY <2>4, <3>1, <3>2, <3>3, EvolvesTrans
  <2>7. CASE MayPublish(records, j) /\ HasPublisher
    BY <2>1, <2>3, <2>4, <2>7
  <2>8. QED
    BY <2>5, <2>6, <2>7
<1>4. QED
  BY <1>1, <1>2, <1>3 DEF Outcomes

\* Applying an outcome keeps the snapshot and publish parts of the invariant:
\* the publisher is called only when the save returned, and a save that threw
\* leaves the slot that keeps the retry pass away.
LEMMA ApplyOutcomeStep ==
  ASSUME QueueInv, phase # "down", NEW j \in Job, records[j].state = "running",
         NEW token \in Owner, NEW o \in Outcomes, ApplyOutcome(j, token, o)
  PROVE  /\ records' \in [Job -> JobRecord] /\ disk' \in [Job -> JobRecord]
         /\ records'[j] = AfterOutcome(j, o)
         /\ \A k \in Job \ {j} : records'[k] = records[k]
         /\ Reclaimable' /\ SnapshotKept /\ OneWorker(records') /\ OneWorker(disk')
         /\ OneCallPerJob' /\ CalledResultIsDurable'
         /\ calls' \subseteq Call /\ publishInFlight' \subseteq Job
         /\ saveFaults' \in Nat
         /\ \/ controllers' = controllers
            \/ controllers' = [controllers EXCEPT ![j] = IF @ = token THEN 0 ELSE @]
         /\ \A k \in Job : /\ disk'[k].state \in Terminal => records'[k] = disk'[k]
                           /\ disk'[k].hasResult => records'[k].hasResult
                           /\ HoldsResult(records'[k]) /\ k \notin publishInFlight'
                                => HoldsResult(disk'[k])
<1> DEFINE s == AfterOutcome(j, o)
           publishes == records'[j].state = "publishing" /\ j \notin publishInFlight
           c == [job |-> j, token |-> token, at |-> now]
<1>0. TypeOK /\ OneCallPerJob /\ CalledResultIsDurable
  BY DEF QueueInv
<1>1. /\ records' = [records EXCEPT ![j] = s]
      /\ publishes => SettleToPublish(j, token)
      /\ ~publishes => /\ Save /\ ReleaseController(j, token)
                       /\ UNCHANGED <<calls, publishInFlight>>
  BY DEF ApplyOutcome
<1>2. disk' \in {disk, records'} /\ saveFaults' \in Nat
  BY <1>0, <1>1 DEF SettleToPublish, Save, SaveReturns, SaveThrows, TypeOK
<1>3. /\ publishInFlight' = IF publishes THEN publishInFlight \union {j}
                            ELSE publishInFlight
      /\ \/ calls' = calls
         \/ publishes /\ calls' = calls \union {c} /\ disk' = records'
  BY <1>1 DEF SettleToPublish, SaveReturns
<1>4. \/ controllers' = controllers
      \/ controllers' = [controllers EXCEPT ![j] = IF @ = token THEN 0 ELSE @]
  BY <1>1 DEF SettleToPublish, ReleaseController
<1>5. Evolves(records[j], s)
  BY OutcomeEvolves
<1> HIDE DEF s
<1>6. /\ records' \in [Job -> JobRecord] /\ disk' \in [Job -> JobRecord]
      /\ records'[j] = s /\ \A k \in Job \ {j} : records'[k] = records[k]
      /\ Reclaimable' /\ SnapshotKept /\ OneWorker(records') /\ OneWorker(disk')
      /\ \A k \in Job : /\ disk'[k].state \in Terminal => records'[k] = disk'[k]
                        /\ disk'[k].hasResult => records'[k].hasResult
  BY <1>1, <1>2, <1>5, OneRecordStep
<1>7. c \in Call /\ c.job = j
  BY <1>0 DEF Call, TypeOK
<1>8. \A d \in calls : d.job \in Job /\ d.job # j /\ d.job \in publishInFlight
                       /\ HoldsResult(disk[d.job]) /\ HoldsResult(records[d.job])
  BY <1>0 DEF TypeOK, Call, CalledResultIsDurable, OneCallPerJob, HoldsResult
<1>9. publishes => HoldsResult(records'[j])
  BY <1>6 DEF Reclaimable, WellFormed, HoldsResult
<1> HIDE DEF c, publishes
<1>10. OneCallPerJob'
  BY <1>0, <1>3, <1>7, <1>8 DEF OneCallPerJob
<1>11. CalledResultIsDurable'
  BY <1>2, <1>3, <1>6, <1>7, <1>8, <1>9 DEF CalledResultIsDurable
<1>12. calls' \subseteq Call /\ publishInFlight' \subseteq Job
  BY <1>0, <1>3, <1>7 DEF TypeOK
<1>13. \A k \in Job : HoldsResult(records'[k]) /\ k \notin publishInFlight'
                        => HoldsResult(disk'[k])
  <2>1. HoldsResult(records'[j]) => j \in publishInFlight'
    BY <1>3 DEF publishes, HoldsResult
  <2>2. ASSUME NEW k \in Job \ {j}, HoldsResult(records'[k]), k \notin publishInFlight'
        PROVE  HoldsResult(disk'[k])
    <3>1. HoldsResult(records[k]) /\ k \notin publishInFlight
      BY <1>3, <1>6, <2>2
    <3>2. HoldsResult(disk[k])
      BY <3>1 DEF QueueInv, SnapshotLags
    <3>3. QED
      BY <1>2, <2>2, <3>2
  <2>3. QED
    BY <2>1, <2>2
<1>14. QED
  BY <1>2, <1>4, <1>6, <1>10, <1>11, <1>12, <1>13 DEF s

\* settle of a current run: every other run of the job is of an older dispatch.
LEMMA SettleInv ==
  ASSUME QueueInv, NEW r \in runs, NEW o \in Outcomes, Settle(r, o)
  PROVE  QueueInv' /\ SnapshotKept
<1> DEFINE j == r.job
           token == r.token
<1>0. TypeOK /\ TokensUnique /\ RunsMatchLeases
  BY DEF QueueInv
<1>1. /\ j \in Job /\ token \in Owner /\ phase # "down"
      /\ records[j].state = "running" /\ records[j].leaseOwner = token
      /\ controllers[j] = token
      /\ ApplyOutcome(j, token, o)
      /\ runs' = runs \ {r}
      /\ UNCHANGED <<phase, now, leaseTokenCounter, crashes>>
  BY <1>0 DEF Settle, TypeOK, Run, Owner, RunsMatchLeases, TokensUnique, Revoked
<1>2. /\ records' \in [Job -> JobRecord] /\ disk' \in [Job -> JobRecord]
      /\ records'[j] = AfterOutcome(j, o)
      /\ \A k \in Job \ {j} : records'[k] = records[k]
      /\ Reclaimable' /\ SnapshotKept /\ OneWorker(records') /\ OneWorker(disk')
      /\ OneCallPerJob' /\ CalledResultIsDurable'
      /\ calls' \subseteq Call /\ publishInFlight' \subseteq Job
      /\ saveFaults' \in Nat
      /\ \/ controllers' = controllers
         \/ controllers' = [controllers EXCEPT ![j] = IF @ = token THEN 0 ELSE @]
      /\ \A k \in Job : /\ disk'[k].state \in Terminal => records'[k] = disk'[k]
                        /\ disk'[k].hasResult => records'[k].hasResult
                        /\ HoldsResult(records'[k]) /\ k \notin publishInFlight'
                             => HoldsResult(disk'[k])
  BY <1>1, ApplyOutcomeStep
<1>3. controllers' \in [Job -> Nat]
      /\ \A k \in Job \ {j} : controllers'[k] = controllers[k]
  BY <1>0, <1>1, <1>2 DEF TypeOK
<1>4. TypeOK'
  BY <1>0, <1>1, <1>2, <1>3 DEF TypeOK
<1>5. TokensUnique'
  BY <1>0, <1>1 DEF TokensUnique
<1>6. RunsMatchLeases'
  <2> SUFFICES ASSUME NEW q \in runs'
               PROVE  /\ ~q.aborted => ~Revoked(q.job, q.token)'
                      /\ ~Revoked(q.job, q.token)' =>
                           /\ records'[q.job].state = "running"
                           /\ controllers'[q.job] = q.token
    BY DEF RunsMatchLeases
  <2>1. q \in runs /\ q # r /\ q.job \in Job /\ q.token > 0 /\ q.token \in Nat
    BY <1>0, <1>1 DEF TypeOK, Run, TokensUnique
  <2>2. CASE q.job # j
    BY <1>0, <1>2, <1>3, <2>1, <2>2 DEF RunsMatchLeases, Revoked
  <2>3. CASE q.job = j
    <3>1. q.token # token
      BY <1>0, <2>1, <2>3 DEF TokensUnique
    <3>2. Revoked(q.job, q.token)
      BY <1>1, <2>3, <3>1 DEF Revoked
    <3>3. records'[j].leaseOwner \in {0, token}
      BY <1>1, <1>2, OutcomeEvolves
    <3>4. Revoked(q.job, q.token)'
      BY <2>1, <2>3, <3>1, <3>3 DEF Revoked
    <3>5. QED
      BY <1>0, <2>1, <3>2, <3>4 DEF RunsMatchLeases
  <2>4. QED
    BY <2>2, <2>3
<1>7. SnapshotLags'
  BY <1>2 DEF SnapshotLags
<1>8. QED
  BY <1>2, <1>4, <1>5, <1>6, <1>7 DEF QueueInv

\* A settle the lease token no longer covers only releases its own controller.
LEMMA SettleRevokedInv ==
  ASSUME QueueInv, NEW r \in runs, SettleRevoked(r)
  PROVE  QueueInv' /\ SnapshotKept
<1>0. TypeOK /\ TokensUnique /\ RunsMatchLeases
  BY DEF QueueInv
<1>1. /\ r.job \in Job /\ Revoked(r.job, r.token) /\ runs' = runs \ {r}
      /\ controllers' = [controllers EXCEPT ![r.job] = IF @ = r.token THEN 0 ELSE @]
      /\ UNCHANGED <<records, disk, phase, now, leaseTokenCounter, calls,
                     publishInFlight, crashes, saveFaults>>
  BY <1>0 DEF SettleRevoked, ReleaseController, TypeOK, Run
<1>2. controllers' \in [Job -> Nat]
  BY <1>0, <1>1 DEF TypeOK
<1>3. TypeOK'
  BY <1>0, <1>1, <1>2 DEF TypeOK
<1>4. TokensUnique'
  BY <1>0, <1>1 DEF TokensUnique
<1>5. RunsMatchLeases'
  <2> SUFFICES ASSUME NEW q \in runs'
               PROVE  /\ ~q.aborted => ~Revoked(q.job, q.token)'
                      /\ ~Revoked(q.job, q.token)' =>
                           /\ records'[q.job].state = "running"
                           /\ controllers'[q.job] = q.token
    BY DEF RunsMatchLeases
  <2>1. q \in runs /\ q # r /\ q.job \in Job
    BY <1>0, <1>1 DEF TypeOK, Run
  <2>2. Revoked(q.job, q.token)' <=> Revoked(q.job, q.token)
    BY <1>1 DEF Revoked
  <2>3. q.job # r.job \/ q.token # r.token
    BY <1>0, <2>1 DEF TokensUnique
  <2>4. ~Revoked(q.job, q.token) => controllers'[q.job] = q.token
    BY <1>0, <1>1, <2>1, <2>3 DEF RunsMatchLeases, TypeOK
  <2>5. QED
    BY <1>0, <1>1, <2>1, <2>2, <2>4 DEF RunsMatchLeases
<1>6. Reclaimable' /\ OneWorker(records') /\ OneWorker(disk') /\ OneCallPerJob'
      /\ CalledResultIsDurable' /\ SnapshotLags'
  BY <1>1 DEF QueueInv, Reclaimable, OneCallPerJob, CalledResultIsDurable,
     SnapshotLags
<1>7. QED
  BY <1>1, <1>3, <1>4, <1>5, <1>6, SnapshotIdle DEF QueueInv

\* resolveRecovered: no run of this process is current for an orphan.
LEMMA ResolveRecoveredInv ==
  ASSUME QueueInv, NEW j \in Job, NEW o \in Outcomes, ResolveRecovered(j, o)
  PROVE  QueueInv' /\ SnapshotKept
<1> DEFINE token == records[j].leaseOwner
<1>0. TypeOK /\ TokensUnique /\ RunsMatchLeases /\ records[j] \in JobRecord
      /\ WellFormed(records[j])
  BY DEF QueueInv, TypeOK, Reclaimable
<1>1. /\ token \in Owner /\ token # 0 /\ phase # "down"
      /\ records[j].state = "running" /\ controllers[j] = 0
      /\ ApplyOutcome(j, token, o)
      /\ UNCHANGED <<phase, now, leaseTokenCounter, runs, crashes>>
  BY <1>0 DEF ResolveRecovered, Serving, Orphaned, WellFormed, JobRecord
<1>2. /\ records' \in [Job -> JobRecord] /\ disk' \in [Job -> JobRecord]
      /\ records'[j] = AfterOutcome(j, o)
      /\ \A k \in Job \ {j} : records'[k] = records[k]
      /\ Reclaimable' /\ SnapshotKept /\ OneWorker(records') /\ OneWorker(disk')
      /\ OneCallPerJob' /\ CalledResultIsDurable'
      /\ calls' \subseteq Call /\ publishInFlight' \subseteq Job
      /\ saveFaults' \in Nat
      /\ \/ controllers' = controllers
         \/ controllers' = [controllers EXCEPT ![j] = IF @ = token THEN 0 ELSE @]
      /\ \A k \in Job : /\ disk'[k].state \in Terminal => records'[k] = disk'[k]
                        /\ disk'[k].hasResult => records'[k].hasResult
                        /\ HoldsResult(records'[k]) /\ k \notin publishInFlight'
                             => HoldsResult(disk'[k])
  BY <1>1, ApplyOutcomeStep
<1>3. controllers' = controllers
  BY <1>0, <1>1, <1>2 DEF TypeOK
<1>4. TypeOK'
  BY <1>0, <1>1, <1>2, <1>3 DEF TypeOK
<1>5. TokensUnique'
  <2>1. phase # "down" /\ phase' = phase
    BY <1>1
  <2>2. QED
    BY <1>0, <1>1, <2>1 DEF TokensUnique
<1>6. RunsMatchLeases'
  <2> SUFFICES ASSUME NEW q \in runs'
               PROVE  /\ ~q.aborted => ~Revoked(q.job, q.token)'
                      /\ ~Revoked(q.job, q.token)' =>
                           /\ records'[q.job].state = "running"
                           /\ controllers'[q.job] = q.token
    BY DEF RunsMatchLeases
  <2>1. q \in runs /\ q.job \in Job /\ q.token > 0 /\ q.token \in Nat
    BY <1>0, <1>1 DEF TypeOK, Run, TokensUnique
  <2>2. CASE q.job # j
    BY <1>0, <1>2, <1>3, <2>1, <2>2 DEF RunsMatchLeases, Revoked
  <2>3. CASE q.job = j
    <3>1. Revoked(q.job, q.token)
      BY <1>0, <1>1, <2>1, <2>3 DEF RunsMatchLeases
    <3>2. token # q.token
      BY <1>1, <2>3, <3>1 DEF Revoked, Live, Active
    <3>3. records'[j].leaseOwner \in {0, token}
      BY <1>1, <1>2, OutcomeEvolves
    <3>4. Revoked(q.job, q.token)'
      BY <2>1, <2>3, <3>2, <3>3 DEF Revoked
    <3>5. QED
      BY <1>0, <2>1, <3>1, <3>4 DEF RunsMatchLeases
  <2>4. QED
    BY <2>2, <2>3
<1>7. SnapshotLags'
  BY <1>2 DEF SnapshotLags
<1>8. QED
  BY <1>2, <1>4, <1>5, <1>6, <1>7 DEF QueueInv

-----------------------------------------------------------------------------
(* Publication *)

\* A resolved publish leaves the result in place and always drops the lease.
LEMMA PublishEvolves ==
  ASSUME QueueInv, NEW c \in calls, NEW published \in BOOLEAN
  PROVE  /\ Evolves(records[c.job], AfterPublish(c, published))
         /\ AfterPublish(c, published).leaseOwner = 0
<1> DEFINE r == records[c.job]
<1>0. /\ c.job \in Job /\ c.at \in Nat /\ records \in [Job -> JobRecord]
      /\ HoldsResult(r) /\ GoodRecord(r) /\ r \in JobRecord /\ r.state \in Live
  BY DEF QueueInv, TypeOK, Call, CalledResultIsDurable, Reclaimable, GoodRecord,
     HoldsResult, Live, Active
<1>1. CASE ~MayPublish(records, c.job)
  <2> DEFINE k == Attribution(records, c.job)
  <2>1. AfterPublish(c, published) = SupersededRecord(r, k)
    BY <1>1 DEF AfterPublish
  <2>2. k \in Job \union {0}
    BY <1>0, AttributionType
  <2> HIDE DEF k
  <2>3. Evolves(r, SupersededRecord(r, k))
    BY <1>0, <2>2, SupersededEvolves
  <2>4. SupersededRecord(r, k).leaseOwner = 0
    BY <1>0 DEF SupersededRecord, Retired, JobRecord
  <2>5. QED
    BY <2>1, <2>3, <2>4
<1>2. CASE MayPublish(records, c.job)
  <2> DEFINE n == IF published THEN 0 ELSE c.at + PublishRetryDelay
             e == IF published THEN "completed" ELSE "publishing"
             s == [Retired(r, e) EXCEPT !.nextRetryAt = n]
  <2>1. AfterPublish(c, published) = s
    BY <1>2 DEF AfterPublish
  <2>2. n \in Nat /\ e \in {"completed", "publishing"}
    BY <1>0, OptionsAssumption DEF PublishRetryDelay
  <2> HIDE DEF n, e
  <2>3. s \in JobRecord
    BY <1>0, <2>2, RetiredType DEF JobRecord, States, Live, Active, Terminal
  <2>4. s.state = e /\ s.leaseOwner = 0 /\ s.leaseExpiresAt = 0
        /\ s.hasResult = r.hasResult /\ s.attempt = r.attempt
    BY <1>0 DEF Retired, JobRecord
  <2> HIDE DEF s
  <2>5. Evolves(r, s)
    BY <1>0, <2>2, <2>3, <2>4 DEF Evolves, GoodRecord, WellFormed, HoldsWorker,
       HoldsResult, Active, Terminal, Live
  <2>6. QED
    BY <2>1, <2>4, <2>5
<1>3. QED
  BY <1>1, <1>2

\* runPublish resolving: the slot is freed, and the result it covered is durable.
LEMMA PublishResolvesInv ==
  ASSUME QueueInv, NEW c \in calls, NEW published \in BOOLEAN,
         PublishResolves(c, published)
  PROVE  QueueInv' /\ SnapshotKept
<1> DEFINE j == c.job
<1>0. TypeOK /\ TokensUnique /\ RunsMatchLeases /\ OneCallPerJob
      /\ CalledResultIsDurable /\ calls \subseteq Call
  BY DEF QueueInv, TypeOK
<1>1. /\ j \in Job /\ HoldsResult(disk[j]) /\ HoldsResult(records[j])
      /\ phase # "down"
  BY <1>0 DEF Call, CalledResultIsDurable, TokensUnique
<1>2. /\ calls' = calls \ {c} /\ publishInFlight' = publishInFlight \ {j}
      /\ UNCHANGED <<phase, now, leaseTokenCounter, controllers, runs, crashes>>
  BY DEF PublishResolves
<1>3. PICK s : /\ Evolves(records[j], s)
               /\ records' = [records EXCEPT ![j] = s]
               /\ s = records[j] \/ s.leaseOwner = 0
               /\ disk' \in {disk, records'} /\ saveFaults' \in Nat
  <2>1. CASE PublishVoid(c)
    <3>1. records' = records /\ disk' = disk /\ saveFaults' = saveFaults
      BY <2>1 DEF PublishResolves
    <3>2. records' = [records EXCEPT ![j] = records[j]] /\ GoodRecord(records[j])
      BY <1>0, <1>1, <3>1 DEF TypeOK, QueueInv, Reclaimable, GoodRecord
    <3>3. saveFaults' \in Nat
      BY <1>0, <3>1 DEF TypeOK
    <3>4. Evolves(records[j], records[j])
      BY <3>2, EvolvesRefl
    <3>5. QED
      BY <3>1, <3>2, <3>3, <3>4
  <2>2. CASE ~PublishVoid(c)
    <3>1. records' = [records EXCEPT ![j] = AfterPublish(c, published)] /\ Save
      BY <2>2 DEF PublishResolves
    <3>2. disk' \in {disk, records'} /\ saveFaults' \in Nat
      BY <1>0, <3>1 DEF Save, SaveReturns, SaveThrows, TypeOK
    <3>3. QED
      BY <3>1, <3>2, PublishEvolves
  <2>3. QED
    BY <2>1, <2>2
<1>4. /\ records' \in [Job -> JobRecord] /\ disk' \in [Job -> JobRecord]
      /\ records'[j] = s /\ \A k \in Job \ {j} : records'[k] = records[k]
      /\ Reclaimable' /\ SnapshotKept /\ OneWorker(records') /\ OneWorker(disk')
      /\ \A k \in Job : /\ disk'[k].state \in Terminal => records'[k] = disk'[k]
                        /\ disk'[k].hasResult => records'[k].hasResult
  BY <1>1, <1>3, OneRecordStep
<1>5. \A d \in calls' : d \in calls /\ d.job # j /\ d.job \in Job
  BY <1>0, <1>2 DEF OneCallPerJob, Call
<1>6. OneCallPerJob'
  BY <1>0, <1>2, <1>5 DEF OneCallPerJob
<1>7. CalledResultIsDurable'
  BY <1>0, <1>3, <1>4, <1>5 DEF CalledResultIsDurable
<1>8. \A k \in Job : HoldsResult(records'[k]) /\ k \notin publishInFlight'
                       => HoldsResult(disk'[k])
  <2>1. HoldsResult(records'[j]) => HoldsResult(disk'[j])
    BY <1>1, <1>3
  <2>2. ASSUME NEW k \in Job \ {j}, HoldsResult(records'[k]), k \notin publishInFlight'
        PROVE  HoldsResult(disk'[k])
    <3>1. HoldsResult(records[k]) /\ k \notin publishInFlight
      BY <1>2, <1>4, <2>2
    <3>2. HoldsResult(disk[k])
      BY <1>1, <3>1 DEF QueueInv, SnapshotLags
    <3>3. QED
      BY <1>3, <2>2, <3>2
  <2>3. QED
    BY <2>1, <2>2
<1>9. TokensUnique'
  BY <1>0, <1>1, <1>2 DEF TokensUnique
<1>10. RunsMatchLeases'
  <2> SUFFICES ASSUME NEW q \in runs'
               PROVE  /\ ~q.aborted => ~Revoked(q.job, q.token)'
                      /\ ~Revoked(q.job, q.token)' =>
                           /\ records'[q.job].state = "running"
                           /\ controllers'[q.job] = q.token
    BY DEF RunsMatchLeases
  <2>1. q \in runs /\ q.job \in Job /\ q.token > 0 /\ q.token \in Nat
    BY <1>0, <1>2 DEF TypeOK, Run, TokensUnique
  <2>2. CASE q.job # j
    BY <1>0, <1>2, <1>4, <2>1, <2>2 DEF RunsMatchLeases, Revoked
  <2>3. CASE q.job = j
    <3>1. Revoked(q.job, q.token)
      BY <1>0, <1>1, <2>1, <2>3 DEF RunsMatchLeases, HoldsResult
    <3>2. Revoked(q.job, q.token)'
      BY <1>3, <1>4, <2>1, <2>3, <3>1 DEF Revoked
    <3>3. QED
      BY <1>0, <2>1, <3>1, <3>2 DEF RunsMatchLeases
  <2>4. QED
    BY <2>2, <2>3
<1>11. TypeOK'
  BY <1>0, <1>2, <1>3, <1>4 DEF TypeOK
<1>12. SnapshotLags'
  BY <1>4, <1>8 DEF SnapshotLags
<1>13. QED
  BY <1>4, <1>6, <1>7, <1>9, <1>10, <1>11, <1>12 DEF QueueInv

-----------------------------------------------------------------------------
(* Shutdown, crash and restart *)

\* Steps that only close intake or let time pass.
LEMMA QuietInv ==
  ASSUME QueueInv, BeginShutdown \/ AdvanceClock
  PROVE  QueueInv' /\ SnapshotKept
<1>1. /\ UNCHANGED <<records, disk, leaseTokenCounter, controllers, runs, calls,
                     publishInFlight, crashes, saveFaults>>
      /\ phase' = phase \/ (phase = "up" /\ phase' = "draining")
      /\ now' = now \/ now' = now + 1
  BY DEF BeginShutdown, AdvanceClock
<1>2. TypeOK'
  <2>1. TypeOK /\ now' \in Nat /\ phase' \in Phases
    BY <1>1 DEF QueueInv, TypeOK, Phases
  <2>2. QED
    BY <1>1, <2>1 DEF TypeOK
<1>3. TokensUnique'
  BY <1>1 DEF QueueInv, TokensUnique
<1>4. Reclaimable' /\ OneWorker(records') /\ OneWorker(disk') /\ OneCallPerJob'
      /\ CalledResultIsDurable'
  BY <1>1 DEF QueueInv, Reclaimable, OneCallPerJob, CalledResultIsDurable
<1>5. RunsMatchLeases'
  BY <1>1 DEF QueueInv, RunsMatchLeases, Revoked
<1>6. SnapshotLags'
  BY <1>1 DEF QueueInv, SnapshotLags
<1>7. QED
  BY <1>1, SnapshotIdle, <1>2, <1>3, <1>4, <1>5, <1>6 DEF QueueInv

\* shutdown cancels every worker: no run is current afterwards.
LEMMA FinishShutdownInv ==
  ASSUME QueueInv, FinishShutdown
  PROVE  QueueInv' /\ SnapshotKept
<1>0. TypeOK /\ Reclaimable /\ OneWorker(records) /\ TokensUnique
      /\ RunsMatchLeases
  BY DEF QueueInv
<1>1. /\ phase = "draining" /\ phase' = "stopped"
      /\ records' = [j \in Job |-> IF HoldsWorker(records[j])
                                   THEN Retired(records[j], "cancelled")
                                   ELSE records[j]]
      /\ runs' = Aborted(Job) /\ controllers' = [j \in Job |-> 0]
      /\ UNCHANGED <<now, leaseTokenCounter, calls, publishInFlight, crashes>>
      /\ disk' \in {disk, records'} /\ saveFaults' \in Nat
  BY <1>0 DEF FinishShutdown, Save, SaveReturns, SaveThrows, TypeOK
<1>2. ASSUME NEW k \in Job
      PROVE  /\ Evolves(records[k], records'[k])
             /\ HoldsResult(records'[k]) <=> HoldsResult(records[k])
             /\ records'[k] = records[k] \/ records'[k].leaseOwner = 0
             /\ records[k].state = "running" => records'[k].leaseOwner = 0
  <2>1. records[k] \in JobRecord /\ GoodRecord(records[k])
    BY <1>0 DEF TypeOK, Reclaimable, GoodRecord
  <2>2. CASE HoldsWorker(records[k])
    <3>1. records'[k] = Retired(records[k], "cancelled")
      BY <1>1, <2>2
    <3>2. records[k].state \in Live
      BY <2>2 DEF HoldsWorker, Live
    <3>3. Evolves(records[k], records'[k])
      BY <2>1, <3>1, <3>2, EndedEvolves DEF Terminal
    <3>4. records'[k].state = "cancelled" /\ records'[k].leaseOwner = 0
      BY <2>1, <3>1 DEF Retired, JobRecord
    <3>5. QED
      BY <2>2, <3>3, <3>4 DEF HoldsResult, HoldsWorker
  <2>3. CASE ~HoldsWorker(records[k])
    <3>1. records'[k] = records[k]
      BY <1>1, <2>3
    <3>2. records[k].state # "running"
      BY <2>3 DEF HoldsWorker, HoldsResult, Active
    <3>3. QED
      BY <2>1, <3>1, <3>2, EvolvesRefl
  <2>4. QED
    BY <2>2, <2>3
<1>3. records' \in [Job -> JobRecord]
      /\ \A k \in Job : Kept(records[k], records'[k])
                        /\ (HoldsWorker(records'[k]) => HoldsWorker(records[k]))
  BY <1>1, <1>2 DEF Evolves, Kept, GoodRecord
<1>4. OneWorker(records')
  BY <1>0, <1>3, OneWorkerKept
<1>5. /\ disk' \in [Job -> JobRecord] /\ Reclaimable' /\ SnapshotKept /\ OneWorker(disk')
      /\ \A k \in Job : /\ disk'[k].state \in Terminal => records'[k] = disk'[k]
                        /\ disk'[k].hasResult => records'[k].hasResult
  BY <1>1, <1>3, <1>4, MemoryStep
<1>6. /\ OneCallPerJob' /\ CalledResultIsDurable'
      /\ \A k \in Job : HoldsResult(records'[k]) /\ k \notin publishInFlight'
                          => HoldsResult(disk'[k])
  BY <1>1, <1>2, CallsKept
<1>7. /\ Aborted(Job) \subseteq Run
      /\ \A q \in Aborted(Job) : \E r \in runs :
           /\ q.job = r.job /\ q.token = r.token
           /\ ~q.aborted => ~r.aborted /\ ~(r.job \in Job /\ controllers[r.job] = r.token)
      /\ \A p, q \in Aborted(Job) : p.job = q.job /\ p.token = q.token => p = q
  BY AbortedFacts
<1>8. TypeOK'
  BY <1>0, <1>1, <1>3, <1>5, <1>7 DEF TypeOK, Phases
<1>9. TokensUnique'
  <2>1. \A q \in runs' : q.token > 0 /\ q.token <= leaseTokenCounter'
    BY <1>0, <1>1, <1>7 DEF TokensUnique
  <2>2. QED
    BY <1>1, <1>7, <2>1 DEF TokensUnique
<1>10. RunsMatchLeases'
  <2> SUFFICES ASSUME NEW q \in runs'
               PROVE  q.aborted /\ Revoked(q.job, q.token)'
    BY DEF RunsMatchLeases
  <2>1. PICK r \in runs :
           /\ q.job = r.job /\ q.token = r.token
           /\ ~q.aborted => ~r.aborted /\ ~(r.job \in Job /\ controllers[r.job] = r.token)
    BY <1>1, <1>7
  <2>2. r.job \in Job /\ r.token > 0 /\ r.token \in Nat
    BY <1>0 DEF TypeOK, Run, TokensUnique
  <2>3. q.aborted
    BY <1>0, <2>1, <2>2 DEF RunsMatchLeases
  <2>4. Revoked(q.job, q.token)'
    <3>1. CASE Revoked(r.job, r.token)
      BY <1>2, <2>1, <2>2, <3>1 DEF Revoked
    <3>2. CASE ~Revoked(r.job, r.token)
      BY <1>0, <1>2, <2>1, <2>2, <3>2 DEF Revoked, RunsMatchLeases
    <3>3. QED
      BY <3>1, <3>2
  <2>5. QED
    BY <2>3, <2>4
<1>11. SnapshotLags'
  BY <1>5, <1>6 DEF SnapshotLags
<1>12. QED
  BY <1>4, <1>5, <1>6, <1>8, <1>9, <1>10, <1>11 DEF QueueInv

\* A crash or an exit keeps only the snapshot.
LEMMA LoseMemoryInv ==
  ASSUME QueueInv, Crash \/ Exit
  PROVE  QueueInv' /\ SnapshotKept
<1>1. LoseMemory /\ crashes' \in Nat
  BY DEF Crash, Exit, QueueInv, TypeOK
<1>2. /\ phase' = "down" /\ records' = EmptyQueue /\ leaseTokenCounter' = 0
      /\ controllers' = [j \in Job |-> 0] /\ runs' = {} /\ calls' = {}
      /\ publishInFlight' = {} /\ disk' = disk /\ now' = now /\ saveFaults' = saveFaults
  BY <1>1 DEF LoseMemory
<1>3. records' \in [Job -> JobRecord] /\ \A j \in Job : records'[j] = NoRecord
  BY <1>2, NoRecordGood DEF EmptyQueue, GoodRecord
<1>4. TypeOK'
  BY <1>1, <1>2, <1>3 DEF QueueInv, TypeOK, Phases
<1>5. Reclaimable' /\ OneWorker(records') /\ OneWorker(disk')
  <2>1. Reclaimable'
    BY <1>2, <1>3, NoRecordGood DEF QueueInv, Reclaimable, GoodRecord
  <2>2. OneWorker(records')
    BY <1>3 DEF OneWorker, HoldsWorker, NoRecord, Active
  <2>3. QED
    BY <1>2, <2>1, <2>2 DEF QueueInv
<1>6. TokensUnique' /\ RunsMatchLeases' /\ OneCallPerJob' /\ CalledResultIsDurable'
  BY <1>2 DEF TokensUnique, RunsMatchLeases, OneCallPerJob, CalledResultIsDurable
<1>7. SnapshotLags'
  BY <1>2 DEF SnapshotLags
<1>8. QED
  BY <1>2, SnapshotIdle, <1>4, <1>5, <1>6, <1>7 DEF QueueInv

\* The next process starts from the snapshot.
LEMMA BootInv ==
  ASSUME QueueInv, Boot
  PROVE  QueueInv' /\ SnapshotKept
<1>1. /\ phase = "down" /\ phase' = "boot" /\ records' = disk
      /\ UNCHANGED <<disk, now, leaseTokenCounter, controllers, runs, calls,
                     publishInFlight, crashes, saveFaults>>
  BY DEF Boot
<1>2. runs = {} /\ calls = {}
  BY <1>1 DEF QueueInv, TokensUnique
<1>3. TypeOK'
  BY <1>1 DEF QueueInv, TypeOK, Phases
<1>4. Reclaimable' /\ OneWorker(records') /\ OneWorker(disk')
  BY <1>1 DEF QueueInv, Reclaimable
<1>5. TokensUnique' /\ RunsMatchLeases' /\ CalledResultIsDurable' /\ OneCallPerJob'
  BY <1>1, <1>2 DEF TokensUnique, RunsMatchLeases, OneCallPerJob, CalledResultIsDurable
<1>6. SnapshotLags'
  BY <1>1 DEF SnapshotLags
<1>7. QED
  BY <1>1, SnapshotIdle, <1>3, <1>4, <1>5, <1>6 DEF QueueInv

\* What recovery makes of one record of the snapshot.
LEMMA ReconciledEvolves ==
  ASSUME NEW r, GoodRecord(r), now \in Nat
  PROVE  /\ Evolves(r, Reconciled(r))
         /\ HoldsResult(r) => HoldsResult(Reconciled(r))
<1>0. r \in JobRecord /\ r.attempt \in Nat
  BY DEF GoodRecord, JobRecord
<1>1. CASE r.state \notin Active \/ ~LeaseGone(r)
  BY <1>1, EvolvesRefl DEF Reconciled
<1>2. CASE r.state \in Active /\ LeaseGone(r) /\ HoldsResult(r)
  <2>1. Reconciled(r) = Retired(r, "publishing")
    BY <1>2 DEF Reconciled
  <2>2. Retired(r, "publishing") \in JobRecord
    BY <1>0, RetiredType DEF States, Live, Active
  <2>3. QED
    BY <1>0, <1>2, <2>1, <2>2 DEF Evolves, Retired, JobRecord, GoodRecord, WellFormed,
       HoldsWorker, HoldsResult, Active, Terminal
<1>3. CASE r.state \in Active /\ LeaseGone(r) /\ ~HoldsResult(r)
  <2>1. r.state \in Live /\ ~r.hasResult
    BY <1>3 DEF GoodRecord, WellFormed, HoldsResult, Live, Active, Terminal
  <2>2. CASE r.attempt < MaxAttempts
    <3> DEFINE q == [Retired(r, "queued") EXCEPT !.readyAt = now,
                       !.nextRetryAt = 0, !.cancelRequested = FALSE]
    <3>1. Reconciled(r) = q
      BY <1>3, <2>2 DEF Reconciled
    <3>2. Evolves(r, q)
      BY <2>1, <2>2, RequeuedEvolves
    <3>3. QED
      BY <1>3, <3>1, <3>2
  <2>3. CASE ~(r.attempt < MaxAttempts)
    <3>1. Reconciled(r) = Retired(r, "failed")
      BY <1>3, <2>3 DEF Reconciled
    <3>2. Evolves(r, Retired(r, "failed"))
      BY <2>1, EndedEvolves DEF Terminal
    <3>3. QED
      BY <1>3, <3>1, <3>2
  <2>4. QED
    BY <2>2, <2>3
<1>4. QED
  BY <1>1, <1>2, <1>3

\* recover: calls started while the daemon reconciled orphans keep their result.
LEMMA RecoverInv ==
  ASSUME QueueInv, Recover
  PROVE  QueueInv' /\ SnapshotKept
<1>0. TypeOK /\ Reclaimable /\ OneWorker(disk) /\ TokensUnique
      /\ OneCallPerJob /\ CalledResultIsDurable
  BY DEF QueueInv
<1>1. /\ phase = "boot" /\ phase' = "up"
      /\ records' = [j \in Job |-> Reconciled(disk[j])]
      /\ disk' = records' /\ saveFaults' = saveFaults
      /\ controllers' = [j \in Job |-> 0]
      /\ UNCHANGED <<now, leaseTokenCounter, runs, calls, publishInFlight, crashes>>
  BY DEF Recover, SaveReturns
<1>2. runs = {}
  BY <1>0, <1>1 DEF TokensUnique
<1>3. ASSUME NEW k \in Job
      PROVE  /\ Evolves(disk[k], records'[k])
             /\ HoldsResult(disk[k]) => HoldsResult(records'[k])
  <2>1. GoodRecord(disk[k]) /\ now \in Nat
    BY <1>0 DEF TypeOK, Reclaimable, GoodRecord
  <2>2. records'[k] = Reconciled(disk[k])
    BY <1>1
  <2>3. QED
    BY <2>1, <2>2, ReconciledEvolves
<1>4. records' \in [Job -> JobRecord] /\ Reclaimable'
      /\ \A k \in Job : HoldsWorker(records'[k]) => HoldsWorker(disk[k])
  BY <1>1, <1>3 DEF Evolves, GoodRecord, Reclaimable
<1>5. OneWorker(records') /\ OneWorker(disk')
  BY <1>0, <1>1, <1>4, OneWorkerKept
<1>6. TypeOK'
  BY <1>0, <1>1, <1>4 DEF TypeOK, Phases
<1>7. TokensUnique' /\ RunsMatchLeases' /\ OneCallPerJob'
  BY <1>0, <1>1, <1>2 DEF TokensUnique, RunsMatchLeases, OneCallPerJob
<1>8. CalledResultIsDurable'
  <2>1. \A c \in calls : c.job \in Job
    BY <1>0 DEF TypeOK, Call
  <2>2. QED
    BY <1>0, <1>1, <1>3, <2>1 DEF CalledResultIsDurable
<1>9. SnapshotLags'
  BY <1>1 DEF SnapshotLags
<1>10. SnapshotKept
  BY <1>1, <1>3 DEF SnapshotKept, Kept, Evolves
<1>11. QED
  BY <1>4, <1>5, <1>6, <1>7, <1>8, <1>9, <1>10 DEF QueueInv

-----------------------------------------------------------------------------
(* tick *)

\* The maintenance passes never abandon a record that holds its result.
LEMMA ResultNotForgotten ==
  ASSUME QueueInv, NEW j \in Job, HoldsResult(records[j])
  PROVE  j \notin Forgotten
<1>1. ~LeaseExpired(records[j])
  BY DEF LeaseExpired, HoldsWorker
<1>2. ExpireLeases(records)[j] = records[j]
  BY <1>1 DEF ExpireLeases
<1>3. QED
  BY <1>1, <1>2 DEF Forgotten, DeadlineExpired

\* Two candidates of one PR would supersede one another.
LEMMA CandidatesApart ==
  ASSUME NEW recs \in [Job -> JobRecord],
         NEW j \in Candidates(recs), NEW k \in Candidates(recs), SamePr(j, k)
  PROVE  j = k
<1> SUFFICES ASSUME j # k PROVE FALSE
  OBVIOUS
<1>1. j \in Job /\ k \in Job /\ j \in Nat /\ k \in Nat
      /\ recs[j].enqueuedAt \in Nat /\ recs[k].enqueuedAt \in Nat
      /\ recs[j].state \in Live /\ recs[k].state \in Live
  BY JobAssumption DEF Candidates, JobRecord, Live
<1>2. Before(recs, j, k) \/ Before(recs, k, j)
  BY <1>1 DEF Before
<1>3. k \in SupersedingSiblings(recs, j) \/ j \in SupersedingSiblings(recs, k)
  BY <1>1, <1>2 DEF SupersedingSiblings, SamePr
<1>4. QED
  BY <1>3 DEF Candidates

\* tick: the passes let records evolve, dispatch starts at most one generation
\* of a PR that has no worker, and every abandoned executor is aborted.
LEMMA TickInv ==
  ASSUME QueueInv, Tick
  PROVE  QueueInv' /\ SnapshotKept
<1> DEFINE M == Maintained
<1>0. TypeOK /\ Reclaimable /\ OneWorker(records) /\ TokensUnique
      /\ RunsMatchLeases /\ OneCallPerJob /\ CalledResultIsDurable /\ SnapshotLags
  BY DEF QueueInv
<1>1. PICK started \in SUBSET Candidates(M) : Dispatch(started)
  BY DEF Tick
<1>2. /\ phase # "down" /\ phase \notin {"down", "boot"}
      /\ calls' = calls \union {[job |-> j, token |-> 0, at |-> now] : j \in Fired}
      /\ publishInFlight' = publishInFlight \union Fired
      /\ UNCHANGED <<phase, now, crashes>>
      /\ disk' \in {disk, records'} /\ saveFaults' \in Nat
  BY <1>0 DEF Tick, Serving, Save, SaveReturns, SaveThrows, TypeOK
<1> DEFINE token(j) == TokenOf(M, started, j)
           fresh == {[job |-> j, token |-> token(j), aborted |-> FALSE] : j \in started}
<1>3. /\ records' = [j \in Job |-> IF j \in started THEN Started(M[j], token(j))
                                   ELSE M[j]]
      /\ controllers' = [j \in Job |-> IF j \in started THEN token(j)
                                       ELSE IF j \in Forgotten THEN 0
                                       ELSE controllers[j]]
      /\ runs' = Aborted(Forgotten) \union fresh
      /\ leaseTokenCounter' = leaseTokenCounter + Cardinality(started)
  BY <1>1 DEF Dispatch
<1>4. /\ M \in [Job -> JobRecord]
      /\ \A j \in Job :
              /\ Pass(records[j], M[j])
              /\ j \in Forgotten => M[j].state \in Terminal \union {"queued"}
              /\ j \notin Forgotten /\ M[j] # records[j] =>
                   HoldsResult(records[j]) /\ j \notin publishInFlight
              /\ j \in Fired => /\ M[j] = records[j]
                                /\ HoldsResult(records[j])
                                /\ j \notin publishInFlight
  BY MaintainedFacts
<1>5. Candidates(M) \subseteq Job
      /\ \A j \in Candidates(M) : /\ M[j].state = "queued"
                                  /\ \A k \in Job : SamePr(j, k) => ~HoldsWorker(M[k])
  BY DEF Candidates
<1>6. \A j, k \in started : SamePr(j, k) => j = k
  BY <1>1, <1>4, CandidatesApart
<1> HIDE DEF M
<1>7. started \in SUBSET Job /\ leaseTokenCounter \in Nat /\ now \in Nat
  BY <1>0, <1>1, <1>5 DEF TypeOK
<1>8. \A j \in started : /\ token(j) \in Nat
                         /\ token(j) > leaseTokenCounter
                         /\ token(j) <= leaseTokenCounter + Cardinality(started)
  BY <1>4, <1>7, TokenFacts
<1>81. Cardinality(started) \in Nat
  BY <1>7, JobAssumption, FS_Subset, FS_CardinalityType
<1> HIDE DEF token
<1>9. ASSUME NEW j \in started
      PROVE  /\ GoodRecord(records'[j])
             /\ records'[j].state = "running" /\ records'[j].leaseOwner = token(j)
             /\ ~records'[j].hasResult
             /\ M[j].state = "queued" /\ ~M[j].hasResult
             /\ controllers'[j] = token(j) /\ j \in Job
  <2>1. j \in Job /\ M[j].state = "queued" /\ GoodRecord(M[j])
    BY <1>1, <1>4, <1>5 DEF Pass, Evolves
  <2>2. token(j) \in Nat \ {0}
    BY <1>7, <1>8
  <2>3. records'[j] = Started(M[j], token(j)) /\ controllers'[j] = token(j)
    BY <1>3, <2>1
  <2>4. ~M[j].hasResult
    BY <2>1 DEF GoodRecord, WellFormed, Terminal
  <2>5. /\ GoodRecord(Started(M[j], token(j)))
        /\ Started(M[j], token(j)).state = "running"
        /\ Started(M[j], token(j)).leaseOwner = token(j)
        /\ Started(M[j], token(j)).hasResult = FALSE
    BY <1>7, <2>1, <2>2, StartedGood
  <2>6. QED
    BY <2>1, <2>3, <2>4, <2>5
<1>10. \A j \in Job \ started : records'[j] = M[j]
  BY <1>3
<1>11. ASSUME NEW j \in Job
       PROVE  /\ Kept(records[j], records'[j])
              /\ HoldsResult(records'[j]) =>
                   /\ HoldsResult(records[j]) /\ records'[j] = records[j]
  <2>1. Pass(records[j], M[j])
    BY <1>4
  <2>2. CASE j \in started
    <3>1. records[j].state \notin Terminal /\ ~records[j].hasResult
      BY <1>9, <2>1, <2>2 DEF Pass, Evolves, Terminal
    <3>2. QED
      BY <1>9, <2>2, <3>1 DEF Kept, HoldsResult
  <2>3. CASE j \notin started
    BY <1>10, <2>1, <2>3 DEF Pass, Evolves, Kept, HoldsResult, Terminal
  <2>4. QED
    BY <2>2, <2>3
<1>12. records' \in [Job -> JobRecord]
  BY <1>3, <1>11 DEF Kept, GoodRecord
<1>13. OneWorker(records')
  <2>1. OneWorker(M)
    BY <1>0, <1>4, OneWorkerKept DEF Pass, Evolves
  <2>2. SUFFICES ASSUME NEW j \in Job, NEW k \in Job, j # k, SamePr(j, k),
                        HoldsWorker(records'[j]), HoldsWorker(records'[k])
                 PROVE  FALSE
    BY DEF OneWorker
  <2>3. SamePr(k, j)
    BY <2>2 DEF SamePr
  <2>4. CASE j \in started /\ k \in started
    BY <1>6, <2>2, <2>4
  <2>5. CASE j \in started /\ k \notin started
    BY <1>1, <1>5, <1>10, <2>2, <2>5
  <2>6. CASE j \notin started /\ k \in started
    BY <1>1, <1>5, <1>10, <2>2, <2>3, <2>6
  <2>7. CASE j \notin started /\ k \notin started
    BY <1>10, <2>1, <2>2, <2>7 DEF OneWorker
  <2>8. QED
    BY <2>4, <2>5, <2>6, <2>7
<1>14. /\ disk' \in [Job -> JobRecord] /\ Reclaimable' /\ SnapshotKept /\ OneWorker(disk')
       /\ \A k \in Job : /\ disk'[k].state \in Terminal => records'[k] = disk'[k]
                         /\ disk'[k].hasResult => records'[k].hasResult
  BY <1>2, <1>11, <1>12, <1>13, MemoryStep
<1>15. \A k \in Job : HoldsResult(records'[k]) /\ k \notin publishInFlight'
                        => HoldsResult(disk'[k])
  BY <1>0, <1>2, <1>11 DEF SnapshotLags
<1>16. \A j \in Fired : j \in Job /\ j \notin publishInFlight
                        /\ HoldsResult(records'[j]) /\ HoldsResult(disk[j])
  <2> SUFFICES ASSUME NEW j \in Fired
               PROVE  j \in Job /\ j \notin publishInFlight
                      /\ HoldsResult(records'[j]) /\ HoldsResult(disk[j])
    OBVIOUS
  <2>1. j \in Job
    BY DEF Fired
  <2>2. M[j] = records[j] /\ HoldsResult(records[j]) /\ j \notin publishInFlight
    BY <1>4, <2>1
  <2>3. j \notin started
    BY <1>9, <2>2 DEF HoldsResult
  <2>4. QED
    BY <1>0, <1>2, <1>10, <2>1, <2>2, <2>3 DEF SnapshotLags
<1>17. \A c \in calls : /\ c.job \in Job /\ c.job \in publishInFlight
                        /\ HoldsResult(records'[c.job]) /\ HoldsResult(disk[c.job])
  <2> SUFFICES ASSUME NEW c \in calls
               PROVE  /\ c.job \in Job /\ c.job \in publishInFlight
                      /\ HoldsResult(records'[c.job]) /\ HoldsResult(disk[c.job])
    OBVIOUS
  <2>1. /\ c.job \in Job /\ c.job \in publishInFlight
        /\ HoldsResult(records[c.job]) /\ HoldsResult(disk[c.job])
    BY <1>0 DEF TypeOK, Call, OneCallPerJob, CalledResultIsDurable
  <2>2. M[c.job] = records[c.job]
    BY <1>4, <2>1, ResultNotForgotten
  <2>3. c.job \notin started
    BY <1>9, <2>1, <2>2 DEF HoldsResult
  <2>4. QED
    BY <1>10, <2>1, <2>2, <2>3
<1>18. OneCallPerJob'
  BY <1>0, <1>2, <1>16, <1>17 DEF OneCallPerJob
<1>19. CalledResultIsDurable'
  <2> SUFFICES ASSUME NEW c \in calls'
               PROVE  HoldsResult(disk'[c.job]) /\ HoldsResult(records'[c.job])
    BY DEF CalledResultIsDurable
  <2>1. HoldsResult(disk[c.job]) /\ HoldsResult(records'[c.job])
    BY <1>2, <1>16, <1>17
  <2>2. QED
    BY <1>2, <2>1
<1>20. calls' \subseteq Call /\ publishInFlight' \subseteq Job
  BY <1>0, <1>2, <1>7, <1>16 DEF TypeOK, Call, Owner
<1>21. fresh \subseteq Run
       /\ \A q \in fresh : /\ q.job \in started /\ q.token = token(q.job) /\ ~q.aborted
                          /\ q = [job |-> q.job, token |-> token(q.job), aborted |-> FALSE]
  <2> SUFFICES ASSUME NEW q \in fresh
               PROVE  /\ q \in Run
                      /\ q.job \in started /\ q.token = token(q.job) /\ ~q.aborted
                      /\ q = [job |-> q.job, token |-> token(q.job), aborted |-> FALSE]
    OBVIOUS
  <2>1. PICK j \in started : q = [job |-> j, token |-> token(j), aborted |-> FALSE]
    OBVIOUS
  <2>2. j \in Job /\ token(j) \in Nat
    BY <1>7, <1>8
  <2>3. q \in Run
    BY <2>1, <2>2 DEF Run
  <2>4. QED
    BY <2>1, <2>3
<1>22. /\ Aborted(Forgotten) \subseteq Run
       /\ \A q \in Aborted(Forgotten) : \E r \in runs :
            /\ q.job = r.job /\ q.token = r.token
            /\ ~q.aborted => ~r.aborted
                 /\ ~(r.job \in Forgotten /\ controllers[r.job] = r.token)
       /\ \A p, q \in Aborted(Forgotten) : p.job = q.job /\ p.token = q.token => p = q
  BY AbortedFacts
<1>23. \A r \in runs : r.job \in Job /\ r.token \in Nat /\ r.token > 0
                       /\ r.token <= leaseTokenCounter
  BY <1>0 DEF TypeOK, Run, TokensUnique
<1>24. controllers' \in [Job -> Nat] /\ leaseTokenCounter' \in Nat
  BY <1>0, <1>3, <1>7, <1>8, <1>81 DEF TypeOK
<1>25. TypeOK'
  BY <1>0, <1>2, <1>3, <1>12, <1>14, <1>20, <1>21, <1>22, <1>24 DEF TypeOK
<1>26. TokensUnique'
  <2>1. \A q \in Aborted(Forgotten) : q.token \in Nat /\ q.token > 0
                                      /\ q.token <= leaseTokenCounter
    BY <1>22, <1>23
  <2>2. \A q \in runs' : q.token > 0 /\ q.token <= leaseTokenCounter'
    BY <1>3, <1>7, <1>8, <1>81, <1>21, <2>1
  <2>3. ASSUME NEW p \in runs', NEW q \in runs', p.job = q.job, p.token = q.token
        PROVE  p = q
    <3>1. CASE p \in fresh /\ q \in fresh
      BY <2>3, <3>1, <1>21
    <3>2. CASE p \in Aborted(Forgotten) /\ q \in Aborted(Forgotten)
      BY <2>3, <3>2, <1>22
    <3>3. CASE p \in fresh /\ q \in Aborted(Forgotten)
      BY <2>1, <2>3, <3>3, <1>7, <1>8, <1>21
    <3>4. CASE p \in Aborted(Forgotten) /\ q \in fresh
      BY <2>1, <2>3, <3>4, <1>7, <1>8, <1>21
    <3>5. QED
      BY <1>3, <3>1, <3>2, <3>3, <3>4
  <2>4. QED
    BY <1>2, <2>2, <2>3 DEF TokensUnique
<1> HIDE DEF fresh
<1>27. RunsMatchLeases'
  <2> SUFFICES ASSUME NEW q \in runs'
               PROVE  /\ ~q.aborted => ~Revoked(q.job, q.token)'
                      /\ ~Revoked(q.job, q.token)' =>
                           /\ records'[q.job].state = "running"
                           /\ controllers'[q.job] = q.token
    BY DEF RunsMatchLeases
  <2>1. CASE q \in fresh
    BY <1>9, <1>21, <2>1 DEF Revoked, Live, Active
  <2>2. CASE q \in Aborted(Forgotten)
    <3>1. PICK r \in runs :
            /\ q.job = r.job /\ q.token = r.token
            /\ ~q.aborted => ~r.aborted
                 /\ ~(r.job \in Forgotten /\ controllers[r.job] = r.token)
      BY <1>22, <2>2
    <3> DEFINE j == r.job
    <3>2. j \in Job /\ r.token \in Nat /\ r.token > 0 /\ r.token <= leaseTokenCounter
      BY <1>23
    <3>3. CASE j \notin started /\ j \notin Forgotten /\ M[j] = records[j]
      <4>1. records'[j] = records[j] /\ controllers'[j] = controllers[j]
        BY <1>3, <1>10, <3>2, <3>3
      <4>2. QED
        BY <1>0, <3>1, <4>1 DEF RunsMatchLeases, Revoked
    <3>4. CASE ~(j \notin started /\ j \notin Forgotten /\ M[j] = records[j])
      <4>1. Revoked(q.job, q.token)'
        <5>1. CASE j \in started
          BY <1>7, <1>8, <1>9, <3>1, <3>2, <5>1 DEF Revoked
        <5>2. CASE j \notin started
          <6>1. M[j].state \in Terminal \union {"queued"}
            BY <1>4, <3>2, <3>4, <5>2 DEF Pass
          <6>2. records'[j] = M[j] /\ WellFormed(M[j])
            BY <1>4, <1>10, <3>2, <5>2 DEF Pass, Evolves, GoodRecord
          <6>3. records'[j].leaseOwner = 0
            BY <6>1, <6>2 DEF WellFormed, Active, Terminal
          <6>4. QED
            BY <3>1, <3>2, <6>3 DEF Revoked
        <5>3. QED
          BY <5>1, <5>2
      <4>2. q.aborted
        <5>1. SUFFICES ASSUME ~q.aborted PROVE FALSE
          OBVIOUS
        <5>2. records[j].state = "running" /\ controllers[j] = r.token
          BY <1>0, <3>1, <5>1 DEF RunsMatchLeases
        <5>3. j \notin Forgotten
          BY <3>1, <5>1, <5>2
        <5>4. M[j] = records[j]
          BY <1>4, <3>2, <5>2, <5>3 DEF HoldsResult
        <5>5. QED
          BY <1>9, <3>4, <5>2, <5>3, <5>4
      <4>3. QED
        BY <4>1, <4>2
    <3>5. QED
      BY <3>3, <3>4
  <2>3. QED
    BY <1>3, <2>1, <2>2
<1>28. SnapshotLags'
  BY <1>14, <1>15 DEF SnapshotLags
<1>29. QED
  BY <1>13, <1>14, <1>18, <1>19, <1>25, <1>26, <1>27, <1>28 DEF QueueInv

-----------------------------------------------------------------------------
(* Part 3: the theorems *)

\* An empty queue over an empty store satisfies the invariant.
LEMMA InitInv ==
  Init => QueueInv
<1> SUFFICES ASSUME Init PROVE QueueInv
  OBVIOUS
<1>1. records \in [Job -> JobRecord] /\ disk = records
      /\ \A j \in Job : records[j] = NoRecord
  BY NoRecordGood DEF Init, EmptyQueue, GoodRecord
<1>2. TypeOK
  BY <1>1 DEF Init, TypeOK, Phases
<1>3. Reclaimable
  BY <1>1, NoRecordGood DEF Reclaimable, GoodRecord
<1>4. OneWorker(records) /\ OneWorker(disk)
  BY <1>1 DEF OneWorker, HoldsWorker, NoRecord, Active
<1>5. TokensUnique /\ RunsMatchLeases /\ OneCallPerJob /\ CalledResultIsDurable
  BY DEF Init, TokensUnique, RunsMatchLeases, OneCallPerJob, CalledResultIsDurable
<1>6. SnapshotLags
  BY <1>1 DEF SnapshotLags
<1>7. QED
  BY <1>2, <1>3, <1>4, <1>5, <1>6 DEF QueueInv

\* Every step keeps the invariant, and keeps what the snapshot says of terminal
\* records and of results.
LEMMA NextInv ==
  ASSUME QueueInv, [Next]_vars
  PROVE  QueueInv' /\ SnapshotKept
<1>1. ASSUME NEW j \in Job, Enqueue(j) PROVE QueueInv' /\ SnapshotKept
  BY <1>1, EnqueueInv
<1>2. CASE Tick
  BY <1>2, TickInv
<1>3. ASSUME NEW r \in runs, SettleRevoked(r) PROVE QueueInv' /\ SnapshotKept
  BY <1>3, SettleRevokedInv
<1>4. ASSUME NEW r \in runs, NEW o \in Outcomes, Settle(r, o)
      PROVE  QueueInv' /\ SnapshotKept
  BY <1>4, SettleInv
<1>5. ASSUME NEW j \in Job, Heartbeat(j) PROVE QueueInv' /\ SnapshotKept
  BY <1>5, HeartbeatInv
<1>6. ASSUME NEW c \in calls, NEW published \in BOOLEAN, PublishResolves(c, published)
      PROVE  QueueInv' /\ SnapshotKept
  BY <1>6, PublishResolvesInv
<1>7. ASSUME NEW j \in Job, NEW o \in Outcomes, ResolveRecovered(j, o)
      PROVE  QueueInv' /\ SnapshotKept
  BY <1>7, ResolveRecoveredInv
<1>8. ASSUME NEW j \in Job, AdoptRecovered(j) PROVE QueueInv' /\ SnapshotKept
  BY <1>8, AdoptRecoveredInv
<1>9. CASE BeginShutdown \/ AdvanceClock
  BY <1>9, QuietInv
<1>10. CASE FinishShutdown
  BY <1>10, FinishShutdownInv
<1>11. CASE Crash \/ Exit
  BY <1>11, LoseMemoryInv
<1>12. CASE Boot
  BY <1>12, BootInv
<1>13. CASE Recover
  BY <1>13, RecoverInv
<1>14. CASE UNCHANGED vars
  <2>1. UNCHANGED <<records, disk, phase, now, leaseTokenCounter, controllers, runs,
                    calls, publishInFlight, crashes, saveFaults>>
    BY <1>14 DEF vars
  <2>2. QueueInv'
    BY <2>1 DEF QueueInv, TypeOK, Reclaimable, TokensUnique, RunsMatchLeases, Revoked,
       OneCallPerJob, CalledResultIsDurable, SnapshotLags
  <2>3. QED
    BY <2>1, <2>2, SnapshotIdle
<1>15. QED
  BY <1>1, <1>2, <1>3, <1>4, <1>5, <1>6, <1>7, <1>8, <1>9, <1>10, <1>11, <1>12,
     <1>13, <1>14 DEF Next

\* The inductive invariant holds in every reachable state of the queue.
THEOREM QueueInvariant == Spec => []QueueInv
<1>1. Init => QueueInv
  BY InitInv
<1>2. QueueInv /\ [Next]_vars => QueueInv'
  BY NextInv
<1>3. QED
  BY <1>1, <1>2, PTL DEF Spec

\* Records, snapshot and bookkeeping keep their types; in particular no
\* generation is dispatched more than maxAttempts times.
THEOREM TypeCorrect == Spec => []TypeOK
<1>1. QueueInv => TypeOK
  BY DEF QueueInv
<1>2. QED
  BY <1>1, QueueInvariant, PTL

\* At most one generation of a PR holds a worker, for any number of jobs, PRs,
\* crashes and failing saves.
THEOREM SingleWorker == Spec => []OneWorkerPerPr
<1>1. QueueInv => OneWorkerPerPr
  BY DEF QueueInv, OneWorkerPerPr
<1>2. QED
  BY <1>1, QueueInvariant, PTL

\* No outcome of an abandoned dispatch is ever applied to a later one.
THEOREM LeaseFencing == Spec => []RunsMatchLeases
<1>1. QueueInv => RunsMatchLeases
  BY DEF QueueInv
<1>2. QED
  BY <1>1, QueueInvariant, PTL

\* Every active record can be reclaimed, in memory and after any crash.
THEOREM ReclaimableAlways == Spec => []Reclaimable
<1>1. QueueInv => Reclaimable
  BY DEF QueueInv
<1>2. QED
  BY <1>1, QueueInvariant, PTL

\* Publish calls of one record never overlap.
THEOREM SingleCall == Spec => []OneCallPerJob
<1>1. QueueInv => OneCallPerJob
  BY DEF QueueInv
<1>2. QED
  BY <1>1, QueueInvariant, PTL

\* A publisher is only called for a durable result.
THEOREM DurableBeforePublish == Spec => []CalledResultIsDurable
<1>1. QueueInv => CalledResultIsDurable
  BY DEF QueueInv
<1>2. QED
  BY <1>1, QueueInvariant, PTL

\* A durable result is never thrown away or computed again.
THEOREM NeverRerun == Spec => ResultNeverRerun
<1> DEFINE A == \A j \in Job : disk[j].hasResult =>
                  disk'[j].hasResult /\ disk'[j].state \in {"publishing"} \union Terminal
<1>1. QueueInv /\ [Next]_vars => [A]_vars
  <2> SUFFICES ASSUME QueueInv, [Next]_vars PROVE A
    OBVIOUS
  <2>1. SnapshotKept
    BY NextInv
  <2>2. QED
    BY <2>1 DEF SnapshotKept, Kept, GoodRecord, WellFormed
<1> HIDE DEF A
<1>2. Spec => [][A]_vars
  BY <1>1, QueueInvariant, PTL DEF Spec
<1>3. QED
  BY <1>2 DEF ResultNeverRerun, A

\* A terminal record of the snapshot never changes.
THEOREM TerminalStays == Spec => TerminalIsFinal
<1> DEFINE A == \A j \in Job : disk[j].state \in Terminal => disk'[j] = disk[j]
<1>1. QueueInv /\ [Next]_vars => [A]_vars
  <2> SUFFICES ASSUME QueueInv, [Next]_vars PROVE A
    OBVIOUS
  <2>1. SnapshotKept
    BY NextInv
  <2>2. QED
    BY <2>1 DEF SnapshotKept, Kept
<1> HIDE DEF A
<1>2. Spec => [][A]_vars
  BY <1>1, QueueInvariant, PTL DEF Spec
<1>3. QED
  BY <1>2 DEF TerminalIsFinal, A

-----------------------------------------------------------------------------
(* Part 4: worker slots.

   Only a tick starts workers. It takes its candidates in dispatch order and
   each finds room after those before it, so the room the last one finds bounds
   them all. Every other step lets workers go, in memory and in the snapshot. *)

\* A set of subsets of a finite set has a minimal member.
LEMMA MinimalSubset ==
  ASSUME NEW S, IsFiniteSet(S), NEW T \in SUBSET (SUBSET S), T # {}
  PROVE  \E X \in T : \A Y \in T : ~(Y \subseteq X /\ Y # X)
<1>1. IsWellFoundedOn(StrictSubsetOrdering(S), FiniteSubsetsOf(S))
  BY FS_StrictSubsetOrderingWellFounded
<1>2. T \subseteq FiniteSubsetsOf(S)
  BY FS_FiniteSubsetsOfFinite
<1>3. PICK X \in T : \A Y \in T : ~(<<Y, X>> \in StrictSubsetOrdering(S))
  BY <1>1, <1>2, WFMin
<1>4. ASSUME NEW Y \in T, Y \subseteq X, Y # X PROVE FALSE
  <2>1. <<Y, X>> \in (SUBSET S) \X (SUBSET S)
    OBVIOUS
  <2>2. <<Y, X>> \in StrictSubsetOrdering(S)
    BY <1>4, <2>1 DEF StrictSubsetOrdering
  <2>3. QED
    BY <1>3, <2>2
<1>5. QED
  BY <1>4

\* The dispatch order is a strict total order.
LEMMA BeforeOrder ==
  ASSUME NEW recs \in [Job -> JobRecord], NEW j \in Job, NEW k \in Job
  PROVE  /\ ~Before(recs, j, j)
         /\ j # k => Before(recs, j, k) \/ Before(recs, k, j)
         /\ \A l \in Job : Before(recs, j, k) /\ Before(recs, k, l) => Before(recs, j, l)
<1>1. \A l \in Job : l \in Nat /\ recs[l].enqueuedAt \in Nat
  BY JobAssumption DEF JobRecord
<1>2. QED
  BY <1>1 DEF Before

\* Of finitely many generations one is the last in dispatch order.
LEMMA LastInOrder ==
  ASSUME NEW recs \in [Job -> JobRecord], NEW U \in SUBSET Job, U # {}
  PROVE  \E last \in U : \A k \in U \ {last} : Before(recs, k, last)
<1> DEFINE Later(x) == {y \in U : Before(recs, x, y)}
           T == {Later(x) : x \in U}
<1>1. IsFiniteSet(U)
  BY JobAssumption, FS_Subset
<1>2. T \in SUBSET (SUBSET U) /\ T # {}
  OBVIOUS
<1>3. PICK X \in T : \A Y \in T : ~(Y \subseteq X /\ Y # X)
  <2> HIDE DEF T
  <2>1. QED
    BY <1>1, <1>2, MinimalSubset
<1>4. PICK last \in U : X = Later(last)
  OBVIOUS
<1>5. ASSUME NEW k \in U \ {last}, ~Before(recs, k, last) PROVE FALSE
  <2>1. Before(recs, last, k)
    BY <1>5, BeforeOrder
  <2>2. k \in Later(last) /\ k \notin Later(k)
    BY <2>1, BeforeOrder
  <2>3. Later(k) \subseteq Later(last)
    BY <2>1, BeforeOrder
  <2>4. Later(k) \in T
    OBVIOUS
  <2> HIDE DEF Later, T
  <2>5. QED
    BY <1>3, <1>4, <2>2, <2>3, <2>4
<1>6. QED
  BY <1>5

\* Sets of generations can be counted.
LEMMA JobsCount ==
  ASSUME NEW U \in SUBSET Job
  PROVE  IsFiniteSet(U) /\ Cardinality(U) \in Nat
BY JobAssumption, FS_Subset, FS_CardinalityType

\* Generations that are added in order, each finding fewer than n before it,
\* are n in the end at most.
LEMMA AddedInOrder ==
  ASSUME NEW recs \in [Job -> JobRecord], NEW n \in Nat,
         NEW A \in SUBSET Job, Cardinality(A) <= n, NEW U \in SUBSET Job,
         \A j \in U : Cardinality(A \union {k \in U : Before(recs, k, j)}) < n
  PROVE  Cardinality(A \union U) <= n
<1>1. CASE U = {}
  <2>1. A \union U = A
    BY <1>1
  <2>2. QED
    BY <2>1
<1>2. CASE U # {}
  <2>1. PICK last \in U : \A k \in U \ {last} : Before(recs, k, last)
    BY <1>2, LastInOrder
  <2> DEFINE B == A \union {k \in U : Before(recs, k, last)}
  <2>2. A \union U = B \union {last}
    BY <2>1, BeforeOrder
  <2>3. B \in SUBSET Job /\ Cardinality(B) < n
    OBVIOUS
  <2> HIDE DEF B
  <2>4. IsFiniteSet(B) /\ Cardinality(B) \in Nat
    BY <2>3, JobsCount
  <2>5. Cardinality(B \union {last}) <= Cardinality(B) + 1
    <3>1. Cardinality(B \union {last}) = IF last \in B THEN Cardinality(B)
                                         ELSE Cardinality(B) + 1
      BY <2>4, FS_AddElement
    <3>2. QED
      BY <2>4, <3>1
  <2>6. Cardinality(B \union {last}) \in Nat
    BY <2>3, JobsCount
  <2>7. QED
    BY <2>2, <2>3, <2>4, <2>5, <2>6
<1>3. QED
  BY <1>1, <1>2

\* With well-formed records a worker slot is an active record of its scope.
LEMMA SlotsAreWorkers ==
  ASSUME NEW recs, \A k \in Job : GoodRecord(recs[k])
  PROVE  WorkerSlots(recs) = {k \in Job : HoldsWorker(recs[k])}
BY DEF WorkerSlots, HoldsWorker, HoldsResult, Active, GoodRecord, WellFormed

\* Workers that are let go free slots.
LEMMA SlotsKept ==
  ASSUME NEW recs, \A k \in Job : GoodRecord(recs[k]),
         NEW recs2, \A k \in Job : GoodRecord(recs2[k]),
         \A k \in Job : HoldsWorker(recs2[k]) => HoldsWorker(recs[k]),
         SlotsWithin(recs)
  PROVE  SlotsWithin(recs2)
<1>1. WorkerSlots(recs2) \subseteq WorkerSlots(recs)
  BY SlotsAreWorkers
<1>2. WorkerSlots(recs) \in SUBSET Job
  BY DEF WorkerSlots
<1>3. Cardinality(WorkerSlots(recs2)) <= Cardinality(WorkerSlots(recs))
  BY <1>1, <1>2, JobsCount, FS_Subset
<1>4. Cardinality(WorkerSlots(recs)) \in Nat /\ Cardinality(WorkerSlots(recs2)) \in Nat
  BY <1>1, <1>2, JobsCount
<1>5. Cardinality(WorkerSlots(recs2)) <= MaxConcurrent
  BY <1>3, <1>4, OptionsAssumption DEF SlotsWithin
<1>6. ASSUME NEW j \in Job, ScopeLimitOf[j] # 0
      PROVE  Cardinality(ScopeSlots(recs2, j)) <= ScopeLimitOf[j]
  <2>1. ScopeSlots(recs2, j) \subseteq ScopeSlots(recs, j)
    BY DEF ScopeSlots
  <2>2. ScopeSlots(recs, j) \in SUBSET Job
    BY DEF ScopeSlots
  <2>3. Cardinality(ScopeSlots(recs2, j)) <= Cardinality(ScopeSlots(recs, j))
    BY <2>1, <2>2, JobsCount, FS_Subset
  <2>4. Cardinality(ScopeSlots(recs, j)) \in Nat /\ Cardinality(ScopeSlots(recs2, j)) \in Nat
    BY <2>1, <2>2, JobsCount
  <2>5. Cardinality(ScopeSlots(recs, j)) <= ScopeLimitOf[j] /\ ScopeLimitOf[j] \in Nat
    BY <1>6, ScopeAssumption DEF SlotsWithin
  <2>6. QED
    BY <2>3, <2>4, <2>5
<1>7. QED
  BY <1>5, <1>6 DEF SlotsWithin

\* The dispatch pass keeps both bounds.
LEMMA DispatchWithin ==
  ASSUME NEW recs \in [Job -> JobRecord], \A k \in Job : GoodRecord(recs[k]),
         SlotsWithin(recs), NEW started \in SUBSET Job, DispatchSet(recs, started),
         NEW recs2, \A k \in Job : GoodRecord(recs2[k]),
         \A k \in Job : HoldsWorker(recs2[k]) => HoldsWorker(recs[k]) \/ k \in started
  PROVE  SlotsWithin(recs2)
<1> DEFINE Earlier(j) == {k \in started : Before(recs, k, j)}
<1>1. ASSUME NEW j \in started
      PROVE  /\ Cardinality(WorkerSlots(recs) \union Earlier(j)) < MaxConcurrent
             /\ \/ ScopeLimitOf[j] = 0
                \/ Cardinality(ScopeSlots(recs, j) \union
                     {k \in Earlier(j) : ScopeOf[k] = ScopeOf[j]}) < ScopeLimitOf[j]
  BY DEF DispatchSet
<1>2. Cardinality(WorkerSlots(recs2)) <= MaxConcurrent
  <2>1. WorkerSlots(recs) \in SUBSET Job /\ MaxConcurrent \in Nat
        /\ Cardinality(WorkerSlots(recs)) <= MaxConcurrent
    BY OptionsAssumption DEF WorkerSlots, SlotsWithin
  <2>2. Cardinality(WorkerSlots(recs) \union started) <= MaxConcurrent
    BY <1>1, <2>1, AddedInOrder
  <2>3. WorkerSlots(recs2) \subseteq WorkerSlots(recs) \union started
    BY SlotsAreWorkers
  <2>4. Cardinality(WorkerSlots(recs2)) <= Cardinality(WorkerSlots(recs) \union started)
    BY <2>1, <2>3, JobsCount, FS_Subset
  <2>5. Cardinality(WorkerSlots(recs2)) \in Nat /\ Cardinality(WorkerSlots(recs) \union started) \in Nat
    BY <2>1, <2>3, JobsCount
  <2>6. QED
    BY <2>1, <2>2, <2>4, <2>5
<1>3. ASSUME NEW j \in Job, ScopeLimitOf[j] # 0
      PROVE  Cardinality(ScopeSlots(recs2, j)) <= ScopeLimitOf[j]
  <2> DEFINE U == {k \in started : ScopeOf[k] = ScopeOf[j]}
             A == ScopeSlots(recs, j)
             n == ScopeLimitOf[j]
  <2>1. A \in SUBSET Job /\ U \in SUBSET Job /\ n \in Nat /\ Cardinality(A) <= n
    BY <1>3, ScopeAssumption DEF ScopeSlots, SlotsWithin
  <2>2. ASSUME NEW i \in U
        PROVE  Cardinality(A \union {k \in U : Before(recs, k, i)}) < n
    <3>1. ScopeOf[i] = ScopeOf[j] /\ ScopeLimitOf[i] = n /\ i \in started
      BY ScopeAssumption
    <3>2. ScopeSlots(recs, i) = A
      BY <3>1 DEF ScopeSlots
    <3>3. {k \in Earlier(i) : ScopeOf[k] = ScopeOf[i]} = {k \in U : Before(recs, k, i)}
      BY <3>1
    <3>4. QED
      BY <1>1, <1>3, <3>1, <3>2, <3>3
  <2>3. ScopeSlots(recs2, j) \subseteq A \union U
    BY DEF ScopeSlots
  <2> HIDE DEF A, U, n
  <2>4. Cardinality(A \union U) <= n
    BY <2>1, <2>2, AddedInOrder
  <2>5. Cardinality(ScopeSlots(recs2, j)) <= Cardinality(A \union U)
    BY <2>1, <2>3, JobsCount, FS_Subset
  <2>6. Cardinality(ScopeSlots(recs2, j)) \in Nat /\ Cardinality(A \union U) \in Nat
    BY <2>1, <2>3, JobsCount
  <2>7. QED
    BY <2>1, <2>4, <2>5, <2>6 DEF n
<1>4. QED
  BY <1>2, <1>3 DEF SlotsWithin

\* Memory and snapshot keep to the bounds.
SlotsInv == SlotsWithin(records) /\ SlotsWithin(disk)

\* A save that returned or threw.
LEMMA SavedOrNot ==
  ASSUME Save PROVE disk' \in {disk, records'}
BY DEF Save, SaveReturns, SaveThrows

\* The records of memory and snapshot are well-formed.
LEMMA AllGood ==
  ASSUME QueueInv PROVE \A k \in Job : GoodRecord(records[k]) /\ GoodRecord(disk[k])
BY DEF QueueInv, TypeOK, Reclaimable, GoodRecord

\* A step that lets workers go in memory, and saves or not.
LEMMA LetGo ==
  ASSUME QueueInv, QueueInv', SlotsInv, disk' \in {disk, records'},
         \/ \A k \in Job : HoldsWorker(records'[k]) => HoldsWorker(records[k])
         \/ \A k \in Job : HoldsWorker(records'[k]) => HoldsWorker(disk[k])
  PROVE  SlotsInv'
<1>1. \A k \in Job : GoodRecord(records[k]) /\ GoodRecord(disk[k])
  BY AllGood
<1>2. \A k \in Job : GoodRecord(records'[k])
  BY DEF QueueInv, TypeOK, Reclaimable, GoodRecord
<1>3. SlotsWithin(records) /\ SlotsWithin(disk)
  BY DEF SlotsInv
<1>4. SlotsWithin(records')
  BY <1>1, <1>2, <1>3, SlotsKept
<1>5. SlotsWithin(disk')
  BY <1>3, <1>4
<1>6. SlotsWithin(records)' /\ SlotsWithin(disk)'
  BY <1>4, <1>5 DEF SlotsWithin, WorkerSlots, ScopeSlots
<1>7. QED
  BY <1>6 DEF SlotsInv

\* One record evolves under a save.
LEMMA OneLetsGo ==
  ASSUME QueueInv, QueueInv', SlotsInv, NEW j \in Job, NEW s, Evolves(records[j], s),
         records' = [records EXCEPT ![j] = s], disk' \in {disk, records'}
  PROVE  SlotsInv'
<1>1. records \in [Job -> JobRecord]
  BY DEF QueueInv, TypeOK
<1>2. \A k \in Job : HoldsWorker(records'[k]) => HoldsWorker(records[k])
  BY <1>1 DEF Evolves
<1>3. QED
  BY <1>2, LetGo

\* A tick: maintenance lets workers go, dispatch starts what finds room.
LEMMA TickSlots == ASSUME QueueInv, QueueInv', SlotsInv, Tick PROVE SlotsInv'
<1> DEFINE M == Maintained
<1>1. PICK started \in SUBSET Candidates(M) :
        /\ IF phase = "up" THEN DispatchSet(M, started) ELSE started = {}
        /\ Dispatch(started)
  BY DEF Tick
<1>2. started \in SUBSET Job
  BY <1>1 DEF Candidates
<1>3. M \in [Job -> JobRecord] /\ \A k \in Job : Pass(records[k], M[k])
  BY MaintainedFacts
<1>4. \A k \in Job : GoodRecord(M[k]) /\ (HoldsWorker(M[k]) => HoldsWorker(records[k]))
  BY <1>3 DEF Pass, Evolves
<1>5. \A k \in Job : GoodRecord(records[k]) /\ GoodRecord(records'[k])
  BY AllGood DEF QueueInv, TypeOK, Reclaimable, GoodRecord
<1>6. \A k \in Job : k \in started \/ records'[k] = M[k]
  BY <1>1 DEF Dispatch
<1> HIDE DEF M
<1>7. SlotsWithin(M)
  BY <1>4, <1>5, SlotsKept DEF SlotsInv
<1>8. SlotsWithin(records')
  <2>1. CASE DispatchSet(M, started)
    BY <2>1, <1>2, <1>3, <1>4, <1>5, <1>6, <1>7, DispatchWithin
  <2>2. CASE started = {}
    BY <2>2, <1>4, <1>5, <1>6, <1>7, SlotsKept
  <2>3. QED
    BY <1>1, <2>1, <2>2
<1>9. disk' \in {disk, records'}
  BY SavedOrNot DEF Tick
<1>10. SlotsWithin(records)' /\ SlotsWithin(disk)'
  BY <1>8, <1>9 DEF SlotsInv, SlotsWithin, WorkerSlots, ScopeSlots
<1>11. QED
  BY <1>10 DEF SlotsInv

\* enqueue creates a queued record and lets the others go on.
LEMMA EnqueueSlots ==
  ASSUME QueueInv, QueueInv', SlotsInv, NEW j \in Job, Enqueue(j) PROVE SlotsInv'
<1>1. disk' \in {disk, records'}
  BY SavedOrNot DEF Enqueue
<1>2. ASSUME NEW k \in Job, HoldsWorker(records'[k]) PROVE HoldsWorker(records[k])
  <2>1. CASE k = j
    <3>1. records'[k] = NewJobRecord
      BY <2>1 DEF Enqueue
    <3>2. NewJobRecord.state = "queued"
      BY DEF NewJobRecord, NoRecord
    <3>3. QED
      BY <1>2, <3>1, <3>2 DEF HoldsWorker, Active
  <2>2. CASE k # j
    <3>0. GoodRecord(records[k])
      BY AllGood
    <3>1. records'[k] = Superseded(k, j) \/ records'[k] = records[k]
      BY <2>2 DEF Enqueue
    <3>2. HoldsWorker(Superseded(k, j)) => HoldsWorker(records[k])
      <4>1. CASE records[k].state = "queued"
        BY <4>1, <3>0, SupersededEvolves DEF Superseded, Active, Evolves, Live
      <4>2. CASE records[k].state \in Active
        BY <3>0, <4>2 DEF Superseded, HoldsWorker, HoldsResult, Active, GoodRecord, JobRecord
      <4>3. CASE records[k].state # "queued" /\ records[k].state \notin Active
        BY <4>3 DEF Superseded
      <4>4. QED
        BY <4>1, <4>2, <4>3
    <3>3. QED
      BY <1>2, <3>1, <3>2
  <2>3. QED
    BY <2>1, <2>2
<1>3. QED
  BY <1>1, <1>2, LetGo

\* An executor's outcome, applied for a run or for a recovered worker.
LEMMA OutcomeSlots ==
  ASSUME QueueInv, QueueInv', SlotsInv, NEW j \in Job, records[j].state = "running",
         NEW token, NEW o \in Outcomes, ApplyOutcome(j, token, o)
  PROVE  SlotsInv'
<1>1. records' = [records EXCEPT ![j] = AfterOutcome(j, o)]
  BY DEF ApplyOutcome
<1>2. disk' \in {disk, records'}
  BY SavedOrNot DEF ApplyOutcome, SettleToPublish, SaveReturns, SaveThrows
<1>3. QED
  BY <1>1, <1>2, OutcomeEvolves, OneLetsGo

\* Leases that are renewed or adopted start nobody.
LEMMA LeaseSlots ==
  ASSUME QueueInv, QueueInv', SlotsInv, NEW j \in Job, Heartbeat(j) \/ AdoptRecovered(j)
  PROVE  SlotsInv'
<1>0. records \in [Job -> JobRecord]
  BY DEF QueueInv, TypeOK
<1>1. disk' \in {disk, records'}
  BY SavedOrNot DEF Heartbeat, AdoptRecovered
<1>2. ASSUME NEW k \in Job
      PROVE  records'[k].state = records[k].state /\ records'[k].hasResult = records[k].hasResult
  <2>1. CASE Heartbeat(j)
    BY <1>0, <2>1 DEF Heartbeat, JobRecord
  <2>2. CASE AdoptRecovered(j)
    BY <1>0, <2>2 DEF AdoptRecovered, JobRecord
  <2>3. QED
    BY <2>1, <2>2
<1>3. \A k \in Job : HoldsWorker(records'[k]) => HoldsWorker(records[k])
  BY <1>2 DEF HoldsWorker, HoldsResult
<1>4. QED
  BY <1>1, <1>3, LetGo

\* A publisher's answer.
LEMMA PublishSlots ==
  ASSUME QueueInv, QueueInv', SlotsInv, NEW c \in calls, NEW published \in BOOLEAN,
         PublishResolves(c, published)
  PROVE  SlotsInv'
<1>1. CASE PublishVoid(c)
  <2>1. records' = records /\ disk' = disk
    BY <1>1 DEF PublishResolves
  <2>2. QED
    BY <2>1, LetGo
<1>2. CASE ~PublishVoid(c)
  <2>1. records' = [records EXCEPT ![c.job] = AfterPublish(c, published)]
    BY <1>2 DEF PublishResolves
  <2>2. disk' \in {disk, records'}
    BY <1>2, SavedOrNot DEF PublishResolves
  <2>3. c.job \in Job
    BY DEF QueueInv, TypeOK, Call
  <2>4. QED
    BY <2>1, <2>2, <2>3, PublishEvolves, OneLetsGo
<1>3. QED
  BY <1>1, <1>2

\* The end of a shutdown, the loss of memory, and a restart.
LEMMA ShutdownSlots ==
  ASSUME QueueInv, QueueInv', SlotsInv, FinishShutdown \/ Crash \/ Exit \/ Boot \/ Recover
  PROVE  SlotsInv'
<1>1. CASE FinishShutdown
  <2>1. disk' \in {disk, records'}
    BY <1>1, SavedOrNot DEF FinishShutdown
  <2>2. ASSUME NEW k \in Job, HoldsWorker(records'[k]) PROVE HoldsWorker(records[k])
    BY <1>1, <2>2 DEF FinishShutdown
  <2>3. QED
    BY <2>1, <2>2, LetGo
<1>2. CASE Crash \/ Exit
  <2>1. disk' = disk /\ records' = EmptyQueue
    BY <1>2 DEF Crash, Exit, LoseMemory
  <2>2. \A k \in Job : ~HoldsWorker(records'[k])
    BY <2>1 DEF EmptyQueue, NoRecord, HoldsWorker, Active
  <2>3. QED
    BY <2>1, <2>2, LetGo
<1>3. CASE Boot
  BY <1>3, LetGo DEF Boot
<1>4. CASE Recover
  <2>1. records' = [k \in Job |-> Reconciled(disk[k])] /\ disk' = records'
    BY <1>4 DEF Recover, SaveReturns
  <2>2. \A k \in Job : HoldsWorker(records'[k]) => HoldsWorker(disk[k])
    BY <2>1, AllGood, ReconciledEvolves DEF Evolves, QueueInv, TypeOK
  <2>3. QED
    BY <2>1, <2>2, LetGo
<1>5. QED
  BY <1>1, <1>2, <1>3, <1>4

\* Every step keeps memory and snapshot within the bounds.
LEMMA NextSlots == ASSUME QueueInv, QueueInv', SlotsInv, [Next]_vars PROVE SlotsInv'
<1>1. ASSUME NEW j \in Job, Enqueue(j) PROVE SlotsInv'
  BY <1>1, EnqueueSlots
<1>2. ASSUME Tick PROVE SlotsInv'
  BY <1>2, TickSlots
<1>3. ASSUME NEW r \in runs, NEW o \in Outcomes, Settle(r, o) PROVE SlotsInv'
  <2>1. r.job \in Job /\ records[r.job].state = "running" /\ ApplyOutcome(r.job, r.token, o)
    BY <1>3 DEF QueueInv, TypeOK, Run, RunsMatchLeases, Settle
  <2>2. QED
    BY <2>1, OutcomeSlots
<1>4. ASSUME NEW j \in Job, Heartbeat(j) \/ AdoptRecovered(j) PROVE SlotsInv'
  BY <1>4, LeaseSlots
<1>5. ASSUME NEW c \in calls, NEW published \in BOOLEAN, PublishResolves(c, published)
      PROVE  SlotsInv'
  BY <1>5, PublishSlots
<1>6. ASSUME NEW j \in Job, NEW o \in Outcomes, ResolveRecovered(j, o) PROVE SlotsInv'
  <2>1. records[j].state = "running" /\ ApplyOutcome(j, records[j].leaseOwner, o)
    BY <1>6 DEF ResolveRecovered, Orphaned, QueueInv, Reclaimable, WellFormed
  <2>2. QED
    BY <2>1, OutcomeSlots
<1>7. ASSUME FinishShutdown \/ Crash \/ Exit \/ Boot \/ Recover PROVE SlotsInv'
  BY <1>7, ShutdownSlots
<1>8. ASSUME UNCHANGED <<records, disk>> PROVE SlotsInv'
  BY <1>8, LetGo
<1>9. (\E r \in runs : SettleRevoked(r)) \/ BeginShutdown \/ AdvanceClock \/ UNCHANGED vars
        => UNCHANGED <<records, disk>>
  BY DEF SettleRevoked, BeginShutdown, AdvanceClock, vars
<1>10. QED
  BY <1>1, <1>2, <1>3, <1>4, <1>5, <1>6, <1>7, <1>8, <1>9 DEF Next

\* The empty queue holds no slot.
LEMMA InitSlots == Init => SlotsInv
<1> SUFFICES ASSUME Init PROVE SlotsInv
  OBVIOUS
<1>1. WorkerSlots(EmptyQueue) = {} /\ \A j \in Job : ScopeSlots(EmptyQueue, j) = {}
  BY DEF WorkerSlots, ScopeSlots, EmptyQueue, NoRecord, HoldsWorker, Active
<1>2. SlotsWithin(EmptyQueue)
  BY <1>1, FS_EmptySet, OptionsAssumption, ScopeAssumption DEF SlotsWithin
<1>3. QED
  BY <1>2 DEF Init, SlotsInv

\* No more workers than configured, in all and in each scope, in every state:
\* through retries, lease expiry, adoption and restarts over a snapshot that lags.
THEOREM SlotsAreBounded == Spec => []SlotsBounded
<1>1. Init => SlotsInv
  BY InitSlots
<1>2. QueueInv /\ QueueInv' /\ SlotsInv /\ [Next]_vars => SlotsInv'
  BY NextSlots
<1>3. SlotsInv => SlotsBounded
  BY DEF SlotsInv, SlotsBounded
<1>4. QED
  BY <1>1, <1>2, <1>3, QueueInvariant, PTL DEF Spec
=============================================================================
