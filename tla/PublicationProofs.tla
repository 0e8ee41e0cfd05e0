-------------------------- MODULE PublicationProofs --------------------------
(***************************************************************************)
(* Proofs about Publication, for every set of generations, every           *)
(* assignment of heads and every number of moves, faults and crashes: the  *)
(* durable rows agree, usage is accounted once, a write to the forge was   *)
(* fresh, and a published record is final.                                 *)
(*                                                                         *)
(* The invariant says of every job what its call may rely on at the await  *)
(* it is at (JobInv), that no executor holds a record a call publishes     *)
(* (Owned), and of the tick's mirror that its job is retired (MirrorInv):  *)
(* a publishing record's run has one writer, the call.                     *)
(***************************************************************************)
EXTENDS Publication, TLAPS

CallRecord == [at : Points, expired : BOOLEAN, withUsage : BOOLEAN, seen : BOOLEAN,
               from : RunStates, to : {"none", "completed", "failed"}]

ExecRecord == [at : ExecPoints, from : RunStates, to : RunStates, caught : BOOLEAN]

\* The awaits before the gate has decided, and those with a durable record.
Undecided == {"get", "persist", "head", "write", "written", "record", "refuse"}
Recorded == {"head", "write", "written", "record", "refuse"}
Writing == {"write", "written", "record"}

\* A call belongs to a record the queue is publishing, and an executor to one that
\* works or was retired under it: never to the same record.
Owned(j) ==
  /\ calls[j].at # "idle" => queue[j] = "publishing"
  /\ exec[j].at # "none" => queue[j] \in {"working", "failed", "superseded"}
  /\ exec[j].to \in {"none", "publishing", "failed", "superseded"}

\* What the call knows of the durable record at each await.
RecordKnown(j) ==
  /\ calls[j].at = "persist" =>
       /\ publication[j] # "published"
       /\ calls[j].withUsage = (publication[j] = "none")
  /\ calls[j].at \in Recorded => publication[j] \in {"pending", "failed"}
  /\ calls[j].at \in {"written", "record"} => j \in landed

\* The publication is decided and nobody has to write the run any more.
Closed(j) ==
  \/ publication[j] = "published"
  \/ publication[j] = "failed" /\ run[j] \in TerminalRun \ {"completed"}

\* The mirror of publish() writes what the record says, and its compare-and-set
\* never loses: nobody else writes the run of a publishing record.
RunKnown(j) ==
  /\ calls[j].at \in {"getRun", "hop"} =>
       \/ calls[j].to = "completed" /\ publication[j] = "published"
       \/ calls[j].to = "failed" /\ publication[j] = "failed"
  /\ calls[j].at = "hop" => run[j] = calls[j].from /\ run[j] \notin TerminalRun
  /\ calls[j].at = "true" \/ queue[j] = "completed" => Closed(j)

\* A call has seen its head current if it is, or if the gate let it through.
HeadSeen(j) ==
  /\ calls[j].at \in Undecided /\ head = HeadOf[j] => calls[j].seen = TRUE
  /\ calls[j].at \in Writing => calls[j].seen = TRUE

\* The rows of the store against the forge.
RowsAgree(j) ==
  /\ j \in landed \union stray => publication[j] # "none"
  /\ publication[j] = "published" => j \in landed
  /\ run[j] = "completed" => publication[j] = "published"
  /\ usage[j] = (IF publication[j] = "none" THEN 0 ELSE 1)

JobInv(j) ==
  Owned(j) /\ RecordKnown(j) /\ RunKnown(j) /\ HeadSeen(j) /\ RowsAgree(j)

\* The tick mirrors the run of a retired record, from an open state.
MirrorInv ==
  \/ mirror = NoMirror
  \/ /\ mirror.job \in Job
     /\ queue[mirror.job] \in RetiredStates
     /\ mirror.to = queue[mirror.job]
     /\ mirror.from \notin TerminalRun

PubInv == PubTypeOK /\ (\A j \in Job : JobInv(j)) /\ MirrorInv

-----------------------------------------------------------------------------
(* Frames *)

\* A step that writes the rows and the call of job j only.
Local(j) ==
  /\ \A k \in Job \ {j} : /\ calls'[k] = calls[k]
                          /\ queue'[k] = queue[k]
                          /\ publication'[k] = publication[k]
                          /\ usage'[k] = usage[k]
                          /\ run'[k] = run[k]
                          /\ exec'[k] = exec[k]
                          /\ k \in landed' <=> k \in landed
                          /\ k \in stray' <=> k \in stray
  /\ head' = head

\* It keeps what the invariant says of every other job.
LEMMA LocalKeeps ==
  ASSUME NEW j \in Job, Local(j), \A k \in Job : JobInv(k), JobInv(j)'
  PROVE  \A k \in Job : JobInv(k)'
<1> SUFFICES ASSUME NEW k \in Job, k # j PROVE JobInv(k)'
  OBVIOUS
<1>1. /\ calls'[k] = calls[k] /\ queue'[k] = queue[k] /\ publication'[k] = publication[k]
      /\ usage'[k] = usage[k] /\ run'[k] = run[k] /\ head' = head
      /\ exec'[k] = exec[k] /\ (k \in landed' <=> k \in landed) /\ (k \in stray' <=> k \in stray)
  BY DEF Local
<1>2. JobInv(k)
  OBVIOUS
<1>3. Owned(k)' /\ RecordKnown(k)' /\ RowsAgree(k)'
  BY <1>1, <1>2 DEF JobInv, Owned, RecordKnown, RowsAgree
<1>4. RunKnown(k)' /\ HeadSeen(k)'
  BY <1>1, <1>2 DEF JobInv, RunKnown, HeadSeen, Closed
<1>5. QED
  BY <1>3, <1>4 DEF JobInv

\* The constant calls have their type.
LEMMA NoCallFacts ==
  /\ NoCall \in CallRecord /\ NoCall.at = "idle"
  /\ [NoCall EXCEPT !.at = "true"] \in CallRecord
  /\ [NoCall EXCEPT !.at = "true"].at = "true"
BY DEF NoCall, CallRecord, Points, RunStates, TerminalRun, RetiredStates

\* So does the executor that is none.
LEMMA NoExecFacts == NoExec \in ExecRecord /\ NoExec.at = "none" /\ NoExec.to = "none"
BY DEF NoExec, ExecRecord, ExecPoints, RunStates

\* An executor that is replaced.
LEMMA ExecSet ==
  ASSUME PubTypeOK, NEW j \in Job, NEW e \in ExecRecord, exec' = [exec EXCEPT ![j] = e]
  PROVE  /\ exec' \in [Job -> ExecRecord] /\ exec'[j] = e
         /\ \A k \in Job \ {j} : exec'[k] = exec[k]
BY DEF PubTypeOK, ExecRecord

\* A call that is replaced.
LEMMA CallSet ==
  ASSUME PubTypeOK, NEW j \in Job, NEW c \in CallRecord, calls' = [calls EXCEPT ![j] = c]
  PROVE  /\ calls' \in [Job -> CallRecord] /\ calls'[j] = c
         /\ \A k \in Job \ {j} : calls'[k] = calls[k]
BY DEF PubTypeOK, CallRecord

\* An answer of a store or the forge.
LEMMA AnswerShape ==
  ASSUME NEW a \in Answers
  PROVE  a.ok \in BOOLEAN /\ a.done \in BOOLEAN /\ (a.ok => a.done)
<1>1. CASE a = [ok |-> TRUE, done |-> TRUE]
  BY <1>1
<1>2. CASE a = [ok |-> FALSE, done |-> TRUE]
  BY <1>2
<1>3. CASE a = [ok |-> FALSE, done |-> FALSE]
  BY <1>3
<1>4. QED
  BY <1>1, <1>2, <1>3 DEF Answers

\* The answer with its charge.
LEMMA AnswerFacts ==
  ASSUME PubTypeOK, NEW a \in Answers, Charge(a)
  PROVE  /\ faults' \in Nat
         /\ a.ok \in BOOLEAN /\ a.done \in BOOLEAN
         /\ a.ok => a.done
<1>1. faults' \in Nat
  BY DEF PubTypeOK, Charge, Fault
<1>2. QED
  BY <1>1, AnswerShape

\* Nothing has happened yet.
LEMMA PubInit == Init => PubInv
<1> SUFFICES ASSUME Init PROVE PubInv
  OBVIOUS
<1>0. calls \in [Job -> CallRecord] /\ mirror \in [job : Job \union {0}, from : RunStates,
                                                  to : {"none"} \union RetiredStates]
  BY NoCallFacts DEF Init, NoMirror, RunStates
<1>0a. exec \in [Job -> ExecRecord]
  BY NoExecFacts DEF Init
<1>0b. head \in Heads /\ late \in BOOLEAN
  BY PublicationAssumption DEF Init, Heads
<1>1. PubTypeOK
  BY <1>0, <1>0a, <1>0b DEF Init, PubTypeOK, CallRecord, ExecRecord, RunStates
<1>2. ASSUME NEW j \in Job PROVE JobInv(j)
  <2>1. /\ calls[j].at = "idle" /\ queue[j] = "absent" /\ publication[j] = "none"
        /\ usage[j] = 0 /\ run[j] = "none" /\ exec[j].at = "none" /\ exec[j].to = "none"
        /\ j \notin landed \union stray
    BY NoCallFacts, NoExecFacts DEF Init
  <2>2. QED
    BY <2>1 DEF JobInv, Owned, RecordKnown, RunKnown, HeadSeen, RowsAgree,
                Undecided, Recorded, Writing
<1>3. QED
  BY <1>1, <1>2 DEF PubInv, MirrorInv, Init

-----------------------------------------------------------------------------
(* The queue *)

\* A step of the queue or the executor on a job without a call.  It completes
\* nothing, and a retired record stays as it is.
LEMMA JobMoves ==
  ASSUME PubInv, PubTypeOK', NEW j \in Job, Local(j), calls[j].at = "idle",
         calls' = calls, publication' = publication, usage' = usage,
         landed' = landed, stray' = stray, mirror' = mirror,
         queue[j] # "completed", queue'[j] # "completed",
         queue[j] \in RetiredStates => queue'[j] = queue[j],
         run'[j] = run[j] \/ run'[j] # "completed",
         Owned(j)'
  PROVE  PubInv'
<1>0. JobInv(j) /\ MirrorInv /\ \A k \in Job : JobInv(k)
  BY DEF PubInv
<1>1. RecordKnown(j)' /\ RunKnown(j)' /\ HeadSeen(j)' /\ RowsAgree(j)'
  BY <1>0 DEF JobInv, RecordKnown, RunKnown, HeadSeen, RowsAgree, Undecided, Recorded, Writing
<1>2. MirrorInv'
  BY <1>0 DEF MirrorInv, Local
<1>3. QED
  BY <1>0, <1>1, <1>2, LocalKeeps DEF PubInv, JobInv

\* The queue's record of a job without a call changes, and perhaps its executor.
LEMMA RecordMoves ==
  ASSUME PubInv, NEW j \in Job, calls[j].at = "idle", queue[j] \notin RetiredStates,
         NEW s \in {"queued", "working", "publishing", "failed", "superseded"},
         queue' = [queue EXCEPT ![j] = s],
         NEW e \in ExecRecord, exec' = [exec EXCEPT ![j] = e],
         e.at # "none" => s \in {"working", "failed", "superseded"},
         e.to \in {"none", "publishing", "failed", "superseded"},
         unusable' \subseteq Job, faults' \in Nat,
         UNCHANGED <<cancelled, calls, late, crashes, tickVars, storeVars, forgeVars>>
  PROVE  PubInv'
<1>0. PubTypeOK
  BY DEF PubInv
<1>1. exec' \in [Job -> ExecRecord] /\ exec'[j] = e /\ \A k \in Job \ {j} : exec'[k] = exec[k]
  BY <1>0, ExecSet
<1>2. /\ queue' \in [Job -> {"absent", "queued", "working", "publishing"} \union RetiredStates]
      /\ queue'[j] = s /\ \A k \in Job \ {j} : queue'[k] = queue[k]
  BY <1>0 DEF PubTypeOK, RetiredStates
<1>3. /\ calls' = calls /\ publication' = publication /\ usage' = usage /\ run' = run
      /\ landed' = landed /\ stray' = stray /\ head' = head /\ mirror' = mirror
  BY DEF tickVars, storeVars, forgeVars
<1>4. PubTypeOK'
  BY <1>0, <1>1, <1>2 DEF PubTypeOK, ExecRecord, tickVars, storeVars, forgeVars
<1>5. Local(j)
  BY <1>1, <1>2, <1>3 DEF Local
<1>6. Owned(j)'
  BY <1>1, <1>2, <1>3 DEF Owned
<1>7. queue[j] # "completed" /\ queue'[j] # "completed"
  BY <1>2 DEF RetiredStates
<1>8. QED
  BY <1>3, <1>4, <1>5, <1>6, <1>7, JobMoves

\* Its executor and its run change, and neither is ever set to completed.
LEMMA ExecMoves ==
  ASSUME PubInv, NEW j \in Job, exec[j].at # "none",
         NEW e \in ExecRecord, exec' = [exec EXCEPT ![j] = e],
         e.to \in {"none", "publishing", "failed", "superseded"},
         run' \in [Job -> RunStates], \A k \in Job \ {j} : run'[k] = run[k],
         run'[j] = run[j] \/ run'[j] # "completed",
         faults' \in Nat,
         UNCHANGED <<calls, publication, usage, late, crashes, recordVars, tickVars, forgeVars>>
  PROVE  PubInv'
<1>0. PubTypeOK /\ JobInv(j)
  BY DEF PubInv
<1>1. exec' \in [Job -> ExecRecord] /\ exec'[j] = e /\ \A k \in Job \ {j} : exec'[k] = exec[k]
  BY <1>0, ExecSet
<1>2. /\ calls' = calls /\ publication' = publication /\ usage' = usage /\ queue' = queue
      /\ landed' = landed /\ stray' = stray /\ head' = head /\ mirror' = mirror
  BY DEF recordVars, tickVars, forgeVars
<1>3. PubTypeOK'
  BY <1>0, <1>1, <1>2 DEF PubTypeOK, ExecRecord, recordVars, tickVars, forgeVars
<1>4. Local(j)
  BY <1>1, <1>2 DEF Local
<1>5. queue[j] \in {"working", "failed", "superseded"} /\ calls[j].at = "idle"
  BY <1>0 DEF JobInv, Owned
<1>6. Owned(j)'
  BY <1>1, <1>2, <1>5 DEF Owned
<1>7. QED
  BY <1>2, <1>3, <1>4, <1>5, <1>6, JobMoves

\* A new generation has neither call nor executor, nor have the queued ones it
\* supersedes.
LEMMA EnqueueInv == ASSUME PubInv, NEW j \in Job, Enqueue(j) PROVE PubInv'
<1>0. PubTypeOK /\ MirrorInv /\ \A k \in Job : JobInv(k)
  BY DEF PubInv
<1>1. /\ queue[j] = "absent" /\ exec' = exec /\ calls' = calls /\ publication' = publication
      /\ usage' = usage /\ run' = run /\ landed' = landed /\ stray' = stray /\ head' = head
      /\ mirror' = mirror
  BY DEF Enqueue, tickVars, storeVars, forgeVars
<1>2. ASSUME NEW k \in Job
      PROVE  \/ queue'[k] = queue[k]
             \/ queue[k] \in {"absent", "queued"} /\ queue'[k] \in {"queued", "superseded"}
  BY <1>1 DEF Enqueue
<1>3. queue' \in [Job -> {"absent", "queued", "working", "publishing"} \union RetiredStates]
  BY <1>0 DEF Enqueue, PubTypeOK, RetiredStates
<1>4. cancelled' \subseteq Job
  BY <1>0 DEF Enqueue, PubTypeOK
<1>5. PubTypeOK'
  BY <1>0, <1>3, <1>4 DEF PubTypeOK, Enqueue, tickVars, storeVars, forgeVars
<1>6. ASSUME NEW k \in Job PROVE JobInv(k)'
  <2>1. JobInv(k)
    BY <1>0
  <2>2. CASE queue'[k] = queue[k]
    BY <2>1, <2>2, <1>1 DEF JobInv, Owned, RecordKnown, RunKnown, HeadSeen, RowsAgree, Closed
  <2>3. CASE queue[k] \in {"absent", "queued"} /\ queue'[k] \in {"queued", "superseded"}
    <3>1. calls[k].at = "idle" /\ exec[k].at = "none"
      BY <2>1, <2>3 DEF JobInv, Owned
    <3>2. QED
      BY <2>1, <2>3, <3>1, <1>1
         DEF JobInv, Owned, RecordKnown, RunKnown, HeadSeen, RowsAgree, Undecided, Recorded,
             Writing
  <2>4. QED
    BY <2>2, <2>3, <1>2
<1>7. MirrorInv'
  BY <1>0, <1>1, <1>2 DEF MirrorInv, RetiredStates
<1>8. QED
  BY <1>5, <1>6, <1>7 DEF PubInv

\* The dispatch opens the run of a record that was queued.
LEMMA DispatchInv == ASSUME PubInv, NEW j \in Job, Dispatch(j) PROVE PubInv'
<1> DEFINE e == [exec[j] EXCEPT !.at = "worker"]
<1>0. PubTypeOK /\ JobInv(j)
  BY DEF PubInv
<1>1. /\ queue[j] = "queued" /\ calls' = calls /\ publication' = publication /\ usage' = usage
      /\ landed' = landed /\ stray' = stray /\ head' = head /\ mirror' = mirror
      /\ exec' = [exec EXCEPT ![j] = e]
  BY DEF Dispatch, tickVars, forgeVars
<1>2. calls[j].at = "idle" /\ exec[j].to \in {"none", "publishing", "failed", "superseded"}
  BY <1>0, <1>1 DEF JobInv, Owned
<1>3. e \in ExecRecord /\ e.to = exec[j].to
  BY <1>0 DEF PubTypeOK, ExecRecord, ExecPoints
<1> HIDE DEF e
<1>4. exec' \in [Job -> ExecRecord] /\ exec'[j] = e /\ \A k \in Job \ {j} : exec'[k] = exec[k]
  BY <1>0, <1>1, <1>3, ExecSet
<1>5. /\ queue' \in [Job -> {"absent", "queued", "working", "publishing"} \union RetiredStates]
      /\ queue'[j] = "working" /\ \A k \in Job \ {j} : queue'[k] = queue[k]
      /\ run' \in [Job -> RunStates]
      /\ run'[j] = "running" /\ \A k \in Job \ {j} : run'[k] = run[k]
  BY <1>0 DEF Dispatch, PubTypeOK, RunStates
<1>6. PubTypeOK'
  BY <1>0, <1>4, <1>5 DEF PubTypeOK, ExecRecord, Dispatch, tickVars, forgeVars
<1>7. Local(j)
  BY <1>1, <1>4, <1>5 DEF Local
<1>8. Owned(j)'
  BY <1>1, <1>2, <1>3, <1>4, <1>5 DEF Owned
<1>9. QED
  BY <1>1, <1>2, <1>5, <1>6, <1>7, <1>8, JobMoves DEF RetiredStates

\* An outcome leaves the record publishing, or retired but not completed.
LEMMA OutcomeFacts ==
  ASSUME PubTypeOK, NEW j \in Job, Complete(j) \/ Fail(j)
  PROVE  /\ unusable' \subseteq Job
         /\ \E s \in {"publishing", "failed", "superseded"} : queue' = [queue EXCEPT ![j] = s]
<1>1. CASE Complete(j)
  BY <1>1 DEF Complete, PubTypeOK
<1>2. CASE Fail(j)
  BY <1>2 DEF Fail, PubTypeOK
<1>3. QED
  BY <1>1, <1>2

\* The executor is gone when its outcome reaches the record.
LEMMA SettleInv == ASSUME PubInv, NEW j \in Job, Settle(j) PROVE PubInv'
<1>0. PubTypeOK /\ JobInv(j)
  BY DEF PubInv
<1>1. /\ exec[j].at = "done" /\ exec' = [exec EXCEPT ![j] = NoExec]
      /\ UNCHANGED <<cancelled, calls, late, crashes, tickVars, storeVars, forgeVars>>
  BY DEF Settle
<1>2. faults' \in Nat
  BY <1>0 DEF Settle, Fault, PubTypeOK
<1>3. CASE queue[j] # "working" /\ UNCHANGED <<queue, unusable, faults>>
  <2>1. /\ run' = run /\ run \in [Job -> RunStates]
        /\ UNCHANGED <<publication, usage, recordVars>>
    BY <1>0, <1>1, <1>3 DEF storeVars, recordVars, PubTypeOK
  <2>2. QED
    BY <2>1, <1>1, <1>2, NoExecFacts, ExecMoves
<1>4. CASE queue[j] = "working" /\ (Complete(j) \/ Fail(j))
  <2>1. calls[j].at = "idle" /\ queue[j] \notin RetiredStates
    BY <1>0, <1>4 DEF JobInv, Owned, RetiredStates
  <2>2. PICK s \in {"publishing", "failed", "superseded"} : queue' = [queue EXCEPT ![j] = s]
    BY <1>0, <1>4, OutcomeFacts
  <2>3. unusable' \subseteq Job
    BY <1>0, <1>4, OutcomeFacts
  <2>4. QED
    BY <2>1, <2>2, <2>3, <1>1, <1>2, NoExecFacts, RecordMoves
<1>5. QED
  BY <1>3, <1>4 DEF Settle

\* The queue alone moves a record that has no executor, or leaves the executor.
LEMMA RecordOnly ==
  ASSUME PubInv, NEW j \in Job, calls[j].at = "idle", queue[j] \notin RetiredStates,
         NEW s \in {"publishing", "failed", "superseded"},
         queue' = [queue EXCEPT ![j] = s],
         s = "publishing" => exec[j].at = "none",
         unusable' \subseteq Job,
         UNCHANGED <<cancelled, exec, calls, late, faults, crashes, tickVars, storeVars,
                     forgeVars>>
  PROVE  PubInv'
<1>0. PubTypeOK /\ JobInv(j)
  BY DEF PubInv
<1>1. exec' = [exec EXCEPT ![j] = exec[j]] /\ exec[j] \in ExecRecord /\ faults' \in Nat
  BY <1>0 DEF PubTypeOK, ExecRecord
<1>2. exec[j].to \in {"none", "publishing", "failed", "superseded"}
  BY <1>0 DEF JobInv, Owned
<1>3. QED
  BY <1>1, <1>2, RecordMoves

\* Recovery, lease and deadline retire a record, or settle one nobody executes.
LEMMA RetirementInv ==
  ASSUME PubInv, NEW j \in Job,
         SettleRecovered(j) \/ ExpireLease(j) \/ ExpireDeadline(j) \/ Retire(j)
  PROVE  PubInv'
<1>0. PubTypeOK /\ JobInv(j)
  BY DEF PubInv
<1>1. CASE SettleRecovered(j)
  <2>1. calls[j].at = "idle" /\ queue[j] \notin RetiredStates /\ exec[j].at = "none"
    BY <1>0, <1>1 DEF SettleRecovered, JobInv, Owned, RetiredStates
  <2>2. PICK s \in {"publishing", "failed", "superseded"} : queue' = [queue EXCEPT ![j] = s]
    BY <1>0, <1>1, OutcomeFacts DEF SettleRecovered
  <2>3. unusable' \subseteq Job
    BY <1>0, <1>1, OutcomeFacts DEF SettleRecovered
  <2>4. QED
    BY <2>1, <2>2, <2>3, <1>1, RecordOnly DEF SettleRecovered
<1>2. CASE ExpireLease(j) \/ ExpireDeadline(j)
  <2>1. calls[j].at = "idle" /\ queue[j] \notin RetiredStates
    BY <1>0, <1>2 DEF ExpireLease, ExpireDeadline, JobInv, Owned, RetiredStates
  <2>2. PICK s \in {"failed", "superseded"} : queue' = [queue EXCEPT ![j] = s]
    BY <1>2 DEF ExpireLease, ExpireDeadline
  <2>3. unusable' \subseteq Job
    BY <1>0, <1>2 DEF ExpireLease, ExpireDeadline, PubTypeOK
  <2>4. QED
    BY <2>1, <2>2, <2>3, <1>2, RecordOnly DEF ExpireLease, ExpireDeadline
<1>3. CASE Retire(j)
  BY <1>0, <1>3, RecordOnly DEF Retire, At, RetiredStates, PubTypeOK
<1>4. QED
  BY <1>1, <1>2, <1>3

-----------------------------------------------------------------------------
(* The executor *)

\* The two ways its mirror goes on after a call.
LEMMA ExecGoesOn ==
  ASSUME PubInv, NEW j \in Job, ExecutorEnds(j) \/ ExecutorThrows(j)
  PROVE  \E e \in ExecRecord : /\ exec' = [exec EXCEPT ![j] = e]
                               /\ e.to \in {"none", "publishing", "failed", "superseded"}
<1> DEFINE e1 == [NoExec EXCEPT !.at = "done", !.to = exec[j].to]
           e2 == [at |-> "getRun", from |-> "none", to |-> FailedTarget(j), caught |-> TRUE]
<1>1. exec[j].to \in {"none", "publishing", "failed", "superseded"}
  BY DEF PubInv, JobInv, Owned
<1>2. e1 \in ExecRecord /\ e1.to = exec[j].to
  BY <1>1 DEF NoExec, ExecRecord, ExecPoints, RunStates, TerminalRun, RetiredStates
<1>3. e2 \in ExecRecord /\ e2.to \in {"failed", "superseded"}
  BY DEF FailedTarget, ExecRecord, ExecPoints, RunStates, TerminalRun, RetiredStates
<1>4. exec' = [exec EXCEPT ![j] = e1] \/ exec' = [exec EXCEPT ![j] = e2]
  BY DEF ExecutorEnds, ExecutorThrows
<1>5. QED
  BY <1>1, <1>2, <1>3, <1>4

\* The executor writes what its worker came to, and never completed.
LEMMA ExecutorInv == ASSUME PubInv, NEW j \in Job, ExecutorStep(j) PROVE PubInv'
<1>0. PubTypeOK /\ JobInv(j)
  BY DEF PubInv
<1>1. /\ run \in [Job -> RunStates] /\ exec[j] \in ExecRecord
      /\ exec[j].to \in {"none", "publishing", "failed", "superseded"}
  BY <1>0 DEF PubTypeOK, ExecRecord, JobInv, Owned
<1>2. CASE WorkerEnds(j)
  <2>1. PICK to \in {"publishing", "failed", FailedTarget(j)} :
          exec' = [exec EXCEPT ![j].at = "getRun", ![j].to = to]
    BY <1>2 DEF WorkerEnds
  <2>2. to \in {"publishing", "failed", "superseded"}
    BY <2>1 DEF FailedTarget
  <2> DEFINE e == [exec[j] EXCEPT !.at = "getRun", !.to = to]
  <2>3. exec' = [exec EXCEPT ![j] = e]
    BY <2>1
  <2>4. e \in ExecRecord /\ e.to = to
    BY <1>1, <2>2 DEF ExecRecord, ExecPoints, RunStates, TerminalRun, RetiredStates
  <2> HIDE DEF e
  <2>5. /\ exec[j].at # "none" /\ faults' \in Nat /\ run' = run
        /\ UNCHANGED <<calls, publication, usage, late, crashes, recordVars, tickVars, forgeVars>>
    BY <1>0, <1>2 DEF WorkerEnds, storeVars, PubTypeOK
  <2>6. QED
    BY <1>1, <2>2, <2>3, <2>4, <2>5, ExecMoves
<1>3. CASE ExecutorReads(j)
  <2>1. /\ exec[j].at # "none" /\ faults' \in Nat /\ run' = run
        /\ UNCHANGED <<calls, publication, usage, late, crashes, recordVars, tickVars, forgeVars>>
    BY <1>0, <1>3 DEF ExecutorReads, storeVars, Fault, PubTypeOK
  <2>2. \E e \in ExecRecord : /\ exec' = [exec EXCEPT ![j] = e]
                              /\ e.to \in {"none", "publishing", "failed", "superseded"}
    <3>1. CASE exec' = [exec EXCEPT ![j].at = "hop", ![j].from = run[j]]
      <4> DEFINE e == [exec[j] EXCEPT !.at = "hop", !.from = run[j]]
      <4>1. exec' = [exec EXCEPT ![j] = e]
        BY <3>1
      <4>2. e \in ExecRecord /\ e.to = exec[j].to
        BY <1>1 DEF ExecRecord, ExecPoints
      <4> HIDE DEF e
      <4>3. QED
        BY <4>1, <4>2, <1>1
    <3>2. CASE ExecutorEnds(j) \/ ExecutorThrows(j)
      BY <3>2, ExecGoesOn
    <3>3. QED
      BY <3>1, <3>2, <1>3 DEF ExecutorReads
  <2>3. QED
    BY <1>1, <2>1, <2>2, ExecMoves
<1>4. CASE ExecutorHop(j)
  <2>1. /\ exec[j].at # "none"
        /\ UNCHANGED <<calls, publication, usage, late, crashes, recordVars, tickVars, forgeVars>>
    BY <1>4 DEF ExecutorHop
  <2>2. /\ faults' \in Nat
        /\ ExecutorEnds(j) \/ ExecutorThrows(j)
        /\ run' = run \/ run' = [run EXCEPT ![j] = exec[j].to]
    <3>1. CASE /\ run[j] # exec[j].from
               /\ ExecutorEnds(j)
               /\ UNCHANGED <<run, faults>>
      BY <3>1, <1>0 DEF PubTypeOK
    <3>2. ASSUME NEW a \in Answers, Charge(a),
                 run' = IF a.done THEN [run EXCEPT ![j] = exec[j].to] ELSE run,
                 IF a.ok THEN ExecutorEnds(j) ELSE ExecutorThrows(j)
          PROVE  <2>2!:
      BY <3>2, <1>0, AnswerFacts
    <3>3. QED
      BY <3>1, <3>2, <1>4 DEF ExecutorHop
  <2>3. /\ run' \in [Job -> RunStates] /\ \A k \in Job \ {j} : run'[k] = run[k]
        /\ run'[j] = run[j] \/ run'[j] # "completed"
    BY <1>1, <2>2 DEF RunStates, TerminalRun, RetiredStates
  <2>4. PICK e \in ExecRecord : /\ exec' = [exec EXCEPT ![j] = e]
                                /\ e.to \in {"none", "publishing", "failed", "superseded"}
    BY <2>2, ExecGoesOn
  <2>5. QED
    BY <2>1, <2>2, <2>3, <2>4, ExecMoves
<1>5. QED
  BY <1>2, <1>3, <1>4 DEF ExecutorStep

-----------------------------------------------------------------------------
(* Calls begin and end *)

\* A call begins: it has seen the head if the head is its own.
LEMMA PublishInv == ASSUME PubInv, NEW j \in Job, Publish(j) PROVE PubInv'
<1> DEFINE c == [NoCall EXCEPT !.at = "get", !.expired = late /\ j \in HasDeadline,
                               !.seen = (head = HeadOf[j])]
<1>0. PubTypeOK /\ JobInv(j) /\ MirrorInv /\ \A k \in Job : JobInv(k)
  BY DEF PubInv
<1>1. c \in CallRecord /\ c.at = "get" /\ c.seen = (head = HeadOf[j])
  BY <1>0 DEF NoCall, CallRecord, Points, RunStates
<1>2. calls' = [calls EXCEPT ![j] = c]
  BY DEF Publish
<1> HIDE DEF c
<1>3. calls' \in [Job -> CallRecord] /\ calls'[j] = c /\ \A k \in Job \ {j} : calls'[k] = calls[k]
  BY <1>0, <1>1, <1>2, CallSet
<1>4. /\ queue[j] = "publishing" /\ calls[j].at = "idle" /\ queue' = queue /\ exec' = exec
      /\ publication' = publication /\ usage' = usage /\ run' = run
      /\ landed' = landed /\ stray' = stray /\ head' = head /\ mirror' = mirror
  BY DEF Publish, At, recordVars, queueVars, tickVars, storeVars, forgeVars
<1>5. PubTypeOK'
  BY <1>0, <1>3, <1>4 DEF PubTypeOK, CallRecord, Publish, recordVars, queueVars,
                               tickVars, storeVars, forgeVars
<1>6. Local(j)
  BY <1>3, <1>4 DEF Local
<1>7. Owned(j)' /\ RecordKnown(j)' /\ RunKnown(j)' /\ RowsAgree(j)'
  BY <1>0, <1>1, <1>3, <1>4 DEF JobInv, Owned, RecordKnown, RunKnown, RowsAgree, Recorded, Closed
<1>8. HeadSeen(j)'
  BY <1>1, <1>3, <1>4 DEF HeadSeen, Writing
<1>9. MirrorInv'
  BY <1>0, <1>4 DEF MirrorInv
<1>10. QED
  BY <1>0, <1>5, <1>6, <1>7, <1>8, <1>9, LocalKeeps DEF PubInv, JobInv

\* The queue takes a true answer: the record is closed.
LEMMA ResolveInv == ASSUME PubInv, NEW j \in Job, Resolve(j) PROVE PubInv'
<1>0. PubTypeOK /\ JobInv(j) /\ MirrorInv /\ \A k \in Job : JobInv(k)
  BY DEF PubInv
<1>1. calls' = [calls EXCEPT ![j] = NoCall]
  BY DEF Resolve
<1>2. calls' \in [Job -> CallRecord] /\ calls'[j] = NoCall
      /\ \A k \in Job \ {j} : calls'[k] = calls[k]
  BY <1>0, <1>1, CallSet, NoCallFacts
<1>3. /\ calls[j].at = "true" /\ queue'[j] \in RetiredStates
      /\ \A k \in Job \ {j} : queue'[k] = queue[k]
      /\ queue' \in [Job -> {"absent", "queued", "working", "publishing"} \union RetiredStates]
  BY <1>0 DEF Resolve, At, PubTypeOK, RetiredStates
<1>4. /\ publication' = publication /\ usage' = usage /\ run' = run
      /\ landed' = landed /\ stray' = stray /\ head' = head /\ mirror' = mirror
      /\ exec' = exec
  BY DEF Resolve, tickVars, storeVars, forgeVars
<1>5. PubTypeOK'
  BY <1>0, <1>2, <1>3, <1>4 DEF PubTypeOK, CallRecord, Resolve, tickVars, storeVars, forgeVars
<1>6. Local(j)
  BY <1>2, <1>3, <1>4 DEF Local
<1>7. JobInv(j)'
  BY <1>0, <1>2, <1>3, <1>4, NoCallFacts
     DEF JobInv, Owned, RecordKnown, RunKnown, HeadSeen, RowsAgree, Closed,
         Undecided, Recorded, Writing
<1>8. queue[j] = "publishing"
  BY <1>0, <1>3 DEF JobInv, Owned
<1>9. MirrorInv'
  BY <1>0, <1>3, <1>4, <1>8 DEF MirrorInv, RetiredStates
<1>10. QED
  BY <1>0, <1>5, <1>6, <1>7, <1>9, LocalKeeps DEF PubInv

-----------------------------------------------------------------------------
(* publish() *)

\* A step of a call: the queue and the tick stand still.
LEMMA CallStep ==
  ASSUME PubInv, NEW j \in Job, Local(j), PubTypeOK', JobInv(j)', queue' = queue, mirror' = mirror
  PROVE  PubInv'
<1>1. \A k \in Job : JobInv(k)'
  BY LocalKeeps DEF PubInv
<1>2. MirrorInv'
  BY DEF PubInv, MirrorInv
<1>3. QED
  BY <1>1, <1>2 DEF PubInv

\* While a call lasts its record has no executor.
LEMMA CallOwns ==
  ASSUME NEW j \in Job, JobInv(j), calls[j].at # "idle", queue' = queue, exec' = exec
  PROVE  Owned(j)'
BY DEF JobInv, Owned

\* A call that goes on to another await.
LEMMA CallAt ==
  ASSUME PubTypeOK, NEW j \in Job, NEW p \in Points, calls' = [calls EXCEPT ![j].at = p]
  PROVE  /\ calls' \in [Job -> CallRecord] /\ \A k \in Job \ {j} : calls'[k] = calls[k]
         /\ calls'[j].at = p /\ calls'[j].seen = calls[j].seen
<1> DEFINE c == [calls[j] EXCEPT !.at = p]
<1>1. calls \in [Job -> CallRecord]
  BY DEF PubTypeOK, CallRecord
<1>2. c \in CallRecord /\ c.at = p /\ c.seen = calls[j].seen
  BY <1>1 DEF CallRecord
<1>3. calls' = [calls EXCEPT ![j] = c]
  OBVIOUS
<1> HIDE DEF c
<1>4. QED
  BY <1>2, <1>3, CallSet

\* A call that ends leaves a record that is still publishing.
LEMMA CallEnds ==
  ASSUME NEW j \in Job, JobInv(j), calls[j].at # "idle", queue' = queue, exec' = exec,
         calls'[j] = NoCall, RowsAgree(j)'
  PROVE  JobInv(j)'
<1>1. queue'[j] = "publishing" /\ calls'[j].at = "idle"
  BY NoCallFacts DEF JobInv, Owned
<1>2. QED
  BY <1>1 DEF JobInv, Owned, RecordKnown, RunKnown, HeadSeen, Undecided, Recorded, Writing

\* A call answers true only for a closed record.
LEMMA CallAnswers ==
  ASSUME NEW j \in Job, JobInv(j), calls[j].at # "idle", queue' = queue, exec' = exec,
         calls'[j] = [NoCall EXCEPT !.at = "true"], RowsAgree(j)', Closed(j)'
  PROVE  JobInv(j)'
<1>1. queue'[j] = "publishing" /\ calls'[j].at = "true"
  BY NoCallFacts DEF JobInv, Owned
<1>2. QED
  BY <1>1 DEF JobInv, Owned, RecordKnown, RunKnown, HeadSeen, Undecided, Recorded, Writing

\* The read of the durable record decides how the call goes on.
LEMMA GetPublicationInv == ASSUME PubInv, NEW j \in Job, GetPublication(j) PROVE PubInv'
<1>0. PubTypeOK /\ JobInv(j)
  BY DEF PubInv
<1>1. /\ calls[j].at = "get" /\ queue' = queue /\ exec' = exec
      /\ cancelled' = cancelled /\ unusable' = unusable
      /\ publication' = publication /\ usage' = usage /\ run' = run
      /\ landed' = landed /\ stray' = stray /\ head' = head /\ mirror' = mirror
  BY DEF GetPublication, At, recordVars, queueVars, tickVars, storeVars, forgeVars
<1>2. faults' \in Nat
  BY <1>0 DEF GetPublication, Fault, PubTypeOK
<1>3. RowsAgree(j)' /\ calls[j] \in CallRecord
  BY <1>0, <1>1 DEF JobInv, RowsAgree, PubTypeOK, CallRecord
<1>4. /\ calls' \in [Job -> CallRecord] /\ \A k \in Job \ {j} : calls'[k] = calls[k]
      /\ JobInv(j)'
  <2>1. CASE publication[j] = "published" /\ AnswerTrue(j)
    <3>1. calls' = [calls EXCEPT ![j] = [NoCall EXCEPT !.at = "true"]]
      BY <2>1 DEF AnswerTrue
    <3>2. Closed(j)'
      BY <1>1, <2>1 DEF Closed
    <3>3. QED
      BY <3>1, <3>2, <1>0, <1>1, <1>3, CallSet, CallAnswers, NoCallFacts
  <2>2. CASE /\ publication[j] # "published"
             /\ calls' = [calls EXCEPT ![j].at = "persist",
                                       ![j].withUsage = (publication[j] = "none")]
    <3>1. /\ calls' \in [Job -> CallRecord] /\ \A k \in Job \ {j} : calls'[k] = calls[k]
          /\ calls'[j].at = "persist" /\ calls'[j].seen = calls[j].seen
          /\ calls'[j].withUsage = (publication[j] = "none")
      <4>1. "persist" \in Points /\ (publication[j] = "none") \in BOOLEAN
            /\ calls \in [Job -> CallRecord]
        BY <1>0 DEF PubTypeOK, CallRecord, Points
      <4>2. PICK b \in BOOLEAN : b = (publication[j] = "none")
        BY <4>1
      <4> DEFINE c == [calls[j] EXCEPT !.at = "persist", !.withUsage = b]
      <4>3. calls' = [calls EXCEPT ![j].at = "persist", ![j].withUsage = b]
        BY <2>2, <4>2
      <4>4. /\ c \in CallRecord /\ c.at = "persist" /\ c.withUsage = b
            /\ c.seen = calls[j].seen
        BY <4>1, <1>3 DEF CallRecord
      <4>5. calls' = [calls EXCEPT ![j] = c]
        BY <4>3
      <4> HIDE DEF c
      <4>6. QED
        BY <4>2, <4>4, <4>5, <1>0, CallSet
    <3>2. JobInv(j)'
      BY <3>1, <2>2, <1>0, <1>1, <1>3
         DEF JobInv, Owned, RecordKnown, RunKnown, HeadSeen, Closed, Undecided, Recorded, Writing
    <3>3. QED
      BY <3>1, <3>2
  <2>3. CASE GiveUp(j)
    BY <2>3, <1>0, <1>1, <1>3, CallSet, CallEnds, NoCallFacts DEF GiveUp
  <2>4. QED
    BY <2>1, <2>2, <2>3 DEF GetPublication
<1>5. PubTypeOK'
  BY <1>0, <1>1, <1>2, <1>4 DEF PubTypeOK, CallRecord, GetPublication, tickVars, forgeVars
<1>6. Local(j)
  BY <1>1, <1>4 DEF Local
<1>7. QED
  BY <1>1, <1>4, <1>5, <1>6, CallStep

\* The pending record is written with its usage, and the usage once.
LEMMA PersistPendingInv == ASSUME PubInv, NEW j \in Job, PersistPending(j) PROVE PubInv'
<1>0. PubTypeOK /\ JobInv(j)
  BY DEF PubInv
<1>1. /\ calls[j].at = "persist" /\ queue' = queue /\ exec' = exec
      /\ cancelled' = cancelled /\ unusable' = unusable
      /\ run' = run /\ landed' = landed /\ stray' = stray /\ head' = head /\ mirror' = mirror
  BY DEF PersistPending, At, recordVars, queueVars, tickVars, forgeVars
<1>2. PICK a \in Answers :
        /\ IF Refused(j) THEN ~a.done /\ UNCHANGED faults ELSE Charge(a)
        /\ IF a.ok THEN calls' = [calls EXCEPT ![j].at = "head", ![j].withUsage = FALSE]
           ELSE GiveUp(j)
        /\ IF a.done
           THEN /\ publication' = [publication EXCEPT ![j] = "pending"]
                /\ usage' = [usage EXCEPT ![j] = IF calls[j].withUsage THEN @ + 1 ELSE @]
           ELSE UNCHANGED <<publication, usage>>
  BY DEF PersistPending
<1>3. faults' \in Nat /\ a.ok \in BOOLEAN /\ a.done \in BOOLEAN /\ (a.ok => a.done)
  <2>1. faults' \in Nat
    BY <1>0, <1>2 DEF Charge, Fault, PubTypeOK
  <2>2. QED
    BY <2>1, AnswerShape
<1>4. /\ publication[j] # "published"
      /\ calls[j].withUsage = (publication[j] = "none")
      /\ run[j] # "completed"
      /\ usage[j] = (IF publication[j] = "none" THEN 0 ELSE 1)
      /\ j \in landed \union stray => publication[j] # "none"
  BY <1>0, <1>1 DEF JobInv, RecordKnown, RowsAgree
<1>5. /\ publication' \in [Job -> {"none", "pending", "published", "failed"}]
      /\ usage' \in [Job -> Nat]
      /\ \A k \in Job \ {j} : publication'[k] = publication[k] /\ usage'[k] = usage[k]
      /\ a.done => publication'[j] = "pending" /\ usage'[j] = 1
      /\ ~a.done => publication'[j] = publication[j] /\ usage'[j] = usage[j]
  <2>1. CASE a.done
    <3>1. (IF calls[j].withUsage THEN usage[j] + 1 ELSE usage[j]) = 1
      <4>1. CASE publication[j] = "none"
        <5>1. calls[j].withUsage = TRUE
          BY <4>1, <1>4
        <5>2. QED
          BY <4>1, <5>1, <1>4
      <4>2. CASE publication[j] # "none"
        <5>1. calls[j].withUsage = FALSE
          BY <4>2, <1>4
        <5>2. QED
          BY <4>2, <5>1, <1>4
      <4>3. QED
        BY <4>1, <4>2
    <3>2. publication' = [publication EXCEPT ![j] = "pending"] /\ usage' = [usage EXCEPT ![j] = 1]
      BY <2>1, <3>1, <1>2
    <3>3. QED
      BY <2>1, <3>2, <1>0 DEF PubTypeOK
  <2>2. CASE ~a.done
    BY <2>2, <1>0, <1>2 DEF PubTypeOK
  <2>3. QED
    BY <2>1, <2>2
<1>6. RowsAgree(j)'
  BY <1>1, <1>3, <1>4, <1>5 DEF RowsAgree
<1>7. /\ calls' \in [Job -> CallRecord] /\ \A k \in Job \ {j} : calls'[k] = calls[k]
      /\ JobInv(j)'
  <2>1. CASE a.ok
    <3>1. /\ calls' \in [Job -> CallRecord] /\ \A k \in Job \ {j} : calls'[k] = calls[k]
          /\ calls'[j].at = "head" /\ calls'[j].seen = calls[j].seen
      <4>1. "head" \in Points /\ calls \in [Job -> CallRecord]
        BY <1>0 DEF PubTypeOK, CallRecord, Points
      <4>2. PICK b \in BOOLEAN : b = FALSE
        OBVIOUS
      <4> DEFINE c == [calls[j] EXCEPT !.at = "head", !.withUsage = b]
      <4>3. calls' = [calls EXCEPT ![j].at = "head", ![j].withUsage = b]
        BY <2>1, <1>2, <4>2
      <4>4. c \in CallRecord /\ c.at = "head" /\ c.seen = calls[j].seen
        BY <4>1 DEF CallRecord
      <4>5. calls' = [calls EXCEPT ![j] = c]
        BY <4>3
      <4> HIDE DEF c
      <4>6. QED
        BY <4>4, <4>5, <1>0, CallSet
    <3>2. queue'[j] = "publishing" /\ publication'[j] = "pending"
      BY <2>1, <1>0, <1>1, <1>3, <1>5 DEF JobInv, Owned
    <3>3. HeadSeen(j)'
      BY <3>1, <1>0, <1>1 DEF JobInv, HeadSeen, Undecided, Writing
    <3>4. QED
      BY <3>1, <3>2, <3>3, <1>0, <1>1, <1>6, CallOwns DEF JobInv, RecordKnown, RunKnown
  <2>2. CASE ~a.ok
    BY <2>2, <1>0, <1>1, <1>2, <1>6, CallSet, CallEnds, NoCallFacts DEF GiveUp
  <2>3. QED
    BY <2>1, <2>2
<1>8. PubTypeOK'
  BY <1>0, <1>1, <1>3, <1>5, <1>7 DEF PubTypeOK, CallRecord, PersistPending, tickVars, forgeVars
<1>9. Local(j)
  BY <1>1, <1>5, <1>7 DEF Local
<1>10. QED
  BY <1>1, <1>7, <1>8, <1>9, CallStep

\* The gate lets through only a call whose head is current.
LEMMA ReadHeadInv == ASSUME PubInv, NEW j \in Job, ReadHead(j) PROVE PubInv'
<1>0. PubTypeOK /\ JobInv(j)
  BY DEF PubInv
<1>1. /\ calls[j].at = "head" /\ queue' = queue /\ exec' = exec
      /\ cancelled' = cancelled /\ unusable' = unusable
      /\ publication' = publication /\ usage' = usage /\ run' = run
      /\ landed' = landed /\ stray' = stray /\ head' = head /\ mirror' = mirror
  BY DEF ReadHead, At, recordVars, queueVars, tickVars, storeVars, forgeVars
<1>2. faults' \in Nat
  BY <1>0 DEF ReadHead, Fault, PubTypeOK
<1>3. RowsAgree(j)' /\ calls[j] \in CallRecord
  BY <1>0, <1>1 DEF JobInv, RowsAgree, PubTypeOK, CallRecord
<1>4. /\ calls' \in [Job -> CallRecord] /\ \A k \in Job \ {j} : calls'[k] = calls[k]
      /\ JobInv(j)'
  <2>1. CASE calls' = [calls EXCEPT ![j].at = IF Gate(j) THEN "write" ELSE "refuse",
                                    ![j].expired = FALSE]
    <3>1. /\ calls' \in [Job -> CallRecord] /\ \A k \in Job \ {j} : calls'[k] = calls[k]
          /\ calls'[j].at = (IF Gate(j) THEN "write" ELSE "refuse")
          /\ calls'[j].seen = calls[j].seen
      <4> DEFINE x == IF Gate(j) THEN "write" ELSE "refuse"
      <4>1. x \in Points /\ calls \in [Job -> CallRecord]
        BY <1>0 DEF PubTypeOK, CallRecord, Points
      <4>1a. PICK b \in BOOLEAN : b = FALSE
        OBVIOUS
      <4> DEFINE c == [calls[j] EXCEPT !.at = x, !.expired = b]
      <4>2. calls' = [calls EXCEPT ![j].at = x, ![j].expired = b]
        BY <2>1, <4>1a
      <4> HIDE DEF x
      <4>2a. calls' = [calls EXCEPT ![j] = c]
        BY <4>2
      <4>3. c \in CallRecord /\ c.at = x /\ c.seen = calls[j].seen
        BY <4>1, <1>3 DEF CallRecord
      <4> HIDE DEF c
      <4>4. /\ calls' \in [Job -> CallRecord] /\ calls'[j] = c
            /\ \A k \in Job \ {j} : calls'[k] = calls[k]
        BY <4>2a, <4>3, <1>0, CallSet
      <4>5. QED
        BY <4>3, <4>4 DEF x
    <3>2. Gate(j) => head = HeadOf[j]
      BY DEF Gate
    <3>3. HeadSeen(j)'
      BY <3>1, <3>2, <1>0, <1>1 DEF JobInv, HeadSeen, Undecided, Writing
    <3>4. Owned(j)' /\ RecordKnown(j)' /\ RunKnown(j)'
      BY <3>1, <1>0, <1>1 DEF JobInv, Owned, RecordKnown, RunKnown, Recorded, Closed
    <3>5. QED
      BY <3>1, <3>3, <3>4, <1>3 DEF JobInv
  <2>2. CASE GiveUp(j)
    BY <2>2, <1>0, <1>1, <1>3, CallSet, CallEnds, NoCallFacts DEF GiveUp
  <2>3. QED
    BY <2>1, <2>2 DEF ReadHead
<1>5. PubTypeOK'
  BY <1>0, <1>1, <1>2, <1>4 DEF PubTypeOK, CallRecord, ReadHead, tickVars, forgeVars
<1>6. Local(j)
  BY <1>1, <1>4 DEF Local
<1>7. QED
  BY <1>1, <1>4, <1>5, <1>6, CallStep

\* The forge has the result before the call hears of it.
LEMMA ForgeLandsInv == ASSUME PubInv, NEW j \in Job, ForgeLands(j) PROVE PubInv'
<1>0. PubTypeOK /\ JobInv(j)
  BY DEF PubInv
<1>1. /\ calls[j].at = "write" /\ queue' = queue /\ exec' = exec
      /\ cancelled' = cancelled /\ unusable' = unusable
      /\ publication' = publication /\ usage' = usage /\ run' = run
      /\ landed' = landed \union {j} /\ stray' = stray /\ head' = head /\ mirror' = mirror
      /\ calls' = [calls EXCEPT ![j].at = "written"]
  BY DEF ForgeLands, At, Goto, recordVars, queueVars, tickVars, storeVars
<1>2. /\ calls' \in [Job -> CallRecord] /\ \A k \in Job \ {j} : calls'[k] = calls[k]
      /\ calls'[j].at = "written" /\ calls'[j].seen = calls[j].seen
  BY <1>0, <1>1, CallAt DEF Points
<1>3. JobInv(j)'
  BY <1>0, <1>1, <1>2 DEF JobInv, Owned, RecordKnown, RunKnown, HeadSeen, RowsAgree,
                          Closed, Undecided, Recorded, Writing
<1>4. PubTypeOK'
  BY <1>0, <1>1, <1>2 DEF PubTypeOK, CallRecord, ForgeLands, tickVars
<1>5. Local(j)
  BY <1>1, <1>2 DEF Local
<1>6. QED
  BY <1>1, <1>3, <1>4, <1>5, CallStep

\* The answer of the forge, or its loss.
LEMMA ForgeAnswersInv == ASSUME PubInv, NEW j \in Job, ForgeAnswers(j) PROVE PubInv'
<1>0. PubTypeOK /\ JobInv(j)
  BY DEF PubInv
<1>1. /\ calls[j].at \in {"written", "write"} /\ queue' = queue /\ exec' = exec
      /\ cancelled' = cancelled /\ unusable' = unusable
      /\ publication' = publication /\ usage' = usage /\ run' = run
      /\ landed' = landed /\ head' = head /\ mirror' = mirror
  BY DEF ForgeAnswers, At, recordVars, queueVars, tickVars, storeVars
<1>2. faults' \in Nat /\ stray' \in {stray, stray \union {j}} /\ publication[j] # "none"
  <2>1. faults' \in Nat /\ publication[j] # "none"
    BY <1>0, <1>1 DEF ForgeAnswers, Fault, PubTypeOK, JobInv, RecordKnown, Recorded
  <2>2. stray' = stray \/ stray' = stray \union ({j} \ landed)
    BY DEF ForgeAnswers
  <2>3. QED
    BY <2>1, <2>2
<1>3. RowsAgree(j)' /\ calls[j] \in CallRecord
  BY <1>0, <1>1, <1>2 DEF JobInv, RowsAgree, PubTypeOK, CallRecord
<1>4. /\ calls' \in [Job -> CallRecord] /\ \A k \in Job \ {j} : calls'[k] = calls[k]
      /\ JobInv(j)'
  <2>1. CASE At(j, "written") /\ Goto(j, "record")
    <3>1. /\ calls' \in [Job -> CallRecord] /\ \A k \in Job \ {j} : calls'[k] = calls[k]
          /\ calls'[j].at = "record" /\ calls'[j].seen = calls[j].seen
      BY <2>1, <1>0, CallAt DEF Points, Goto
    <3>2. Owned(j)' /\ RecordKnown(j)' /\ RunKnown(j)' /\ HeadSeen(j)'
      BY <2>1, <3>1, <1>0, <1>1 DEF At, JobInv, Owned, RecordKnown, RunKnown, HeadSeen,
                                    Closed, Undecided, Recorded, Writing
    <3>3. QED
      BY <3>1, <3>2, <1>3 DEF JobInv
  <2>2. CASE GiveUp(j)
    BY <2>2, <1>0, <1>1, <1>3, CallSet, CallEnds, NoCallFacts DEF GiveUp
  <2>3. QED
    BY <2>1, <2>2 DEF ForgeAnswers
<1>5. PubTypeOK'
  BY <1>0, <1>1, <1>2, <1>4 DEF PubTypeOK, CallRecord, ForgeAnswers, tickVars
<1>6. Local(j)
  BY <1>1, <1>2, <1>4 DEF Local
<1>7. QED
  BY <1>1, <1>4, <1>5, <1>6, CallStep

\* The outcome is made durable; what the run mirror needs is known then.
LEMMA ConcludeInv ==
  ASSUME PubInv, NEW j \in Job, NEW point, NEW state, NEW target,
         \/ point = "record" /\ state = "published" /\ target = "completed"
         \/ point = "refuse" /\ state = "failed" /\ target = "failed",
         Conclude(j, point, state, target)
  PROVE  PubInv'
<1> DEFINE c == [NoCall EXCEPT !.at = "getRun", !.to = target]
<1>0. PubTypeOK /\ JobInv(j)
  BY DEF PubInv
<1>1. /\ calls[j].at = point /\ queue' = queue /\ exec' = exec
      /\ cancelled' = cancelled /\ unusable' = unusable
      /\ usage' = usage /\ run' = run
      /\ landed' = landed /\ stray' = stray /\ head' = head /\ mirror' = mirror
  BY DEF Conclude, At, recordVars, queueVars, tickVars, forgeVars
<1>2. PICK a \in Answers :
        /\ Charge(a)
        /\ IF a.ok THEN calls' = [calls EXCEPT ![j] = c] ELSE GiveUp(j)
        /\ publication' = IF a.done THEN [publication EXCEPT ![j] = state] ELSE publication
  BY DEF Conclude
<1>3. faults' \in Nat /\ a.ok \in BOOLEAN /\ a.done \in BOOLEAN /\ (a.ok => a.done)
  BY <1>0, <1>2, AnswerFacts
<1>4. c \in CallRecord /\ c.at = "getRun" /\ c.to = target
  BY DEF NoCall, CallRecord, Points, RunStates
<1> HIDE DEF c
<1>5. /\ publication' \in [Job -> {"none", "pending", "published", "failed"}]
      /\ \A k \in Job \ {j} : publication'[k] = publication[k]
      /\ a.done => publication'[j] = state
      /\ ~a.done => publication'[j] = publication[j]
  BY <1>0, <1>2 DEF PubTypeOK
<1>6. publication[j] \in {"pending", "failed"} /\ (point = "record" => j \in landed)
      /\ queue[j] = "publishing"
  BY <1>0, <1>1 DEF JobInv, RecordKnown, Owned, Recorded
<1>7. RowsAgree(j)'
  <2>1. /\ publication'[j] \in {"pending", "failed", "published"}
        /\ publication'[j] = "published" => j \in landed'
    BY <1>1, <1>3, <1>5, <1>6
  <2>2. run'[j] # "completed" /\ usage'[j] = 1
    BY <1>0, <1>1, <1>6 DEF JobInv, RowsAgree
  <2>3. QED
    BY <2>1, <2>2 DEF RowsAgree
<1>8. /\ calls' \in [Job -> CallRecord] /\ \A k \in Job \ {j} : calls'[k] = calls[k]
      /\ JobInv(j)'
  <2>1. CASE a.ok
    <3>1. /\ calls' \in [Job -> CallRecord] /\ \A k \in Job \ {j} : calls'[k] = calls[k]
          /\ calls'[j].at = "getRun" /\ calls'[j].to = target
      BY <2>1, <1>0, <1>2, <1>4, CallSet
    <3>2. queue'[j] = "publishing" /\ publication'[j] = state
      BY <2>1, <1>1, <1>3, <1>5, <1>6
    <3>3. QED
      <4>1. Owned(j)'
        BY <1>0, <1>1, CallOwns
      <4>2. QED
        BY <3>1, <3>2, <4>1, <1>7 DEF JobInv, RecordKnown, RunKnown, HeadSeen,
                                      Undecided, Recorded, Writing
  <2>2. CASE ~a.ok
    <3>1. calls[j].at # "idle"
      BY <1>1
    <3>2. QED
      BY <2>2, <3>1, <1>0, <1>1, <1>2, <1>7, CallSet, CallEnds, NoCallFacts DEF GiveUp
  <2>3. QED
    BY <2>1, <2>2
<1>9. PubTypeOK'
  BY <1>0, <1>1, <1>3, <1>5, <1>8 DEF PubTypeOK, CallRecord, Conclude, tickVars, forgeVars
<1>10. Local(j)
  BY <1>1, <1>5, <1>8 DEF Local
<1>11. QED
  BY <1>1, <1>8, <1>9, <1>10, CallStep

\* A terminal run is left alone: a refused job's run is then not completed.
LEMMA GetRunInv == ASSUME PubInv, NEW j \in Job, GetRun(j) PROVE PubInv'
<1>0. PubTypeOK /\ JobInv(j)
  BY DEF PubInv
<1>1. /\ calls[j].at = "getRun" /\ queue' = queue /\ exec' = exec
      /\ cancelled' = cancelled /\ unusable' = unusable
      /\ publication' = publication /\ usage' = usage /\ run' = run
      /\ landed' = landed /\ stray' = stray /\ head' = head /\ mirror' = mirror
  BY DEF GetRun, At, recordVars, queueVars, tickVars, storeVars, forgeVars
<1>2. faults' \in Nat
  BY <1>0 DEF GetRun, Fault, PubTypeOK
<1>3. RowsAgree(j)' /\ calls[j] \in CallRecord
  BY <1>0, <1>1 DEF JobInv, RowsAgree, PubTypeOK, CallRecord
<1>4. /\ calls' \in [Job -> CallRecord] /\ \A k \in Job \ {j} : calls'[k] = calls[k]
      /\ JobInv(j)'
  <2>1. CASE run[j] \in TerminalRun /\ AnswerTrue(j)
    <3>1. calls' = [calls EXCEPT ![j] = [NoCall EXCEPT !.at = "true"]]
      BY <2>1 DEF AnswerTrue
    <3>2. Closed(j)'
      BY <1>0, <1>1, <2>1 DEF Closed, JobInv, RunKnown, RowsAgree
    <3>3. QED
      BY <3>1, <3>2, <1>0, <1>1, <1>3, CallSet, CallAnswers, NoCallFacts
  <2>2. CASE /\ run[j] \notin TerminalRun
             /\ calls' = [calls EXCEPT ![j].at = "hop", ![j].from = run[j]]
    <3>1. /\ calls' \in [Job -> CallRecord] /\ \A k \in Job \ {j} : calls'[k] = calls[k]
          /\ calls'[j].at = "hop" /\ calls'[j].from = run[j] /\ calls'[j].to = calls[j].to
      <4> DEFINE c == [calls[j] EXCEPT !.at = "hop", !.from = run[j]]
      <4>1. run[j] \in RunStates
        BY <1>0 DEF PubTypeOK
      <4>2. c \in CallRecord /\ c.at = "hop" /\ c.from = run[j] /\ c.to = calls[j].to
        BY <4>1, <1>3 DEF CallRecord, Points
      <4>3. calls' = [calls EXCEPT ![j] = c]
        BY <2>2
      <4> HIDE DEF c
      <4>4. QED
        BY <4>2, <4>3, <1>0, CallSet
    <3>2. JobInv(j)'
      BY <3>1, <2>2, <1>0, <1>1, <1>3
         DEF JobInv, Owned, RecordKnown, RunKnown, HeadSeen, Closed, Undecided, Recorded, Writing
    <3>3. QED
      BY <3>1, <3>2
  <2>3. CASE GiveUp(j)
    BY <2>3, <1>0, <1>1, <1>3, CallSet, CallEnds, NoCallFacts DEF GiveUp
  <2>4. QED
    BY <2>1, <2>2, <2>3 DEF GetRun
<1>5. PubTypeOK'
  BY <1>0, <1>1, <1>2, <1>4 DEF PubTypeOK, CallRecord, GetRun, tickVars, forgeVars
<1>6. Local(j)
  BY <1>1, <1>4 DEF Local
<1>7. QED
  BY <1>1, <1>4, <1>5, <1>6, CallStep

\* A hop writes completed for a published job only, and closes the others.
LEMMA HopInv == ASSUME PubInv, NEW j \in Job, Hop(j) PROVE PubInv'
<1> DEFINE next == NextHop(calls[j].from, calls[j].to)
<1>0. PubTypeOK /\ JobInv(j)
  BY DEF PubInv
<1>1. /\ calls[j].at = "hop" /\ queue' = queue /\ exec' = exec
      /\ cancelled' = cancelled /\ unusable' = unusable
      /\ publication' = publication /\ usage' = usage
      /\ landed' = landed /\ stray' = stray /\ head' = head /\ mirror' = mirror
  BY DEF Hop, At, recordVars, queueVars, tickVars, forgeVars
<1>2. /\ run[j] = calls[j].from /\ run[j] \notin TerminalRun /\ queue[j] = "publishing"
      /\ \/ calls[j].to = "completed" /\ publication[j] = "published"
         \/ calls[j].to = "failed" /\ publication[j] = "failed"
  BY <1>0, <1>1 DEF JobInv, RunKnown, Owned
<1>3. PICK a \in Answers :
        /\ Charge(a)
        /\ run' = IF a.done THEN [run EXCEPT ![j] = next] ELSE run
        /\ IF ~a.ok THEN GiveUp(j)
           ELSE IF next = calls[j].to THEN AnswerTrue(j)
           ELSE calls' = [calls EXCEPT ![j].from = next]
  BY <1>2 DEF Hop
<1>4. faults' \in Nat /\ a.ok \in BOOLEAN /\ a.done \in BOOLEAN /\ (a.ok => a.done)
  BY <1>0, <1>3, AnswerFacts
<1>5. /\ next \in RunStates
      /\ next # calls[j].to => next \notin TerminalRun
      /\ next = "completed" => publication[j] = "published"
      /\ publication[j] = "failed" => next = "failed"
  BY <1>2 DEF NextHop, RunStates, TerminalRun, RetiredStates
<1> HIDE DEF next
<1>6. /\ run' \in [Job -> RunStates] /\ \A k \in Job \ {j} : run'[k] = run[k]
      /\ a.done => run'[j] = next
      /\ ~a.done => run'[j] = run[j]
  BY <1>0, <1>3, <1>5 DEF PubTypeOK
<1>7. RowsAgree(j)'
  BY <1>0, <1>1, <1>4, <1>5, <1>6 DEF JobInv, RowsAgree
<1>8. /\ calls' \in [Job -> CallRecord] /\ \A k \in Job \ {j} : calls'[k] = calls[k]
      /\ JobInv(j)'
  <2>1. CASE ~a.ok
    BY <2>1, <1>0, <1>1, <1>3, <1>7, CallSet, CallEnds, NoCallFacts DEF GiveUp
  <2>2. CASE a.ok /\ next = calls[j].to
    <3>1. calls' = [calls EXCEPT ![j] = [NoCall EXCEPT !.at = "true"]]
      BY <2>2, <1>3 DEF AnswerTrue
    <3>2. Closed(j)'
      BY <2>2, <1>1, <1>2, <1>4, <1>5, <1>6 DEF Closed, TerminalRun, RetiredStates
    <3>3. QED
      BY <3>1, <3>2, <1>0, <1>1, <1>7, CallSet, CallAnswers, NoCallFacts
  <2>3. CASE a.ok /\ next # calls[j].to
    <3>1. calls' = [calls EXCEPT ![j].from = next]
      BY <2>3, <1>3
    <3>2. /\ calls' \in [Job -> CallRecord] /\ \A k \in Job \ {j} : calls'[k] = calls[k]
          /\ calls'[j].at = "hop" /\ calls'[j].from = next /\ calls'[j].to = calls[j].to
      <4> DEFINE c == [calls[j] EXCEPT !.from = next]
      <4>1. calls \in [Job -> CallRecord]
        BY <1>0 DEF PubTypeOK, CallRecord
      <4>2. c \in CallRecord /\ c.at = "hop" /\ c.from = next /\ c.to = calls[j].to
        BY <4>1, <1>1, <1>5 DEF CallRecord
      <4>3. calls' = [calls EXCEPT ![j] = c]
        BY <3>1
      <4> HIDE DEF c
      <4>4. QED
        BY <4>2, <4>3, <1>0, CallSet
    <3>3. run'[j] = next /\ next \notin TerminalRun
      BY <2>3, <1>4, <1>5, <1>6
    <3>4. JobInv(j)'
      BY <3>2, <3>3, <1>0, <1>1, <1>2, <1>7, CallOwns
         DEF JobInv, RecordKnown, RunKnown, HeadSeen, Undecided, Recorded, Writing
    <3>5. QED
      BY <3>2, <3>4
  <2>4. QED
    BY <2>1, <2>2, <2>3
<1>9. PubTypeOK'
  BY <1>0, <1>1, <1>4, <1>6, <1>8 DEF PubTypeOK, CallRecord, Hop, tickVars, forgeVars
<1>10. Local(j)
  BY <1>1, <1>6, <1>8 DEF Local
<1>11. QED
  BY <1>1, <1>8, <1>9, <1>10, CallStep

-----------------------------------------------------------------------------
(* The tick and the environment *)

\* The tick begins with a retired record whose run is open.
LEMMA ReconcileReadInv == ASSUME PubInv, NEW j \in Job, ReconcileRead(j) PROVE PubInv'
<1>0. PubTypeOK /\ MirrorInv /\ \A k \in Job : JobInv(k)
  BY DEF PubInv
<1>1. /\ queue' = queue /\ exec' = exec
      /\ cancelled' = cancelled /\ unusable' = unusable
      /\ calls' = calls
      /\ publication' = publication /\ usage' = usage /\ run' = run
      /\ landed' = landed /\ stray' = stray /\ head' = head /\ queue[j] \in RetiredStates
  BY DEF ReconcileRead, recordVars, queueVars, tickVars, storeVars, forgeVars
<1>2. \/ mirror' = mirror
      \/ run[j] \notin TerminalRun /\ mirror' = [job |-> j, from |-> run[j], to |-> queue[j]]
  BY DEF ReconcileRead
<1>3. MirrorInv' /\ mirror' \in [job : Job \union {0}, from : RunStates,
                                to : {"none"} \union RetiredStates]
  BY <1>0, <1>1, <1>2 DEF MirrorInv, PubTypeOK
<1>4. settledRuns' \subseteq Job
  BY <1>0 DEF ReconcileRead, PubTypeOK
<1>5. PubTypeOK'
  BY <1>0, <1>1, <1>3, <1>4 DEF PubTypeOK, ReconcileRead, tickVars, forgeVars
<1>6. \A k \in Job : JobInv(k)'
  BY <1>0, <1>1 DEF JobInv, Owned, RecordKnown, RunKnown, HeadSeen, RowsAgree, Closed
<1>7. QED
  BY <1>3, <1>5, <1>6 DEF PubInv

\* It writes completed only for a record the queue completed, and no run that
\* a refusal closed.
LEMMA ReconcileHopInv == ASSUME PubInv, ReconcileHop PROVE PubInv'
<1> DEFINE next == NextHop(mirror.from, mirror.to)
<1>0. PubTypeOK /\ MirrorInv /\ \A k \in Job : JobInv(k)
  BY DEF PubInv
<1>1. /\ queue' = queue /\ exec' = exec
      /\ cancelled' = cancelled /\ unusable' = unusable
      /\ calls' = calls
      /\ publication' = publication /\ usage' = usage
      /\ landed' = landed /\ stray' = stray /\ head' = head /\ mirror # NoMirror
  BY DEF ReconcileHop, recordVars, queueVars, tickVars, forgeVars
<1>2. PICK j \in Job :
        /\ mirror.job = j /\ queue[j] \in RetiredStates /\ mirror.to = queue[j]
        /\ mirror.from \notin TerminalRun /\ mirror.from \in RunStates
        /\ mirror \in [job : Job \union {0}, from : RunStates, to : {"none"} \union RetiredStates]
  BY <1>0, <1>1 DEF MirrorInv, PubTypeOK
<1>3. calls[j].at = "idle"
  BY <1>0, <1>2 DEF JobInv, Owned, RetiredStates
<1>4. next \in RunStates /\ (next = "completed" => queue[j] = "completed")
      /\ (next # mirror.to => next \notin TerminalRun)
  BY <1>2 DEF NextHop, RunStates, TerminalRun, RetiredStates
<1> HIDE DEF next
<1>5. /\ faults' \in Nat /\ settledRuns' \subseteq Job
      /\ \/ run' = run
         \/ run[j] = mirror.from /\ run' = [run EXCEPT ![j] = next]
      /\ mirror' = NoMirror \/ (next # mirror.to /\ mirror' = [mirror EXCEPT !.from = next])
  <2>1. CASE /\ run[j] # mirror.from
             /\ mirror' = NoMirror
             /\ settledRuns' = settledRuns \union {j}
             /\ UNCHANGED <<run, faults>>
    BY <2>1, <1>0, <1>2 DEF PubTypeOK
  <2>2. ASSUME run[j] = mirror.from, NEW a \in Answers, Charge(a),
               run' = IF a.done THEN [run EXCEPT ![j] = next] ELSE run,
               mirror' = IF a.ok /\ next # mirror.to THEN [mirror EXCEPT !.from = next]
                         ELSE NoMirror,
               settledRuns' = IF a.ok /\ next = mirror.to THEN settledRuns \union {j}
                              ELSE settledRuns
        PROVE  <1>5!:
    <3>1. faults' \in Nat
      BY <2>2, <1>0, AnswerFacts
    <3>2. settledRuns' \subseteq Job
      BY <2>2, <1>0, <1>2 DEF PubTypeOK
    <3>3. QED
      BY <2>2, <3>1, <3>2
  <2>3. QED
    BY <2>1, <2>2, <1>2 DEF ReconcileHop, next
<1>6. /\ run' \in [Job -> RunStates]
      /\ \A k \in Job \ {j} : run'[k] = run[k]
      /\ run'[j] = run[j] \/ (run[j] = mirror.from /\ run'[j] = next)
  BY <1>0, <1>2, <1>4, <1>5 DEF PubTypeOK
<1>7. Local(j)
  BY <1>1, <1>6 DEF Local
<1>8. JobInv(j)'
  <2>1. Closed(j) /\ run[j] \notin TerminalRun => publication[j] = "published"
    BY DEF Closed
  <2>2. queue[j] = "completed" => Closed(j)
    BY <1>0, <1>2 DEF JobInv, RunKnown
  <2>3. queue[j] = "completed" => Closed(j)'
    BY <2>1, <2>2, <1>1, <1>2, <1>6 DEF Closed
  <2>4. RowsAgree(j)'
    BY <2>1, <2>2, <1>0, <1>1, <1>2, <1>4, <1>6 DEF JobInv, RowsAgree
  <2>5. QED
    BY <2>3, <2>4, <1>0, <1>1, <1>2, <1>3
       DEF JobInv, Owned, RecordKnown, RunKnown, HeadSeen, Undecided, Recorded, Writing
<1>9. MirrorInv' /\ mirror' \in [job : Job \union {0}, from : RunStates,
                                to : {"none"} \union RetiredStates]
  <2>1. CASE mirror' = NoMirror
    BY <2>1 DEF MirrorInv, NoMirror, RunStates
  <2>2. CASE next # mirror.to /\ mirror' = [mirror EXCEPT !.from = next]
    <3>1. /\ mirror' \in [job : Job \union {0}, from : RunStates, to : {"none"} \union RetiredStates]
          /\ mirror'.job = j /\ mirror'.to = mirror.to /\ mirror'.from = next
      BY <2>2, <1>2, <1>4
    <3>2. QED
      BY <3>1, <2>2, <1>1, <1>2, <1>4 DEF MirrorInv
  <2>3. QED
    BY <2>1, <2>2, <1>5
<1>10. PubTypeOK'
  BY <1>0, <1>1, <1>5, <1>6, <1>9 DEF PubTypeOK, ReconcileHop, tickVars, forgeVars
<1>11. QED
  BY <1>0, <1>2, <1>7, <1>8, <1>9, <1>10, LocalKeeps DEF PubInv

\* A head that moves is seen by the calls of its job.
LEMMA MoveHeadInv == ASSUME PubInv, NEW h \in Heads, MoveHead(h) PROVE PubInv'
<1>0. PubTypeOK /\ MirrorInv /\ \A k \in Job : JobInv(k)
  BY DEF PubInv
<1>1. /\ queue' = queue /\ exec' = exec
      /\ cancelled' = cancelled /\ unusable' = unusable
      /\ mirror' = mirror
      /\ publication' = publication /\ usage' = usage /\ run' = run
      /\ landed' = landed /\ stray' = stray /\ head' = h /\ moves' \in Nat
  BY <1>0 DEF MoveHead, recordVars, queueVars, tickVars, storeVars, PubTypeOK
<1>2. ASSUME NEW k \in Job
      PROVE  /\ calls'[k] \in CallRecord
             /\ calls'[k].at = calls[k].at /\ calls'[k].withUsage = calls[k].withUsage
             /\ calls'[k].to = calls[k].to /\ calls'[k].from = calls[k].from
             /\ calls[k].seen = TRUE => calls'[k].seen = TRUE
             /\ HeadOf[k] = h /\ calls[k].at # "idle" => calls'[k].seen = TRUE
  <2>1. calls[k] \in CallRecord
    BY <1>0 DEF PubTypeOK, CallRecord
  <2>2. calls'[k] = IF HeadOf[k] = h /\ calls[k].at # "idle"
                    THEN [calls[k] EXCEPT !.seen = TRUE] ELSE calls[k]
    BY DEF MoveHead, At
  <2>3. CASE HeadOf[k] = h /\ calls[k].at # "idle"
    BY <2>1, <2>2, <2>3 DEF CallRecord
  <2>4. CASE ~(HeadOf[k] = h /\ calls[k].at # "idle")
    BY <2>1, <2>2, <2>4
  <2>5. QED
    BY <2>3, <2>4
<1>3. calls' \in [Job -> CallRecord]
  BY <1>2 DEF MoveHead
<1>4. PubTypeOK'
  BY <1>0, <1>1, <1>3 DEF PubTypeOK, CallRecord, MoveHead, tickVars
<1>5. ASSUME NEW k \in Job PROVE JobInv(k)'
  <2>0. /\ calls'[k].at = calls[k].at /\ calls'[k].withUsage = calls[k].withUsage
        /\ calls'[k].to = calls[k].to /\ calls'[k].from = calls[k].from
    BY <1>2
  <2>0a. Owned(k) /\ RecordKnown(k) /\ RunKnown(k) /\ RowsAgree(k)
    BY <1>0 DEF JobInv
  <2>1. Owned(k)' /\ RecordKnown(k)' /\ RunKnown(k)' /\ RowsAgree(k)'
    <3>1. RecordKnown(k)'
      BY <2>0, <2>0a, <1>1 DEF RecordKnown
    <3>2. QED
      BY <3>1, <2>0, <2>0a, <1>1 DEF Owned, RunKnown, RowsAgree, Closed
  <2>2. HeadSeen(k)'
    BY <1>0, <1>1, <1>2 DEF JobInv, HeadSeen, Undecided, Writing
  <2>3. QED
    BY <2>1, <2>2 DEF JobInv
<1>6. QED
  BY <1>0, <1>1, <1>4, <1>5 DEF PubInv, MirrorInv

\* A stray request may land: the forge has more, nothing else changes.
LEMMA StrayLandsInv == ASSUME PubInv, NEW j \in Job, StrayLands(j) PROVE PubInv'
<1>0. PubTypeOK /\ JobInv(j)
  BY DEF PubInv
<1>1. /\ queue' = queue /\ exec' = exec
      /\ cancelled' = cancelled /\ unusable' = unusable
      /\ mirror' = mirror /\ calls' = calls
      /\ publication' = publication /\ usage' = usage /\ run' = run /\ head' = head
      /\ landed' = landed \union {j} /\ j \in stray /\ stray' = stray \ {j}
  BY DEF StrayLands, recordVars, queueVars, tickVars, storeVars
<1>2. landed' \subseteq Job /\ stray' \subseteq Job
  BY <1>0, <1>1 DEF PubTypeOK
<1>3. PubTypeOK'
  BY <1>0, <1>1, <1>2 DEF PubTypeOK, StrayLands, tickVars
<1>4. Local(j)
  BY <1>1 DEF Local
<1>5. JobInv(j)'
  BY <1>0, <1>1 DEF JobInv, Owned, RecordKnown, RunKnown, HeadSeen, RowsAgree, Closed
<1>6. QED
  BY <1>1, <1>3, <1>4, <1>5, CallStep

\* A crash forgets the calls and the mirror and keeps the rows.
LEMMA CrashInv == ASSUME PubInv, Crash PROVE PubInv'
<1>0. PubTypeOK /\ \A k \in Job : JobInv(k)
  BY DEF PubInv
<1>1. /\ queue' = queue /\ cancelled' = cancelled /\ unusable' = unusable
      /\ mirror' = NoMirror
      /\ publication' = publication /\ usage' = usage /\ run' = run /\ head' = head
      /\ landed' = landed /\ settledRuns' = {} /\ crashes' \in Nat
      /\ calls' = [k \in Job |-> NoCall]
  BY <1>0 DEF Crash, recordVars, queueVars, tickVars, storeVars, PubTypeOK
<1>2. /\ stray' \subseteq Job /\ overtaken' = {}
      /\ \A k \in stray' \ stray : calls[k].at = "write"
      /\ exec' \in [Job -> ExecRecord]
      /\ \A k \in Job : exec'[k].at = "none" /\ exec'[k].to = "none"
  BY <1>0, NoExecFacts DEF Crash, At, PubTypeOK
<1>3. calls' \in [Job -> CallRecord] /\ \A k \in Job : calls'[k].at = "idle"
  BY <1>1, NoCallFacts
<1>4. mirror' \in [job : Job \union {0}, from : RunStates, to : {"none"} \union RetiredStates]
  BY <1>1 DEF NoMirror, RunStates
<1>5. PubTypeOK'
  BY <1>0, <1>1, <1>2, <1>3, <1>4 DEF PubTypeOK, CallRecord, ExecRecord, Crash, tickVars
<1>6. ASSUME NEW k \in Job PROVE JobInv(k)'
  BY <1>0, <1>1, <1>2, <1>3 DEF JobInv, Owned, RecordKnown, RunKnown, HeadSeen, RowsAgree,
                          Closed, Undecided, Recorded, Writing
<1>7. QED
  BY <1>1, <1>5, <1>6 DEF PubInv, MirrorInv

\* The deadline and a stutter change nothing the invariant speaks of.
LEMMA QuietInv == ASSUME PubInv, PassDeadline \/ UNCHANGED vars PROVE PubInv'
<1>0. PubTypeOK /\ MirrorInv /\ \A k \in Job : JobInv(k)
  BY DEF PubInv
<1>1. /\ queue' = queue /\ exec' = exec
      /\ cancelled' = cancelled /\ unusable' = unusable
      /\ mirror' = mirror /\ calls' = calls
      /\ publication' = publication /\ usage' = usage /\ run' = run /\ head' = head
      /\ landed' = landed /\ settledRuns' = settledRuns /\ overtaken' = overtaken
      /\ crashes' = crashes
      /\ stray' = stray /\ moves' = moves /\ faults' = faults
  BY DEF PassDeadline, vars, recordVars, queueVars, tickVars, storeVars, forgeVars
<1>2. late' \in BOOLEAN
  BY <1>0 DEF PassDeadline, vars, PubTypeOK
<1>3. PubTypeOK'
  BY <1>0, <1>1, <1>2 DEF PubTypeOK
<1>4. \A k \in Job : JobInv(k)'
  BY <1>0, <1>1 DEF JobInv, Owned, RecordKnown, RunKnown, HeadSeen, RowsAgree, Closed
<1>5. QED
  BY <1>0, <1>1, <1>3, <1>4 DEF PubInv, MirrorInv

\* Every step of queue, publisher, tick and environment preserves it.
LEMMA PubStep == PubInv /\ [Next]_vars => PubInv'
<1> SUFFICES ASSUME PubInv, [Next]_vars PROVE PubInv'
  OBVIOUS
<1>1. ASSUME NEW j \in Job, PublisherStep(j) PROVE PubInv'
  <2>1. CASE RecordPublished(j)
    BY <2>1, ConcludeInv DEF RecordPublished
  <2>2. CASE Refuse(j)
    BY <2>2, ConcludeInv DEF Refuse
  <2>3. QED
    BY <1>1, <2>1, <2>2, GetPublicationInv, PersistPendingInv, ReadHeadInv, ForgeLandsInv,
       ForgeAnswersInv, GetRunInv, HopInv DEF PublisherStep
<1>2. QED
  BY <1>1, EnqueueInv, DispatchInv, ExecutorInv, SettleInv, RetirementInv, PublishInv,
     ResolveInv, ReconcileReadInv,
     StrayLandsInv, ReconcileHopInv, MoveHeadInv, QuietInv, CrashInv DEF Next

-----------------------------------------------------------------------------
(* The theorems *)

\* The strengthened invariant of publisher, tick, queue and forge.
THEOREM PublicationInvariant == Spec => []PubInv
BY PubInit, PubStep, PTL DEF Spec

\* Type correctness of the publisher, its rows and its environment.
THEOREM PublicationTypes == Spec => []PubTypeOK
<1>1. PubInv => PubTypeOK
  BY DEF PubInv
<1>2. QED
  BY <1>1, PublicationInvariant, PTL

\* Forge, publication row, run row and queue record agree at every instant,
\* whatever fails or dies between two of their writes.
THEOREM RowsTellOneStory == Spec => []EvidenceChain
<1>1. PubInv => EvidenceChain
  BY DEF PubInv, EvidenceChain, JobInv, RowsAgree, RunKnown, Closed
<1>2. QED
  BY <1>1, PublicationInvariant, PTL

\* The usage of a job is accounted exactly once, with its first durable record.
THEOREM UsageIsCountedOnce == Spec => []UsageOnce
<1>1. PubInv => UsageOnce
  BY DEF PubInv, UsageOnce, JobInv, RowsAgree
<1>2. QED
  BY <1>1, PublicationInvariant, PTL

\* A call that writes to the forge has seen its head current.
THEOREM WritesAreFresh == Spec => []WriteWasFresh
<1>1. PubInv => WriteWasFresh
  BY DEF PubInv, WriteWasFresh, JobInv, HeadSeen, Writing
<1>2. QED
  BY <1>1, PublicationInvariant, PTL

\* A published record stays published and is never written to the forge again.
THEOREM PublishedStays == Spec => PublishedIsFinal
<1> DEFINE Final == \A j \in Job : publication[j] = "published" =>
                      /\ publication'[j] = "published"
                      /\ ~(At(j, "write") /\ calls'[j].at = "written")
<1>1. PubInv /\ [Next]_vars => [Final]_vars
  <2> SUFFICES ASSUME PubInv, Next, NEW j \in Job, publication[j] = "published"
               PROVE  /\ publication'[j] = "published"
                      /\ ~(At(j, "write") /\ calls'[j].at = "written")
    OBVIOUS
  <2>1. JobInv(j) /\ PubTypeOK
    BY DEF PubInv
  <2>2. calls[j].at \notin {"persist", "write", "record", "refuse"}
    BY <2>1 DEF JobInv, RecordKnown, Recorded
  <2>3. publication'[j] = publication[j]
    <3>1. CASE \E k \in Job : PersistPending(k) \/ RecordPublished(k) \/ Refuse(k)
      <4>1. PICK k \in Job : PersistPending(k) \/ RecordPublished(k) \/ Refuse(k)
        BY <3>1
      <4>2. k # j
        BY <4>1, <2>2 DEF PersistPending, RecordPublished, Refuse, Conclude, At
      <4>3. \/ publication' = publication
            \/ \E state : publication' = [publication EXCEPT ![k] = state]
        BY <4>1 DEF PersistPending, RecordPublished, Refuse, Conclude
      <4>4. QED
        BY <4>2, <4>3, <2>1 DEF PubTypeOK
    <3>2. CASE ~\E k \in Job : PersistPending(k) \/ RecordPublished(k) \/ Refuse(k)
      BY <3>2 DEF Next, Enqueue, Dispatch, ExecutorStep, WorkerEnds, ExecutorReads, ExecutorHop,
                  Settle, SettleRecovered, ExpireLease, ExpireDeadline, Retire, Publish, PublisherStep,
                  Resolve, ReconcileRead,
                  StrayLands, ReconcileHop, MoveHead, PassDeadline, Crash, GetPublication,
                  ReadHead, ForgeLands, ForgeAnswers, GetRun, Hop, storeVars
    <3>3. QED
      BY <3>1, <3>2
  <2>4. QED
    BY <2>2, <2>3 DEF At
<1>2. QED
  BY <1>1, PublicationInvariant, PTL DEF Spec, PublishedIsFinal
=============================================================================
