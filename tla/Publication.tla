----------------------------- MODULE Publication -----------------------------
(***************************************************************************)
(* The durable publisher of the controller (src/controller/publication.ts) *)
(* with the exact-head gate (src/ingress/dispatch.ts), the publication,    *)
(* usage and run rows of the control-plane store, the queue that calls the *)
(* publisher, the forge it writes to, and the run mirror (src/controller/  *)
(* run-lifecycle.ts) with its three writers: the executor of the daemon,   *)
(* the publisher and the tick.  The jobs are the generations of one pull   *)
(* request, each in the attempt that is its last.                          *)
(*                                                                         *)
(* Every await is a point where the other actors run, a store or forge     *)
(* call may fail before or after its effect, and the process may die; the  *)
(* forge request of a dead or timed-out call may still land.               *)
(***************************************************************************)
EXTENDS Integers, FiniteSets

CONSTANTS
  Job,          \* generations of one PR; a larger number is newer
  HeadOf,       \* headSha of a job
  FirstHead,    \* the PR head before it moves
  HasDeadline,  \* jobs with a deadlineAtMs
  MaxMoves,     \* bound: moves of the PR head
  MaxFaults,    \* bound: failing store, forge and file calls
  MaxCrashes    \* bound: process crashes

ASSUME PublicationAssumption ==
  /\ Job \subseteq Nat /\ Job # {}
  /\ HasDeadline \subseteq Job
  /\ FirstHead \in {HeadOf[j] : j \in Job}
  /\ MaxMoves \in Nat /\ MaxFaults \in Nat /\ MaxCrashes \in Nat

VARIABLES
  queue,        \* state of the job's queue record
  cancelled,    \* jobs with cancelRequested
  unusable,     \* jobs whose result no publish() can read or store, ever
  exec,         \* the daemon's executor of a job
  calls,        \* the publish() call of a job
  publication,  \* publicationState of the durable record
  usage,        \* how often the usage rows of a job were written
  run,          \* state of the control-plane run row
  mirror,       \* the run reconciliation of the daemon's tick
  settledRuns,  \* runs this process has reconciled
  overtaken,    \* those among them whose compare-and-set lost its race
  head,         \* the PR head on the forge
  late,         \* the deadline has passed
  landed,       \* jobs whose result the forge has received
  stray,        \* jobs with a forge request of a dead call that may still land
  moves, faults, crashes

vars == <<queue, cancelled, unusable, exec, calls, publication, usage, run, mirror,
          settledRuns, overtaken, head, late, landed, stray, moves, faults, crashes>>

recordVars == <<queue, cancelled, unusable>>
queueVars == <<recordVars, exec>>
tickVars == <<mirror, settledRuns, overtaken>>
storeVars == <<publication, usage, run>>
forgeVars == <<head, landed, stray, moves>>

-----------------------------------------------------------------------------
(* Lifecycle *)

Heads == {HeadOf[j] : j \in Job}
\* A cancelled record or run counts as failed: nothing here tells them apart.
RetiredStates == {"completed", "failed", "superseded"}
TerminalRun == RetiredStates
Live(j) == queue[j] \in {"queued", "working", "publishing"}

\* Where publish() is: the call it awaits, or "true" once it has answered so.
Points == {"idle", "get", "persist", "head", "write", "written", "record",
           "refuse", "getRun", "hop", "true"}

\* "seen" is history: the job's head was the PR's at some instant of the call.
NoCall == [at |-> "idle", expired |-> FALSE, withUsage |-> FALSE, seen |-> FALSE,
           from |-> "none", to |-> "none"]

NoMirror == [job |-> 0, from |-> "none", to |-> "none"]

\* The executor awaits its worker, then mirrors the outcome to the run; "caught"
\* once it is in its catch block.
ExecPoints == {"none", "worker", "getRun", "hop", "done"}
NoExec == [at |-> "none", from |-> "none", to |-> "none", caught |-> FALSE]

RunStates == {"none", "running", "publishing"} \union TerminalRun

\* The first hop of transitionPath(from, to).
NextHop(from, to) ==
  IF from = "running" /\ to = "completed" THEN "publishing" ELSE to

\* A call on a store or the forge: it answers, or fails with or without effect.
Answers == {[ok |-> TRUE, done |-> TRUE], [ok |-> FALSE, done |-> TRUE],
            [ok |-> FALSE, done |-> FALSE]}

Fault == faults < MaxFaults /\ faults' = faults + 1

Charge(a) == IF a.ok THEN UNCHANGED faults ELSE Fault

\* One tick runs at a time: it does nothing to the queue while it reconciles a run.
TickFree == mirror = NoMirror

At(j, point) == calls[j].at = point
Goto(j, point) == calls' = [calls EXCEPT ![j].at = point]

\* publish() answers false or rejects: the queue keeps the record publishing and
\* retries.  The attempt note written before that adds to the history only.
GiveUp(j) == calls' = [calls EXCEPT ![j] = NoCall]

\* The call is settled: the record may leave the queue.
AnswerTrue(j) == calls' = [calls EXCEPT ![j] = [NoCall EXCEPT !.at = "true"]]

Init ==
  /\ queue = [j \in Job |-> "absent"]
  /\ cancelled = {} /\ unusable = {}
  /\ exec = [j \in Job |-> NoExec]
  /\ calls = [j \in Job |-> NoCall]
  /\ publication = [j \in Job |-> "none"]
  /\ usage = [j \in Job |-> 0]
  /\ run = [j \in Job |-> "none"]
  /\ mirror = NoMirror
  /\ settledRuns = {} /\ overtaken = {}
  /\ head = FirstHead
  /\ late = FALSE
  /\ landed = {}
  /\ stray = {}
  /\ moves = 0 /\ faults = 0 /\ crashes = 0

-----------------------------------------------------------------------------
(* The queue, as far as the publisher sees it *)

\* A new generation supersedes the older ones that wait and asks those that
\* work or publish to stop.
Enqueue(j) ==
  LET older == {k \in Job : k < j}
  IN  /\ queue[j] = "absent"
      /\ \A k \in older : queue[k] # "absent"
      /\ queue' = [k \in Job |-> IF k = j THEN "queued"
                                ELSE IF k \in older /\ queue[k] = "queued" THEN "superseded"
                                ELSE queue[k]]
      /\ cancelled' = cancelled \union {k \in older : queue[k] \in {"working", "publishing"}}
      /\ UNCHANGED <<unusable, exec, calls, late, faults, crashes, tickVars, storeVars, forgeVars>>

\* One worker per PR.  The launch is part of the step: the run is running before
\* the executor awaits its worker.
Dispatch(j) ==
  /\ TickFree /\ queue[j] = "queued"
  /\ \A k \in Job : queue[k] # "working"
  /\ queue' = [queue EXCEPT ![j] = "working"]
  /\ exec' = [exec EXCEPT ![j].at = "worker"]
  /\ run' = [run EXCEPT ![j] = "running"]
  /\ UNCHANGED <<cancelled, unusable, calls, publication, usage, late, faults, crashes,
                 tickVars, forgeVars>>

\* The record after an outcome.  A result may be one that no publish() will ever
\* be able to read or store; a failure of a record asked to stop retires it as
\* superseded, and what stops at that request as cancelled.
Complete(j) ==
  /\ queue' = [queue EXCEPT ![j] = IF j \in cancelled THEN "superseded" ELSE "publishing"]
  /\ \/ UNCHANGED unusable
     \/ j \notin cancelled /\ unusable' = unusable \union {j}

Fail(j) ==
  /\ \/ queue' = [queue EXCEPT ![j] = "failed"]
     \/ j \in cancelled /\ queue' = [queue EXCEPT ![j] = "superseded"]
  /\ UNCHANGED unusable

\* The executor's promise resolves; its outcome is fenced off once the record
\* was retired under it.  A workspace that fails to close rejects the promise.
Settle(j) ==
  /\ exec[j].at = "done"
  /\ exec' = [exec EXCEPT ![j] = NoExec]
  /\ \/ queue[j] # "working" /\ UNCHANGED <<queue, unusable, faults>>
     \/ queue[j] = "working" /\ exec[j].to = "publishing" /\ Complete(j) /\ UNCHANGED faults
     \/ queue[j] = "working" /\ exec[j].to # "publishing" /\ Fail(j) /\ UNCHANGED faults
     \/ queue[j] = "working" /\ Fail(j) /\ Fault
  /\ UNCHANGED <<cancelled, calls, late, crashes, tickVars, storeVars, forgeVars>>

\* After a restart the worker is settled by recovery, which writes no run.
SettleRecovered(j) ==
  /\ TickFree /\ queue[j] = "working" /\ exec[j].at = "none"
  /\ Complete(j) \/ Fail(j)
  /\ UNCHANGED <<cancelled, exec, calls, late, faults, crashes, tickVars, storeVars, forgeVars>>

\* The tick retires a record whose lease ran out; the executor goes on.
ExpireLease(j) ==
  /\ TickFree /\ queue[j] = "working"
  /\ \/ queue' = [queue EXCEPT ![j] = "failed"]
     \/ (\E k \in Job : k > j /\ Live(k)) /\ queue' = [queue EXCEPT ![j] = "superseded"]
  /\ UNCHANGED <<cancelled, unusable, exec, calls, late, faults, crashes, tickVars, storeVars,
                 forgeVars>>

\* It cancels a record past its deadline, dispatched or not.
ExpireDeadline(j) ==
  /\ TickFree /\ queue[j] \in {"queued", "working"} /\ late /\ j \in HasDeadline
  /\ queue' = [queue EXCEPT ![j] = "failed"]
  /\ UNCHANGED <<cancelled, unusable, exec, calls, late, faults, crashes, tickVars, storeVars,
                 forgeVars>>

\* retryPublishes retires a superseded record that has no call in flight.
Retire(j) ==
  /\ TickFree /\ queue[j] = "publishing" /\ j \in cancelled /\ At(j, "idle")
  /\ queue' = [queue EXCEPT ![j] = "superseded"]
  /\ UNCHANGED <<cancelled, unusable, exec, calls, late, faults, crashes, tickVars, storeVars,
                 forgeVars>>

\* The settle or a retry pass calls the publisher; publish() reads the clock.
Publish(j) ==
  /\ queue[j] = "publishing" /\ j \notin cancelled /\ At(j, "idle")
  /\ calls' = [calls EXCEPT ![j] = [NoCall EXCEPT !.at = "get",
                                      !.expired = late /\ j \in HasDeadline,
                                      !.seen = (head = HeadOf[j])]]
  /\ UNCHANGED <<late, faults, crashes, queueVars, tickVars, storeVars, forgeVars>>

\* The queue's continuation of a publish promise that answered true.
Resolve(j) ==
  /\ At(j, "true")
  /\ queue' = [queue EXCEPT ![j] = IF j \in cancelled THEN "superseded" ELSE "completed"]
  /\ calls' = [calls EXCEPT ![j] = NoCall]
  /\ UNCHANGED <<cancelled, unusable, exec, late, faults, crashes, tickVars, storeVars,
                 forgeVars>>

-----------------------------------------------------------------------------
(* The executor: settleRunForOutcome, one action per awaited call *)

\* The run state a failed attempt is mirrored to.
FailedTarget(j) == IF j \in cancelled THEN "superseded" ELSE "failed"

\* The worker's outcome is collected, and the target chosen from the record.
WorkerEnds(j) ==
  /\ exec[j].at = "worker"
  /\ \E to \in {"publishing", "failed", FailedTarget(j)} :
       exec' = [exec EXCEPT ![j].at = "getRun", ![j].to = to]
  /\ UNCHANGED <<calls, late, faults, crashes, recordVars, tickVars, storeVars, forgeVars>>

\* The mirror is over: what the executor answers follows from its target.
ExecutorEnds(j) == exec' = [exec EXCEPT ![j] = [NoExec EXCEPT !.at = "done", !.to = exec[j].to]]

\* A store call of the mirror fails: the catch block mirrors a failure, and what
\* fails in there rejects the promise.
ExecutorThrows(j) ==
  IF exec[j].caught THEN ExecutorEnds(j)
  ELSE exec' = [exec EXCEPT ![j] = [at |-> "getRun", from |-> "none", to |-> FailedTarget(j),
                                    caught |-> TRUE]]

\* The executor reads its run and leaves it when it is terminal or there already.
ExecutorReads(j) ==
  /\ exec[j].at = "getRun"
  /\ \/ /\ run[j] \in TerminalRun \union {exec[j].to}
        /\ ExecutorEnds(j)
        /\ UNCHANGED faults
     \/ /\ run[j] \notin TerminalRun \union {exec[j].to}
        /\ exec' = [exec EXCEPT ![j].at = "hop", ![j].from = run[j]]
        /\ UNCHANGED faults
     \/ Fault /\ ExecutorThrows(j)
  /\ UNCHANGED <<calls, late, crashes, recordVars, tickVars, storeVars, forgeVars>>

\* Its compare-and-set, one hop for every target; a lost race ends the mirror.
ExecutorHop(j) ==
  /\ exec[j].at = "hop"
  /\ \/ /\ run[j] # exec[j].from
        /\ ExecutorEnds(j)
        /\ UNCHANGED <<run, faults>>
     \/ /\ run[j] = exec[j].from
        /\ \E a \in Answers :
             /\ Charge(a)
             /\ run' = IF a.done THEN [run EXCEPT ![j] = exec[j].to] ELSE run
             /\ IF a.ok THEN ExecutorEnds(j) ELSE ExecutorThrows(j)
  /\ UNCHANGED <<calls, publication, usage, late, crashes, recordVars, tickVars, forgeVars>>

-----------------------------------------------------------------------------
(* publish(): one action per awaited call *)

\* Mutant: a published record does not end the call.
GetPublicationAgain(j) ==
  /\ At(j, "get")
  /\ calls' = [calls EXCEPT ![j].at = "persist", ![j].withUsage = (publication[j] = "none")]
  /\ UNCHANGED <<late, faults, crashes, queueVars, tickVars, storeVars, forgeVars>>

\* Mutant: usage is taken from the artifact although a record exists.
GetPublicationUsage(j) ==
  /\ At(j, "get")
  /\ IF publication[j] = "published" THEN AnswerTrue(j)
     ELSE calls' = [calls EXCEPT ![j].at = "persist", ![j].withUsage = TRUE]
  /\ UNCHANGED <<late, faults, crashes, queueVars, tickVars, storeVars, forgeVars>>

\* The durable record decides: published already, resume from its payload, or
\* read the worker's artifact (whose usage is then recorded with it).  A
\* rejected read ends the call with nothing written, and so does every read of
\* an artifact that is missing, malformed, too large or of another head.
GetPublication(j) ==
  /\ At(j, "get")
  /\ \/ publication[j] = "published" /\ AnswerTrue(j) /\ UNCHANGED faults
     \/ /\ publication[j] # "published"
        /\ calls' = [calls EXCEPT ![j].at = "persist",
                                  ![j].withUsage = (publication[j] = "none")]
        /\ UNCHANGED faults
     \/ publication[j] = "none" /\ j \in unusable /\ GiveUp(j) /\ UNCHANGED faults
     \/ Fault /\ GiveUp(j)
  /\ UNCHANGED <<late, crashes, queueVars, tickVars, storeVars, forgeVars>>

\* The store's validator refuses the payload of the artifact each time.
Refused(j) == publication[j] = "none" /\ j \in unusable

\* Persist before the side effect: one batch, the pending record and its usage.
PersistPending(j) ==
  /\ At(j, "persist")
  /\ \E a \in Answers :
       /\ IF Refused(j) THEN ~a.done /\ UNCHANGED faults ELSE Charge(a)
       /\ IF a.ok THEN calls' = [calls EXCEPT ![j].at = "head", ![j].withUsage = FALSE]
          ELSE GiveUp(j)
       /\ IF a.done
          THEN /\ publication' = [publication EXCEPT ![j] = "pending"]
               /\ usage' = [usage EXCEPT ![j] = IF calls[j].withUsage THEN @ + 1 ELSE @]
          ELSE UNCHANGED <<publication, usage>>
  /\ UNCHANGED <<run, late, crashes, queueVars, tickVars, forgeVars>>

\* Mutant: the gate compares nothing.
GateOpen(j) == ~calls[j].expired

\* gateJobPublication: not expired when the call began, exact head.
Gate(j) == ~calls[j].expired /\ head = HeadOf[j]

\* The head read: unreadable is retried later, a proven newer head or an
\* expired job is refused, else the forge request is sent.
ReadHead(j) ==
  /\ At(j, "head")
  /\ \/ /\ calls' = [calls EXCEPT ![j].at = IF Gate(j) THEN "write" ELSE "refuse",
                                  ![j].expired = FALSE]
        /\ UNCHANGED faults
     \/ Fault /\ GiveUp(j)
  /\ UNCHANGED <<late, crashes, queueVars, tickVars, storeVars, forgeVars>>

\* The forge handles the request: the sticky comment shows this result.
ForgeLands(j) ==
  /\ At(j, "write")
  /\ landed' = landed \union {j}
  /\ Goto(j, "written")
  /\ UNCHANGED <<head, stray, moves, late, faults, crashes, queueVars, tickVars,
                 storeVars>>

\* Mutant: the request counts as written when it is sent.
ForgeAnswersEarly(j) ==
  /\ At(j, "written") \/ At(j, "write")
  /\ Goto(j, "record")
  /\ UNCHANGED <<late, faults, crashes, queueVars, tickVars, storeVars, forgeVars>>

\* The answer arrives, or the request is rejected or times out; one that was
\* not handled yet may still be.
ForgeAnswers(j) ==
  /\ \/ At(j, "written") /\ Goto(j, "record") /\ UNCHANGED <<faults, stray>>
     \/ /\ At(j, "written") \/ At(j, "write")
        /\ Fault
        /\ GiveUp(j)
        /\ stray' = stray \union ({j} \ landed)
  /\ UNCHANGED <<head, landed, moves, late, crashes, queueVars, tickVars, storeVars>>

\* The gate's outcome is made durable, then the run is mirrored; a store that
\* fails here makes the queue call again.
Conclude(j, point, state, target) ==
  /\ At(j, point)
  /\ \E a \in Answers :
       /\ Charge(a)
       /\ IF a.ok THEN calls' = [calls EXCEPT ![j] = [NoCall EXCEPT !.at = "getRun", !.to = target]]
          ELSE GiveUp(j)
       /\ publication' = IF a.done THEN [publication EXCEPT ![j] = state] ELSE publication
  /\ UNCHANGED <<usage, run, late, crashes, queueVars, tickVars, forgeVars>>

RecordPublished(j) == Conclude(j, "record", "published", "completed")


\* record-publication-attempt with outcome "failed".
Refuse(j) == Conclude(j, "refuse", "failed", "failed")

\* mirrorRunTransition reads the run; a terminal one is left alone.
GetRun(j) ==
  /\ At(j, "getRun")
  /\ \/ run[j] \in TerminalRun /\ AnswerTrue(j) /\ UNCHANGED faults
     \/ /\ run[j] \notin TerminalRun
        /\ calls' = [calls EXCEPT ![j].at = "hop", ![j].from = run[j]]
        /\ UNCHANGED faults
     \/ Fault /\ GiveUp(j)
  /\ UNCHANGED <<late, crashes, queueVars, tickVars, storeVars, forgeVars>>

\* One hop of the mirror, a compare-and-set; a lost race ends the mirror.
Hop(j) ==
  LET c == calls[j]
      next == NextHop(c.from, c.to)
  IN  /\ At(j, "hop")
      /\ \/ run[j] # c.from /\ AnswerTrue(j) /\ UNCHANGED <<run, faults>>
         \/ /\ run[j] = c.from
            /\ \E a \in Answers :
                 /\ Charge(a)
                 /\ run' = IF a.done THEN [run EXCEPT ![j] = next] ELSE run
                 /\ IF ~a.ok THEN GiveUp(j)
                    ELSE IF next = c.to THEN AnswerTrue(j)
                    ELSE calls' = [calls EXCEPT ![j].from = next]
      /\ UNCHANGED <<publication, usage, late, crashes, queueVars, tickVars, forgeVars>>

PublisherStep(j) ==
  \/ GetPublication(j)
  \/ PersistPending(j)
  \/ ReadHead(j)
  \/ ForgeLands(j)
  \/ ForgeAnswers(j)
  \/ RecordPublished(j)
  \/ Refuse(j)
  \/ GetRun(j)
  \/ Hop(j)

-----------------------------------------------------------------------------
(* The daemon's tick: reconcileRunRecords *)


\* Mutant: the run of a record still in flight is mirrored too.
ReconcileReadInFlight(j) ==
  /\ TickFree /\ j \notin settledRuns
  /\ run[j] \notin TerminalRun \union {"none"}
  /\ mirror' = [job |-> j, from |-> run[j], to |-> queue[j]]
  /\ UNCHANGED <<settledRuns, overtaken, calls, late, faults, crashes, queueVars, storeVars,
                 forgeVars>>

\* A retired record that was dispatched and whose run was not reconciled yet:
\* read its run.
ReconcileRead(j) ==
  /\ TickFree
  /\ queue[j] \in RetiredStates /\ j \notin settledRuns /\ run[j] # "none"
  /\ IF run[j] \in TerminalRun
     THEN settledRuns' = settledRuns \union {j} /\ UNCHANGED mirror
     ELSE /\ mirror' = [job |-> j, from |-> run[j], to |-> queue[j]]
          /\ UNCHANGED settledRuns
  /\ UNCHANGED <<overtaken, calls, late, faults, crashes, queueVars, storeVars, forgeVars>>

\* A lost race leaves the run to the other writer and counts as reconciled.  A
\* failing store rejects the tick; the next one starts over.
ReconcileHop ==
  LET j == mirror.job
      next == NextHop(mirror.from, mirror.to)
  IN  /\ mirror # NoMirror
      /\ \/ /\ run[j] # mirror.from
            /\ mirror' = NoMirror
            /\ settledRuns' = settledRuns \union {j}
            /\ overtaken' = overtaken \union {j}
            /\ UNCHANGED <<run, faults>>
         \/ /\ run[j] = mirror.from
            /\ \E a \in Answers :
                 /\ Charge(a)
                 /\ run' = IF a.done THEN [run EXCEPT ![j] = next] ELSE run
                 /\ mirror' = IF a.ok /\ next # mirror.to THEN [mirror EXCEPT !.from = next]
                              ELSE NoMirror
                 /\ settledRuns' = IF a.ok /\ next = mirror.to THEN settledRuns \union {j}
                                   ELSE settledRuns
            /\ UNCHANGED overtaken
      /\ UNCHANGED <<calls, publication, usage, late, crashes, queueVars, forgeVars>>

-----------------------------------------------------------------------------
(* The environment *)

\* Only publish() sees the head: a move while nothing is publishing is taken when
\* something is.
MoveHead(h) ==
  /\ moves < MaxMoves /\ h # head
  /\ \E j \in Job : queue[j] = "publishing"
  /\ head' = h
  /\ moves' = moves + 1
  /\ calls' = [j \in Job |-> IF HeadOf[j] = h /\ ~At(j, "idle")
                             THEN [calls[j] EXCEPT !.seen = TRUE] ELSE calls[j]]
  /\ UNCHANGED <<landed, stray, late, faults, crashes, queueVars, tickVars, storeVars>>

\* Nobody sees a deadline pass while no record that has it is live.
PassDeadline ==
  /\ ~late /\ \E j \in HasDeadline : Live(j)
  /\ late' = TRUE
  /\ UNCHANGED <<calls, faults, crashes, queueVars, tickVars, storeVars, forgeVars>>

\* The request of a dead call lands; one that is dropped never does.
StrayLands(j) ==
  /\ j \in stray
  /\ stray' = stray \ {j}
  /\ landed' = landed \union {j}
  /\ UNCHANGED <<calls, head, moves, late, faults, crashes, queueVars, tickVars,
                 storeVars>>

\* The process dies and starts again: executors, calls, mirror and memory are
\* gone, rows and queue records are not, and a sent request may still land.
Crash ==
  /\ crashes < MaxCrashes
  /\ crashes' = crashes + 1
  /\ calls' = [j \in Job |-> NoCall]
  /\ mirror' = NoMirror
  /\ settledRuns' = {} /\ overtaken' = {}
  /\ exec' = [j \in Job |-> NoExec]
  /\ stray' = stray \union {j \in Job \ landed : At(j, "write")}
  /\ UNCHANGED <<head, landed, moves, late, faults, recordVars, storeVars>>

ExecutorStep(j) == WorkerEnds(j) \/ ExecutorReads(j) \/ ExecutorHop(j)

Next ==
  \/ \E j \in Job : \/ Enqueue(j)
                    \/ Dispatch(j)
                    \/ ExecutorStep(j)
                    \/ Settle(j)
                    \/ SettleRecovered(j)
                    \/ ExpireLease(j)
                    \/ ExpireDeadline(j)
                    \/ Retire(j)
                    \/ Publish(j)
                    \/ PublisherStep(j)
                    \/ Resolve(j)
                    \/ ReconcileRead(j)
                    \/ StrayLands(j)
  \/ ReconcileHop
  \/ \E h \in Heads : MoveHead(h)
  \/ PassDeadline
  \/ Crash

\* What moves a publishing record on; at most one of these is enabled.
PublishingStep(j) == Retire(j) \/ Publish(j) \/ PublisherStep(j) \/ Resolve(j)

\* Ticks retry publishes and reconcile runs, and every store, file and forge call
\* of publish() is answered or times out.  Workers need not end.
Fairness ==
  /\ \A j \in Job : WF_vars(PublishingStep(j))
  /\ WF_vars(ReconcileHop \/ \E j \in Job : ReconcileRead(j))

Spec == Init /\ [][Next]_vars
FairSpec == Spec /\ Fairness

-----------------------------------------------------------------------------
(* Properties *)

\* The publisher's state has its type: one call per job at a known await point,
\* durable rows in their states.
PubTypeOK ==
  /\ queue \in [Job -> {"absent", "queued", "working", "publishing"} \union RetiredStates]
  /\ cancelled \subseteq Job /\ unusable \subseteq Job
  /\ exec \in [Job -> [at : ExecPoints, from : RunStates, to : RunStates, caught : BOOLEAN]]
  /\ calls \in [Job -> [at : Points, expired : BOOLEAN, withUsage : BOOLEAN, seen : BOOLEAN,
                        from : RunStates, to : {"none", "completed", "failed"}]]
  /\ publication \in [Job -> {"none", "pending", "published", "failed"}]
  /\ usage \in [Job -> Nat]
  /\ run \in [Job -> RunStates]
  /\ mirror \in [job : Job \union {0}, from : RunStates, to : {"none"} \union RetiredStates]
  /\ settledRuns \subseteq Job /\ overtaken \subseteq Job
  /\ head \in Heads /\ late \in BOOLEAN
  /\ landed \subseteq Job
  /\ stray \subseteq Job
  /\ moves \in Nat /\ faults \in Nat /\ crashes \in Nat

\* The durable rows tell one story, although executor, publisher, tick and queue
\* write them one at a time and any of them may stop half way: nothing is on the
\* forge without a record that a restart can resume from, a publication that says
\* published is on the forge, a completed run was published, and a job the queue
\* has completed was published or refused (publication.ts 396-490, daemon.ts
\* 685-738, scheduler.ts 914-1000).
EvidenceChain ==
  \A j \in Job :
    /\ j \in landed => publication[j] # "none"
    /\ publication[j] = "published" => j \in landed
    /\ run[j] = "completed" => publication[j] = "published"
    /\ queue[j] = "completed" => publication[j] \in {"published", "failed"}

\* The usage of a run is accounted exactly once, with the first durable record,
\* however often the publication is retried (publication.ts 358-413).
UsageOnce == \A j \in Job : usage[j] = (IF publication[j] = "none" THEN 0 ELSE 1)

\* A live call writes to the forge only for a head that was current at some
\* instant of that call; the head may have moved since (publication.ts 421-443).
WriteWasFresh ==
  \A j \in Job : calls[j].at \in {"write", "written", "record"} => calls[j].seen

\* Once the record says published it stays so and no call writes to the forge
\* again: a replay after a crash or a lost answer is a no-op (publication.ts
\* 352-357).
PublishedIsFinal ==
  [][\A j \in Job : publication[j] = "published" =>
       /\ publication'[j] = "published"
       /\ ~(At(j, "write") /\ calls'[j].at = "written")]_vars



=============================================================================
