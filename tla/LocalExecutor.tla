---------------------------- MODULE LocalExecutor ----------------------------
(***************************************************************************)
(* One attempt in the local executor (src/executor/local.ts): start()      *)
(* launches a detached worker and keeps a recovery record next to it, the  *)
(* settled process is classified once, and a controller that comes up      *)
(* after a crash asks the record (reconcile) and cancels by it.  The       *)
(* worker's tree, its pid and the record live on when the controller dies. *)
(* The runtime's tree termination (src/runtime) is taken by its report: it *)
(* proves that everything is gone, or proves nothing.  The result file is  *)
(* the worker's: whatever lives of its tree may write it at any time.      *)
(***************************************************************************)
EXTENDS Integers, Sequences

CONSTANT MaxFaults  \* bound: record writes that fail

ASSUME LocalExecutorAssumption == MaxFaults \in Nat

VARIABLES
  leader,      \* the worker process: none, alive, zombie or gone
  group,       \* other members of its process group are alive
  reused,      \* the OS gave the worker's pid to another process
  output,      \* the result file is valid, of this run, and says completed
  rewritten,   \* history: that changed after the run was classified
  record,      \* the recovery record on disk
  run,         \* the LocalRun of this controller process
  chain,       \* its stateWriteChain
  collected,   \* what collect() returned
  recovered,   \* what reconcile() answered after a restart
  cancelSaid,  \* what cancel() answered
  lost,        \* history: a terminal record could not be written
  faults

vars == <<leader, group, reused, output, rewritten, record, run, chain, collected,
          recovered, cancelSaid, lost, faults>>

fileVars == <<output, rewritten>>
procVars == <<leader, group, reused, fileVars>>
answerVars == <<collected, recovered, cancelSaid>>

-----------------------------------------------------------------------------

TerminalStates == {"completed", "failed", "cancelled"}

\* at: what start() awaits; outcome: how the process settled; swept: the
\* runtime proved that the whole tree is gone.
NewRun == [at |-> "preparing", cancel |-> FALSE, asked |-> FALSE, pid |-> FALSE,
           identity |-> FALSE, outcome |-> "none", swept |-> FALSE, result |-> "none"]

At(point) == run.at = point

Init ==
  /\ leader = "none" /\ group = FALSE /\ reused = FALSE
  /\ output = FALSE /\ rewritten = FALSE
  /\ record = [state |-> "none", pid |-> FALSE, identity |-> FALSE]
  /\ run = [NewRun EXCEPT !.at = "new"]
  /\ chain = <<>>
  /\ collected = "none" /\ recovered = "none" /\ cancelSaid = "none"
  /\ lost = FALSE
  /\ faults = 0

Goto(point) == run' = [run EXCEPT !.at = point]

-----------------------------------------------------------------------------
(* start() *)

Start ==
  /\ At("new")
  /\ Goto("preparing")
  /\ UNCHANGED <<record, chain, lost, faults, procVars, answerVars>>

\* An expired deadline, an unprovable path or a failing write before the launch.
\* A cancel() that waits for the launch learns nothing.
Refuse ==
  /\ At("preparing")
  /\ Goto("refused")
  /\ cancelSaid' = IF run.asked THEN "failed" ELSE cancelSaid
  /\ UNCHANGED <<record, chain, collected, recovered, lost, faults, procVars>>

\* The envelope is on disk; the crash-window record is queued and awaited.
Prepare ==
  /\ At("preparing")
  /\ Goto("starting")
  /\ chain' = Append(chain, "starting")
  /\ UNCHANGED <<record, lost, faults, procVars, answerVars>>

\* runProcess: the worker runs, or the launch is refused.
Spawn ==
  /\ At("starting") /\ chain = <<>>
  /\ \/ /\ leader' = "alive"
        /\ group' \in BOOLEAN
        /\ Goto("launching")
     \/ /\ run' = [run EXCEPT !.at = "launching", !.outcome = "spawn_error"]
        /\ UNCHANGED <<leader, group>>
  /\ UNCHANGED <<reused, fileVars, record, chain, lost, faults, answerVars>>

\* launched resolves: the pid and, if it can be read, its start time are known;
\* unless the run has settled already, the running record is queued.
Launched ==
  /\ At("launching")
  /\ \E readable \in BOOLEAN :
       run' = [run EXCEPT !.at = "up", !.pid = (leader # "none"),
                          !.identity = readable /\ leader # "none"]
  /\ chain' = IF run.result = "none" /\ run.outcome # "spawn_error"
              THEN Append(chain, "running") ELSE chain
  /\ UNCHANGED <<record, lost, faults, procVars, answerVars>>

\* Mutant: writes go to the disk as they come, the last one may land first.
WriteStateUnordered ==
  LET kind == chain[Len(chain)]
  IN  /\ chain # <<>>
      /\ kind = "starting" \/ ~At("launching")
      /\ chain' = SubSeq(chain, 1, Len(chain) - 1)
      /\ record' = [state |-> IF kind = "terminal" THEN run.result ELSE kind,
                    pid |-> run.pid, identity |-> run.identity]
      /\ UNCHANGED <<run, lost, faults, procVars, answerVars>>

\* stateWriteChain: the oldest write is next; it waits for the pid, is skipped
\* when it is not terminal and the run has a result, and may fail.
WriteState ==
  LET kind == Head(chain)
  IN  /\ chain # <<>>
      /\ kind = "starting" \/ ~At("launching")
      /\ chain' = Tail(chain)
      /\ \/ /\ kind # "terminal" /\ run.result # "none"
            /\ UNCHANGED <<record, lost, faults>>
         \/ /\ kind = "terminal" \/ run.result = "none"
            /\ record' = [state |-> IF kind = "terminal" THEN run.result ELSE kind,
                          pid |-> run.pid, identity |-> run.identity]
            /\ UNCHANGED <<lost, faults>>
         \/ /\ kind = "terminal" \/ run.result = "none"
            /\ faults < MaxFaults
            /\ faults' = faults + 1
            /\ lost' = (lost \/ kind = "terminal")
            /\ UNCHANGED record
      /\ UNCHANGED <<run, procVars, answerVars>>

-----------------------------------------------------------------------------
(* The worker and its end *)

Owned == At("launching") \/ At("up")

\* The worker, or what it left behind, writes, spoils or removes the result file.
WritesResult ==
  /\ leader = "alive" \/ group
  /\ output' = ~output
  /\ rewritten' = (rewritten \/ run.result # "none")
  /\ UNCHANGED <<leader, group, reused, record, run, chain, lost, faults, answerVars>>

\* The worker exits by itself, with whatever it made of the result file; the rest
\* of its group may stay.  Without its parent it stays a zombie until init reaps it.
WorkerExits(status) ==
  /\ leader = "alive"
  /\ group' \in {FALSE, group}
  /\ \/ /\ Owned
        /\ leader' = "gone"
        /\ run' = IF run.outcome = "none" THEN [run EXCEPT !.outcome = status] ELSE run
     \/ /\ ~Owned
        /\ leader' = "zombie"
        /\ UNCHANGED run
  /\ UNCHANGED <<reused, fileVars, record, chain, lost, faults, answerVars>>

\* The runtime terminates the tree at the deadline or for an abort; the report
\* proves that all of it is gone, or some of it may have survived.
Terminated(status) ==
  /\ Owned /\ leader = "alive" /\ run.outcome = "none"
  /\ \E swept \in BOOLEAN :
       /\ run' = [run EXCEPT !.outcome = status, !.swept = swept]
       /\ leader' \in (IF swept THEN {"gone"} ELSE {"gone", "alive"})
       /\ group' \in (IF swept THEN {FALSE} ELSE {FALSE, group})
  /\ UNCHANGED <<reused, fileVars, record, chain, lost, faults, answerVars>>

Deadline == Terminated("timeout")
AbortTree == run.cancel /\ Terminated("cancelled")

\* The controller aborts the run's signal, or calls cancel() for it.
RequestCancel ==
  /\ run.at \in {"preparing", "starting", "launching", "up"} /\ run.result = "none"
  /\ \E asked \in BOOLEAN :
       run' = [run EXCEPT !.cancel = TRUE, !.asked = run.asked \/ asked]
  /\ UNCHANGED <<record, chain, lost, faults, procVars, answerVars>>

\* cancel() of a live run answers with the termination proof.
CancelAnswers ==
  /\ Owned /\ run.asked /\ run.outcome # "none"
  /\ run' = [run EXCEPT !.asked = FALSE]
  /\ cancelSaid' = IF run.swept \/ run.outcome = "spawn_error" THEN "terminated" ELSE "failed"
  /\ UNCHANGED <<record, chain, collected, recovered, lost, faults, procVars>>

\* classify: a cancelled run is cancelled if its tree is proven gone, else the
\* exit and the result file decide.
Classified ==
  CASE run.cancel -> IF run.swept \/ run.outcome = "spawn_error" THEN "cancelled" ELSE "failed"
    [] ~run.cancel /\ run.outcome = "exited 0" /\ output -> "completed"
    [] OTHER -> "failed"

\* The settled process is classified once; the run leaves the map and its
\* terminal record is queued.
Settle ==
  /\ Owned /\ run.outcome # "none" /\ run.result = "none"
  /\ run' = [run EXCEPT !.result = Classified]
  /\ chain' = Append(chain, "terminal")
  /\ UNCHANGED <<record, lost, faults, procVars, answerVars>>

\* Mutant: collect() returns the cached result.
CollectEarly ==
  /\ At("up") /\ run.result # "none"
  /\ collected' = run.result
  /\ UNCHANGED <<record, run, chain, recovered, cancelSaid, lost, faults, procVars>>

\* collect() resolves after the terminal record was written.
Collect ==
  /\ At("up") /\ run.result # "none" /\ chain = <<>>
  /\ collected = "none"
  /\ collected' = run.result
  /\ UNCHANGED <<record, run, chain, recovered, cancelSaid, lost, faults, procVars>>

-----------------------------------------------------------------------------
(* The controller dies; recovery by the record *)

Crash ==
  /\ ~At("new") /\ ~At("dead")
  /\ Goto("dead")
  /\ chain' = <<>>
  /\ UNCHANGED <<record, lost, faults, procVars, answerVars>>

Reap ==
  /\ leader = "zombie"
  /\ leader' = "gone"
  /\ UNCHANGED <<group, reused, fileVars, record, run, chain, lost, faults, answerVars>>

\* The pid is free once nobody carries it as process or as group.
ReusePid ==
  /\ leader = "gone" /\ ~group /\ ~reused
  /\ reused' = TRUE
  /\ UNCHANGED <<leader, group, fileVars, record, run, chain, lost, faults, answerVars>>

\* The recorded pid names a process that can execute, or any process.
PidAlive == leader = "alive" \/ reused
PidPresent == leader \in {"alive", "zombie"} \/ reused

\* Mutant: an orphan that left a valid result is taken as completed.
ReconciledByResult ==
  CASE record.state = "none" -> "nothing"
    [] record.state \in TerminalStates -> record.state
    [] record.state \in {"starting", "running"} ->
         IF record.pid /\ PidAlive THEN "running"
         ELSE IF output THEN "completed" ELSE "orphaned"

\* reconcile: terminal records stand (a completion needs its result file), a
\* live pid is still running, anything else can never produce a result.
Reconciled ==
  CASE record.state = "none" -> "nothing"
    [] record.state \in {"failed", "cancelled"} -> record.state
    [] record.state = "completed" -> IF output THEN "completed" ELSE "failed"
    [] record.state \in {"starting", "running"} ->
         IF record.pid /\ PidAlive THEN "running" ELSE "orphaned"

Reconcile ==
  /\ At("dead")
  /\ recovered' = Reconciled
  /\ UNCHANGED <<record, run, chain, collected, cancelSaid, lost, faults, procVars>>

\* Mutant: a zombie counts as gone, although its group may live.
NothingToKillZombie == record.state \in TerminalStates \/ (record.pid /\ ~PidAlive)

\* Mutant: a record without a pid counts as proof that nothing runs.
NothingToKillPid0 == record.state \in TerminalStates \/ ~record.pid \/ ~PidPresent

\* The record proves that there is nothing to terminate.
NothingToKill == record.state \in TerminalStates \/ (record.pid /\ ~PidPresent)

\* The live process is provably the recorded one.
IdentityProven == record.pid /\ record.identity /\ ~reused

\* This process has no entry for the run: it settled, was refused, or was started
\* by a controller that died.
NotInMap == At("dead") \/ At("refused") \/ run.result # "none"

\* cancel() by the record: nothing to do, no proof of identity, or the tree is
\* terminated, survivors are reported and the liveness probe has the last word.
\* Proof and signal are one step.
CancelRecovered ==
  /\ NotInMap /\ record.state # "none"
  /\ \/ /\ NothingToKill
        /\ cancelSaid' = "terminated"
        /\ UNCHANGED <<leader, group>>
     \/ /\ ~NothingToKill /\ ~IdentityProven
        /\ cancelSaid' = "failed"
        /\ UNCHANGED <<leader, group>>
     \/ /\ ~NothingToKill /\ IdentityProven
        /\ leader' \in {leader, "zombie"}
        /\ group' \in {FALSE, group}
        /\ cancelSaid' \in (IF leader' = "alive" \/ group' THEN {"failed"}
                           ELSE {"terminated", "failed"})
  /\ UNCHANGED <<reused, fileVars, record, run, chain, collected, recovered, lost, faults>>

Next ==
  \/ Start
  \/ Refuse
  \/ Prepare
  \/ Spawn
  \/ Launched
  \/ WriteState
  \/ WritesResult
  \/ \E status \in {"exited 0", "exited 1", "signalled"} : WorkerExits(status)
  \/ Deadline
  \/ AbortTree
  \/ RequestCancel
  \/ CancelAnswers
  \/ Settle
  \/ Collect
  \/ Crash
  \/ Reap
  \/ ReusePid
  \/ Reconcile
  \/ CancelRecovered

Spec == Init /\ [][Next]_vars

-----------------------------------------------------------------------------
(* Properties *)

\* A terminal record is final: the running record of a worker that settled
\* during its launch never overwrites it (local.ts 996-1016).
SettledRecordIsFinal ==
  [][record.state \in TerminalStates => record' = record]_vars

\* A result the queue has collected is the one a restarted controller finds,
\* unless its record could not be written, or the file of a completed run is no
\* longer the one that was classified: then recovery fails it rather than guess
\* (local.ts 544-551, 642-668).
CollectedAgrees ==
  collected # "none" /\ recovered # "none" =>
    \/ recovered = collected
    \/ lost
    \/ collected = "completed" /\ recovered = "failed" /\ rewritten

\* A restarted controller takes as a success only what the dead one classified as
\* one, whatever result file it finds: of an orphan, of a cancelled or failed run,
\* of a worker that wrote it after its deadline (local.ts 509-519, 642-678).
RecoveryNeverGuesses == recovered = "completed" => run.result = "completed"

\* cancel() says terminated only of a worker that can no longer run, in every
\* phase and after a restart, and never leaves the group of an unreaped one alive
\* behind it; a failed record is taken at its word although the failure may have
\* been that termination was not confirmed (local.ts 723-826).
TerminatedIsGone ==
  cancelSaid = "terminated" =>
    \/ record.state = "failed"
    \/ leader # "alive" /\ ~(leader = "zombie" /\ group)

=============================================================================
