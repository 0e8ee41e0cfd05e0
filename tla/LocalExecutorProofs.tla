------------------------- MODULE LocalExecutorProofs -------------------------
(***************************************************************************)
(* Proofs about LocalExecutor, for every number of failing record writes:  *)
(* a terminal record is final, a restarted controller finds the result     *)
(* that was collected and guesses no success, and "terminated" is true.    *)
(*                                                                         *)
(* The invariant gives the whole content of the write chain at each point  *)
(* of the run (ChainShape), what an outcome says of the worker             *)
(* (OutcomeKnown), and what the three answers rest on (RecordKnown,        *)
(* AnswersKnown).                                                          *)
(***************************************************************************)
EXTENDS LocalExecutor, SequenceTheorems, TLAPS

RunRecord ==
  [at : {"new", "preparing", "refused", "starting", "launching", "up", "dead"},
   cancel : BOOLEAN, asked : BOOLEAN, pid : BOOLEAN, identity : BOOLEAN,
   outcome : {"none", "spawn_error", "exited 0", "exited 1", "signalled", "timeout", "cancelled"},
   swept : BOOLEAN, result : {"none"} \union TerminalStates]

DiskRecord == [state : {"none", "starting", "running"} \union TerminalStates,
               pid : BOOLEAN, identity : BOOLEAN]

Types ==
  /\ run \in RunRecord /\ record \in DiskRecord
  /\ leader \in {"none", "alive", "zombie", "gone"} /\ group \in BOOLEAN
  /\ output \in BOOLEAN /\ rewritten \in BOOLEAN

\* Nobody of the worker's own can run, and nobody but init will reap it.
Over == leader \in {"none", "gone"}

\* What cancel() promises of a worker it calls terminated.
Harmless == leader # "alive" /\ ~(leader = "zombie" /\ group = TRUE)

Unlaunched == {"new", "preparing", "refused", "starting"}

\* Before the launch there is no worker and nothing has happened to it.
BeforeLaunch ==
  /\ run.at \in Unlaunched =>
       leader = "none" /\ run.outcome = "none" /\ run.result = "none" /\ run.swept = FALSE
  /\ run.at \in {"new", "preparing", "refused"} => record.state = "none"

\* The writes that can be queued: each state is queued once, in its order, and
\* the terminal one is the last.
ChainShape ==
  /\ run.at \in {"new", "preparing", "refused", "dead"} => chain = <<>>
  /\ run.at = "starting" => chain \in {<<>>, <<"starting">>}
  /\ run.at = "launching" => chain = (IF run.result = "none" THEN <<>> ELSE <<"terminal">>)
  /\ run.at = "up" =>
       IF run.result = "none" THEN chain \in {<<>>, <<"running">>}
       ELSE chain \in {<<>>, <<"running", "terminal">>, <<"terminal">>}

\* What the outcome and the result say of the worker.
OutcomeKnown ==
  /\ run.outcome \in {"spawn_error", "exited 0"} => Over
  /\ run.swept = TRUE => Over
  /\ run.result # "none" => run.outcome # "none"
  /\ run.result = "completed" => run.outcome = "exited 0" /\ (output = TRUE \/ rewritten = TRUE)
  /\ run.result = "cancelled" => run.swept = TRUE \/ run.outcome = "spawn_error"

\* A terminal record is the run's result and nothing is queued behind it; the
\* end of the chain is its write, unless that failed.
RecordKnown ==
  /\ record.state \in TerminalStates => record.state = run.result /\ chain = <<>>
  /\ run.at = "up" /\ run.result # "none" /\ chain = <<>>
       => record.state = run.result \/ lost = TRUE

\* What collect(), reconcile() and cancel() have answered.
AnswersKnown ==
  /\ collected # "none" =>
       /\ run.at \in {"up", "dead"} /\ chain = <<>>
       /\ collected = run.result
       /\ record.state = run.result \/ lost = TRUE
  /\ recovered # "none" =>
       /\ run.at = "dead"
       /\ record.state \in TerminalStates =>
            \/ recovered = record.state
            \/ record.state = "completed" /\ recovered = "failed" /\ rewritten = TRUE
       /\ recovered = "completed" => run.result = "completed"
  /\ cancelSaid = "terminated" =>
       /\ run.at \notin Unlaunched
       /\ Harmless \/ record.state = "failed"

ExecInv ==
  Types /\ BeforeLaunch /\ ChainShape /\ OutcomeKnown /\ RecordKnown /\ AnswersKnown

-----------------------------------------------------------------------------
(* The initial state and frames *)

\* Nothing has been started.
LEMMA ExecInit == Init => ExecInv
<1> SUFFICES ASSUME Init PROVE ExecInv
  OBVIOUS
<1>1. run \in RunRecord /\ run.at = "new" /\ run.outcome = "none" /\ run.result = "none"
      /\ run.swept = FALSE
  BY DEF Init, NewRun, RunRecord
<1>2. record \in DiskRecord /\ record.state = "none"
  BY DEF Init, DiskRecord
<1>3. QED
  BY <1>1, <1>2 DEF Init, ExecInv, Types, BeforeLaunch, ChainShape, OutcomeKnown, RecordKnown,
                    AnswersKnown, Unlaunched, TerminalStates, Over

\* A step of the run that keeps the worker, the record and the answers.
LEMMA RunMoves ==
  ASSUME NEW point \in {"preparing", "refused", "starting", "dead"}, Types, Goto(point)
  PROVE  /\ run' \in RunRecord /\ run'.at = point /\ run'.outcome = run.outcome
         /\ run'.result = run.result /\ run'.swept = run.swept
BY DEF Types, Goto, RunRecord

-----------------------------------------------------------------------------
(* start() *)

\* The run is prepared, refused, or its first record is queued.
LEMMA PreparingInv == ASSUME ExecInv, Start \/ Refuse \/ Prepare PROVE ExecInv'
<1>0. /\ Types /\ BeforeLaunch /\ ChainShape /\ OutcomeKnown /\ RecordKnown /\ AnswersKnown
  BY DEF ExecInv
<1>1. PICK point \in {"preparing", "refused", "starting"} : Goto(point)
  BY DEF Start, Refuse, Prepare
<1>2. /\ run.at \in {"new", "preparing"} /\ record' = record /\ leader' = leader
      /\ group' = group /\ output' = output /\ rewritten' = rewritten
      /\ lost' = lost /\ collected' = collected /\ recovered' = recovered
      /\ cancelSaid' \in {cancelSaid, "failed"}
  BY DEF Start, Refuse, Prepare, At, procVars, fileVars, answerVars
<1>3. /\ run' \in RunRecord /\ run'.at = point /\ run'.outcome = run.outcome
      /\ run'.result = run.result /\ run'.swept = run.swept
  BY <1>0, <1>1, RunMoves
<1>4. chain = <<>> /\ record.state = "none" /\ run.result = "none"
  BY <1>0, <1>2 DEF BeforeLaunch, ChainShape, Unlaunched
<1>5. chain' = <<>> \/ (chain' = <<"starting">> /\ point = "starting")
  <2>1. CASE Start \/ Refuse
    BY <2>1, <1>4 DEF Start, Refuse
  <2>2. CASE Prepare
    <3>1. run'.at = "starting"
      BY <2>2, <1>0, RunMoves DEF Prepare
    <3>2. chain' = <<"starting">>
      BY <2>2, <1>4 DEF Prepare
    <3>3. QED
      BY <3>1, <3>2, <1>3
  <2>3. QED
    BY <2>1, <2>2
<1>6. Types' /\ BeforeLaunch' /\ ChainShape'
  BY <1>0, <1>2, <1>3, <1>4, <1>5 DEF Types, BeforeLaunch, ChainShape, Unlaunched
<1>7. OutcomeKnown' /\ RecordKnown'
  BY <1>0, <1>2, <1>3, <1>4 DEF OutcomeKnown, Over, RecordKnown, TerminalStates
<1>8. AnswersKnown'
  BY <1>0, <1>2, <1>3, <1>4 DEF AnswersKnown, Harmless, Unlaunched
<1>9. QED
  BY <1>6, <1>7, <1>8 DEF ExecInv

\* The worker is spawned, or the launch failed.
LEMMA SpawnInv == ASSUME ExecInv, Spawn PROVE ExecInv'
<1>0. /\ Types /\ BeforeLaunch /\ ChainShape /\ OutcomeKnown /\ RecordKnown /\ AnswersKnown
  BY DEF ExecInv
<1>1. /\ run.at = "starting" /\ chain = <<>> /\ chain' = chain /\ record' = record
      /\ output' = output /\ rewritten' = rewritten /\ lost' = lost /\ collected' = collected
      /\ recovered' = recovered /\ cancelSaid' = cancelSaid
      /\ \/ leader' = "alive" /\ group' \in BOOLEAN
         \/ leader' = leader /\ group' = group
  BY DEF Spawn, At, fileVars, answerVars
<1>2. run.result = "none" /\ run.outcome = "none" /\ leader = "none" /\ run.swept = FALSE
  BY <1>0, <1>1 DEF BeforeLaunch, Unlaunched
<1>3. /\ run' \in RunRecord /\ run'.at = "launching" /\ run'.result = "none"
      /\ \/ run'.outcome = "none"
         \/ run'.outcome = "spawn_error" /\ leader' = leader
      /\ run'.swept = run.swept
  BY <1>0, <1>2 DEF Spawn, Goto, Types, RunRecord
<1>4. collected = "none" /\ recovered = "none" /\ cancelSaid # "terminated"
  BY <1>0, <1>1 DEF AnswersKnown, Harmless, Unlaunched
<1>5. record.state \notin TerminalStates
  BY <1>0, <1>2 DEF RecordKnown, TerminalStates
<1>6. Types' /\ BeforeLaunch' /\ ChainShape'
  BY <1>0, <1>1, <1>3 DEF Types, BeforeLaunch, ChainShape, Unlaunched
<1>7. OutcomeKnown'
  BY <1>2, <1>3 DEF OutcomeKnown, Over
<1>8. RecordKnown' /\ AnswersKnown'
  BY <1>1, <1>3, <1>4, <1>5 DEF RecordKnown, AnswersKnown, Harmless
<1>9. QED
  BY <1>6, <1>7, <1>8 DEF ExecInv

\* The pid is known: the running record is queued unless the run has settled.
LEMMA LaunchedInv == ASSUME ExecInv, Launched PROVE ExecInv'
<1>0. /\ Types /\ BeforeLaunch /\ ChainShape /\ OutcomeKnown /\ RecordKnown /\ AnswersKnown
  BY DEF ExecInv
<1>1. /\ run.at = "launching" /\ record' = record /\ leader' = leader
      /\ group' = group /\ output' = output /\ rewritten' = rewritten
      /\ lost' = lost /\ collected' = collected
      /\ recovered' = recovered /\ cancelSaid' = cancelSaid
  BY DEF Launched, At, procVars, fileVars, answerVars
<1>2. PICK known \in BOOLEAN, named \in BOOLEAN :
        run' = [run EXCEPT !.at = "up", !.pid = known, !.identity = named]
  <2>1. PICK readable \in BOOLEAN :
          run' = [run EXCEPT !.at = "up", !.pid = (leader # "none"),
                             !.identity = readable /\ leader # "none"]
    BY DEF Launched
  <2>2. (leader # "none") \in BOOLEAN /\ (readable /\ leader # "none") \in BOOLEAN
    OBVIOUS
  <2>3. QED
    BY <2>1, <2>2
<1>3. /\ run' \in RunRecord /\ run'.at = "up" /\ run'.result = run.result
      /\ run'.outcome = run.outcome /\ run'.swept = run.swept
  BY <1>0, <1>2 DEF Types, RunRecord
<1>4. chain = (IF run.result = "none" THEN <<>> ELSE <<"terminal">>)
  BY <1>0, <1>1 DEF ChainShape
<1>5. chain' = chain \/ (run.result = "none" /\ chain' = <<"running">>)
  <2>1. chain' = chain \/ (run.result = "none" /\ chain' = Append(chain, "running"))
    BY ZenonT(30) DEF Launched
  <2>2. Append(<<>>, "running") = <<"running">>
    OBVIOUS
  <2>3. QED
    BY <2>1, <2>2, <1>4
<1>6. collected = "none" /\ recovered = "none"
  BY <1>0, <1>1 DEF AnswersKnown, Harmless
<1>7. Types' /\ BeforeLaunch' /\ ChainShape'
  BY <1>0, <1>1, <1>3, <1>4, <1>5 DEF Types, BeforeLaunch, ChainShape, Unlaunched
<1>8. OutcomeKnown'
  BY <1>0, <1>1, <1>3 DEF OutcomeKnown, Over
<1>9. RecordKnown'
  <2>1. record.state \in TerminalStates => run.result # "none"
    BY <1>0 DEF RecordKnown, TerminalStates
  <2>2. run.result # "none" => chain' # <<>> /\ chain # <<>>
    BY <1>4, <1>5
  <2>3. QED
    BY <2>1, <2>2, <1>0, <1>1, <1>3 DEF RecordKnown
<1>10. AnswersKnown'
  BY <1>0, <1>1, <1>3, <1>6 DEF AnswersKnown, Harmless, Unlaunched
<1>11. QED
  BY <1>7, <1>8, <1>9, <1>10 DEF ExecInv

\* A record that is written has its type.
LEMMA WrittenRecord ==
  ASSUME Types, NEW state \in {"starting", "running"} \union TerminalStates
  PROVE  /\ [state |-> state, pid |-> run.pid, identity |-> run.identity] \in DiskRecord
         /\ [state |-> state, pid |-> run.pid, identity |-> run.identity].state = state
<1>1. run.pid \in BOOLEAN /\ run.identity \in BOOLEAN
  BY DEF Types, RunRecord
<1>2. QED
  BY <1>1 DEF DiskRecord

\* The oldest write of the chain is done, skipped or lost.
LEMMA WriteStateInv ==
  ASSUME ExecInv, WriteState
  PROVE  ExecInv' /\ record.state \notin TerminalStates
<1>0. /\ Types /\ BeforeLaunch /\ ChainShape /\ OutcomeKnown /\ RecordKnown /\ AnswersKnown
  BY DEF ExecInv
<1>1. /\ chain # <<>> /\ run' = run /\ leader' = leader /\ group' = group
      /\ output' = output /\ rewritten' = rewritten
      /\ collected' = collected /\ recovered' = recovered /\ cancelSaid' = cancelSaid
      /\ chain' = Tail(chain)
      /\ Head(chain) = "starting" \/ run.at # "launching"
  BY DEF WriteState, At, procVars, fileVars, answerVars
<1>2. record.state \notin TerminalStates
  BY <1>0, <1>1 DEF RecordKnown
<1>3. collected = "none" /\ recovered = "none"
  BY <1>0, <1>1 DEF AnswersKnown, Harmless, ChainShape
<1>4. \/ /\ Head(chain) # "terminal" /\ run.result # "none"
         /\ record' = record /\ lost' = lost
      \/ /\ Head(chain) = "terminal" \/ run.result = "none"
         /\ record' = [state |-> IF Head(chain) = "terminal" THEN run.result ELSE Head(chain),
                       pid |-> run.pid, identity |-> run.identity]
      \/ /\ record' = record /\ lost' = (lost \/ Head(chain) = "terminal")
         /\ Head(chain) = "terminal" \/ run.result = "none"
  BY DEF WriteState
<1>5. run.at \in {"starting", "up"}
  <2>1. Head(<<"terminal">>) # "starting"
    OBVIOUS
  <2>2. QED
    BY <2>1, <1>0, <1>1 DEF ChainShape, Types, RunRecord
<1>6. CASE run.result = "none"
  <2>1. Head(chain) \in {"starting", "running"} /\ chain' = <<>>
        /\ (Head(chain) = "running" => run.at = "up")
    BY <1>0, <1>1, <1>5, <1>6 DEF ChainShape
  <2>2. record' = record \/ record' = [state |-> Head(chain), pid |-> run.pid,
                                       identity |-> run.identity]
    BY <2>1, <1>4, <1>6
  <2>3. record' \in DiskRecord /\ record'.state \notin TerminalStates
    <3>1. CASE record' = record
      BY <3>1, <1>0, <1>2 DEF Types
    <3>2. CASE record' = [state |-> Head(chain), pid |-> run.pid, identity |-> run.identity]
      BY <3>2, <2>1, WrittenRecord, <1>0 DEF TerminalStates
    <3>3. QED
      BY <2>2, <3>1, <3>2
  <2>4. Types' /\ BeforeLaunch' /\ ChainShape'
    BY <2>1, <2>3, <1>0, <1>1, <1>5, <1>6 DEF Types, BeforeLaunch, ChainShape, Unlaunched
  <2>5. OutcomeKnown' /\ RecordKnown'
    BY <2>3, <1>0, <1>1, <1>6 DEF OutcomeKnown, Over, RecordKnown
  <2>6. AnswersKnown'
    BY <1>0, <1>1, <1>2, <1>3 DEF AnswersKnown, Harmless, TerminalStates
  <2>7. QED
    BY <2>4, <2>5, <2>6, <1>2 DEF ExecInv
<1>7. CASE run.result # "none"
  <2>0. run.at = "up" /\ run.result \in TerminalStates
    BY <1>0, <1>5, <1>7 DEF BeforeLaunch, Unlaunched, Types, RunRecord
  <2>1. CASE chain = <<"running", "terminal">>
    <3>1. Head(chain) = "running" /\ chain' = <<"terminal">>
      BY <2>1, <1>1
    <3>2. record' = record /\ lost' = lost
      BY <3>1, <1>4, <1>7
    <3>3. Types' /\ BeforeLaunch' /\ ChainShape' /\ OutcomeKnown'
      BY <3>1, <3>2, <2>0, <1>0, <1>1, <1>7 DEF Types, BeforeLaunch, ChainShape, OutcomeKnown, Over, Unlaunched
    <3>4. RecordKnown' /\ AnswersKnown'
      BY <3>1, <3>2, <1>0, <1>1, <1>2, <1>3 DEF RecordKnown, AnswersKnown, Harmless
    <3>5. QED
      BY <3>3, <3>4, <1>2 DEF ExecInv
  <2>2. CASE chain = <<"terminal">>
    <3>1. Head(chain) = "terminal" /\ chain' = <<>>
      BY <2>2, <1>1
    <3>2. \/ record' = [state |-> run.result, pid |-> run.pid, identity |-> run.identity]
          \/ record' = record /\ lost' = TRUE
      BY <3>1, <1>4
    <3>3. /\ record' \in DiskRecord
          /\ record'.state \in TerminalStates => record'.state = run.result
          /\ record'.state = run.result \/ lost' = TRUE
      <4>1. CASE record' = [state |-> run.result, pid |-> run.pid, identity |-> run.identity]
        BY <4>1, <2>0, <1>0, WrittenRecord DEF TerminalStates
      <4>2. CASE record' = record /\ lost' = TRUE
        BY <4>2, <1>0, <1>2 DEF Types
      <4>3. QED
        BY <3>2, <4>1, <4>2
    <3>4. Types' /\ BeforeLaunch' /\ ChainShape' /\ OutcomeKnown'
      BY <3>1, <3>3, <2>0, <1>0, <1>1, <1>7 DEF Types, BeforeLaunch, ChainShape, OutcomeKnown, Over, Unlaunched
    <3>5. RecordKnown'
      BY <3>1, <3>3, <1>1 DEF RecordKnown
    <3>6. AnswersKnown'
      BY <1>0, <1>1, <1>2, <1>3 DEF AnswersKnown, Harmless, TerminalStates
    <3>7. QED
      BY <3>4, <3>5, <3>6, <1>2 DEF ExecInv
  <2>3. QED
    BY <2>0, <2>1, <2>2, <1>0, <1>1, <1>7 DEF ChainShape
<1>8. QED
  BY <1>6, <1>7

-----------------------------------------------------------------------------
(* The worker and its end *)

\* The process ends one way or another; a run that has settled keeps its
\* outcome, and a worker that is not alive does not come back.
LEMMA WorkerEnds ==
  ASSUME ExecInv, run' \in RunRecord, run'.at = run.at, run'.result = run.result,
         UNCHANGED <<record, chain, lost, fileVars, answerVars>>,
         leader = "alive", leader' \in {"alive", "zombie", "gone"}, group' \in BOOLEAN,
         run.at \notin Unlaunched, OutcomeKnown'
  PROVE  ExecInv'
<1>0. /\ Types /\ BeforeLaunch /\ ChainShape /\ RecordKnown /\ AnswersKnown
  BY DEF ExecInv
<1>1. Types' /\ BeforeLaunch' /\ ChainShape' /\ RecordKnown'
  BY <1>0 DEF fileVars, Types, BeforeLaunch, ChainShape, RecordKnown, Unlaunched
<1>2. AnswersKnown'
  BY <1>0 DEF AnswersKnown, Harmless, fileVars, answerVars
<1>3. QED
  BY <1>1, <1>2 DEF ExecInv

\* The worker exits by itself.
LEMMA WorkerExitsInv ==
  ASSUME ExecInv, NEW status \in {"exited 0", "exited 1", "signalled"}, WorkerExits(status)
  PROVE  ExecInv'
<1>0. Types /\ BeforeLaunch /\ OutcomeKnown
  BY DEF ExecInv
<1>1. /\ leader = "alive" /\ leader' \in {"gone", "zombie"} /\ group' \in {FALSE, group}
      /\ UNCHANGED <<record, chain, lost, fileVars, answerVars>>
      /\ run.at \in {"launching", "up"} => leader' = "gone"
      /\ run.at \notin {"launching", "up"} => run' = run
  BY DEF WorkerExits, Owned, At
<1>2. run.at \notin Unlaunched
  BY <1>0, <1>1 DEF BeforeLaunch
<1>3. run' = run \/ (run.outcome = "none" /\ run' = [run EXCEPT !.outcome = status])
  BY DEF WorkerExits
<1>4. /\ run' \in RunRecord /\ run'.at = run.at /\ run'.result = run.result
      /\ run'.swept = run.swept
      /\ run'.outcome = run.outcome \/ (run.outcome = "none" /\ leader' = "gone")
  BY <1>0, <1>1, <1>3 DEF Types, RunRecord
<1>5. OutcomeKnown'
  BY <1>0, <1>1, <1>4 DEF OutcomeKnown, Over, fileVars
<1>6. group' \in BOOLEAN
  BY <1>0, <1>1 DEF Types
<1>7. QED
  BY <1>1, <1>2, <1>4, <1>5, <1>6, WorkerEnds

\* The result file changes: a run that has settled was classified by another one.
LEMMA WritesResultInv == ASSUME ExecInv, WritesResult PROVE ExecInv'
<1>0. /\ Types /\ BeforeLaunch /\ ChainShape /\ OutcomeKnown /\ RecordKnown /\ AnswersKnown
  BY DEF ExecInv
<1>1. /\ UNCHANGED <<record, run, chain, lost, leader, group, answerVars>>
      /\ output' = ~output
      /\ rewritten' = (rewritten \/ run.result # "none")
  BY DEF WritesResult
<1>2. /\ output' \in BOOLEAN /\ rewritten' \in BOOLEAN
      /\ rewritten = TRUE \/ run.result # "none" => rewritten' = TRUE
  BY <1>0, <1>1 DEF Types
<1>3. Types' /\ BeforeLaunch' /\ ChainShape' /\ RecordKnown'
  BY <1>0, <1>1, <1>2 DEF Types, BeforeLaunch, ChainShape, RecordKnown
<1>4. OutcomeKnown'
  BY <1>0, <1>1, <1>2 DEF OutcomeKnown, Over
<1>5. AnswersKnown'
  BY <1>0, <1>1, <1>2 DEF AnswersKnown, Harmless, answerVars
<1>6. QED
  BY <1>3, <1>4, <1>5 DEF ExecInv

\* The runtime terminates the tree: a proof means that the worker is gone.
LEMMA TerminatedInv ==
  ASSUME ExecInv, NEW status \in {"timeout", "cancelled"}, Terminated(status)
  PROVE  ExecInv'
<1>0. Types /\ BeforeLaunch /\ OutcomeKnown
  BY DEF ExecInv
<1>1. /\ leader = "alive" /\ run.outcome = "none"
      /\ UNCHANGED <<record, chain, lost, fileVars, answerVars>>
  BY DEF Terminated
<1>2. run.at \notin Unlaunched
  BY <1>0, <1>1 DEF BeforeLaunch
<1>3. PICK swept \in BOOLEAN :
        /\ run' = [run EXCEPT !.outcome = status, !.swept = swept]
        /\ leader' \in (IF swept THEN {"gone"} ELSE {"gone", "alive"})
        /\ group' \in (IF swept THEN {FALSE} ELSE {FALSE, group})
  BY DEF Terminated
<1>4. /\ run' \in RunRecord /\ run'.at = run.at /\ run'.result = run.result
      /\ run'.swept = swept /\ run'.outcome = status
  BY <1>0, <1>3 DEF Types, RunRecord
<1>5. run.result = "none"
  BY <1>0, <1>1 DEF OutcomeKnown, Over
<1>6. OutcomeKnown'
  BY <1>3, <1>4, <1>5 DEF OutcomeKnown, Over
<1>7. leader' \in {"alive", "zombie", "gone"} /\ group' \in BOOLEAN
  BY <1>0, <1>3 DEF Types
<1>8. QED
  BY <1>1, <1>2, <1>4, <1>6, <1>7, WorkerEnds

\* A request to cancel changes flags only.
LEMMA RequestCancelInv == ASSUME ExecInv, RequestCancel PROVE ExecInv'
<1>0. /\ Types /\ BeforeLaunch /\ ChainShape /\ OutcomeKnown /\ RecordKnown /\ AnswersKnown
  BY DEF ExecInv
<1>1. UNCHANGED <<record, chain, lost, leader, group, output, rewritten, answerVars>>
  BY DEF RequestCancel, procVars, fileVars
<1>2. PICK b \in BOOLEAN, c \in BOOLEAN : run' = [run EXCEPT !.cancel = b, !.asked = c]
  BY <1>0 DEF RequestCancel, Types, RunRecord
<1>3. /\ run' \in RunRecord /\ run'.at = run.at /\ run'.result = run.result
      /\ run'.swept = run.swept /\ run'.outcome = run.outcome
  BY <1>0, <1>2 DEF Types, RunRecord
<1>4. Types' /\ BeforeLaunch' /\ ChainShape' /\ OutcomeKnown'
  <2>1. Types' /\ BeforeLaunch' /\ ChainShape'
    BY <1>0, <1>1, <1>3 DEF Types, BeforeLaunch, ChainShape
  <2>2. OutcomeKnown'
    BY <1>0, <1>1, <1>3 DEF OutcomeKnown, Over
  <2>3. QED
    BY <2>1, <2>2
<1>5. RecordKnown' /\ AnswersKnown'
  BY <1>0, <1>1, <1>3 DEF RecordKnown, AnswersKnown, Harmless, answerVars
<1>6. QED
  BY <1>4, <1>5 DEF ExecInv

\* cancel() of a live run says terminated with a proof, or if nothing ran.
LEMMA CancelAnswersInv == ASSUME ExecInv, CancelAnswers PROVE ExecInv'
<1>0. /\ Types /\ BeforeLaunch /\ ChainShape /\ OutcomeKnown /\ RecordKnown /\ AnswersKnown
  BY DEF ExecInv
<1>1. /\ UNCHANGED <<record, chain, lost, leader, group, output, rewritten, collected, recovered>>
      /\ run.at \in {"launching", "up"}
  BY DEF CancelAnswers, procVars, fileVars, Owned, At
<1>2. PICK b \in BOOLEAN : run' = [run EXCEPT !.asked = b]
  BY DEF CancelAnswers
<1>3. /\ run' \in RunRecord /\ run'.at = run.at /\ run'.result = run.result
      /\ run'.swept = run.swept /\ run'.outcome = run.outcome
  BY <1>0, <1>2 DEF Types, RunRecord
<1>4. cancelSaid' = "terminated" => run.swept = TRUE \/ run.outcome = "spawn_error"
  BY <1>0 DEF CancelAnswers, Types, RunRecord
<1>5. Types' /\ BeforeLaunch' /\ ChainShape' /\ OutcomeKnown'
  BY <1>0, <1>1, <1>3 DEF Types, BeforeLaunch, ChainShape, OutcomeKnown, Over
<1>6. cancelSaid' = "terminated" => Harmless'
  BY <1>0, <1>1, <1>4 DEF OutcomeKnown, Over, Harmless
<1>7. RecordKnown' /\ AnswersKnown'
  BY <1>0, <1>1, <1>3, <1>6 DEF RecordKnown, AnswersKnown, Harmless, Unlaunched
<1>8. QED
  BY <1>5, <1>7 DEF ExecInv

\* A second element makes a pair.
LEMMA AppendSecond == \A a, b : Append(<<>>, b) = <<b>> /\ Append(<<a>>, b) = <<a, b>>
<1> TAKE a, b
<1> DEFINE S == {a, b}
<1>1. <<a>> \in Seq(S) /\ <<a, b>> \in Seq(S)
  OBVIOUS
<1>2. PICK s \in Seq(S) : s = <<a>>
  BY <1>1
<1>3. PICK t \in Seq(S) : t = <<a, b>>
  BY <1>1
<1>4. /\ Append(s, b) \in Seq(S) /\ Len(Append(s, b)) = 2
      /\ Append(s, b)[1] = a /\ Append(s, b)[2] = b
  BY <1>2
<1>5. Len(t) = 2 /\ t[1] = a /\ t[2] = b
  BY <1>3
<1>6. \A i \in 1 .. Len(t) : t[i] = Append(s, b)[i]
  BY <1>4, <1>5
<1>7. t = Append(s, b)
  BY <1>4, <1>5, <1>6, SeqEqual
<1>8. Append(<<>>, b) = <<b>>
  OBVIOUS
<1>9. QED
  BY <1>2, <1>3, <1>7, <1>8

\* The result is decided once, and its record queued last.
LEMMA SettleInv == ASSUME ExecInv, Settle PROVE ExecInv'
<1>0. /\ Types /\ BeforeLaunch /\ ChainShape /\ OutcomeKnown /\ RecordKnown /\ AnswersKnown
  BY DEF ExecInv
<1>1. /\ UNCHANGED <<record, lost, leader, group, output, rewritten, answerVars>>
      /\ run.at \in {"launching", "up"} /\ run.outcome # "none" /\ run.result = "none"
      /\ run' = [run EXCEPT !.result = Classified]
  BY DEF Settle, procVars, fileVars, Owned, At
<1>2. /\ Classified \in TerminalStates
      /\ Classified = "completed" =>
           run.outcome = "exited 0" /\ (output = TRUE \/ rewritten = TRUE)
      /\ Classified = "cancelled" => run.swept = TRUE \/ run.outcome = "spawn_error"
  <2>1. output \in BOOLEAN /\ run.cancel \in BOOLEAN /\ run.swept \in BOOLEAN
    BY <1>0 DEF Types, RunRecord
  <2>2. CASE run.cancel
    BY <2>1, <2>2 DEF Classified, TerminalStates
  <2>3. CASE ~run.cancel
    BY <2>1, <2>3 DEF Classified, TerminalStates
  <2>4. QED
    BY <2>1, <2>2, <2>3
<1>3. /\ run' \in RunRecord /\ run'.at = run.at /\ run'.result = Classified
      /\ run'.swept = run.swept /\ run'.outcome = run.outcome
  BY <1>0, <1>1, <1>2 DEF Types, RunRecord
<1>4. Classified # "none"
  BY <1>2 DEF TerminalStates
<1>5. \/ run.at = "launching" /\ chain' = <<"terminal">>
      \/ run.at = "up" /\ chain' \in {<<"terminal">>, <<"running", "terminal">>}
  <2>1. chain' = Append(chain, "terminal")
    BY DEF Settle
  <2>2. CASE run.at = "launching"
    <3>1. chain = <<>>
      BY <2>2, <1>0, <1>1 DEF ChainShape
    <3>2. QED
      BY <3>1, <2>1, <2>2
  <2>3. CASE run.at = "up"
    <3>1. chain \in {<<>>, <<"running">>}
      BY <2>3, <1>0, <1>1 DEF ChainShape
    <3>2. /\ Append(<<>>, "terminal") = <<"terminal">>
          /\ Append(<<"running">>, "terminal") = <<"running", "terminal">>
      BY AppendSecond
    <3>3. QED
      BY <3>1, <3>2, <2>1, <2>3
  <2>4. QED
    BY <2>2, <2>3, <1>1
<1>6. chain' # <<>>
  BY <1>5
<1>7. Types' /\ BeforeLaunch' /\ ChainShape'
  BY <1>0, <1>1, <1>3, <1>4, <1>5 DEF Types, BeforeLaunch, ChainShape, Unlaunched
<1>8. OutcomeKnown'
  BY <1>0, <1>1, <1>2, <1>3 DEF OutcomeKnown, Over
<1>9. record.state \notin TerminalStates /\ collected = "none" /\ recovered = "none"
  <2>1. record.state \notin TerminalStates
    BY <1>0, <1>1 DEF RecordKnown, TerminalStates
  <2>2. recovered = "none"
    BY <1>0, <1>1 DEF AnswersKnown, Harmless
  <2>3. collected # "none" => collected = "none"
    BY <1>0, <1>1 DEF AnswersKnown, Harmless
  <2>4. QED
    BY <2>1, <2>2, <2>3
<1>10. RecordKnown' /\ AnswersKnown'
  BY <1>0, <1>1, <1>3, <1>6, <1>9 DEF RecordKnown, AnswersKnown, Harmless, answerVars
<1>11. QED
  BY <1>7, <1>8, <1>10 DEF ExecInv

\* collect() answers once the terminal record is written or lost.
LEMMA CollectInv == ASSUME ExecInv, Collect PROVE ExecInv'
<1>0. /\ Types /\ BeforeLaunch /\ ChainShape /\ OutcomeKnown /\ RecordKnown /\ AnswersKnown
  BY DEF ExecInv
<1>1. /\ UNCHANGED <<record, run, chain, recovered, cancelSaid, lost, leader, group, output, rewritten>>
      /\ run.at = "up" /\ run.result # "none" /\ chain = <<>> /\ collected' = run.result
  BY DEF Collect, procVars, fileVars, At
<1>2. Types' /\ BeforeLaunch' /\ ChainShape' /\ OutcomeKnown' /\ RecordKnown'
  BY <1>0, <1>1 DEF Types, BeforeLaunch, ChainShape, OutcomeKnown, Over, RecordKnown
<1>3. record.state = run.result \/ lost = TRUE
  BY <1>0, <1>1 DEF RecordKnown
<1>4. AnswersKnown'
  BY <1>0, <1>1, <1>3 DEF AnswersKnown, Harmless
<1>5. QED
  BY <1>2, <1>4 DEF ExecInv

-----------------------------------------------------------------------------
(* The controller dies; recovery *)

\* The writes that were queued are gone; what collect() saw was written.
LEMMA CrashInv == ASSUME ExecInv, Crash PROVE ExecInv'
<1>0. /\ Types /\ BeforeLaunch /\ ChainShape /\ OutcomeKnown /\ RecordKnown /\ AnswersKnown
  BY DEF ExecInv
<1>1. /\ UNCHANGED <<record, lost, leader, group, output, rewritten, answerVars>>
      /\ chain' = <<>> /\ run.at # "dead" /\ Goto("dead")
  BY DEF Crash, procVars, fileVars, At
<1>2. /\ run' \in RunRecord /\ run'.at = "dead" /\ run'.outcome = run.outcome
      /\ run'.result = run.result /\ run'.swept = run.swept
  BY <1>0, <1>1, RunMoves
<1>3. Types' /\ BeforeLaunch' /\ ChainShape' /\ OutcomeKnown' /\ RecordKnown'
  BY <1>0, <1>1, <1>2 DEF Types, BeforeLaunch, ChainShape, OutcomeKnown, Over, RecordKnown, Unlaunched
<1>4. AnswersKnown'
  BY <1>0, <1>1, <1>2 DEF AnswersKnown, Harmless, answerVars, Unlaunched
<1>5. QED
  BY <1>3, <1>4 DEF ExecInv

\* A reaped or reused pid does not revive the worker; a stutter does nothing.
LEMMA QuietInv == ASSUME ExecInv, Reap \/ ReusePid \/ UNCHANGED vars PROVE ExecInv'
<1>0. /\ Types /\ BeforeLaunch /\ ChainShape /\ OutcomeKnown /\ RecordKnown /\ AnswersKnown
  BY DEF ExecInv
<1>1. /\ UNCHANGED <<record, run, chain, lost, group, output, rewritten, answerVars>>
      /\ leader' = leader \/ (leader = "zombie" /\ leader' = "gone")
  BY DEF Reap, ReusePid, vars, fileVars, answerVars
<1>2. Types' /\ BeforeLaunch' /\ ChainShape' /\ RecordKnown'
  BY <1>0, <1>1 DEF Types, BeforeLaunch, ChainShape, RecordKnown, Unlaunched
<1>3. OutcomeKnown' /\ AnswersKnown'
  BY <1>0, <1>1 DEF OutcomeKnown, Over, AnswersKnown, Harmless, answerVars
<1>4. QED
  BY <1>2, <1>3 DEF ExecInv

\* reconcile() repeats a terminal record, or fails a completion whose result is
\* gone, and completes nothing else.
LEMMA ReconcileInv == ASSUME ExecInv, Reconcile PROVE ExecInv'
<1>0. /\ Types /\ BeforeLaunch /\ ChainShape /\ OutcomeKnown /\ RecordKnown /\ AnswersKnown
  BY DEF ExecInv
<1>1. /\ UNCHANGED <<record, run, chain, collected, cancelSaid, lost, leader, group, output,
                     rewritten>>
      /\ run.at = "dead" /\ recovered' = Reconciled
  BY DEF Reconcile, procVars, fileVars, At
<1>2. record.state = "completed" => output = TRUE \/ rewritten = TRUE
  BY <1>0 DEF RecordKnown, OutcomeKnown, TerminalStates
<1>3. record.state \in TerminalStates =>
        \/ Reconciled = record.state
        \/ record.state = "completed" /\ Reconciled = "failed" /\ rewritten = TRUE
  <2>1. CASE record.state = "completed"
    BY <2>1, <1>2 DEF Reconciled
  <2>2. CASE record.state \in {"failed", "cancelled"}
    BY <2>2 DEF Reconciled
  <2>3. QED
    BY <2>1, <2>2 DEF TerminalStates
<1>4. Reconciled = "completed" => run.result = "completed"
  <2>1. record.state \in {"none", "starting", "running"} \union TerminalStates
    BY <1>0 DEF Types, DiskRecord
  <2>2. CASE record.state \in TerminalStates
    BY <2>2, <1>0, <1>3 DEF RecordKnown
  <2>3. CASE record.state = "none"
    BY <2>3 DEF Reconciled
  <2>4. CASE record.state \in {"starting", "running"}
    BY <2>4 DEF Reconciled
  <2>5. QED
    BY <2>1, <2>2, <2>3, <2>4
<1>5. Types' /\ BeforeLaunch' /\ ChainShape' /\ OutcomeKnown' /\ RecordKnown'
  BY <1>0, <1>1 DEF Types, BeforeLaunch, ChainShape, OutcomeKnown, Over, RecordKnown
<1>6. AnswersKnown'
  BY <1>0, <1>1, <1>3, <1>4 DEF AnswersKnown, Harmless
<1>7. QED
  BY <1>5, <1>6 DEF ExecInv

\* cancel() by the record says terminated of a worker that cannot run, with its
\* group while init has not reaped it, or on the word of a failed record.
LEMMA CancelRecoveredInv == ASSUME ExecInv, CancelRecovered PROVE ExecInv'
<1>0. /\ Types /\ BeforeLaunch /\ ChainShape /\ OutcomeKnown /\ RecordKnown /\ AnswersKnown
  BY DEF ExecInv
<1>1. /\ UNCHANGED <<record, run, chain, collected, recovered, lost, output, rewritten>>
      /\ NotInMap /\ record.state # "none"
  BY DEF CancelRecovered, fileVars
<1>2. run.at \notin Unlaunched
  BY <1>0, <1>1 DEF NotInMap, At, BeforeLaunch, Unlaunched
<1>3. NothingToKill => Harmless \/ record.state = "failed"
  <2>1. record.state \in {"completed", "cancelled"} => Over
    BY <1>0 DEF RecordKnown, OutcomeKnown, TerminalStates
  <2>2. Over => Harmless
    BY DEF Over, Harmless
  <2>3. ~PidPresent => Harmless
    BY DEF PidPresent, Harmless
  <2>4. QED
    BY <2>1, <2>2, <2>3 DEF NothingToKill, TerminalStates
<1>4. /\ cancelSaid' = "terminated" => Harmless' \/ record.state = "failed"
      /\ \/ leader' = leader /\ group' = group
         \/ /\ leader \in {"alive", "zombie"} /\ leader' \in {leader, "zombie"}
            /\ group' \in {FALSE, group}
  <2>1. CASE NothingToKill /\ cancelSaid' = "terminated" /\ UNCHANGED <<leader, group>>
    BY <2>1, <1>3 DEF Harmless
  <2>2. CASE cancelSaid' = "failed" /\ UNCHANGED <<leader, group>>
    BY <2>2
  <2>3. CASE /\ ~NothingToKill /\ IdentityProven
             /\ leader' \in {leader, "zombie"}
             /\ group' \in {FALSE, group}
             /\ cancelSaid' \in (IF leader' = "alive" \/ group' THEN {"failed"}
                                 ELSE {"terminated", "failed"})
    <3>1. leader \in {"alive", "zombie"}
      BY <2>3 DEF NothingToKill, IdentityProven, PidPresent
    <3>2. cancelSaid' = "terminated" => leader' # "alive" /\ group' # TRUE
      BY <2>3
    <3>3. QED
      BY <2>3, <3>1, <3>2 DEF Harmless
  <2>4. QED
    BY <2>1, <2>2, <2>3 DEF CancelRecovered
<1>5. Types' /\ BeforeLaunch' /\ ChainShape' /\ OutcomeKnown' /\ RecordKnown'
  <2>1. Types' /\ BeforeLaunch' /\ ChainShape' /\ RecordKnown'
    BY <1>0, <1>1, <1>2, <1>4 DEF Types, BeforeLaunch, ChainShape, RecordKnown
  <2>2. OutcomeKnown'
    BY <1>0, <1>1, <1>4 DEF OutcomeKnown, Over
  <2>3. QED
    BY <2>1, <2>2
<1>6. Harmless => Harmless'
  BY <1>0, <1>4 DEF Harmless, Types
<1>7. cancelSaid' \in {"terminated", "failed"}
  BY DEF CancelRecovered
<1>8. AnswersKnown'
  BY <1>0, <1>1, <1>2, <1>4 DEF AnswersKnown
<1>9. QED
  BY <1>5, <1>8 DEF ExecInv

\* Every step of controller, worker and recovery preserves the invariant.
LEMMA ExecStep == ExecInv /\ [Next]_vars => ExecInv'
BY PreparingInv, SpawnInv, LaunchedInv, WriteStateInv, WritesResultInv, WorkerExitsInv,
   TerminatedInv, RequestCancelInv, CancelAnswersInv, SettleInv, CollectInv, CrashInv, QuietInv, ReconcileInv,
   CancelRecoveredInv DEF Next, Deadline, AbortTree

-----------------------------------------------------------------------------
(* The theorems *)

\* The strengthened invariant of the local executor.
THEOREM ExecutorInvariant == Spec => []ExecInv
BY ExecInit, ExecStep, PTL DEF Spec

\* A result that was collected is the one a restarted controller finds, unless
\* its record could not be written or its result file was changed since.
THEOREM CollectedIsRecovered == Spec => []CollectedAgrees
<1>1. ExecInv => CollectedAgrees
  BY DEF ExecInv, AnswersKnown, Harmless, CollectedAgrees, Types, RunRecord
<1>2. QED
  BY <1>1, ExecutorInvariant, PTL

\* A restarted controller calls completed only what was classified as completed,
\* whatever result file the worker or what it left behind has made.
THEOREM NoSuccessIsGuessed == Spec => []RecoveryNeverGuesses
<1>1. ExecInv => RecoveryNeverGuesses
  BY DEF ExecInv, AnswersKnown, RecoveryNeverGuesses
<1>2. QED
  BY <1>1, ExecutorInvariant, PTL

\* A cancel that says terminated is right, but for the word of a failed record.
THEOREM TerminatedIsTrue == Spec => []TerminatedIsGone
<1>1. ExecInv => TerminatedIsGone
  BY DEF ExecInv, AnswersKnown, Harmless, Types, TerminatedIsGone
<1>2. QED
  BY <1>1, ExecutorInvariant, PTL

\* No write, whatever its order, changes a terminal record.
THEOREM TerminalRecordStays == Spec => SettledRecordIsFinal
<1>1. ExecInv /\ [Next]_vars => [record.state \in TerminalStates => record' = record]_vars
  <2> SUFFICES ASSUME ExecInv, Next, record.state \in TerminalStates PROVE record' = record
    OBVIOUS
  <2>1. ~WriteState
    BY WriteStateInv
  <2>2. QED
    BY <2>1 DEF Next, Start, Refuse, Prepare, Spawn, Launched, WritesResult, WorkerExits, Deadline, AbortTree,
                Terminated, RequestCancel, CancelAnswers, Settle, Collect, Crash, Reap, ReusePid,
                Reconcile, CancelRecovered
<1>2. QED
  BY <1>1, ExecutorInvariant, PTL DEF Spec, SettledRecordIsFinal
=============================================================================
