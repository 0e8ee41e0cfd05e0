------------------------------ MODULE Governor ------------------------------
(***************************************************************************)
(* The inference governor of one run (src/model/governor.ts): at most      *)
(* MaxConcurrent model requests on the wire, the rest wait in an array.    *)
(* A waiter leaves it when a settled request hands its slot on (pump), by  *)
(* its abort signal or by its deadline timer.  JavaScript runs each of     *)
(* these to completion, so each is one action; a deadline may pass some    *)
(* time before the timer's callback runs.  Telemetry is left out, and so   *)
(* is the disabled governor, which runs every task at once.                *)
(***************************************************************************)
EXTENDS Integers, FiniteSets, Sequences

CONSTANTS
  Request,        \* requests offered for admission
  MaxConcurrent,  \* the cap of an enabled governor
  Priority,       \* priority class of a request; smaller is more urgent
  WithSignal,     \* requests with an AbortSignal
  WithDeadline    \* requests with a deadlineMs

ASSUME GovernorAssumption ==
  /\ MaxConcurrent \in Nat \ {0}
  /\ Priority \in [Request -> Nat]
  /\ WithSignal \subseteq Request
  /\ WithDeadline \subseteq Request

VARIABLES
  status,   \* where a request is
  queue,    \* the waiters, in the order of their seq
  expired,  \* waiters whose deadline has passed
  aborted,  \* requests whose signal is aborted
  met       \* history: a pump has met an expired waiter

vars == <<status, queue, expired, aborted, met>>

-----------------------------------------------------------------------------

Answered == {"settled", "cancelled"}

Running == {r \in Request : status[r] = "running"}

Init ==
  /\ status = [r \in Request |-> "new"]
  /\ queue = <<>>
  /\ expired = {}
  /\ aborted = {}
  /\ met = FALSE

\* Mutant: the cap is compared with <=.
AdmitOneMore(r) ==
  /\ status[r] = "new" /\ r \notin aborted
  /\ \/ /\ Cardinality(Running) <= MaxConcurrent
        /\ status' = [status EXCEPT ![r] = "running"]
        /\ UNCHANGED queue
     \/ /\ Cardinality(Running) > MaxConcurrent
        /\ status' = [status EXCEPT ![r] = "waiting"]
        /\ queue' = Append(queue, r)
  /\ UNCHANGED <<expired, aborted, met>>

\* admit: refuse an aborted signal, take a free slot, or wait.
Admit(r) ==
  /\ status[r] = "new"
  /\ \/ /\ r \in aborted
        /\ status' = [status EXCEPT ![r] = "cancelled"]
        /\ UNCHANGED queue
     \/ /\ r \notin aborted /\ Cardinality(Running) < MaxConcurrent
        /\ status' = [status EXCEPT ![r] = "running"]
        /\ UNCHANGED queue
     \/ /\ r \notin aborted /\ Cardinality(Running) >= MaxConcurrent
        /\ status' = [status EXCEPT ![r] = "waiting"]
        /\ queue' = Append(queue, r)
  /\ UNCHANGED <<expired, aborted, met>>

\* The array with the positions S spliced out.
Without(q, S) ==
  LET keep[n \in 0..Len(q)] ==
        IF n = 0 THEN <<>>
        ELSE IF n \in S THEN keep[n - 1] ELSE Append(keep[n - 1], q[n])
  IN  keep[Len(q)]

IndexOf(r) == {p \in 1..Len(queue) : queue[p] = r}

\* cancel: a no-op for a request that does not wait.
Cancel(r) ==
  IF status[r] = "waiting"
  THEN /\ status' = [status EXCEPT ![r] = "cancelled"]
       /\ queue' = Without(queue, IndexOf(r))
       /\ expired' = expired \ {r}
  ELSE UNCHANGED <<status, queue, expired>>

\* The caller's signal aborts; a dispatched request is left to its transport.
Abort(r) ==
  /\ r \in WithSignal \ aborted
  /\ aborted' = aborted \union {r}
  /\ Cancel(r)
  /\ UNCHANGED met

\* Time passes a waiter's deadline.
Lapse(r) ==
  /\ status[r] = "waiting" /\ r \in WithDeadline \ expired
  /\ expired' = expired \union {r}
  /\ UNCHANGED <<status, queue, aborted, met>>

\* Mutant: the timer of a dispatched waiter is not cleared.
TimerFiresLate(r) ==
  /\ r \in WithDeadline /\ status[r] \in {"waiting", "running"}
  /\ status' = [status EXCEPT ![r] = "cancelled"]
  /\ queue' = Without(queue, IndexOf(r))
  /\ expired' = expired \ {r}
  /\ UNCHANGED <<aborted, met>>

\* The callback of a deadline timer.
TimerFires(r) ==
  /\ status[r] = "waiting" /\ r \in expired
  /\ Cancel(r)
  /\ UNCHANGED <<aborted, met>>

-----------------------------------------------------------------------------
(* pump *)

\* The positions "for (const waiter of this.queue)" visits while cancel splices
\* the array: the waiter behind a cancelled one moves into its place, and the
\* iterator goes past it.
Visited(q) ==
  LET visited[p \in 1..Len(q)] == p = 1 \/ ~(visited[p - 1] /\ q[p - 1] \in expired)
  IN  {p \in 1..Len(q) : visited[p]}

\* Mutant: the class of a waiter does not count.
BestOfFifo(q, S) == CHOOSE p \in S : \A o \in S : p <= o

\* The most urgent of the positions S, first come first served in a class.
BestOf(q, S) ==
  CHOOSE p \in S : \A o \in S :
    \/ Priority[q[p]] < Priority[q[o]]
    \/ Priority[q[p]] = Priority[q[o]] /\ p <= o

\* One pass of the loop over [queue, started, cancelled, more]: cancel the
\* expired waiters it visits, start the best other one it visits, or break.
PumpPass(s) ==
  LET visited == Visited(s.queue)
      late == {p \in visited : s.queue[p] \in expired}
      cancelled == s.cancelled \union {s.queue[p] : p \in late}
      live == visited \ late
      best == BestOf(s.queue, live)
  IN  IF ~s.more \/ s.queue = <<>> \/ Cardinality(s.running) >= MaxConcurrent THEN s
      ELSE IF live = {}
      THEN [s EXCEPT !.queue = Without(s.queue, late), !.cancelled = cancelled, !.more = FALSE]
      ELSE [s EXCEPT !.queue = Without(s.queue, late \union {best}),
                     !.cancelled = cancelled,
                     !.running = s.running \union {s.queue[best]}]

\* The loop starts at most MaxConcurrent waiters.
Pump(running) ==
  LET pass[n \in 0..MaxConcurrent] ==
        IF n = 0 THEN [queue |-> queue, running |-> running, cancelled |-> {}, more |-> TRUE]
        ELSE PumpPass(pass[n - 1])
  IN  pass[MaxConcurrent]

\* Mutant: a settlement frees the slot and offers it to nobody.
SettleOnly(r) ==
  /\ status[r] = "running"
  /\ status' = [status EXCEPT ![r] = "settled"]
  /\ UNCHANGED <<queue, expired, aborted, met>>

\* A task settles, whatever its outcome: release the slot, then pump.
Settle(r) ==
  /\ status[r] = "running"
  /\ \E s \in {Pump(Running \ {r})} :
         /\ status' = [q \in Request |->
                         IF q = r THEN "settled"
                         ELSE IF q \in s.running THEN "running"
                         ELSE IF q \in s.cancelled THEN "cancelled"
                         ELSE status[q]]
         /\ queue' = s.queue
         /\ expired' = expired \ (s.cancelled \union s.running)
         /\ met' = (met \/ s.cancelled # {})
  /\ UNCHANGED aborted

-----------------------------------------------------------------------------

Next ==
  \E r \in Request : \/ Admit(r)
                     \/ Abort(r)
                     \/ Lapse(r)
                     \/ TimerFires(r)
                     \/ Settle(r)

\* Every task settles (the transport has its own timeouts) and timers fire.
Fairness ==
  \A r \in Request : /\ WF_vars(Settle(r))
                     /\ WF_vars(Lapse(r))
                     /\ WF_vars(TimerFires(r))

Spec == Init /\ [][Next]_vars
FairSpec == Spec /\ Fairness

-----------------------------------------------------------------------------
(* Properties *)

\* The array holds exactly the waiters, each once, and however admissions,
\* pumps, timers and aborts interleave no more than the cap is on the wire
\* (governor.ts 174, 246-269, 278).
GovTypeOK ==
  /\ status \in [Request -> {"new", "waiting", "running"} \union Answered]
  /\ queue \in Seq(Request)
  /\ {queue[p] : p \in 1..Len(queue)} = {r \in Request : status[r] = "waiting"}
  /\ \A p, o \in 1..Len(queue) : queue[p] = queue[o] => p = o
  /\ expired \subseteq {r \in WithDeadline : status[r] = "waiting"}
  /\ aborted \subseteq WithSignal
  /\ met \in BOOLEAN
  /\ Cardinality(Running) <= MaxConcurrent

\* A request leaves admission once: one that is dispatched is never cancelled by
\* a late timer or signal, a cancelled one is never dispatched (governor.ts
\* 138-141, 224, 289-293).
OutcomeIsFinal ==
  [][\A r \in Request :
       /\ status[r] \in Answered => status'[r] = status[r]
       /\ status[r] = "running" => status'[r] # "cancelled"]_vars

\* While no pump has met an expired waiter, a slot goes to the most urgent
\* waiter and, within a class, to the one that waited longest (governor.ts
\* 271-288).
PriorityRespected ==
  [][~met' =>
       \A p, o \in 1..Len(queue) :
         (status'[queue[p]] = "running" /\ status'[queue[o]] = "waiting") =>
           \/ Priority[queue[p]] < Priority[queue[o]]
           \/ Priority[queue[p]] = Priority[queue[o]] /\ p < o]_vars

\* Every waiter is dispatched or cancelled in the end, the ones without a
\* deadline too, unless a pump meets an expired waiter.
WaitersAnswered == \A r \in Request : status[r] = "waiting" ~> (status[r] # "waiting" \/ met)

\* "Offer a freed slot to the highest-priority waiter (FIFO within the class),
\* skipping - and cancelling - waiters whose deadline expired while they sat in
\* the queue" (governor.ts 271-273): no slot stays free while a request waits.
FreeSlotIsOffered == queue # <<>> => Cardinality(Running) >= MaxConcurrent

=============================================================================
