------------------------------- MODULE Gateway -------------------------------
(***************************************************************************)
(* The model gateway (src/gateway/gateway.ts) and its budget ledger        *)
(* (src/gateway/budget.ts).  A call runs its admission (capability token,  *)
(* reservation, join or lead) in one synchronous stretch; the caller that  *)
(* leads then awaits the credential broker and the provider and settles    *)
(* the reservation, and a replay of the same reservation joins it.         *)
(* Reservations are identified by run and reservation id.  Costs follow    *)
(* the same rules as tokens and are left out, as are profiles, payloads    *)
(* and the masking of provider text.                                       *)
(***************************************************************************)
EXTENDS Integers, FiniteSets, FiniteSetsExt

CONSTANTS
  Run,          \* run ids
  Reservation,  \* reservation ids, chosen by the workers
  Caller,       \* concurrent callers of the gateway
  MaxRequests,  \* caps.maxRequests of every run
  MaxTokens,    \* caps.maxTokens of every run
  Estimate,     \* perRequestBudget.maxTokens: what a reservation holds
  Usage,        \* tokens a provider may report
  MaxCancels,   \* bound: cancelRun calls of a run
  MaxRestarts   \* bound: restarts of the controller

ASSUME GatewayAssumption ==
  /\ MaxRequests \in Nat /\ MaxTokens \in Nat /\ Estimate \in Nat
  /\ Usage \subseteq Nat
  /\ MaxCancels \in Nat /\ MaxRestarts \in Nat
  /\ IsFiniteSet(Run) /\ IsFiniteSet(Reservation)

VARIABLES
  rows,        \* the ledger's reservation rows
  generation,  \* the ledger's cancellation generation of a run
  calls,       \* what each caller awaits
  inFlight,    \* the registry: keys whose dispatch has not been released
  inherited,   \* history: rows that were reserved when the process restarted
  cancels,     \* history: cancelRun calls of a run
  restarts

vars == <<rows, generation, calls, inFlight, inherited, cancels, restarts>>

-----------------------------------------------------------------------------
(* The ledger *)

Key == Run \X Reservation

NoRow == [state |-> "none", generation |-> 0, tokens |-> 0, overran |-> FALSE]

Settled == {"committed", "refunded"}

\* Mutant: only committed rows count towards the caps.
RowsOfSettled(r) == {k \in Key : k[1] = r /\ rows[k].state = "committed"}

RowsOf(r) == {k \in Key : k[1] = r /\ rows[k].state \in {"reserved", "committed"}}

\* totals(runId): actuals of committed rows, estimates of reserved ones.
RequestCount(r) == Cardinality(RowsOf(r))
Tokens(r) == MapThenSumSet(LAMBDA k : rows[k].tokens, RowsOf(r))

\* reserve() would keep the run within its caps.
Fits(r) == RequestCount(r) + 1 <= MaxRequests /\ Tokens(r) + Estimate <= MaxTokens

Reserved(r) == [state |-> "reserved", generation |-> generation[r],
                tokens |-> Estimate, overran |-> FALSE]

\* refund: a committed row refuses it, a refunded one stays.
Refunded(row) ==
  IF row.state = "reserved" THEN [row EXCEPT !.state = "refunded", !.tokens = 0] ELSE row

\* commit: only a reserved row takes the actuals.
Committed(row, tokens) ==
  IF row.state = "reserved"
  THEN [row EXCEPT !.state = "committed", !.tokens = tokens, !.overran = tokens > Estimate]
  ELSE row

-----------------------------------------------------------------------------
(* call() *)

Idle == [at |-> "idle", key |-> <<>>, token |-> 0]

Init ==
  /\ rows = [k \in Key |-> NoRow]
  /\ generation = [r \in Run |-> 1]
  /\ calls = [c \in Caller |-> Idle]
  /\ inFlight = {}
  /\ inherited = {}
  /\ cancels = [r \in Run |-> 0]
  /\ restarts = 0

\* A token is valid for exactly the generation the ledger has now.
Verified(r, token) == token = generation[r]

\* Mutant: a replay does not look for a dispatch in flight.
LeadAlways(c, k, token) ==
  /\ calls' = [calls EXCEPT ![c] = [at |-> "broker", key |-> k, token |-> token]]
  /\ inFlight' = inFlight \union {k}

\* Join the dispatch in flight, or lead and register before the first await.
JoinOrLead(c, k, token) ==
  IF k \in inFlight
  THEN calls' = [calls EXCEPT ![c] = [at |-> "join", key |-> k, token |-> token]] /\ UNCHANGED inFlight
  ELSE /\ calls' = [calls EXCEPT ![c] = [at |-> "broker", key |-> k, token |-> token]]
       /\ inFlight' = inFlight \union {k}

\* Mutant: the state of a replayed reservation is not looked at.
CallSettledToo(c, k, token) ==
  LET row == rows[k]
      r == k[1]
  IN  /\ calls[c] = Idle
      /\ Verified(r, token)
      /\ \/ /\ row.state = "none" /\ Fits(r)
            /\ rows' = [rows EXCEPT ![k] = Reserved(r)]
         \/ /\ row.state # "none" /\ row.generation = generation[r]
            /\ UNCHANGED rows
      /\ JoinOrLead(c, k, token)
      /\ UNCHANGED <<generation, inherited, cancels, restarts>>

\* A call that is admitted; a refused one (stale token, other identity, settled
\* row, caps) returns at once and changes nothing.
Call(c, k, token) ==
  LET row == rows[k]
      r == k[1]
  IN  /\ calls[c] = Idle
      /\ Verified(r, token)
      /\ \/ /\ row.state = "none" /\ Fits(r)
            /\ rows' = [rows EXCEPT ![k] = Reserved(r)]
         \/ /\ row.state = "reserved" /\ row.generation = generation[r]
            /\ UNCHANGED rows
      /\ JoinOrLead(c, k, token)
      /\ UNCHANGED <<generation, inherited, cancels, restarts>>

Refund(c) == rows' = [rows EXCEPT ![calls[c].key] = Refunded(@)]

\* The broker answers with the credential, refuses, or throws.
BrokerAnswers(c) ==
  /\ calls[c].at = "broker"
  /\ \/ calls' = [calls EXCEPT ![c].at = "chat"] /\ UNCHANGED rows
     \/ calls' = [calls EXCEPT ![c].at = "settled"] /\ Refund(c)
  /\ UNCHANGED <<generation, inFlight, inherited, cancels, restarts>>

\* The provider answers: the usage is committed, or the response is unsafe, its
\* usage invalid, the transport failed or threw, and the reservation refunded.
ChatAnswers(c) ==
  /\ calls[c].at = "chat"
  /\ calls' = [calls EXCEPT ![c].at = "settled"]
  /\ \/ \E u \in Usage : rows' = [rows EXCEPT ![calls[c].key] = Committed(@, u)]
     \/ Refund(c)
  /\ UNCHANGED <<generation, inFlight, inherited, cancels, restarts>>

\* The settled promise leaves the registry and its owner returns.
Release(c) ==
  /\ calls[c].at = "settled"
  /\ inFlight' = inFlight \ {calls[c].key}
  /\ calls' = [calls EXCEPT ![c] = Idle]
  /\ UNCHANGED <<rows, generation, inherited, cancels, restarts>>

Dispatching(k) == {c \in Caller : calls[c].key = k /\ calls[c].at \in {"broker", "chat"}}

\* A joiner returns the outcome of the dispatch it joined.
JoinerReturns(c) ==
  /\ calls[c].at = "join" /\ Dispatching(calls[c].key) = {}
  /\ calls' = [calls EXCEPT ![c] = Idle]
  /\ UNCHANGED <<rows, generation, inFlight, inherited, cancels, restarts>>

-----------------------------------------------------------------------------

\* cancelRun: outstanding tokens of the run are stale from here on.
CancelRun(r) ==
  /\ cancels[r] < MaxCancels
  /\ cancels' = [cancels EXCEPT ![r] = @ + 1]
  /\ generation' = [generation EXCEPT ![r] = @ + 1]
  /\ UNCHANGED <<rows, calls, inFlight, inherited, restarts>>

\* Mutant: the restarted ledger takes the generations from the rows alone.
SeededByRows(r) == Max({1} \union {rows[k].generation : k \in {j \in Key : j[1] = r}})

\* The generation a ledger seeded from durableState() has for a run.
SeededGeneration(r) ==
  Max({generation[r]} \union {rows[k].generation : k \in {j \in Key : j[1] = r}})

\* The controller restarts from the durable rows and generations: calls and
\* registry are gone, a row reserved by a lost call stays reserved.
Restart ==
  /\ restarts < MaxRestarts
  /\ restarts' = restarts + 1
  /\ calls' = [c \in Caller |-> Idle]
  /\ inFlight' = {}
  /\ inherited' = {k \in Key : rows[k].state = "reserved"}
  /\ generation' = [r \in Run |-> SeededGeneration(r)]
  /\ UNCHANGED <<rows, cancels>>

Next ==
  \/ \E c \in Caller : \/ \E k \in Key, token \in 1..(MaxCancels + 1) : Call(c, k, token)
                       \/ BrokerAnswers(c)
                       \/ ChatAnswers(c)
                       \/ Release(c)
                       \/ JoinerReturns(c)
  \/ \E r \in Run : CancelRun(r)
  \/ Restart

Spec == Init /\ [][Next]_vars

-----------------------------------------------------------------------------
(* Properties *)

\* The ledger, the registry and the calls have their types.
TypeOK ==
  /\ rows \in [Key -> [state : {"none", "reserved"} \union Settled, generation : Nat,
                       tokens : Nat, overran : BOOLEAN]]
  /\ generation \in [Run -> Nat \ {0}]
  /\ calls \in [Caller -> [at : {"idle", "join", "broker", "chat", "settled"},
                           key : Key \union {<<>>}, token : Nat]]
  /\ inFlight \subseteq Key /\ inherited \subseteq Key
  /\ cancels \in [Run -> Nat] /\ restarts \in Nat

\* A reservation has one owner: however many callers replay it, at most one is
\* on the wire for it, and a row is left reserved only while that call runs, or
\* because a restart lost it (gateway.ts 204-234, 264-271).
OwnedOnce ==
  \A k \in Key :
    /\ Cardinality(Dispatching(k)) <= 1
    /\ rows[k].state = "reserved" => Dispatching(k) # {} \/ k \in inherited

\* Concurrent reservations, late commits and refunds keep a run within its
\* caps; tokens exceed theirs only by what a provider used beyond the
\* operator's estimate (budget.ts 206-218, 368-386).
WithinCaps ==
  \A r \in Run :
    /\ RequestCount(r) <= MaxRequests
    /\ (\A k \in RowsOf(r) : ~rows[k].overran) => Tokens(r) <= MaxTokens

\* A settled reservation keeps its outcome and is never called for again, by a
\* replay, by a joiner or after a restart (gateway.ts 189-196, budget.ts
\* 255-302).
SettledIsFinal ==
  [][\A k \in Key : rows[k].state \in Settled =>
       /\ rows'[k] = rows[k]
       /\ \A c \in Caller : ~(calls[c] = Idle /\ calls'[c].key = k)]_vars

\* A token minted before a cancelRun of its run is refused from then on, after
\* a restart too (gateway.ts 156-168, budget.ts 84-89).
CancelledStaysRefused ==
  [][\A c \in Caller :
       (calls[c] = Idle /\ calls'[c] # Idle) =>
         calls'[c].token > cancels[calls'[c].key[1]]]_vars

=============================================================================
