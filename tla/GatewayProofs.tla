---------------------------- MODULE GatewayProofs ----------------------------
(***************************************************************************)
(* Proofs about Gateway, for every set of runs, reservations and callers   *)
(* and every cap: a settled reservation is final, a cancelled token stays  *)
(* refused, a reservation has one owner, and a run stays within its caps.  *)
(*                                                                         *)
(* The registry is what serialises the callers, so the invariant ties it   *)
(* to the calls (Registered) and the ledger's rows to both (RowsOwned).    *)
(* The caps need a theory of the ledger's sums, at the end of the module.  *)
(***************************************************************************)
EXTENDS Gateway, FiniteSetTheorems, WellFoundedInduction, TLAPS

Leading == {"broker", "chat", "settled"}

\* The registry holds every key that some call leads, and one call leads it.
Registered ==
  /\ \A c \in Caller : calls[c].at \in Leading => calls[c].key \in inFlight
  /\ \A c, d \in Caller :
       calls[c].at \in Leading /\ calls[d].at \in Leading /\ calls[c].key = calls[d].key
         => c = d

\* A call has a key unless it is idle.
Keyed == \A c \in Caller : calls[c] = Idle \/ (calls[c].at # "idle" /\ calls[c].key \in Key)

\* A reserved row is being dispatched or was inherited, a dispatch works on a
\* reserved row, and the registry names only rows of the ledger.
RowsOwned ==
  \A k \in Key :
    /\ k \in inFlight => rows[k].state # "none"
    /\ rows[k].state = "reserved" => Dispatching(k) # {} \/ k \in inherited
    /\ Dispatching(k) # {} => rows[k].state = "reserved"

\* The ledger's generation counts the cancellations and bounds its rows.
Counted ==
  /\ \A r \in Run : generation[r] > cancels[r]
  /\ \A k \in Key : rows[k].generation <= generation[k[1]]

GatewayInv == TypeOK /\ Registered /\ Keyed /\ RowsOwned /\ Counted

Row == [state : {"none", "reserved"} \union Settled, generation : Nat,
        tokens : Nat, overran : BOOLEAN]

CallRecord == [at : {"idle", "join", "broker", "chat", "settled"},
               key : Key \union {<<>>}, token : Nat]

-----------------------------------------------------------------------------
(* The operators of the ledger *)

\* A refund keeps the row's type, and settles it for good.
LEMMA RefundFacts ==
  ASSUME NEW row \in Row
  PROVE  /\ Refunded(row) \in Row
         /\ Refunded(row).state # "reserved"
         /\ Refunded(row).generation = row.generation
         /\ row.state \in Settled => Refunded(row) = row
BY DEF Refunded, Row, Settled

\* So does a commit.
LEMMA CommitFacts ==
  ASSUME NEW row \in Row, NEW u \in Nat
  PROVE  /\ Committed(row, u) \in Row
         /\ Committed(row, u).state # "reserved"
         /\ Committed(row, u).generation = row.generation
         /\ row.state \in Settled => Committed(row, u) = row
<1>1. (u > Estimate) \in BOOLEAN
  OBVIOUS
<1>2. QED
  BY <1>1 DEF Committed, Row, Settled

\* The generation a restart seeds is the one the ledger had.
LEMMA SeedFacts ==
  ASSUME TypeOK, Counted, NEW r \in Run
  PROVE  SeededGeneration(r) = generation[r]
<1> DEFINE S == {generation[r]} \union {rows[k].generation : k \in {j \in Key : j[1] = r}}
<1>1. generation[r] \in Nat /\ \A k \in Key : rows[k].generation \in Nat
  BY DEF TypeOK
<1>2. \A x \in S : x \in Nat /\ generation[r] >= x
  BY <1>1 DEF Counted
<1>3. generation[r] \in S
  OBVIOUS
<1> HIDE DEF S
<1>4. \A x \in S : (\A y \in S : x >= y) => x = generation[r]
  BY <1>1, <1>2, <1>3
<1>5. (CHOOSE x \in S : \A y \in S : x >= y) = generation[r]
  BY <1>2, <1>3, <1>4
<1>6. QED
  BY <1>5 DEF SeededGeneration, Max, S

-----------------------------------------------------------------------------
(* The actions *)

\* A call is admitted: it leads a key nobody leads, or joins.
LEMMA CallInv ==
  ASSUME GatewayInv, NEW c \in Caller, NEW k \in Key,
         NEW token \in 1..(MaxCancels + 1), Call(c, k, token)
  PROVE  GatewayInv'
<1> DEFINE r == k[1]
           at == IF k \in inFlight THEN "join" ELSE "broker"
           new == [at |-> at, key |-> k, token |-> token]
<1>0. TypeOK /\ Registered /\ Keyed /\ RowsOwned /\ Counted
  BY DEF GatewayInv
<1>1. r \in Run /\ generation[r] \in Nat /\ token \in Nat /\ Estimate \in Nat
  BY <1>0, GatewayAssumption DEF Key, TypeOK
<1>2. /\ calls[c] = Idle /\ token = generation[r]
      /\ \/ rows[k].state = "none" /\ rows' = [rows EXCEPT ![k] = Reserved(r)]
         \/ rows[k].state = "reserved" /\ rows' = rows
      /\ generation' = generation /\ inherited' = inherited /\ cancels' = cancels
      /\ restarts' = restarts
  BY DEF Call, Verified
<1>3. /\ calls' = [calls EXCEPT ![c] = new]
      /\ inFlight' = inFlight \union {k}
  BY DEF Call, JoinOrLead
<1>4. new \in CallRecord /\ new # Idle /\ new.at # "idle" /\ new.key = k
  BY <1>1 DEF CallRecord, Idle
<1>5. calls \in [Caller -> CallRecord] /\ rows \in [Key -> Row]
  BY <1>0 DEF TypeOK, CallRecord, Row
<1>6. calls' \in [Caller -> CallRecord] /\ calls'[c] = new
      /\ \A d \in Caller \ {c} : calls'[d] = calls[d]
  BY <1>3, <1>4, <1>5
<1>7. Reserved(r) \in Row /\ Reserved(r).state = "reserved"
      /\ Reserved(r).generation = generation[r]
  BY <1>1 DEF Reserved, Row
<1>8. rows' \in [Key -> Row] /\ rows'[k].state = "reserved"
      /\ rows'[k].generation <= generation[r]
      /\ \A l \in Key \ {k} : rows'[l] = rows[l]
  BY <1>0, <1>1, <1>2, <1>5, <1>7 DEF Counted
<1>9. TypeOK'
  BY <1>0, <1>2, <1>3, <1>6, <1>8 DEF TypeOK, CallRecord, Row
<1>10. Registered'
  <2>1. \A d \in Caller : calls'[d].at \in Leading => calls'[d].key \in inFlight'
    BY <1>0, <1>3, <1>6 DEF Registered, Leading
  <2>2. \A d \in Caller \ {c} : ~(calls'[c].at \in Leading /\ calls'[d].at \in Leading
                                  /\ calls'[c].key = calls'[d].key)
    BY <1>0, <1>6 DEF Registered, Leading
  <2>3. QED
    BY <1>0, <1>6, <2>1, <2>2 DEF Registered
<1>11. Keyed'
  BY <1>0, <1>4, <1>6 DEF Keyed
<1>12. RowsOwned'
  <2>1. \A l \in Key : Dispatching(l) \subseteq Dispatching(l)'
    BY <1>2, <1>6 DEF Dispatching, Idle
  <2>2. \A l \in Key \ {k} : Dispatching(l)' = Dispatching(l)
    BY <1>2, <1>4, <1>6 DEF Dispatching, Idle
  <2>3. Dispatching(k)' # {} \/ k \in inherited
    <3>1. CASE k \notin inFlight
      <4>1. c \in Dispatching(k)'
        BY <1>4, <1>6, <3>1 DEF Dispatching
      <4>2. QED
        BY <4>1
    <3>2. CASE k \in inFlight /\ rows[k].state = "reserved"
      BY <1>0, <2>1, <3>2 DEF RowsOwned
    <3>3. CASE k \in inFlight /\ rows[k].state = "none"
      BY <1>0, <3>3 DEF RowsOwned
    <3>4. QED
      BY <1>2, <3>1, <3>2, <3>3
  <2>4. QED
    BY <1>0, <1>2, <1>3, <1>8, <2>2, <2>3 DEF RowsOwned
<1>13. Counted'
  BY <1>0, <1>2, <1>8 DEF Counted
<1>14. QED
  BY <1>9, <1>10, <1>11, <1>12, <1>13 DEF GatewayInv

\* A leader ends its dispatch and settles its row.
LEMMA SettleRow ==
  ASSUME GatewayInv, NEW c \in Caller, calls[c].at \in {"broker", "chat"},
         NEW row \in Row, row.state # "reserved", row.state # "none",
         row.generation = rows[calls[c].key].generation,
         rows' = [rows EXCEPT ![calls[c].key] = row],
         calls' = [calls EXCEPT ![c].at = "settled"],
         UNCHANGED <<generation, inFlight, inherited, cancels, restarts>>
  PROVE  GatewayInv'
<1> DEFINE k == calls[c].key
           new == [calls[c] EXCEPT !.at = "settled"]
<1>0. TypeOK /\ Registered /\ Keyed /\ RowsOwned /\ Counted
  BY DEF GatewayInv
<1>1. calls \in [Caller -> CallRecord] /\ rows \in [Key -> Row]
  BY <1>0 DEF TypeOK, CallRecord, Row
<1>2. k \in Key /\ calls[c] # Idle
  BY <1>0 DEF Keyed, Idle
<1>3. new \in CallRecord /\ new.at = "settled" /\ new.key = k
  BY <1>1 DEF CallRecord
<1>4. calls' \in [Caller -> CallRecord] /\ calls'[c] = new
      /\ \A d \in Caller \ {c} : calls'[d] = calls[d]
  BY <1>1, <1>3
<1>5. rows' \in [Key -> Row] /\ rows'[k] = row /\ \A l \in Key \ {k} : rows'[l] = rows[l]
  BY <1>1, <1>2
<1>6. TypeOK'
  BY <1>0, <1>4, <1>5 DEF TypeOK, CallRecord, Row
<1>7. Registered'
  BY <1>0, <1>3, <1>4 DEF Registered, Leading
<1>8. Keyed'
  BY <1>0, <1>2, <1>3, <1>4 DEF Keyed
<1>9. RowsOwned'
  <2>1. Dispatching(k)' = {}
    BY <1>0, <1>3, <1>4 DEF Dispatching, Registered, Leading
  <2>2. \A l \in Key \ {k} : Dispatching(l)' = Dispatching(l)
    BY <1>3, <1>4 DEF Dispatching
  <2>3. QED
    BY <1>0, <1>5, <2>1, <2>2 DEF RowsOwned
<1>10. Counted'
  BY <1>0, <1>2, <1>5 DEF Counted
<1>11. QED
  BY <1>6, <1>7, <1>8, <1>9, <1>10 DEF GatewayInv

\* The broker hands out the credential, or the reservation is refunded.
LEMMA BrokerInv ==
  ASSUME GatewayInv, NEW c \in Caller, BrokerAnswers(c)
  PROVE  GatewayInv'
<1> DEFINE k == calls[c].key
<1>0. TypeOK /\ Registered /\ Keyed /\ RowsOwned /\ Counted
  BY DEF GatewayInv
<1>1. calls \in [Caller -> CallRecord] /\ rows \in [Key -> Row]
  BY <1>0 DEF TypeOK, CallRecord, Row
<1>2. k \in Key /\ calls[c].at = "broker" /\ calls[c] # Idle
  BY <1>0 DEF Keyed, Idle, BrokerAnswers
<1>3. rows[k].state = "reserved"
  <2>1. c \in Dispatching(k)
    BY <1>2 DEF Dispatching
  <2>2. QED
    BY <1>0, <1>2, <2>1 DEF RowsOwned
<1>4. UNCHANGED <<generation, inFlight, inherited, cancels, restarts>>
  BY DEF BrokerAnswers
<1>5. CASE calls' = [calls EXCEPT ![c].at = "settled"] /\ Refund(c)
  <2>1. rows' = [rows EXCEPT ![k] = Refunded(rows[k])]
    BY <1>5 DEF Refund
  <2>2. /\ Refunded(rows[k]) \in Row /\ Refunded(rows[k]).state # "reserved"
        /\ Refunded(rows[k]).generation = rows[k].generation
    BY <1>1, <1>2, RefundFacts
  <2>3. Refunded(rows[k]).state # "none"
    BY <1>1, <1>2, <1>3 DEF Refunded, Row
  <2>4. QED
    BY <1>2, <1>4, <1>5, <2>1, <2>2, <2>3, SettleRow
<1>6. CASE calls' = [calls EXCEPT ![c].at = "chat"] /\ rows' = rows
  <2> DEFINE new == [calls[c] EXCEPT !.at = "chat"]
  <2>1. new \in CallRecord /\ new.at = "chat" /\ new.key = k
    BY <1>1 DEF CallRecord
  <2>2. calls' \in [Caller -> CallRecord] /\ calls'[c] = new
        /\ \A d \in Caller \ {c} : calls'[d] = calls[d]
    BY <1>1, <1>6, <2>1
  <2> HIDE DEF new
  <2>3. TypeOK'
    BY <1>0, <1>4, <1>6, <2>2 DEF TypeOK, CallRecord
  <2>4. Registered'
    BY <1>0, <1>2, <1>4, <2>1, <2>2 DEF Registered, Leading
  <2>41. Keyed'
    BY <1>0, <1>2, <2>1, <2>2 DEF Keyed
  <2>5. \A l \in Key : Dispatching(l)' = Dispatching(l)
    BY <1>2, <2>1, <2>2 DEF Dispatching
  <2>6. RowsOwned' /\ Counted'
    BY <1>0, <1>4, <1>6, <2>5 DEF RowsOwned, Counted
  <2>7. QED
    BY <2>3, <2>4, <2>41, <2>6 DEF GatewayInv
<1>7. QED
  BY <1>5, <1>6 DEF BrokerAnswers

\* The provider's answer is committed, or the reservation refunded.
LEMMA ChatInv ==
  ASSUME GatewayInv, NEW c \in Caller, ChatAnswers(c)
  PROVE  GatewayInv'
<1> DEFINE k == calls[c].key
<1>0. TypeOK /\ Keyed /\ RowsOwned
  BY DEF GatewayInv
<1>1. rows \in [Key -> Row]
  BY <1>0 DEF TypeOK, Row
<1>2. k \in Key /\ calls[c].at = "chat"
  BY <1>0 DEF Keyed, Idle, ChatAnswers
<1>3. rows[k].state = "reserved"
  <2>1. c \in Dispatching(k)
    BY <1>2 DEF Dispatching
  <2>2. QED
    BY <1>0, <1>2, <2>1 DEF RowsOwned
<1>4. calls' = [calls EXCEPT ![c].at = "settled"]
      /\ UNCHANGED <<generation, inFlight, inherited, cancels, restarts>>
  BY DEF ChatAnswers
<1>5. CASE Refund(c)
  <2>1. rows' = [rows EXCEPT ![k] = Refunded(rows[k])]
    BY <1>5 DEF Refund
  <2>2. /\ Refunded(rows[k]) \in Row /\ Refunded(rows[k]).state # "reserved"
        /\ Refunded(rows[k]).generation = rows[k].generation
    BY <1>1, <1>2, RefundFacts
  <2>3. Refunded(rows[k]).state # "none"
    BY <1>1, <1>2, <1>3 DEF Refunded, Row
  <2>4. QED
    BY <1>2, <1>4, <2>1, <2>2, <2>3, SettleRow
<1>6. ASSUME NEW u \in Usage, rows' = [rows EXCEPT ![k] = Committed(@, u)]
      PROVE  GatewayInv'
  <2>1. rows' = [rows EXCEPT ![k] = Committed(rows[k], u)] /\ u \in Nat
    BY <1>6, GatewayAssumption
  <2>2. /\ Committed(rows[k], u) \in Row /\ Committed(rows[k], u).state # "reserved"
        /\ Committed(rows[k], u).generation = rows[k].generation
    BY <1>1, <1>2, <2>1, CommitFacts
  <2>3. Committed(rows[k], u).state # "none"
    BY <1>1, <1>2, <1>3 DEF Committed, Row
  <2>4. QED
    BY <1>2, <1>4, <2>1, <2>2, <2>3, SettleRow
<1>7. QED
  BY <1>5, <1>6 DEF ChatAnswers

\* A caller returns: a joiner, or a leader that gives its key back.
LEMMA ReturnInv ==
  ASSUME GatewayInv, NEW c \in Caller, Release(c) \/ JoinerReturns(c)
  PROVE  GatewayInv'
<1> DEFINE k == calls[c].key
<1>0. TypeOK /\ Registered /\ Keyed /\ RowsOwned /\ Counted
  BY DEF GatewayInv
<1>1. calls \in [Caller -> CallRecord]
  BY <1>0 DEF TypeOK, CallRecord
<1>2. /\ calls' = [calls EXCEPT ![c] = Idle]
      /\ UNCHANGED <<rows, generation, inherited, cancels, restarts>>
      /\ \/ calls[c].at = "settled" /\ inFlight' = inFlight \ {k}
         \/ calls[c].at = "join" /\ inFlight' = inFlight
  BY DEF Release, JoinerReturns
<1>3. Idle \in CallRecord /\ Idle.at = "idle"
  BY DEF Idle, CallRecord
<1>4. calls' \in [Caller -> CallRecord] /\ calls'[c] = Idle
      /\ \A d \in Caller \ {c} : calls'[d] = calls[d]
  BY <1>1, <1>2, <1>3
<1>5. TypeOK'
  BY <1>0, <1>2, <1>4 DEF TypeOK, CallRecord
<1>6. Registered'
  BY <1>0, <1>2, <1>3, <1>4 DEF Registered, Leading
<1>7. Keyed'
  BY <1>0, <1>4 DEF Keyed
<1>8. \A l \in Key : Dispatching(l)' = Dispatching(l)
  BY <1>2, <1>3, <1>4 DEF Dispatching
<1>9. RowsOwned' /\ Counted'
  BY <1>0, <1>2, <1>8 DEF RowsOwned, Counted
<1>10. QED
  BY <1>5, <1>6, <1>7, <1>9 DEF GatewayInv

\* A cancellation only raises the generation.
LEMMA CancelInv ==
  ASSUME GatewayInv, NEW r \in Run, CancelRun(r)
  PROVE  GatewayInv'
<1>0. TypeOK /\ Registered /\ Keyed /\ RowsOwned /\ Counted
  BY DEF GatewayInv
<1>1. /\ cancels' = [cancels EXCEPT ![r] = @ + 1]
      /\ generation' = [generation EXCEPT ![r] = @ + 1]
      /\ UNCHANGED <<rows, calls, inFlight, inherited, restarts>>
  BY DEF CancelRun
<1>2. TypeOK'
  BY <1>0, <1>1 DEF TypeOK
<1>3. \A s \in Run : generation[s] \in Nat /\ cancels[s] \in Nat
      /\ generation'[s] >= generation[s]
      /\ generation'[s] - cancels'[s] = generation[s] - cancels[s]
      /\ generation'[s] \in Nat /\ cancels'[s] \in Nat
  BY <1>0, <1>1 DEF TypeOK
<1>4. \A s \in Run : generation'[s] > cancels'[s]
  BY <1>0, <1>3 DEF Counted
<1>5. \A k \in Key : rows'[k].generation <= generation'[k[1]]
  <2> SUFFICES ASSUME NEW k \in Key PROVE rows'[k].generation <= generation'[k[1]]
    OBVIOUS
  <2>1. k[1] \in Run /\ rows[k].generation \in Nat
    BY <1>0 DEF Key, TypeOK
  <2>2. QED
    BY <1>0, <1>1, <1>3, <2>1 DEF Counted
<1>6. Registered' /\ Keyed' /\ RowsOwned'
  BY <1>0, <1>1 DEF Registered, Keyed, RowsOwned, Dispatching
<1>7. QED
  BY <1>2, <1>4, <1>5, <1>6 DEF GatewayInv, Counted

\* A restart loses the calls and the registry and keeps rows and generations.
LEMMA RestartInv ==
  ASSUME GatewayInv, Restart
  PROVE  GatewayInv'
<1>0. TypeOK /\ Counted
  BY DEF GatewayInv
<1>1. /\ calls' = [c \in Caller |-> Idle] /\ inFlight' = {}
      /\ inherited' = {k \in Key : rows[k].state = "reserved"}
      /\ restarts' = restarts + 1
      /\ rows' = rows /\ cancels' = cancels
  BY DEF Restart
<1>2. generation' = [r \in Run |-> generation[r]]
  BY <1>0, SeedFacts DEF Restart
<1>3. generation' = generation
  BY <1>0, <1>2 DEF TypeOK
<1>4. Idle \in CallRecord /\ Idle.at = "idle"
  BY DEF Idle, CallRecord
<1>5. TypeOK'
  BY <1>0, <1>1, <1>3, <1>4 DEF TypeOK, CallRecord
<1>6. Registered' /\ Keyed'
  BY <1>1, <1>4 DEF Registered, Keyed, Leading
<1>7. \A k \in Key : Dispatching(k)' = {}
  BY <1>1, <1>4 DEF Dispatching
<1>8. RowsOwned' /\ Counted'
  BY <1>0, <1>1, <1>3, <1>7 DEF RowsOwned, Counted
<1>9. QED
  BY <1>5, <1>6, <1>8 DEF GatewayInv

-----------------------------------------------------------------------------
(* The theorems *)

\* An empty ledger without calls.
LEMMA InitInv ==
  Init => GatewayInv
<1> SUFFICES ASSUME Init PROVE GatewayInv
  OBVIOUS
<1>1. NoRow \in Row /\ NoRow.state = "none" /\ NoRow.generation = 0
      /\ Idle \in CallRecord /\ Idle.at = "idle"
  BY DEF NoRow, Row, Idle, CallRecord
<1>2. rows = [k \in Key |-> NoRow] /\ calls = [c \in Caller |-> Idle]
      /\ generation = [r \in Run |-> 1] /\ cancels = [r \in Run |-> 0]
      /\ inFlight = {} /\ inherited = {} /\ restarts = 0
  BY DEF Init
<1>3. TypeOK
  BY <1>1, <1>2 DEF TypeOK, Row, CallRecord
<1>4. Registered /\ Keyed /\ RowsOwned
  BY <1>1, <1>2 DEF Registered, Keyed, RowsOwned, Dispatching, Leading
<1>5. Counted
  <2>1. \A k \in Key : k[1] \in Run
    BY DEF Key
  <2>2. QED
    BY <1>1, <1>2, <2>1 DEF Counted
<1>6. QED
  BY <1>3, <1>4, <1>5 DEF GatewayInv

\* Every step of the gateway keeps the invariant.
LEMMA NextInv ==
  ASSUME GatewayInv, [Next]_vars
  PROVE  GatewayInv'
<1>1. ASSUME NEW c \in Caller, NEW k \in Key, NEW token \in 1..(MaxCancels + 1),
             Call(c, k, token)
      PROVE  GatewayInv'
  BY <1>1, CallInv
<1>2. ASSUME NEW c \in Caller, BrokerAnswers(c) PROVE GatewayInv'
  BY <1>2, BrokerInv
<1>3. ASSUME NEW c \in Caller, ChatAnswers(c) PROVE GatewayInv'
  BY <1>3, ChatInv
<1>4. ASSUME NEW c \in Caller, Release(c) \/ JoinerReturns(c) PROVE GatewayInv'
  BY <1>4, ReturnInv
<1>5. ASSUME NEW r \in Run, CancelRun(r) PROVE GatewayInv'
  BY <1>5, CancelInv
<1>6. CASE Restart
  BY <1>6, RestartInv
<1>7. CASE UNCHANGED vars
  BY <1>7 DEF vars, GatewayInv, TypeOK, Registered, Keyed, RowsOwned, Counted, Dispatching
<1>8. QED
  BY <1>1, <1>2, <1>3, <1>4, <1>5, <1>6, <1>7 DEF Next

\* The ledger, the registry and the calls agree in every reachable state.
THEOREM GatewayInvariant == Spec => []GatewayInv
<1>1. Init => GatewayInv
  BY InitInv
<1>2. GatewayInv /\ [Next]_vars => GatewayInv'
  BY NextInv
<1>3. QED
  BY <1>1, <1>2, PTL DEF Spec

\* A reservation has one owner, for any number of callers, runs and restarts.
THEOREM SingleOwner == Spec => []OwnedOnce
<1>1. GatewayInv => OwnedOnce
  <2> SUFFICES ASSUME GatewayInv, NEW k \in Key
               PROVE  /\ Cardinality(Dispatching(k)) <= 1
                      /\ rows[k].state = "reserved" => Dispatching(k) # {} \/ k \in inherited
    BY DEF OwnedOnce
  <2>1. \A c, d \in Dispatching(k) : c = d
    BY DEF GatewayInv, Registered, Dispatching, Leading
  <2>2. Cardinality(Dispatching(k)) <= 1
    <3>1. CASE Dispatching(k) = {}
      BY <3>1, FS_EmptySet
    <3>2. CASE Dispatching(k) # {}
      <4>1. PICK c \in Dispatching(k) : TRUE
        BY <3>2
      <4>2. Dispatching(k) = {c}
        BY <2>1
      <4>3. Cardinality({c}) = 1
        BY FS_Singleton
      <4>4. QED
        BY <4>2, <4>3
    <3>3. QED
      BY <3>1, <3>2
  <2>3. QED
    BY <2>2 DEF GatewayInv, RowsOwned
<1>2. QED
  BY <1>1, GatewayInvariant, PTL

\* A settled reservation keeps its outcome and is never called for again.
THEOREM SettledStays == Spec => SettledIsFinal
<1> DEFINE A == \A k \in Key : rows[k].state \in Settled =>
                  /\ rows'[k] = rows[k]
                  /\ \A c \in Caller : ~(calls[c] = Idle /\ calls'[c].key = k)
<1>1. GatewayInv /\ [Next]_vars => [A]_vars
  <2> SUFFICES ASSUME GatewayInv, [Next]_vars, NEW k \in Key, rows[k].state \in Settled
               PROVE  /\ rows'[k] = rows[k]
                      /\ \A c \in Caller : ~(calls[c] = Idle /\ calls'[c].key = k)
    OBVIOUS
  <2>0. /\ rows \in [Key -> Row] /\ calls \in [Caller -> CallRecord] /\ Idle.key # k
        /\ \A c \in Caller : calls[c] = Idle => calls[c].key # k /\ calls[c].at = "idle"
    <3>1. rows \in [Key -> Row] /\ calls \in [Caller -> CallRecord]
      BY DEF GatewayInv, TypeOK, Row, CallRecord
    <3>2. PICK r \in Run, x \in Reservation : k = <<r, x>>
      BY DEF Key
    <3>3. Idle.key = <<>> /\ Idle.at = "idle" /\ <<>> # <<r, x>>
      BY DEF Idle
    <3>4. QED
      BY <3>1, <3>2, <3>3
  <2>1. ASSUME NEW c \in Caller, NEW l \in Key, NEW token \in 1..(MaxCancels + 1),
               Call(c, l, token)
        PROVE  /\ rows'[k] = rows[k]
               /\ \A d \in Caller : calls[d] = Idle => calls'[d].key # k
    <3>1. l # k
      BY <2>1 DEF Call, Settled
    <3>2. rows'[k] = rows[k]
      BY <2>0, <2>1, <3>1 DEF Call
    <3>3. calls' = [calls EXCEPT ![c] = calls'[c]] /\ calls'[c].key = l
      BY <2>0, <2>1 DEF Call, JoinOrLead
    <3>4. QED
      BY <2>0, <3>1, <3>2, <3>3
  <2>2. ASSUME NEW c \in Caller, BrokerAnswers(c) \/ ChatAnswers(c)
        PROVE  /\ rows'[k] = rows[k]
               /\ \A d \in Caller : calls[d] = Idle => calls'[d].key # k
    <3>1. \/ rows' = rows
          \/ rows' = [rows EXCEPT ![calls[c].key] = Refunded(@)]
          \/ \E u \in Usage : rows' = [rows EXCEPT ![calls[c].key] = Committed(@, u)]
      BY <2>2 DEF BrokerAnswers, ChatAnswers, Refund
    <3>2. rows'[k] = rows[k]
      BY <2>0, <3>1, RefundFacts, CommitFacts, GatewayAssumption
    <3>3. \A d \in Caller : d # c => calls'[d] = calls[d]
      BY <2>0, <2>2 DEF BrokerAnswers, ChatAnswers
    <3>4. calls[c].at # "idle"
      BY <2>2 DEF BrokerAnswers, ChatAnswers
    <3>5. QED
      BY <2>0, <3>2, <3>3, <3>4
  <2>3. ASSUME NEW c \in Caller, Release(c) \/ JoinerReturns(c)
        PROVE  /\ rows'[k] = rows[k]
               /\ \A d \in Caller : calls[d] = Idle => calls'[d].key # k
    BY <2>0, <2>3 DEF Release, JoinerReturns
  <2>4. CASE Restart
    BY <2>0, <2>4 DEF Restart
  <2>5. ASSUME NEW r \in Run, CancelRun(r)
        PROVE  /\ rows'[k] = rows[k]
               /\ \A d \in Caller : calls[d] = Idle => calls'[d].key # k
    BY <2>0, <2>5 DEF CancelRun
  <2>6. CASE UNCHANGED vars
    BY <2>0, <2>6 DEF vars
  <2>7. QED
    BY <2>1, <2>2, <2>3, <2>4, <2>5, <2>6 DEF Next
<1> HIDE DEF A
<1>2. Spec => [][A]_vars
  BY <1>1, GatewayInvariant, PTL DEF Spec
<1>3. QED
  BY <1>2 DEF SettledIsFinal, A

\* A token minted before a cancellation stays refused, across restarts too.
THEOREM CancelledRefused == Spec => CancelledStaysRefused
<1> DEFINE A == \A c \in Caller : (calls[c] = Idle /\ calls'[c] # Idle) =>
                  calls'[c].token > cancels[calls'[c].key[1]]
<1>1. GatewayInv /\ [Next]_vars => [A]_vars
  <2> SUFFICES ASSUME GatewayInv, [Next]_vars, NEW c \in Caller,
                      calls[c] = Idle, calls'[c] # Idle
               PROVE  calls'[c].token > cancels[calls'[c].key[1]]
    OBVIOUS
  <2>0. calls \in [Caller -> CallRecord] /\ Idle.at = "idle"
    BY DEF GatewayInv, TypeOK, CallRecord, Idle
  <2>1. ASSUME NEW d \in Caller, NEW k \in Key, NEW token \in 1..(MaxCancels + 1),
               Call(d, k, token)
        PROVE  calls'[c].token > cancels[calls'[c].key[1]]
    <3>1. d = c /\ calls'[c].token = token /\ calls'[c].key = k
      BY <2>0, <2>1 DEF Call, JoinOrLead
    <3>2. token = generation[k[1]] /\ k[1] \in Run
      BY <2>1 DEF Call, Verified, Key
    <3>3. QED
      BY <3>1, <3>2 DEF GatewayInv, Counted
  <2>2. ASSUME NEW d \in Caller, \/ BrokerAnswers(d) \/ ChatAnswers(d)
                                 \/ Release(d) \/ JoinerReturns(d)
        PROVE  FALSE
    <3>1. calls'[c] = calls[c] \/ d = c
      BY <2>0, <2>2 DEF BrokerAnswers, ChatAnswers, Release, JoinerReturns
    <3>2. calls[d].at # "idle"
      BY <2>2 DEF BrokerAnswers, ChatAnswers, Release, JoinerReturns
    <3>3. QED
      BY <2>0, <3>1, <3>2
  <2>3. ASSUME Restart \/ (\E r \in Run : CancelRun(r)) \/ UNCHANGED vars PROVE FALSE
    BY <2>0, <2>3 DEF Restart, CancelRun, vars
  <2>4. QED
    BY <2>1, <2>2, <2>3 DEF Next
<1> HIDE DEF A
<1>2. Spec => [][A]_vars
  BY <1>1, GatewayInvariant, PTL DEF Spec
<1>3. QED
  BY <1>2 DEF CancelledStaysRefused, A

-----------------------------------------------------------------------------
(* Sums over the ledger.

   Tokens(r) folds over the rows of a run. That the fold is defined, and that
   its value does not depend on the order in which it takes the rows, is shown
   by the least counterexample: finite sets are well-founded under inclusion. *)

\* A set of subsets of a finite set has a minimal member.
LEMMA MinimalSubset ==
  ASSUME NEW S, IsFiniteSet(S), NEW T \in SUBSET (SUBSET S), T # {}
  PROVE  \E X \in T : \A Y \in T : ~(Y \subseteq X /\ Y # X)
<1>1. IsWellFoundedOn(StrictSubsetOrdering(S), FiniteSubsetsOf(S))
  BY FS_StrictSubsetOrderingWellFounded
<1>2. T \subseteq FiniteSubsetsOf(S)
  BY FS_FiniteSubsetsOfFinite
<1>3. PICK X \in T : \A Y \in T : ~(<<Y, X>> \in StrictSubsetOrdering(S))
  BY <1>1, <1>2, WFMin
<1>4. ASSUME NEW Y \in T, Y \subseteq X, Y # X PROVE FALSE
  <2>1. <<Y, X>> \in (SUBSET S) \X (SUBSET S)
    OBVIOUS
  <2>2. <<Y, X>> \in StrictSubsetOrdering(S)
    BY <1>4, <2>1 DEF StrictSubsetOrdering
  <2>3. QED
    BY <1>3, <2>2
<1>5. QED
  BY <1>4

\* A non-empty set of numbers has a least one.
LEMMA LeastNumber ==
  ASSUME NEW N \in SUBSET Nat, N # {}
  PROVE  \E m \in N : \A k \in N : m <= k
<1>1. PICK n \in N : TRUE
  OBVIOUS
<1> DEFINE T == {0..m : m \in {k \in N : k <= n}}
           D == 0..n
<1>2. IsFiniteSet(D)
  BY FS_Interval
<1>3. T \in SUBSET (SUBSET D) /\ T # {}
  <2>1. 0..n \in T
    OBVIOUS
  <2>2. \A m \in N : m <= n => 0..m \subseteq 0..n
    OBVIOUS
  <2>3. QED
    BY <2>1, <2>2
<1>4. PICK X \in T : \A Y \in T : ~(Y \subseteq X /\ Y # X)
  <2> HIDE DEF T, D
  <2>1. QED
    BY <1>2, <1>3, MinimalSubset
<1>5. PICK m \in N : X = 0..m /\ m <= n
  OBVIOUS
<1>6. ASSUME NEW k \in N, ~(m <= k) PROVE FALSE
  <2>1. k \in Nat /\ m \in Nat /\ n \in Nat /\ k < m /\ k <= n
    BY <1>5, <1>6
  <2>2. 0..k \in T /\ 0..k \subseteq 0..m /\ m \in 0..m /\ m \notin 0..k
    BY <2>1
  <2> HIDE DEF T
  <2>3. QED
    BY <1>4, <1>5, <2>2
<1>7. QED
  BY <1>6

Some(s) == CHOOSE x \in s : TRUE

\* The element the fold takes first is one of the set.
LEMMA SomeIn == ASSUME NEW s, s # {} PROVE Some(s) \in s
BY DEF Some

\* f sums the weights w over the subsets of S, as the fold does.
Sums(f, w, S) ==
  f = [s \in SUBSET S |-> IF s = {} THEN 0 ELSE w[Some(s)] + f[s \ {Some(s)}]]

\* The fold over a finite set is defined.
LEMMA SumsExist ==
  ASSUME NEW S, IsFiniteSet(S), NEW w
  PROVE  \E f : Sums(f, w, S)
<1> DEFINE Value(f, s) == IF s = {} THEN 0 ELSE w[Some(s)] + f[s \ {Some(s)}]
           UpTo(n) == \E f : \A s \in SUBSET S : Cardinality(s) <= n => f[s] = Value(f, s)
           Bad == {n \in Nat : ~UpTo(n)}
<1>0. \A s \in SUBSET S : IsFiniteSet(s) /\ Cardinality(s) \in Nat
                          /\ Cardinality(s) <= Cardinality(S)
  BY FS_Subset, FS_CardinalityType
<1>1. UpTo(0)
  <2> DEFINE f == [s \in SUBSET S |-> 0]
  <2>1. ASSUME NEW s \in SUBSET S, Cardinality(s) <= 0 PROVE f[s] = Value(f, s)
    <3>1. s = {}
      BY <1>0, <2>1, FS_EmptySet
    <3>2. QED
      BY <3>1
  <2>2. QED
    BY <2>1
<1>2. ASSUME NEW n \in Nat, UpTo(n) PROVE UpTo(n + 1)
  <2>1. PICK f : \A s \in SUBSET S : Cardinality(s) <= n => f[s] = Value(f, s)
    BY <1>2
  <2> DEFINE g == [s \in SUBSET S |-> IF Cardinality(s) <= n THEN f[s] ELSE Value(f, s)]
  <2>2. ASSUME NEW s \in SUBSET S, Cardinality(s) <= n + 1 PROVE g[s] = Value(g, s)
    <3>1. g[s] = Value(f, s)
      BY <2>1
    <3>2. CASE s = {}
      BY <3>1, <3>2
    <3>3. CASE s # {}
      <4>1. Some(s) \in s
        BY <3>3, SomeIn
      <4>2. IsFiniteSet(s) /\ Cardinality(s) \in Nat
        BY <1>0
      <4>3. Cardinality(s \ {Some(s)}) = Cardinality(s) - 1
        BY <4>1, <4>2, FS_RemoveElement
      <4>4. Cardinality(s \ {Some(s)}) <= n
        BY <2>2, <4>2, <4>3
      <4>5. g[s \ {Some(s)}] = f[s \ {Some(s)}]
        BY <4>4
      <4>6. QED
        BY <3>1, <3>3, <4>5
    <3>4. QED
      BY <3>2, <3>3
  <2> HIDE DEF g
  <2>3. QED
    BY <2>2
<1>3. UpTo(Cardinality(S))
  <2>0. Cardinality(S) \in Nat
    BY FS_CardinalityType
  <2> HIDE DEF UpTo
  <2>1. CASE Bad = {}
    BY <2>0, <2>1
  <2>2. CASE Bad # {}
    <3>1. PICK m \in Bad : \A k \in Bad : m <= k
      BY <2>2, LeastNumber
    <3>2. m # 0 /\ m \in Nat /\ ~UpTo(m)
      BY <1>1, <3>1
    <3>3. m - 1 \in Nat /\ m - 1 \notin Bad
      BY <3>1, <3>2
    <3>4. UpTo(m - 1)
      BY <3>3
    <3>5. UpTo((m - 1) + 1)
      BY <1>2, <3>3, <3>4
    <3>6. (m - 1) + 1 = m
      BY <3>2
    <3>7. QED
      BY <3>2, <3>5, <3>6
  <2>3. QED
    BY <2>1, <2>2
<1>4. PICK f : \A s \in SUBSET S : f[s] = Value(f, s)
  BY <1>0, <1>3
<1> DEFINE g == [s \in SUBSET S |-> f[s]]
<1>5. \A s \in SUBSET S : g[s] = Value(g, s)
  BY <1>4
<1>6. g = [s \in SUBSET S |-> Value(g, s)]
  BY <1>5
<1>7. QED
  BY <1>6 DEF Sums

\* What a sum is, element by element.
LEMMA SumsUnfold ==
  \A S, w, f : Sums(f, w, S) =>
    \A s \in SUBSET S : s # {} => /\ f[s] = w[Some(s)] + f[s \ {Some(s)}]
                                 /\ Some(s) \in s /\ s \ {Some(s)} \in SUBSET S
<1> TAKE S, w, f
<1> HAVE Sums(f, w, S)
<1> TAKE s \in SUBSET S
<1>1. f[s] = IF s = {} THEN 0 ELSE w[Some(s)] + f[s \ {Some(s)}]
  BY DEF Sums
<1>2. QED
  BY <1>1, SomeIn

\* The empty sum.
LEMMA SumsEmpty == \A S, w, f : Sums(f, w, S) => f[{}] = 0
<1> TAKE S, w, f
<1>1. {} \in SUBSET S
  OBVIOUS
<1>2. QED
  BY <1>1 DEF Sums

\* Sums of numbers are numbers.
LEMMA SumsType ==
  ASSUME NEW S, IsFiniteSet(S), NEW w, \A k \in S : w[k] \in Nat, NEW f, Sums(f, w, S)
  PROVE  \A s \in SUBSET S : f[s] \in Nat
<1> DEFINE Bad == {s \in SUBSET S : f[s] \notin Nat}
<1> SUFFICES ASSUME Bad # {} PROVE FALSE
  OBVIOUS
<1>0. Bad \in SUBSET (SUBSET S)
  OBVIOUS
<1>1. PICK X \in Bad : \A Y \in Bad : ~(Y \subseteq X /\ Y # X)
  <2> HIDE DEF Bad
  <2>1. QED
    BY <1>0, MinimalSubset
<1>2. X # {}
  <2>1. f[{}] = 0 /\ f[X] \notin Nat
    BY <1>1, SumsEmpty
  <2>2. QED
    BY <2>1
<1>3. f[X] = w[Some(X)] + f[X \ {Some(X)}] /\ Some(X) \in X /\ X \ {Some(X)} \in SUBSET S
  <2>1. X \in SUBSET S
    BY <1>1
  <2> HIDE DEF Bad
  <2>2. QED
    BY <1>2, <2>1, SumsUnfold
<1>4. X \ {Some(X)} \notin Bad
  BY <1>1, <1>3
<1>5. f[X \ {Some(X)}] \in Nat /\ w[Some(X)] \in Nat
  BY <1>3, <1>4
<1>6. QED
  BY <1>1, <1>3, <1>5

\* Any element may be taken first.
LEMMA SumsRemove ==
  ASSUME NEW S, IsFiniteSet(S), NEW w, \A k \in S : w[k] \in Nat, NEW f, Sums(f, w, S)
  PROVE  \A s \in SUBSET S : \A x \in s : f[s] = w[x] + f[s \ {x}]
<1> DEFINE Bad == {s \in SUBSET S : \E x \in s : f[s] # w[x] + f[s \ {x}]}
<1> SUFFICES ASSUME Bad # {} PROVE FALSE
  OBVIOUS
<1>0. Bad \in SUBSET (SUBSET S)
  OBVIOUS
<1>1. PICK X \in Bad : \A Y \in Bad : ~(Y \subseteq X /\ Y # X)
  <2> HIDE DEF Bad
  <2>1. QED
    BY <1>0, MinimalSubset
<1>2. PICK x \in X : f[X] # w[x] + f[X \ {x}]
  BY <1>1
<1> DEFINE c == Some(X)
<1>3. f[X] = w[c] + f[X \ {c}] /\ c \in X
  BY <1>1, <1>2, SumsUnfold
<1> HIDE DEF c
<1>4. x # c
  BY <1>2, <1>3
<1>5. X \ {c} \notin Bad /\ X \ {x} \notin Bad
  BY <1>1, <1>2, <1>3
<1>6. f[X \ {c}] = w[x] + f[(X \ {c}) \ {x}] /\ f[X \ {x}] = w[c] + f[(X \ {x}) \ {c}]
  BY <1>1, <1>2, <1>3, <1>4, <1>5
<1>7. (X \ {c}) \ {x} = (X \ {x}) \ {c}
  OBVIOUS
<1>8. w[x] \in Nat /\ w[c] \in Nat /\ f[(X \ {x}) \ {c}] \in Nat
  BY <1>1, <1>3, SumsType
<1>9. \A a, b, d \in Nat : b + (a + d) = a + (b + d)
  OBVIOUS
<1>10. w[c] + (w[x] + f[(X \ {x}) \ {c}]) = w[x] + (w[c] + f[(X \ {x}) \ {c}])
  BY <1>8, <1>9
<1>11. QED
  BY <1>2, <1>3, <1>6, <1>7, <1>10, ZenonT(20)

\* A sum depends on the weights of its elements only.
LEMMA SumsAgree ==
  ASSUME NEW S, IsFiniteSet(S), NEW w, NEW f, Sums(f, w, S),
         NEW T, NEW v, NEW g, Sums(g, v, T), NEW Z \in SUBSET S, Z \in SUBSET T,
         \A k \in Z : w[k] = v[k]
  PROVE  f[Z] = g[Z]
<1> DEFINE Bad == {s \in SUBSET Z : f[s] # g[s]}
<1> SUFFICES ASSUME Bad # {} PROVE FALSE
  OBVIOUS
<1>0. Bad \in SUBSET (SUBSET S)
  OBVIOUS
<1>1. PICK X \in Bad : \A Y \in Bad : ~(Y \subseteq X /\ Y # X)
  <2> HIDE DEF Bad
  <2>1. QED
    BY <1>0, MinimalSubset
<1>2. X \in SUBSET S /\ X \in SUBSET T /\ f[X] # g[X]
  BY <1>1
<1>3. X # {}
  <2>1. f[{}] = 0 /\ g[{}] = 0
    BY SumsEmpty
  <2>2. QED
    BY <1>2, <2>1
<1>4. /\ Some(X) \in X /\ f[X] = w[Some(X)] + f[X \ {Some(X)}]
      /\ g[X] = v[Some(X)] + g[X \ {Some(X)}]
  <2>1. X \in SUBSET S /\ X \in SUBSET T
    BY <1>2
  <2> HIDE DEF Bad
  <2>2. QED
    BY <1>3, <2>1, SumsUnfold
<1>5. X \ {Some(X)} \notin Bad
  BY <1>1, <1>4
<1>6. f[X \ {Some(X)}] = g[X \ {Some(X)}] /\ w[Some(X)] = v[Some(X)]
  BY <1>1, <1>4, <1>5
<1>7. QED
  BY <1>2, <1>4, <1>6

\* totals() over a set of rows, for any ledger.
TokensOver(ledger, S) == MapThenSumSet(LAMBDA k : ledger[k].tokens, S)

\* A ledger has finitely many rows.
LEMMA KeyFinite == ASSUME NEW S \in SUBSET Key PROVE IsFiniteSet(S) /\ Cardinality(S) \in Nat
<1>1. IsFiniteSet(Key)
  BY GatewayAssumption, FS_Product DEF Key
<1>2. QED
  BY <1>1, FS_Subset, FS_CardinalityType

\* The fold of the ledger's totals sums the tokens of its rows.
LEMMA TokensAreSums ==
  ASSUME NEW ledger, NEW S \in SUBSET Key
  PROVE  \E f : Sums(f, [k \in Key |-> ledger[k].tokens], S) /\ TokensOver(ledger, S) = f[S]
<1> DEFINE w == [k \in Key |-> ledger[k].tokens]
           g == CHOOSE g : g = [s \in SUBSET S |->
                  IF s = {} THEN 0
                  ELSE ledger[CHOOSE x \in s : TRUE].tokens + g[s \ {CHOOSE x \in s : TRUE}]]
<1>1. PICK f : Sums(f, w, S)
  BY KeyFinite, SumsExist
<1>2. \A s \in SUBSET S : s # {} => w[Some(s)] = ledger[Some(s)].tokens
  BY SomeIn
<1>3. f = [s \in SUBSET S |-> IF s = {} THEN 0 ELSE ledger[Some(s)].tokens + f[s \ {Some(s)}]]
  <2> HIDE DEF w
  <2>1. QED
    BY <1>1, <1>2 DEF Sums
<1>4. f = [s \in SUBSET S |->
             IF s = {} THEN 0
             ELSE ledger[CHOOSE x \in s : TRUE].tokens + f[s \ {CHOOSE x \in s : TRUE}]]
  BY <1>3 DEF Some
<1>5. g = [s \in SUBSET S |->
             IF s = {} THEN 0
             ELSE ledger[CHOOSE x \in s : TRUE].tokens + g[s \ {CHOOSE x \in s : TRUE}]]
  BY <1>4
<1>6. TokensOver(ledger, S) = g[S]
  BY DEF TokensOver, MapThenSumSet, MapThenFoldSet
<1> HIDE DEF g
<1>7. g = [s \in SUBSET S |-> IF s = {} THEN 0 ELSE ledger[Some(s)].tokens + g[s \ {Some(s)}]]
  BY <1>5 DEF Some
<1>8. Sums(g, w, S)
  <2> HIDE DEF w
  <2>1. QED
    BY <1>2, <1>7 DEF Sums
<1>9. QED
  BY <1>6, <1>8

\* What the totals are: a number, to which each row adds its own tokens, and
\* which depends on these rows only.
LEMMA TokensFacts ==
  ASSUME NEW ledger \in [Key -> Row], NEW S \in SUBSET Key
  PROVE  /\ TokensOver(ledger, S) \in Nat
         /\ \A k \in S : TokensOver(ledger, S) = ledger[k].tokens + TokensOver(ledger, S \ {k})
<1> DEFINE w == [k \in Key |-> ledger[k].tokens]
<1>1. PICK f : Sums(f, w, S) /\ TokensOver(ledger, S) = f[S]
  BY TokensAreSums
<1>2. IsFiniteSet(S) /\ \A k \in S : w[k] \in Nat /\ w[k] = ledger[k].tokens
  BY KeyFinite DEF Row
<1>3. TokensOver(ledger, S) \in Nat
  <2> HIDE DEF w
  <2>1. QED
    BY <1>1, <1>2, SumsType
<1>4. ASSUME NEW k \in S
      PROVE  TokensOver(ledger, S) = ledger[k].tokens + TokensOver(ledger, S \ {k})
  <2>0. S \ {k} \in SUBSET Key
    OBVIOUS
  <2>1. PICK g : Sums(g, w, S \ {k}) /\ TokensOver(ledger, S \ {k}) = g[S \ {k}]
    BY <2>0, TokensAreSums
  <2> HIDE DEF w
  <2>2. f[S] = w[k] + f[S \ {k}]
    BY <1>1, <1>2, SumsRemove
  <2>3. f[S \ {k}] = g[S \ {k}]
    <3>1. S \ {k} \in SUBSET S /\ S \ {k} \in SUBSET (S \ {k}) /\ \A x \in S \ {k} : w[x] = w[x]
      OBVIOUS
    <3>2. QED
      BY <1>1, <1>2, <2>1, <3>1, SumsAgree
  <2>4. QED
    BY <1>1, <1>2, <2>1, <2>2, <2>3
<1>5. QED
  BY <1>3, <1>4

\* Two ledgers that agree on some rows have the same totals over them.
LEMMA TokensAgree ==
  ASSUME NEW ledger, NEW other, NEW S \in SUBSET Key,
         \A k \in S : ledger[k] = other[k]
  PROVE  TokensOver(ledger, S) = TokensOver(other, S)
<1> DEFINE w == [k \in Key |-> ledger[k].tokens]
           v == [k \in Key |-> other[k].tokens]
<1>1. PICK f : Sums(f, w, S) /\ TokensOver(ledger, S) = f[S]
  BY TokensAreSums
<1>2. PICK g : Sums(g, v, S) /\ TokensOver(other, S) = g[S]
  BY TokensAreSums
<1>3. \A k \in S : w[k] = v[k]
  OBVIOUS
<1>4. IsFiniteSet(S) /\ S \in SUBSET S
  BY KeyFinite
<1> HIDE DEF w, v
<1>5. f[S] = g[S]
  BY <1>1, <1>2, <1>3, <1>4, SumsAgree
<1>6. QED
  BY <1>1, <1>2, <1>5

-----------------------------------------------------------------------------
(* The caps *)

\* The rows of a run that count, and the caps, in any ledger.
Counting(ledger, r) == {k \in Key : k[1] = r /\ ledger[k].state \in {"reserved", "committed"}}

CapsOf(ledger) ==
  \A r \in Run :
    /\ Cardinality(Counting(ledger, r)) <= MaxRequests
    /\ (\A k \in Counting(ledger, r) : ~ledger[k].overran)
         => TokensOver(ledger, Counting(ledger, r)) <= MaxTokens

\* A reserved row holds the estimate and has not overrun it.
HoldsEstimate(ledger) ==
  \A k \in Key : ledger[k].state = "reserved" => ledger[k].tokens = Estimate /\ ~ledger[k].overran

CapsInv == CapsOf(rows) /\ HoldsEstimate(rows)

\* A run whose rows are left alone stays within its caps.
LEMMA OtherRun ==
  ASSUME NEW ledger \in [Key -> Row], NEW k \in Key, NEW row \in Row, NEW r \in Run, r # k[1],
         CapsOf(ledger)
  PROVE  LET new == [ledger EXCEPT ![k] = row] IN
         /\ Cardinality(Counting(new, r)) <= MaxRequests
         /\ (\A l \in Counting(new, r) : ~new[l].overran)
              => TokensOver(new, Counting(new, r)) <= MaxTokens
<1> DEFINE new == [ledger EXCEPT ![k] = row]
           S == Counting(ledger, r)
<1>1. \A l \in Key : l[1] = r => new[l] = ledger[l]
  OBVIOUS
<1>2. Counting(new, r) = S /\ S \in SUBSET Key /\ \A l \in S : new[l] = ledger[l]
  BY <1>1 DEF Counting
<1> HIDE DEF new, S
<1>3. TokensOver(new, S) = TokensOver(ledger, S)
  BY <1>2, TokensAgree
<1>4. /\ Cardinality(S) <= MaxRequests
      /\ (\A l \in S : ~ledger[l].overran) => TokensOver(ledger, S) <= MaxTokens
  BY DEF CapsOf, S
<1>5. /\ Cardinality(Counting(new, r)) <= MaxRequests
      /\ (\A l \in Counting(new, r) : ~new[l].overran)
           => TokensOver(new, Counting(new, r)) <= MaxTokens
  BY <1>2, <1>3, <1>4
<1>6. QED
  BY <1>5 DEF new

\* reserve() takes one request and the estimate.
LEMMA ReserveKeepsCaps ==
  ASSUME NEW ledger \in [Key -> Row], CapsOf(ledger), NEW k \in Key, ledger[k].state = "none",
         Cardinality(Counting(ledger, k[1])) + 1 <= MaxRequests,
         TokensOver(ledger, Counting(ledger, k[1])) + Estimate <= MaxTokens,
         NEW row \in Row, row.state = "reserved", row.tokens = Estimate
  PROVE  CapsOf([ledger EXCEPT ![k] = row])
<1> DEFINE new == [ledger EXCEPT ![k] = row]
           S == Counting(ledger, k[1])
           Z == Counting(new, k[1])
<1>1. new \in [Key -> Row] /\ new[k] = row /\ \A l \in Key \ {k} : new[l] = ledger[l]
  OBVIOUS
<1>2. Z = S \union {k} /\ k \notin S /\ S \in SUBSET Key /\ Z \in SUBSET Key
  BY <1>1 DEF Counting
<1> HIDE DEF new, S, Z
<1>3. k \in Z /\ Z \ {k} = S /\ \A l \in S : new[l] = ledger[l]
  BY <1>1, <1>2
<1>4. Cardinality(Z) = Cardinality(S) + 1
  BY <1>2, KeyFinite, FS_AddElement
<1>5. TokensOver(new, Z) = new[k].tokens + TokensOver(new, S)
  BY <1>1, <1>2, <1>3, TokensFacts
<1>6. TokensOver(new, S) = TokensOver(ledger, S) /\ TokensOver(ledger, S) \in Nat
  BY <1>2, <1>3, TokensAgree, TokensFacts
<1>7. TokensOver(new, Z) <= MaxTokens
  BY <1>1, <1>5, <1>6, GatewayAssumption DEF S
<1>8. Cardinality(Z) <= MaxRequests
  BY <1>4 DEF S
<1>9. QED
  BY <1>7, <1>8, OtherRun DEF CapsOf, new, Z

\* refund() gives both back.
LEMMA RefundKeepsCaps ==
  ASSUME NEW ledger \in [Key -> Row], CapsOf(ledger), HoldsEstimate(ledger),
         NEW k \in Key, ledger[k].state = "reserved", NEW row \in Row, row.state = "refunded"
  PROVE  CapsOf([ledger EXCEPT ![k] = row])
<1> DEFINE new == [ledger EXCEPT ![k] = row]
           S == Counting(ledger, k[1])
           Z == Counting(new, k[1])
<1>0. k[1] \in Run
  BY DEF Key
<1>1. new \in [Key -> Row] /\ new[k] = row /\ \A l \in Key \ {k} : new[l] = ledger[l]
  OBVIOUS
<1>2. Z = S \ {k} /\ k \in S /\ S \in SUBSET Key /\ Z \in SUBSET Key
  BY <1>1 DEF Counting
<1>3. /\ Cardinality(S) <= MaxRequests
      /\ (\A l \in S : ~ledger[l].overran) => TokensOver(ledger, S) <= MaxTokens
  BY <1>0 DEF CapsOf
<1>31. ledger[k].tokens = Estimate /\ ~ledger[k].overran
  BY DEF HoldsEstimate
<1> HIDE DEF new, S, Z
<1>4. Cardinality(Z) = Cardinality(S) - 1 /\ Cardinality(S) \in Nat
  BY <1>2, KeyFinite, FS_RemoveElement
<1>5. TokensOver(ledger, S) = Estimate + TokensOver(ledger, Z)
  BY <1>2, <1>31, TokensFacts
<1>6. \A l \in Z : new[l] = ledger[l]
  BY <1>1, <1>2
<1>7. TokensOver(new, Z) = TokensOver(ledger, Z) /\ TokensOver(ledger, Z) \in Nat
  BY <1>2, <1>6, TokensAgree, TokensFacts
<1>8. ASSUME \A l \in Z : ~new[l].overran PROVE TokensOver(new, Z) <= MaxTokens
  <2>1. \A l \in S : ~ledger[l].overran
    BY <1>2, <1>31, <1>6, <1>8
  <2>2. TokensOver(ledger, S) <= MaxTokens
    BY <1>3, <2>1
  <2>3. QED
    BY <1>5, <1>7, <2>2, GatewayAssumption
<1>9. Cardinality(Z) <= MaxRequests
  BY <1>3, <1>4, GatewayAssumption
<1>10. QED
  BY <1>8, <1>9, OtherRun DEF CapsOf, new, Z

\* commit() replaces the estimate by the usage, and marks what exceeds it.
LEMMA CommitKeepsCaps ==
  ASSUME NEW ledger \in [Key -> Row], CapsOf(ledger), HoldsEstimate(ledger),
         NEW k \in Key, ledger[k].state = "reserved", NEW row \in Row, row.state = "committed",
         ~row.overran => row.tokens <= Estimate
  PROVE  CapsOf([ledger EXCEPT ![k] = row])
<1> DEFINE new == [ledger EXCEPT ![k] = row]
           S == Counting(ledger, k[1])
           Z == Counting(new, k[1])
<1>0. k[1] \in Run
  BY DEF Key
<1>1. new \in [Key -> Row] /\ new[k] = row /\ \A l \in Key \ {k} : new[l] = ledger[l]
  OBVIOUS
<1>2. Z = S /\ k \in S /\ S \in SUBSET Key
  BY <1>1 DEF Counting
<1>3. /\ Cardinality(S) <= MaxRequests
      /\ (\A l \in S : ~ledger[l].overran) => TokensOver(ledger, S) <= MaxTokens
  BY <1>0 DEF CapsOf
<1>31. ledger[k].tokens = Estimate /\ ~ledger[k].overran
  BY DEF HoldsEstimate
<1>32. row.tokens \in Nat
  BY DEF Row
<1> HIDE DEF new, S, Z
<1>4. S \ {k} \in SUBSET Key /\ \A l \in S \ {k} : new[l] = ledger[l]
  BY <1>1, <1>2
<1>5. TokensOver(ledger, S) = Estimate + TokensOver(ledger, S \ {k})
  BY <1>2, <1>31, TokensFacts
<1>6. TokensOver(new, S) = row.tokens + TokensOver(new, S \ {k})
  BY <1>1, <1>2, TokensFacts
<1>7. TokensOver(new, S \ {k}) = TokensOver(ledger, S \ {k})
      /\ TokensOver(ledger, S \ {k}) \in Nat
  BY <1>4, TokensAgree, TokensFacts
<1>8. ASSUME \A l \in S : ~new[l].overran PROVE TokensOver(new, S) <= MaxTokens
  <2>1. \A l \in S : ~ledger[l].overran
    BY <1>2, <1>31, <1>4, <1>8
  <2>2. TokensOver(ledger, S) <= MaxTokens
    BY <1>3, <2>1
  <2>3. row.tokens <= Estimate
    BY <1>1, <1>2, <1>8
  <2>4. QED
    BY <1>32, <1>5, <1>6, <1>7, <2>2, <2>3, GatewayAssumption
<1>9. QED
  BY <1>2, <1>3, <1>8, OtherRun DEF CapsOf, new, Z

\* A step leaves the ledger alone, reserves a row that fits, refunds a reserved
\* one or commits it.
LEMMA LedgerMoves ==
  ASSUME GatewayInv, [Next]_vars
  PROVE  \/ rows' = rows
         \/ \E k \in Key : /\ rows[k].state = "none" /\ Fits(k[1])
                           /\ rows' = [rows EXCEPT ![k] = Reserved(k[1])]
         \/ \E k \in Key : /\ rows[k].state = "reserved"
                           /\ rows' = [rows EXCEPT ![k] = Refunded(rows[k])]
         \/ \E k \in Key, u \in Usage : /\ rows[k].state = "reserved"
                                        /\ rows' = [rows EXCEPT ![k] = Committed(rows[k], u)]
<1> DEFINE Moves == \/ rows' = rows
                    \/ \E k \in Key : /\ rows[k].state = "none" /\ Fits(k[1])
                                      /\ rows' = [rows EXCEPT ![k] = Reserved(k[1])]
                    \/ \E k \in Key : /\ rows[k].state = "reserved"
                                      /\ rows' = [rows EXCEPT ![k] = Refunded(rows[k])]
                    \/ \E k \in Key, u \in Usage :
                         /\ rows[k].state = "reserved"
                         /\ rows' = [rows EXCEPT ![k] = Committed(rows[k], u)]
<1>1. ASSUME NEW c \in Caller, NEW k \in Key, NEW token \in 1..(MaxCancels + 1),
             Call(c, k, token)
      PROVE  Moves
  BY <1>1 DEF Call
<1>2. ASSUME NEW c \in Caller, BrokerAnswers(c) \/ ChatAnswers(c) PROVE Moves
  <2>1. calls[c].at \in {"broker", "chat"} /\ calls[c] # Idle
    BY <1>2 DEF BrokerAnswers, ChatAnswers, Idle
  <2>2. calls[c].key \in Key
    BY <2>1 DEF GatewayInv, Keyed
  <2>3. c \in Dispatching(calls[c].key)
    BY <2>1 DEF Dispatching
  <2>4. rows[calls[c].key].state = "reserved"
    BY <2>2, <2>3 DEF GatewayInv, RowsOwned
  <2>5. \/ rows' = rows
        \/ rows' = [rows EXCEPT ![calls[c].key] = Refunded(rows[calls[c].key])]
        \/ \E u \in Usage : rows' = [rows EXCEPT ![calls[c].key] = Committed(rows[calls[c].key], u)]
    BY <1>2 DEF BrokerAnswers, ChatAnswers, Refund
  <2>6. QED
    BY <2>2, <2>4, <2>5
<1>3. ASSUME NEW c \in Caller, Release(c) \/ JoinerReturns(c) PROVE Moves
  BY <1>3 DEF Release, JoinerReturns
<1>4. ASSUME Restart \/ (\E r \in Run : CancelRun(r)) PROVE Moves
  BY <1>4 DEF Restart, CancelRun
<1> HIDE DEF Moves
<1>5. CASE UNCHANGED vars
  BY <1>5 DEF vars, Moves
<1>6. ASSUME Next PROVE Moves
  BY <1>1, <1>2, <1>3, <1>4, <1>6 DEF Next
<1>7. QED
  BY <1>5, <1>6 DEF Moves

\* Every step keeps the caps.
LEMMA NextCaps ==
  ASSUME GatewayInv, [Next]_vars, CapsInv
  PROVE  CapsInv'
<1>0. rows \in [Key -> Row] /\ generation \in [Run -> Nat]
  BY DEF GatewayInv, TypeOK, Row
<1>1. CapsOf(rows) /\ HoldsEstimate(rows)
  BY DEF CapsInv
<1>2. CASE rows' = rows
  BY <1>1, <1>2 DEF CapsInv
<1>3. ASSUME NEW k \in Key, rows[k].state = "none", Fits(k[1]),
             rows' = [rows EXCEPT ![k] = Reserved(k[1])]
      PROVE  CapsInv'
  <2>1. k[1] \in Run /\ Estimate \in Nat
    BY GatewayAssumption DEF Key
  <2>2. /\ Reserved(k[1]) \in Row /\ Reserved(k[1]).state = "reserved"
        /\ Reserved(k[1]).tokens = Estimate /\ ~Reserved(k[1]).overran
    BY <1>0, <2>1 DEF Reserved, Row
  <2>3. Cardinality(Counting(rows, k[1])) + 1 <= MaxRequests
        /\ TokensOver(rows, Counting(rows, k[1])) + Estimate <= MaxTokens
    BY <1>3 DEF Fits, RequestCount, Tokens, TokensOver, RowsOf, Counting
  <2>4. CapsOf(rows')
    BY <1>0, <1>1, <1>3, <2>2, <2>3, ReserveKeepsCaps
  <2>5. HoldsEstimate(rows')
    BY <1>0, <1>1, <1>3, <2>2 DEF HoldsEstimate
  <2>6. QED
    BY <2>4, <2>5 DEF CapsInv
<1>4. ASSUME NEW k \in Key, rows[k].state = "reserved",
             rows' = [rows EXCEPT ![k] = Refunded(rows[k])]
      PROVE  CapsInv'
  <2>1. Refunded(rows[k]) \in Row /\ Refunded(rows[k]).state = "refunded"
    BY <1>0, <1>4 DEF Refunded, Row, Settled
  <2>2. CapsOf(rows')
    BY <1>0, <1>1, <1>4, <2>1, RefundKeepsCaps
  <2>3. HoldsEstimate(rows')
    BY <1>0, <1>1, <1>4, <2>1 DEF HoldsEstimate
  <2>4. QED
    BY <2>2, <2>3 DEF CapsInv
<1>5. ASSUME NEW k \in Key, NEW u \in Usage, rows[k].state = "reserved",
             rows' = [rows EXCEPT ![k] = Committed(rows[k], u)]
      PROVE  CapsInv'
  <2> DEFINE row == Committed(rows[k], u)
  <2>1. u \in Nat /\ Estimate \in Nat
    BY GatewayAssumption
  <2>2. row \in Row
    BY <1>0, <2>1, CommitFacts
  <2>3. PICK b \in BOOLEAN : b = (u > Estimate)
    <3>1. (u > Estimate) \in BOOLEAN
      OBVIOUS
    <3>2. QED
      BY <3>1
  <2>4. row = [rows[k] EXCEPT !.state = "committed", !.tokens = u, !.overran = b]
    BY <1>5, <2>3 DEF Committed
  <2>5. row.state = "committed" /\ row.tokens = u /\ row.overran = b
    BY <1>0, <2>4 DEF Row
  <2> HIDE DEF row
  <2>6. ~row.overran => row.tokens <= Estimate
    <3>1. (u > Estimate) => b
      BY <2>3, Zenon
    <3>2. ~(u > Estimate) => u <= Estimate
      BY <2>1
    <3>3. QED
      BY <2>5, <3>1, <3>2
  <2>7. rows' = [rows EXCEPT ![k] = row]
    BY <1>5 DEF row
  <2>8. CapsOf(rows')
    BY <1>0, <1>1, <1>5, <2>2, <2>5, <2>6, <2>7, CommitKeepsCaps
  <2>9. HoldsEstimate(rows')
    BY <1>0, <1>1, <2>5, <2>7 DEF HoldsEstimate
  <2>10. QED
    BY <2>8, <2>9 DEF CapsInv
<1>6. QED
  BY <1>2, <1>3, <1>4, <1>5, LedgerMoves

\* An empty ledger is within every cap.
LEMMA InitCaps ==
  Init => CapsInv
<1> SUFFICES ASSUME Init PROVE CapsInv
  OBVIOUS
<1>1. \A k \in Key : rows[k].state = "none"
  BY DEF Init, NoRow
<1>2. \A r \in Run : Counting(rows, r) = {}
  BY <1>1 DEF Counting
<1>3. Cardinality({}) = 0 /\ TokensOver(rows, {}) = 0
  <2>1. {} \in SUBSET Key
    OBVIOUS
  <2>2. PICK f : Sums(f, [k \in Key |-> rows[k].tokens], {}) /\ TokensOver(rows, {}) = f[{}]
    BY <2>1, TokensAreSums
  <2>3. QED
    BY <2>2, SumsEmpty, FS_EmptySet
<1>4. CapsOf(rows)
  BY <1>2, <1>3, GatewayAssumption DEF CapsOf
<1>5. HoldsEstimate(rows)
  BY <1>1 DEF HoldsEstimate
<1>6. QED
  BY <1>4, <1>5 DEF CapsInv

\* Whatever callers, replays, cancellations and restarts do, a run stays within
\* its caps, but for what a provider used beyond the estimate.
THEOREM CapsHold == Spec => []WithinCaps
<1>1. Init => CapsInv
  BY InitCaps
<1>2. GatewayInv /\ CapsInv /\ [Next]_vars => CapsInv'
  BY NextCaps
<1>3. CapsInv => WithinCaps
  BY DEF CapsInv, CapsOf, WithinCaps, RequestCount, Tokens, TokensOver, RowsOf, Counting
<1>4. QED
  BY <1>1, <1>2, <1>3, GatewayInvariant, PTL DEF Spec
=============================================================================
