------------------------------- MODULE Intake -------------------------------
(***************************************************************************)
(* How a review generation enters the queue: webhook deliveries            *)
(* (daemon.ingest, dispatchCanonicalEvent) and reconciliation polls        *)
(* (ingress/reconcile.ts) reserve it in the durable generation ledger      *)
(* (ControlPlaneGenerationLedger over the idempotency keys of              *)
(* state/store.ts) and hand it to the queue; a failed handoff gives the    *)
(* reservation back.  Deliveries and passes overlap at every await, store  *)
(* calls fail before or after their effect, a reservation reaches its      *)
(* horizon, and the process dies between any two steps.  What makes an     *)
(* event schedulable (adoption, identity, event kind) is decided before.   *)
(***************************************************************************)
EXTENDS Integers, FiniteSets

CONSTANTS
  Generation,  \* job ids
  Webhook,     \* webhook deliveries in flight at a time
  Poll,        \* reconciliation passes in flight at a time
  Token,       \* owner tokens (random UUIDs)
  NoToken,
  Foreign,     \* the token of another controller instance
  MaxFaults,   \* bound: failing store, queue and foreign steps
  MaxCrashes   \* bound: process crashes

Actor == Webhook \union Poll

ASSUME IntakeAssumption ==
  /\ Webhook \intersect Poll = {}
  /\ NoToken \notin Token /\ Foreign \notin Token /\ NoToken # Foreign
  /\ MaxFaults \in Nat /\ MaxCrashes \in Nat

\* randomUUID() does not run out: the key of a generation, the process's memory
\* of it and a call hold one token each.
ASSUME TokenAssumption ==
  /\ IsFiniteSet(Generation) /\ IsFiniteSet(Actor) /\ IsFiniteSet(Token)
  /\ Cardinality(Token) > 2 * Cardinality(Generation) + Cardinality(Actor)

VARIABLES
  claim,    \* the durable idempotency key of a generation
  claims,   \* this process's own reservations: generation -> token
  known,    \* generations the queue holds in memory
  stored,   \* generations in the durable queue snapshot
  calls,    \* the delivery or poll entry an actor is working on
  acked,    \* history: generations whose delivery was answered with success
  unsaved,  \* history: generations whose enqueue failed in its save
  orphan,   \* history: claims whose owner is gone or could not release them
  faults, crashes

vars == <<claim, claims, known, stored, calls, acked, unsaved, orphan, faults, crashes>>

-----------------------------------------------------------------------------

NoClaim == [token |-> NoToken, live |-> FALSE]
Idle == [at |-> "idle", gen |-> NoToken, token |-> NoToken]

Init ==
  /\ claim = [g \in Generation |-> NoClaim]
  /\ claims = [g \in Generation |-> NoToken]
  /\ known = {} /\ stored = {}
  /\ calls = [a \in Actor |-> Idle]
  /\ acked = {} /\ unsaved = {} /\ orphan = {}
  /\ faults = 0 /\ crashes = 0

Fault == faults < MaxFaults /\ faults' = faults + 1

Goto(a, point) == calls' = [calls EXCEPT ![a].at = point]
Return(a) == calls' = [calls EXCEPT ![a] = Idle]

InUse == {claim[g].token : g \in Generation} \union {claims[g] : g \in Generation}
           \union {calls[a].token : a \in Actor}

\* randomUUID(): a token nobody has.
FreshToken == CHOOSE t \in Token : t \notin InUse

\* Mutant: an expired key still belongs to its old owner.
ClaimableAbsent(g) == claim[g].token = NoToken

\* claim-idempotency takes a key that is absent or expired.
Claimable(g) == ~claim[g].live

\* release-idempotency: the owner's key or an expired one is deleted.
Releasable(g, token) == claim[g].token = token \/ ~claim[g].live

-----------------------------------------------------------------------------
(* addIfAbsent *)

\* A delivery or a poll entry reaches the ledger: a generation this process has
\* reserved is answered from memory.
Begin(a, g) ==
  /\ calls[a] = Idle
  /\ \/ /\ claims[g] = NoToken
        /\ calls' = [calls EXCEPT ![a] = [at |-> "claim", gen |-> g, token |-> FreshToken]]
     \/ /\ claims[g] # NoToken /\ a \in Webhook
        /\ calls' = [calls EXCEPT ![a] = [at |-> "duplicate", gen |-> g, token |-> NoToken]]
  /\ UNCHANGED <<claim, claims, known, stored, acked, unsaved, orphan, faults, crashes>>

\* addIfAbsent answers false: a delivery is a duplicate, a poll skips the entry.
NotReserved(a) ==
  IF a \in Webhook THEN calls' = [calls EXCEPT ![a].at = "duplicate", ![a].token = NoToken]
  ELSE Return(a)

\* addIfAbsent answers true: the token is remembered.
Reserved(a) ==
  /\ claims' = [claims EXCEPT ![calls[a].gen] = calls[a].token]
  /\ Goto(a, "handoff")

Claimed(a) == claim' = [claim EXCEPT ![calls[a].gen] = [token |-> calls[a].token, live |-> TRUE]]

\* The claim is applied, conflicts, or its answer is lost with or without effect.
Claim(a) ==
  LET g == calls[a].gen
  IN  /\ calls[a].at = "claim"
      /\ \/ /\ Claimable(g) /\ Claimed(a) /\ Reserved(a)
            /\ orphan' = orphan \ {g}
            /\ UNCHANGED faults
         \/ ~Claimable(g) /\ NotReserved(a) /\ UNCHANGED <<claim, claims, orphan, faults>>
         \/ /\ Claimable(g) /\ Fault /\ Claimed(a) /\ Goto(a, "prove")
            /\ orphan' = orphan \ {g}
            /\ UNCHANGED claims
         \/ Fault /\ Goto(a, "prove") /\ UNCHANGED <<claim, claims, orphan>>
      /\ UNCHANGED <<known, stored, acked, unsaved, crashes>>

\* After a lost answer the stored binding decides; an unreadable or absent key
\* is an error, and the delivery fails or the repository's pass ends.
Prove(a) ==
  LET g == calls[a].gen
  IN  /\ calls[a].at = "prove"
      /\ \/ claim[g].token = calls[a].token /\ Reserved(a) /\ UNCHANGED <<orphan, faults>>
         \/ /\ claim[g].token \notin {NoToken, calls[a].token}
            /\ NotReserved(a)
            /\ UNCHANGED <<claims, orphan, faults>>
         \/ claim[g].token = NoToken /\ Return(a) /\ UNCHANGED <<claims, orphan, faults>>
         \/ /\ Fault /\ Return(a)
            /\ orphan' = IF claim[g].token = calls[a].token THEN orphan \union {g} ELSE orphan
            /\ UNCHANGED claims
      /\ UNCHANGED <<claim, known, stored, acked, unsaved, crashes>>

-----------------------------------------------------------------------------
(* The handoff *)

Ack(a) == acked' = IF a \in Webhook THEN acked \union {calls[a].gen} ELSE acked

\* Mutant: a failed enqueue keeps the reservation.
EnqueueKeepsClaim(a) ==
  LET g == calls[a].gen
  IN  \/ /\ Ack(a) /\ Return(a)
         /\ known' = known \union {g}
         /\ stored' = IF g \in known THEN stored ELSE known \union {g}
         /\ UNCHANGED <<unsaved, faults>>
      \/ Fault /\ Return(a) /\ UNCHANGED <<known, stored, acked, unsaved>>

\* enqueueGeneration: a known generation is the queue's own duplicate and saves
\* nothing; else it is inserted and saved.  A refused enqueue changes nothing, a
\* failed save leaves the record in memory; both go on to release the claim.
EnqueueGeneration(a) ==
  LET g == calls[a].gen
  IN  \/ /\ Ack(a) /\ Return(a)
         /\ known' = known \union {g}
         /\ stored' = IF g \in known THEN stored ELSE known \union {g}
         /\ UNCHANGED <<unsaved, faults>>
      \/ Fault /\ Goto(a, "release") /\ UNCHANGED <<known, stored, acked, unsaved>>
      \/ /\ g \notin known
         /\ Fault /\ Goto(a, "release")
         /\ known' = known \union {g}
         /\ unsaved' = unsaved \union {g}
         /\ UNCHANGED <<stored, acked>>

\* Mutant: every duplicate is acknowledged.
DuplicateIgnored(a) ==
  /\ calls[a].at = "duplicate"
  /\ Ack(a) /\ Return(a)
  /\ UNCHANGED <<claim, claims, known, stored, unsaved, orphan, faults, crashes>>

\* A duplicate the queue knows is done; one it does not know is enqueued anyway.
Duplicate(a) ==
  /\ calls[a].at = "duplicate"
  /\ \/ calls[a].gen \in known /\ Ack(a) /\ Return(a) /\ UNCHANGED <<known, stored, unsaved, faults>>
     \/ calls[a].gen \notin known /\ EnqueueGeneration(a)
  /\ UNCHANGED <<claim, claims, orphan, crashes>>

HandOff(a) ==
  /\ calls[a].at = "handoff"
  /\ EnqueueGeneration(a)
  /\ UNCHANGED <<claim, claims, orphan, crashes>>

\* A delivery releases once; a poll releases again over the refused handoff.
AfterRelease(a) ==
  IF a \in Poll /\ calls[a].at = "release" THEN Goto(a, "release again") ELSE Return(a)

\* Mutant: the reservation is deleted whoever owns it.
ReleasedBlindly(g) == claim' = [claim EXCEPT ![g] = NoClaim]

\* The effect of release-idempotency with this process's token.
Released(g) ==
  claim' = IF Releasable(g, claims[g]) THEN [claim EXCEPT ![g] = NoClaim] ELSE claim

\* ledger.remove: only with a token of this process; the token is kept when the
\* store fails, with or without having deleted the key.
Remove(a) ==
  LET g == calls[a].gen
  IN  /\ calls[a].at \in {"release", "release again"}
      /\ AfterRelease(a)
      /\ \/ claims[g] = NoToken /\ UNCHANGED <<claim, claims, orphan, faults>>
         \/ /\ claims[g] # NoToken
            /\ Released(g)
            /\ claims' = [claims EXCEPT ![g] = NoToken]
            /\ UNCHANGED <<orphan, faults>>
         \/ /\ claims[g] # NoToken
            /\ Fault
            /\ Released(g) \/ UNCHANGED claim
            /\ orphan' = orphan \union {g}
            /\ UNCHANGED claims
      /\ UNCHANGED <<known, stored, acked, unsaved, crashes>>

-----------------------------------------------------------------------------
(* Time, the queue's later saves, another instance, crashes *)

\* A claim reaches its horizon.
Expire(g) ==
  /\ claim[g].live
  /\ claim' = [claim EXCEPT ![g].live = FALSE]
  /\ UNCHANGED <<claims, known, stored, calls, acked, unsaved, orphan, faults, crashes>>

\* A later transition of the queue saves the whole snapshot.
SaveLater ==
  /\ stored # known
  /\ stored' = known
  /\ UNCHANGED <<claim, claims, known, calls, acked, unsaved, orphan, faults, crashes>>

\* Another controller instance reserves the generation.
ForeignClaim(g) ==
  /\ Claimable(g) /\ Fault
  /\ claim' = [claim EXCEPT ![g] = [token |-> Foreign, live |-> TRUE]]
  /\ UNCHANGED <<claims, known, stored, calls, acked, unsaved, orphan, crashes>>

Crash ==
  /\ crashes < MaxCrashes
  /\ crashes' = crashes + 1
  /\ calls' = [a \in Actor |-> Idle]
  /\ claims' = [g \in Generation |-> NoToken]
  /\ known' = stored
  /\ orphan' = orphan \union {g \in Generation : claim[g].token \in Token}
  /\ UNCHANGED <<claim, stored, acked, unsaved, faults>>

Step(a) ==
  \/ Claim(a)
  \/ Prove(a)
  \/ Duplicate(a)
  \/ HandOff(a)
  \/ Remove(a)

Next ==
  \/ \E a \in Actor : Step(a) \/ \E g \in Generation : Begin(a, g)
  \/ \E g \in Generation : Expire(g) \/ ForeignClaim(g)
  \/ SaveLater
  \/ Crash

\* The poll's interval timer lists every open head again, awaited calls are
\* answered, claims reach their horizon and the queue goes on saving.  Nobody
\* promises a webhook delivery.
Fairness ==
  /\ \A a \in Actor : WF_vars(Step(a))
  /\ \A g \in Generation : WF_vars(\E a \in Poll : Begin(a, g))
  /\ \A g \in Generation : WF_vars(Expire(g))
  /\ WF_vars(SaveLater)

Spec == Init /\ [][Next]_vars
FairSpec == Spec /\ Fairness

-----------------------------------------------------------------------------
(* Properties *)

\* A delivery that was answered with success is in the durable queue whatever
\* crashed before it or after it, the one exception being a generation whose
\* first enqueue failed in its save (daemon.ts 1697-1713, scheduler.ts 295-299).
AckedIsQueued == \A g \in acked : g \in stored \/ g \in unsaved

\* A generation the queue does not know is never held back without a reason: its
\* live claim belongs to a call still at work, to another instance, or to an
\* owner that died or could not reach the store (daemon.ts 1407-1428, 1474-1482,
\* reconcile.ts 253-277).
ClaimHasOwner ==
  \A g \in Generation :
    (claim[g].live /\ g \notin known) =>
      \/ \E a \in Actor : calls[a].gen = g /\ calls[a].at \notin {"claim", "duplicate"}
      \/ claim[g].token = Foreign
      \/ g \in orphan

\* No step of this process gives back a live claim of another owner: a token
\* this process holds is released with that token only, even when its own claim
\* has expired and was taken over meanwhile (daemon.ts 521-549, store.ts
\* 574-606).
ForeignClaimStands ==
  [][\A g \in Generation :
       (claim[g].live /\ claim[g].token = Foreign) =>
         claim'[g].token = Foreign]_vars

\* The poll alone brings every open head into the queue in the end, after
\* crashes, lost answers and foreign claims too, unless this process keeps the
\* token of a claim it could not release (daemon.ts 498-519, 537-548).
PolledHeadQueued ==
  \A g \in Generation :
    <>[](claims[g] # NoToken /\ g \in orphan) \/ <>(g \in stored)

=============================================================================
