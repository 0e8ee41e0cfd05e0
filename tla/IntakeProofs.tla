---------------------------- MODULE IntakeProofs ----------------------------
(***************************************************************************)
(* Proofs about Intake, for every set of generations, deliveries and poll  *)
(* passes and every number of faults and crashes: an acknowledged delivery *)
(* is queued, a generation is not held back without a reason, and another  *)
(* owner's live claim stands.                                              *)
(*                                                                         *)
(* A claim is owned through its token, so the invariant says that calls    *)
(* have tokens of their own (TokensUnique), that a call which is past its  *)
(* reservation finds its token in the process's memory (Remembered), and   *)
(* that a live claim nobody gave up has a call at work with its token      *)
(* (Owned).                                                                *)
(***************************************************************************)
EXTENDS Intake, FiniteSetTheorems, TLAPS

CallRecord == [at : {"idle", "claim", "prove", "handoff", "duplicate", "release", "release again"},
               gen : Generation \union {NoToken}, token : Token \union {NoToken}]

ClaimRecord == [token : Token \union {NoToken, Foreign}, live : BOOLEAN]

Types ==
  /\ claim \in [Generation -> ClaimRecord]
  /\ claims \in [Generation -> Token \union {NoToken}]
  /\ known \subseteq Generation /\ stored \subseteq Generation
  /\ calls \in [Actor -> CallRecord]

\* A call works on a generation, and has a token until it becomes a duplicate.
Shaped(c) ==
  /\ c.at = "idle" => c = Idle
  /\ c.at # "idle" => c.gen \in Generation
  /\ c.at \in {"claim", "prove", "handoff"} => c.token \in Token
  /\ c.at = "duplicate" => c.token = NoToken

CallsShaped == \A a \in Actor : Shaped(calls[a])

\* Two calls never have the same token.
TokensUnique ==
  \A a, b \in Actor : a # b /\ calls[a].token \in Token => calls[a].token # calls[b].token

\* The states of a call that owns its claim, and those after the reservation.
Working == {"prove", "handoff", "release", "release again"}
Holding == {"handoff", "release", "release again"}

\* A call whose claim stands after its reservation can give it back: the process
\* remembers its token.
Remembered ==
  \A a \in Actor :
    (/\ calls[a].at \in Holding
     /\ calls[a].token \in Token
     /\ claim[calls[a].gen].token = calls[a].token)
       => claims[calls[a].gen] = calls[a].token

\* A live claim has a token.
LiveHasToken == \A g \in Generation : claim[g].live => claim[g].token # NoToken

\* A live claim of this process that is neither queued nor given up has a call
\* at work with its token.
Owner(a, g) == /\ calls[a].gen = g
               /\ calls[a].token = claim[g].token
               /\ calls[a].at \in Working

Owned ==
  \A g \in Generation :
    claim[g].live /\ claim[g].token \in Token /\ g \notin known /\ g \notin orphan
      => \E a \in Actor : Owner(a, g)

\* What the queue holds is saved, but for the failed saves.
Saved ==
  /\ stored \subseteq known
  /\ known \subseteq stored \union unsaved
  /\ acked \subseteq stored \union unsaved

IntakeInv ==
  Types /\ CallsShaped /\ TokensUnique /\ Remembered /\ LiveHasToken /\ Owned /\ Saved

-----------------------------------------------------------------------------
(* Tokens *)

\* The image of a finite set is no larger than the set.
LEMMA ImageBound ==
  ASSUME NEW S, IsFiniteSet(S), NEW T, NEW f \in [S -> T], \A t \in T : \E s \in S : f[s] = t
  PROVE  IsFiniteSet(T) /\ Cardinality(T) <= Cardinality(S)
<1>1. f \in Surjection(S, T)
  BY DEF Surjection
<1>2. QED
  BY <1>1, FS_Surjection

\* There is always a token nobody has, so randomUUID() gives one.
LEMMA FreshTokenFacts ==
  ASSUME Types
  PROVE  FreshToken \in Token /\ FreshToken \notin InUse
<1> DEFINE A == {claim[g].token : g \in Generation}
           B == {claims[g] : g \in Generation}
           C == {calls[a].token : a \in Actor}
<1>1. IsFiniteSet(A) /\ Cardinality(A) <= Cardinality(Generation)
  <2> DEFINE f == [g \in Generation |-> claim[g].token]
  <2>1. f \in [Generation -> A] /\ \A t \in A : \E g \in Generation : f[g] = t
    OBVIOUS
  <2> HIDE DEF f, A
  <2>2. QED
    BY <2>1, ImageBound, TokenAssumption
<1>2. IsFiniteSet(B) /\ Cardinality(B) <= Cardinality(Generation)
  <2> DEFINE f == [g \in Generation |-> claims[g]]
  <2>1. f \in [Generation -> B] /\ \A t \in B : \E g \in Generation : f[g] = t
    OBVIOUS
  <2> HIDE DEF f, B
  <2>2. QED
    BY <2>1, ImageBound, TokenAssumption
<1>3. IsFiniteSet(C) /\ Cardinality(C) <= Cardinality(Actor)
  <2> DEFINE f == [a \in Actor |-> calls[a].token]
  <2>1. f \in [Actor -> C] /\ \A t \in C : \E a \in Actor : f[a] = t
    OBVIOUS
  <2> HIDE DEF f, C
  <2>2. QED
    BY <2>1, ImageBound, TokenAssumption
<1>4. InUse = (A \union B) \union C
  BY DEF InUse
<1> HIDE DEF A, B, C
<1>5. /\ IsFiniteSet(A \union B)
      /\ Cardinality(A \union B) = Cardinality(A) + Cardinality(B) - Cardinality(A \intersect B)
  BY <1>1, <1>2, FS_Union
<1>6. /\ IsFiniteSet(InUse)
      /\ Cardinality(InUse)
           = Cardinality(A \union B) + Cardinality(C) - Cardinality((A \union B) \intersect C)
  BY <1>3, <1>4, <1>5, FS_Union
<1>7. IsFiniteSet(A \intersect B) /\ IsFiniteSet((A \union B) \intersect C)
  BY <1>1, <1>5, FS_Subset
<1>8. /\ Cardinality(A) \in Nat /\ Cardinality(B) \in Nat /\ Cardinality(C) \in Nat
      /\ Cardinality(A \intersect B) \in Nat /\ Cardinality((A \union B) \intersect C) \in Nat
      /\ Cardinality(Generation) \in Nat /\ Cardinality(Actor) \in Nat
      /\ Cardinality(Token) \in Nat /\ Cardinality(InUse) \in Nat
  BY <1>1, <1>2, <1>3, <1>6, <1>7, TokenAssumption, FS_CardinalityType
<1>9. Cardinality(InUse) < Cardinality(Token)
  BY <1>1, <1>2, <1>3, <1>5, <1>6, <1>8, TokenAssumption
<1>10. ~(Token \subseteq InUse)
  BY <1>6, <1>8, <1>9, FS_Subset
<1>11. QED
  BY <1>10 DEF FreshToken

-----------------------------------------------------------------------------
(* Frames *)

\* The idle call, and a call made of its parts.
LEMMA IdleFacts == Idle \in CallRecord /\ Idle.at = "idle" /\ Idle.token = NoToken /\ Shaped(Idle)
BY DEF Idle, CallRecord, Shaped

\* One call is replaced.
LEMMA CallSet ==
  ASSUME Types, NEW a \in Actor, NEW c \in CallRecord, calls' = [calls EXCEPT ![a] = c]
  PROVE  /\ calls' \in [Actor -> CallRecord]
         /\ calls'[a] = c
         /\ \A b \in Actor \ {a} : calls'[b] = calls[b]
BY DEF Types

\* A call that keeps its token or drops it keeps the calls' tokens apart.
LEMMA CallChange ==
  ASSUME IntakeInv, NEW a \in Actor, NEW c \in CallRecord, Shaped(c),
         c.token \in {calls[a].token, NoToken}, calls' = [calls EXCEPT ![a] = c]
  PROVE  calls' \in [Actor -> CallRecord] /\ CallsShaped' /\ TokensUnique'
<1>1. Types /\ CallsShaped /\ TokensUnique
  BY DEF IntakeInv
<1>2. /\ calls' \in [Actor -> CallRecord] /\ calls'[a] = c
      /\ \A b \in Actor \ {a} : calls'[b] = calls[b]
  BY <1>1, CallSet
<1>3. CallsShaped'
  BY <1>1, <1>2 DEF CallsShaped, Shaped
<1>4. TokensUnique'
  <2> SUFFICES ASSUME NEW b \in Actor, NEW d \in Actor, b # d, calls'[b].token \in Token
               PROVE  calls'[b].token # calls'[d].token
    BY DEF TokensUnique
  <2>0. NoToken \notin Token
    BY IntakeAssumption
  <2>1. CASE b = a
    BY <2>0, <2>1, <1>1, <1>2 DEF TokensUnique
  <2>2. CASE d = a
    BY <2>0, <2>2, <1>1, <1>2 DEF TokensUnique
  <2>3. CASE b # a /\ d # a
    BY <2>3, <1>1, <1>2 DEF TokensUnique
  <2>4. QED
    BY <2>1, <2>2, <2>3
<1>5. QED
  BY <1>2, <1>3, <1>4

\* Nothing has happened yet.
LEMMA IntakeInit == Init => IntakeInv
<1> SUFFICES ASSUME Init PROVE IntakeInv
  OBVIOUS
<1>0. NoClaim \in ClaimRecord /\ NoClaim.live = FALSE /\ NoClaim.token = NoToken
  BY DEF NoClaim, ClaimRecord
<1>1. Types
  BY <1>0, IdleFacts DEF Init, Types
<1>2. \A a \in Actor : calls[a] = Idle
  BY DEF Init
<1>3. CallsShaped
  BY <1>2, IdleFacts DEF CallsShaped
<1>4. TokensUnique /\ Remembered
  BY <1>2, IdleFacts, IntakeAssumption DEF TokensUnique, Remembered, Holding
<1>5. \A g \in Generation : claim[g].live = FALSE
  BY <1>0 DEF Init
<1>6. LiveHasToken /\ Owned
  BY <1>5 DEF LiveHasToken, Owned
<1>7. Saved
  BY DEF Init, Saved
<1>8. QED
  BY <1>1, <1>3, <1>4, <1>6, <1>7 DEF IntakeInv

\* A step of call a that leaves the claims alone: the claims a owns are still
\* owned, queued or given up.
LEMMA OwnedKeeps ==
  ASSUME Owned, NEW a \in Actor, claim' = claim, known \subseteq known', orphan \subseteq orphan',
         \A b \in Actor \ {a} : calls'[b] = calls[b],
         \A g \in Generation : Owner(a, g) /\ claim[g].token \in Token
                               => Owner(a, g)' \/ g \in known' \/ g \in orphan'
  PROVE  Owned'
<1> SUFFICES ASSUME NEW g \in Generation, claim[g].live, claim[g].token \in Token,
                    g \notin known', g \notin orphan'
             PROVE  \E b \in Actor : Owner(b, g)'
  BY DEF Owned
<1>1. PICK b \in Actor : Owner(b, g)
  BY DEF Owned
<1>2. CASE b = a
  BY <1>1, <1>2
<1>3. CASE b # a
  <2>1. Owner(b, g)'
    BY <1>1, <1>3 DEF Owner
  <2>2. QED
    BY <2>1
<1>4. QED
  BY <1>2, <1>3

\* A step of call a that leaves both claims alone: only a's own token matters.
LEMMA RememberedKeeps ==
  ASSUME Remembered, NEW a \in Actor, claim' = claim, claims' = claims,
         \A b \in Actor \ {a} : calls'[b] = calls[b],
         calls'[a].at \in Holding /\ calls'[a].token \in Token
           => calls[a].at \in Holding /\ calls'[a].gen = calls[a].gen
              /\ calls'[a].token = calls[a].token
  PROVE  Remembered'
<1> SUFFICES ASSUME NEW b \in Actor, calls'[b].at \in Holding, calls'[b].token \in Token,
                    claim[calls'[b].gen].token = calls'[b].token
             PROVE  claims[calls'[b].gen] = calls'[b].token
  BY DEF Remembered
<1>1. CASE b = a
  BY <1>1 DEF Remembered
<1>2. CASE b # a
  BY <1>2 DEF Remembered
<1>3. QED
  BY <1>1, <1>2

-----------------------------------------------------------------------------
(* The actions *)

\* A new call has a token nobody has, or none.
LEMMA BeginInv ==
  ASSUME IntakeInv, NEW a \in Actor, NEW g \in Generation, Begin(a, g)
  PROVE  IntakeInv'
<1>0. /\ Types /\ CallsShaped /\ TokensUnique /\ Remembered /\ LiveHasToken /\ Owned
      /\ Saved
  BY DEF IntakeInv
<1>1. /\ calls[a] = Idle /\ claim' = claim /\ claims' = claims /\ known' = known
      /\ stored' = stored /\ acked' = acked /\ unsaved' = unsaved /\ orphan' = orphan
  BY DEF Begin
<1>2. /\ calls' \in [Actor -> CallRecord] /\ CallsShaped' /\ TokensUnique'
      /\ \A b \in Actor \ {a} : calls'[b] = calls[b]
      /\ calls'[a].at \in {"claim", "duplicate"}
  <2>1. CASE calls' = [calls EXCEPT ![a] = [at |-> "claim", gen |-> g, token |-> FreshToken]]
    <3> DEFINE c == [at |-> "claim", gen |-> g, token |-> FreshToken]
    <3>1. FreshToken \in Token /\ \A b \in Actor : FreshToken # calls[b].token
      BY <1>0, FreshTokenFacts DEF InUse
    <3>2. c \in CallRecord /\ Shaped(c) /\ c.token = FreshToken /\ c.at = "claim"
      BY <3>1 DEF CallRecord, Shaped
    <3> HIDE DEF c
    <3>3. /\ calls' \in [Actor -> CallRecord] /\ calls'[a] = c
          /\ \A b \in Actor \ {a} : calls'[b] = calls[b]
      BY <2>1, <3>2, <1>0, CallSet DEF c
    <3>4. CallsShaped'
      BY <3>2, <3>3, <1>0 DEF CallsShaped, Shaped
    <3>5. TokensUnique'
      BY <3>1, <3>2, <3>3, <1>0 DEF TokensUnique
    <3>6. QED
      BY <3>2, <3>3, <3>4, <3>5
  <2>2. CASE calls' = [calls EXCEPT ![a] = [at |-> "duplicate", gen |-> g, token |-> NoToken]]
    <3> DEFINE c == [at |-> "duplicate", gen |-> g, token |-> NoToken]
    <3>1. c \in CallRecord /\ Shaped(c) /\ c.token = NoToken /\ c.at = "duplicate"
      BY DEF CallRecord, Shaped
    <3> HIDE DEF c
    <3>2. calls' = [calls EXCEPT ![a] = c]
      BY <2>2 DEF c
    <3>3. QED
      BY <3>1, <3>2, <1>0, CallChange, CallSet
  <2>3. QED
    BY <2>1, <2>2 DEF Begin
<1>3. Types' /\ LiveHasToken' /\ Saved'
  BY <1>0, <1>1, <1>2 DEF Types, LiveHasToken, Saved
<1>4. Remembered'
  BY <1>0, <1>1, <1>2, RememberedKeeps DEF Holding
<1>5. \A h \in Generation : ~Owner(a, h)
  BY <1>1, IdleFacts DEF Owner, Working
<1>6. Owned'
  BY <1>0, <1>1, <1>2, <1>5, OwnedKeeps
<1>7. QED
  BY <1>2, <1>3, <1>4, <1>6 DEF IntakeInv

\* The call moves on with its generation and token.
LEMMA GotoFacts ==
  ASSUME Types, NEW a \in Actor, NEW point,
         point \in {"prove", "handoff", "release", "release again"},
         calls[a].at # "idle", calls[a].at # "duplicate" \/ point = "release",
         CallsShaped, point \in {"prove", "handoff"} => calls[a].token \in Token,
         Goto(a, point)
  PROVE  \E c \in CallRecord :
           /\ calls' = [calls EXCEPT ![a] = c] /\ Shaped(c)
           /\ c.at = point /\ c.gen = calls[a].gen /\ c.token = calls[a].token
<1> DEFINE c == [calls[a] EXCEPT !.at = point]
<1>1. calls[a] \in CallRecord /\ Shaped(calls[a])
  BY DEF Types, CallsShaped
<1>2. c \in CallRecord /\ c.at = point /\ c.gen = calls[a].gen /\ c.token = calls[a].token
  BY <1>1 DEF CallRecord
<1>3. Shaped(c)
  BY <1>1, <1>2 DEF Shaped
<1>4. calls' = [calls EXCEPT ![a] = c]
  BY DEF Goto
<1> HIDE DEF c
<1>5. QED
  BY <1>2, <1>3, <1>4

\* A call that is no reservation is a duplicate without a token, or is over.
LEMMA NotReservedFacts ==
  ASSUME Types, NEW a \in Actor, calls[a].at # "idle", CallsShaped,
         NotReserved(a) \/ Return(a)
  PROVE  \E c \in CallRecord :
           /\ calls' = [calls EXCEPT ![a] = c] /\ Shaped(c)
           /\ c.at \in {"duplicate", "idle"} /\ c.token = NoToken
<1>1. calls[a] \in CallRecord /\ Shaped(calls[a])
  BY DEF Types, CallsShaped
<1>2. CASE calls' = [calls EXCEPT ![a].at = "duplicate", ![a].token = NoToken]
  <2> DEFINE c == [calls[a] EXCEPT !.at = "duplicate", !.token = NoToken]
  <2>1. c \in CallRecord /\ c.at = "duplicate" /\ c.token = NoToken /\ c.gen = calls[a].gen
    BY <1>1 DEF CallRecord
  <2>2. Shaped(c)
    BY <2>1, <1>1 DEF Shaped
  <2>3. calls' = [calls EXCEPT ![a] = c]
    BY <1>2
  <2> HIDE DEF c
  <2>4. QED
    BY <2>1, <2>2, <2>3
<1>3. CASE Return(a)
  BY <1>3, IdleFacts DEF Return
<1>4. QED
  BY <1>2, <1>3 DEF NotReserved

\* The claim is written with the caller's token: the caller owns it from then.
LEMMA ClaimedOwned ==
  ASSUME IntakeInv, NEW a \in Actor, NEW g \in Generation, NEW c \in CallRecord,
         calls[a].gen = g, calls[a].token \in Token,
         calls' = [calls EXCEPT ![a] = c], c.gen = g, c.token = calls[a].token,
         c.at \in {"handoff", "prove"},
         claim' = [claim EXCEPT ![g] = [token |-> calls[a].token, live |-> TRUE]],
         claims' \in [Generation -> Token \union {NoToken}],
         \A h \in Generation \ {g} : claims'[h] = claims[h],
         c.at = "handoff" => claims'[g] = calls[a].token,
         known' = known, orphan' = orphan \ {g}
  PROVE  /\ claim' \in [Generation -> ClaimRecord]
         /\ Remembered' /\ LiveHasToken' /\ Owned'
<1>0. Types /\ CallsShaped /\ TokensUnique /\ Remembered /\ LiveHasToken /\ Owned
  BY DEF IntakeInv
<1> DEFINE new == [token |-> calls[a].token, live |-> TRUE]
<1>1. new \in ClaimRecord /\ new.token = calls[a].token /\ new.live = TRUE
  BY DEF ClaimRecord
<1> HIDE DEF new
<1>2. /\ claim' \in [Generation -> ClaimRecord] /\ claim'[g] = new
      /\ \A h \in Generation \ {g} : claim'[h] = claim[h]
  BY <1>0, <1>1 DEF Types, new
<1>3. /\ calls' \in [Actor -> CallRecord] /\ calls'[a] = c
      /\ \A b \in Actor \ {a} : calls'[b] = calls[b]
  BY <1>0, CallSet
<1>4. Remembered'
  <2> SUFFICES ASSUME NEW b \in Actor, calls'[b].at \in Holding, calls'[b].token \in Token,
                      claim'[calls'[b].gen].token = calls'[b].token
               PROVE  claims'[calls'[b].gen] = calls'[b].token
    BY DEF Remembered
  <2>1. CASE b = a
    BY <2>1, <1>3 DEF Holding
  <2>2. CASE b # a
    <3>1. calls'[b] = calls[b] /\ calls[b].token # calls[a].token
      BY <2>2, <1>0, <1>3 DEF TokensUnique
    <3>2. calls[b].gen \in Generation
      BY <3>1, <1>0 DEF CallsShaped, Shaped, Holding
    <3>3. calls[b].gen # g
      BY <3>1, <1>1, <1>2
    <3>4. QED
      BY <3>1, <3>2, <3>3, <1>0, <1>2 DEF Remembered
  <2>3. QED
    BY <2>1, <2>2
<1>5. LiveHasToken'
  BY <1>0, <1>1, <1>2, IntakeAssumption DEF LiveHasToken
<1>6. Owned'
  <2> SUFFICES ASSUME NEW h \in Generation, claim'[h].live, claim'[h].token \in Token,
                      h \notin known', h \notin orphan'
               PROVE  \E b \in Actor : Owner(b, h)'
    BY DEF Owned
  <2>1. CASE h = g
    <3>1. Owner(a, g)'
      BY <1>1, <1>2, <1>3 DEF Owner, Working
    <3>2. QED
      BY <2>1, <3>1
  <2>2. CASE h # g
    <3>1. PICK b \in Actor : Owner(b, h)
      BY <2>2, <1>0, <1>2 DEF Owned
    <3>2. b # a
      BY <3>1, <2>2 DEF Owner
    <3>3. Owner(b, h)'
      BY <2>2, <3>1, <3>2, <1>2, <1>3 DEF Owner
    <3>4. QED
      BY <3>3
  <2>3. QED
    BY <2>1, <2>2
<1>7. QED
  BY <1>2, <1>4, <1>5, <1>6

\* A claim is applied, refused, or its answer is lost.
LEMMA ClaimInv == ASSUME IntakeInv, NEW a \in Actor, Claim(a) PROVE IntakeInv'
<1>0. /\ Types /\ CallsShaped /\ TokensUnique /\ Remembered /\ LiveHasToken /\ Owned
      /\ Saved
  BY DEF IntakeInv
<1>1. /\ calls[a].at = "claim" /\ known' = known /\ stored' = stored /\ acked' = acked
      /\ unsaved' = unsaved
  BY DEF Claim
<1>2. PICK g \in Generation : g = calls[a].gen
  BY <1>0, <1>1 DEF CallsShaped, Shaped
<1>3. calls[a].token \in Token
  BY <1>0, <1>1 DEF CallsShaped, Shaped
<1>4. Saved' /\ known' \subseteq Generation /\ stored' \subseteq Generation
  BY <1>0, <1>1 DEF Saved, Types
<1>5. \A h \in Generation : ~Owner(a, h)
  BY <1>1 DEF Owner, Working
<1>6. CASE Claimed(a) /\ Reserved(a) /\ orphan' = orphan \ {g}
  <2>1. PICK c \in CallRecord :
          /\ calls' = [calls EXCEPT ![a] = c] /\ Shaped(c)
          /\ c.at = "handoff" /\ c.gen = calls[a].gen /\ c.token = calls[a].token
    BY <1>0, <1>1, <1>3, <1>6, GotoFacts DEF Reserved
  <2>2. calls' \in [Actor -> CallRecord] /\ CallsShaped' /\ TokensUnique'
    BY <2>1, CallChange
  <2>3. /\ claims' \in [Generation -> Token \union {NoToken}]
        /\ claims'[g] = calls[a].token
        /\ \A h \in Generation \ {g} : claims'[h] = claims[h]
    BY <1>0, <1>2, <1>3, <1>6 DEF Types, Reserved
  <2>4. claim' = [claim EXCEPT ![g] = [token |-> calls[a].token, live |-> TRUE]]
    BY <1>2, <1>6 DEF Claimed
  <2>5. claim' \in [Generation -> ClaimRecord] /\ Remembered' /\ LiveHasToken' /\ Owned'
    BY <2>1, <2>3, <2>4, <1>1, <1>2, <1>3, <1>6, ClaimedOwned
  <2>6. QED
    BY <2>2, <2>3, <2>5, <1>4 DEF IntakeInv, Types
<1>7. CASE NotReserved(a) /\ UNCHANGED <<claim, claims, orphan>>
  <2>1. PICK c \in CallRecord :
          /\ calls' = [calls EXCEPT ![a] = c] /\ Shaped(c)
          /\ c.at \in {"duplicate", "idle"} /\ c.token = NoToken
    BY <1>0, <1>1, <1>7, NotReservedFacts
  <2>2. calls' \in [Actor -> CallRecord] /\ CallsShaped' /\ TokensUnique'
    BY <2>1, CallChange
  <2>3. calls'[a] = c /\ \A b \in Actor \ {a} : calls'[b] = calls[b]
    BY <2>1, <1>0, CallSet
  <2>4. Remembered' /\ Owned'
    BY <2>1, <2>3, <1>0, <1>1, <1>5, <1>7, RememberedKeeps, OwnedKeeps DEF Holding
  <2>5. QED
    BY <2>2, <2>4, <1>0, <1>4, <1>7 DEF IntakeInv, Types, LiveHasToken
<1>8. CASE Claimed(a) /\ Goto(a, "prove") /\ orphan' = orphan \ {g} /\ claims' = claims
  <2>1. PICK c \in CallRecord :
          /\ calls' = [calls EXCEPT ![a] = c] /\ Shaped(c)
          /\ c.at = "prove" /\ c.gen = calls[a].gen /\ c.token = calls[a].token
    BY <1>0, <1>1, <1>3, <1>8, GotoFacts
  <2>2. calls' \in [Actor -> CallRecord] /\ CallsShaped' /\ TokensUnique'
    BY <2>1, CallChange
  <2>3. claims' \in [Generation -> Token \union {NoToken}]
    BY <1>0, <1>8 DEF Types
  <2>4. claim' = [claim EXCEPT ![g] = [token |-> calls[a].token, live |-> TRUE]]
    BY <1>2, <1>8 DEF Claimed
  <2>5. claim' \in [Generation -> ClaimRecord] /\ Remembered' /\ LiveHasToken' /\ Owned'
    BY <2>1, <2>3, <2>4, <1>1, <1>2, <1>3, <1>8, ClaimedOwned
  <2>6. QED
    BY <2>2, <2>3, <2>5, <1>4 DEF IntakeInv, Types
<1>9. CASE Goto(a, "prove") /\ UNCHANGED <<claim, claims, orphan>>
  <2>1. PICK c \in CallRecord :
          /\ calls' = [calls EXCEPT ![a] = c] /\ Shaped(c)
          /\ c.at = "prove" /\ c.gen = calls[a].gen /\ c.token = calls[a].token
    BY <1>0, <1>1, <1>3, <1>9, GotoFacts
  <2>2. calls' \in [Actor -> CallRecord] /\ CallsShaped' /\ TokensUnique'
    BY <2>1, CallChange
  <2>3. calls'[a] = c /\ \A b \in Actor \ {a} : calls'[b] = calls[b]
    BY <2>1, <1>0, CallSet
  <2>4. Remembered' /\ Owned'
    BY <2>1, <2>3, <1>0, <1>1, <1>5, <1>9, RememberedKeeps, OwnedKeeps DEF Holding
  <2>5. QED
    BY <2>2, <2>4, <1>0, <1>4, <1>9 DEF IntakeInv, Types, LiveHasToken
<1>10. QED
  BY <1>2, <1>6, <1>7, <1>8, <1>9 DEF Claim

\* After a lost answer: the call has its claim, or it never had one, or the claim
\* is given up.
LEMMA ProveInv == ASSUME IntakeInv, NEW a \in Actor, Prove(a) PROVE IntakeInv'
<1>0. /\ Types /\ CallsShaped /\ TokensUnique /\ Remembered /\ LiveHasToken /\ Owned
      /\ Saved
  BY DEF IntakeInv
<1>1. /\ calls[a].at = "prove" /\ known' = known /\ stored' = stored /\ acked' = acked
      /\ unsaved' = unsaved /\ claim' = claim
  BY DEF Prove
<1>2. PICK g \in Generation : g = calls[a].gen
  BY <1>0, <1>1 DEF CallsShaped, Shaped
<1>3. calls[a].token \in Token
  BY <1>0, <1>1 DEF CallsShaped, Shaped
<1>4. Saved' /\ LiveHasToken'
  BY <1>0, <1>1 DEF Saved, LiveHasToken
<1>5. CASE claim[g].token = calls[a].token /\ Reserved(a) /\ orphan' = orphan
  <2>1. PICK c \in CallRecord :
          /\ calls' = [calls EXCEPT ![a] = c] /\ Shaped(c)
          /\ c.at = "handoff" /\ c.gen = calls[a].gen /\ c.token = calls[a].token
    BY <1>0, <1>1, <1>3, <1>5, GotoFacts DEF Reserved
  <2>2. calls' \in [Actor -> CallRecord] /\ CallsShaped' /\ TokensUnique'
    BY <2>1, CallChange
  <2>3. calls'[a] = c /\ \A b \in Actor \ {a} : calls'[b] = calls[b]
    BY <2>1, <1>0, CallSet
  <2>4. /\ claims' \in [Generation -> Token \union {NoToken}]
        /\ claims'[g] = calls[a].token
        /\ \A h \in Generation \ {g} : claims'[h] = claims[h]
    BY <1>0, <1>2, <1>3, <1>5 DEF Types, Reserved
  <2>5. Remembered'
    <3> SUFFICES ASSUME NEW b \in Actor, calls'[b].at \in Holding, calls'[b].token \in Token,
                        claim[calls'[b].gen].token = calls'[b].token
                 PROVE  claims'[calls'[b].gen] = calls'[b].token
      BY <1>1 DEF Remembered
    <3>1. CASE b = a
      BY <3>1, <2>1, <2>3, <2>4, <1>2
    <3>2. CASE b # a
      <4>1. calls'[b] = calls[b] /\ calls[b].token # calls[a].token
        BY <3>2, <1>0, <2>3 DEF TokensUnique
      <4>2. calls[b].gen \in Generation \ {g}
        BY <4>1, <1>0, <1>5 DEF CallsShaped, Shaped, Holding
      <4>3. QED
        BY <4>1, <4>2, <2>4, <1>0 DEF Remembered
    <3>3. QED
      BY <3>1, <3>2
  <2>6. \A h \in Generation : Owner(a, h) => Owner(a, h)'
    BY <2>1, <2>3, <1>1 DEF Owner, Working
  <2>7. Owned'
    BY <2>3, <2>6, <1>0, <1>1, <1>5, OwnedKeeps
  <2>8. QED
    BY <2>2, <2>4, <2>5, <2>7, <1>0, <1>1, <1>4 DEF IntakeInv, Types
<1>6. CASE /\ NotReserved(a) \/ Return(a)
           /\ claims' = claims /\ orphan \subseteq orphan'
           /\ claim[g].token = calls[a].token => g \in orphan'
  <2>1. PICK c \in CallRecord :
          /\ calls' = [calls EXCEPT ![a] = c] /\ Shaped(c)
          /\ c.at \in {"duplicate", "idle"} /\ c.token = NoToken
    BY <1>0, <1>1, <1>6, NotReservedFacts
  <2>2. calls' \in [Actor -> CallRecord] /\ CallsShaped' /\ TokensUnique'
    BY <2>1, CallChange
  <2>3. calls'[a] = c /\ \A b \in Actor \ {a} : calls'[b] = calls[b]
    BY <2>1, <1>0, CallSet
  <2>4. \A h \in Generation : Owner(a, h) => h \in orphan'
    BY <1>2, <1>6 DEF Owner
  <2>5. Remembered' /\ Owned'
    BY <2>1, <2>3, <2>4, <1>0, <1>1, <1>6, RememberedKeeps, OwnedKeeps DEF Holding
  <2>6. QED
    BY <2>2, <2>5, <1>0, <1>1, <1>4, <1>6 DEF IntakeInv, Types
<1>7. CASE claim[g].token # calls[a].token /\ (NotReserved(a) \/ Return(a))
           /\ UNCHANGED <<claims, orphan>>
  BY <1>6, <1>7
<1>8. CASE /\ Return(a) /\ claims' = claims
           /\ orphan' = IF claim[g].token = calls[a].token THEN orphan \union {g} ELSE orphan
  BY <1>6, <1>8
<1>9. NoToken # calls[a].token
  BY <1>3, IntakeAssumption
<1>10. \/ claim[g].token = calls[a].token /\ Reserved(a) /\ UNCHANGED <<orphan, faults>>
       \/ /\ claim[g].token \notin {NoToken, calls[a].token}
          /\ NotReserved(a)
          /\ UNCHANGED <<claims, orphan, faults>>
       \/ claim[g].token = NoToken /\ Return(a) /\ UNCHANGED <<claims, orphan, faults>>
       \/ /\ Return(a)
          /\ orphan' = IF claim[g].token = calls[a].token THEN orphan \union {g} ELSE orphan
          /\ UNCHANGED claims
  BY <1>2 DEF Prove
<1>11. QED
  BY <1>5, <1>7, <1>8, <1>9, <1>10

\* An enqueue queues the generation, or the call goes on to release its claim.
LEMMA EnqueueInv ==
  ASSUME IntakeInv, NEW a \in Actor, calls[a].at \in {"duplicate", "handoff"},
         EnqueueGeneration(a), UNCHANGED <<claim, claims, orphan>>
  PROVE  IntakeInv'
<1>0. /\ Types /\ CallsShaped /\ TokensUnique /\ Remembered /\ LiveHasToken /\ Owned
      /\ Saved
  BY DEF IntakeInv
<1>1. PICK g \in Generation : g = calls[a].gen
  BY <1>0 DEF CallsShaped, Shaped
<1>2. LiveHasToken'
  BY <1>0 DEF LiveHasToken
<1>3. CASE /\ Ack(a) /\ Return(a)
           /\ known' = known \union {g}
           /\ stored' = IF g \in known THEN stored ELSE known \union {g}
           /\ UNCHANGED unsaved
  <2>1. calls' = [calls EXCEPT ![a] = Idle]
    BY <1>3 DEF Return
  <2>2. calls' \in [Actor -> CallRecord] /\ CallsShaped' /\ TokensUnique'
    BY <2>1, CallChange, IdleFacts
  <2>3. calls'[a] = Idle /\ \A b \in Actor \ {a} : calls'[b] = calls[b]
    BY <2>1, <1>0, CallSet, IdleFacts
  <2>4. \A h \in Generation : Owner(a, h) => h \in known'
    BY <1>1, <1>3 DEF Owner
  <2>5. Remembered' /\ Owned'
    BY <2>3, <2>4, <1>0, <1>3, IdleFacts, RememberedKeeps, OwnedKeeps DEF Holding
  <2>6. Saved' /\ known' \subseteq Generation /\ stored' \subseteq Generation
    BY <1>0, <1>1, <1>3 DEF Saved, Ack, Types
  <2>7. QED
    BY <2>2, <2>5, <2>6, <1>0, <1>2 DEF IntakeInv, Types
<1>4. CASE /\ Goto(a, "release")
           /\ known' \in {known, known \union {g}} /\ known' \subseteq known \union unsaved'
           /\ unsaved \subseteq unsaved' /\ stored' = stored /\ acked' = acked
  <2>1. PICK c \in CallRecord :
          /\ calls' = [calls EXCEPT ![a] = c] /\ Shaped(c)
          /\ c.at = "release" /\ c.gen = calls[a].gen /\ c.token = calls[a].token
    BY <1>0, <1>4, GotoFacts
  <2>2. calls' \in [Actor -> CallRecord] /\ CallsShaped' /\ TokensUnique'
    BY <2>1, CallChange
  <2>3. calls'[a] = c /\ \A b \in Actor \ {a} : calls'[b] = calls[b]
    BY <2>1, <1>0, CallSet
  <2>4. \A h \in Generation : Owner(a, h) => Owner(a, h)'
    BY <2>1, <2>3 DEF Owner, Working
  <2>5. calls[a].token \in Token => calls[a].at \in Holding
    BY <1>0, IntakeAssumption DEF CallsShaped, Shaped, Holding
  <2>6. Remembered'
    BY <2>1, <2>3, <2>5, <1>0, RememberedKeeps
  <2>7. Owned'
    BY <2>3, <2>4, <1>0, <1>4, OwnedKeeps
  <2>8. Saved' /\ known' \subseteq Generation /\ stored' \subseteq Generation
    BY <1>0, <1>1, <1>4 DEF Saved, Types
  <2>9. QED
    BY <2>2, <2>6, <2>7, <2>8, <1>0, <1>2 DEF IntakeInv, Types
<1>5. CASE Goto(a, "release") /\ UNCHANGED <<known, stored, acked, unsaved>>
  BY <1>4, <1>5
<1>6. CASE /\ Goto(a, "release") /\ known' = known \union {g} /\ unsaved' = unsaved \union {g}
           /\ UNCHANGED <<stored, acked>>
  BY <1>4, <1>6
<1>7. QED
  BY <1>1, <1>3, <1>5, <1>6 DEF EnqueueGeneration

\* A duplicate the queue knows is answered; the queue holds it.
LEMMA DuplicateInv == ASSUME IntakeInv, NEW a \in Actor, Duplicate(a) PROVE IntakeInv'
<1>0. /\ Types /\ CallsShaped /\ TokensUnique /\ Remembered /\ LiveHasToken /\ Owned
      /\ Saved
  BY DEF IntakeInv
<1>1. CASE EnqueueGeneration(a)
  BY <1>1, EnqueueInv DEF Duplicate
<1>2. CASE /\ calls[a].gen \in known /\ Ack(a) /\ Return(a)
           /\ UNCHANGED <<known, stored, unsaved, claim, claims, orphan>>
  <2>1. calls' = [calls EXCEPT ![a] = Idle] /\ calls[a].at = "duplicate"
    BY <1>2 DEF Return, Duplicate
  <2>2. calls' \in [Actor -> CallRecord] /\ CallsShaped' /\ TokensUnique'
    BY <2>1, CallChange, IdleFacts
  <2>3. calls'[a] = Idle /\ \A b \in Actor \ {a} : calls'[b] = calls[b]
    BY <2>1, <1>0, CallSet, IdleFacts
  <2>4. \A h \in Generation : ~Owner(a, h)
    BY <2>1 DEF Owner, Working
  <2>5. Remembered' /\ Owned'
    BY <2>3, <2>4, <1>0, <1>2, IdleFacts, RememberedKeeps, OwnedKeeps DEF Holding
  <2>6. Saved' /\ LiveHasToken'
    BY <1>0, <1>2 DEF Saved, Ack, LiveHasToken
  <2>7. QED
    BY <2>2, <2>5, <2>6, <1>0, <1>2 DEF IntakeInv, Types
<1>3. QED
  BY <1>1, <1>2 DEF Duplicate

\* A release ends the call or comes back once more, with the same token.
LEMMA AfterReleaseFacts ==
  ASSUME Types, CallsShaped, NEW a \in Actor, calls[a].at \in {"release", "release again"},
         AfterRelease(a)
  PROVE  \E c \in CallRecord :
           /\ calls' = [calls EXCEPT ![a] = c] /\ Shaped(c)
           /\ \/ c = Idle
              \/ c.at = "release again" /\ c.gen = calls[a].gen /\ c.token = calls[a].token
<1>1. CASE Goto(a, "release again")
  BY <1>1, GotoFacts
<1>2. CASE Return(a)
  BY <1>2, IdleFacts DEF Return
<1>3. QED
  BY <1>1, <1>2 DEF AfterRelease

\* What a release deletes is the process's own claim or an expired one.
LEMMA RemoveInv == ASSUME IntakeInv, NEW a \in Actor, Remove(a) PROVE IntakeInv'
<1>0. /\ Types /\ CallsShaped /\ TokensUnique /\ Remembered /\ LiveHasToken /\ Owned
      /\ Saved
  BY DEF IntakeInv
<1>1. /\ calls[a].at \in {"release", "release again"} /\ known' = known /\ stored' = stored
      /\ acked' = acked /\ unsaved' = unsaved /\ AfterRelease(a)
  BY DEF Remove
<1>2. PICK g \in Generation : g = calls[a].gen
  BY <1>0, <1>1 DEF CallsShaped, Shaped
<1>3. PICK c \in CallRecord :
        /\ calls' = [calls EXCEPT ![a] = c] /\ Shaped(c)
        /\ \/ c = Idle
           \/ c.at = "release again" /\ c.gen = calls[a].gen /\ c.token = calls[a].token
  BY <1>0, <1>1, AfterReleaseFacts
<1>4. calls' \in [Actor -> CallRecord] /\ CallsShaped' /\ TokensUnique'
  BY <1>3, CallChange, IdleFacts
<1>5. calls'[a] = c /\ \A b \in Actor \ {a} : calls'[b] = calls[b]
  BY <1>3, <1>0, CallSet
<1>6. NoClaim \in ClaimRecord /\ NoClaim.live = FALSE /\ NoClaim.token = NoToken
      /\ NoToken \notin Token
  BY IntakeAssumption DEF NoClaim, ClaimRecord
<1>7. /\ claim' \in [Generation -> ClaimRecord]
      /\ claims' \in [Generation -> Token \union {NoToken}]
      /\ \A h \in Generation \ {g} : claim'[h] = claim[h] /\ claims'[h] = claims[h]
      /\ claim'[g] = NoClaim \/ claim'[g] = claim[g]
      /\ orphan \subseteq orphan'
      /\ \/ claims'[g] = claims[g] /\ claims[g] = NoToken
         \/ claims'[g] = claims[g] /\ g \in orphan'
         \/ claim'[g] = NoClaim
         \/ claim[g].token # claims[g]
  <2>1. CASE claims[g] = NoToken /\ UNCHANGED <<claim, claims, orphan>>
    BY <2>1, <1>0, <1>2 DEF Types
  <2>2. CASE Released(g) /\ claims' = [claims EXCEPT ![g] = NoToken] /\ orphan' = orphan
    <3>1. CASE Releasable(g, claims[g])
      BY <3>1, <2>2, <1>0, <1>6 DEF Types, Released
    <3>2. CASE ~Releasable(g, claims[g])
      BY <3>2, <2>2, <1>0 DEF Types, Released, Releasable
    <3>3. QED
      BY <3>1, <3>2
  <2>3. CASE (Released(g) \/ claim' = claim) /\ orphan' = orphan \union {g} /\ claims' = claims
    <3>1. claim' = claim \/ claim' = [claim EXCEPT ![g] = NoClaim]
      BY <2>3 DEF Released
    <3>2. QED
      BY <3>1, <2>3, <1>0, <1>6 DEF Types
  <2>4. QED
    BY <2>1, <2>2, <2>3, <1>2 DEF Remove
<1>8. ASSUME NEW b \in Actor, calls'[b].at \in Holding, calls'[b].token \in Token
      PROVE  /\ calls[b].at \in Holding /\ calls'[b].token = calls[b].token
             /\ calls'[b].gen = calls[b].gen /\ calls[b].gen \in Generation
  BY <1>0, <1>1, <1>3, <1>5, <1>8, IdleFacts DEF Holding, CallsShaped, Shaped
<1>9. Remembered'
  <2> SUFFICES ASSUME NEW b \in Actor, calls'[b].at \in Holding, calls'[b].token \in Token,
                      claim'[calls'[b].gen].token = calls'[b].token
               PROVE  claims'[calls'[b].gen] = calls'[b].token
    BY DEF Remembered
  <2>1. /\ calls[b].at \in Holding /\ calls'[b].token = calls[b].token
        /\ calls'[b].gen = calls[b].gen /\ calls[b].gen \in Generation
    BY <1>8
  <2>2. CASE calls[b].gen # g
    BY <2>1, <2>2, <1>0, <1>7 DEF Remembered
  <2>3. CASE calls[b].gen = g
    <3>1. claim'[g] = claim[g]
      BY <2>1, <2>3, <1>6, <1>7
    <3>2. claims[g] = calls[b].token /\ claim[g].token = calls[b].token
      BY <2>1, <2>3, <3>1, <1>0 DEF Remembered
    <3>3. QED
      BY <2>1, <2>3, <3>1, <3>2, <1>6, <1>7
  <2>4. QED
    BY <2>2, <2>3
<1>10. LiveHasToken'
  BY <1>0, <1>6, <1>7 DEF LiveHasToken
<1>11. Owned'
  <2> SUFFICES ASSUME NEW h \in Generation, claim'[h].live, claim'[h].token \in Token,
                      h \notin known', h \notin orphan'
               PROVE  \E b \in Actor : Owner(b, h)'
    BY DEF Owned
  <2>1. claim'[h] = claim[h]
    BY <1>6, <1>7
  <2>2. PICK b \in Actor : Owner(b, h)
    BY <2>1, <1>0, <1>1, <1>7 DEF Owned
  <2>3. h # g \/ b # a
    <3> SUFFICES ASSUME h = g, b = a PROVE FALSE
      OBVIOUS
    <3>1. calls[a].token = claim[g].token /\ calls[a].at \in Holding /\ calls[a].token \in Token
      BY <2>1, <2>2, <1>1 DEF Owner, Holding
    <3>2. claims[g] = calls[a].token
      BY <3>1, <1>0, <1>2 DEF Remembered
    <3>3. QED
      BY <3>1, <3>2, <2>1, <1>6, <1>7
  <2>4. b # a
    BY <2>2, <2>3, <1>2 DEF Owner
  <2>5. Owner(b, h)'
    BY <2>1, <2>2, <2>4, <1>5 DEF Owner
  <2>6. QED
    BY <2>5
<1>12. QED
  BY <1>0, <1>1, <1>4, <1>7, <1>9, <1>10, <1>11 DEF IntakeInv, Types, Saved

-----------------------------------------------------------------------------
(* Time, the queue, another instance, crashes *)

\* An expired claim keeps its token; a foreign one has none of ours.
LEMMA KeyChangeInv ==
  ASSUME IntakeInv, NEW g \in Generation, Expire(g) \/ ForeignClaim(g)
  PROVE  IntakeInv'
<1>0. /\ Types /\ CallsShaped /\ TokensUnique /\ Remembered /\ LiveHasToken /\ Owned
      /\ Saved
  BY DEF IntakeInv
<1>1. /\ claims' = claims /\ known' = known /\ stored' = stored /\ calls' = calls
      /\ acked' = acked /\ unsaved' = unsaved /\ orphan' = orphan
  BY DEF Expire, ForeignClaim
<1>2. /\ claim' \in [Generation -> ClaimRecord]
      /\ \A h \in Generation \ {g} : claim'[h] = claim[h]
      /\ \/ claim'[g].token = claim[g].token /\ claim'[g].live = FALSE
         \/ claim'[g].token = Foreign
  <2>1. CASE Expire(g)
    <3> DEFINE c == [claim[g] EXCEPT !.live = FALSE]
    <3>1. claim[g] \in ClaimRecord
      BY <1>0 DEF Types
    <3>2. c \in ClaimRecord /\ c.token = claim[g].token /\ c.live = FALSE
      BY <3>1 DEF ClaimRecord
    <3>3. claim' = [claim EXCEPT ![g] = c]
      BY <2>1 DEF Expire
    <3> HIDE DEF c
    <3>4. QED
      BY <3>2, <3>3, <1>0 DEF Types
  <2>2. CASE ForeignClaim(g)
    <3> DEFINE c == [token |-> Foreign, live |-> TRUE]
    <3>1. c \in ClaimRecord /\ c.token = Foreign
      BY DEF ClaimRecord
    <3>2. claim' = [claim EXCEPT ![g] = c]
      BY <2>2 DEF ForeignClaim
    <3> HIDE DEF c
    <3>3. QED
      BY <3>1, <3>2, <1>0 DEF Types
  <2>3. QED
    BY <2>1, <2>2
<1>3. LiveHasToken'
  BY <1>0, <1>2, IntakeAssumption DEF LiveHasToken
<1>4. Remembered'
  <2> SUFFICES ASSUME NEW b \in Actor, calls[b].at \in Holding, calls[b].token \in Token,
                      claim'[calls[b].gen].token = calls[b].token
               PROVE  claims[calls[b].gen] = calls[b].token
    BY <1>1 DEF Remembered
  <2>1. calls[b].gen \in Generation
    BY <1>0 DEF CallsShaped, Shaped, Holding
  <2>2. claim[calls[b].gen].token = calls[b].token
    BY <2>1, <1>2, IntakeAssumption
  <2>3. QED
    BY <2>2, <1>0 DEF Remembered
<1>5. Owned'
  <2> SUFFICES ASSUME NEW h \in Generation, claim'[h].live, claim'[h].token \in Token,
                      h \notin known', h \notin orphan'
               PROVE  \E b \in Actor : Owner(b, h)'
    BY DEF Owned
  <2>1. claim'[h] = claim[h]
    BY <1>2, IntakeAssumption
  <2>2. QED
    BY <2>1, <1>0, <1>1 DEF Owned, Owner
<1>6. QED
  BY <1>0, <1>1, <1>2, <1>3, <1>4, <1>5
     DEF IntakeInv, Types, CallsShaped, TokensUnique, Saved

\* A later save stores what the queue holds.
LEMMA SaveLaterInv == ASSUME IntakeInv, SaveLater \/ UNCHANGED vars PROVE IntakeInv'
<1>1. /\ claim' = claim /\ claims' = claims /\ known' = known /\ calls' = calls
      /\ acked' = acked /\ unsaved' = unsaved /\ orphan' = orphan
      /\ stored' \in {known, stored}
  BY DEF SaveLater, vars
<1>2. Types' /\ Saved'
  BY <1>1 DEF IntakeInv, Types, Saved
<1>3. CallsShaped' /\ TokensUnique' /\ Remembered' /\ LiveHasToken' /\ Owned'
  BY <1>1 DEF IntakeInv, CallsShaped, TokensUnique, Remembered, LiveHasToken, Owned, Owner
<1>4. QED
  BY <1>2, <1>3 DEF IntakeInv

\* A crash orphans every claim of this process.
LEMMA CrashInv == ASSUME IntakeInv, Crash PROVE IntakeInv'
<1>0. Types /\ LiveHasToken /\ Saved
  BY DEF IntakeInv
<1>1. /\ claim' = claim /\ claims' = [g \in Generation |-> NoToken] /\ known' = stored
      /\ calls' = [a \in Actor |-> Idle] /\ stored' = stored
      /\ acked' = acked /\ unsaved' = unsaved
      /\ orphan' = orphan \union {g \in Generation : claim[g].token \in Token}
  BY DEF Crash
<1>2. Types'
  BY <1>0, <1>1, IdleFacts DEF Types
<1>3. \A a \in Actor : calls'[a] = Idle
  BY <1>1
<1>4. CallsShaped'
  BY <1>3, IdleFacts DEF CallsShaped
<1>5. TokensUnique' /\ Remembered'
  BY <1>3, IdleFacts, IntakeAssumption DEF TokensUnique, Remembered, Holding
<1>6. LiveHasToken' /\ Owned' /\ Saved'
  BY <1>0, <1>1 DEF LiveHasToken, Owned, Saved
<1>7. QED
  BY <1>2, <1>4, <1>5, <1>6 DEF IntakeInv

\* Every step of deliveries, polls, store and queue preserves the invariant.
LEMMA IntakeStep == IntakeInv /\ [Next]_vars => IntakeInv'
<1> SUFFICES ASSUME IntakeInv, [Next]_vars PROVE IntakeInv'
  OBVIOUS
<1>1. ASSUME NEW a \in Actor, Step(a) PROVE IntakeInv'
  <2>1. CASE HandOff(a)
    BY <2>1, EnqueueInv DEF HandOff
  <2>2. QED
    BY <1>1, <2>1, ClaimInv, ProveInv, DuplicateInv, RemoveInv DEF Step
<1>2. QED
  BY <1>1, BeginInv, KeyChangeInv, SaveLaterInv, CrashInv DEF Next

-----------------------------------------------------------------------------
(* The theorems *)

\* The strengthened invariant of the intake.
THEOREM IntakeInvariant == Spec => []IntakeInv
BY IntakeInit, IntakeStep, PTL DEF Spec

\* A delivery answered with success is in the durable queue, whatever crashes,
\* unless its own save had failed.
THEOREM AcknowledgedIsQueued == Spec => []AckedIsQueued
<1>1. IntakeInv => AckedIsQueued
  BY DEF IntakeInv, Saved, AckedIsQueued
<1>2. QED
  BY <1>1, IntakeInvariant, PTL

\* A generation the queue does not know is held back by a call at work, by
\* another instance, or by a claim that was given up, and by nothing else.
THEOREM ClaimsAreOwned == Spec => []ClaimHasOwner
<1>1. IntakeInv => ClaimHasOwner
  <2> SUFFICES ASSUME IntakeInv, NEW g \in Generation, claim[g].live, g \notin known,
                      claim[g].token # Foreign, g \notin orphan
               PROVE  \E a \in Actor : calls[a].gen = g /\ calls[a].at \notin {"claim", "duplicate"}
    BY DEF ClaimHasOwner
  <2>1. claim[g].token \in Token
    BY DEF IntakeInv, Types, ClaimRecord, LiveHasToken
  <2>2. PICK a \in Actor : Owner(a, g)
    BY <2>1 DEF IntakeInv, Owned
  <2>3. QED
    BY <2>2 DEF Owner, Working
<1>2. QED
  BY <1>1, IntakeInvariant, PTL

\* No step of this process takes or deletes a live claim of another instance.
THEOREM ForeignClaimsStand == Spec => ForeignClaimStands
<1> DEFINE Stands == \A g \in Generation :
                       (claim[g].live /\ claim[g].token = Foreign) => claim'[g].token = Foreign
<1>1. IntakeInv /\ [Next]_vars => [Stands]_vars
  <2> SUFFICES ASSUME IntakeInv, Next, NEW g \in Generation, claim[g].live,
                      claim[g].token = Foreign
               PROVE  claim'[g].token = Foreign
    OBVIOUS
  <2>0. Types /\ CallsShaped
    BY DEF IntakeInv
  <2>1. ASSUME NEW a \in Actor, Claim(a) PROVE claim'[g].token = Foreign
    <3>1. claim' = claim \/ (Claimable(calls[a].gen) /\ Claimed(a))
      BY <2>1 DEF Claim
    <3>2. Claimable(calls[a].gen) => calls[a].gen # g
      BY DEF Claimable
    <3>3. QED
      BY <3>1, <3>2, <2>0 DEF Claimed, Types
  <2>2. ASSUME NEW a \in Actor, Remove(a) PROVE claim'[g].token = Foreign
    <3>1. claim' = claim \/ Released(calls[a].gen)
      BY <2>2 DEF Remove
    <3>2. CASE calls[a].gen = g
      <4>1. claims[g] # Foreign
        BY <2>0, IntakeAssumption DEF Types
      <4>2. ~Releasable(g, claims[g])
        BY <4>1 DEF Releasable
      <4>3. QED
        BY <3>1, <3>2, <4>2 DEF Released
    <3>3. CASE calls[a].gen # g
      BY <3>1, <3>3, <2>0 DEF Released, Types
    <3>4. QED
      BY <3>2, <3>3
  <2>3. ASSUME NEW h \in Generation, Expire(h) \/ ForeignClaim(h)
        PROVE  claim'[g].token = Foreign
    <3>1. claim[g] \in ClaimRecord /\ claim \in [Generation -> ClaimRecord]
      BY <2>0 DEF Types
    <3>2. CASE Expire(h)
      BY <3>1, <3>2 DEF Expire, ClaimRecord
    <3>3. CASE ForeignClaim(h)
      BY <3>1, <3>3 DEF ForeignClaim, Claimable
    <3>4. QED
      BY <2>3, <3>2, <3>3
  <2>4. ASSUME claim' = claim PROVE claim'[g].token = Foreign
    BY <2>4
  <2>5. QED
    BY <2>1, <2>2, <2>3, <2>4 DEF Next, Step, Begin, Prove, Duplicate, HandOff, SaveLater, Crash
<1>2. QED
  BY <1>1, IntakeInvariant, PTL DEF Spec, ForeignClaimStands
=============================================================================
