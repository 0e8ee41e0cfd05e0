------------------------- MODULE SnapshotStoreProofs -------------------------
(***************************************************************************)
(* Proofs about SnapshotStore, for every number of saves, faults and       *)
(* crashes: a healthy adapter is durable, what it believes durable is never *)
(* ahead of the row, the row never goes back, and a flush that resolves    *)
(* proves what was saved before it.                                        *)
(*                                                                         *)
(* None of the four is inductive: they rest on the order of the promise    *)
(* chain (ChainOrdered), on where the row stands relative to it (RowBehind) *)
(* and, for a flush, on the awaited snapshot being still in the chain or   *)
(* already behind its head (FlushTracked).                                 *)
(***************************************************************************)
EXTENDS SnapshotStore, SequenceTheorems, TLAPS

StoreType ==
  /\ phase \in {"down", "up", "flushing", "stopped", "failed"}
  /\ memory \in Nat /\ cache \in Nat /\ durable \in Nat /\ awaited \in Nat
  /\ table \in Nat /\ saves \in Nat /\ faults \in Nat /\ crashes \in Nat
  /\ chain \in Seq(Nat)
  /\ committed \in BOOLEAN /\ latched \in BOOLEAN

\* Nothing is older than the last save, in the process or out of it.
SavesBound ==
  /\ table <= saves
  /\ Alive => memory <= saves
  /\ phase = "flushing" => awaited <= saves

\* The chain holds the saves in their order and ends with the newest.
ChainOrdered ==
  Alive =>
    /\ \A i \in 1..Len(chain) : chain[i] <= saves
    /\ \A i, j \in 1..Len(chain) : i < j => chain[i] < chain[j]
    /\ pending => chain[Len(chain)] = memory

\* The row is the head of the chain once that is committed, and older than all
\* of the chain before.
RowBehind ==
  Alive =>
    /\ committed => pending /\ table = chain[1]
    /\ ~committed => \A i \in 1..Len(chain) : table < chain[i]

\* A pending flush awaits a snapshot of the chain, or one the chain is past; in
\* the second case the row has it unless an error is latched.
FlushTracked ==
  phase = "flushing" =>
    /\ pending => \/ \E i \in 1..Len(chain) : chain[i] = awaited
                  \/ chain[1] > awaited
    /\ ~latched /\ (pending => chain[1] > awaited) => table >= awaited

StoreInv ==
  /\ StoreType
  /\ SavesBound
  /\ ChainOrdered
  /\ RowBehind
  /\ FlushTracked
  /\ HealthyMeansDurable
  /\ BeliefMatchesBackend

-----------------------------------------------------------------------------
(* The chain *)

\* What Append and Tail do to the chain, entry by entry.
LEMMA AppendFacts ==
  ASSUME NEW c \in Seq(Nat), NEW n \in Nat
  PROVE  /\ Append(c, n) \in Seq(Nat)
         /\ Append(c, n) # <<>>
         /\ Len(Append(c, n)) = Len(c) + 1
         /\ \A i \in 1..Len(c) : Append(c, n)[i] = c[i]
         /\ Append(c, n)[Len(c) + 1] = n
OBVIOUS

\* Tail drops the first entry and moves the others down by one.
LEMMA TailFacts ==
  ASSUME NEW c \in Seq(Nat), c # <<>>
  PROVE  /\ Tail(c) \in Seq(Nat)
         /\ Len(c) \in Nat \ {0}
         /\ Len(Tail(c)) = Len(c) - 1
         /\ \A i \in 1..(Len(c) - 1) : Tail(c)[i] = c[i + 1]
         /\ Head(c) = c[1]
         /\ Tail(c) = <<>> <=> Len(c) = 1
<1>1. /\ Tail(c) \in Seq(Nat)
      /\ Len(c) \in Nat \ {0}
      /\ Len(Tail(c)) = Len(c) - 1
      /\ \A i \in 1..(Len(c) - 1) : Tail(c)[i] = c[i + 1]
      /\ Head(c) = c[1]
  OBVIOUS
<1>2. Tail(c) = <<>> <=> Len(Tail(c)) = 0
  BY <1>1, EmptySeq
<1>3. QED
  BY <1>1, <1>2

\* Nothing holds in the initial state but the types: the process is down.
LEMMA StoreInit == Init => StoreInv
<1> SUFFICES ASSUME Init PROVE StoreInv
  OBVIOUS
<1>0. <<>> \in Seq(Nat)
  OBVIOUS
<1>1. StoreType
  BY <1>0 DEF Init, StoreType
<1>2. ~Alive /\ phase # "flushing" /\ table <= saves
  BY DEF Init, Alive
<1>3. QED
  BY <1>1, <1>2 DEF StoreInv, SavesBound, ChainOrdered, RowBehind, FlushTracked,
                    HealthyMeansDurable, BeliefMatchesBackend

-----------------------------------------------------------------------------
(* The actions *)

\* A process starts with an empty chain and the row as its memory.
LEMMA StartInv == ASSUME StoreInv, Start PROVE StoreInv'
<1>0. StoreType /\ SavesBound
  BY DEF StoreInv
<1>1. /\ phase' = "up" /\ memory' = table /\ cache' = table /\ durable' = table
      /\ chain' = <<>> /\ committed' = FALSE /\ latched' = FALSE /\ awaited' = awaited
      /\ table' = table /\ saves' = saves /\ faults' = faults /\ crashes' = crashes
  BY DEF Start
<1>1a. <<>> \in Seq(Nat)
  OBVIOUS
<1>2. StoreType'
  BY <1>0, <1>1, <1>1a DEF StoreType
<1>3. Alive' /\ ~pending' /\ Len(chain') = 0
  BY <1>1 DEF Alive, pending
<1>4. SavesBound' /\ ChainOrdered' /\ RowBehind' /\ FlushTracked'
  BY <1>0, <1>1, <1>3 DEF StoreType, SavesBound, ChainOrdered, RowBehind, FlushTracked
<1>5. HealthyMeansDurable' /\ BeliefMatchesBackend'
  BY <1>0, <1>1 DEF HealthyMeansDurable, BeliefMatchesBackend, StoreType
<1>6. QED
  BY <1>2, <1>4, <1>5 DEF StoreInv

\* A save extends the chain with a snapshot newer than everything.
LEMMA SaveInv == ASSUME StoreInv, Save PROVE StoreInv'
<1> DEFINE n == Len(chain)
<1>0. /\ StoreType /\ SavesBound /\ ChainOrdered /\ RowBehind /\ FlushTracked
      /\ HealthyMeansDurable /\ BeliefMatchesBackend
  BY DEF StoreInv
<1>1. /\ Alive /\ Alive' /\ phase' = phase /\ table' = table /\ saves' = saves + 1
      /\ memory' = saves + 1 /\ cache' = saves + 1 /\ committed' = committed
      /\ latched' = latched /\ awaited' = awaited /\ durable' = durable
      /\ faults' = faults /\ crashes' = crashes
  BY DEF Save, Alive
<1>2. saves \in Nat /\ saves + 1 \in Nat /\ chain \in Seq(Nat) /\ n \in Nat
  BY <1>0 DEF StoreType
<1>3. chain' = Append(chain, saves + 1)
  BY DEF Save
<1>4. /\ chain' \in Seq(Nat) /\ chain' # <<>> /\ Len(chain') = n + 1
      /\ \A i \in 1..n : chain'[i] = chain[i]
      /\ chain'[n + 1] = saves + 1
  BY <1>2, <1>3, AppendFacts
<1>5. StoreType'
  BY <1>0, <1>1, <1>2, <1>4 DEF StoreType
<1>6. SavesBound'
  BY <1>0, <1>1, <1>2 DEF SavesBound, StoreType
<1>7. pending' /\ (pending <=> n # 0)
  BY <1>2, <1>4 DEF pending
<1>7a. \A i \in 1..n : chain[i] \in Nat /\ chain[i] <= saves
  BY <1>0, <1>1, <1>2 DEF ChainOrdered
<1>8. ChainOrdered'
  <2>1. \A i \in 1..(n + 1) : chain'[i] <= saves + 1
    BY <1>2, <1>4, <1>7a
  <2>2. \A i, j \in 1..(n + 1) : i < j => chain'[i] < chain'[j]
    <3> SUFFICES ASSUME NEW i \in 1..(n + 1), NEW j \in 1..(n + 1), i < j
                 PROVE  chain'[i] < chain'[j]
      OBVIOUS
    <3>1. i \in 1..n /\ chain'[i] = chain[i] /\ chain[i] \in Nat /\ chain[i] <= saves
      BY <1>2, <1>4, <1>7a
    <3>2. CASE j = n + 1
      BY <3>1, <3>2, <1>2, <1>4
    <3>3. CASE j # n + 1
      <4>1. j \in 1..n
        BY <3>3, <1>2
      <4>2. chain'[j] = chain[j]
        BY <4>1, <1>4
      <4>3. QED
        BY <3>1, <4>1, <4>2, <1>0, <1>1 DEF ChainOrdered
    <3>4. QED
      BY <3>2, <3>3
  <2>3. QED
    BY <2>1, <2>2, <1>1, <1>4 DEF ChainOrdered
<1>9. RowBehind'
  <2>1. CASE committed
    BY <2>1, <1>0, <1>1, <1>2, <1>4, <1>7 DEF RowBehind
  <2>2. CASE ~committed
    <3>1. \A i \in 1..(n + 1) : table < chain'[i]
      BY <2>2, <1>0, <1>1, <1>2, <1>4 DEF RowBehind, SavesBound, StoreType
    <3>2. QED
      BY <2>2, <3>1, <1>1, <1>4 DEF RowBehind
  <2>3. QED
    BY <2>1, <2>2
<1>10. FlushTracked'
  <2> SUFFICES ASSUME phase = "flushing"
               PROVE  FlushTracked'
    BY <1>1 DEF FlushTracked
  <2>1. CASE n = 0
    <3>1. chain'[1] = saves + 1 /\ ~pending
      BY <2>1, <1>4, <1>7
    <3>2. awaited \in Nat /\ awaited <= saves
      BY <1>0 DEF SavesBound, StoreType
    <3>3. QED
      BY <3>1, <3>2, <1>0, <1>1, <1>2 DEF FlushTracked
  <2>2. CASE n # 0
    <3>1. chain'[1] = chain[1] /\ pending /\ 1..n \subseteq 1..(n + 1)
      BY <2>2, <1>2, <1>4, <1>7
    <3>2. QED
      BY <3>1, <1>0, <1>1, <1>4, <1>7 DEF FlushTracked
  <2>3. QED
    BY <2>1, <2>2
<1>11. HealthyMeansDurable' /\ BeliefMatchesBackend'
  BY <1>0, <1>1, <1>7 DEF HealthyMeansDurable, BeliefMatchesBackend
<1>12. QED
  BY <1>5, <1>6, <1>8, <1>9, <1>10, <1>11 DEF StoreInv

\* A commit moves the row to the head of the chain.
LEMMA CommitInv == ASSUME StoreInv, Commit PROVE StoreInv' /\ table' > table
<1>0. /\ StoreType /\ SavesBound /\ ChainOrdered /\ RowBehind /\ FlushTracked
      /\ HealthyMeansDurable /\ BeliefMatchesBackend
  BY DEF StoreInv
<1>1. /\ Alive /\ Alive' /\ pending /\ pending' /\ ~committed /\ committed' = TRUE
      /\ phase' = phase /\ memory' = memory /\ cache' = cache /\ chain' = chain
      /\ latched' = latched /\ awaited' = awaited /\ durable' = durable
      /\ saves' = saves /\ faults' = faults /\ crashes' = crashes
      /\ table' = Head(chain)
  BY DEF Commit, Alive, pending, Persisting
<1>2. Head(chain) = chain[1] /\ 1 \in 1..Len(chain) /\ chain[1] \in Nat
  BY <1>0, <1>1, TailFacts DEF StoreType, pending
<1>3. chain[1] <= saves /\ table < chain[1]
  BY <1>0, <1>1, <1>2 DEF ChainOrdered, RowBehind
<1>4. StoreType' /\ SavesBound' /\ ChainOrdered' /\ RowBehind'
  BY <1>0, <1>1, <1>2, <1>3 DEF StoreType, SavesBound, ChainOrdered, RowBehind
<1>5. FlushTracked'
  <2>1. awaited \in Nat /\ table \in Nat
    BY <1>0 DEF StoreType
  <2>2. QED
    BY <2>1, <1>0, <1>1, <1>2, <1>3 DEF FlushTracked
<1>6. HealthyMeansDurable' /\ BeliefMatchesBackend'
  BY <1>0, <1>1, <1>2, <1>3 DEF HealthyMeansDurable, BeliefMatchesBackend, StoreType
<1>7. QED
  BY <1>1, <1>2, <1>3, <1>4, <1>5, <1>6, <1>0 DEF StoreInv, StoreType

\* What is left of the chain once its head settled is newer than the row, and
\* a flush waits for a snapshot of it or for one that is gone.
LEMMA SettleFacts ==
  ASSUME StoreInv, Alive, pending, chain' = Tail(chain)
  PROVE  /\ chain' \in Seq(Nat)
         /\ Len(chain) \in Nat \ {0} /\ Len(chain') = Len(chain) - 1
         /\ chain[1] \in Nat /\ Head(chain) = chain[1]
         /\ pending' <=> Len(chain) # 1
         /\ \A i \in 1..Len(chain') : chain'[i] = chain[i + 1] /\ i + 1 \in 1..Len(chain)
         /\ \A i \in 1..Len(chain') : chain'[i] <= saves /\ table < chain'[i]
         /\ \A i, j \in 1..Len(chain') : i < j => chain'[i] < chain'[j]
         /\ pending' => chain'[Len(chain')] = memory
         /\ ~pending' => chain[1] = memory
<1>0. StoreType /\ ChainOrdered /\ RowBehind
  BY DEF StoreInv
<1>1. chain \in Seq(Nat) /\ chain # <<>> /\ table \in Nat
  BY <1>0 DEF StoreType, pending
<1>2. /\ chain' \in Seq(Nat)
      /\ Len(chain) \in Nat \ {0} /\ Len(chain') = Len(chain) - 1
      /\ \A i \in 1..(Len(chain) - 1) : chain'[i] = chain[i + 1]
      /\ Head(chain) = chain[1]
      /\ pending' <=> Len(chain) # 1
  BY <1>1, TailFacts DEF pending
<1>3. \A i \in 1..Len(chain) : chain[i] \in Nat /\ chain[i] <= saves
  BY <1>0, <1>1 DEF ChainOrdered
<1>4. \A i \in 1..Len(chain') : chain'[i] = chain[i + 1] /\ i + 1 \in 1..Len(chain) /\ 1 < i + 1
  BY <1>2
<1>5. \A i, j \in 1..Len(chain) : i < j => chain[i] < chain[j]
  BY <1>0 DEF ChainOrdered
<1>6. chain[Len(chain)] = memory
  BY <1>0 DEF ChainOrdered
<1>7. 1 \in 1..Len(chain) /\ chain[1] \in Nat
  BY <1>2, <1>3
<1>8. \A i \in 1..Len(chain) : 1 < i => table < chain[i]
  <2>1. CASE committed
    BY <2>1, <1>0, <1>5, <1>7 DEF RowBehind
  <2>2. CASE ~committed
    BY <2>2, <1>0 DEF RowBehind
  <2>3. QED
    BY <2>1, <2>2
<1>9. \A i, j \in 1..Len(chain') : i < j => chain'[i] < chain'[j]
  BY <1>2, <1>4, <1>5
<1>10. pending' => chain'[Len(chain')] = memory
  BY <1>2, <1>4, <1>6
<1>11. QED
  BY <1>2, <1>3, <1>4, <1>6, <1>7, <1>8, <1>9, <1>10

\* The flush's snapshot stays in the chain until its own persist settles.
LEMMA SettleFlush ==
  ASSUME StoreInv, phase = "flushing", pending, chain' = Tail(chain), awaited' = awaited
  PROVE  /\ pending' => \/ \E i \in 1..Len(chain') : chain'[i] = awaited
                        \/ chain'[1] > awaited
         /\ (pending' => chain'[1] > awaited) => chain[1] >= awaited
<1>1. StoreType /\ ChainOrdered /\ FlushTracked /\ Alive
  BY DEF StoreInv, Alive
<1>2. /\ Len(chain) \in Nat \ {0} /\ Len(chain') = Len(chain) - 1
      /\ pending' <=> Len(chain) # 1
      /\ \A i \in 1..Len(chain') : chain'[i] = chain[i + 1] /\ i + 1 \in 1..Len(chain)
      /\ chain[1] \in Nat
  BY <1>1, SettleFacts
<1>3. awaited \in Nat /\ chain \in Seq(Nat)
  BY <1>1 DEF StoreType
<1>4. \A i, j \in 1..Len(chain) : i < j => chain[i] < chain[j]
  BY <1>1 DEF ChainOrdered
<1>5. \A i \in 1..Len(chain) : chain[i] \in Nat
  BY <1>3
<1>6. pending' => 1 \in 1..Len(chain') /\ chain'[1] = chain[2] /\ 2 \in 1..Len(chain)
                  /\ chain[1] < chain[2]
  BY <1>2, <1>4
<1>7. CASE \E i \in 1..Len(chain) : chain[i] = awaited
  <2>1. PICK i \in 1..Len(chain) : chain[i] = awaited
    BY <1>7
  <2>2. CASE i = 1
    BY <2>1, <2>2, <1>3, <1>5, <1>6
  <2>3. CASE i # 1
    <3>1. i - 1 \in 1..Len(chain') /\ chain'[i - 1] = awaited
      BY <2>1, <2>3, <1>2
    <3>2. i = 2 \/ chain[2] < chain[i]
      BY <2>3, <1>2, <1>4
    <3>3. pending' /\ ~(chain'[1] > awaited)
      BY <3>1, <3>2, <2>1, <2>3, <1>2, <1>3, <1>5, <1>6
    <3>4. QED
      BY <3>1, <3>3
  <2>4. QED
    BY <2>2, <2>3
<1>8. CASE chain[1] > awaited
  BY <1>8, <1>3, <1>5, <1>6, <1>2
<1>9. QED
  BY <1>1, <1>7, <1>8 DEF FlushTracked

\* A resolved persist clears the latch: the row is the snapshot it persisted.
LEMMA PersistResolvesInv == ASSUME StoreInv, PersistResolves PROVE StoreInv'
<1>0. /\ StoreType /\ SavesBound /\ ChainOrdered /\ RowBehind /\ FlushTracked
      /\ HealthyMeansDurable /\ BeliefMatchesBackend
  BY DEF StoreInv
<1>1. /\ Alive /\ Alive' /\ pending /\ committed /\ committed' = FALSE
      /\ phase' = phase /\ memory' = memory /\ cache' = cache /\ chain' = Tail(chain)
      /\ latched' = FALSE /\ awaited' = awaited /\ durable' = Head(chain)
      /\ saves' = saves /\ faults' = faults /\ crashes' = crashes
      /\ table' = table
  BY DEF PersistResolves, Alive, pending, Persisting
<1>2. /\ chain' \in Seq(Nat) /\ chain[1] \in Nat /\ Head(chain) = chain[1]
      /\ \A i \in 1..Len(chain') : chain'[i] <= saves /\ table < chain'[i]
      /\ \A i, j \in 1..Len(chain') : i < j => chain'[i] < chain'[j]
      /\ pending' => chain'[Len(chain')] = memory
      /\ ~pending' => chain[1] = memory
  BY <1>1, SettleFacts
<1>3. table = chain[1]
  BY <1>0, <1>1 DEF RowBehind
<1>4. StoreType' /\ SavesBound'
  BY <1>0, <1>1, <1>2 DEF StoreType, SavesBound
<1>5. ChainOrdered' /\ RowBehind'
  BY <1>1, <1>2 DEF ChainOrdered, RowBehind
<1>6. FlushTracked'
  <2> SUFFICES ASSUME phase = "flushing" PROVE FlushTracked'
    BY <1>1 DEF FlushTracked
  <2>1. /\ pending' => \/ \E i \in 1..Len(chain') : chain'[i] = awaited
                       \/ chain'[1] > awaited
        /\ (pending' => chain'[1] > awaited) => chain[1] >= awaited
    BY <1>1, SettleFlush
  <2>2. QED
    BY <2>1, <1>1, <1>3 DEF FlushTracked
<1>7. HealthyMeansDurable' /\ BeliefMatchesBackend'
  BY <1>1, <1>2, <1>3 DEF HealthyMeansDurable, BeliefMatchesBackend
<1>8. QED
  BY <1>4, <1>5, <1>6, <1>7 DEF StoreInv

\* A rejected persist latches its error, whether or not its commit is in place.
LEMMA PersistRejectsInv == ASSUME StoreInv, PersistRejects PROVE StoreInv'
<1>0. /\ StoreType /\ SavesBound /\ ChainOrdered /\ RowBehind /\ FlushTracked
      /\ HealthyMeansDurable /\ BeliefMatchesBackend
  BY DEF StoreInv
<1>1. /\ Alive /\ Alive' /\ pending /\ committed' = FALSE
      /\ phase' = phase /\ memory' = memory /\ cache' = durable /\ chain' = Tail(chain)
      /\ latched' = TRUE /\ awaited' = awaited /\ durable' = durable
      /\ saves' = saves /\ faults' = faults + 1 /\ crashes' = crashes
      /\ table' = table
  BY DEF PersistRejects, Alive, pending
<1>2. /\ chain' \in Seq(Nat)
      /\ \A i \in 1..Len(chain') : chain'[i] <= saves /\ table < chain'[i]
      /\ \A i, j \in 1..Len(chain') : i < j => chain'[i] < chain'[j]
      /\ pending' => chain'[Len(chain')] = memory
  BY <1>1, SettleFacts
<1>2a. faults + 1 \in Nat
  BY <1>0 DEF StoreType
<1>3. StoreType' /\ SavesBound'
  BY <1>0, <1>1, <1>2, <1>2a DEF StoreType, SavesBound
<1>4. ChainOrdered' /\ RowBehind'
  BY <1>1, <1>2 DEF ChainOrdered, RowBehind
<1>5. FlushTracked'
  <2> SUFFICES ASSUME phase = "flushing" PROVE FlushTracked'
    BY <1>1 DEF FlushTracked
  <2>1. pending' => \/ \E i \in 1..Len(chain') : chain'[i] = awaited
                    \/ chain'[1] > awaited
    BY <1>1, SettleFlush
  <2>2. QED
    BY <2>1, <1>1 DEF FlushTracked
<1>6. HealthyMeansDurable' /\ BeliefMatchesBackend'
  BY <1>0, <1>1 DEF HealthyMeansDurable, BeliefMatchesBackend
<1>7. QED
  BY <1>3, <1>4, <1>5, <1>6 DEF StoreInv

\* A flush awaits the newest snapshot: the last of the chain, or the row's.
LEMMA FlushInv == ASSUME StoreInv, Flush PROVE StoreInv'
<1>0. /\ StoreType /\ SavesBound /\ ChainOrdered /\ RowBehind
      /\ HealthyMeansDurable /\ BeliefMatchesBackend
  BY DEF StoreInv
<1>1. /\ Alive /\ Alive' /\ phase' = "flushing" /\ awaited' = memory /\ chain' = chain
      /\ memory' = memory /\ cache' = cache /\ durable' = durable /\ table' = table
      /\ committed' = committed /\ latched' = latched /\ saves' = saves
      /\ faults' = faults /\ crashes' = crashes
      /\ (pending' <=> pending)
  BY DEF Flush, Alive, pending
<1>2. StoreType' /\ SavesBound' /\ ChainOrdered' /\ RowBehind'
  BY <1>0, <1>1 DEF StoreType, SavesBound, ChainOrdered, RowBehind
<1>3. HealthyMeansDurable' /\ BeliefMatchesBackend'
  BY <1>0, <1>1 DEF HealthyMeansDurable, BeliefMatchesBackend
<1>4. FlushTracked'
  <2>1. CASE ~pending
    BY <2>1, <1>0, <1>1 DEF FlushTracked, HealthyMeansDurable, StoreType
  <2>2. CASE pending
    <3>1. /\ Len(chain) \in Nat \ {0} /\ chain[Len(chain)] = memory
          /\ \A i \in 1..Len(chain) : chain[i] \in Nat
      BY <2>2, <1>0, <1>1, TailFacts DEF ChainOrdered, StoreType, pending
    <3>2. 1 = Len(chain) \/ chain[1] < chain[Len(chain)]
      BY <3>1, <1>0, <1>1 DEF ChainOrdered
    <3>3. ~(chain[1] > memory)
      BY <3>1, <3>2
    <3>4. QED
      BY <3>1, <3>3, <2>2, <1>1 DEF FlushTracked
  <2>3. QED
    BY <2>1, <2>2
<1>5. QED
  BY <1>2, <1>3, <1>4 DEF StoreInv

\* flush() returns once the chain is past the snapshot it awaited.
LEMMA FlushReturnsInv ==
  ASSUME StoreInv, FlushReturns
  PROVE  StoreInv' /\ (phase' = "stopped" => table >= awaited)
<1>0. /\ StoreType /\ SavesBound /\ ChainOrdered /\ RowBehind /\ FlushTracked
      /\ HealthyMeansDurable /\ BeliefMatchesBackend
  BY DEF StoreInv
<1>1. /\ Alive /\ Alive' /\ phase = "flushing"
      /\ phase' = IF latched THEN "failed" ELSE "stopped"
      /\ awaited' = awaited /\ chain' = chain
      /\ memory' = memory /\ cache' = cache /\ durable' = durable /\ table' = table
      /\ committed' = committed /\ latched' = latched /\ saves' = saves
      /\ faults' = faults /\ crashes' = crashes
      /\ (pending' <=> pending)
  BY DEF FlushReturns, Alive, pending
<1>2. pending => chain[1] > awaited
  BY <1>0, <1>1, TailFacts DEF FlushReturns, Persisting, pending, StoreType
<1>3. StoreInv'
  BY <1>0, <1>1 DEF StoreInv, StoreType, SavesBound, ChainOrdered, RowBehind,
                    FlushTracked, HealthyMeansDurable, BeliefMatchesBackend
<1>4. QED
  BY <1>0, <1>1, <1>2, <1>3 DEF FlushTracked

\* A process that exits or crashes leaves the row; a stutter leaves everything.
LEMMA DownInv == ASSUME StoreInv, Exit \/ Crash \/ UNCHANGED vars PROVE StoreInv'
<1>1. CASE Exit \/ Crash
  <2>0. StoreType /\ SavesBound /\ crashes + 1 \in Nat
    BY DEF StoreInv, StoreType
  <2>1. ~Alive' /\ phase' = "down" /\ table' = table /\ saves' = saves
    BY <1>1 DEF Exit, Crash, Die, Alive
  <2>2. StoreType'
    BY <1>1, <2>0 DEF Exit, Crash, Die, StoreType
  <2>3. QED
    BY <2>0, <2>1, <2>2 DEF StoreInv, SavesBound, ChainOrdered, RowBehind, FlushTracked,
                            HealthyMeansDurable, BeliefMatchesBackend
<1>2. CASE UNCHANGED vars
  BY <1>2 DEF vars, StoreInv, StoreType, SavesBound, ChainOrdered, RowBehind,
              FlushTracked, HealthyMeansDurable, BeliefMatchesBackend, Alive, pending
<1>3. QED
  BY <1>1, <1>2

\* Every step of the store and its backend preserves the invariant.
LEMMA StoreStep == StoreInv /\ [Next]_vars => StoreInv'
BY StartInv, SaveInv, CommitInv, PersistResolvesInv, PersistRejectsInv, FlushInv,
   FlushReturnsInv, DownInv DEF Next

-----------------------------------------------------------------------------
(* The theorems *)

\* The strengthened invariant of the adapter and its backend.
THEOREM StoreInvariant == Spec => []StoreInv
BY StoreInit, StoreStep, PTL DEF Spec

\* Whenever the adapter reports health (nothing pending, no latched error), a
\* restart recovers exactly the scheduler's state.
THEOREM HealthIsDurability == Spec => []HealthyMeansDurable
<1>1. StoreInv => HealthyMeansDurable
  BY DEF StoreInv
<1>2. QED
  BY <1>1, StoreInvariant, PTL

\* The snapshot the adapter believes durable is never ahead of the backend's
\* row, and is the row when nothing failed and no answer is outstanding.
THEOREM BeliefIsSound == Spec => []BeliefMatchesBackend
<1>1. StoreInv => BeliefMatchesBackend
  BY DEF StoreInv
<1>2. QED
  BY <1>1, StoreInvariant, PTL

\* No interleaving of saves, failures, flushes and restarts puts an older
\* snapshot over a newer one in the backend's row.
THEOREM RowNeverGoesBack == Spec => NeverGoesBack
<1>1. StoreInv /\ [Next]_vars => [table' >= table]_vars
  <2> SUFFICES ASSUME StoreInv, Next PROVE table' >= table
    OBVIOUS
  <2>1. table \in Nat
    BY DEF StoreInv, StoreType
  <2>2. CASE Commit
    BY <2>1, <2>2, CommitInv DEF StoreInv, StoreType
  <2>3. CASE ~Commit
    <3>1. table' = table
      BY <2>3 DEF Next, Start, Save, PersistResolves, PersistRejects, Flush,
                  FlushReturns, Exit, Crash, Die
    <3>2. QED
      BY <2>1, <3>1
  <2>4. QED
    BY <2>2, <2>3
<1>2. QED
  BY <1>1, StoreInvariant, PTL DEF Spec, NeverGoesBack

\* A flush that lets stop() resolve proves that what was saved before it is in
\* the row, also while later saves are in flight.
THEOREM FlushIsProof == Spec => FlushProves
<1>1. StoreInv /\ [Next]_vars
        => [phase = "flushing" /\ phase' = "stopped" => table >= awaited]_vars
  <2> SUFFICES ASSUME StoreInv, Next, phase = "flushing", phase' = "stopped"
               PROVE  table >= awaited
    OBVIOUS
  <2>1. FlushReturns
    BY DEF Next, Start, Save, Commit, PersistResolves, PersistRejects, Flush,
           Exit, Crash, Die
  <2>2. QED
    BY <2>1, FlushReturnsInv
<1>2. QED
  BY <1>1, StoreInvariant, PTL DEF Spec, FlushProves
=============================================================================
