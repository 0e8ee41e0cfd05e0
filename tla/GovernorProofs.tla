---------------------------- MODULE GovernorProofs ----------------------------
(***************************************************************************)
(* Proofs about Governor, for every cap, every set of requests and every   *)
(* assignment of classes, signals and deadlines.                           *)
(*                                                                         *)
(* pump() is a loop inside a loop over an array that is spliced while it   *)
(* is walked.  The model writes the loop, the walk and the splice as       *)
(* recursive functions on an interval; Recursion says that such a function *)
(* exists, and each fact about one is shown for the least index that       *)
(* breaks it.  Passed is the invariant of pump's loop, GovInv the one of   *)
(* the governor.                                                           *)
(***************************************************************************)
EXTENDS Governor, FiniteSetTheorems, SequenceTheorems, WellFoundedInduction, TLAPS

-----------------------------------------------------------------------------
(* Recursion on an interval *)

\* A non-empty set of numbers has a least one.
LEMMA LeastNumber ==
  ASSUME NEW N \in SUBSET Nat, N # {}
  PROVE  \E m \in N : \A k \in N : m <= k
<1>1. PICK m \in N : \A k \in N : ~(<<k, m>> \in OpToRel(<, Nat))
  BY NatLessThanWellFounded, WFMin
<1>2. ASSUME NEW k \in N PROVE m <= k
  <2>1. <<k, m>> \in Nat \X Nat
    OBVIOUS
  <2>2. ~(k < m)
    BY <1>1, <2>1 DEF OpToRel
  <2>3. QED
    BY <2>2
<1>3. QED
  BY <1>2

\* A set of numbers that has 0 and, with every number below N, its successor
\* has them all up to N.
LEMMA UpToN ==
  ASSUME NEW N \in Nat, NEW P, 0 \in P, \A n \in 1..N : n - 1 \in P => n \in P
  PROVE  \A n \in 0..N : n \in P
<1> DEFINE Bad == {n \in 0..N : n \notin P}
<1> SUFFICES ASSUME Bad # {} PROVE FALSE
  OBVIOUS
<1>1. PICK m \in Bad : \A k \in Bad : m <= k
  <2>1. Bad \in SUBSET Nat
    OBVIOUS
  <2> HIDE DEF Bad
  <2>2. QED
    BY <2>1, LeastNumber
<1>2. m \in 1..N /\ m \notin P
  BY <1>1
<1>3. m - 1 \in 0..N /\ m - 1 \notin Bad
  BY <1>1, <1>2
<1>4. QED
  BY <1>2, <1>3

\* f takes step by step from base what step gives.
Steps(A, N) == [A \X (1..N) -> A]

Recursive(f, A, N, base, step) ==
  /\ f \in [0..N -> A]
  /\ f[0] = base
  /\ \A n \in 1..N : f[n] = step[<<f[n - 1], n>>]

\* A step defines a function on an interval.
LEMMA Recursion ==
  ASSUME NEW A, NEW N \in Nat, NEW base \in A, NEW step \in Steps(A, N)
  PROVE  \E f : Recursive(f, A, N, base, step)
<1>0. step \in [A \X (1..N) -> A]
  BY DEF Steps
<1> DEFINE Good(f, m) == f[0] = base /\ \A n \in 1..m : f[n] = step[<<f[n - 1], n>>]
           P == {m \in 0..N : \E f \in [0..N -> A] : Good(f, m)}
<1>1. 0 \in P
  <2> DEFINE f == [n \in 0..N |-> base]
  <2>1. f \in [0..N -> A] /\ f[0] = base /\ 0 \in 0..N /\ 1..0 = {}
    OBVIOUS
  <2>2. QED
    BY <2>1
<1>2. ASSUME NEW m \in 1..N, m - 1 \in P PROVE m \in P
  <2>1. PICK f \in [0..N -> A] : Good(f, m - 1)
    BY <1>2
  <2> DEFINE g == [f EXCEPT ![m] = step[<<f[m - 1], m>>]]
  <2>2. m \in 0..N /\ m - 1 \in 0..N /\ m # 0
    OBVIOUS
  <2>3. step[<<f[m - 1], m>>] \in A
    BY <1>0, <2>2
  <2>4. g \in [0..N -> A] /\ g[m] = step[<<f[m - 1], m>>]
        /\ \A n \in 0..N : n # m => g[n] = f[n]
    BY <2>2, <2>3
  <2> HIDE DEF g
  <2>5. g[0] = base
    BY <2>1, <2>2, <2>4
  <2>6. ASSUME NEW n \in 1..m PROVE g[n] = step[<<g[n - 1], n>>]
    <3>1. n \in 0..N /\ n - 1 \in 0..N /\ n - 1 # m
      OBVIOUS
    <3>2. g[n - 1] = f[n - 1]
      BY <2>4, <3>1
    <3>3. CASE n = m
      BY <2>4, <3>2, <3>3
    <3>4. CASE n # m
      <4>1. n \in 1..(m - 1)
        BY <3>4
      <4>2. QED
        BY <2>1, <2>4, <3>1, <3>2, <3>4, <4>1
    <3>5. QED
      BY <3>3, <3>4
  <2>7. QED
    BY <2>2, <2>4, <2>5, <2>6
<1>3. N \in P
  <2>1. N \in 0..N
    OBVIOUS
  <2> HIDE DEF P
  <2>2. QED
    BY <1>1, <1>2, <2>1, UpToN
<1>4. QED
  BY <1>3 DEF Recursive

-----------------------------------------------------------------------------
(* The array *)

Distinct(q) == \A p, o \in 1..Len(q) : q[p] = q[o] => p = o

Items(q) == {q[p] : p \in 1..Len(q)}

\* k holds the positions e[1] < e[2] < ... of q, exactly those of 1..n not in S.
Picks(k, q, n, S, e) ==
  /\ e \in [1..Len(k) -> (1..n) \ S]
  /\ \A i \in 1..Len(k) : k[i] = q[e[i]]
  /\ \A i, j \in 1..Len(k) : i < j => e[i] < e[j]
  /\ \A p \in (1..n) \ S : \E i \in 1..Len(k) : e[i] = p

\* Splicing keeps the other waiters in their order.
LEMMA WithoutPicks ==
  ASSUME NEW q \in Seq(Request), NEW S
  PROVE  /\ Without(q, S) \in Seq(Request)
         /\ \E e : Picks(Without(q, S), q, Len(q), S, e)
<1> DEFINE N == Len(q)
           A == Seq(Request)
           none == <<>>
           step == [x \in A \X (1..N) |-> IF x[2] \in S THEN x[1] ELSE Append(x[1], q[x[2]])]
           keep == CHOOSE keep : keep = [n \in 0..N |->
                     IF n = 0 THEN <<>>
                     ELSE IF n \in S THEN keep[n - 1] ELSE Append(keep[n - 1], q[n])]
<1>0. N \in Nat /\ \A n \in 1..N : q[n] \in Request
  OBVIOUS
<1>1. N \in Nat /\ none \in A /\ step \in Steps(A, N)
  BY <1>0 DEF Steps
<1>2. PICK f : Recursive(f, A, N, none, step)
  <2> HIDE DEF A, N, none, step
  <2>1. QED
    BY <1>1, Recursion
<1>21. f \in [0..N -> A] /\ f[0] = <<>> /\ \A n \in 1..N : f[n] = step[<<f[n - 1], n>>]
  BY <1>2 DEF Recursive
<1>3. \A n \in 1..N : f[n] = IF n \in S THEN f[n - 1] ELSE Append(f[n - 1], q[n])
  <2> TAKE n \in 1..N
  <2>1. f[n - 1] \in A
    BY <1>21
  <2>2. QED
    BY <1>21, <2>1
<1>4. f = [n \in 0..N |-> IF n = 0 THEN <<>>
                          ELSE IF n \in S THEN f[n - 1] ELSE Append(f[n - 1], q[n])]
  <2>1. ASSUME NEW n \in 0..N
        PROVE  f[n] = IF n = 0 THEN <<>>
                      ELSE IF n \in S THEN f[n - 1] ELSE Append(f[n - 1], q[n])
    <3>1. CASE n = 0
      BY <1>21, <3>1
    <3>2. CASE n # 0
      <4>1. n \in 1..N
        BY <1>0, <3>2
      <4>2. QED
        BY <1>3, <3>2, <4>1
    <3>3. QED
      BY <3>1, <3>2
  <2>2. QED
    BY <1>21, <2>1
<1>5. keep = [n \in 0..N |-> IF n = 0 THEN <<>>
                             ELSE IF n \in S THEN keep[n - 1] ELSE Append(keep[n - 1], q[n])]
  BY <1>4
<1>6. Without(q, S) = keep[N]
  BY DEF Without
<1> HIDE DEF keep
<1>7. keep[0] = <<>>
      /\ \A n \in 1..N : keep[n] = IF n \in S THEN keep[n - 1] ELSE Append(keep[n - 1], q[n])
  <2>1. 0 \in 0..N /\ \A n \in 1..N : n \in 0..N /\ n # 0
    BY <1>0
  <2>2. \A n \in 0..N : keep[n] = IF n = 0 THEN <<>>
                        ELSE IF n \in S THEN keep[n - 1] ELSE Append(keep[n - 1], q[n])
    BY <1>5
  <2> HIDE DEF N
  <2>3. keep[0] = <<>>
    BY <2>1, <2>2
  <2>4. QED
    BY <2>1, <2>2, <2>3
<1> DEFINE P == {n \in 0..N : keep[n] \in Seq(Request) /\ \E e : Picks(keep[n], q, n, S, e)}
<1>8. 0 \in P
  <2>1. Picks(<<>>, q, 0, S, [i \in 1..0 |-> 0])
    BY DEF Picks
  <2>2. keep[0] = <<>> /\ <<>> \in Seq(Request) /\ 0 \in 0..N
    BY <1>0, <1>7
  <2>3. QED
    BY <2>1, <2>2
<1>9. ASSUME NEW n \in 1..N, n - 1 \in P PROVE n \in P
  <2> DEFINE k == keep[n - 1]
  <2>1. PICK e : Picks(k, q, n - 1, S, e)
    BY <1>9
  <2>2. k \in Seq(Request) /\ n \in 0..N /\ n \in Nat
    BY <1>9
  <2> HIDE DEF k
  <2>3. CASE n \in S
    <3>1. (1..n) \ S = (1..(n - 1)) \ S
      BY <2>3
    <3>2. Picks(k, q, n, S, e)
      BY <2>1, <3>1 DEF Picks
    <3>3. keep[n] = k
      BY <1>7, <2>3 DEF k
    <3>4. QED
      BY <2>2, <3>2, <3>3
  <2>4. CASE n \notin S
    <3> DEFINE m == Len(k)
               c == Append(k, q[n])
               d == [i \in 1..(m + 1) |-> IF i = m + 1 THEN n ELSE e[i]]
    <3>1. keep[n] = c
      BY <1>7, <2>4 DEF k
    <3>2. /\ c \in Seq(Request) /\ Len(c) = m + 1 /\ m \in Nat
          /\ c[m + 1] = q[n] /\ \A i \in 1..m : c[i] = k[i]
      BY <1>0, <2>2
    <3>3. \A i \in 1..m : d[i] = e[i] /\ i \in 1..(m + 1)
      BY <3>2
    <3>4. d[m + 1] = n /\ m + 1 \in 1..(m + 1)
      BY <3>2
    <3>5. DOMAIN d = 1..(m + 1)
      OBVIOUS
    <3>6. e \in [1..m -> (1..(n - 1)) \ S]
      BY <2>1 DEF Picks
    <3>7. d \in [1..(m + 1) -> (1..n) \ S]
      BY <2>2, <2>4, <3>2, <3>6
    <3> HIDE DEF c, d
    <3>8. \A i \in 1..(m + 1) : c[i] = q[d[i]]
      <4> TAKE i \in 1..(m + 1)
      <4>1. CASE i = m + 1
        BY <3>2, <3>4, <4>1
      <4>2. CASE i # m + 1
        <5>1. i \in 1..m
          BY <3>2, <4>2
        <5>2. QED
          BY <2>1, <3>2, <3>3, <5>1 DEF Picks, m
      <4>3. QED
        BY <4>1, <4>2
    <3>9. \A i, j \in 1..(m + 1) : i < j => d[i] < d[j]
      <4> TAKE i, j \in 1..(m + 1)
      <4> HAVE i < j
      <4>0. i \in 1..m
        BY <3>2
      <4>1. i \in 1..m /\ d[i] = e[i] /\ e[i] \in 1..(n - 1)
        BY <3>3, <3>6, <4>0
      <4>2. CASE j = m + 1
        BY <2>2, <3>4, <4>1, <4>2
      <4>3. CASE j # m + 1
        <5>1. j \in 1..m
          BY <3>2, <4>3
        <5>2. e[i] < e[j]
          BY <2>1, <4>1, <5>1 DEF Picks
        <5>3. QED
          BY <3>3, <4>1, <5>1, <5>2
      <4>4. QED
        BY <4>2, <4>3
    <3>10. \A p \in (1..n) \ S : \E i \in 1..(m + 1) : d[i] = p
      <4> TAKE p \in (1..n) \ S
      <4>1. CASE p = n
        BY <3>4, <4>1
      <4>2. CASE p # n
        <5>1. p \in (1..(n - 1)) \ S
          BY <2>2, <4>2
        <5>2. PICK i \in 1..m : e[i] = p
          BY <2>1, <5>1 DEF Picks
        <5>3. QED
          BY <3>3, <5>2
      <4>3. QED
        BY <4>1, <4>2
    <3>11. Picks(c, q, n, S, d)
      BY <3>2, <3>7, <3>8, <3>9, <3>10 DEF Picks
    <3>12. QED
      BY <2>2, <3>1, <3>2, <3>11
  <2>5. QED
    BY <2>3, <2>4
<1>10. N \in P
  <2>1. N \in 0..N
    BY <1>0
  <2> HIDE DEF P, N
  <2>2. QED
    BY <1>0, <1>8, <1>9, <2>1, UpToN
<1>11. QED
  BY <1>6, <1>10

\* What is left after splicing.
LEMMA SpliceFacts ==
  ASSUME NEW q \in Seq(Request), Distinct(q), NEW S
  PROVE  /\ Distinct(Without(q, S))
         /\ Items(Without(q, S)) = {q[p] : p \in (1..Len(q)) \ S}
<1> DEFINE k == Without(q, S)
<1>1. PICK e : Picks(k, q, Len(q), S, e)
  BY WithoutPicks
<1>2. k \in Seq(Request)
  BY WithoutPicks
<1> HIDE DEF k
<1>3. Distinct(k)
  <2> SUFFICES ASSUME NEW i \in 1..Len(k), NEW j \in 1..Len(k), k[i] = k[j] PROVE i = j
    BY DEF Distinct
  <2>1. e[i] \in 1..Len(q) /\ e[j] \in 1..Len(q) /\ q[e[i]] = q[e[j]]
    BY <1>1 DEF Picks
  <2>2. e[i] = e[j]
    BY <2>1 DEF Distinct
  <2>3. ~(i < j) /\ ~(j < i)
    BY <1>1, <2>1, <2>2 DEF Picks
  <2>4. QED
    BY <1>2, <2>3
<1>4. Items(k) \subseteq {q[p] : p \in (1..Len(q)) \ S}
  BY <1>1 DEF Items, Picks
<1>5. ASSUME NEW p \in (1..Len(q)) \ S PROVE q[p] \in Items(k)
  <2>1. PICK i \in 1..Len(k) : e[i] = p
    BY <1>1 DEF Picks
  <2>2. k[i] = q[p]
    BY <1>1, <2>1 DEF Picks
  <2>3. QED
    BY <2>2 DEF Items
<1>6. QED
  BY <1>3, <1>4, <1>5 DEF k

-----------------------------------------------------------------------------
(* The choice of pump *)

\* The most urgent waiter exists, and is one of those looked at.
LEMMA BestFacts ==
  ASSUME NEW q \in Seq(Request), NEW S \in SUBSET (1..Len(q)), S # {}
  PROVE  /\ BestOf(q, S) \in S
         /\ \A o \in S : \/ Priority[q[BestOf(q, S)]] < Priority[q[o]]
                         \/ /\ Priority[q[BestOf(q, S)]] = Priority[q[o]]
                            /\ BestOf(q, S) <= o
<1>1. \A p \in S : q[p] \in Request /\ Priority[q[p]] \in Nat /\ p \in Nat
  BY GovernorAssumption
<1> DEFINE classes == {Priority[q[p]] : p \in S}
<1>2. PICK c \in classes : \A d \in classes : c <= d
  <2>1. classes \in SUBSET Nat /\ classes # {}
    BY <1>1
  <2> HIDE DEF classes
  <2>2. QED
    BY <2>1, LeastNumber
<1> DEFINE first == {p \in S : Priority[q[p]] = c}
<1>3. PICK b \in first : \A o \in first : b <= o
  <2>1. first \in SUBSET Nat /\ first # {}
    BY <1>1, <1>2
  <2> HIDE DEF first
  <2>2. QED
    BY <2>1, LeastNumber
<1>4. \A o \in S : c <= Priority[q[o]]
  BY <1>2
<1>5. b \in S /\ Priority[q[b]] = c
  BY <1>3
<1>6. \A o \in S : \/ Priority[q[b]] < Priority[q[o]]
                   \/ Priority[q[b]] = Priority[q[o]] /\ b <= o
  <2> TAKE o \in S
  <2>1. CASE Priority[q[o]] = c
    BY <1>3, <1>5, <2>1
  <2>2. CASE Priority[q[o]] # c
    BY <1>1, <1>4, <1>5, <2>2
  <2>3. QED
    BY <2>1, <2>2
<1> HIDE DEF classes, first
<1>7. QED
  BY <1>5, <1>6 DEF BestOf

\* A walk that meets no expired waiter meets every waiter.
LEMMA VisitedFacts ==
  ASSUME NEW q \in Seq(Request)
  PROVE  /\ Visited(q) \subseteq 1..Len(q)
         /\ (\A p \in Visited(q) : q[p] \notin expired) => Visited(q) = 1..Len(q)
<1> DEFINE N == Len(q)
           A == BOOLEAN
           yes == TRUE
           step == [x \in A \X (1..N) |-> x[2] = 1 \/ ~(x[1] /\ q[x[2] - 1] \in expired)]
           visited == CHOOSE visited : visited = [p \in 1..N |->
                        p = 1 \/ ~(visited[p - 1] /\ q[p - 1] \in expired)]
<1>1. N \in Nat /\ yes \in A /\ step \in Steps(A, N)
  BY DEF Steps
<1>2. PICK f : Recursive(f, A, N, yes, step)
  <2> HIDE DEF A, N, yes, step
  <2>1. QED
    BY <1>1, Recursion
<1>3. f \in [0..N -> BOOLEAN] /\ \A p \in 1..N : f[p] = step[<<f[p - 1], p>>]
  BY <1>2 DEF Recursive
<1>4. \A p \in 1..N : f[p] = (p = 1 \/ ~(f[p - 1] /\ q[p - 1] \in expired))
  <2> TAKE p \in 1..N
  <2>1. <<f[p - 1], p>> \in A \X (1..N)
    BY <1>3
  <2>2. step[<<f[p - 1], p>>] = (p = 1 \/ ~(f[p - 1] /\ q[p - 1] \in expired))
    BY <2>1
  <2>3. QED
    BY <1>3, <2>2
<1> DEFINE g == [p \in 1..N |-> f[p]]
<1>5. g = [p \in 1..N |-> p = 1 \/ ~(g[p - 1] /\ q[p - 1] \in expired)]
  <2>1. ASSUME NEW p \in 1..N
        PROVE  f[p] = (p = 1 \/ ~(g[p - 1] /\ q[p - 1] \in expired))
    <3>1. CASE p = 1
      BY <1>4, <3>1
    <3>2. CASE p # 1
      <4>1. p - 1 \in 1..N
        BY <1>1, <3>2
      <4>2. g[p - 1] = f[p - 1]
        BY <4>1
      <4>3. QED
        BY <1>4, <4>2
    <3>3. QED
      BY <3>1, <3>2
  <2>2. QED
    BY <2>1
<1>6. visited = [p \in 1..N |-> p = 1 \/ ~(visited[p - 1] /\ q[p - 1] \in expired)]
  BY <1>5
<1>7. Visited(q) = {p \in 1..N : visited[p]}
  BY DEF Visited
<1> HIDE DEF visited
<1>8. ASSUME \A p \in Visited(q) : q[p] \notin expired, NEW p \in 1..N PROVE visited[p]
  <2>1. visited[p] = (p = 1 \/ ~(visited[p - 1] /\ q[p - 1] \in expired))
    BY <1>6
  <2>2. CASE p = 1
    BY <2>1, <2>2
  <2>3. CASE p # 1
    <3>1. p - 1 \in 1..N
      BY <1>1, <2>3
    <3>2. ~(visited[p - 1] /\ q[p - 1] \in expired)
      BY <1>7, <1>8, <3>1
    <3>3. QED
      BY <2>1, <3>2
  <2>4. QED
    BY <2>2, <2>3
<1>9. QED
  BY <1>7, <1>8

-----------------------------------------------------------------------------
(* The loop of pump *)

PumpState == [queue : Seq(Request), running : SUBSET Request,
              cancelled : SUBSET Request, more : BOOLEAN]

\* The waiter at position p of the array comes before the one at o.
Before(p, o) ==
  \/ Priority[queue[p]] < Priority[queue[o]]
  \/ Priority[queue[p]] = Priority[queue[o]] /\ p < o

\* q holds waiters of the array in the array's order.
Embeds(q, e) ==
  /\ e \in [1..Len(q) -> 1..Len(queue)]
  /\ \A i \in 1..Len(q) : q[i] = queue[e[i]]
  /\ \A i, j \in 1..Len(q) : i < j => e[i] < e[j]

\* Every waiter is still in the array, started or cancelled.
Parted(s, running) ==
  /\ Distinct(s.queue)
  /\ running \subseteq s.running
  /\ Items(s.queue) \intersect s.running = {}
  /\ Items(s.queue) \intersect s.cancelled = {}
  /\ s.running \intersect s.cancelled = {}
  /\ Items(s.queue) \union s.running \union s.cancelled = Items(queue) \union running

\* What was started came before what still waits, if nothing was cancelled.
InOrder(s) ==
  s.cancelled = {} => \A p, o \in 1..Len(queue) :
                        queue[p] \in s.running /\ queue[o] \in Items(s.queue) => Before(p, o)

\* The invariant of the loop, which began with these running.
Passed(s, running) ==
  /\ s \in PumpState
  /\ Parted(s, running)
  /\ s.cancelled \subseteq expired
  /\ IsFiniteSet(s.running) /\ Cardinality(s.running) <= MaxConcurrent
  /\ \E e : Embeds(s.queue, e)
  /\ InOrder(s)

\* A pass may cancel the waiters at late and start the one at best.
Starts(s, late, best) ==
  /\ late \in SUBSET (1..Len(s.queue)) /\ best \in (1..Len(s.queue)) \ late
  /\ \A p \in late : s.queue[p] \in expired
  /\ Cardinality(s.running) < MaxConcurrent \/ ~(Cardinality(s.running) \in Nat)
  /\ late = {} => \A o \in 1..Len(s.queue) :
       \/ Priority[s.queue[best]] < Priority[s.queue[o]]
       \/ Priority[s.queue[best]] = Priority[s.queue[o]] /\ best <= o

\* The last pass cancels the expired waiters it visits and breaks, another one
\* also starts the best waiter it visits.
LEMMA PassCases ==
  ASSUME NEW s \in PumpState
  PROVE  \/ PumpPass(s) = s
         \/ \E late \in SUBSET (1..Len(s.queue)) :
              /\ \A p \in late : s.queue[p] \in expired
              /\ PumpPass(s) = [s EXCEPT !.queue = Without(s.queue, late),
                                         !.cancelled = s.cancelled \union {s.queue[p] : p \in late},
                                         !.more = FALSE]
         \/ \E late, best :
              /\ Starts(s, late, best)
              /\ PumpPass(s) = [s EXCEPT !.queue = Without(s.queue, late \union {best}),
                                         !.cancelled = s.cancelled \union {s.queue[p] : p \in late},
                                         !.running = s.running \union {s.queue[best]}]
<1> DEFINE q == s.queue
           visited == Visited(q)
           late == {p \in visited : q[p] \in expired}
           live == visited \ late
           best == BestOf(q, live)
           cancelled == s.cancelled \union {q[p] : p \in late}
           stop == [s EXCEPT !.queue = Without(q, late), !.cancelled = cancelled, !.more = FALSE]
           go == [s EXCEPT !.queue = Without(q, late \union {best}), !.cancelled = cancelled,
                           !.running = s.running \union {q[best]}]
<1>1. q \in Seq(Request)
  BY DEF PumpState
<1>2. PumpPass(s) = IF ~s.more \/ q = <<>> \/ Cardinality(s.running) >= MaxConcurrent THEN s
                    ELSE IF live = {} THEN stop ELSE go
  BY DEF PumpPass
<1>3. visited \subseteq 1..Len(q) /\ ((\A p \in visited : q[p] \notin expired) => visited = 1..Len(q))
  BY <1>1, VisitedFacts
<1>4. /\ late \in SUBSET (1..Len(q)) /\ live \in SUBSET (1..Len(q))
      /\ \A p \in late : q[p] \in expired
      /\ live \intersect late = {}
      /\ late = {} => live = 1..Len(q)
  BY <1>3
<1>5. CASE PumpPass(s) = s
  BY <1>5
<1>6. CASE PumpPass(s) = stop
  BY <1>4, <1>6
<1>7. CASE /\ ~(Cardinality(s.running) >= MaxConcurrent)
           /\ live # {} /\ PumpPass(s) = go
  <2> HIDE DEF visited, late, live, go
  <2>1. /\ best \in live
        /\ \A o \in live : \/ Priority[q[best]] < Priority[q[o]]
                           \/ Priority[q[best]] = Priority[q[o]] /\ best <= o
    BY <1>1, <1>4, <1>7, BestFacts
  <2> HIDE DEF best
  <2>2. best \in 1..Len(q) /\ best \notin late
    BY <1>4, <2>1
  <2>3. Cardinality(s.running) < MaxConcurrent \/ ~(Cardinality(s.running) \in Nat)
    BY <1>7, GovernorAssumption
  <2>4. late = {} => \A o \in 1..Len(q) :
                       \/ Priority[q[best]] < Priority[q[o]]
                       \/ Priority[q[best]] = Priority[q[o]] /\ best <= o
    BY <1>4, <2>1
  <2>5. PumpPass(s) = [s EXCEPT !.queue = Without(q, late \union {best}),
                                !.cancelled = s.cancelled \union {q[p] : p \in late},
                                !.running = s.running \union {q[best]}]
    BY <1>7 DEF go
  <2>6. Starts(s, late, best)
    BY <1>4, <2>2, <2>3, <2>4 DEF Starts
  <2>7. QED
    BY <2>5, <2>6
<1> HIDE DEF visited, late, live, best, stop, go
<1>8. QED
  BY <1>2, <1>5, <1>6, <1>7

\* A pass keeps the state's type.
LEMMA PassType ==
  ASSUME NEW s \in PumpState
  PROVE  PumpPass(s) \in PumpState
<1>1. s.queue \in Seq(Request) /\ \A p \in 1..Len(s.queue) : s.queue[p] \in Request
  BY DEF PumpState
<1>2. \A S : Without(s.queue, S) \in Seq(Request)
  BY <1>1, WithoutPicks
<1>3. CASE PumpPass(s) = s
  BY <1>3
<1>4. ASSUME NEW late \in SUBSET (1..Len(s.queue)),
             PumpPass(s) = [s EXCEPT !.queue = Without(s.queue, late),
                                     !.cancelled = s.cancelled \union {s.queue[p] : p \in late},
                                     !.more = FALSE]
      PROVE  PumpPass(s) \in PumpState
  <2>1. {s.queue[p] : p \in late} \in SUBSET Request
    BY <1>1
  <2>2. QED
    BY <1>2, <1>4, <2>1 DEF PumpState
<1>5. ASSUME NEW late, NEW best, Starts(s, late, best),
             PumpPass(s) = [s EXCEPT !.queue = Without(s.queue, late \union {best}),
                                     !.cancelled = s.cancelled \union {s.queue[p] : p \in late},
                                     !.running = s.running \union {s.queue[best]}]
      PROVE  PumpPass(s) \in PumpState
  <2>1. {s.queue[p] : p \in late} \in SUBSET Request /\ s.queue[best] \in Request
    BY <1>1, <1>5 DEF Starts
  <2> DEFINE queue2 == Without(s.queue, late \union {best})
             cancelled2 == s.cancelled \union {s.queue[p] : p \in late}
             running2 == s.running \union {s.queue[best]}
  <2>2. queue2 \in Seq(Request) /\ cancelled2 \in SUBSET Request /\ running2 \in SUBSET Request
    BY <1>2, <2>1 DEF PumpState
  <2>3. PumpPass(s) = [s EXCEPT !.queue = queue2, !.cancelled = cancelled2, !.running = running2]
    BY <1>5
  <2> HIDE DEF queue2, cancelled2, running2
  <2>4. QED
    BY <2>2, <2>3 DEF PumpState
<1>6. QED
  BY <1>3, <1>4, <1>5, PassCases

\* Splicing keeps the array's order.
LEMMA SpliceEmbeds ==
  ASSUME queue \in Seq(Request), NEW q \in Seq(Request), NEW e, Embeds(q, e), NEW S
  PROVE  \E d : Embeds(Without(q, S), d)
<1> DEFINE k == Without(q, S)
<1>1. PICK f : Picks(k, q, Len(q), S, f)
  BY WithoutPicks
<1>2. k \in Seq(Request)
  BY WithoutPicks
<1> HIDE DEF k
<1> DEFINE d == [i \in 1..Len(k) |-> e[f[i]]]
<1>3. \A i \in 1..Len(k) : /\ f[i] \in 1..Len(q) /\ k[i] = q[f[i]] /\ d[i] = e[f[i]]
                           /\ e[f[i]] \in 1..Len(queue) /\ q[f[i]] = queue[e[f[i]]]
  BY <1>1 DEF Picks, Embeds
<1>4. \A i, j \in 1..Len(k) : i < j => f[i] < f[j]
  BY <1>1 DEF Picks
<1>5. \A i, j \in 1..Len(k) : i < j => d[i] < d[j]
  BY <1>3, <1>4 DEF Embeds
<1>6. d \in [1..Len(k) -> 1..Len(queue)]
  BY <1>3
<1> HIDE DEF d
<1>7. Embeds(k, d)
  BY <1>3, <1>5, <1>6 DEF Embeds
<1>8. QED
  BY <1>7 DEF k

\* A pass that breaks keeps the loop's invariant.
LEMMA StopKeeps ==
  ASSUME queue \in Seq(Request), NEW running, NEW s, Passed(s, running),
         NEW late \in SUBSET (1..Len(s.queue)), \A p \in late : s.queue[p] \in expired,
         NEW t \in PumpState, t.queue = Without(s.queue, late),
         t.cancelled = s.cancelled \union {s.queue[p] : p \in late}, t.running = s.running
  PROVE  Passed(t, running)
<1>1. s.queue \in Seq(Request) /\ Distinct(s.queue)
  BY DEF Passed, PumpState, Parted
<1>2. Distinct(t.queue) /\ Items(t.queue) = {s.queue[p] : p \in (1..Len(s.queue)) \ late}
  BY <1>1, SpliceFacts
<1> DEFINE gone == {s.queue[p] : p \in late}
<1>3. Items(t.queue) \union gone = Items(s.queue)
  BY <1>2 DEF Items
<1>4. Items(t.queue) \intersect gone = {}
  BY <1>1, <1>2 DEF Distinct
<1>5. gone \subseteq expired /\ t.cancelled = s.cancelled \union gone
  OBVIOUS
<1> HIDE DEF gone
<1>6. Parted(t, running)
  BY <1>2, <1>3, <1>4, <1>5 DEF Passed, Parted
<1>7. \E d : Embeds(t.queue, d)
  <2>1. PICK e : Embeds(s.queue, e)
    BY DEF Passed
  <2>2. QED
    BY <1>1, <2>1, SpliceEmbeds
<1>8. InOrder(t)
  BY <1>3, <1>5 DEF Passed, InOrder
<1>9. QED
  BY <1>5, <1>6, <1>7, <1>8 DEF Passed

\* So does one that starts a waiter.
LEMMA GoKeeps ==
  ASSUME queue \in Seq(Request), Distinct(queue), NEW running, NEW s, Passed(s, running),
         NEW late, NEW best, Starts(s, late, best), NEW t \in PumpState, t.queue = Without(s.queue, late \union {best}),
         t.cancelled = s.cancelled \union {s.queue[p] : p \in late},
         t.running = s.running \union {s.queue[best]}
  PROVE  Passed(t, running)
<1> DEFINE x == s.queue[best]
           gone == {s.queue[p] : p \in late}
<1>0. /\ late \in SUBSET (1..Len(s.queue)) /\ best \in 1..Len(s.queue) /\ best \notin late
      /\ \A p \in late : s.queue[p] \in expired
      /\ late = {} => \A o \in 1..Len(s.queue) :
           \/ Priority[s.queue[best]] < Priority[s.queue[o]]
           \/ Priority[s.queue[best]] = Priority[s.queue[o]] /\ best <= o
  BY DEF Starts
<1>1. s.queue \in Seq(Request) /\ Distinct(s.queue)
  BY DEF Passed, PumpState, Parted
<1>2. Distinct(t.queue)
      /\ Items(t.queue) = {s.queue[p] : p \in (1..Len(s.queue)) \ (late \union {best})}
  BY <1>1, SpliceFacts
<1>3. Items(t.queue) \union gone \union {x} = Items(s.queue)
  BY <1>0, <1>2 DEF Items
<1>4. Items(t.queue) \intersect gone = {} /\ x \notin gone /\ x \notin Items(t.queue)
  <2>1. \A p, o \in 1..Len(s.queue) : p # o => s.queue[p] # s.queue[o]
    BY <1>1 DEF Distinct
  <2>2. ASSUME NEW y \in Items(t.queue), y \in gone PROVE FALSE
    <3>1. PICK i \in (1..Len(s.queue)) \ (late \union {best}) : y = s.queue[i]
      BY <1>2
    <3>2. PICK p \in late : y = s.queue[p]
      BY <2>2
    <3>3. QED
      BY <1>0, <2>1, <3>1, <3>2
  <2>3. x \notin gone
    BY <1>0, <2>1
  <2>4. x \notin Items(t.queue)
    BY <1>0, <1>2, <2>1
  <2>5. QED
    BY <2>2, <2>3, <2>4
<1>5. /\ gone \subseteq expired /\ t.cancelled = s.cancelled \union gone
      /\ t.running = s.running \union {x}
  BY <1>0
<1>6. ASSUME NEW y \in Items(t.queue) PROVE \E i \in 1..Len(s.queue) : y = s.queue[i] /\ i # best
  BY <1>2
<1>7. \A p \in late : s.queue[p] \in gone
  OBVIOUS
<1> HIDE DEF gone
<1>8. Parted(t, running)
  <2> HIDE DEF x
  <2>0. Parted(s, running)
    BY DEF Passed
  <2>1. /\ Items(s.queue) \intersect s.running = {} /\ Items(s.queue) \intersect s.cancelled = {}
        /\ s.running \intersect s.cancelled = {}
    BY <2>0 DEF Parted
  <2> DEFINE Q == Items(s.queue)
             R == s.running
             C == s.cancelled
             K == Items(t.queue)
  <2>2. /\ K \union gone \union {x} = Q /\ K \intersect gone = {} /\ x \notin gone /\ x \notin K
        /\ Q \intersect R = {} /\ Q \intersect C = {} /\ R \intersect C = {}
    BY <1>3, <1>4, <2>1
  <2>3. t.running = R \union {x} /\ t.cancelled = C \union gone
    BY <1>5
  <2>4. Q \union R \union C = Items(queue) \union running /\ running \subseteq R
    BY <2>0 DEF Parted
  <2>5. /\ K \intersect (R \union {x}) = {}
        /\ K \intersect (C \union gone) = {}
        /\ (R \union {x}) \intersect (C \union gone) = {}
        /\ K \union (R \union {x}) \union (C \union gone) = Q \union R \union C
    <3> HIDE DEF Q, R, C, K
    <3>1. K \subseteq Q /\ gone \subseteq Q /\ x \in Q
      BY <2>2
    <3>2. K \intersect (R \union {x}) = {}
      BY <2>2, <3>1
    <3>3. K \intersect (C \union gone) = {}
      BY <2>2, <3>1
    <3>4. (R \union {x}) \intersect (C \union gone) = {}
      BY <2>2, <3>1
    <3>5. K \union (R \union {x}) \union (C \union gone) = Q \union R \union C
      BY <2>2
    <3>6. QED
      BY <3>2, <3>3, <3>4, <3>5
  <2>6. QED
    BY <1>2, <2>3, <2>4, <2>5 DEF Parted
<1>9. IsFiniteSet(t.running) /\ Cardinality(t.running) <= MaxConcurrent
  <2>1. x \notin s.running
    BY <1>3 DEF Passed, Parted
  <2>2. IsFiniteSet(s.running) /\ Cardinality(s.running) \in Nat
    BY FS_CardinalityType DEF Passed
  <2>21. Cardinality(s.running) < MaxConcurrent
    BY <2>2 DEF Starts
  <2> HIDE DEF x
  <2>3. IsFiniteSet(t.running) /\ Cardinality(t.running) = Cardinality(s.running) + 1
    <3>1. t.running = s.running \union {x}
      BY <1>5
    <3>2. IsFiniteSet(s.running \union {x})
          /\ Cardinality(s.running \union {x}) = Cardinality(s.running) + 1
      BY <2>1, <2>2, FS_AddElement
    <3>3. QED
      BY <3>1, <3>2
  <2>4. QED
    BY <2>2, <2>21, <2>3, GovernorAssumption
<1>10. PICK e : Embeds(s.queue, e)
  BY DEF Passed
<1>11. \E d : Embeds(t.queue, d)
  BY <1>1, <1>10, SpliceEmbeds
<1>12. InOrder(t)
  <2> SUFFICES ASSUME t.cancelled = {}, NEW p \in 1..Len(queue), NEW o \in 1..Len(queue),
                      queue[p] \in t.running, queue[o] \in Items(t.queue)
               PROVE  Before(p, o)
    BY DEF InOrder
  <2>1. late = {} /\ s.cancelled = {} /\ queue[o] \in Items(s.queue)
    BY <1>3, <1>5, <1>7
  <2>2. CASE queue[p] \in s.running
    BY <2>1, <2>2 DEF Passed, InOrder
  <2>3. CASE queue[p] = x
    <3>1. PICK i \in 1..Len(s.queue) : queue[o] = s.queue[i] /\ i # best
      BY <1>6
    <3>2. /\ e[best] \in 1..Len(queue) /\ e[i] \in 1..Len(queue)
          /\ s.queue[best] = queue[e[best]] /\ s.queue[i] = queue[e[i]]
      BY <1>0, <1>10 DEF Embeds
    <3>3. p = e[best] /\ o = e[i]
      BY <2>3, <3>1, <3>2 DEF Distinct
    <3>4. \/ Priority[queue[p]] < Priority[queue[o]]
          \/ Priority[queue[p]] = Priority[queue[o]] /\ best <= i
      BY <1>0, <2>1, <2>3, <3>1
    <3>5. best <= i => e[best] < e[i]
      <4>1. best \in Nat /\ i \in Nat
        BY <1>0, <1>1
      <4>2. QED
        BY <1>0, <1>10, <3>1, <4>1 DEF Embeds
    <3>6. QED
      BY <3>3, <3>4, <3>5 DEF Before
  <2>4. QED
    BY <1>5, <2>2, <2>3
<1>13. QED
  BY <1>5, <1>8, <1>9, <1>11, <1>12 DEF Passed

\* Every pass keeps it.
LEMMA PassKeeps ==
  ASSUME queue \in Seq(Request), Distinct(queue), NEW running, NEW s, Passed(s, running)
  PROVE  Passed(PumpPass(s), running)
<1> DEFINE t == PumpPass(s)
<1>1. s \in PumpState /\ t \in PumpState
  BY PassType DEF Passed
<1> HIDE DEF t
<1>3. CASE t = s
  BY <1>3 DEF t
<1>4. ASSUME NEW late \in SUBSET (1..Len(s.queue)), \A p \in late : s.queue[p] \in expired,
             t = [s EXCEPT !.queue = Without(s.queue, late),
                           !.cancelled = s.cancelled \union {s.queue[p] : p \in late},
                           !.more = FALSE]
      PROVE  Passed(t, running)
  <2>1. /\ t.queue = Without(s.queue, late) /\ t.running = s.running
        /\ t.cancelled = s.cancelled \union {s.queue[p] : p \in late}
    BY <1>1, <1>4 DEF PumpState
  <2>2. QED
    BY <1>1, <1>4, <2>1, StopKeeps
<1>5. ASSUME NEW late, NEW best, Starts(s, late, best),
             t = [s EXCEPT !.queue = Without(s.queue, late \union {best}),
                           !.cancelled = s.cancelled \union {s.queue[p] : p \in late},
                           !.running = s.running \union {s.queue[best]}]
      PROVE  Passed(t, running)
  <2>1. /\ t.queue = Without(s.queue, late \union {best})
        /\ t.running = s.running \union {s.queue[best]}
        /\ t.cancelled = s.cancelled \union {s.queue[p] : p \in late}
    BY <1>1, <1>5 DEF PumpState
  <2>2. QED
    BY <1>1, <1>5, <2>1, GoKeeps
<1>6. Passed(t, running)
  <2> USE DEF t
  <2>1. QED
    BY <1>1, <1>3, <1>4, <1>5, PassCases
<1>7. QED
  BY <1>6 DEF t

\* A pass over waiters of which none has expired starts one, if a slot is free.
LEMMA PassStarts ==
  ASSUME NEW s \in PumpState, s.more, s.queue # <<>>,
         ~(Cardinality(s.running) >= MaxConcurrent), PumpPass(s).cancelled = {}
  PROVE  /\ PumpPass(s).more
         /\ \E x \in Items(s.queue) : PumpPass(s).running = s.running \union {x}
<1> DEFINE q == s.queue
           visited == Visited(q)
           late == {p \in visited : q[p] \in expired}
           live == visited \ late
           best == BestOf(q, live)
           cancelled == s.cancelled \union {q[p] : p \in late}
           stop == [s EXCEPT !.queue = Without(q, late), !.cancelled = cancelled, !.more = FALSE]
           go == [s EXCEPT !.queue = Without(q, late \union {best}), !.cancelled = cancelled,
                           !.running = s.running \union {q[best]}]
<1>1. q \in Seq(Request) /\ Len(q) \in Nat /\ 1 \in 1..Len(q)
  BY DEF PumpState
<1>2. PumpPass(s) = IF live = {} THEN stop ELSE go
  BY DEF PumpPass
<1>3. stop.cancelled = cancelled /\ go.cancelled = cancelled
      /\ go.running = s.running \union {q[best]} /\ go.more = s.more
  <2> HIDE DEF cancelled, late, best
  <2>1. QED
    BY DEF PumpState
<1>4. cancelled = {}
  <2> HIDE DEF cancelled, live, stop, go
  <2>1. QED
    BY <1>2, <1>3
<1>5. late = {}
  BY <1>4
<1>6. visited = 1..Len(q)
  BY <1>1, <1>5, VisitedFacts
<1>7. live \in SUBSET (1..Len(q)) /\ live # {}
  BY <1>1, <1>5, <1>6
<1> HIDE DEF visited, late, live, stop, go
<1>8. best \in live
  BY <1>1, <1>7, BestFacts
<1>9. q[best] \in Items(q)
  BY <1>7, <1>8 DEF Items
<1>10. PumpPass(s) = go
  BY <1>2, <1>7
<1>11. QED
  BY <1>3, <1>9, <1>10

\* After n passes without a cancellation the array is empty or n requests run.
Busy(s, n) == s.cancelled = {} => s.more /\ (s.queue = <<>> \/ Cardinality(s.running) >= n)

\* A pass that finds a slot free and a waiter fills it.
LEMMA PassBusy ==
  ASSUME NEW running, NEW s, Passed(s, running), NEW n \in 1..MaxConcurrent, Busy(s, n - 1)
  PROVE  Busy(PumpPass(s), n)
<1> SUFFICES ASSUME PumpPass(s).cancelled = {}
             PROVE  PumpPass(s).more /\ (PumpPass(s).queue = <<>>
                                         \/ Cardinality(PumpPass(s).running) >= n)
  BY DEF Busy
<1>0. s \in PumpState /\ IsFiniteSet(s.running) /\ Cardinality(s.running) \in Nat
      /\ n \in Nat /\ MaxConcurrent \in Nat /\ n <= MaxConcurrent
  BY FS_CardinalityType, GovernorAssumption DEF Passed
<1>1. s.cancelled = {}
  <2>1. s.cancelled \subseteq PumpPass(s).cancelled
    <3>1. CASE PumpPass(s) = s
      BY <3>1
    <3>2. ASSUME NEW late, PumpPass(s) = [s EXCEPT !.queue = Without(s.queue, late),
                             !.cancelled = s.cancelled \union {s.queue[p] : p \in late},
                             !.more = FALSE]
          PROVE  s.cancelled \subseteq PumpPass(s).cancelled
      BY <1>0, <3>2 DEF PumpState
    <3>3. ASSUME NEW late, NEW best,
                 PumpPass(s) = [s EXCEPT !.queue = Without(s.queue, late \union {best}),
                             !.cancelled = s.cancelled \union {s.queue[p] : p \in late},
                             !.running = s.running \union {s.queue[best]}]
          PROVE  s.cancelled \subseteq PumpPass(s).cancelled
      BY <1>0, <3>3 DEF PumpState
    <3>4. QED
      BY <1>0, <3>1, <3>2, <3>3, PassCases
  <2>2. QED
    BY <2>1
<1>2. s.more /\ (s.queue = <<>> \/ Cardinality(s.running) >= n - 1)
  BY <1>1 DEF Busy
<1>3. CASE s.queue = <<>> \/ Cardinality(s.running) >= MaxConcurrent
  <2>1. PumpPass(s) = s
    BY <1>3 DEF PumpPass
  <2>2. QED
    BY <1>0, <1>2, <1>3, <2>1
<1>4. CASE s.queue # <<>> /\ ~(Cardinality(s.running) >= MaxConcurrent)
  <2>1. PumpPass(s).more
    BY <1>0, <1>2, <1>4, PassStarts
  <2>2. PICK x \in Items(s.queue) : PumpPass(s).running = s.running \union {x}
    BY <1>0, <1>2, <1>4, PassStarts
  <2>3. x \notin s.running
    BY DEF Passed, Parted
  <2>4. Cardinality(s.running \union {x}) = Cardinality(s.running) + 1
    BY <1>0, <2>3, FS_AddElement
  <2>5. Cardinality(PumpPass(s).running) >= n
    BY <1>0, <1>2, <1>4, <2>2, <2>4
  <2>6. QED
    BY <2>1, <2>5
<1>5. QED
  BY <1>3, <1>4

\* pump's loop establishes its invariant.
LEMMA PumpFacts ==
  ASSUME queue \in Seq(Request), Distinct(queue), NEW running \in SUBSET Request,
         running \intersect Items(queue) = {},
         IsFiniteSet(running), Cardinality(running) <= MaxConcurrent
  PROVE  Passed(Pump(running), running) /\ Busy(Pump(running), MaxConcurrent)
<1> DEFINE N == MaxConcurrent
           A == PumpState
           start == [queue |-> queue, running |-> running, cancelled |-> {}, more |-> TRUE]
           step == [x \in A \X (1..N) |-> PumpPass(x[1])]
           pass == CHOOSE pass : pass = [n \in 0..N |-> IF n = 0 THEN start ELSE PumpPass(pass[n - 1])]
<1>0. N \in Nat
  BY GovernorAssumption
<1>1. start \in A
  BY DEF PumpState
<1>2. step \in Steps(A, N)
  BY PassType DEF Steps
<1>3. PICK f : Recursive(f, A, N, start, step)
  <2> HIDE DEF A, N, start, step
  <2>1. QED
    BY <1>0, <1>1, <1>2, Recursion
<1>4. f \in [0..N -> A] /\ f[0] = start /\ \A n \in 1..N : f[n] = step[<<f[n - 1], n>>]
  <2> HIDE DEF A, N, start, step
  <2>1. QED
    BY <1>3 DEF Recursive
<1>5. \A n \in 1..N : f[n] = PumpPass(f[n - 1])
  <2> TAKE n \in 1..N
  <2>1. f[n - 1] \in A
    BY <1>0, <1>4
  <2>2. QED
    BY <1>4, <2>1
<1>6. f = [n \in 0..N |-> IF n = 0 THEN start ELSE PumpPass(f[n - 1])]
  <2>1. ASSUME NEW n \in 0..N PROVE f[n] = IF n = 0 THEN start ELSE PumpPass(f[n - 1])
    <3>1. CASE n = 0
      BY <1>4, <3>1
    <3>2. CASE n # 0
      <4>1. n \in 1..N
        BY <1>0, <3>2
      <4>2. QED
        BY <1>5, <3>2, <4>1
    <3>3. QED
      BY <3>1, <3>2
  <2> HIDE DEF start
  <2>2. QED
    BY <1>4, <2>1
<1>7. pass = [n \in 0..N |-> IF n = 0 THEN start ELSE PumpPass(pass[n - 1])]
  <2> HIDE DEF start
  <2>1. QED
    BY <1>6
<1>8. Pump(running) = pass[N]
  BY DEF Pump
<1> HIDE DEF pass
<1>9. pass[0] = start /\ \A n \in 1..N : pass[n] = PumpPass(pass[n - 1])
  <2>1. 0 \in 0..N /\ \A n \in 1..N : n \in 0..N /\ n # 0
    BY <1>0
  <2> HIDE DEF start, N
  <2>2. \A n \in 0..N : pass[n] = IF n = 0 THEN start ELSE PumpPass(pass[n - 1])
    BY <1>7
  <2>3. pass[0] = start
    BY <2>1, <2>2
  <2>4. QED
    BY <2>1, <2>2, <2>3
<1> DEFINE P == {n \in 0..N : Passed(pass[n], running) /\ Busy(pass[n], n)}
<1>10. Passed(start, running) /\ Busy(start, 0)
  <2>1. start.queue = queue /\ start.running = running /\ start.cancelled = {}
    OBVIOUS
  <2> HIDE DEF start
  <2>2. Parted(start, running)
    BY <2>1 DEF Parted
  <2>3. Embeds(queue, [i \in 1..Len(queue) |-> i])
    BY DEF Embeds
  <2>4. InOrder(start)
    BY <2>1 DEF InOrder, Items
  <2>5. Passed(start, running)
    BY <1>1, <2>1, <2>2, <2>3, <2>4 DEF Passed
  <2>6. Busy(start, 0)
    <3>1. start.more
      BY DEF start
    <3>2. Cardinality(start.running) >= 0
      BY <2>1, FS_CardinalityType
    <3>3. QED
      BY <3>1, <3>2 DEF Busy
  <2>7. QED
    BY <2>5, <2>6
<1>11. 0 \in P
  BY <1>0, <1>9, <1>10
<1>12. ASSUME NEW n \in 1..N, n - 1 \in P PROVE n \in P
  <2>1. Passed(PumpPass(pass[n - 1]), running)
    BY <1>12, PassKeeps
  <2>2. Busy(PumpPass(pass[n - 1]), n)
    BY <1>12, PassBusy
  <2>3. QED
    BY <1>0, <1>9, <2>1, <2>2
<1>13. N \in P
  <2>1. N \in 0..N
    BY <1>0
  <2> HIDE DEF P, N
  <2>2. QED
    BY <1>0, <1>11, <1>12, <2>1, UpToN
<1>14. QED
  BY <1>8, <1>13

-----------------------------------------------------------------------------
(* The governor *)

Status == {"new", "waiting", "running"} \union Answered

Waiting == {r \in Request : status[r] = "waiting"}

GovInv == GovTypeOK /\ IsFiniteSet(Running)

\* The type invariant in the terms of the proofs.
LEMMA TypeParts ==
  GovTypeOK <=> /\ status \in [Request -> Status]
             /\ queue \in Seq(Request)
             /\ Items(queue) = Waiting
             /\ Distinct(queue)
             /\ expired \subseteq WithDeadline \intersect Waiting
             /\ aborted \subseteq WithSignal
             /\ met \in BOOLEAN
             /\ Cardinality(Running) <= MaxConcurrent
<1>1. WithDeadline \subseteq Request
  BY GovernorAssumption
<1>2. {r \in WithDeadline : status[r] = "waiting"} = WithDeadline \intersect Waiting
  BY <1>1 DEF Waiting
<1>3. QED
  BY <1>2 DEF GovTypeOK, Items, Distinct, Waiting, Status

\* The same of the next state.
LEMMA TypePartsNext ==
  GovTypeOK' <=> /\ status' \in [Request -> Status]
              /\ queue' \in Seq(Request)
              /\ Items(queue') = Waiting'
              /\ Distinct(queue')
              /\ expired' \subseteq WithDeadline \intersect Waiting'
              /\ aborted' \subseteq WithSignal
              /\ met' \in BOOLEAN
              /\ Cardinality(Running') <= MaxConcurrent
<1>1. WithDeadline \subseteq Request
  BY GovernorAssumption
<1>2. {r \in WithDeadline : status'[r] = "waiting"} = WithDeadline \intersect Waiting'
  BY <1>1 DEF Waiting
<1>3. QED
  BY <1>2 DEF GovTypeOK, Items, Distinct, Waiting, Status

\* A request is refused, dispatched or takes the end of the array.
LEMMA AdmitInv ==
  ASSUME GovInv, NEW r \in Request, Admit(r)
  PROVE  GovInv'
<1>0. /\ status \in [Request -> Status] /\ queue \in Seq(Request) /\ Items(queue) = Waiting
      /\ Distinct(queue) /\ expired \subseteq WithDeadline \intersect Waiting
      /\ aborted \subseteq WithSignal /\ met \in BOOLEAN
      /\ Cardinality(Running) <= MaxConcurrent /\ IsFiniteSet(Running)
  BY TypeParts DEF GovInv
<1>1. status[r] = "new" /\ expired' = expired /\ aborted' = aborted /\ met' = met
  BY DEF Admit
<1>2. Cardinality(Running) \in Nat
  BY <1>0, FS_CardinalityType
<1>3. CASE status' = [status EXCEPT ![r] = "cancelled"] /\ queue' = queue
  <2>1. status' \in [Request -> Status] /\ Waiting' = Waiting /\ Running' = Running
    BY <1>0, <1>1, <1>3 DEF Status, Answered, Waiting, Running
  <2>2. QED
    BY <1>0, <1>1, <1>3, <2>1, TypePartsNext DEF GovInv
<1>4. CASE /\ Cardinality(Running) < MaxConcurrent
           /\ status' = [status EXCEPT ![r] = "running"] /\ queue' = queue
  <2>1. status' \in [Request -> Status] /\ Waiting' = Waiting
        /\ Running' = Running \union {r} /\ r \notin Running
    BY <1>0, <1>1, <1>4 DEF Status, Waiting, Running
  <2>2. IsFiniteSet(Running \union {r}) /\ Cardinality(Running \union {r}) = Cardinality(Running) + 1
    BY <1>0, <2>1, FS_AddElement
  <2>3. IsFiniteSet(Running') /\ Cardinality(Running') <= MaxConcurrent
    BY <1>2, <1>4, <2>1, <2>2, GovernorAssumption
  <2>4. QED
    BY <1>0, <1>1, <1>4, <2>1, <2>3, TypePartsNext DEF GovInv
<1>5. CASE status' = [status EXCEPT ![r] = "waiting"] /\ queue' = Append(queue, r)
  <2>1. status' \in [Request -> Status] /\ Waiting' = Waiting \union {r} /\ Running' = Running
    BY <1>0, <1>1, <1>5 DEF Status, Waiting, Running
  <2>2. r \notin Items(queue)
    BY <1>0, <1>1 DEF Waiting
  <2>3. /\ queue' \in Seq(Request) /\ Len(queue') = Len(queue) + 1 /\ queue'[Len(queue) + 1] = r
        /\ Len(queue) \in Nat /\ \A p \in 1..Len(queue) : queue'[p] = queue[p]
    BY <1>0, <1>5
  <2>4. \A p \in 1..Len(queue') : p \in 1..Len(queue) \/ p = Len(queue) + 1
    BY <2>3
  <2>5. Items(queue') = Items(queue) \union {r}
    BY <2>3, <2>4 DEF Items
  <2>6. Distinct(queue')
    <3>1. \A p \in 1..Len(queue) : queue[p] # r
      BY <2>2 DEF Items
    <3>2. QED
      BY <1>0, <2>3, <2>4, <3>1 DEF Distinct
  <2>7. QED
    BY <1>0, <1>1, <2>1, <2>3, <2>5, <2>6, TypePartsNext DEF GovInv
<1>6. QED
  BY <1>3, <1>4, <1>5 DEF Admit

\* A cancelled waiter leaves the array.
LEMMA CancelInv ==
  ASSUME GovInv, NEW r \in Request, Cancel(r), met' = met,
         aborted' \subseteq WithSignal
  PROVE  GovInv'
<1>0. /\ status \in [Request -> Status] /\ queue \in Seq(Request) /\ Items(queue) = Waiting
      /\ Distinct(queue) /\ expired \subseteq WithDeadline \intersect Waiting
      /\ met \in BOOLEAN
      /\ Cardinality(Running) <= MaxConcurrent /\ IsFiniteSet(Running)
  BY TypeParts DEF GovInv
<1>1. CASE status[r] # "waiting"
  <2>1. status' = status /\ queue' = queue /\ expired' = expired
    BY <1>1 DEF Cancel
  <2>2. Waiting' = Waiting /\ Running' = Running
    BY <2>1 DEF Waiting, Running
  <2>3. QED
    BY <1>0, <2>1, <2>2, TypePartsNext DEF GovInv
<1>2. CASE status[r] = "waiting"
  <2>1. /\ status' = [status EXCEPT ![r] = "cancelled"]
        /\ queue' = Without(queue, IndexOf(r)) /\ expired' = expired \ {r}
    BY <1>2 DEF Cancel
  <2>2. status' \in [Request -> Status] /\ Waiting' = Waiting \ {r} /\ Running' = Running
    BY <1>0, <1>2, <2>1 DEF Status, Answered, Waiting, Running
  <2>3. queue' \in Seq(Request)
    BY <1>0, <2>1, WithoutPicks
  <2>4. Distinct(queue') /\ Items(queue') = {queue[p] : p \in (1..Len(queue)) \ IndexOf(r)}
    BY <1>0, <2>1, SpliceFacts
  <2>5. Items(queue') = Items(queue) \ {r}
    BY <2>4 DEF Items, IndexOf
  <2>6. QED
    BY <1>0, <2>1, <2>2, <2>3, <2>4, <2>5, TypePartsNext DEF GovInv
<1>3. QED
  BY <1>1, <1>2

\* What pump does to the requests when r settles.
LEMMA SettleFacts ==
  ASSUME GovInv, NEW r \in Request, Settle(r)
  PROVE  \E s : /\ Passed(s, Running \ {r}) /\ Busy(s, MaxConcurrent)
                /\ status[r] = "running"
                /\ status' = [q \in Request |->
                                IF q = r THEN "settled"
                                ELSE IF q \in s.running THEN "running"
                                ELSE IF q \in s.cancelled THEN "cancelled"
                                ELSE status[q]]
                /\ queue' = s.queue
                /\ expired' = expired \ (s.cancelled \union s.running)
                /\ met' = (met \/ s.cancelled # {})
                /\ aborted' = aborted
                /\ Running' = s.running
<1>0. /\ status \in [Request -> Status] /\ queue \in Seq(Request) /\ Items(queue) = Waiting
      /\ Distinct(queue) /\ Cardinality(Running) <= MaxConcurrent /\ IsFiniteSet(Running)
  BY TypeParts DEF GovInv
<1> DEFINE running == Running \ {r}
<1>1. running \in SUBSET Request /\ running \intersect Items(queue) = {}
  BY <1>0 DEF Running, Waiting
<1>2. IsFiniteSet(running) /\ Cardinality(running) <= MaxConcurrent
  <2>1. running \subseteq Running
    OBVIOUS
  <2>2. IsFiniteSet(running) /\ Cardinality(running) <= Cardinality(Running)
        /\ Cardinality(running) \in Nat /\ Cardinality(Running) \in Nat
    BY <1>0, <2>1, FS_Subset, FS_CardinalityType
  <2>3. QED
    BY <1>0, <2>2, GovernorAssumption
<1>3. Passed(Pump(running), running) /\ Busy(Pump(running), MaxConcurrent)
  <2> HIDE DEF running
  <2>1. QED
    BY <1>0, <1>1, <1>2, PumpFacts
<1> DEFINE s == Pump(running)
<1>4. /\ status[r] = "running"
      /\ status' = [q \in Request |->
                      IF q = r THEN "settled"
                      ELSE IF q \in s.running THEN "running"
                      ELSE IF q \in s.cancelled THEN "cancelled"
                      ELSE status[q]]
      /\ queue' = s.queue
      /\ expired' = expired \ (s.cancelled \union s.running)
      /\ met' = (met \/ s.cancelled # {})
      /\ aborted' = aborted
  BY DEF Settle
<1> HIDE DEF s
<1>5. Passed(s, running) /\ Busy(s, MaxConcurrent)
  BY <1>3 DEF s
<1>6. Running' = s.running
  <2>1. /\ running \subseteq s.running /\ s.running \in SUBSET Request
        /\ s.running \subseteq Items(queue) \union running
    BY <1>5 DEF Passed, Parted, PumpState
  <2>2. r \notin s.running
    BY <1>0, <1>4, <2>1 DEF Waiting
  <2>3. ASSUME NEW q \in Request PROVE status'[q] = "running" <=> q \in s.running
    <3>1. status'[q] = IF q = r THEN "settled"
                       ELSE IF q \in s.running THEN "running"
                       ELSE IF q \in s.cancelled THEN "cancelled"
                       ELSE status[q]
      BY <1>4
    <3>2. q # r /\ status[q] = "running" => q \in s.running
      BY <2>1 DEF Running
    <3>3. QED
      BY <2>2, <3>1, <3>2
  <2>4. QED
    BY <2>1, <2>3 DEF Running
<1>7. QED
  BY <1>4, <1>5, <1>6

\* The freed slot is handed on within the cap.
LEMMA SettleInv ==
  ASSUME GovInv, NEW r \in Request, Settle(r)
  PROVE  GovInv'
<1>0. /\ status \in [Request -> Status] /\ queue \in Seq(Request) /\ Items(queue) = Waiting
      /\ expired \subseteq WithDeadline \intersect Waiting
      /\ aborted \subseteq WithSignal /\ met \in BOOLEAN
  BY TypeParts DEF GovInv
<1>1. PICK s : /\ Passed(s, Running \ {r})
               /\ status[r] = "running"
               /\ status' = [q \in Request |->
                               IF q = r THEN "settled"
                               ELSE IF q \in s.running THEN "running"
                               ELSE IF q \in s.cancelled THEN "cancelled"
                               ELSE status[q]]
               /\ queue' = s.queue
               /\ expired' = expired \ (s.cancelled \union s.running)
               /\ met' = (met \/ s.cancelled # {})
               /\ aborted' = aborted
               /\ Running' = s.running
  BY SettleFacts
<1>2. s \in PumpState /\ Parted(s, Running \ {r})
      /\ IsFiniteSet(s.running) /\ Cardinality(s.running) <= MaxConcurrent
  BY <1>1 DEF Passed
<1>3. s.queue \in Seq(Request) /\ s.running \in SUBSET Request /\ Distinct(s.queue)
  BY <1>2 DEF PumpState, Parted
<1>4. /\ Running \ {r} \subseteq s.running
      /\ Items(s.queue) \intersect s.running = {}
      /\ Items(s.queue) \intersect s.cancelled = {}
      /\ s.running \intersect s.cancelled = {}
      /\ Items(s.queue) \union s.running \union s.cancelled = Items(queue) \union (Running \ {r})
  BY <1>2 DEF Parted
<1>5. r \notin s.running /\ r \notin Items(s.queue) /\ r \notin s.cancelled
  <2>1. r \notin Items(queue)
    BY <1>0, <1>1 DEF Waiting
  <2>2. QED
    BY <1>4, <2>1
<1>6. status' \in [Request -> Status]
  BY <1>0, <1>1 DEF Status, Answered
<1>7. Running' = s.running
  BY <1>1
<1>8. Waiting' = Items(s.queue)
  <2>0. Items(s.queue) \subseteq Items(queue)
    BY <1>4
  <2>1. ASSUME NEW q \in Request PROVE status'[q] = "waiting" <=> q \in Items(s.queue)
    <3>1. status'[q] = IF q = r THEN "settled"
                       ELSE IF q \in s.running THEN "running"
                       ELSE IF q \in s.cancelled THEN "cancelled"
                       ELSE status[q]
      BY <1>1
    <3>2. status[q] = "waiting" <=> q \in Items(queue)
      BY <1>0 DEF Waiting
    <3>3. q \in Items(s.queue) => q \in Items(queue) /\ q # r /\ q \notin s.running /\ q \notin s.cancelled
      BY <1>4, <1>5, <2>0
    <3>4. q \in Items(queue) /\ q \notin s.running /\ q \notin s.cancelled => q \in Items(s.queue)
      BY <1>4
    <3>5. QED
      BY <3>1, <3>2, <3>3, <3>4
  <2>2. Items(s.queue) \subseteq Request
    BY <1>3 DEF Items
  <2>3. QED
    BY <2>1, <2>2 DEF Waiting
<1>9. expired' \subseteq WithDeadline \intersect Waiting'
  <2>1. expired' \subseteq Items(queue) \ (s.cancelled \union s.running)
    BY <1>0, <1>1
  <2>2. Items(queue) \ (s.cancelled \union s.running) \subseteq Items(s.queue)
    BY <1>4
  <2>3. QED
    BY <1>0, <1>1, <1>8, <2>1, <2>2
<1>10. met' \in BOOLEAN
  <2>1. (met \/ s.cancelled # {}) \in BOOLEAN
    OBVIOUS
  <2>2. QED
    BY <1>1, <2>1
<1>11. aborted' \subseteq WithSignal /\ queue' = s.queue
  BY <1>0, <1>1
<1>12. QED
  BY <1>2, <1>3, <1>6, <1>7, <1>8, <1>9, <1>10, <1>11, TypePartsNext DEF GovInv

-----------------------------------------------------------------------------
(* The theorems *)

\* Every step keeps the invariant.
LEMMA NextInv ==
  ASSUME GovInv, [Next]_vars
  PROVE  GovInv'
<1>1. ASSUME NEW r \in Request, Admit(r) PROVE GovInv'
  BY <1>1, AdmitInv
<1>2. ASSUME NEW r \in Request, Abort(r) PROVE GovInv'
  <2>1. aborted' \subseteq WithSignal /\ met' = met /\ Cancel(r)
    BY <1>2, TypeParts DEF Abort, GovInv
  <2>2. QED
    BY <2>1, CancelInv
<1>3. ASSUME NEW r \in Request, Lapse(r) PROVE GovInv'
  <2>1. /\ status' = status /\ queue' = queue /\ aborted' = aborted /\ met' = met
        /\ expired' = expired \union {r} /\ r \in WithDeadline /\ status[r] = "waiting"
    BY <1>3 DEF Lapse
  <2>2. Waiting' = Waiting /\ Running' = Running /\ r \in Waiting
    BY <2>1 DEF Waiting, Running
  <2>3. QED
    BY <2>1, <2>2, TypeParts, TypePartsNext DEF GovInv
<1>4. ASSUME NEW r \in Request, TimerFires(r) PROVE GovInv'
  <2>1. aborted' \subseteq WithSignal /\ met' = met /\ Cancel(r)
    BY <1>4, TypeParts DEF TimerFires, GovInv
  <2>2. QED
    BY <2>1, CancelInv
<1>5. ASSUME NEW r \in Request, Settle(r) PROVE GovInv'
  BY <1>5, SettleInv
<1>6. CASE UNCHANGED vars
  BY <1>6 DEF vars, GovInv, GovTypeOK, Running
<1>7. QED
  BY <1>1, <1>2, <1>3, <1>4, <1>5, <1>6 DEF Next

\* An idle governor.
LEMMA InitInv ==
  Init => GovInv
<1> SUFFICES ASSUME Init PROVE GovInv
  OBVIOUS
<1>1. /\ status = [r \in Request |-> "new"] /\ queue = <<>> /\ expired = {} /\ aborted = {}
      /\ met = FALSE
  BY DEF Init
<1>2. Running = {} /\ Waiting = {}
  BY <1>1 DEF Running, Waiting
<1>3. IsFiniteSet({}) /\ Cardinality({}) = 0
  BY FS_EmptySet
<1>4. Items(queue) = {} /\ Distinct(queue) /\ queue \in Seq(Request)
  BY <1>1 DEF Items, Distinct
<1>5. status \in [Request -> Status] /\ met \in BOOLEAN
  BY <1>1 DEF Status
<1>6. Cardinality(Running) <= MaxConcurrent
  BY <1>2, <1>3, GovernorAssumption
<1>7. QED
  BY <1>1, <1>2, <1>3, <1>4, <1>5, <1>6, TypeParts DEF GovInv

\* The invariant holds in every reachable state.
THEOREM GovernorInvariant == Spec => []GovInv
<1>1. Init => GovInv
  BY InitInv
<1>2. GovInv /\ [Next]_vars => GovInv'
  BY NextInv
<1>3. QED
  BY <1>1, <1>2, PTL DEF Spec

\* The array holds exactly the waiters and no more than the cap is on the wire.
THEOREM CapHolds == Spec => []GovTypeOK
<1>1. GovInv => GovTypeOK
  BY DEF GovInv
<1>2. QED
  BY <1>1, GovernorInvariant, PTL

\* A request leaves admission once, whichever of pump, timer and signal is first.
THEOREM OutcomeStays == Spec => OutcomeIsFinal
<1> DEFINE A == \A r \in Request :
                  /\ status[r] \in Answered => status'[r] = status[r]
                  /\ status[r] = "running" => status'[r] # "cancelled"
<1>1. GovInv /\ [Next]_vars => [A]_vars
  <2> SUFFICES ASSUME GovInv, Next, NEW q \in Request
               PROVE  /\ status[q] \in Answered => status'[q] = status[q]
                      /\ status[q] = "running" => status'[q] # "cancelled"
    OBVIOUS
  <2>0. status \in [Request -> Status] /\ Items(queue) = Waiting
    BY TypeParts DEF GovInv
  <2>1. ASSUME NEW r \in Request, Admit(r)
        PROVE  /\ status[q] \in Answered => status'[q] = status[q]
               /\ status[q] = "running" => status'[q] # "cancelled"
    BY <2>0, <2>1 DEF Admit, Answered
  <2>2. ASSUME NEW r \in Request, Cancel(r)
        PROVE  /\ status[q] \in Answered => status'[q] = status[q]
               /\ status[q] = "running" => status'[q] # "cancelled"
    BY <2>0, <2>2 DEF Cancel, Answered
  <2>3. ASSUME NEW r \in Request, Settle(r)
        PROVE  /\ status[q] \in Answered => status'[q] = status[q]
               /\ status[q] = "running" => status'[q] # "cancelled"
    <3>1. PICK s : /\ Passed(s, Running \ {r})
                   /\ status[r] = "running"
                   /\ status' = [x \in Request |->
                                   IF x = r THEN "settled"
                                   ELSE IF x \in s.running THEN "running"
                                   ELSE IF x \in s.cancelled THEN "cancelled"
                                   ELSE status[x]]
      BY <2>3, SettleFacts
    <3>2. /\ Running \ {r} \subseteq s.running /\ s.running \intersect s.cancelled = {}
          /\ s.running \union s.cancelled \subseteq Items(queue) \union (Running \ {r})
      BY <3>1 DEF Passed, Parted
    <3>3. status'[q] = IF q = r THEN "settled"
                       ELSE IF q \in s.running THEN "running"
                       ELSE IF q \in s.cancelled THEN "cancelled"
                       ELSE status[q]
      BY <3>1
    <3>4. status[q] \in Answered => q # r /\ q \notin s.running /\ q \notin s.cancelled
      BY <2>0, <3>1, <3>2 DEF Answered, Waiting, Running
    <3>5. status[q] = "running" => q = r \/ q \in s.running
      BY <3>2 DEF Running
    <3>6. QED
      BY <3>3, <3>4, <3>5
  <2>4. ASSUME NEW r \in Request, Lapse(r)
        PROVE  status'[q] = status[q]
    BY <2>4 DEF Lapse
  <2>5. QED
    BY <2>1, <2>2, <2>3, <2>4 DEF Next, Abort, TimerFires
<1> HIDE DEF A
<1>2. Spec => [][A]_vars
  BY <1>1, GovernorInvariant, PTL DEF Spec
<1>3. QED
  BY <1>2 DEF OutcomeIsFinal, A

\* Slots go by class, first come first served within one.
THEOREM SlotsGoByPriority == Spec => PriorityRespected
<1> DEFINE A == ~met' =>
                  \A p, o \in 1..Len(queue) :
                    (status'[queue[p]] = "running" /\ status'[queue[o]] = "waiting") =>
                      \/ Priority[queue[p]] < Priority[queue[o]]
                      \/ Priority[queue[p]] = Priority[queue[o]] /\ p < o
<1>1. GovInv /\ [Next]_vars => [A]_vars
  <2> SUFFICES ASSUME GovInv, Next, ~met', NEW p \in 1..Len(queue), NEW o \in 1..Len(queue),
                      status'[queue[p]] = "running", status'[queue[o]] = "waiting"
               PROVE  Before(p, o)
    BY DEF Before
  <2>0. /\ status \in [Request -> Status] /\ Items(queue) = Waiting /\ queue \in Seq(Request)
    BY TypeParts DEF GovInv
  <2>1. /\ queue[p] \in Request /\ status[queue[p]] = "waiting"
        /\ queue[o] \in Request /\ status[queue[o]] = "waiting"
    <3>1. queue[p] \in Items(queue) /\ queue[o] \in Items(queue)
      BY DEF Items
    <3>2. QED
      BY <2>0, <3>1 DEF Waiting
  <2>2. ASSUME NEW r \in Request, Admit(r) PROVE FALSE
    BY <2>0, <2>1, <2>2 DEF Admit
  <2>3. ASSUME NEW r \in Request, Cancel(r) PROVE FALSE
    BY <2>0, <2>1, <2>3 DEF Cancel
  <2>4. ASSUME NEW r \in Request, Lapse(r) PROVE FALSE
    BY <2>1, <2>4 DEF Lapse
  <2>5. ASSUME NEW r \in Request, Settle(r) PROVE Before(p, o)
    <3>1. PICK s : /\ Passed(s, Running \ {r})
                   /\ status' = [x \in Request |->
                                   IF x = r THEN "settled"
                                   ELSE IF x \in s.running THEN "running"
                                   ELSE IF x \in s.cancelled THEN "cancelled"
                                   ELSE status[x]]
                   /\ queue' = s.queue
                   /\ met' = (met \/ s.cancelled # {})
      BY <2>5, SettleFacts
    <3>2. s.cancelled = {}
      BY <3>1
    <3>3. queue[p] \in s.running
      BY <2>1, <3>1
    <3>4. queue[o] \in Items(s.queue)
      <4>1. queue[o] \in Waiting'
        BY <2>1 DEF Waiting
      <4>2. Items(queue') = Waiting'
        BY <2>5, SettleInv, TypePartsNext DEF GovInv
      <4>3. QED
        BY <3>1, <4>1, <4>2
    <3>5. QED
      BY <3>1, <3>2, <3>3, <3>4 DEF Passed, InOrder
  <2>6. QED
    BY <2>2, <2>3, <2>4, <2>5 DEF Next, Abort, TimerFires
<1> HIDE DEF A
<1>2. Spec => [][A]_vars
  BY <1>1, GovernorInvariant, PTL DEF Spec
<1>3. QED
  BY <1>2 DEF PriorityRespected, A

\* No slot is free while a request waits.
SlotsBusy == ~met => (queue = <<>> \/ Cardinality(Running) >= MaxConcurrent)

\* Until a pump has met an expired waiter, the governor keeps every slot busy
\* while requests wait: whatever settles, aborts or times out, a freed slot is
\* handed on in the same callback (governor.ts 259-303).
THEOREM NoIdleSlot == Spec => []SlotsBusy
<1>1. Init => SlotsBusy
  BY DEF Init, SlotsBusy
<1>2. GovInv /\ SlotsBusy /\ [Next]_vars => SlotsBusy'
  <2> SUFFICES ASSUME GovInv, SlotsBusy, [Next]_vars, ~met'
               PROVE  queue' = <<>> \/ Cardinality(Running') >= MaxConcurrent
    BY DEF SlotsBusy
  <2>0. status \in [Request -> Status] /\ queue \in Seq(Request) /\ Items(queue) = Waiting
        /\ IsFiniteSet(Running) /\ Cardinality(Running) \in Nat /\ MaxConcurrent \in Nat
    BY TypeParts, FS_CardinalityType, GovernorAssumption DEF GovInv
  <2>1. ASSUME NEW r \in Request, Admit(r)
        PROVE  queue' = <<>> \/ Cardinality(Running') >= MaxConcurrent
    <3>1. ~met /\ status[r] = "new"
      BY <2>1 DEF Admit
    <3>2. CASE status' = [status EXCEPT ![r] = "cancelled"] /\ queue' = queue
      <4>1. Running' = Running
        BY <2>0, <3>1, <3>2 DEF Running
      <4>2. QED
        BY <3>1, <3>2, <4>1 DEF SlotsBusy
    <3>3. CASE Cardinality(Running) < MaxConcurrent /\ queue' = queue
      BY <2>0, <3>1, <3>3 DEF SlotsBusy
    <3>4. CASE /\ Cardinality(Running) >= MaxConcurrent
               /\ status' = [status EXCEPT ![r] = "waiting"]
      <4>1. Running' = Running
        BY <2>0, <3>1, <3>4 DEF Running
      <4>2. QED
        BY <3>4, <4>1
    <3>5. QED
      BY <2>1, <3>2, <3>3, <3>4 DEF Admit
  <2>2. ASSUME NEW r \in Request, Cancel(r), met' = met
        PROVE  queue' = <<>> \/ Cardinality(Running') >= MaxConcurrent
    <3>1. Running' = Running
      BY <2>0, <2>2 DEF Cancel, Running
    <3>2. queue = <<>> => queue' = <<>>
      <4>1. CASE status[r] # "waiting"
        BY <2>2, <4>1 DEF Cancel
      <4>2. CASE status[r] = "waiting"
        <5>1. r \in Items(queue)
          BY <2>0, <4>2 DEF Waiting
        <5>2. queue # <<>>
          BY <5>1 DEF Items
        <5>3. QED
          BY <5>2
      <4>3. QED
        BY <4>1, <4>2
    <3>3. QED
      BY <2>2, <3>1, <3>2 DEF SlotsBusy
  <2>3. ASSUME NEW r \in Request, Settle(r)
        PROVE  queue' = <<>> \/ Cardinality(Running') >= MaxConcurrent
    <3>1. PICK s : /\ Busy(s, MaxConcurrent) /\ queue' = s.queue /\ Running' = s.running
                   /\ met' = (met \/ s.cancelled # {})
      BY <2>3, SettleFacts
    <3>2. s.cancelled = {}
      BY <3>1
    <3>3. QED
      BY <3>1, <3>2 DEF Busy
  <2>4. ASSUME NEW r \in Request, Lapse(r)
        PROVE  queue' = <<>> \/ Cardinality(Running') >= MaxConcurrent
    BY <2>4 DEF Lapse, SlotsBusy, Running
  <2>5. CASE UNCHANGED vars
    BY <2>5 DEF vars, SlotsBusy, Running
  <2>6. QED
    BY <2>1, <2>2, <2>3, <2>4, <2>5 DEF Next, Abort, TimerFires
<1>3. QED
  BY <1>1, <1>2, GovernorInvariant, PTL DEF Spec
=============================================================================
