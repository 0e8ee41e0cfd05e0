---------------------------- MODULE MCReviewQueue ----------------------------
(* Small instances of ReviewQueue for TLC. *)
EXTENDS ReviewQueue

\* Generations of one PR, without a deadline or a bounded scope.
OnePr      == [j \in Job |-> "pr"]
NoDeadline == [j \in Job |-> 0]
OneScope   == [j \in Job |-> "scope"]
Unbounded  == [j \in Job |-> 0]

\* One of the jobs must be done by instant 3.
FirstHasDeadline  == [j \in Job |-> IF j = 1 THEN 3 ELSE 0]
SecondHasDeadline == [j \in Job |-> IF j = 2 THEN 3 ELSE 0]

\* Two generations of one PR and one of another; jobs 2 and 3 share a pool
\* that runs one of them at a time.
TwoPrs     == [j \in Job |-> IF j <= 2 THEN "a" ELSE "b"]
SharedPool == [j \in Job |-> IF j = 1 THEN "" ELSE "pool"]
OneInPool  == [j \in Job |-> IF j = 1 THEN 0 ELSE 1]

=============================================================================
