---------------------------- MODULE MCPublication ----------------------------
(* A small instance of Publication for TLC. *)
EXTENDS Publication

\* Every generation has a head of its own.
TwoHeads == [j \in Job |-> j]

=============================================================================
