------------------------------ MODULE MCGateway ------------------------------
(* A small instance of Gateway for TLC. *)
EXTENDS Gateway, TLC

\* Callers and reservation ids are interchangeable (no liveness checked).
Symmetric == Permutations(Caller) \union Permutations(Reservation)

=============================================================================
