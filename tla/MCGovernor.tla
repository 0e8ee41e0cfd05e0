----------------------------- MODULE MCGovernor -----------------------------
(* Small instances of Governor for TLC. *)
EXTENDS Governor

\* Odd requests are urgent (class 0), even ones are not (class 1).
TwoClasses == [r \in Request |-> IF r % 2 = 1 THEN 0 ELSE 1]

=============================================================================
