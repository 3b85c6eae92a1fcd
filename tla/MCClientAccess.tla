--------------------------- MODULE MCClientAccess ---------------------------
(* Instances of ClientAccess for TLC. *)
EXTENDS ClientAccess, TLC

CONSTANTS c1, c2

(* Requests and keys are interchangeable; the clients are not, since only  *)
(* some are metered.                                                       *)
Symmetry == Permutations(Requests) \cup Permutations(Keys)
=============================================================================
