---------------------------- MODULE MCNodeAgent ----------------------------
(* NodeAgent on small instances, for TLC.                                  *)
EXTENDS NodeAgent, TLC

KeySymmetry == Permutations(Keys)
=============================================================================
