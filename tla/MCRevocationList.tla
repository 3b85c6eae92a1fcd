-------------------------- MODULE MCRevocationList --------------------------
(* RevocationList on small instances, for TLC.                             *)
EXTENDS RevocationList

CONSTANTS h1, h2, c1, c2, s1

OneHandler == {h1}
TwoHandlers == {h1, h2}
TwoCerts == {c1, c2}
OneStray == {s1}
=============================================================================
