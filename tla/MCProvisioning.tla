--------------------------- MODULE MCProvisioning ---------------------------
(* Provisioning on small instances, for TLC.                               *)
EXTENDS Provisioning, TLC

CONSTANTS h1, h2, k1

TwoHandlers == {h1, h2}
OneKey == {k1}
=============================================================================
