---------------------------- MODULE MCNodeSetup ----------------------------
(* Instances of NodeSetup for TLC: the candidates end with 443.            *)
EXTENDS NodeSetup

CONSTANTS p9443, p10443, p443

TwoCandidates == <<p9443, p443>>
ThreeCandidates == <<p9443, p10443, p443>>
=============================================================================
