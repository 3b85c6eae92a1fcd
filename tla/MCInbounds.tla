----------------------------- MODULE MCInbounds -----------------------------
(* Inbounds on small instances, for TLC.                                   *)
EXTENDS Inbounds

CONSTANTS h1, h2, a, b, w0, w1, p51820, p443

TwoHandlers == {h1, h2}
TwoIds == {a, b}
TwoIfaces == {w0, w1}
TwoPorts == {p51820, p443}
=============================================================================
