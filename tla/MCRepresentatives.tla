-------------------------- MODULE MCRepresentatives --------------------------
(* Representatives on small instances, for TLC.                            *)
EXTENDS Representatives, TLC

CONSTANTS h1, h2, r1, i1, i2, a, b, p24, p32

TwoHandlers == {h1, h2}
OneRep == {r1}
TwoInbounds == {i1, i2}
TwoIds == {a, b}
ThreeHosts == 1..3
TwoPrefixes == {p24, p32}

(* Requests, clients, inbounds and prefixes are interchangeable.           *)
Symmetry == Permutations(Ids) \cup Permutations(Handlers)
            \cup Permutations(Inbounds) \cup Permutations(Prefixes)
=============================================================================
