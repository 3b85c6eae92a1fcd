--------------------------- MODULE MCTrafficQuota ---------------------------
(* Instances of TrafficQuota for TLC: each key pair belongs to one client, *)
(* and limits are small numbers of traffic units.                          *)
EXTENDS TrafficQuota, TLC

CONSTANTS c1, c2, k1, k2

OneEach == (k1 :> c1) @@ (k2 :> c2)
SameClient == (k1 :> c1) @@ (k2 :> c1)

L(total, daily, devices) ==
  ("total" :> total) @@ ("day" :> daily) @@ ("devices" :> devices)

\* Metering: with and without a total limit that two units reach.
MeteringLimits == {L(NoLimit, NoLimit, NoLimit), L(2, NoLimit, NoLimit)}
\* Each kind of limit alone, and a total limit with a warning band.
AllLimits == {L(NoLimit, 1, NoLimit), L(2, NoLimit, NoLimit), L(3, 1, 1),
              L(NoLimit, NoLimit, 0)}
=============================================================================
