---------------------------- MODULE MCLanAddress ----------------------------
(* An instance of LanAddress: overlapping networks, two gateways.            *)
EXTENDS LanAddress

CONSTANTS h1, h2, g1, g2, d1, d2

ThreeSubnets == {{h1, g1}, {h1, g2}, {h2, g1, g2}}
MCIPv4 == {h1, h2, g1, g2}

OneRoute == [gateway : {g1, g2, NoIPv4}, dev : {d1, d2}, metric : 0..1, prefsrc : {h2, NoIPv4}]

\* A route without a gateway is passed over, whatever else it has.
SomeRoutes == {r \in OneRoute : r.gateway = NoIPv4 => r.metric = 0 /\ r.prefsrc = NoIPv4}

\* The devices are alike, so the first route is over d1.
MCRoutes == {r \in UNION {[1..n -> SomeRoutes] : n \in 0..2} : r # <<>> => r[1].dev = d1}

OneItem(h, subnet, global) == <<[local |-> h, network |-> subnet, global |-> global]>>

MCLinks ==
  {<<>>, OneItem(h1, {h1, g1}, FALSE), OneItem(h2, {h2, g1, g2}, TRUE)} \cup
  UNION {{OneItem(h1, {h1, g}, TRUE),
          OneItem(h1, {h1, g}, TRUE) \o OneItem(h2, {h2, g1, g2}, TRUE)} : g \in {g1, g2}}

=============================================================================
