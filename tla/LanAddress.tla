------------------------------ MODULE LanAddress ------------------------------
(***************************************************************************)
(* Which address the installer takes for the LAN's                         *)
(* (scripts/detect_lan_ip.py: detect_lan_ip, select_default_gateway_ip).   *)
(* A network is the set of its addresses; what is no IPv4 address is       *)
(* NoAddress, a field that is missing or empty too.                        *)
(***************************************************************************)
EXTENDS Naturals, Sequences

CONSTANTS IPv4, Subnets, Device, NoIPv4,
          Routes,   \* the lists of default routes ip may report
          Links,    \* the lists of addresses it may report for a device
          Overrides \* the values of BROWSERSTREAM_LAN_IP, NoAddress when unset

Route == [gateway : IPv4 \cup {NoIPv4}, dev : Device,
          metric : Nat, prefsrc : IPv4 \cup {NoIPv4}]
Item == [local : IPv4, network : Subnets, global : BOOLEAN]

ASSUME NoIPv4IsNone == NoIPv4 \notin IPv4
ASSUME SubnetsOfAddresses == Subnets \subseteq SUBSET IPv4
ASSUME ListsOfRoutes == Routes \subseteq Seq(Route)
ASSUME ListsOfItems == Links \subseteq Seq(Item)
ASSUME OverridesAreAddresses == Overrides \subseteq IPv4 \cup {NoIPv4}

VARIABLES override, routes, links, tried, chosen

lanVars == <<override, routes, links, tried, chosen>>

Undecided == [by |-> "nobody", address |-> NoIPv4]
Result == [by : {"nobody", "override", "route", "failure"}, address : IPv4 \cup {NoIPv4}]

\* The environment, and what ip will report.
Reported == override \in Overrides /\ routes \in Routes /\ links \in [Device -> Links]
Untried == tried = {} /\ chosen = Undecided

LanInit == Reported /\ Untried

Override == /\ chosen = Undecided /\ override # NoIPv4
            /\ chosen' = [by |-> "override", address |-> override]
            /\ UNCHANGED <<override, routes, links, tried>>

\* sorted is stable.
Before(i, j) == \/ routes[i].metric < routes[j].metric
                \/ routes[i].metric = routes[j].metric /\ i < j

NextRoute(i) == /\ i \in DOMAIN routes \ tried
                /\ \A j \in (DOMAIN routes \ tried) \ {i} : Before(i, j)

\* The addresses of the route's device in the gateway's network.
\* (Mutated form: all of the device's addresses.)
InNetwork_OfDevice(r) == {k \in DOMAIN links[r.dev] : links[r.dev][k].global}
InNetwork(r) == {k \in DOMAIN links[r.dev] :
                   links[r.dev][k].global /\ r.gateway \in links[r.dev][k].network}

Selected(r) ==
  LET candidates == InNetwork(r)
      preferred == {k \in candidates : links[r.dev][k].local = r.prefsrc}
      from == IF preferred # {} THEN preferred ELSE candidates
  IN links[r.dev][CHOOSE k \in from : \A l \in from : k <= l].local

Usable(r) == r.gateway # NoIPv4 /\ InNetwork(r) # {}

TryRoute(i) ==
  /\ chosen = Undecided /\ override = NoIPv4 /\ NextRoute(i)
  /\ tried' = tried \cup {i}
  /\ chosen' = IF Usable(routes[i])
               THEN [by |-> "route", address |-> Selected(routes[i])] ELSE chosen
  /\ UNCHANGED <<override, routes, links>>

Fail == /\ chosen = Undecided /\ override = NoIPv4 /\ tried = DOMAIN routes
        /\ chosen' = [by |-> "failure", address |-> NoIPv4]
        /\ UNCHANGED <<override, routes, links, tried>>

Decided == chosen # Undecided /\ UNCHANGED lanVars

LanNext == Override \/ (\E i \in DOMAIN routes : TryRoute(i)) \/ Fail \/ Decided

LanSpec == LanInit /\ [][LanNext]_lanVars

-----------------------------------------------------------------------------
(* Properties                                                              *)

\* Address a is one a host with route r can be reached at through its gateway.
Serves(r, a) ==
  \E k \in DOMAIN links[r.dev] : LET item == links[r.dev][k] IN
     item.global /\ item.local = a /\ r.gateway \in item.network

\* The address taken is in the network of a default gateway, of one of least
\* metric among those that share a network with an address of their device; and
\* nothing is found only if there is none.
LeastMetricGateway ==
  LET reachable == {i \in DOMAIN routes : \E a \in IPv4 : Serves(routes[i], a)} IN
  /\ chosen.by = "route" =>
       \E i \in reachable : /\ Serves(routes[i], chosen.address)
                            /\ \A j \in reachable : routes[i].metric <= routes[j].metric
  /\ chosen.by = "failure" => reachable = {}

=============================================================================
