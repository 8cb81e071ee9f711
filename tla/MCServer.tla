------------------------------- MODULE MCServer -------------------------------
(***************************************************************************)
(* Instances of Server.  The rules of one part of a configuration do not   *)
(* look at the others, so one part of a good one is varied at a time.      *)
(***************************************************************************)
EXTENDS Server

MCGenerated == {Configure(a) : a \in Answers}

Good == Configure([url |-> [host |-> "site", proper |-> TRUE, slash |-> FALSE,
                            normal |-> TRUE], id |-> "a", turn |-> "turn"])

OneOrTwo(S) == {{x, y} : x \in S, y \in S}

SiteParts ==
  {[Good EXCEPT !.named = n, !.listen = l] : n, l \in BOOLEAN} \cup
  {[Good EXCEPT !.publicURL = s] : s \in Site} \cup
  {[Good EXCEPT !.origins = o] : o \in OneOrTwo(Site) \cup {{}}}

SomeRooms == {r \in RoomConfig : r.label = "good" \/ (r.id = "a" /\ r.token = "t1")}
RoomParts ==
  {[Good EXCEPT !.rooms = r] : r \in UNION {[1..n -> SomeRooms] : n \in 0..2}} \cup
  {[Good EXCEPT !.rooms = r] :
     r \in [1..3 -> {s \in SomeRooms : s.id # "BadRoom" /\ s.token \in {"t1", "t2"}}]}

ProxyParts == {[Good EXCEPT !.proxies = p] :
                 p \in {q \in [listed : 0..MaxProxies + 1, malformed : 0..1] : q.malformed <= q.listed}}

TurnParts == {[Good EXCEPT !.turn = t] :
                t \in [policy : {"all", "relay", "other"},
                       urls : SUBSET {"turn", "turns", "stun", "other"},
                       secret : {0, 15, 16}, ttl : {-1, 0, 59, 60, 86400, 86401}]}

CoturnParts == {[Good EXCEPT !.coturn = t] :
                  t \in [proper : BOOLEAN, minPort : {1023, 1024, 65535},
                         maxPort : {1024, 65535, 65536}]}

LimitParts == {[Good EXCEPT !.limits[l] = n] : l \in DOMAIN Good.limits, n \in {-1, 0, 1, 4, 5}} \cup
              {[Good EXCEPT !.limits.message = n] : n \in {1023, 1024, 1048576, 1048577}}

TlsParts == {[Good EXCEPT !.tls = t] : t \in [cert : Path, key : Path]}

MCFiles == MCGenerated \cup SiteParts \cup RoomParts \cup ProxyParts \cup TurnParts
             \cup CoturnParts \cup LimitParts \cup TlsParts

=============================================================================
