---------------------------- MODULE Configuration ----------------------------
(***************************************************************************)
(* The rules of config.json (core/config.go, core/turn.go) and what        *)
(* scripts/configure.py makes of its answers.                              *)
(*                                                                         *)
(* Texts are reduced to what the rules tell apart.  The address of a site, *)
(* public_url or an origin, has a host (or none; an "odd" one has a blank  *)
(* or a percent sign, say, which Python's urlsplit takes and Go's          *)
(* url.Parse does not), is proper or not (another scheme, credentials, a   *)
(* path, a query, a fragment), ends in a slash or not, and is normal, that *)
(* is written as browsers write origins (a lower-case host, no default     *)
(* port), or not.  A list whose order does not matter is a set; a secret   *)
(* is its length; a TURN URL its scheme, or "other" when Go finds its form *)
(* wrong, an odd host included; "none" and "unset" are the empty text.     *)
(***************************************************************************)
EXTENDS Integers, Sequences

CONSTANTS MaxRooms,   \* 100 in the code
          MaxProxies  \* 20 in the code

ASSUME RoomsAllowed == MaxRooms \in Nat \ {0}
ASSUME ProxiesAllowed == MaxProxies \in Nat

Site == [host : {"none", "odd", "site", "elsewhere"}, proper : BOOLEAN,
         slash : BOOLEAN, normal : BOOLEAN]

Token == {"t1", "t2", "padded", "short", "placeholder"}
RoomConfig == [id : {"a", "b", "BadRoom"}, label : {"good", "bad"},
               token : Token]

Proxies == [listed : Nat, malformed : Nat]
Turn == [policy : {"all", "relay", "other"},
         urls : SUBSET {"turn", "turns", "stun", "stuns", "other"},
         secret : Nat, ttl : Int]
Coturn == [proper : BOOLEAN, minPort : Nat, maxPort : Nat]
Limits == [message : Int, read : Int, write : Int, idle : Int, failed : Int, lockout : Int]
Path == {"unset", "absolute", "relative"}

Config == [named : BOOLEAN, publicURL : Site, listen : BOOLEAN,
           rooms : Seq(RoomConfig), origins : SUBSET Site, proxies : Proxies,
           turn : Turn, coturn : Coturn, limits : Limits,
           tls : [cert : Path, key : Path]]

-----------------------------------------------------------------------------
(* Validate *)

\* url.Parse succeeds and finds a host.
Parses(site) == site.host \notin {"none", "odd"}

SiteValid(c) ==
  /\ c.named /\ c.listen
  /\ c.publicURL.proper /\ Parses(c.publicURL)
  /\ c.origins # {}
  /\ \A o \in c.origins : o.proper /\ Parses(o) /\ ~o.slash

Distinct(rooms) ==
  \A i, j \in DOMAIN rooms :
    i # j => rooms[i].id # rooms[j].id /\ rooms[i].token # rooms[j].token

RoomsValid(c) ==
  /\ Len(c.rooms) \in 1..MaxRooms
  /\ \A i \in DOMAIN c.rooms : /\ c.rooms[i].id # "BadRoom"
                               /\ c.rooms[i].label = "good"
                               /\ c.rooms[i].token \notin {"short", "placeholder"}
  /\ Distinct(c.rooms)

ProxiesValid(c) == c.proxies.listed <= MaxProxies /\ c.proxies.malformed = 0

\* hasTURN.
HasTurn(urls) == urls \cap {"turn", "turns"} # {}

TurnValid(c) ==
  /\ c.turn.policy \in {"all", "relay"}
  /\ "other" \notin c.turn.urls
  /\ c.turn.policy = "relay" => HasTurn(c.turn.urls)
  /\ HasTurn(c.turn.urls) =>
       c.turn.secret >= 16 /\ 60 <= c.turn.ttl /\ c.turn.ttl <= 86400

CoturnValid(c) ==
  /\ c.coturn.proper
  /\ 1024 <= c.coturn.minPort /\ c.coturn.minPort <= c.coturn.maxPort
  /\ c.coturn.maxPort <= 65535

LimitsValid(c) ==
  /\ 1024 <= c.limits.message /\ c.limits.message <= 1048576
  /\ c.limits.idle >= 5 /\ c.limits.read >= 1 /\ c.limits.write >= 1
  /\ c.limits.failed >= 1 /\ c.limits.lockout >= 1

\* (Mutated form: a certificate needs a key, a key no certificate.)
TlsValid_CertOnly(c) ==
  c.tls.cert # "unset" => c.tls.cert = "absolute" /\ c.tls.key = "absolute"
TlsValid(c) ==
  \/ c.tls.cert = "unset" /\ c.tls.key = "unset"
  \/ c.tls.cert = "absolute" /\ c.tls.key = "absolute"

Valid(c) == /\ SiteValid(c) /\ RoomsValid(c) /\ ProxiesValid(c) /\ TurnValid(c)
            /\ CoturnValid(c) /\ LimitsValid(c) /\ TlsValid(c)

-----------------------------------------------------------------------------
(* What the server asks of a configuration *)

RoomsOf(c, id) == {i \in DOMAIN c.rooms : c.rooms[i].id = id}

\* Room: the first of that id.
Room(c, id) == c.rooms[CHOOSE i \in RoomsOf(c, id) : \A j \in RoomsOf(c, id) : i <= j]

OriginAllowed(c, origin) == origin \in c.origins

\* GenerateTURNCredentials, whose result is how long the credentials are good.
CredentialsFail(turn) == turn.secret = 0 \/ turn.ttl <= 0

\* AuthenticatedICEConfig: its policy and servers, each with its credentials'
\* lifetime, 0 for none.
IceFails(c) == c.turn.urls \cap {"turn", "turns"} # {} /\ CredentialsFail(c.turn)

IceServers(c) ==
  {s \in {[urls |-> c.turn.urls \ {"turn", "turns"}, lifetime |-> 0],
          [urls |-> c.turn.urls \cap {"turn", "turns"}, lifetime |-> c.turn.ttl]} :
     s.urls # {}}

Ice(c) == [policy |-> c.turn.policy, servers |-> IceServers(c)]

-----------------------------------------------------------------------------
(* scripts/configure.py *)

\* The answers it lets through: public_url, which takes a trailing slash away, and
\* turn_url split addresses with urlsplit, which takes odd hosts for hosts.
Answers == [url : {s \in Site : s.proper /\ s.host # "none" /\ ~s.slash},
            id : {"a", "b"}, turn : {"turn", "other"}]

\* config.example.json, where it is kept: policy, lifetime, ports, limits, TLS.
Example == [limits |-> [message |-> 65536, read |-> 30, write |-> 10, idle |-> 90,
                        failed |-> 5, lockout |-> 300],
            coturn |-> [proper |-> TRUE, minPort |-> 49160, maxPort |-> 49200]]

\* token_urlsafe(48) has 64 characters.
Configure(answers) ==
  [named |-> TRUE, publicURL |-> answers.url, listen |-> TRUE,
   rooms |-> <<[id |-> answers.id, label |-> "good", token |-> "t1"]>>,
   origins |-> {answers.url},
   proxies |-> [listed |-> 0, malformed |-> 0],
   turn |-> [policy |-> "all", urls |-> {answers.turn}, secret |-> 64, ttl |-> 600],
   coturn |-> Example.coturn, limits |-> Example.limits,
   tls |-> [cert |-> "unset", key |-> "unset"]]

=============================================================================
