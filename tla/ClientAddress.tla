---------------------------- MODULE ClientAddress ----------------------------
(***************************************************************************)
(* Whom a failed code is charged to (core/signal.go: clientHost).  A       *)
(* request reaches the server from its client directly or through reverse  *)
(* proxies, each of which appends the address it got the request from to   *)
(* X-Forwarded-For.  The entries the client sent along are anything.       *)
(*                                                                         *)
(* A text is an address in one of its spellings, or no address at all:     *)
(* net.ParseIP reads every spelling, IP.String gives the canonical one.    *)
(***************************************************************************)
EXTENDS Naturals, Sequences

CONSTANTS Address,   \* IP addresses
          Networks,  \* trusted_proxy_cidrs, each the set of its addresses
          NoAddress, \* what ParseIP gives for a text that is no address
          MaxSent,   \* bound on the entries sent by the client
          MaxHops    \* bound on the proxies on the way

ASSUME NetworksOfAddresses == Networks \subseteq SUBSET Address
ASSUME NoAddressIsNone == NoAddress \notin Address
ASSUME HopBounds == MaxSent \in Nat /\ MaxHops \in Nat

VARIABLES client,    \* who sent the request
          header,    \* the entries of X-Forwarded-For
          peer,      \* who the next hop, or the server, got the request from
          hops,      \* the proxies passed
          host       \* what clientHost returned, a text; at first Unanswered

requestVars == <<client, header, peer, hops, host>>

Text == [ip : Address \cup {NoAddress}, canonical : BOOLEAN]
Canonical(a) == [ip |-> a, canonical |-> TRUE]
Unanswered == Canonical(NoAddress)

\* isTrustedProxy, of the networks that NewApp made of the configuration.
IsTrustedProxy(a) == \E network \in Networks : a \in network

Headers == UNION {[1..n -> Text] : n \in 0..MaxSent}

\* A request, with whatever its client sends along, which is on no hop yet.
SentAlong == client \in Address /\ header \in Headers
Underway == peer = client /\ hops = 0 /\ host = Unanswered

RequestInit == SentAlong /\ Underway

\* A proxy passes the request on; it may have a spelling of its own.
Forward(proxy, spelling) ==
  /\ host = Unanswered /\ hops < MaxHops
  /\ IsTrustedProxy(proxy)
  /\ header' = Append(header, [ip |-> peer, canonical |-> spelling])
  /\ peer' = proxy /\ hops' = hops + 1
  /\ UNCHANGED <<client, host>>

\* The entries that are addresses of nobody trusted.
Candidates == {i \in DOMAIN header : /\ header[i].ip # NoAddress
                                     /\ ~IsTrustedProxy(header[i].ip)}

\* The one nearest to the server.
Nearest == CHOOSE i \in Candidates : \A j \in Candidates : j <= i

\* How it is given back.  (Mutated form: as it came.)
Name_AsItCame(text) == text
Name(text) == Canonical(text.ip)

\* X-Forwarded-For is looked at.  (Mutated form: whoever the peer is.)
Believed_Always == Candidates # {}
Believed == IsTrustedProxy(peer) /\ Candidates # {}

ClientHost == /\ host = Unanswered
              /\ host' = IF Believed THEN Name(header[Nearest]) ELSE Canonical(peer)
              /\ UNCHANGED <<client, header, peer, hops>>

Answered == host # Unanswered /\ UNCHANGED requestVars

RequestNext == \/ \E proxy \in Address, spelling \in BOOLEAN : Forward(proxy, spelling)
               \/ ClientHost \/ Answered

RequestSpec == RequestInit /\ [][RequestNext]_requestVars

-----------------------------------------------------------------------------
(* Properties                                                              *)

\* What is charged is an address, in its canonical spelling, so that an address
\* has one entry in App.auth and no text that is no address gets any.
AddressTypeOK ==
  /\ client \in Address /\ peer \in Address
  /\ header \in Seq(Text) /\ hops \in 0..MaxHops
  /\ host \in {Canonical(a) : a \in Address} \cup {Unanswered}

\* A client that is not a proxy itself is charged under its own address, whatever
\* it sent along and by however many proxies it came: it neither escapes the
\* charge nor is another client charged for it.
TrueClientCharged ==
  host # Unanswered /\ ~IsTrustedProxy(client) => host = Canonical(client)

=============================================================================
