---------------------------- MODULE MCServerParts ----------------------------
(***************************************************************************)
(* The parts of the server that share no state with one another: the       *)
(* writes to a connection, its heartbeat, a request on its way, the server *)
(* and its configuration, and the installer's choice of an address.  In a  *)
(* behaviour one part moves, and the others stay at a start of theirs; so  *)
(* one run checks them all.                                                *)
(***************************************************************************)
EXTENDS MCServer, MCLanAddress, SocketWrites, Heartbeat, ClientAddress

CONSTANTS a1, a2, p1, p2

ASSUME OneClient == a1 \in Address

VARIABLE part

TwoNetworks == {{p1}, {p1, p2}}

\* The parts with more than one start are at a given one while others move.
PartsInit ==
  /\ part \in {"writes", "heartbeat", "request", "server", "installer"}
  /\ IF part = "request" THEN SentAlong ELSE client = a1 /\ header = <<>>
  /\ IF part = "server" THEN Stored ELSE file = "object" /\ cfg = Good
  /\ IF part = "installer" THEN Reported
     ELSE override = NoIPv4 /\ routes = <<>> /\ links = [d \in Device |-> <<>>]
  /\ WritesInit /\ BeatInit /\ Underway /\ Started /\ Untried

WritesMove == /\ part = "writes" /\ WritesNext
              /\ UNCHANGED <<part, beatVars, requestVars, mainVars, lanVars>>
HeartbeatMoves == /\ part = "heartbeat" /\ BeatNext
                  /\ UNCHANGED <<part, writeVars, requestVars, mainVars, lanVars>>
RequestMoves == /\ part = "request" /\ RequestNext
                /\ UNCHANGED <<part, writeVars, beatVars, mainVars, lanVars>>
ServerMoves == /\ part = "server" /\ MainNext
               /\ UNCHANGED <<part, writeVars, beatVars, requestVars, lanVars>>
InstallerMoves == /\ part = "installer" /\ LanNext
                  /\ UNCHANGED <<part, writeVars, beatVars, requestVars, mainVars>>

PartsNext == WritesMove \/ HeartbeatMoves \/ RequestMoves
             \/ ServerMoves \/ InstallerMoves

partsVars == <<part, writeVars, beatVars, requestVars, mainVars, lanVars>>

PartsSpec == PartsInit /\ [][PartsNext]_partsVars /\ WritesFairness

-----------------------------------------------------------------------------
(* Properties of more than one part                                        *)

PartsTypeOK == WritesTypeOK /\ HeartbeatTypeOK /\ AddressTypeOK /\ ServerTypeOK

=============================================================================
