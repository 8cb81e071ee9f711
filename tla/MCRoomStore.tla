----------------------------- MODULE MCRoomStore -----------------------------
(* Bounds for checking RoomStore: MaxRooms Room objects are allocated and    *)
(* MaxDraws random strings drawn, generations stop at MaxGeneration.         *)
EXTENDS RoomStore, TLC

CONSTANTS MaxRooms, MaxDraws, MaxGeneration

MCNext == /\ Next
          /\ Len(rooms') <= MaxRooms
          /\ drawn' <= MaxDraws
          /\ \A o \in DOMAIN rooms' : rooms'[o].generation <= MaxGeneration

MCSpec == Init /\ [][MCNext]_roomVars

Symmetry == Permutations(RoomID) \cup Permutations(Conn)

=============================================================================
