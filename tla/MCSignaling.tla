----------------------------- MODULE MCSignaling -----------------------------
(* Instances of Signaling: every connection is opened for the one room.      *)
EXTENDS Signaling, TLC

CONSTANT Room1

OneRoom == [c \in Conn |-> Room1]
AllConn == Displays \cup Presenters

Symmetry == Permutations(Displays) \cup Permutations(Presenters)

=============================================================================
