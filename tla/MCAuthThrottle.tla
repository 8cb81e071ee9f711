--------------------------- MODULE MCAuthThrottle ----------------------------
(* AuthThrottle up to time Horizon.                                          *)
EXTENDS AuthThrottle, TLC

CONSTANT Horizon

MCNext == Next /\ now' <= Horizon
MCSpec == Init /\ [][MCNext]_vars

Symmetry == Permutations(Key) \cup Permutations(Attempt)

=============================================================================
