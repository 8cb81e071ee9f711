----------------------------- MODULE MCConfigFile -----------------------------
(* ConfigFile on the runs, names and rooms the configurations give.         *)
EXTENDS ConfigFile, TLC

CONSTANT MaxStarted  \* how many of the runs ever start

\* Any MaxStarted of the runs: two installers and an adder, or the other way.
FewStart == Cardinality({p \in Run : stage[p] # "idle"}) <= MaxStarted

RunsSpec == Init /\ [][Next /\ FewStart']_vars

Symmetric == Permutations(Installers) \cup Permutations(Adders)
               \cup Permutations(Backup) \cup Permutations(RoomID)

=============================================================================
