------------------------ MODULE MCRaftKvStateMachine ------------------------
(* Instances of RaftKvStateMachine for TLC. *)
EXTENDS RaftKvStateMachine, TLC

CONSTANTS n1, n2, k1, k2, v1, v2

\* What the configuration files of the nodes say.
SyncAndAsync == n1 :> "sync" @@ n2 :> "async"
AllAsync     == [n \in Nodes |-> "async"]
AllSync      == [n \in Nodes |-> "sync"]
AllDurable   == [n \in Nodes |-> TRUE]
AllInMemory  == [n \in Nodes |-> FALSE]
CopyInMemory == n1 :> TRUE @@ n2 :> FALSE

Symmetry == Permutations(Keys) \cup Permutations(Values)
=============================================================================
