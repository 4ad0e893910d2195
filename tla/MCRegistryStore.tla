-------------------------- MODULE MCRegistryStore --------------------------
EXTENDS RegistryStore, TLC

MCEventType == {EventOf[op] : op \in Op}
MCActor     == Node \cup {Registry}

\* Safety is the same under any renaming of pool threads and of peers.
Symmetry == Permutations(Worker) \cup Permutations(Node)

=============================================================================
