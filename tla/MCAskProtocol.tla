--------------------------- MODULE MCAskProtocol ---------------------------
(* Symmetry for the TLC runs of AskProtocol that check safety.             *)
EXTENDS AskProtocol, TLC

Symmetry == Permutations(Tasks) \cup Permutations(Watchers)

=============================================================================
