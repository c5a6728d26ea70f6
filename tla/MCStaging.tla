----------------------------- MODULE MCStaging -----------------------------
(* Constants for the TLC runs of Staging.  A base inode is named after one *)
(* of its links.                                                           *)
EXTENDS Staging, TLC

\* Every base name has an inode of its own.
OwnInode == [f \in BaseFiles |-> f]

\* Hard links: all base names share one inode.
LinkedInode == [f \in BaseFiles |-> CHOOSE g \in BaseFiles : TRUE]

Symmetry == Permutations(Procs) \cup Permutations(Dentries)

=============================================================================
