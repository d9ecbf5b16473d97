---- MODULE MCExt4Files ----
(* Model values for Ext4Files. *)
EXTENDS Ext4Files, TLC
Symmetry == Permutations(Threads) \cup Permutations(Names) \cup Permutations(Inodes)
====
