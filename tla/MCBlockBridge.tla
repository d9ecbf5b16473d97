---- MODULE MCBlockBridge ----
(* Model values for BlockBridge.  Threads are interchangeable. *)
EXTENDS BlockBridge, TLC

Symmetry == Permutations(Threads)
====
