---- MODULE MCExt4Durable ----
(* Model values for Ext4Durable: instances and blocks are interchangeable. *)
EXTENDS Ext4Durable, TLC

Symmetry == Permutations(Instances) \cup Permutations(Blocks)
====
