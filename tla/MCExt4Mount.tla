---- MODULE MCExt4Mount ----
(* Model values for Ext4Mount.  Instances are interchangeable. *)
EXTENDS Ext4Mount, TLC

Symmetry == Permutations(Instances)
====
