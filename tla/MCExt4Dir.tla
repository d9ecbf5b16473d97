---- MODULE MCExt4Dir ----
(* Model values for Ext4Dir: one of the names is not UTF-8. *)
EXTENDS Ext4Dir
====
