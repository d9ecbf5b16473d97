---- MODULE MCFileHandles ----
(* Model values for FileHandles: every handle appends, or one of two does. *)
EXTENDS FileHandles
====
