---- MODULE MCExt4Convert ----
(* Model values for Ext4Mkfs, which extends Ext4Convert: libc's numbers on
   Linux, and labels that fill a volume name of two bytes or not, cut a
   character in two, or hold a NUL. *)
EXTENDS Ext4Mkfs
Errnos ==
  [EPERM |-> 1, ENOENT |-> 2, EIO |-> 5, ENXIO |-> 6, EACCES |-> 13, EEXIST |-> 17,
   ENODEV |-> 19, ENOTDIR |-> 20, EISDIR |-> 21, EINVAL |-> 22, ENFILE |-> 23,
   EMFILE |-> 24, ENOSPC |-> 28, EROFS |-> 30, ENAMETOOLONG |-> 36, ENOTEMPTY |-> 39]
SomeLabels ==
  {<<>>, <<"a">>, <<"a", "b">>, <<"e'">>, <<"a", "b", "c">>, <<"a", "e'">>, <<"a", "NUL">>}
====
