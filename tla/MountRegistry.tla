---------------------------- MODULE MountRegistry ----------------------------
(***************************************************************************)
(* What Ext4Fs promises about its instances, with no names, no tables and  *)
(* no second teardown: an instance is usable from a successful mount until *)
(* its owner gives it up, it is given up once, and no step of anyone else  *)
(* makes it usable or unusable.                                            *)
(***************************************************************************)
CONSTANTS Instances

VARIABLES
  held,       \* instances whose names reach their own device
  released    \* instances that will never be usable (again)

vars == <<held, released>>

Init == held = {} /\ released = {}

\* mount returned Ok.
Acquire(i) ==
  /\ i \notin held \cup released
  /\ held' = held \cup {i}
  /\ UNCHANGED released

\* mount returned an error.
Abandon(i) ==
  /\ i \notin held \cup released
  /\ released' = released \cup {i}
  /\ UNCHANGED held

\* umount is called or the value is dropped.
Release(i) ==
  /\ i \in held
  /\ held' = held \ {i}
  /\ released' = released \cup {i}

Next == \E i \in Instances : Acquire(i) \/ Abandon(i) \/ Release(i)

Spec == Init /\ [][Next]_vars
=============================================================================
