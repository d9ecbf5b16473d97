------------------------------ MODULE DirListing ------------------------------
(***************************************************************************)
(* What an iteration over a directory promises while the directory        *)
(* changes: a name that was in it all the time since the iteration (re)    *)
(* started is returned exactly once before the end; one that came or went  *)
(* meanwhile may be returned or not.                                       *)
(***************************************************************************)
CONSTANTS
  Names,   \* names of directory entries
  Text     \* what a name is returned as

VARIABLES
  present,   \* the names in the directory
  owed,      \* those the iteration has still to return
  touched,   \* names added or removed since it started
  told       \* what it said last

vars == <<present, owed, touched, told>>

Init == present \in SUBSET Names /\ owed = {} /\ touched = {} /\ told = "none"

Start ==
  /\ owed' = present /\ touched' = {} /\ told' = "none"
  /\ UNCHANGED present

Entry(n) ==
  /\ n \in owed \cup touched
  /\ owed' = owed \ {n} /\ told' = Text[n]
  /\ UNCHANGED <<present, touched>>

End == owed = {} /\ told' = "end" /\ UNCHANGED <<present, owed, touched>>

Fail == told' = "error" /\ UNCHANGED <<present, owed, touched>>

Stop == owed' = {} /\ told' = "none" /\ UNCHANGED <<present, touched>>

Add(n) ==
  /\ n \notin present /\ present' = present \cup {n}
  /\ touched' = touched \cup {n}
  /\ UNCHANGED <<owed, told>>

Remove(n) ==
  /\ n \in present /\ present' = present \ {n}
  /\ owed' = owed \ {n} /\ touched' = touched \cup {n}
  /\ UNCHANGED told

Next == Start \/ End \/ Fail \/ Stop \/ \E n \in Names : Entry(n) \/ Add(n) \/ Remove(n)

Spec == Init /\ [][Next]_vars
=============================================================================
