------------------------------- MODULE Ext4Dir -------------------------------
(***************************************************************************)
(* A Dir (ext4-lwext4/src/dir.rs) iterates over a directory that the rest  *)
(* of the program changes between its calls: Dir borrows the Ext4Fs        *)
(* shared, and every path operation takes &self.                           *)
(*                                                                         *)
(* An ext4_dir keeps no more than the offset of its next entry.  lwext4 is *)
(* external: entries lie at places in the order of their offsets, the      *)
(* first is "." and stays; an entry keeps its place until it is removed    *)
(* (a directory without a hash tree), which leaves its record readable     *)
(* until the place is used again; the next place is found when the entry   *)
(* before it is returned; an error leaves the offset alone.                *)
(***************************************************************************)
EXTENDS Naturals

CONSTANTS
  Names,        \* names of entries
  Dot,          \* the name at the first place
  Utf8,         \* the names that are valid UTF-8
  Lossy,        \* what from_utf8_lossy makes of any other
  Places,       \* bound: entries the directory has room for
  MaxChanges    \* bound: additions and removals

ASSUME DirConstants ==
  /\ Dot \in Names /\ Utf8 \subseteq Names
  /\ Places \in Nat \ {0} /\ MaxChanges \in Nat
  /\ \A n \in Names \cup {Lossy} : n \notin {"none", "end", "error"}

VARIABLES
  record,     \* name and liveness of the record at each place
  next_off,   \* ext4_dir.next_off; Term after the last entry
  phase,      \* "closed", "open", or in a "loop" over the iterator
  answer,     \* the DirEntry's name; None is "end", or "error" for the model
  changes,    \* additions and removals so far
  owed,       \* ghost: names there since open or rewind, not returned yet
  touched     \* ghost: names added or removed since open or rewind

vars == <<record, next_off, phase, answer, changes, owed, touched>>
ghosts == <<owed, touched>>

Term == Places + 1
Live(k) == record[k].live
Present == {record[k].name : k \in {j \in 1..Places : Live(j)}}

TypeOK ==
  /\ record \in [1..Places -> [name : Names, live : BOOLEAN]]
  /\ next_off \in 1..Term
  /\ phase \in {"closed", "open", "loop"}
  /\ answer \in Names \cup {Lossy, "none", "end", "error"}
  /\ changes \in 0..MaxChanges
  /\ owed \subseteq Names /\ touched \subseteq Names

Distinct(r) ==
  \A j, k \in 1..Places : r[j].live /\ r[k].live /\ r[j].name = r[k].name => j = k

Init ==
  /\ record \in {r \in [1..Places -> [name : Names, live : BOOLEAN]] :
                   /\ r[1] = [name |-> Dot, live |-> TRUE] /\ Distinct(r)
                   /\ \A k \in 1..Places : ~r[k].live => r[k].name = Dot}
  /\ next_off = Term /\ phase = "closed" /\ answer = "none" /\ changes = 0
  /\ owed = {} /\ touched = {}

-----------------------------------------------------------------------------
(* ext4_dir_entry_next *)

\* j is the first live place from k on, Term when there is none.
FirstLive(k, j) ==
  /\ j \in k..Term
  /\ j < Term => Live(j)
  /\ \A i \in k..Term : i < j => ~Live(i)

\* The places it may take the entry from: the one its offset leads to, or,
\* when that entry has been removed, the next that is there.
Found(k) ==
  \/ k = next_off
  \/ next_off < Term /\ ~Live(next_off) /\ FirstLive(next_off, k)

-----------------------------------------------------------------------------
(* Dir *)

Starts(to) ==
  /\ next_off' = 1 /\ phase' = to /\ answer' = "none"
  /\ owed' = Present /\ touched' = {}
  /\ UNCHANGED <<record, changes>>

\* Ext4Fs::open_dir, when ext4_dir_open succeeds; if not there is no Dir.
Open == phase = "closed" /\ Starts("open")

\* Mutant: rewind does not reach lwext4.
RewindSkipped ==
  /\ phase = "open" /\ answer' = "none"
  /\ owed' = Present /\ touched' = {}
  /\ UNCHANGED <<record, next_off, phase, changes>>

Rewind == phase = "open" /\ Starts("open")

\* The program begins a loop "for entry in dir".
Loop ==
  /\ phase = "open" /\ phase' = "loop"
  /\ UNCHANGED <<record, next_off, answer, changes, ghosts>>

\* next_entry gives the name as a string, converted lossily if need be.
Text == [n \in Names |-> IF n \in Utf8 THEN n ELSE Lossy]

\* next_entry returns an entry: a copy of what lwext4 found at place k.
Returns(k) ==
  /\ answer' = Text[record[k].name]
  /\ owed' = owed \ {record[k].name}
  /\ UNCHANGED <<record, phase, changes, touched>>

\* Mutant: next_entry works on a copy of the ext4_dir, whose offset is lost.
SomeEntryOnCopy ==
  \E k \in 1..Places : phase # "closed" /\ Found(k) /\ Returns(k) /\ UNCHANGED next_off

\* Mutant: a name that is not UTF-8 makes next_entry return None.
SomeEntryStrict ==
  \E k \in 1..Places :
    /\ phase # "closed" /\ Found(k)
    /\ FirstLive(k + 1, next_off')
    /\ IF record[k].name \in Utf8
       THEN Returns(k)
       ELSE answer' = "end" /\ UNCHANGED <<record, phase, changes, ghosts>>

SomeEntry ==
  \E k \in 1..Places :
    /\ phase # "closed" /\ Found(k)
    /\ FirstLive(k + 1, next_off')
    /\ Returns(k)

\* A null pointer becomes None, which ends a loop: there is no entry left, or
\* an error occurred.
NoEntry(why) ==
  /\ phase # "closed"
  /\ why = "end" => Found(Term)
  /\ answer' = why /\ phase' = "open"
  /\ UNCHANGED <<record, next_off, changes, ghosts>>

\* Drop of the Dir
Close ==
  /\ phase # "closed" /\ phase' = "closed"
  /\ next_off' = Term /\ answer' = "none" /\ owed' = {}
  /\ UNCHANGED <<record, changes, touched>>

-----------------------------------------------------------------------------
(* The path operations of Ext4Fs that add and remove a name. *)

Changes(k, n, live) ==
  /\ k \in 2..Places /\ changes < MaxChanges
  /\ changes' = changes + 1
  /\ record' = [record EXCEPT ![k] = [name |-> n, live |-> live]]
  /\ touched' = touched \cup {n}
  /\ UNCHANGED <<next_off, phase, answer>>

Add(k, n) == ~Live(k) /\ n \notin Present /\ Changes(k, n, TRUE) /\ UNCHANGED owed

Remove(k) ==
  LET n == record[k].name IN
  Live(k) /\ Changes(k, n, FALSE) /\ owed' = owed \ {n}

-----------------------------------------------------------------------------
Next ==
  \/ Open \/ Rewind \/ Loop \/ SomeEntry \/ Close
  \/ \E why \in {"end", "error"} : NoEntry(why)
  \/ \E k \in 2..Places : Remove(k) \/ \E n \in Names : Add(k, n)

Spec == Init /\ [][Next]_vars

\* A loop goes on by itself until it gets None.
LoopStep == phase = "loop" /\ (SomeEntry \/ NoEntry("end"))
FairSpec == Spec /\ WF_vars(LoopStep)

-----------------------------------------------------------------------------
(* Properties *)

\* The inductive invariant behind ImplementsListing: what is owed lies at or
\* behind the offset, what lies there is owed or touched, and a removed entry
\* the offset still leads to is touched.
OffsetSplits ==
  /\ Distinct(record) /\ Live(1)
  /\ phase # "closed" =>
       /\ \A n \in owed : \E k \in next_off..Places : Live(k) /\ record[k].name = n
       /\ \A k \in next_off..Places : Live(k) => record[k].name \in owed \cup touched
       /\ next_off < Term /\ ~Live(next_off) => record[next_off].name \in touched
  /\ phase = "closed" => owed = {}

DirInv == TypeOK /\ OffsetSplits

\* next_entry misses no name that was there throughout, returns it once, makes
\* none up, and goes on after an error where it was: Dir implements DirListing
\* with nothing but an offset, whatever is added and removed between its calls.
Listing == INSTANCE DirListing WITH present <- Present, told <- answer

ImplementsListing == Listing!Spec

\* A loop over a Dir ends, without the help of an error and although its body
\* adds entries.
LoopEnds == phase = "loop" ~> phase # "loop"
=============================================================================
