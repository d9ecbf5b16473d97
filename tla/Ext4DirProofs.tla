---------------------------- MODULE Ext4DirProofs ----------------------------
(***************************************************************************)
(* Proof that a Dir implements DirListing, for any names, any size of the  *)
(* directory and any number of changes to it, and that a loop over it has  *)
(* finitely many turns.                                                    *)
(***************************************************************************)
EXTENDS Ext4Dir, TLAPS

LEMMA DirInit == Init => DirInv
<1> SUFFICES ASSUME Init PROVE DirInv
  OBVIOUS
<1>1. TypeOK
  BY DirConstants DEF Init, TypeOK, Term
<1>2. OffsetSplits
  BY DirConstants DEF Init, OffsetSplits, Live
<1>3. QED
  BY <1>1, <1>2 DEF DirInv

\* A place with an entry lies at or behind the first such place.
LEMMA FirstLiveBounds ==
  ASSUME NEW k \in 1..Term, NEW j, FirstLive(k, j)
  PROVE  /\ j \in 1..Term /\ j >= k
         /\ j < Term => Live(j)
         /\ \A i \in k..Places : Live(i) => i >= j
BY DirConstants DEF FirstLive, Term

\* Where next_entry finds its entry, nothing that is there lies before it, and
\* its name is one that may be returned.
LEMMA FoundFacts ==
  ASSUME DirInv, phase # "closed", NEW k \in 1..Places, Found(k)
  PROVE  /\ k >= next_off
         /\ \A i \in next_off..Places : Live(i) => i >= k
         /\ record[k].name \in owed \cup touched
         /\ ~Live(k) => record[k].name \in touched
<1>1. next_off \in 1..Term
  BY DEF DirInv, TypeOK
<1>2. CASE k = next_off
  BY <1>1, <1>2, DirConstants DEF DirInv, OffsetSplits, Term
<1>3. CASE FirstLive(next_off, k)
  <2>1. Live(k) /\ k >= next_off
    BY <1>1, <1>3, FirstLiveBounds, DirConstants DEF Term
  <2>2. QED
    BY <1>1, <1>3, <2>1, FirstLiveBounds, DirConstants DEF DirInv, OffsetSplits, Term
<1>4. QED
  BY <1>2, <1>3 DEF Found

LEMMA DirTypeStep == DirInv /\ [Next]_vars => TypeOK'
<1> SUFFICES ASSUME DirInv, [Next]_vars PROVE TypeOK'
  OBVIOUS
<1> USE DirConstants DEF DirInv, TypeOK
<1>0. Present \subseteq Names
  BY DEF Present
<1>1. CASE Open \/ Rewind
  BY <1>0, <1>1 DEF Open, Rewind, Starts, Term
<1>2. CASE Loop \/ Close
  BY <1>2 DEF Loop, Close, ghosts, Term
<1>3. CASE SomeEntry
  <2>1. PICK k \in 1..Places : Found(k) /\ FirstLive(k + 1, next_off') /\ Returns(k)
    BY <1>3 DEF SomeEntry
  <2>2. next_off' \in 1..Term
    BY <2>1, FirstLiveBounds DEF Term
  <2>3. Text[record[k].name] \in Names \cup {Lossy}
    BY DEF Text
  <2>4. QED
    BY <2>1, <2>2, <2>3 DEF Returns
<1>4. CASE \E why \in {"end", "error"} : NoEntry(why)
  BY <1>4 DEF NoEntry, ghosts
<1>5. ASSUME NEW k \in 2..Places, NEW n \in Names, NEW live \in BOOLEAN,
             Changes(k, n, live), owed' \subseteq owed
      PROVE  TypeOK'
  BY <1>5 DEF Changes
<1>6. ASSUME NEW k \in 2..Places, NEW n \in Names, Add(k, n) PROVE TypeOK'
  BY <1>5, <1>6 DEF Add
<1>7. ASSUME NEW k \in 2..Places, Remove(k) PROVE TypeOK'
  <2>1. k \in 1..Places
    OBVIOUS
  <2>2. record[k].name \in Names
    BY <2>1
  <2>3. Changes(k, record[k].name, FALSE) /\ owed' \subseteq owed
    BY <1>7 DEF Remove
  <2>4. QED
    BY <1>5, <2>2, <2>3
<1>8. CASE UNCHANGED vars
  BY <1>8 DEF vars, ghosts
<1>9. QED
  BY <1>1, <1>2, <1>3, <1>4, <1>6, <1>7, <1>8 DEF Next

LEMMA SomeEntrySplits == DirInv /\ SomeEntry => OffsetSplits'
<1> SUFFICES ASSUME DirInv, SomeEntry PROVE OffsetSplits'
  OBVIOUS
<1>1. PICK k \in 1..Places : Found(k) /\ FirstLive(k + 1, next_off') /\ Returns(k)
  BY DEF SomeEntry
<1> DEFINE n == record[k].name
<1>2. /\ phase # "closed" /\ next_off \in 1..Term
      /\ UNCHANGED <<record, phase, touched>> /\ owed' = owed \ {n}
  BY <1>1 DEF SomeEntry, Returns, DirInv, TypeOK
<1>3. /\ next_off' \in 1..Term /\ next_off' > k
      /\ next_off' < Term => Live(next_off')
      /\ \A i \in k + 1 .. Places : Live(i) => i >= next_off'
  BY <1>1, FirstLiveBounds, DirConstants DEF Term
<1>4. /\ k >= next_off /\ n \in owed \cup touched
      /\ \A i \in next_off..Places : Live(i) => i >= k
      /\ ~Live(k) => n \in touched
  BY <1>1, <1>2, FoundFacts
<1>5. \A m \in owed \ {n} : \E i \in next_off'..Places : Live(i) /\ record[i].name = m
  <2> SUFFICES ASSUME NEW m \in owed \ {n}
               PROVE  \E i \in next_off'..Places : Live(i) /\ record[i].name = m
    OBVIOUS
  <2>1. PICK i \in next_off..Places : Live(i) /\ record[i].name = m
    BY <1>2 DEF DirInv, OffsetSplits
  <2>2. i >= k /\ i # k
    BY <1>4, <2>1
  <2>3. i \in next_off'..Places
    BY <1>2, <1>3, <2>1, <2>2, DirConstants DEF Term
  <2>4. QED
    BY <2>1, <2>3
<1>6. \A i \in next_off'..Places : Live(i) => record[i].name \in (owed \ {n}) \cup touched
  <2> SUFFICES ASSUME NEW i \in next_off'..Places, Live(i)
               PROVE  record[i].name \in (owed \ {n}) \cup touched
    OBVIOUS
  <2>1. i \in next_off..Places /\ i \in 1..Places /\ i # k
    BY <1>2, <1>3, <1>4, DirConstants DEF Term
  <2>2. record[i].name \in owed \cup touched
    BY <1>2, <2>1 DEF DirInv, OffsetSplits
  <2>3. Live(k) => record[i].name # n
    BY <2>1 DEF DirInv, OffsetSplits, Distinct, Live
  <2>4. QED
    BY <1>4, <2>2, <2>3
<1>7. Distinct(record) /\ Live(1)
  BY DEF DirInv, OffsetSplits
<1>8. QED
  BY <1>2, <1>3, <1>5, <1>6, <1>7 DEF OffsetSplits, Live, Distinct

LEMMA StartSplits ==
  ASSUME DirInv, NEW to \in {"open", "loop"}, Starts(to)
  PROVE  OffsetSplits'
<1> USE DirConstants DEF DirInv, TypeOK
<1>1. Distinct(record) /\ Live(1)
  BY DEF OffsetSplits
<1>2. \A n \in Present : \E k \in 1..Places : Live(k) /\ record[k].name = n
  BY DEF Present
<1>3. \A k \in 1..Places : Live(k) => record[k].name \in Present
  BY DEF Present
<1>4. QED
  BY <1>1, <1>2, <1>3 DEF Starts, OffsetSplits, Live, Distinct, Term

\* A change of the directory marks the name that came or went.
LEMMA ChangeSplits ==
  ASSUME DirInv,
         NEW k \in 2..Places,
         \/ Remove(k)
         \/ \E n \in Names : Add(k, n)
  PROVE  OffsetSplits'
<1> USE DirConstants DEF DirInv, TypeOK
<1>1. PICK n \in Names, live \in BOOLEAN :
        /\ Changes(k, n, live)
        /\ live => ~Live(k) /\ n \notin Present /\ owed' = owed
        /\ ~live => Live(k) /\ n = record[k].name /\ owed' = owed \ {n}
  <2>1. CASE Remove(k)
    <3>0. k \in 1..Places
      OBVIOUS
    <3>1. record[k].name \in Names
      BY <3>0
    <3>2. Live(k) /\ Changes(k, record[k].name, FALSE) /\ owed' = owed \ {record[k].name}
      BY <2>1 DEF Remove
    <3>3. QED
      BY <3>1, <3>2
  <2>2. CASE \E n \in Names : Add(k, n)
    BY <2>2 DEF Add
  <2>3. QED
    BY <2>1, <2>2
<1>2. /\ record' = [record EXCEPT ![k] = [name |-> n, live |-> live]]
      /\ touched' = touched \cup {n} /\ UNCHANGED <<next_off, phase>>
  BY <1>1 DEF Changes
<1>3. /\ \A j \in 1..Places : j # k => record'[j] = record[j]
      /\ record'[k].name = n /\ record'[k].live = live
  BY <1>2
<1>4. Distinct(record) /\ Live(1)
  BY DEF OffsetSplits
<1>5. Distinct(record')
  <2>1. ASSUME NEW j \in 1..Places, Live(j), live, j # k PROVE record[j].name # n
    BY <1>1, <2>1 DEF Present
  <2>2. QED
    BY <1>3, <1>4, <2>1 DEF Distinct, Live
<1>6. Live(1)'
  BY <1>3, <1>4 DEF Live
<1>7. ASSUME phase # "closed"
      PROVE  /\ \A m \in owed' : \E j \in next_off..Places : record'[j].live /\ record'[j].name = m
             /\ \A j \in next_off..Places : record'[j].live => record'[j].name \in owed' \cup touched'
             /\ next_off < Term /\ ~record'[next_off].live => record'[next_off].name \in touched'
  <2>1. /\ \A m \in owed : \E j \in next_off..Places : Live(j) /\ record[j].name = m
        /\ \A j \in next_off..Places : Live(j) => record[j].name \in owed \cup touched
        /\ next_off < Term /\ ~Live(next_off) => record[next_off].name \in touched
    BY <1>7 DEF OffsetSplits
  <2>2. ASSUME NEW m \in owed'
        PROVE  \E j \in next_off..Places : record'[j].live /\ record'[j].name = m
    <3>1. PICK j \in next_off..Places : Live(j) /\ record[j].name = m
      BY <1>1, <2>1, <2>2
    <3>2. j # k
      BY <1>1, <2>2, <3>1
    <3>3. QED
      BY <1>3, <3>1, <3>2 DEF Live
  <2>3. ASSUME NEW j \in next_off..Places, record'[j].live
        PROVE  record'[j].name \in owed' \cup touched'
    <3>1. CASE j = k
      BY <1>2, <1>3, <3>1
    <3>2. CASE j # k
      BY <1>1, <1>2, <1>3, <2>1, <2>3, <3>2 DEF Live
    <3>3. QED
      BY <3>1, <3>2
  <2>4. ASSUME next_off < Term, ~record'[next_off].live
        PROVE  record'[next_off].name \in touched'
    <3>1. next_off \in 1..Places
      BY <2>4 DEF Term
    <3>2. CASE next_off = k
      BY <1>2, <1>3, <3>2
    <3>3. CASE next_off # k
      BY <1>2, <1>3, <2>1, <2>4, <3>1, <3>3 DEF Live
    <3>4. QED
      BY <3>2, <3>3
  <2>5. QED
    BY <2>2, <2>3, <2>4
<1>8. phase = "closed" => owed' = {}
  BY <1>1 DEF OffsetSplits
<1>9. QED
  BY <1>2, <1>5, <1>6, <1>7, <1>8 DEF OffsetSplits, Live

LEMMA DirInvStep == DirInv /\ [Next]_vars => DirInv'
<1> SUFFICES ASSUME DirInv, [Next]_vars PROVE OffsetSplits'
  BY DirTypeStep DEF DirInv
<1>1. CASE Open \/ Rewind
  BY <1>1, StartSplits DEF Open, Rewind
<1>2. CASE Loop \/ (\E why \in {"end", "error"} : NoEntry(why)) \/ UNCHANGED vars
  BY <1>2 DEF Loop, NoEntry, ghosts, vars, DirInv, OffsetSplits, Live, Distinct
<1>3. CASE Close
  BY <1>3 DEF Close, DirInv, OffsetSplits, Live, Distinct
<1>4. CASE SomeEntry
  BY <1>4, SomeEntrySplits
<1>5. ASSUME NEW k \in 2..Places, Remove(k) \/ \E n \in Names : Add(k, n)
      PROVE  OffsetSplits'
  BY <1>5, ChangeSplits
<1>6. QED
  BY <1>1, <1>2, <1>3, <1>4, <1>5 DEF Next

\* The offset of an open Dir separates what it still owes from the rest.
THEOREM DirInvariance == Spec => []DirInv
BY DirInit, DirInvStep, PTL DEF Spec

-----------------------------------------------------------------------------
(* The refinement of DirListing *)

LEMMA PresentAdds ==
  ASSUME DirInv, NEW k \in 2..Places, NEW n \in Names, Add(k, n)
  PROVE  Present' = Present \cup {n}
<1>1. record' = [record EXCEPT ![k] = [name |-> n, live |-> TRUE]] /\ ~Live(k)
  BY DEF Add, Changes
<1>2. /\ \A j \in 1..Places : j # k => record'[j] = record[j]
      /\ k \in 1..Places /\ record'[k].name = n /\ record'[k].live
  BY <1>1 DEF DirInv, TypeOK
<1>3. QED
  BY <1>1, <1>2 DEF Present, Live

LEMMA PresentRemoves ==
  ASSUME DirInv, NEW k \in 2..Places, Remove(k)
  PROVE  /\ record[k].name \in Present
         /\ Present' = Present \ {record[k].name}
<1>1. /\ record' = [record EXCEPT ![k] = [name |-> record[k].name, live |-> FALSE]]
      /\ Live(k)
  BY DEF Remove, Changes
<1>2. /\ \A j \in 1..Places : j # k => record'[j] = record[j]
      /\ k \in 1..Places /\ ~record'[k].live
  BY <1>1 DEF DirInv, TypeOK
<1>3. \A j \in 1..Places : Live(j) /\ j # k => record[j].name # record[k].name
  BY <1>1, <1>2 DEF DirInv, OffsetSplits, Distinct, Live
<1>4. QED
  BY <1>1, <1>2, <1>3 DEF Present, Live

LEMMA EndOwesNothing ==
  ASSUME DirInv, phase # "closed", Found(Term)
  PROVE  owed = {}
<1>1. next_off \in 1..Term
  BY DEF DirInv, TypeOK
<1>2. \A k \in next_off..Places : ~Live(k)
  <2>1. CASE Term = next_off
    BY <2>1, DirConstants DEF Term
  <2>2. CASE FirstLive(next_off, Term)
    BY <1>1, <2>2, DirConstants DEF FirstLive, Term
  <2>3. QED
    BY <2>1, <2>2 DEF Found
<1>3. QED
  BY <1>2 DEF DirInv, OffsetSplits

LEMMA ListingStep == DirInv /\ [Next]_vars => [Listing!Next]_(Listing!vars)
<1> SUFFICES ASSUME DirInv, [Next]_vars PROVE [Listing!Next]_(Listing!vars)
  OBVIOUS
<1> USE DEF Listing!Next
<1>1. record' = record => Present' = Present
  BY DEF Present, Live
<1>2. CASE Open \/ Rewind
  BY <1>1, <1>2 DEF Open, Rewind, Starts, Listing!Start
<1>3. CASE Loop \/ UNCHANGED vars
  BY <1>1, <1>3 DEF Loop, ghosts, vars, Listing!vars
<1>4. CASE SomeEntry
  <2>1. PICK k \in 1..Places : phase # "closed" /\ Found(k) /\ Returns(k)
    BY <1>4 DEF SomeEntry
  <2>2. record[k].name \in owed \cup touched /\ record[k].name \in Names
    BY <2>1, FoundFacts DEF DirInv, TypeOK
  <2>3. Listing!Entry(record[k].name)
    BY <1>1, <2>1, <2>2 DEF Returns, Listing!Entry
  <2>4. QED
    BY <2>2, <2>3
<1>5. CASE NoEntry("end")
  BY <1>1, <1>5, EndOwesNothing DEF NoEntry, ghosts, Listing!End
<1>6. CASE NoEntry("error")
  BY <1>1, <1>6 DEF NoEntry, ghosts, Listing!Fail
<1>7. CASE Close
  BY <1>1, <1>7 DEF Close, Listing!Stop
<1>8. ASSUME NEW k \in 2..Places, NEW n \in Names, Add(k, n) PROVE Listing!Next
  <2>1. Listing!Add(n)
    BY <1>8, PresentAdds DEF Add, Changes, Listing!Add
  <2>2. QED
    BY <2>1
<1>9. ASSUME NEW k \in 2..Places, Remove(k) PROVE Listing!Next
  <2>1. record[k].name \in Names
    BY DEF DirInv, TypeOK
  <2>2. Listing!Remove(record[k].name)
    BY <1>9, PresentRemoves DEF Remove, Changes, Listing!Remove
  <2>3. QED
    BY <2>1, <2>2
<1>10. QED
  BY <1>2, <1>3, <1>4, <1>5, <1>6, <1>7, <1>8, <1>9 DEF Next

\* Whatever is added and removed between its calls, a Dir returns each name that
\* was there throughout once, before its end, and makes none up.
THEOREM DirRefinement == Spec => ImplementsListing
<1>1. Init => Listing!Init
  <2>1. ASSUME Init PROVE Present \in SUBSET Names
    BY <2>1, DirInit DEF DirInv, TypeOK, Present
  <2>2. QED
    BY <2>1 DEF Init, Listing!Init
<1>2. QED
  BY <1>1, DirInit, DirInvStep, ListingStep, PTL DEF Spec, ImplementsListing, Listing!Spec

-----------------------------------------------------------------------------
(* The loop over a Dir: what is left of it falls. *)

\* The answers a loop may still get: one for each place from the offset on, and
\* the None after them.
EntriesLeft == IF phase = "loop" THEN 1 + (Term - next_off) ELSE 0

\* Each turn of a loop leaves it fewer, and no change of the directory gives
\* them back, not even an entry added by its body.
EntriesFall ==
  [][/\ LoopStep => EntriesLeft' < EntriesLeft
     /\ phase = "loop" => EntriesLeft' <= EntriesLeft]_vars

LEMMA EntriesAreLeft == DirInv => EntriesLeft \in Nat
BY DirConstants DEF DirInv, TypeOK, EntriesLeft, Term

LEMMA FewerLeft ==
  ASSUME NEW t \in Nat, NEW a \in 1..t, NEW b \in 1..t, b > a
  PROVE  1 + (t - b) < 1 + (t - a)
OBVIOUS

LEMMA EntryAdvances ==
  ASSUME DirInv, SomeEntry, phase = "loop"
  PROVE  EntriesLeft' < EntriesLeft
<1>1. PICK k \in 1..Places : Found(k) /\ FirstLive(k + 1, next_off') /\ Returns(k)
  BY DEF SomeEntry
<1>2. k >= next_off /\ next_off \in 1..Term
  BY <1>1, FoundFacts DEF DirInv, TypeOK
<1>3. next_off' \in 1..Term /\ next_off' >= k + 1
  BY <1>1, FirstLiveBounds, DirConstants DEF Term
<1>4. phase' = "loop"
  BY <1>1 DEF Returns
<1>5. /\ Term \in Nat /\ next_off \in 1..Term /\ next_off' \in 1..Term
      /\ next_off' > next_off
  BY <1>2, <1>3, DirConstants DEF Term
<1>6. 1 + (Term - next_off') < 1 + (Term - next_off)
  BY <1>5, FewerLeft
<1>7. QED
  BY <1>4, <1>6 DEF EntriesLeft

LEMMA EntriesFallStep ==
  ASSUME DirInv, Next
  PROVE  /\ LoopStep => EntriesLeft' < EntriesLeft
         /\ phase = "loop" => EntriesLeft' <= EntriesLeft
<1> DEFINE falls == EntriesLeft' < EntriesLeft
            stays == EntriesLeft' <= EntriesLeft
<1>1. EntriesLeft \in Nat /\ Term \in Nat
  BY EntriesAreLeft, DirConstants DEF Term
<1>2. ASSUME EntriesLeft' \in Nat, falls PROVE stays
  BY <1>1, <1>2
<1>3. CASE phase # "loop"
  BY <1>3 DEF LoopStep
<1>4. CASE phase = "loop" /\ SomeEntry
  <2>1. falls
    BY <1>4, EntryAdvances
  <2>2. EntriesLeft' \in Nat
    BY <1>4, DirTypeStep, DirConstants DEF Next, SomeEntry, Returns, TypeOK, EntriesLeft, Term
  <2>3. QED
    BY <1>2, <2>1, <2>2
<1>5. CASE phase = "loop" /\ \E why \in {"end", "error"} : NoEntry(why)
  <2>1. EntriesLeft' = 0
    BY <1>5 DEF NoEntry, EntriesLeft
  <2>2. EntriesLeft > 0
    BY <1>5, DirConstants DEF DirInv, TypeOK, EntriesLeft, Term
  <2>3. QED
    BY <1>1, <1>2, <2>1, <2>2
<1>6. CASE phase = "loop" /\ (Open \/ Rewind \/ Loop \/ Close)
  <2>1. Close
    BY <1>6 DEF Open, Rewind, Loop
  <2>2. EntriesLeft' = 0 /\ phase' = "closed"
    BY <2>1 DEF Close, EntriesLeft
  <2>3. ~LoopStep
    BY <2>2, <1>6 DEF LoopStep, SomeEntry, Returns, NoEntry
  <2>4. QED
    BY <1>1, <2>2, <2>3
<1>7. ASSUME NEW k \in 2..Places, Remove(k) \/ \E n \in Names : Add(k, n), phase = "loop"
      PROVE  (LoopStep => falls) /\ stays
  <2>1. EntriesLeft' = EntriesLeft
    BY <1>7 DEF Remove, Add, Changes, EntriesLeft, Term
  <2>2. stays
    BY <1>1, <2>1
  <2>3. changes' # changes
    BY <1>7 DEF Remove, Add, Changes, DirInv, TypeOK
  <2>4. ~LoopStep
    BY <2>3 DEF LoopStep, SomeEntry, Returns, NoEntry
  <2>5. QED
    BY <2>2, <2>4
<1>8. QED
  BY <1>3, <1>4, <1>5, <1>6, <1>7 DEF Next

\* A loop over a Dir has finitely many turns left, and each turn leaves it fewer.
THEOREM LoopTurnsEnd == Spec => []( EntriesLeft \in Nat ) /\ EntriesFall
<1>1. DirInv /\ [Next]_vars =>
        [/\ LoopStep => EntriesLeft' < EntriesLeft
         /\ phase = "loop" => EntriesLeft' <= EntriesLeft]_vars
  BY EntriesFallStep
<1>2. QED
  BY <1>1, DirInvariance, EntriesAreLeft, PTL DEF Spec, EntriesFall
=============================================================================
