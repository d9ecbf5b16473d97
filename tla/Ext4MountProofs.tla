--------------------------- MODULE Ext4MountProofs ---------------------------
(***************************************************************************)
(* Proofs about Ext4Mount for any set of instances. IInv is inductive; so  *)
(* is LifeInv, which asks no more of names than that those in use are      *)
(* apart, and the safety properties of the runs follow from it. The calls  *)
(* of mount and of a teardown are finitely many.                           *)
(***************************************************************************)
EXTENDS Ext4Mount, TLAPS

\* Under the invariant a name belongs to one instance: looking a drawn name up
\* in a table of lwext4 finds at most the instance that drew it, and deleting
\* by name deletes exactly that instance's entries (the name-keyed C calls of
\* fs.rs therefore act on their own instance only).
LEMMA NamesArePrivate ==
  ASSUME TypeOK, NamesOwned, EntriesOwned,
         NEW i \in Instances, InUse(i),
         NEW table, table \in {bdevices, mountpoints}
  PROVE  /\ Named(table, i) \subseteq {i}
         /\ <<id[i], i>> \in table => Named(table, i) = {i}
         /\ Named(table, i) = {} => NoEntry(table, i)
         /\ Without(table, i) = {e \in table : e[2] # i}
<1>1. \A e \in table : /\ e = <<e[1], e[2]>> /\ e[2] \in Instances
                       /\ e[1] = id[e[2]] /\ InUse(e[2])
  BY DEF TypeOK, EntriesOwned, InUse, NoEntry
<1>2. \A e \in table : e[1] = id[i] <=> e[2] = i
  BY <1>1 DEF NamesOwned
<1>3. Named(table, i) = {e[2] : e \in {f \in table : f[2] = i}}
  BY <1>2 DEF Named
<1>4. QED
  BY <1>2, <1>3 DEF Without, NoEntry

\* What NamesArePrivate gives for both tables of lwext4.
PrivateTables(i) ==
  /\ Named(bdevices, i) \subseteq {i} /\ Named(mountpoints, i) \subseteq {i}
  /\ <<id[i], i>> \in bdevices => Named(bdevices, i) = {i}
  /\ <<id[i], i>> \in mountpoints => Named(mountpoints, i) = {i}
  /\ Named(bdevices, i) = {} => NoEntry(bdevices, i)
  /\ Named(mountpoints, i) = {} => NoEntry(mountpoints, i)
  /\ Without(bdevices, i) = {e \in bdevices : e[2] # i}
  /\ Without(mountpoints, i) = {e \in mountpoints : e[2] # i}

\* A device that is unregistered leaves the registry or stays as it was; in
\* neither case is another device touched.
LEMMA UnregisterOwn ==
  ASSUME NEW i, PrivateTables(i), NEW ok \in BOOLEAN, DeviceUnregister(i, ok)
  PROVE  /\ bdevices' \subseteq bdevices
         /\ \A e \in bdevices : e[2] # i => e \in bdevices'
         /\ ok => \A e \in bdevices' : e[2] # i
BY DEF DeviceUnregister, PrivateTables

\* If the last one leaves it registered, that is recorded.
LEMMA LastUnregisterOwn ==
  ASSUME TypeOK, EntriesOwned, NEW i \in Instances, PrivateTables(i),
         NEW ok \in BOOLEAN, LastUnregister(i, ok)
  PROVE  /\ bdevices' \subseteq bdevices
         /\ \A e \in bdevices : e[2] # i => e \in bdevices'
         /\ unregFailed \subseteq unregFailed'
         /\ \A e \in bdevices' : e[2] = i => i \in unregFailed'
<1>1. /\ bdevices' \subseteq bdevices
      /\ \A e \in bdevices : e[2] # i => e \in bdevices'
      /\ ok => \A e \in bdevices' : e[2] # i
  BY UnregisterOwn DEF LastUnregister
<1>2. unregFailed \subseteq unregFailed'
  BY DEF LastUnregister
<1>3. ASSUME ~ok, NEW e \in bdevices', e[2] = i PROVE i \in unregFailed'
  <2>1. e[1] = id[i]
    BY <1>1, <1>3 DEF EntriesOwned
  <2>2. e[2] \in Named(bdevices', i)
    BY <1>3, <2>1 DEF Named
  <2>3. QED
    BY <1>3, <2>2 DEF LastUnregister
<1>4. QED
  BY <1>1, <1>2, <1>3

LEMMA InitInv == Init => IInv
BY DEF Init, IInv, TypeOK, DrawnOnce, EntriesOwned, Acquired, TeardownState,
       JournalState, JournalKnown, PCs, Teardown

LEMMA UnregisterType ==
  ASSUME TypeOK, NEW i \in Instances, NEW ok \in BOOLEAN
  PROVE  /\ DeviceUnregister(i, ok) => bdevices' \subseteq Nat \X Instances
         /\ LastUnregister(i, ok) => /\ bdevices' \subseteq Nat \X Instances
                                    /\ unregFailed' \subseteq Instances
<1>1. DeviceUnregister(i, ok) => bdevices' \subseteq Nat \X Instances
  BY DEF TypeOK, DeviceUnregister, Without
<1>2. ASSUME bdevices' \subseteq Nat \X Instances
      PROVE  Named(bdevices', i) \subseteq Instances
  BY <1>2 DEF Named
<1>3. QED
  BY <1>1, <1>2 DEF TypeOK, LastUnregister

LEMMA TypeStep == TypeOK /\ [Next]_vars => TypeOK'
<1> SUFFICES ASSUME TypeOK, [Next]_vars PROVE TypeOK'
  OBVIOUS
<1> USE DEF TypeOK, PCs, Teardown, Moves, Frees, rustVars, cVars
<1>1. ASSUME NEW i \in Instances, NEW ro \in BOOLEAN, BeginMount(i, ro) PROVE TypeOK'
  BY <1>1 DEF BeginMount
<1>2. ASSUME NEW i \in Instances, Register(i) PROVE TypeOK'
  BY <1>2 DEF Register
<1>3. ASSUME NEW i \in Instances, MountDevice(i) PROVE TypeOK'
  BY <1>3 DEF MountDevice, Named
<1>4. ASSUME NEW i \in Instances, UnwindMount(i) PROVE TypeOK'
  BY <1>4, UnregisterType DEF UnwindMount
<1>5. ASSUME NEW i \in Instances, Recover(i) PROVE TypeOK'
  BY <1>5 DEF Recover
<1>6. ASSUME NEW i \in Instances, StartJournal(i) PROVE TypeOK'
  <2>1. Named(mountpoints, i) \subseteq Instances
    BY DEF Named
  <2>2. journals' \subseteq Instances
    BY <1>6, <2>1 DEF StartJournal
  <2>3. journalActive' \in [Instances -> BOOLEAN]
    BY <1>6 DEF StartJournal
  <2>4. QED
    BY <1>6, <2>2, <2>3 DEF StartJournal
<1>7. ASSUME NEW i \in Instances, NEW ex \in BOOLEAN, BeginTeardown(i, ex) PROVE TypeOK'
  BY <1>7 DEF BeginTeardown
<1>8. ASSUME NEW i \in Instances, StopJournal(i) PROVE TypeOK'
  BY <1>8 DEF StopJournal
<1>9. ASSUME NEW i \in Instances, FlushCache(i) PROVE TypeOK'
  BY <1>9 DEF FlushCache
<1>10. ASSUME NEW i \in Instances, UmountOk(i) PROVE TypeOK'
  BY <1>10 DEF UmountOk, Without
<1>11. ASSUME NEW i \in Instances, UmountErr(i) PROVE TypeOK'
  BY <1>11 DEF UmountErr, Without, ReturnsToDrop
<1>12. ASSUME NEW i \in Instances, Unregister(i) PROVE TypeOK'
  <2>1. bdevices' \subseteq Nat \X Instances /\ unregFailed' \subseteq Instances
    BY <1>12, UnregisterType DEF Unregister
  <2>2. result' \in [Instances -> {"none", "Ok", "Err"}]
    BY <1>12 DEF Unregister, ReturnsToDrop
  <2>3. QED
    BY <1>12, <2>1, <2>2 DEF Unregister, ReturnsToDrop
<1>13. CASE UNCHANGED vars
  BY <1>13 DEF vars
<1>14. QED
  BY <1>1, <1>2, <1>3, <1>4, <1>5, <1>6, <1>7, <1>8, <1>9, <1>10, <1>11,
     <1>12, <1>13 DEF Next, MountStep, TeardownStep

\* The state of Ext4Mount always has its type.
THEOREM TypeCorrect == Spec => []TypeOK
<1>1. Init => TypeOK
  BY InitInv DEF IInv
<1>2. QED
  BY <1>1, TypeStep, PTL DEF Spec

\* In a process a number drawn once is drawn for good, so its owner's names
\* are its own while they are in use.
LEMMA DrawnOwned == IInv => LifeInv
BY DEF IInv, LifeInv, NamesOwned, InUse, NoEntry, DrawnOnce, EntriesOwned

\* Nobody but i, whose names are in use already, enters a table or moves.
LEMMA NamesStep ==
  ASSUME TypeOK, NamesOwned, NEW i \in Instances, InUse(i),
         UNCHANGED <<id, counter>>,
         \A j \in Instances \ {i} : pc'[j] = pc[j],
         \A e \in bdevices' : e \in bdevices \/ e[2] = i,
         \A e \in mountpoints' : e \in mountpoints \/ e[2] = i
  PROVE  NamesOwned'
<1>1. ASSUME NEW j \in Instances, InUse(j)' PROVE InUse(j)
  BY <1>1 DEF InUse, NoEntry
<1>2. QED
  BY <1>1 DEF NamesOwned

\* One step of one instance preserves the invariant, whatever the others do.
LEMMA LifeStep == LifeInv /\ [Next]_vars => LifeInv'
<1> SUFFICES ASSUME LifeInv, [Next]_vars PROVE LifeInv'
  OBVIOUS
<1>0. /\ TypeOK /\ NamesOwned /\ EntriesOwned /\ Acquired /\ TeardownState /\ JournalState
      /\ TypeOK'
  BY TypeStep DEF LifeInv
<1>1. ASSUME NEW i \in Instances, NEW ro \in BOOLEAN, BeginMount(i, ro)
      PROVE  LifeInv'
  <2>1. NamesOwned'
    BY <1>0, <1>1 DEF TypeOK, NamesOwned, InUse, NoEntry, EntriesOwned, BeginMount, Moves
  <2>2. EntriesOwned'
    BY <1>0, <1>1 DEF EntriesOwned, BeginMount, Moves
  <2>3. Acquired'
    BY <1>0, <1>1 DEF TypeOK, Acquired, BeginMount, Moves
  <2>4. TeardownState'
    BY <1>0, <1>1 DEF TeardownState, BeginMount, Moves, Teardown
  <2>5. JournalState'
    BY <1>0, <1>1 DEF JournalState, JournalKnown, BeginMount, Moves,
       Teardown
  <2>6. QED
    BY <1>0, <2>1, <2>2, <2>3, <2>4, <2>5 DEF LifeInv
<1>2. ASSUME NEW i \in Instances, Register(i)
      PROVE  LifeInv'
  <2>1. PrivateTables(i)
    BY <1>0, <1>2, NamesArePrivate DEF Register, Moves, PrivateTables, InUse
  <2>2. NamesOwned'
    BY <1>0, <1>2, <2>1, NamesStep DEF PrivateTables, TypeOK, Register, Moves, InUse
  <2>3. EntriesOwned'
    <3>1. CASE Moves(i, "register", "mount")
      BY <1>0, <1>2, <3>1 DEF TypeOK, EntriesOwned, Register, Moves
    <3>2. CASE Moves(i, "register", "gone")
      BY <1>0, <1>2, <2>1, <3>2 DEF PrivateTables, TypeOK, EntriesOwned, Register, Moves
    <3>3. QED
      BY <1>2, <3>1, <3>2 DEF Register
  <2>4. Acquired'
    BY <1>0, <1>2 DEF TypeOK, Acquired, Register, Moves, Frees
  <2>5. TeardownState'
    BY <1>0, <1>2 DEF TypeOK, TeardownState, NoEntry, Register, Moves,
       Teardown
  <2>6. JournalState'
    BY <1>0, <1>2 DEF TypeOK, JournalState, JournalKnown, Register, Moves,
       Teardown
  <2>7. QED
    BY <1>0, <2>2, <2>3, <2>4, <2>5, <2>6 DEF LifeInv
<1>3. ASSUME NEW i \in Instances, MountDevice(i)
      PROVE  LifeInv'
  <2>1. PrivateTables(i)
    BY <1>0, <1>3, NamesArePrivate DEF MountDevice, Moves, PrivateTables, InUse
  <2>2. NamesOwned'
    BY <1>0, <1>3, <2>1, NamesStep DEF PrivateTables, TypeOK, MountDevice, Moves, rustVars, InUse
  <2>3. EntriesOwned'
    BY <1>0, <1>3, <2>1 DEF PrivateTables, TypeOK, EntriesOwned,
       MountDevice, Moves, rustVars
  <2>4. Acquired'
    BY <1>0, <1>3, <2>1 DEF PrivateTables, TypeOK, Acquired, MountDevice,
       Moves, rustVars
  <2>5. TeardownState'
    BY <1>0, <1>3, <2>1 DEF PrivateTables, TypeOK, TeardownState, NoEntry,
       MountDevice, Moves, rustVars, Teardown
  <2>6. JournalState'
    BY <1>0, <1>3 DEF TypeOK, JournalState, JournalKnown, MountDevice,
       Moves, rustVars, Teardown
  <2>7. QED
    BY <1>0, <2>2, <2>3, <2>4, <2>5, <2>6 DEF LifeInv
<1>4. ASSUME NEW i \in Instances, UnwindMount(i)
      PROVE  LifeInv'
  <2>1. PrivateTables(i)
    BY <1>0, <1>4, NamesArePrivate DEF UnwindMount, Moves, PrivateTables, InUse
  <2>a. /\ bdevices' \subseteq bdevices
        /\ \A e \in bdevices : e[2] # i => e \in bdevices'
        /\ unregFailed \subseteq unregFailed'
        /\ \A e \in bdevices' : e[2] = i => i \in unregFailed'
    BY <1>0, <1>4, <2>1, LastUnregisterOwn DEF UnwindMount
  <2>2. NamesOwned'
    BY <1>0, <1>4, <2>a, NamesStep DEF TypeOK, UnwindMount, Moves, InUse
  <2>3. EntriesOwned'
    BY <1>0, <1>4, <2>a DEF TypeOK, EntriesOwned, UnwindMount, Moves
  <2>4. Acquired'
    BY <1>0, <1>4, <2>a DEF TypeOK, Acquired, UnwindMount, Moves, Frees
  <2>5. TeardownState'
    BY <1>0, <1>4, <2>a DEF TeardownState, NoEntry, UnwindMount, Moves, Teardown
  <2>6. JournalState'
    BY <1>0, <1>4 DEF JournalState, JournalKnown, UnwindMount, Moves
  <2>7. QED
    BY <1>0, <2>2, <2>3, <2>4, <2>5, <2>6 DEF LifeInv
<1>5. ASSUME NEW i \in Instances, Recover(i)
      PROVE  LifeInv'
  <2>1. PrivateTables(i)
    BY <1>0, <1>5, NamesArePrivate DEF Recover, Moves, PrivateTables, InUse
  <2>2. NamesOwned'
    BY <1>0, <1>5, <2>1, NamesStep DEF PrivateTables, TypeOK, Recover, Moves, rustVars, cVars, InUse
  <2>3. EntriesOwned'
    BY <1>0, <1>5 DEF EntriesOwned, Recover, Moves, rustVars, cVars
  <2>4. Acquired'
    BY <1>0, <1>5 DEF Acquired, Recover, Moves, rustVars, cVars
  <2>5. TeardownState'
    BY <1>0, <1>5 DEF TeardownState, Recover, Moves, rustVars, cVars, Teardown
  <2>6. JournalState'
    BY <1>0, <1>5 DEF JournalState, JournalKnown, Recover, Moves,
       rustVars, cVars, Teardown
  <2>7. QED
    BY <1>0, <2>2, <2>3, <2>4, <2>5, <2>6 DEF LifeInv
<1>6. ASSUME NEW i \in Instances, StartJournal(i)
      PROVE  LifeInv'
  <2>1. PrivateTables(i)
    BY <1>0, <1>6, NamesArePrivate DEF StartJournal, Moves, PrivateTables, InUse
  <2>2. NamesOwned'
    BY <1>0, <1>6, <2>1, NamesStep DEF PrivateTables, TypeOK, StartJournal, Moves, InUse
  <2>3. EntriesOwned'
    BY <1>0, <1>6 DEF EntriesOwned, StartJournal, Moves
  <2>4. Acquired'
    BY <1>0, <1>6 DEF Acquired, StartJournal, Moves
  <2>5. TeardownState'
    BY <1>0, <1>6 DEF TeardownState, StartJournal, Moves, Teardown
  <2>6. JournalState'
    BY <1>0, <1>6, <2>1 DEF PrivateTables, TypeOK, JournalState,
       JournalKnown, StartJournal, Moves
  <2>7. QED
    BY <1>0, <2>2, <2>3, <2>4, <2>5, <2>6 DEF LifeInv
<1>7. ASSUME NEW i \in Instances, NEW explicit \in BOOLEAN, BeginTeardown(i, explicit)
      PROVE  LifeInv'
  <2>1. NamesOwned'
    BY <1>0, <1>7, NamesStep DEF TypeOK, BeginTeardown, Moves, cVars, InUse
  <2>2. EntriesOwned'
    BY <1>0, <1>7 DEF EntriesOwned, BeginTeardown, Moves, cVars
  <2>3. Acquired'
    BY <1>0, <1>7 DEF Acquired, BeginTeardown, Moves, cVars
  <2>4. TeardownState'
    BY <1>0, <1>7 DEF TypeOK, TeardownState, BeginTeardown, Moves, cVars,
       Teardown
  <2>5. JournalState'
    BY <1>0, <1>7 DEF JournalState, JournalKnown, BeginTeardown, Moves,
       cVars, Teardown
  <2>6. QED
    BY <1>0, <2>1, <2>2, <2>3, <2>4, <2>5 DEF LifeInv
<1>8. ASSUME NEW i \in Instances, StopJournal(i)
      PROVE  LifeInv'
  <2>1. PrivateTables(i)
    BY <1>0, <1>8, NamesArePrivate DEF StopJournal, Moves, PrivateTables, InUse
  <2>2. NamesOwned'
    BY <1>0, <1>8, <2>1, NamesStep DEF PrivateTables, TypeOK, StopJournal, Moves, rustVars, InUse
  <2>3. EntriesOwned'
    BY <1>0, <1>8 DEF EntriesOwned, StopJournal, Moves, rustVars
  <2>4. Acquired'
    BY <1>0, <1>8 DEF Acquired, StopJournal, Moves, rustVars
  <2>5. TeardownState'
    BY <1>0, <1>8 DEF TeardownState, StopJournal, Moves, rustVars, Teardown
  <2>6. JournalState'
    BY <1>0, <1>8 DEF JournalState, JournalKnown, StopJournal, Moves,
       rustVars, Teardown
  <2>7. QED
    BY <1>0, <2>2, <2>3, <2>4, <2>5, <2>6 DEF LifeInv
<1>9. ASSUME NEW i \in Instances, FlushCache(i)
      PROVE  LifeInv'
  <2>1. NamesOwned'
    BY <1>0, <1>9, NamesStep DEF TypeOK, FlushCache, Moves, rustVars, cVars, InUse
  <2>2. EntriesOwned'
    BY <1>0, <1>9 DEF EntriesOwned, FlushCache, Moves, rustVars, cVars
  <2>3. Acquired'
    BY <1>0, <1>9 DEF Acquired, FlushCache, Moves, rustVars, cVars
  <2>4. TeardownState'
    BY <1>0, <1>9 DEF TeardownState, FlushCache, Moves, rustVars, cVars,
       Teardown
  <2>5. JournalState'
    BY <1>0, <1>9 DEF JournalState, JournalKnown, FlushCache, Moves,
       rustVars, cVars, Teardown
  <2>6. QED
    BY <1>0, <2>1, <2>2, <2>3, <2>4, <2>5 DEF LifeInv
<1>10. ASSUME NEW i \in Instances, UmountOk(i)
      PROVE  LifeInv'
  <2>1. PrivateTables(i)
    BY <1>0, <1>10, NamesArePrivate DEF UmountOk, Moves, PrivateTables, InUse
  <2>2. NamesOwned'
    BY <1>0, <1>10, <2>1, NamesStep DEF PrivateTables, TypeOK, UmountOk, Moves, rustVars, InUse
  <2>3. EntriesOwned'
    BY <1>0, <1>10, <2>1 DEF PrivateTables, EntriesOwned, UmountOk, Moves,
       rustVars
  <2>4. Acquired'
    BY <1>0, <1>10, <2>1 DEF PrivateTables, Acquired, UmountOk, Moves,
       rustVars
  <2>5. TeardownState'
    BY <1>0, <1>10, <2>1 DEF PrivateTables, TeardownState, NoEntry,
       UmountOk, Moves, rustVars, Teardown
  <2>6. JournalState'
    BY <1>0, <1>10 DEF JournalState, JournalKnown, UmountOk, Moves,
       rustVars, Teardown
  <2>7. QED
    BY <1>0, <2>2, <2>3, <2>4, <2>5, <2>6 DEF LifeInv
<1>11. ASSUME NEW i \in Instances, UmountErr(i)
      PROVE  LifeInv'
  <2>1. PrivateTables(i)
    BY <1>0, <1>11, NamesArePrivate DEF UmountErr, PrivateTables, InUse
  <2>2. NamesOwned'
    BY <1>0, <1>11, <2>1, NamesStep DEF PrivateTables, TypeOK, UmountErr, Moves, ReturnsToDrop, InUse
  <2>3. EntriesOwned'
    BY <1>0, <1>11, <2>1 DEF PrivateTables, TypeOK, EntriesOwned,
       UmountErr, Moves, ReturnsToDrop
  <2>4. Acquired'
    BY <1>0, <1>11, <2>1 DEF PrivateTables, TypeOK, Acquired, UmountErr,
       Moves, ReturnsToDrop
  <2>5. TeardownState'
    BY <1>0, <1>11, <2>1 DEF PrivateTables, TypeOK, TeardownState,
       NoEntry, UmountErr, Moves, ReturnsToDrop, Teardown
  <2>6. JournalState'
    BY <1>0, <1>11 DEF TypeOK, JournalState, JournalKnown, UmountErr,
       Moves, ReturnsToDrop, Teardown
  <2>7. QED
    BY <1>0, <2>2, <2>3, <2>4, <2>5, <2>6 DEF LifeInv
<1>12. ASSUME NEW i \in Instances, Unregister(i)
      PROVE  LifeInv'
  <2>1. PrivateTables(i)
    BY <1>0, <1>12, NamesArePrivate DEF Unregister, PrivateTables, InUse
  <2>a. PICK ok \in BOOLEAN :
           \/ /\ inUmount[i]
              /\ DeviceUnregister(i, ok)
              /\ ReturnsToDrop(i, IF ok THEN "Ok" ELSE "Err")
              /\ UNCHANGED <<wrapper, unregFailed>>
           \/ /\ ~inUmount[i]
              /\ LastUnregister(i, ok)
              /\ Moves(i, "unregister", "gone")
              /\ Frees(i)
              /\ UNCHANGED <<inUmount, result>>
    BY <1>12 DEF Unregister
  <2>b. /\ bdevices' \subseteq bdevices
        /\ \A e \in bdevices : e[2] # i => e \in bdevices'
        /\ unregFailed \subseteq unregFailed'
        /\ inUmount[i] /\ ok => \A e \in bdevices' : e[2] # i
        /\ ~inUmount[i] => \A e \in bdevices' : e[2] = i => i \in unregFailed'
    BY <1>0, <2>1, <2>a, UnregisterOwn, LastUnregisterOwn
  <2>2. NamesOwned'
    BY <1>0, <1>12, <2>b, NamesStep DEF TypeOK, Unregister, Moves, ReturnsToDrop, InUse
  <2>3. EntriesOwned'
    BY <1>0, <1>12, <2>a, <2>b DEF TypeOK, EntriesOwned, Unregister, Moves, ReturnsToDrop
  <2>4. Acquired'
    BY <1>0, <1>12, <2>a, <2>b DEF TypeOK, Acquired, Unregister, Moves, Frees, ReturnsToDrop
  <2>5. TeardownState'
    BY <1>0, <1>12, <2>a, <2>b DEF TypeOK, TeardownState, NoEntry, Unregister, Moves,
       ReturnsToDrop, Teardown
  <2>6. JournalState'
    BY <1>0, <1>12 DEF TypeOK, JournalState, JournalKnown, Unregister,
       Moves, ReturnsToDrop, Teardown
  <2>7. QED
    BY <1>0, <2>2, <2>3, <2>4, <2>5, <2>6 DEF LifeInv
<1>13. CASE UNCHANGED vars
  BY <1>0, <1>13 DEF vars, rustVars, cVars, LifeInv, TypeOK, NamesOwned, InUse, NoEntry,
     EntriesOwned, Acquired, TeardownState, JournalState, JournalKnown
<1>14. QED
  BY <1>1, <1>2, <1>3, <1>4, <1>5, <1>6, <1>7, <1>8, <1>9, <1>10, <1>11, <1>12,
     <1>13 DEF Next, MountStep, TeardownStep

\* Within a process the numbers stay apart, those of values that are gone too.
LEMMA DrawnStep == TypeOK /\ DrawnOnce /\ [Next]_vars => DrawnOnce'
<1> SUFFICES ASSUME TypeOK, DrawnOnce, [Next]_vars PROVE DrawnOnce'
  OBVIOUS
<1>1. ASSUME NEW i \in Instances, NEW ro \in BOOLEAN, BeginMount(i, ro) PROVE DrawnOnce'
  BY <1>1 DEF TypeOK, DrawnOnce, BeginMount, Moves
<1>2. ASSUME NEW i \in Instances, NEW q, pc[i] # "idle", pc' = [pc EXCEPT ![i] = q],
             UNCHANGED <<id, counter>>
      PROVE  DrawnOnce'
  BY <1>2 DEF TypeOK, DrawnOnce
<1>3. ASSUME NEW i \in Instances,
             MountStep(i) \/ TeardownStep(i) \/ \E explicit \in BOOLEAN : BeginTeardown(i, explicit)
      PROVE  \E q : pc[i] # "idle" /\ pc' = [pc EXCEPT ![i] = q] /\ UNCHANGED <<id, counter>>
  BY <1>3 DEF MountStep, TeardownStep, BeginTeardown, Register, MountDevice, UnwindMount,
     Recover, StartJournal, StopJournal, FlushCache, UmountOk, UmountErr, Unregister,
     ReturnsToDrop, Moves, rustVars
<1>4. CASE UNCHANGED vars
  BY <1>4 DEF vars, rustVars, DrawnOnce
<1>5. QED
  BY <1>1, <1>2, <1>3, <1>4 DEF Next

LEMMA InvStep == IInv /\ [Next]_vars => IInv'
<1> SUFFICES ASSUME IInv, [Next]_vars PROVE IInv'
  OBVIOUS
<1>1. LifeInv'
  BY DrawnOwned, LifeStep
<1>2. DrawnOnce'
  BY DrawnStep DEF IInv
<1>3. QED
  BY <1>1, <1>2 DEF IInv, LifeInv

\* What the invariant says of the instances that are held or torn down.
LEMMA LifeIsSafe ==
  LifeInv => OwnEntries /\ RegisteredAlive /\ UmountOkReleases /\ JournalKnown
<1> SUFFICES ASSUME LifeInv
             PROVE  OwnEntries /\ RegisteredAlive /\ UmountOkReleases /\ JournalKnown
  OBVIOUS
<1>1. ASSUME NEW i \in Instances, pc[i] = "mounted"
      PROVE  Named(bdevices, i) = {i} /\ Named(mountpoints, i) = {i} /\ i \in opened
  <2>1. PrivateTables(i)
    BY <1>1, NamesArePrivate DEF LifeInv, PrivateTables, InUse
  <2>2. QED
    BY <1>1, <2>1 DEF LifeInv, Acquired, PrivateTables
<1>2. RegisteredAlive
  BY DEF LifeInv, TypeOK, EntriesOwned, Acquired, RegisteredAlive
<1>3. UmountOkReleases
  BY DEF LifeInv, TeardownState, NoEntry, UmountOkReleases
<1>4. QED
  BY <1>1, <1>2, <1>3 DEF OwnEntries, LifeInv, JournalState

\* Every reachable state satisfies the invariant.
THEOREM Invariance == Spec => []IInv
<1>1. QED
  BY InitInv, InvStep, PTL DEF Spec

\* A mounted Ext4Fs keeps its own device and mount point whatever other mounts
\* and second teardowns do (fs.rs mount, umount, Drop).
THEOREM OwnEntriesSafe == Spec => []OwnEntries
<1>1. QED
  BY Invariance, DrawnOwned, LifeIsSafe, PTL

\* lwext4's registry refers to a freed BlockDeviceWrapper only when the ignored
\* ext4_device_unregister before the free failed (fs.rs:88, fs.rs:427).
THEOREM RegisteredAliveSafe == Spec => []RegisteredAlive
<1>1. QED
  BY Invariance, DrawnOwned, LifeIsSafe, PTL

\* An umount that returned Ok has left nothing of its instance in lwext4.
THEOREM UmountOkReleasesSafe == Spec => []UmountOkReleases
<1>1. QED
  BY Invariance, DrawnOwned, LifeIsSafe, PTL

\* A running journal is flagged in its writable instance (journal_active).
THEOREM JournalKnownSafe == Spec => []JournalKnown
<1>1. QED
  BY Invariance, DrawnOwned, LifeIsSafe, PTL

-----------------------------------------------------------------------------
(* Ext4Mount implements MountRegistry. *)

\* The two sets the refinement maps held and released to.
Held == {i \in Instances : /\ pc[i] = "mounted"
                           /\ Named(bdevices, i) = {i}
                           /\ Named(mountpoints, i) = {i}}
Released == {i \in Instances : pc[i] \in Teardown \cup {"gone"}}

\* Under the invariant an instance is held exactly while it is mounted: its
\* names never resolve to anything else.
LEMMA HeldIsMounted == IInv => Held = {i \in Instances : pc[i] = "mounted"}
<1> SUFFICES ASSUME IInv, NEW i \in Instances, pc[i] = "mounted"
             PROVE  Named(bdevices, i) = {i} /\ Named(mountpoints, i) = {i}
  BY DEF Held
<1>1. QED
  BY DrawnOwned, LifeIsSafe DEF OwnEntries

\* A step of Ext4Mount is a step of MountRegistry or leaves it unchanged: only
\* the last C call of mount, its error exits and the start of a teardown count.
LEMMA RegistryStep == IInv /\ IInv' /\ [Next]_vars => [Registry!Next]_(Registry!vars)
<1> SUFFICES ASSUME IInv, IInv', [Next]_vars
             PROVE  Registry!Next \/ (Held' = Held /\ Released' = Released)
  BY DEF Held, Released, Registry!vars
<1>a. IInv' => (Held = {i \in Instances : pc[i] = "mounted"})'
  BY HeldIsMounted, PTL
<1>0. /\ Held = {i \in Instances : pc[i] = "mounted"}
      /\ Held' = {i \in Instances : pc'[i] = "mounted"}
      /\ pc \in [Instances -> PCs]
  BY HeldIsMounted, <1>a DEF IInv, TypeOK
<1>1. ASSUME NEW i \in Instances, pc[i] = "journal", pc' = [pc EXCEPT ![i] = "mounted"]
      PROVE  Registry!Acquire(i)
  <2>1. i \notin Held \cup Released /\ Held' = Held \cup {i} /\ Released' = Released
    BY <1>0, <1>1 DEF Released, Teardown
  <2>2. QED
    BY <2>1 DEF Registry!Acquire, Held, Released
<1>2. ASSUME NEW i \in Instances, pc[i] \in {"register", "unwind"},
             pc' = [pc EXCEPT ![i] = "gone"]
      PROVE  Registry!Abandon(i)
  <2>1. i \notin Held \cup Released /\ Held' = Held /\ Released' = Released \cup {i}
    BY <1>0, <1>2 DEF Released, Teardown
  <2>2. QED
    BY <2>1 DEF Registry!Abandon, Held, Released
<1>3. ASSUME NEW i \in Instances, pc[i] = "mounted", pc' = [pc EXCEPT ![i] = "stop"]
      PROVE  Registry!Release(i)
  <2>1. i \in Held /\ Held' = Held \ {i} /\ Released' = Released \cup {i}
    BY <1>0, <1>3 DEF Released, Teardown
  <2>2. QED
    BY <2>1 DEF Registry!Release, Held, Released
<1>4. ASSUME NEW i \in Instances, NEW q \in PCs, pc' = [pc EXCEPT ![i] = q],
             \/ pc[i] \in Teardown /\ q \in Teardown \cup {"gone"}
             \/ {pc[i], q} \cap (Teardown \cup {"gone", "mounted"}) = {}
      PROVE  Held' = Held /\ Released' = Released
  BY <1>0, <1>4 DEF Released, Teardown
<1>5. CASE UNCHANGED vars
  BY <1>0, <1>5 DEF Released, vars
<1>6. ASSUME NEW i \in Instances, NEW ro \in BOOLEAN, BeginMount(i, ro)
      PROVE  Held' = Held /\ Released' = Released
  BY <1>4, <1>6 DEF BeginMount, Moves, Teardown, PCs
<1>7. ASSUME NEW i \in Instances, MountStep(i)
      PROVE  Registry!Next \/ (Held' = Held /\ Released' = Released)
  <2>1. CASE Register(i)
    BY <1>2, <1>4, <2>1 DEF Register, Moves, Teardown, PCs, Registry!Next
  <2>2. CASE MountDevice(i)
    BY <1>4, <2>2 DEF MountDevice, Moves, Teardown, PCs
  <2>3. CASE UnwindMount(i)
    BY <1>2, <2>3 DEF UnwindMount, Moves, Registry!Next
  <2>4. CASE Recover(i)
    BY <1>4, <2>4 DEF Recover, Moves, Teardown, PCs
  <2>5. CASE StartJournal(i)
    BY <1>1, <2>5 DEF StartJournal, Moves, Registry!Next
  <2>6. QED
    BY <1>7, <2>1, <2>2, <2>3, <2>4, <2>5 DEF MountStep
<1>8. ASSUME NEW i \in Instances, NEW explicit \in BOOLEAN, BeginTeardown(i, explicit)
      PROVE  Registry!Next
  BY <1>3, <1>8 DEF BeginTeardown, Moves, Registry!Next
<1>9. ASSUME NEW i \in Instances, TeardownStep(i)
      PROVE  Held' = Held /\ Released' = Released
  <2>1. \E q \in Teardown \cup {"gone"} : pc' = [pc EXCEPT ![i] = q] /\ pc[i] \in Teardown
    BY <1>9 DEF TeardownStep, StopJournal, FlushCache, UmountOk, UmountErr,
       Unregister, ReturnsToDrop, Moves, Teardown
  <2>2. QED
    BY <1>4, <2>1 DEF PCs
<1>10. QED
  BY <1>5, <1>6, <1>7, <1>8, <1>9 DEF Next

\* Interleaved mounts, unmounts and drops implement the abstract registry: an
\* instance is usable from its mount until its own owner lets go.
THEOREM Refinement == Spec => ImplementsRegistry
<1>1. Init => Registry!Init
  BY DEF Init, Registry!Init, Teardown
<1>2. QED
  BY <1>1, Invariance, RegistryStep, PTL DEF Spec, ImplementsRegistry, Registry!Spec

-----------------------------------------------------------------------------
(* What can be proved of CallsSettle without fairness: the calls that are   *)
(* left become fewer, and where none is left the instance is settled.       *)

\* The C calls that the call under way may still make: the error exits of mount
\* included, and the second pass of Drop when umount is making the first.
CallsLeft(i) ==
  LET left == [idle |-> 0, register |-> 4, mount |-> 3, unwind |-> 1, recover |-> 2,
               journal |-> 1, mounted |-> 0, stop |-> 4, flush |-> 3, umount |-> 2,
               unregister |-> 1, gone |-> 0]
  IN left[pc[i]] + (IF inUmount[i] THEN 4 ELSE 0)

Settled ==
  \A i \in Instances : CallsLeft(i) = 0 =>
    \/ pc[i] \in {"idle", "mounted"}
    \/ wrapper[i] = "freed" /\ (NoEntry(bdevices, i) \/ i \in unregFailed)

CallsFall ==
  [][\A i \in Instances : MountStep(i) \/ TeardownStep(i) =>
       /\ CallsLeft(i)' < CallsLeft(i)
       /\ \A j \in Instances \ {i} : CallsLeft(j)' = CallsLeft(j)]_vars

GoneFreed == \A i \in Instances : pc[i] = "gone" => wrapper[i] = "freed"

LEMMA GoneFreedStep == TypeOK /\ GoneFreed /\ [Next]_vars => GoneFreed'
<1> SUFFICES ASSUME TypeOK, GoneFreed, [Next]_vars PROVE GoneFreed'
  OBVIOUS
<1> USE DEF TypeOK, GoneFreed, Moves
<1>1. ASSUME NEW i \in Instances, NEW ro \in BOOLEAN, BeginMount(i, ro) PROVE GoneFreed'
  BY <1>1 DEF BeginMount
<1>2. ASSUME NEW i \in Instances, Register(i) \/ UnwindMount(i) \/ Unregister(i)
      PROVE  GoneFreed'
  BY <1>2 DEF Register, UnwindMount, Unregister, Frees, ReturnsToDrop
<1>3. ASSUME NEW i \in Instances,
             \/ MountDevice(i) \/ Recover(i) \/ StartJournal(i) \/ StopJournal(i)
             \/ FlushCache(i) \/ UmountOk(i) \/ UmountErr(i)
             \/ \E explicit \in BOOLEAN : BeginTeardown(i, explicit)
      PROVE  GoneFreed'
  BY <1>3 DEF MountDevice, Recover, StartJournal, StopJournal, FlushCache, UmountOk,
     UmountErr, BeginTeardown, ReturnsToDrop, rustVars
<1>4. CASE UNCHANGED vars
  BY <1>4 DEF vars, rustVars
<1>5. QED
  BY <1>1, <1>2, <1>3, <1>4 DEF Next, MountStep, TeardownStep

LEMMA CallsFallStep ==
  ASSUME IInv, NEW i \in Instances, MountStep(i) \/ TeardownStep(i)
  PROVE  /\ CallsLeft(i)' < CallsLeft(i)
         /\ \A j \in Instances \ {i} : CallsLeft(j)' = CallsLeft(j)
<1>0. TypeOK /\ (inUmount[i] => pc[i] \in Teardown)
  BY DEF IInv, TeardownState
<1> USE DEF TypeOK, Teardown
<1>1. ASSUME NEW to \in PCs, Moves(i, pc[i], to), UNCHANGED inUmount,
             <<pc[i], to>> \in
               {<<"register", "mount">>, <<"register", "gone">>, <<"mount", "recover">>,
                <<"mount", "unwind">>, <<"unwind", "gone">>, <<"recover", "journal">>,
                <<"journal", "mounted">>, <<"stop", "flush">>, <<"flush", "umount">>,
                <<"umount", "unregister">>, <<"unregister", "gone">>}
      PROVE  /\ CallsLeft(i)' < CallsLeft(i)
             /\ \A j \in Instances \ {i} : CallsLeft(j)' = CallsLeft(j)
  <2>1. pc'[i] = to /\ \A j \in Instances \ {i} : pc'[j] = pc[j]
    BY <1>0, <1>1 DEF Moves
  <2>2. QED
    BY <1>0, <1>1, <2>1 DEF CallsLeft
<1>2. ASSUME NEW r, inUmount[i], ReturnsToDrop(i, r)
      PROVE  /\ CallsLeft(i)' < CallsLeft(i)
             /\ \A j \in Instances \ {i} : CallsLeft(j)' = CallsLeft(j)
  <2>1. /\ pc'[i] = "stop" /\ ~inUmount'[i]
        /\ \A j \in Instances \ {i} : pc'[j] = pc[j] /\ inUmount'[j] = inUmount[j]
    BY <1>0, <1>2 DEF ReturnsToDrop
  <2>2. QED
    BY <1>0, <1>2, <2>1 DEF CallsLeft
<1>3. CASE MountStep(i)
  BY <1>1, <1>3 DEF MountStep, Register, MountDevice, UnwindMount, Recover, StartJournal,
     Moves, rustVars, PCs
<1>4. CASE StopJournal(i) \/ FlushCache(i) \/ UmountOk(i)
  BY <1>1, <1>4 DEF StopJournal, FlushCache, UmountOk, Moves, rustVars, PCs
<1>5. CASE UmountErr(i)
  BY <1>1, <1>2, <1>5 DEF UmountErr, Moves, PCs
<1>6. CASE Unregister(i)
  BY <1>1, <1>2, <1>6 DEF Unregister, Moves, PCs
<1>7. QED
  BY <1>3, <1>4, <1>5, <1>6 DEF TeardownStep

\* mount, umount and Drop never come back to a C call they have made, the second
\* teardown after a failed or finished umount apart: every step leaves fewer
\* calls, and when none is left the instance can be used, or its wrapper was
\* freed and nothing of it is registered unless the last unregister failed.
THEOREM CallsEnd == Spec => []Settled /\ CallsFall
<1>1. IInv /\ GoneFreed => Settled
  <2> SUFFICES ASSUME IInv, GoneFreed, NEW i \in Instances, CallsLeft(i) = 0
               PROVE  pc[i] \in {"idle", "mounted"}
                        \/ (wrapper[i] = "freed" /\ (NoEntry(bdevices, i) \/ i \in unregFailed))
    BY DEF Settled
  <2>1. pc[i] \in {"idle", "mounted", "gone"}
    BY DEF CallsLeft, IInv, TypeOK, PCs, Teardown
  <2>2. pc[i] = "gone" => NoEntry(bdevices, i) \/ i \in unregFailed
    BY DEF IInv, EntriesOwned, NoEntry
  <2>3. QED
    BY <2>1, <2>2 DEF GoneFreed
<1>2. Spec => []GoneFreed
  <2>1. Init => GoneFreed
    BY DEF Init, GoneFreed
  <2>2. QED
    BY <2>1, GoneFreedStep, TypeCorrect, PTL DEF Spec
<1>3. IInv /\ [Next]_vars =>
        [\A i \in Instances : MountStep(i) \/ TeardownStep(i) =>
           /\ CallsLeft(i)' < CallsLeft(i)
           /\ \A j \in Instances \ {i} : CallsLeft(j)' = CallsLeft(j)]_vars
  BY CallsFallStep
<1>4. QED
  BY <1>1, <1>2, <1>3, Invariance, PTL DEF Spec, CallsFall
=============================================================================
