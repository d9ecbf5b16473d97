-------------------------- MODULE Ext4DurableProofs --------------------------
(***************************************************************************)
(* Proof that what Ext4Fs::sync accepted survives the process, for any     *)
(* number of instances, blocks and writes, and that the life cycle stays   *)
(* safe when the process dies and starts again. DInv of Ext4Durable is     *)
(* inductive; the steps on the tables of lwext4 are those of Ext4Mount,    *)
(* so its lemmas are used as they stand.                                   *)
(***************************************************************************)
EXTENDS Ext4Durable, Ext4MountProofs

\* Apart from a crash of the process, a step of Ext4Durable is a step of
\* Ext4Mount or leaves its variables alone.
LEMMA LifecycleStep == [DNext]_dvars => [Next]_vars \/ ProcessCrash
BY DEF DNext, dvars, OpenImage, OtherCall, FlushOnTeardown, ReleaseOk, ReleaseErr,
       Write, WriteBack, Sync, HostWriteBack, Next, TeardownStep, MountStep

\* Writing cached blocks back keeps the image well-typed and, block by block,
\* either old or equal to the cache.
LEMMA WriteBackEffect ==
  ASSUME DTypeOK, NEW S, WritesBack(S)
  PROVE  /\ image' \in Contents
         /\ \A b \in Blocks : image'[b] \in {view[b], image[b]}
BY DEF DTypeOK, Contents, WritesBack

LEMMA DInitInv == DInit => DInv
<1> SUFFICES ASSUME DInit PROVE DInv
  OBVIOUS
<1>1. TypeOK
  BY InitInv DEF DInit, IInv
<1>2. \A i \in Instances : ~Active(i)
  BY DEF DInit, Init, Active
<1>3. QED
  BY <1>1, <1>2 DEF DInit, DInv, DTypeOK, Contents, SingleUser, ReadYourWrites, SyncSurvivesCrash

\* The lifecycle part of the invariant: a step moves at most the one active
\* instance, or starts one when there is none.
LEMMA SingleUserStep == DInv /\ [DNext]_dvars => SingleUser'
<1> SUFFICES ASSUME DInv, [DNext]_dvars PROVE SingleUser'
  OBVIOUS
<1>0. pc \in [Instances -> PCs] /\ SingleUser
  BY DEF DInv, DTypeOK, TypeOK
<1>1. ASSUME NEW i \in Instances, NEW ro \in BOOLEAN, OpenImage(i, ro) PROVE SingleUser'
  BY <1>0, <1>1 DEF OpenImage, BeginMount, Moves, SingleUser, Active
<1>2. ASSUME NEW i \in Instances, NEW q, Active(i), pc' = [pc EXCEPT ![i] = q]
      PROVE  SingleUser'
  BY <1>0, <1>2 DEF SingleUser, Active
<1>3. ASSUME NEW i \in Instances, OtherCall(i) PROVE SingleUser'
  <2>1. \E q : Active(i) /\ pc' = [pc EXCEPT ![i] = q]
    BY <1>3 DEF OtherCall, MountStep, Register, MountDevice, UnwindMount, Recover,
       StartJournal, StopJournal, Unregister, BeginTeardown, ReturnsToDrop, Moves, Active
  <2>2. QED
    BY <1>2, <2>1
<1>4. ASSUME NEW i \in Instances, FlushOnTeardown(i) \/ ReleaseOk(i) \/ ReleaseErr(i)
      PROVE  SingleUser'
  <2>1. \E q : Active(i) /\ pc' = [pc EXCEPT ![i] = q]
    BY <1>4 DEF FlushOnTeardown, ReleaseOk, ReleaseErr, FlushCache, UmountOk, UmountErr,
       ReturnsToDrop, Moves, Active
  <2>2. QED
    BY <1>2, <2>1
<1>5. CASE ProcessCrash
  BY <1>0, <1>5 DEF ProcessCrash, SingleUser, Active
<1>6. CASE UNCHANGED pc
  BY <1>0, <1>6 DEF SingleUser, Active
<1>7. QED
  BY <1>1, <1>3, <1>4, <1>5, <1>6 DEF DNext, dvars, vars, Write, WriteBack, Sync, HostWriteBack

\* One step of an instance, of the host or of a crash preserves the invariant.
LEMMA DInvStep == DInv /\ [DNext]_dvars => DInv'
<1> SUFFICES ASSUME DInv, [DNext]_dvars PROVE DInv'
  OBVIOUS
<1> DEFINE Within == \A b \in Blocks : view[b] \in since[b] /\ accepted[b] \subseteq since[b]
           DataOK == /\ view \in Contents /\ image \in Contents /\ disk \in Contents
                     /\ writes \in Nat
                     /\ accepted \in [Blocks -> SUBSET Nat]
                     /\ since \in [Blocks -> SUBSET Nat]
                     /\ flushFailed \subseteq Instances
<1>1. DataOK /\ ReadYourWrites /\ Within /\ SyncSurvivesCrash /\ SingleUser
  BY DEF DInv, DTypeOK
<1>2. TypeOK'
  <2>1. ProcessCrash => TypeOK'
    BY DEF ProcessCrash, DInv, DTypeOK, TypeOK, PCs
  <2>2. QED
    BY <2>1, LifecycleStep, TypeStep DEF DInv, DTypeOK
<1>3. SUFFICES DataOK' /\ ReadYourWrites' /\ Within' /\ SyncSurvivesCrash'
  BY <1>2, SingleUserStep DEF DInv, DTypeOK
<1> HIDE DEF Within, DataOK
<1>4. ASSUME NEW S, WritesBack(S)
      PROVE  /\ image' \in Contents
             /\ \A b \in Blocks : image'[b] \in {view[b], image[b]}
             /\ \A b \in Blocks : image'[b] \in since[b]
  BY <1>1, <1>4, WriteBackEffect DEF DInv, Within, SyncSurvivesCrash
<1>5. ASSUME NEW i \in Instances, NEW ro \in BOOLEAN, OpenImage(i, ro)
      PROVE  DataOK' /\ ReadYourWrites' /\ Within' /\ SyncSurvivesCrash'
  BY <1>1, <1>5 DEF OpenImage, DataOK, Within, ReadYourWrites, SyncSurvivesCrash, Contents
<1>6. ASSUME NEW i \in Instances, OtherCall(i)
      PROVE  DataOK' /\ ReadYourWrites' /\ Within' /\ SyncSurvivesCrash'
  <2>1. DataOK' /\ Within' /\ SyncSurvivesCrash'
    BY <1>1, <1>6 DEF OtherCall, dataVars, DataOK, Within, SyncSurvivesCrash
  <2>2. (\E j \in Instances : Active(j) /\ pc[j] \notin Teardown)'
          => \E j \in Instances : Active(j) /\ pc[j] \notin Teardown
    BY <1>6 DEF DInv, DTypeOK, TypeOK, OtherCall, MountStep, Register, MountDevice,
       UnwindMount, Recover, StartJournal, StopJournal, Unregister, BeginTeardown,
       ReturnsToDrop, Moves, Active, Teardown
  <2>3. QED
    BY <1>1, <1>6, <2>1, <2>2 DEF OtherCall, dataVars, ReadYourWrites
<1>7. ASSUME NEW i \in Instances, FlushOnTeardown(i) \/ ReleaseOk(i) \/ ReleaseErr(i)
      PROVE  DataOK' /\ ReadYourWrites' /\ Within' /\ SyncSurvivesCrash'
  <2>1. image' \in Contents /\ \A b \in Blocks : image'[b] \in since[b]
    BY <1>1, <1>4, <1>7 DEF FlushOnTeardown, ReleaseOk, ReleaseErr, CacheFlush, DataOK,
       SyncSurvivesCrash
  <2>2. /\ view' \in {view, image'} /\ flushFailed' \subseteq Instances
        /\ UNCHANGED <<disk, writes, accepted, since>>
    BY <1>1, <1>7 DEF FlushOnTeardown, ReleaseOk, ReleaseErr, DataOK
  <2>3. DataOK' /\ Within' /\ SyncSurvivesCrash'
    BY <1>1, <2>1, <2>2 DEF DataOK, Within, SyncSurvivesCrash
  <2>4. \A j \in Instances : ~(Active(j) /\ pc[j] \notin Teardown)'
    BY <1>1, <1>7 DEF DInv, DTypeOK, TypeOK, SingleUser, FlushOnTeardown, ReleaseOk,
       ReleaseErr, FlushCache, UmountOk, UmountErr, ReturnsToDrop, Moves, Active, Teardown
  <2>5. QED
    BY <2>3, <2>4 DEF ReadYourWrites
<1>8. ASSUME NEW i \in Instances, NEW b \in Blocks, Write(i, b)
      PROVE  DataOK' /\ ReadYourWrites' /\ Within' /\ SyncSurvivesCrash'
  <2>1. \A c \in Blocks : view[c] \in accepted[c]
    BY <1>1, <1>8 DEF Write, ReadYourWrites, Active, Teardown
  <2>2. /\ DataOK'
        /\ \A c \in Blocks : view'[c] \in accepted'[c] /\ accepted'[c] \subseteq since'[c]
        /\ \A c \in Blocks : since[c] \subseteq since'[c]
    BY <1>1, <1>8, <2>1 DEF Write, DataOK, Within, Contents
  <2>3. QED
    BY <1>1, <1>8, <2>2 DEF Write, Within, ReadYourWrites, SyncSurvivesCrash
<1>9. ASSUME NEW i \in Instances, NEW b \in Blocks, WriteBack(i, b)
      PROVE  DataOK' /\ ReadYourWrites' /\ Within' /\ SyncSurvivesCrash'
  BY <1>1, <1>4, <1>9 DEF WriteBack, DataOK, Within, vars, ReadYourWrites, SyncSurvivesCrash,
     Active
<1>10. ASSUME NEW i \in Instances, Sync(i)
       PROVE  DataOK' /\ ReadYourWrites' /\ Within' /\ SyncSurvivesCrash'
  <2>1. \A b \in Blocks : view[b] \in accepted[b]
    BY <1>1, <1>10 DEF Sync, ReadYourWrites, Active, Teardown
  <2>2. CASE CacheFlush(i, TRUE) /\ since' = accepted
    <3>1. image' = [b \in Blocks |-> view[b]]
      BY <2>2 DEF CacheFlush, WritesBack
    <3>2. QED
      BY <1>1, <1>10, <2>1, <2>2, <3>1 DEF Sync, DataOK, Within, vars, ReadYourWrites,
         SyncSurvivesCrash, Active, Contents
  <2>3. CASE CacheFlush(i, FALSE) /\ UNCHANGED since
    BY <1>1, <1>4, <1>10, <2>3 DEF Sync, CacheFlush, DataOK, Within, vars, ReadYourWrites,
       SyncSurvivesCrash, Active
  <2>4. QED
    BY <1>10, <2>2, <2>3 DEF Sync
<1>11. ASSUME NEW b \in Blocks, HostWriteBack(b)
       PROVE  DataOK' /\ ReadYourWrites' /\ Within' /\ SyncSurvivesCrash'
  BY <1>1, <1>11 DEF HostWriteBack, DataOK, Within, vars, ReadYourWrites, SyncSurvivesCrash,
     Active, Contents
<1>12. CASE ProcessCrash
  <2>1. \A i \in Instances : ~Active(i)'
    BY <1>12 DEF ProcessCrash, Active
  <2>2. QED
    BY <1>1, <1>12, <2>1 DEF ProcessCrash, DataOK, Within, ReadYourWrites, SyncSurvivesCrash
<1>13. CASE UNCHANGED dvars
  BY <1>1, <1>13 DEF dvars, vars, dataVars, DataOK, Within, ReadYourWrites, SyncSurvivesCrash,
     Active
<1>14. QED
  BY <1>5, <1>6, <1>7, <1>8, <1>9, <1>10, <1>11, <1>12, <1>13 DEF DNext

-----------------------------------------------------------------------------
(* The teardown. *)

\* A step moves the one active instance, or mounts the image when there is
\* none, or the process dies, or nothing happens to any instance.
LEMMA StepsOfOne ==
  ASSUME DInv, [DNext]_dvars, NEW i \in Instances, Active(i)'
  PROVE  \/ \E ro \in BOOLEAN : OpenImage(i, ro)
         \/ OtherCall(i) \/ FlushOnTeardown(i) \/ ReleaseOk(i) \/ ReleaseErr(i)
         \/ (\E b \in Blocks : Write(i, b) \/ WriteBack(i, b)) \/ Sync(i)
         \/ \E b \in Blocks : HostWriteBack(b)
         \/ UNCHANGED dvars
<1>0. pc \in [Instances -> PCs] /\ SingleUser
  BY DEF DInv, DTypeOK, TypeOK
<1>1. ASSUME NEW j \in Instances, j # i, NEW ro \in BOOLEAN, OpenImage(j, ro) PROVE FALSE
  BY <1>0, <1>1 DEF OpenImage, BeginMount, Moves, Active
<1>2. ASSUME NEW j \in Instances, j # i, NEW q, Active(j), pc' = [pc EXCEPT ![j] = q]
      PROVE  FALSE
  BY <1>0, <1>2 DEF SingleUser, Active
<1>3. ASSUME NEW j \in Instances, j # i,
             \/ OtherCall(j) \/ FlushOnTeardown(j) \/ ReleaseOk(j) \/ ReleaseErr(j)
      PROVE  FALSE
  <2>1. \E q : Active(j) /\ pc' = [pc EXCEPT ![j] = q]
    BY <1>3 DEF OtherCall, MountStep, Register, MountDevice, UnwindMount, Recover,
       StartJournal, StopJournal, Unregister, BeginTeardown, ReturnsToDrop, Moves, Active,
       FlushOnTeardown, ReleaseOk, ReleaseErr, FlushCache, UmountOk, UmountErr
  <2>2. QED
    BY <1>2, <2>1, <1>3
<1>4. ASSUME NEW j \in Instances, j # i,
             (\E b \in Blocks : Write(j, b) \/ WriteBack(j, b)) \/ Sync(j)
      PROVE  FALSE
  <2>1. Active(j) /\ UNCHANGED pc
    BY <1>4 DEF Write, WriteBack, Sync, vars, Active
  <2>2. QED
    BY <1>0, <1>4, <2>1 DEF SingleUser, Active
<1>5. ~ProcessCrash
  BY <1>0 DEF ProcessCrash, Active
<1>6. QED
  BY <1>1, <1>3, <1>4, <1>5 DEF DNext

\* From ext4_mount to the teardown the mount point stands.
LEMMA MountedBeforeStep ==
  ASSUME DInv, MountedBefore, [DNext]_dvars
  PROVE  MountedBefore'
<1> SUFFICES ASSUME NEW i \in Instances, pc'[i] \in {"recover", "journal", "mounted"}
             PROVE  Mounted(i)'
  BY DEF MountedBefore
<1>0. pc \in [Instances -> PCs]
  BY DEF DInv, DTypeOK, TypeOK
<1>1. CASE MountDevice(i)
  <2>1. \E d : <<id[i], d>> \in mountpoints' /\ UNCHANGED id
    BY <1>0, <1>1 DEF MountDevice, Moves, rustVars
  <2>2. QED
    BY <2>1 DEF Mounted, Named
<1>2. CASE UNCHANGED <<id, mountpoints>> /\ pc[i] \in {"recover", "journal", "mounted"}
  BY <1>2 DEF MountedBefore, Mounted, Named
<1>3. Active(i)'
  BY DEF Active
<1>4. QED
  BY <1>0, <1>1, <1>2, <1>3, StepsOfOne DEF OpenImage, BeginMount, OtherCall, MountStep, Register,
     UnwindMount, Recover, StartJournal, StopJournal, Unregister, BeginTeardown,
     ReturnsToDrop, Moves, FlushOnTeardown, ReleaseOk, ReleaseErr, FlushCache, UmountOk,
     UmountErr, Write, WriteBack, Sync, HostWriteBack, dvars, vars, rustVars, cVars

\* The teardown of one instance keeps the cache or the image as accepted.
LEMMA KeptStep ==
  ASSUME DInv, MountedBefore, KeptInTeardown, [DNext]_dvars
  PROVE  KeptInTeardown'
<1> DEFINE Kept(i) ==
      /\ Mounted(i) => AcceptedIn(view)
      /\ i \notin flushFailed /\ (pc[i] \in {"umount", "unregister"} \/ ~Mounted(i))
           => AcceptedIn(image)
<1> SUFFICES ASSUME NEW i \in Instances, pc'[i] \in Teardown
             PROVE  Kept(i)'
  BY DEF KeptInTeardown
<1>0. pc \in [Instances -> PCs] /\ flushFailed \subseteq Instances
  BY DEF DInv, DTypeOK, TypeOK
<1>1. Active(i)'
  BY DEF Active, Teardown
<1>2. pc[i] \in Teardown => Kept(i)
  BY DEF KeptInTeardown
<1>3. CASE OtherCall(i)
  <2>1. \/ \E explicit \in BOOLEAN : BeginTeardown(i, explicit)
        \/ StopJournal(i) \/ Unregister(i)
    BY <1>0, <1>3 DEF OtherCall, MountStep, Register, MountDevice, UnwindMount, Recover,
       StartJournal, Moves, Teardown
  <2>2. UNCHANGED <<id, mountpoints, dataVars>>
    BY <1>3, <2>1 DEF OtherCall, BeginTeardown, StopJournal, Unregister, rustVars, cVars
  <2>3. CASE \E explicit \in BOOLEAN : BeginTeardown(i, explicit)
    <3>1. pc[i] = "mounted" /\ pc'[i] = "stop"
      BY <1>0, <2>3 DEF BeginTeardown, Moves
    <3>2. Mounted(i) /\ AcceptedIn(view)
      BY <3>1 DEF MountedBefore, DInv, ReadYourWrites, AcceptedIn, Active, Teardown
    <3>3. QED
      BY <2>2, <3>1, <3>2 DEF Mounted, Named, AcceptedIn, dataVars
  <2>4. CASE StopJournal(i) \/ Unregister(i)
    <3>1. /\ pc[i] \in Teardown
          /\ pc'[i] \in {"umount", "unregister"} \/ ~Mounted(i)
               => pc[i] \in {"umount", "unregister"} \/ ~Mounted(i)
      BY <1>0, <2>4 DEF StopJournal, Unregister, ReturnsToDrop, Moves, Teardown
    <3>2. QED
      BY <1>2, <2>2, <3>1 DEF Mounted, Named, AcceptedIn, dataVars
  <2>5. QED
    BY <2>1, <2>3, <2>4
<1>4. CASE FlushOnTeardown(i)
  <2>1. /\ pc[i] = "flush" /\ Kept(i)
        /\ UNCHANGED <<id, mountpoints, view, accepted>>
    BY <1>2, <1>4 DEF FlushOnTeardown, FlushCache, Moves, rustVars, cVars, Teardown
  <2>2. (Mounted(i) <=> Mounted(i)') /\ (AcceptedIn(view) <=> AcceptedIn(view)')
    BY <2>1 DEF Mounted, Named, AcceptedIn
  <2>3. CASE CacheFlush(i, TRUE)
    BY <2>1, <2>2, <2>3 DEF CacheFlush, WritesBack, AcceptedIn
  <2>4. CASE CacheFlush(i, FALSE)
            /\ flushFailed' = IF Mounted(i) THEN flushFailed \cup {i} ELSE flushFailed
    <3>1. CASE Mounted(i)
      BY <2>1, <2>2, <2>4, <3>1
    <3>2. CASE ~Mounted(i)
      <4>1. image' = [b \in Blocks |-> image[b]] /\ flushFailed' = flushFailed
        BY <2>4, <3>2 DEF CacheFlush, WritesBack
      <4>2. QED
        BY <2>1, <2>2, <3>2, <4>1 DEF AcceptedIn
    <3>3. QED
      BY <3>1, <3>2
  <2>5. QED
    BY <1>4, <2>3, <2>4 DEF FlushOnTeardown
<1>5. CASE ReleaseOk(i) \/ ReleaseErr(i)
  <2>1. /\ pc[i] = "umount" /\ Kept(i)
        /\ UNCHANGED <<id, accepted, flushFailed>>
    BY <1>2, <1>5 DEF ReleaseOk, ReleaseErr, UmountOk, UmountErr, ReturnsToDrop, Moves,
       rustVars, Teardown
  <2>2. /\ Mounted(i)' => mountpoints' = mountpoints
        /\ mountpoints' # mountpoints => Mounted(i)
    <3>1. mountpoints' \in {mountpoints, Without(mountpoints, i)}
      BY <1>5 DEF ReleaseOk, ReleaseErr, UmountOk, UmountErr
    <3>2. mountpoints' = Without(mountpoints, i) => ~Mounted(i)'
      BY <2>1 DEF Mounted, Named, Without
    <3>3. ~Mounted(i) => Without(mountpoints, i) = mountpoints
      BY DEF Mounted, Named, Without
    <3>4. QED
      BY <3>1, <3>2, <3>3
  <2>3. \/ Mounted(i) /\ \E S : WritesBack(S)
        \/ UNCHANGED image
    BY <1>5 DEF ReleaseOk, ReleaseErr, UmountOk, Mounted
  <2>4. i \notin flushFailed => AcceptedIn(image)'
    BY <2>1, <2>3 DEF AcceptedIn, WritesBack
  <2>5. Mounted(i)' => AcceptedIn(view)'
    <3>1. Mounted(i)' => view' = view /\ Mounted(i)
      BY <1>5, <2>1, <2>2 DEF ReleaseOk, ReleaseErr, UmountOk, Mounted, Named, Without
    <3>2. QED
      BY <2>1, <3>1 DEF AcceptedIn
  <2>6. QED
    BY <2>1, <2>4, <2>5
<1>6. CASE UNCHANGED <<pc, id, mountpoints, view, image, accepted, flushFailed>>
  BY <1>2, <1>6 DEF Mounted, Named, AcceptedIn
<1>7. QED
  BY <1>0, <1>1, <1>3, <1>4, <1>5, <1>6, StepsOfOne DEF OpenImage, BeginMount, Moves, Write,
     WriteBack, Sync, HostWriteBack, dvars, vars, rustVars, cVars, dataVars, Teardown

\* The teardown invariant of Ext4Durable is one of every behaviour, whatever
\* flush or unmount fails on the way.
THEOREM TeardownInvariance == DSpec => []TeardownInv
<1>1. DInit => TeardownInv
  BY DInitInv DEF DInit, Init, TeardownInv, MountedBefore, KeptInTeardown, Teardown
<1>2. TeardownInv /\ [DNext]_dvars => TeardownInv'
  BY DInvStep, MountedBeforeStep, KeptStep DEF TeardownInv
<1>3. QED
  BY <1>1, <1>2, PTL DEF DSpec

\* A teardown whose ext4_cache_flush worked loses nothing that was accepted,
\* with umount or with Drop alone, whatever ext4_umount does after it.
THEOREM TeardownSafe == DSpec => TeardownKeepsData
<1> DEFINE Freed(i) == pc[i] = "unregister" /\ pc'[i] = "gone" /\ i \notin flushFailed
<1>1. TeardownInv /\ [DNext]_dvars =>
        [\A i \in Instances : Freed(i) => \A b \in Blocks : image'[b] \in accepted[b]]_dvars
  <2> SUFFICES ASSUME TeardownInv, [DNext]_dvars, NEW i \in Instances, Freed(i)
               PROVE  \A b \in Blocks : image'[b] \in accepted[b]
    OBVIOUS
  <2>1. \A b \in Blocks : image[b] \in accepted[b]
    BY DEF TeardownInv, KeptInTeardown, Teardown, AcceptedIn
  <2>2. image' = image
    <3>1. pc' # pc /\ pc \in [Instances -> PCs]
      BY DEF TeardownInv, DInv, DTypeOK, TypeOK
    <3>2. ~(\E j \in Instances : FlushOnTeardown(j) \/ ReleaseOk(j) \/ ReleaseErr(j))
      <4> SUFFICES ASSUME NEW j \in Instances, FlushOnTeardown(j) \/ ReleaseOk(j) \/ ReleaseErr(j)
                   PROVE  FALSE
        OBVIOUS
      <4>1. pc[j] \in {"flush", "umount"}
        BY DEF FlushOnTeardown, ReleaseOk, ReleaseErr, FlushCache, UmountOk, UmountErr, Moves
      <4>2. Active(i) /\ Active(j)
        BY <4>1 DEF Active
      <4>3. QED
        BY <4>1, <4>2 DEF TeardownInv, DInv, SingleUser
    <3>3. QED
      BY <3>1, <3>2 DEF DNext, dvars, vars, OpenImage, OtherCall, dataVars, Write, WriteBack,
         Sync, HostWriteBack, ProcessCrash
  <2>3. QED
    BY <2>1, <2>2
<1>2. QED
  BY <1>1, TeardownInvariance, PTL DEF DSpec, TeardownKeepsData

\* Whatever is evicted, flushed in part, unmounted or cut off by a crash, the
\* image keeps what the last successful Ext4Fs::sync accepted, or later writes.
THEOREM SyncSafe == DSpec => []SyncSurvivesCrash
<1>1. DInv => SyncSurvivesCrash
  BY DEF DInv
<1>2. QED
  BY DInitInv, DInvStep, <1>1, PTL DEF DSpec

-----------------------------------------------------------------------------
(* The life cycle of Ext4Mount when the process may die at any moment. *)

\* A crash leaves nothing of the old process in lwext4, so its names, which
\* the next process draws again, are not in use.
LEMMA CrashLife == LifeInv /\ ProcessCrash => LifeInv'
<1> SUFFICES ASSUME LifeInv, ProcessCrash PROVE LifeInv'
  OBVIOUS
<1>1. /\ pc' = [i \in Instances |-> IF pc[i] = "idle" THEN "idle" ELSE "gone"]
      /\ bdevices' = {} /\ mountpoints' = {} /\ journals' = {} /\ opened' = {}
      /\ inUmount' = [i \in Instances |-> FALSE]
      /\ UNCHANGED <<id, readOnly, journalActive, result>>
  BY DEF ProcessCrash
<1>2. TypeOK'
  BY DEF LifeInv, TypeOK, ProcessCrash, PCs
<1>3. NamesOwned' /\ EntriesOwned'
  BY <1>1 DEF NamesOwned, InUse, NoEntry, EntriesOwned
<1>4. Acquired'
  BY <1>1 DEF Acquired
<1>5. TeardownState'
  <2>1. \A i \in Instances : result[i] # "none" => pc[i] # "idle"
    BY DEF LifeInv, TeardownState, Teardown
  <2>2. QED
    BY <1>1, <2>1 DEF TeardownState, NoEntry
<1>6. JournalState'
  <2>1. \A i \in Instances : journalActive[i] => pc[i] # "idle"
    BY DEF LifeInv, JournalState, Teardown
  <2>2. QED
    BY <1>1, <2>1 DEF JournalState, JournalKnown
<1>7. QED
  BY <1>2, <1>3, <1>4, <1>5, <1>6 DEF LifeInv

\* The invariant of the life cycle is one of Ext4Durable too.
THEOREM LifeInvariance == DSpec => []LifeInv
<1>1. DInit => LifeInv
  BY InitInv, DrawnOwned DEF DInit
<1>2. LifeInv /\ [DNext]_dvars => LifeInv'
  BY LifecycleStep, LifeStep, CrashLife
<1>3. QED
  BY <1>1, <1>2, PTL DEF DSpec

\* What Ext4Mount's runs check of mount, umount and Drop holds through crashes
\* as well: the numbers that DEVICE_COUNTER gives out in a new process are those
\* of the old one, and still no held instance loses its device or mount point,
\* no registration outlives its wrapper unless the unregister before the free
\* failed, no umount that returned Ok leaves anything and no journal runs that
\* its instance does not know of.
THEOREM LifecycleSafe ==
  DSpec => [](OwnEntries /\ RegisteredAlive /\ UmountOkReleases /\ JournalKnown)
<1>1. QED
  BY LifeInvariance, LifeIsSafe, PTL
=============================================================================
