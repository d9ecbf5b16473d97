----------------------------- MODULE Ext4Durable -----------------------------
(***************************************************************************)
(* Where written data is while Ext4Fs values are mounted, synced, unmounted*)
(* and dropped over one disk image: Ext4Mount composed with three layers   *)
(*   view  - what a read through the file system returns (lwext4's cache), *)
(*   image - what the FileBlockDevice has handed to the host system,       *)
(*   disk  - what the host has put on stable storage by itself.            *)
(* A block is dirty while view and image differ.                           *)
(*                                                                         *)
(* lwext4 is external: it may write a dirty block back during any call, a  *)
(* failed flush may have written some blocks, and ext4_umount releases the *)
(* cache with whatever it did not get written.  A block is a data block;   *)
(* a journal replay, which concerns metadata, does not touch it.           *)
(***************************************************************************)
EXTENDS Ext4Mount

CONSTANTS
  Blocks,      \* the data blocks that are written
  MaxWrites    \* bound: writes in one behaviour

VARIABLES
  view, image, disk,  \* contents of every block in the three layers
  writes,             \* number of writes so far; write n stores version n
  accepted,           \* the contents a block may have now, by the writes' results
  since,              \* the contents it may have had since the last sync that was Ok
  flushFailed         \* instances whose teardown flush failed on a mounted image

dataVars == <<view, image, disk, writes, accepted, since, flushFailed>>
dvars == <<vars, dataVars>>

Contents == [Blocks -> Nat]

DTypeOK ==
  /\ TypeOK
  /\ view \in Contents /\ image \in Contents /\ disk \in Contents
  /\ writes \in Nat
  /\ accepted \in [Blocks -> SUBSET Nat]
  /\ since \in [Blocks -> SUBSET Nat]
  /\ flushFailed \subseteq Instances

DInit ==
  /\ Init
  /\ view = [b \in Blocks |-> 0] /\ image = view /\ disk = view
  /\ writes = 0
  /\ accepted = [b \in Blocks |-> {0}] /\ since = accepted
  /\ flushFailed = {}

-----------------------------------------------------------------------------
(* The cache over the image. *)

Mounted(i) == Named(mountpoints, i) # {}

\* The cached contents of the blocks in S reach the image.
WritesBack(S) == image' = [b \in Blocks |-> IF b \in S THEN view[b] ELSE image[b]]

\* ext4_cache_flush on instance i, with whether it returned 0.
CacheFlush(i, ok) ==
  IF ok THEN Mounted(i) /\ WritesBack(Blocks)
        ELSE \E S \in SUBSET Blocks : (S = {} \/ Mounted(i)) /\ WritesBack(S)

-----------------------------------------------------------------------------
(* The mount and teardown of Ext4Mount, with what they do to the data. *)

\* Mutant: the cache of an earlier mount is still there.
OpenImageStaleCache(i, ro) ==
  /\ \A j \in Instances \ {i} : pc[j] \in {"idle", "gone"}
  /\ BeginMount(i, ro)
  /\ accepted' = [b \in Blocks |-> {image[b]}]
  /\ since' = accepted'
  /\ UNCHANGED <<view, image, disk, writes, flushFailed>>

\* mount starts from the image as it is.  The image has one user at a time:
\* FileBlockDevice takes no lock on it and leaves this to the program.
OpenImage(i, ro) ==
  /\ \A j \in Instances \ {i} : pc[j] \in {"idle", "gone"}
  /\ BeginMount(i, ro)
  /\ view' = image
  /\ accepted' = [b \in Blocks |-> {image[b]}]
  /\ since' = accepted'
  /\ UNCHANGED <<image, disk, writes, flushFailed>>

\* Mutant: the teardown does not flush.
FlushOnTeardownSkipped(i) == FlushCache(i) /\ UNCHANGED dataVars

\* ext4_cache_flush of umount and of Drop: the result is dropped.
FlushOnTeardown(i) ==
  /\ FlushCache(i)
  /\ \/ CacheFlush(i, TRUE) /\ flushFailed' = flushFailed \ {i}
     \/ /\ CacheFlush(i, FALSE)
        /\ flushFailed' = IF Mounted(i) THEN flushFailed \cup {i} ELSE flushFailed
  /\ UNCHANGED <<view, disk, writes, accepted, since>>

\* ext4_umount returned 0: the cache is released, written back or not.
ReleaseOk(i) ==
  /\ UmountOk(i)
  /\ \E S \in SUBSET Blocks : WritesBack(S)
  /\ view' = image'
  /\ UNCHANGED <<disk, writes, accepted, since, flushFailed>>

\* ext4_umount failed: the cache is gone if the mount point is.
ReleaseErr(i) ==
  /\ UmountErr(i)
  /\ \/ Mounted(i) /\ \E S \in SUBSET Blocks : WritesBack(S)
     \/ UNCHANGED image
  /\ view' = IF mountpoints' = mountpoints THEN view ELSE image'
  /\ UNCHANGED <<disk, writes, accepted, since, flushFailed>>

\* The calls that leave the data alone.
OtherCall(i) ==
  /\ MountStep(i) \/ StopJournal(i) \/ Unregister(i)
     \/ \E explicit \in BOOLEAN : BeginTeardown(i, explicit)
  /\ UNCHANGED dataVars

-----------------------------------------------------------------------------
(* Operations of a mounted instance. *)

\* File::write of one block.  After an error the block may have either
\* content; a read-only mount refuses the write without effect.
Write(i, b) ==
  /\ pc[i] = "mounted" /\ ~readOnly[i]
  /\ writes < MaxWrites
  /\ writes' = writes + 1
  /\ \/ /\ view' = [view EXCEPT ![b] = writes']
        /\ accepted' = [accepted EXCEPT ![b] = {writes'}]
     \/ /\ view' \in {view, [view EXCEPT ![b] = writes']}
        /\ accepted' = [accepted EXCEPT ![b] = @ \cup {writes'}]
  /\ since' = [since EXCEPT ![b] = @ \cup {writes'}]
  /\ UNCHANGED <<vars, image, disk, flushFailed>>

\* lwext4 writes a dirty block back while it serves some call.
WriteBack(i, b) ==
  /\ pc[i] = "mounted" /\ image[b] # view[b]
  /\ WritesBack({b})
  /\ UNCHANGED <<vars, view, disk, writes, accepted, since, flushFailed>>

\* Mutant: sync drops the result of ext4_cache_flush, as umount does.
SyncUnchecked(i) ==
  /\ pc[i] = "mounted"
  /\ \E ok \in BOOLEAN : CacheFlush(i, ok)
  /\ since' = accepted
  /\ UNCHANGED <<vars, view, disk, writes, accepted, flushFailed>>

\* Ext4Fs::sync (File::sync is the same call): ext4_cache_flush, with its
\* result.  BlockDevice::flush is not called.
Sync(i) ==
  /\ pc[i] = "mounted"
  /\ \/ CacheFlush(i, TRUE) /\ since' = accepted
     \/ CacheFlush(i, FALSE) /\ UNCHANGED since
  /\ UNCHANGED <<vars, view, disk, writes, accepted, flushFailed>>

-----------------------------------------------------------------------------
(* The host. *)

\* The host writes a block of the image to stable storage when it pleases.
HostWriteBack(b) ==
  /\ disk[b] # image[b]
  /\ disk' = [disk EXCEPT ![b] = image[b]]
  /\ UNCHANGED <<vars, view, image, writes, accepted, since, flushFailed>>

\* The process dies, with its counter, its instances and the tables and the
\* cache of lwext4; the image stays as it is.
ProcessCrash ==
  /\ \E i \in Instances : pc[i] \notin {"idle", "gone"}
  /\ pc' = [i \in Instances |-> IF pc[i] = "idle" THEN "idle" ELSE "gone"]
  /\ wrapper' = [i \in Instances |-> IF pc[i] = "idle" THEN "none" ELSE "freed"]
  /\ counter' = 0
  /\ inUmount' = [i \in Instances |-> FALSE]
  /\ bdevices' = {} /\ mountpoints' = {} /\ journals' = {} /\ opened' = {}
  /\ view' = image
  /\ UNCHANGED <<id, readOnly, journalActive, result, unregFailed,
                 image, disk, writes, accepted, since, flushFailed>>

-----------------------------------------------------------------------------
DNext ==
  \/ \E i \in Instances :
       \/ \E ro \in BOOLEAN : OpenImage(i, ro)
       \/ OtherCall(i)
       \/ FlushOnTeardown(i) \/ ReleaseOk(i) \/ ReleaseErr(i)
       \/ \E b \in Blocks : Write(i, b) \/ WriteBack(i, b)
       \/ Sync(i)
  \/ \E b \in Blocks : HostWriteBack(b)
  \/ ProcessCrash

DSpec == DInit /\ [][DNext]_dvars

-----------------------------------------------------------------------------
(* Properties *)

\* What sync accepted survives the process: at every moment the image holds,
\* for every block, the content it had when sync last returned Ok or one that
\* was written later, whatever was evicted, flushed in part or cut off by a
\* crash since then.
SyncSurvivesCrash == \A b \in Blocks : image[b] \in since[b]

\* A teardown whose flush did not fail loses nothing: when the wrapper is
\* freed, after umount and Drop or after Drop alone, and whether ext4_umount
\* succeeded, failed, or failed and was tried again, every block of the image
\* has the content the last write gave it.
TeardownKeepsData ==
  [][\A i \in Instances :
       pc[i] = "unregister" /\ pc'[i] = "gone" /\ i \notin flushFailed
         => \A b \in Blocks : image'[b] \in accepted[b]]_dvars

\* fs.rs:411: sync will "Flush all pending writes to disk": what a sync that
\* returned Ok accepted is on stable storage.
SyncDurable == \A b \in Blocks : disk[b] \in since[b]

\* fs.rs:117: umount "flushes all pending writes": once it has returned Ok the
\* image holds what was written (until Drop ends and the image is reused).
UmountFlushes ==
  \A i \in Instances : result[i] = "Ok" /\ pc[i] # "gone" =>
    \A b \in Blocks : image[b] \in accepted[b]

-----------------------------------------------------------------------------
(* The inductive invariant behind SyncSurvivesCrash. *)

Active(i) == pc[i] \notin {"idle", "gone"}

SingleUser == \A i, j \in Instances : Active(i) /\ Active(j) => i = j

\* Until its teardown an instance reads accepted contents.
ReadYourWrites ==
  (\E i \in Instances : Active(i) /\ pc[i] \notin Teardown)
    => \A b \in Blocks : view[b] \in accepted[b]

DInv ==
  /\ DTypeOK
  /\ SingleUser
  /\ ReadYourWrites
  /\ \A b \in Blocks : view[b] \in since[b] /\ accepted[b] \subseteq since[b]
  /\ SyncSurvivesCrash

-----------------------------------------------------------------------------
(* The inductive invariant behind TeardownKeepsData. *)

AcceptedIn(layer) == \A b \in Blocks : layer[b] \in accepted[b]

\* From ext4_mount on an instance is mounted until its teardown.
MountedBefore == \A i \in Instances : pc[i] \in {"recover", "journal", "mounted"} => Mounted(i)

\* While the mount point stands the cache has what was accepted; the image has
\* it after a flush that worked, and once the mount point is gone.
KeptInTeardown ==
  \A i \in Instances : pc[i] \in Teardown =>
    /\ Mounted(i) => AcceptedIn(view)
    /\ i \notin flushFailed /\ (pc[i] \in {"umount", "unregister"} \/ ~Mounted(i))
         => AcceptedIn(image)

TeardownInv == DInv /\ MountedBefore /\ KeptInTeardown
=============================================================================
