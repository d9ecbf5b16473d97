------------------------------ MODULE Ext4Mount ------------------------------
(***************************************************************************)
(* The life of Ext4Fs values: Ext4Fs::mount, Ext4Fs::umount and the Drop   *)
(* of Ext4Fs (ext4-lwext4/src/fs.rs), against the process-wide tables of   *)
(* the lwext4 C library.                                                   *)
(*                                                                         *)
(* An instance is one call of mount and the Ext4Fs value it returns.       *)
(* Instances are created and torn down by independent threads, so the C    *)
(* calls of different instances interleave; one C call is one step.        *)
(*                                                                         *)
(* umount takes self by value: when its body ends, on success or at an     *)
(* early return, Drop runs the whole teardown a second time.               *)
(*                                                                         *)
(* lwext4 is not part of the repository.  What is assumed of it is what    *)
(* fs.rs relies on: tables are keyed by name, a call on an unknown name    *)
(* fails without effect, and a call may fail whenever the code tests for   *)
(* failure or ignores it.  A failed ext4_umount or ext4_device_unregister  *)
(* may or may not have released its entry.                                 *)
(***************************************************************************)
EXTENDS Naturals

CONSTANTS Instances     \* the Ext4Fs values, one per call of mount

VARIABLES
  counter,       \* DEVICE_COUNTER
  pc,            \* the next C call of each instance's owner
  id,            \* the number in device_name and mount_point (0 until drawn)
  readOnly,      \* Ext4Fs.read_only
  journalActive, \* Ext4Fs.journal_active
  wrapper,       \* the BlockDeviceWrapper: "none", "live" or "freed"
  inUmount,      \* the teardown under way is umount's, not Drop's
  result,        \* what umount returned: "none", "Ok" or "Err"
  bdevices,      \* lwext4: registered <<name, device>> pairs
  mountpoints,   \* lwext4: mounted <<name, device>> pairs
  journals,      \* lwext4: devices with a running journal
  opened,        \* devices between BlockDevice::open and BlockDevice::close
  unregFailed    \* history: devices the last, ignored unregister failed to delete

rustVars == <<counter, id, readOnly, journalActive, wrapper, inUmount, result>>
cVars    == <<bdevices, mountpoints, journals, opened>>
vars     == <<rustVars, pc, cVars, unregFailed>>

Teardown == {"stop", "flush", "umount", "unregister"}
PCs == {"idle", "register", "mount", "unwind", "recover", "journal",
        "mounted", "gone"} \cup Teardown

TypeOK ==
  /\ counter \in Nat
  /\ pc \in [Instances -> PCs]
  /\ id \in [Instances -> Nat]
  /\ readOnly \in [Instances -> BOOLEAN]
  /\ journalActive \in [Instances -> BOOLEAN]
  /\ wrapper \in [Instances -> {"none", "live", "freed"}]
  /\ inUmount \in [Instances -> BOOLEAN]
  /\ result \in [Instances -> {"none", "Ok", "Err"}]
  /\ bdevices \subseteq Nat \X Instances
  /\ mountpoints \subseteq Nat \X Instances
  /\ journals \subseteq Instances
  /\ opened \subseteq Instances
  /\ unregFailed \subseteq Instances

Init ==
  /\ counter = 0
  /\ pc = [i \in Instances |-> "idle"]
  /\ id = [i \in Instances |-> 0]
  /\ readOnly = [i \in Instances |-> FALSE]
  /\ journalActive = [i \in Instances |-> FALSE]
  /\ wrapper = [i \in Instances |-> "none"]
  /\ inUmount = [i \in Instances |-> FALSE]
  /\ result = [i \in Instances |-> "none"]
  /\ bdevices = {}
  /\ mountpoints = {}
  /\ journals = {}
  /\ opened = {}
  /\ unregFailed = {}

-----------------------------------------------------------------------------
(* Control and the name-keyed tables. *)

Moves(i, from, to) == pc[i] = from /\ pc' = [pc EXCEPT ![i] = to]

Frees(i) == wrapper' = [wrapper EXCEPT ![i] = "freed"]

\* The devices a table holds under the name of instance i.
Named(table, i) == {e[2] : e \in {f \in table : f[1] = id[i]}}

\* The table once the entries under the name of instance i are deleted.
Without(table, i) == {e \in table : e[1] # id[i]}

\* ext4_device_unregister, returning 0 or an error.  Nobody looks at the error
\* of the call that comes last before the wrapper is freed: the model records
\* the device it left registered.
DeviceUnregister(i, ok) ==
  IF ok THEN Named(bdevices, i) # {} /\ bdevices' = Without(bdevices, i)
        ELSE bdevices' \in {bdevices, Without(bdevices, i)}

LastUnregister(i, ok) ==
  /\ DeviceUnregister(i, ok)
  /\ unregFailed' = IF ok THEN unregFailed ELSE unregFailed \cup Named(bdevices', i)

-----------------------------------------------------------------------------
(* Ext4Fs::mount *)

\* Mutant: the counter is read but not advanced.
BeginMountSameId(i, ro) ==
  /\ Moves(i, "idle", "register")
  /\ id' = [id EXCEPT ![i] = counter]
  /\ wrapper' = [wrapper EXCEPT ![i] = "live"]
  /\ readOnly' = [readOnly EXCEPT ![i] = ro]
  /\ UNCHANGED <<counter, journalActive, inUmount, result,
                 bdevices, mountpoints, journals, opened, unregFailed>>

\* Draws the id with fetch_add, formats both names from it and boxes the
\* device in its wrapper.
BeginMount(i, ro) ==
  /\ Moves(i, "idle", "register")
  /\ id' = [id EXCEPT ![i] = counter]
  /\ counter' = counter + 1
  /\ wrapper' = [wrapper EXCEPT ![i] = "live"]
  /\ readOnly' = [readOnly EXCEPT ![i] = ro]
  /\ UNCHANGED <<journalActive, inUmount, result,
                 bdevices, mountpoints, journals, opened, unregFailed>>

\* Mutant: the entry's two halves are swapped.
RegisterSwapped(i) ==
  /\ \/ /\ Moves(i, "register", "mount")
        /\ bdevices' = bdevices \cup {<<i, id[i]>>}
        /\ UNCHANGED wrapper
     \/ /\ Moves(i, "register", "gone")
        /\ Frees(i)
        /\ UNCHANGED bdevices
  /\ UNCHANGED <<counter, id, readOnly, journalActive, inUmount, result,
                 mountpoints, journals, opened, unregFailed>>

\* ext4_device_register.  On an error mount returns and drops the wrapper.
Register(i) ==
  /\ \/ /\ Moves(i, "register", "mount")
        /\ Named(bdevices, i) = {}
        /\ bdevices' = bdevices \cup {<<id[i], i>>}
        /\ UNCHANGED wrapper
     \/ /\ Moves(i, "register", "gone")
        /\ Frees(i)
        /\ UNCHANGED bdevices
  /\ UNCHANGED <<counter, id, readOnly, journalActive, inUmount, result,
                 mountpoints, journals, opened, unregFailed>>

\* Mutant: mount returns the error without taking its registration back.
MountDeviceNoUnwind(i) ==
  /\ \/ /\ Moves(i, "mount", "recover")
        /\ Named(mountpoints, i) = {}
        /\ \E d \in Named(bdevices, i) :
             /\ mountpoints' = mountpoints \cup {<<id[i], d>>}
             /\ opened' = opened \cup {d}
        /\ UNCHANGED wrapper
     \/ /\ Moves(i, "mount", "gone")
        /\ Frees(i)
        /\ UNCHANGED <<mountpoints, opened>>
  /\ UNCHANGED <<counter, id, readOnly, journalActive, inUmount, result,
                 bdevices, journals, unregFailed>>

\* ext4_mount: finds the device by name, opens it (blockdev_open) and enters
\* the mount point.  On an error the device is left closed and unmounted.
MountDevice(i) ==
  /\ \/ /\ Moves(i, "mount", "recover")
        /\ Named(mountpoints, i) = {}
        /\ \E d \in Named(bdevices, i) :
             /\ mountpoints' = mountpoints \cup {<<id[i], d>>}
             /\ opened' = opened \cup {d}
     \/ /\ Moves(i, "mount", "unwind")
        /\ UNCHANGED <<mountpoints, opened>>
  /\ UNCHANGED <<rustVars, bdevices, journals, unregFailed>>

\* The error branch of mount: unregister the device, whatever that returns,
\* return and drop the wrapper.
UnwindMount(i) ==
  /\ Moves(i, "unwind", "gone")
  /\ \E ok \in BOOLEAN : LastUnregister(i, ok)
  /\ Frees(i)
  /\ UNCHANGED <<counter, id, readOnly, journalActive, inUmount, result,
                 mountpoints, journals, opened>>

\* ext4_recover, on a read-only mount as well.  Its result is dropped, so what
\* it does to the journal's contents decides nothing here.
Recover(i) ==
  /\ Moves(i, "recover", "journal")
  /\ UNCHANGED <<rustVars, cVars, unregFailed>>

\* Mutant: the journal is started on read-only mounts too.
StartJournalAlways(i) ==
  /\ Moves(i, "journal", "mounted")
  /\ \/ /\ Named(mountpoints, i) # {}
        /\ journals' = journals \cup Named(mountpoints, i)
        /\ journalActive' = [journalActive EXCEPT ![i] = ~readOnly[i]]
     \/ UNCHANGED <<journals, journalActive>>
  /\ UNCHANGED <<counter, id, readOnly, wrapper, inUmount, result,
                 bdevices, mountpoints, opened, unregFailed>>

\* ext4_journal_start unless read-only; mount then returns Ok in any case.
StartJournal(i) ==
  /\ Moves(i, "journal", "mounted")
  /\ \/ /\ ~readOnly[i]
        /\ Named(mountpoints, i) # {}
        /\ journals' = journals \cup Named(mountpoints, i)
        /\ journalActive' = [journalActive EXCEPT ![i] = TRUE]
     \/ UNCHANGED <<journals, journalActive>>
  /\ UNCHANGED <<counter, id, readOnly, wrapper, inUmount, result,
                 bdevices, mountpoints, opened, unregFailed>>

-----------------------------------------------------------------------------
(* Ext4Fs::umount and Drop for Ext4Fs: the same four calls.  Only umount   *)
(* looks at the results, and its early returns lead to Drop.               *)

\* umount(self) is called, or the value goes out of scope without it.
BeginTeardown(i, explicit) ==
  /\ Moves(i, "mounted", "stop")
  /\ inUmount' = [inUmount EXCEPT ![i] = explicit]
  /\ UNCHANGED <<counter, id, readOnly, journalActive, wrapper, result,
                 cVars, unregFailed>>

\* umount's body returns r and self is dropped.
ReturnsToDrop(i, r) ==
  /\ pc' = [pc EXCEPT ![i] = "stop"]
  /\ inUmount' = [inUmount EXCEPT ![i] = FALSE]
  /\ result' = [result EXCEPT ![i] = r]

\* ext4_journal_stop if journal_active; its result is dropped.
StopJournal(i) ==
  /\ Moves(i, "stop", "flush")
  /\ \/ /\ journalActive[i]
        /\ journals' = journals \ Named(mountpoints, i)
     \/ UNCHANGED journals
  /\ UNCHANGED <<rustVars, bdevices, mountpoints, opened, unregFailed>>

\* ext4_cache_flush; its result is dropped (Ext4Durable adds the data).
FlushCache(i) ==
  /\ Moves(i, "flush", "umount")
  /\ UNCHANGED <<rustVars, cVars, unregFailed>>

\* ext4_umount returned 0: the entry is deleted and the device closed.
UmountOk(i) ==
  /\ Moves(i, "umount", "unregister")
  /\ Named(mountpoints, i) # {}
  /\ mountpoints' = Without(mountpoints, i)
  /\ opened' = opened \ Named(mountpoints, i)
  /\ UNCHANGED <<rustVars, bdevices, journals, unregFailed>>

\* Mutant: umount does not look at the result of ext4_umount.
UmountErrUnchecked(i) ==
  /\ Moves(i, "umount", "unregister")
  /\ \/ UNCHANGED <<mountpoints, opened>>
     \/ /\ mountpoints' = Without(mountpoints, i)
        /\ opened' \in {opened, opened \ Named(mountpoints, i)}
  /\ UNCHANGED <<rustVars, bdevices, journals, unregFailed>>

\* ext4_umount failed, before or after it released the mount point.  umount
\* returns the error; Drop goes on to unregister the device.
UmountErr(i) ==
  /\ pc[i] = "umount"
  /\ \/ UNCHANGED <<mountpoints, opened>>
     \/ /\ mountpoints' = Without(mountpoints, i)
        /\ opened' \in {opened, opened \ Named(mountpoints, i)}
  /\ \/ inUmount[i] /\ ReturnsToDrop(i, "Err")
     \/ /\ ~inUmount[i]
        /\ Moves(i, "umount", "unregister")
        /\ UNCHANGED <<inUmount, result>>
  /\ UNCHANGED <<counter, id, readOnly, journalActive, wrapper,
                 bdevices, journals, unregFailed>>

\* ext4_device_unregister, and what follows it.  umount returns its result;
\* Drop ignores it, and the wrapper is freed with the other fields.
Unregister(i) ==
  /\ pc[i] = "unregister"
  /\ \E ok \in BOOLEAN :
     \/ /\ inUmount[i]
        /\ DeviceUnregister(i, ok)
        /\ ReturnsToDrop(i, IF ok THEN "Ok" ELSE "Err")
        /\ UNCHANGED <<wrapper, unregFailed>>
     \/ /\ ~inUmount[i]
        /\ LastUnregister(i, ok)
        /\ Moves(i, "unregister", "gone")
        /\ Frees(i)
        /\ UNCHANGED <<inUmount, result>>
  /\ UNCHANGED <<counter, id, readOnly, journalActive,
                 mountpoints, journals, opened>>

-----------------------------------------------------------------------------
MountStep(i) ==
  \/ Register(i) \/ MountDevice(i) \/ UnwindMount(i)
  \/ Recover(i) \/ StartJournal(i)

TeardownStep(i) ==
  \/ StopJournal(i) \/ FlushCache(i)
  \/ UmountOk(i) \/ UmountErr(i) \/ Unregister(i)

Next ==
  \E i \in Instances :
    \/ \E ro \in BOOLEAN : BeginMount(i, ro)
    \/ MountStep(i)
    \/ \E explicit \in BOOLEAN : BeginTeardown(i, explicit)
    \/ TeardownStep(i)

Spec == Init /\ [][Next]_vars

\* mount, umount and drop are straight-line code whose C calls return, so a
\* call that was begun goes on.  Nothing obliges a program to begin one.
FairSpec ==
  /\ Spec
  /\ \A i \in Instances : WF_vars(MountStep(i)) /\ WF_vars(TeardownStep(i))

-----------------------------------------------------------------------------
(* Properties *)

\* While the caller holds a mounted Ext4Fs, its device name and its mount
\* point resolve to its own, open device: neither another mount nor the second
\* teardown of an instance that was already unmounted (fs.rs umount, then Drop)
\* ever takes them away or redirects them.
OwnEntries ==
  \A i \in Instances : pc[i] = "mounted" =>
    /\ Named(bdevices, i) = {i}
    /\ Named(mountpoints, i) = {i}
    /\ i \in opened

\* Every exit of mount and of the teardown unregisters before it frees: the
\* registry of lwext4 holds a device whose BlockDeviceWrapper was freed only
\* when the ext4_device_unregister before the free failed, whose result mount's
\* error branch and Drop both ignore (fs.rs:88, fs.rs:427).
RegisteredAlive == \A e \in bdevices : wrapper[e[2]] = "live" \/ e[2] \in unregFailed

\* When umount returned Ok nothing of the instance is left in lwext4 and its
\* device was closed, whatever the second teardown does afterwards.
UmountOkReleases ==
  \A i \in Instances : result[i] = "Ok" =>
    /\ \A e \in bdevices \cup mountpoints : e[2] # i
    /\ i \notin opened

\* A running journal belongs to a writable instance that knows it has to stop
\* it (journal_active), so no journal is left to run by the teardown's test.
JournalKnown == \A i \in journals : journalActive[i] /\ ~readOnly[i]

\* A mount that was begun ends with a usable instance or with the wrapper
\* freed and nothing left registered, unless the last ext4_device_unregister
\* failed; so does every teardown.
CallsSettle ==
  \A i \in Instances :
    (pc[i] \notin {"idle", "mounted", "gone"}) ~>
      \/ pc[i] = "mounted"
      \/ /\ wrapper[i] = "freed"
         /\ i \in unregFailed \/ \A e \in bdevices : e[2] # i

\* Interleaved mounts, unmounts and drops implement MountRegistry: an instance
\* that is held stays reachable under its names until its own owner lets go.
Registry ==
  INSTANCE MountRegistry WITH
    held <- {i \in Instances : /\ pc[i] = "mounted"
                               /\ Named(bdevices, i) = {i}
                               /\ Named(mountpoints, i) = {i}},
    released <- {i \in Instances : pc[i] \in Teardown \cup {"gone"}}

ImplementsRegistry == Registry!Spec

\* fs.rs:49: the wrapper is "kept alive for the C library": no mount point of
\* lwext4 refers to a device whose wrapper was freed.
MountedAlive == \A e \in mountpoints : wrapper[e[2]] = "live"

-----------------------------------------------------------------------------
(* The inductive invariant behind OwnEntries, RegisteredAlive,             *)
(* UmountOkReleases and JournalKnown.                                      *)

NoEntry(table, i) == \A e \in table : e[2] # i

\* Every id drawn from DEVICE_COUNTER lies below it and has one owner.
DrawnOnce ==
  /\ \A i \in Instances : pc[i] # "idle" => id[i] < counter
  /\ \A i, j \in Instances :
       pc[i] # "idle" /\ pc[j] # "idle" /\ id[i] = id[j] => i = j

\* An entry carries the name of its device's instance, and appears only after
\* the call that makes it; a registration outlives its owner's last call only
\* if that call failed to delete it.
EntriesOwned ==
  /\ \A e \in bdevices :
       /\ e[1] = id[e[2]]
       /\ pc[e[2]] \notin {"idle", "register"}
       /\ pc[e[2]] = "gone" => e[2] \in unregFailed
  /\ \A e \in mountpoints :
       e[1] = id[e[2]] /\ pc[e[2]] \notin {"idle", "register", "mount", "unwind"}

\* What mount has acquired by the time it makes its next call.
Acquired ==
  \A i \in Instances :
    /\ pc[i] \notin {"idle", "gone"} => wrapper[i] = "live"
    /\ pc[i] \in {"mount", "unwind", "recover", "journal", "mounted"}
         => <<id[i], i>> \in bdevices
    /\ pc[i] \in {"recover", "journal", "mounted"}
         => <<id[i], i>> \in mountpoints /\ i \in opened

\* Where a teardown can be: umount's pass has no result yet and holds no mount
\* point once ext4_umount succeeded; after an Ok nothing is left to release.
TeardownState ==
  \A i \in Instances :
    /\ inUmount[i] => pc[i] \in Teardown /\ result[i] = "none"
    /\ inUmount[i] /\ pc[i] = "unregister" => NoEntry(mountpoints, i) /\ i \notin opened
    /\ result[i] # "none" => pc[i] \in Teardown \cup {"gone"}
    /\ result[i] = "Ok" => /\ NoEntry(bdevices, i)
                           /\ NoEntry(mountpoints, i)
                           /\ i \notin opened

\* A flagged journal exists only from the last call of mount on.
JournalState ==
  /\ JournalKnown
  /\ \A i \in Instances : journalActive[i] => pc[i] \in {"mounted", "gone"} \cup Teardown

\* A name is in use from the draw of its number until the value is gone, and
\* longer while lwext4 has an entry of it; names in use have one owner.
\* Unlike DrawnOnce this outlives the process, whose counter starts again.
InUse(i) ==
  pc[i] \notin {"idle", "gone"} \/ ~NoEntry(bdevices, i) \/ ~NoEntry(mountpoints, i)

NamesOwned ==
  /\ \A i \in Instances : InUse(i) => id[i] < counter
  /\ \A i, j \in Instances : InUse(i) /\ InUse(j) /\ id[i] = id[j] => i = j

LifeInv ==
  /\ TypeOK
  /\ NamesOwned
  /\ EntriesOwned
  /\ Acquired
  /\ TeardownState
  /\ JournalState

IInv ==
  /\ TypeOK
  /\ DrawnOnce
  /\ EntriesOwned
  /\ Acquired
  /\ TeardownState
  /\ JournalState
=============================================================================
